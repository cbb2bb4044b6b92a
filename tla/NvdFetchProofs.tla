--------------------------- MODULE NvdFetchProofs ---------------------------
(***************************************************************************)
(* Proofs about NvdFetch for every configuration and every server: the     *)
(* body is one answer in a buffer it fits into, a call is bounded in       *)
(* requests and in time, and the API key goes to NVD over https only.      *)
(***************************************************************************)
EXTENDS NvdFetch, TLAPS, WellFoundedInduction

(* What the buffer holds comes from the request that is under way, or from *)
(* the one whose body is returned.                                         *)
OneAnswerInv ==
  /\ status # "none" => pc = "done"
  /\ pc = "ready" => from = {}
  /\ pc = "body" \/ status = "ok" => from \subseteq {requests}

(* How far a call has got: an attempt is one request and, if another one   *)
(* follows, one delay.                                                     *)
ProgressInv ==
  /\ pc = "idle" => attempt = 0 /\ requests = 0 /\ slept = 0
  /\ pc \in {"attempt", "ready"} =>
       requests = attempt /\ attempt <= MaxRetries /\ slept <= attempt * MaxDelay
  /\ pc \in {"body", "failed"} =>
       requests = attempt + 1 /\ attempt <= MaxRetries /\ slept <= attempt * MaxDelay
  /\ pc = "sleep" =>
       requests = attempt /\ attempt <= MaxRetries /\ slept + delay <= attempt * MaxDelay
  /\ pc = "done" => slept <= MaxRetries * MaxDelay

(* A call carries its caller's choice through every retry, and the headers *)
(* of an attempt are those that choice, the key and the URL allow.         *)
KeyInv ==
  /\ pc \notin {"idle", "done"} => (attach <=> feed = "nvd")
  /\ pc \in {"ready", "body"} => (header = "none" <=> ~(attach /\ SendsKey))

IInv == TypeOK /\ BodyFits /\ OneAnswerInv /\ ProgressInv /\ KeyInv

----------------------------------------------------------------------------
(* Induction over the natural numbers, as the existence of a least         *)
(* counterexample.                                                         *)
LEMMA Least ==
  ASSUME NEW S \in SUBSET Nat, S # {}
  PROVE  \E x \in S : \A y \in S : x <= y
<1>1. IsWellFoundedOn(OpToRel(<, Nat), Nat)
  BY NatLessThanWellFounded
<1>2. PICK x \in S : \A y \in S : ~(<<y, x>> \in OpToRel(<, Nat))
  BY <1>1, WFMin
<1>3. \A y \in S : ~(y < x)
  BY <1>2 DEF OpToRel
<1> QED  BY <1>3

(* The first n values of an iteration.                                     *)
Prefixes(T, z, step, n) ==
  {g \in [0..n -> T] : g[0] = z /\ \A k \in 0..(n - 1) : g[k + 1] = step[g[k]]}

(* There are some: by the least length for which there are none.            *)
LEMMA PrefixExists ==
  ASSUME NEW T, NEW z \in T, NEW step \in [T -> T], NEW n \in Nat
  PROVE  Prefixes(T, z, step, n) # {}
<1> DEFINE S == {k \in Nat : Prefixes(T, z, step, k) = {}}
<1> SUFFICES ASSUME S # {} PROVE FALSE
  OBVIOUS
<1>1. PICK m \in S : \A y \in S : m <= y
  BY Least
<1>2. m # 0
  <2>1. [k \in 0..0 |-> z] \in Prefixes(T, z, step, 0)
    BY DEF Prefixes
  <2> QED  BY <2>1
<1>3. PICK g : g \in Prefixes(T, z, step, m - 1)
  BY <1>1, <1>2
<1> DEFINE h == [k \in 0..m |-> IF k = m THEN step[g[m - 1]] ELSE g[k]]
<1>4. g \in [0..(m - 1) -> T] /\ g[0] = z /\ \A k \in 0..(m - 2) : g[k + 1] = step[g[k]]
  BY <1>3, <1>2 DEF Prefixes
<1>5. h \in [0..m -> T] /\ h[0] = z
  BY <1>2, <1>4
<1>6. ASSUME NEW k \in 0..(m - 1) PROVE h[k + 1] = step[h[k]]
  <2>1. CASE k = m - 1
    BY <1>2, <1>4, <2>1
  <2>2. CASE k # m - 1
    BY <1>2, <1>4, <2>2
  <2> QED  BY <2>1, <2>2
<1>7. h \in Prefixes(T, z, step, m)
  BY <1>5, <1>6 DEF Prefixes
<1> QED  BY <1>1, <1>7

(* Two of them agree as far as both go.                                    *)
LEMMA PrefixesAgree ==
  ASSUME NEW T, NEW z \in T, NEW step \in [T -> T], NEW n \in Nat, NEW m \in Nat,
         NEW g \in Prefixes(T, z, step, n), NEW h \in Prefixes(T, z, step, m),
         NEW i \in Nat, i <= n, i <= m
  PROVE  g[i] = h[i]
<1> DEFINE S == {k \in Nat : k <= n /\ k <= m /\ g[k] # h[k]}
<1> SUFFICES ASSUME S # {} PROVE FALSE
  OBVIOUS
<1>1. PICK k \in S : \A y \in S : k <= y
  BY Least
<1>2. k # 0
  BY <1>1 DEF Prefixes
<1>3. g[k - 1] = h[k - 1]
  BY <1>1, <1>2
<1>4. g[k - 1 + 1] = step[g[k - 1]] /\ h[k - 1 + 1] = step[h[k - 1]]
  BY <1>1, <1>2 DEF Prefixes
<1>5. k - 1 + 1 = k
  OBVIOUS
<1> QED  BY <1>1, <1>3, <1>4, <1>5

(* A function over the naturals can be defined by its first value and the  *)
(* step from each to the next.                                             *)
LEMMA Iterates ==
  ASSUME NEW T, NEW z \in T, NEW step \in [T -> T]
  PROVE  \E f \in [Nat -> T] : f[0] = z /\ \A n \in Nat : f[n + 1] = step[f[n]]
<1> DEFINE G(n) == CHOOSE g : g \in Prefixes(T, z, step, n)
           f == [n \in Nat |-> G(n)[n]]
<1>1. \A n \in Nat : G(n) \in Prefixes(T, z, step, n)
  BY PrefixExists
<1>2. \A n \in Nat : G(n)[n] \in T
  BY <1>1 DEF Prefixes
<1>3. f \in [Nat -> T]
  BY <1>2
<1>4. f[0] = z
  BY <1>1 DEF Prefixes
<1>5. ASSUME NEW n \in Nat PROVE f[n + 1] = step[f[n]]
  <2>1. G(n + 1)[n] = G(n)[n]
    <3>1. n + 1 \in Nat /\ n <= n /\ n <= n + 1
      OBVIOUS
    <3>2. G(n + 1) \in Prefixes(T, z, step, n + 1) /\ G(n) \in Prefixes(T, z, step, n)
      BY <1>1, <3>1
    <3> HIDE DEF G
    <3> QED  BY <3>1, <3>2, PrefixesAgree
  <2>2. G(n + 1)[n + 1] = step[G(n + 1)[n]]
    <3>1. n + 1 \in Nat /\ n \in 0..((n + 1) - 1)
      OBVIOUS
    <3>2. G(n + 1) \in Prefixes(T, z, step, n + 1)
      BY <1>1, <3>1
    <3> HIDE DEF G
    <3> QED  BY <3>1, <3>2 DEF Prefixes
  <2> QED  BY <2>1, <2>2
<1> HIDE DEF f
<1> QED  BY <1>3, <1>4, <1>5

----------------------------------------------------------------------------
(* The smaller and the larger of two numbers.                              *)
LEMMA MinOfTwo ==
  ASSUME NEW a \in Int, NEW b \in Int
  PROVE  Min({a, b}) \in {a, b} /\ Min({a, b}) <= a /\ Min({a, b}) <= b
<1>1. \E x \in {a, b} : \A y \in {a, b} : x <= y
  BY DEF Min
<1> QED  BY <1>1 DEF Min

(* The larger of two numbers.                                               *)
LEMMA MaxOfTwo ==
  ASSUME NEW a \in Int, NEW b \in Int
  PROVE  Max({a, b}) \in {a, b} /\ Max({a, b}) >= a /\ Max({a, b}) >= b
<1>1. \E x \in {a, b} : \A y \in {a, b} : x >= y
  OBVIOUS
<1> QED  BY <1>1 DEF Max

(* The doublings unfold, and outgrow every number.                         *)
LEMMA DoublingsUnfold ==
  /\ Doublings \in [Nat -> Nat]
  /\ Doublings[0] = 1
  /\ \A k \in Nat : Doublings[k + 1] = 2 * Doublings[k]
<1> DEFINE step == [x \in Nat |-> 2 * x]
           IsIt(f) == f = [k \in Nat |-> IF k = 0 THEN 1 ELSE 2 * f[k - 1]]
           one == 1
           T == Nat
<1>1. step \in [T -> T] /\ one \in T
  OBVIOUS
<1>2. PICK f \in [Nat -> T] : f[0] = one /\ \A n \in Nat : f[n + 1] = step[f[n]]
  <2> HIDE DEF step, one, T
  <2> QED  BY <1>1, Iterates
<1>3. \A k \in Nat : f[k] = IF k = 0 THEN 1 ELSE 2 * f[k - 1]
  <2>1. ASSUME NEW k \in Nat, k # 0 PROVE f[k] = 2 * f[k - 1]
    <3>1. k - 1 \in Nat /\ (k - 1) + 1 = k
      BY <2>1
    <3>2. f[(k - 1) + 1] = step[f[k - 1]]
      BY <1>2, <3>1
    <3> QED  BY <3>1, <3>2
  <2> QED  BY <1>2, <2>1
<1>4. IsIt(f)
  BY <1>2, <1>3
<1>5. IsIt(Doublings)
  BY <1>4 DEF Doublings
<1>6. \A k \in Nat : Doublings[k] = IF k = 0 THEN 1 ELSE 2 * Doublings[k - 1]
  BY <1>5
<1>7. \A k \in Nat : Doublings[k] = f[k]
  <2> DEFINE S == {k \in Nat : Doublings[k] # f[k]}
  <2> SUFFICES ASSUME S # {} PROVE FALSE
    OBVIOUS
  <2>1. PICK m \in S : \A y \in S : m <= y
    BY Least
  <2>2. m # 0
    BY <1>3, <1>6
  <2>3. Doublings[m - 1] = f[m - 1]
    BY <2>1, <2>2
  <2> QED  BY <1>3, <1>6, <2>1, <2>2, <2>3
<1>8. DOMAIN Doublings = Nat /\ Doublings = [k \in Nat |-> Doublings[k]]
  BY <1>5
<1>9. Doublings = f
  BY <1>2, <1>7, <1>8
<1> QED  BY <1>2, <1>9

(* n doublings reach at least n.                                            *)
LEMMA DoublingsGrow ==
  ASSUME NEW n \in Nat
  PROVE  Doublings[n] >= n /\ Doublings[n] >= 1
<1> DEFINE S == {k \in Nat : ~(Doublings[k] >= k /\ Doublings[k] >= 1)}
<1> SUFFICES ASSUME S # {} PROVE FALSE
  OBVIOUS
<1>1. PICK m \in S : \A y \in S : m <= y
  BY Least
<1>2. m # 0
  BY DoublingsUnfold
<1>3. m - 1 \in Nat /\ m - 1 \notin S /\ (m - 1) + 1 = m
  BY <1>1, <1>2
<1>4. Doublings[m - 1] >= m - 1 /\ Doublings[m - 1] >= 1 /\ Doublings[m - 1] \in Nat
  BY <1>3, DoublingsUnfold
<1>5. Doublings[m] = 2 * Doublings[m - 1]
  BY <1>3, DoublingsUnfold
<1> QED  BY <1>1, <1>4, <1>5

(* The new allocation is large enough and within the cap.                  *)
LEMMA GrownIs ==
  ASSUME alloc \in Nat, NEW need \in Nat, need <= HardCap + 1
  PROVE  Grown(need) \in Nat /\ Grown(need) >= need /\ Grown(need) <= HardCap + 1
<1> DEFINE base  == IF alloc = 0 THEN FirstAlloc ELSE alloc
           sizes == {b \in {base * Doublings[k] : k \in 0..need} : b >= need}
<1>1. base \in Nat /\ base >= 1
  BY FetchAssumption
<1> HIDE DEF base
<1>2. \A k \in Nat : base * Doublings[k] \in Nat
  BY <1>1, DoublingsUnfold
<1>3. sizes \in SUBSET Nat
  BY <1>2
<1>4. base * Doublings[need] \in sizes
  <2>1. Doublings[need] \in Nat /\ Doublings[need] >= need
    BY DoublingsUnfold, DoublingsGrow
  <2>2. base * Doublings[need] >= need
    BY <1>1, <2>1
  <2> QED  BY <2>2
<1>5. Min(sizes) \in sizes
  <2> HIDE DEF sizes
  <2>1. \E x \in sizes : \A y \in sizes : x <= y
    BY <1>3, <1>4, Least
  <2> QED  BY <2>1 DEF Min
<1>6. Min(sizes) \in Nat /\ Min(sizes) >= need
  BY <1>3, <1>5
<1>7. Grown(need) = Min({Min(sizes), HardCap + 1})
  BY DEF Grown, base
<1> HIDE DEF sizes
<1> QED  BY <1>6, <1>7, MinOfTwo, FetchAssumption

(* The backoff never passes its ceiling.                                   *)
LEMMA BackoffIs ==
  ASSUME NEW n \in Nat
  PROVE  Backoff[n] \in 0..BackoffMax
<1> DEFINE first == Min({BackoffInitial, BackoffMax})
           T     == 0..BackoffMax
           double(x) == IF x >= BackoffMax - x THEN BackoffMax ELSE 2 * x
           step  == [x \in T |-> double(x)]
           IsIt(f) == f = [i \in Nat |-> IF i = 0 THEN first ELSE double(f[i - 1])]
<1>1. first \in T
  <2>1. BackoffInitial \in Int /\ BackoffMax \in Int
    BY FetchAssumption
  <2>2. first \in {BackoffInitial, BackoffMax} /\ first <= BackoffMax
    BY <2>1, MinOfTwo, Zenon
  <2> QED  BY <2>2, FetchAssumption
<1>2. step \in [T -> T]
  BY FetchAssumption
<1>3. PICK f \in [Nat -> T] : f[0] = first /\ \A k \in Nat : f[k + 1] = step[f[k]]
  <2> HIDE DEF step, first, T
  <2> QED  BY <1>1, <1>2, Iterates
<1>4. \A k \in Nat : f[k] = IF k = 0 THEN first ELSE double(f[k - 1])
  <2> HIDE DEF first, T
  <2>1. ASSUME NEW k \in Nat, k # 0 PROVE f[k] = double(f[k - 1])
    <3>1. k - 1 \in Nat /\ (k - 1) + 1 = k
      BY <2>1
    <3>2. f[(k - 1) + 1] = step[f[k - 1]]
      BY <1>3, <3>1
    <3> QED  BY <3>1, <3>2
  <2> QED  BY <1>3, <2>1
<1>5. IsIt(f)
  <2> HIDE DEF first, double
  <2> QED  BY <1>3, <1>4
<1>6. IsIt(Backoff)
  BY <1>5 DEF Backoff
<1>7. \A k \in Nat : Backoff[k] = IF k = 0 THEN first ELSE double(Backoff[k - 1])
  <2> HIDE DEF first, double
  <2> QED  BY <1>6
<1>8. Backoff[n] = f[n]
  <2> HIDE DEF first, double
  <2> DEFINE S == {k \in Nat : Backoff[k] # f[k]}
  <2> SUFFICES ASSUME S # {} PROVE FALSE
    OBVIOUS
  <2>1. PICK m \in S : \A y \in S : m <= y
    BY Least
  <2>2. m # 0
    BY <1>4, <1>7
  <2>3. Backoff[m - 1] = f[m - 1]
    BY <2>1, <2>2
  <2> QED  BY <1>4, <1>7, <2>1, <2>2, <2>3
<1> QED  BY <1>3, <1>8

(* No delay is longer than MaxDelay.                                       *)
LEMMA MaxDelayIs ==
  /\ MaxDelay \in Nat
  /\ MaxDelay >= RetryAfterMax * Second
  /\ MaxDelay >= BackoffMax + BackoffMax \div 4
<1>1. RetryAfterMax * Second \in Nat /\ BackoffMax + BackoffMax \div 4 \in Nat
  BY FetchAssumption
<1> DEFINE a == RetryAfterMax * Second
           b == BackoffMax + BackoffMax \div 4
<1>2. a \in Int /\ b \in Int
  BY <1>1
<1>3. MaxDelay \in {a, b} /\ MaxDelay >= a /\ MaxDelay >= b
  BY <1>2, MaxOfTwo, Zenon DEF MaxDelay
<1> QED  BY <1>1, <1>3

(* The honoured Retry-After is within the bound.                            *)
LEMMA HonouredIs ==
  ASSUME hint \in Nat
  PROVE  Honoured \in Nat /\ Honoured <= MaxDelay
<1>1. Min({hint, RetryAfterMax}) \in Nat /\ Min({hint, RetryAfterMax}) <= RetryAfterMax
  <2>1. hint \in Int /\ RetryAfterMax \in Int
    BY FetchAssumption
  <2>2. /\ Min({hint, RetryAfterMax}) \in {hint, RetryAfterMax}
        /\ Min({hint, RetryAfterMax}) <= RetryAfterMax
    BY <2>1, MinOfTwo, Zenon
  <2> QED  BY <2>2, FetchAssumption
<1>2. ASSUME NEW a \in Nat, NEW b \in Nat, NEW c \in Nat, a <= b
      PROVE  a * c \in Nat /\ a * c <= b * c
  BY <1>2
<1> QED  BY <1>1, <1>2, MaxDelayIs, FetchAssumption DEF Honoured

(* A back-off with its jitter is within the bound.                          *)
LEMMA JitteredIs ==
  ASSUME NEW n \in Nat, NEW d \in Jittered(n + 1)
  PROVE  d \in Nat /\ d <= MaxDelay
<1>1. (n + 1) - 1 = n /\ Backoff[n] \in 0..BackoffMax
  BY BackoffIs
<1>2. PICK j \in (-(Backoff[n] \div 4))..(Backoff[n] \div 4) : d = Backoff[n] + j
  BY <1>1 DEF Jittered
<1>3. /\ Backoff[n] \div 4 \in Nat /\ Backoff[n] \div 4 <= Backoff[n]
      /\ Backoff[n] \div 4 <= BackoffMax \div 4
  BY <1>1, FetchAssumption
<1> QED  BY <1>1, <1>2, <1>3, MaxDelayIs, FetchAssumption

(* What a retry waits for, whichever rule gives the delay.                 *)
LEMMA DelayIs ==
  ASSUME TypeOK, NEW d, Retry(d)
  PROVE  d \in Nat /\ d <= MaxDelay
<1>1. hint \in Nat /\ attempt \in Nat
  BY FetchAssumption DEF TypeOK
<1> QED  BY <1>1, HonouredIs, JitteredIs DEF Retry

(* The multiples of the longest delay.                                     *)
LEMMA Multiples ==
  ASSUME NEW a \in Nat, NEW b \in Nat, a <= b
  PROVE  /\ a * MaxDelay \in Nat /\ a * MaxDelay <= b * MaxDelay
         /\ (a + 1) * MaxDelay = a * MaxDelay + MaxDelay
<1>1. ASSUME NEW c \in Nat PROVE a * c \in Nat /\ a * c <= b * c /\ (a + 1) * c = a * c + c
  OBVIOUS
<1> QED  BY <1>1, MaxDelayIs

----------------------------------------------------------------------------
(* Everything holds before the first call.                                 *)
LEMMA InitInv == Init => IInv
<1> SUFFICES ASSUME Init PROVE IInv
  OBVIOUS
<1> USE FetchAssumption DEF Init
<1>1. https \in BOOLEAN /\ attach \in BOOLEAN
  BY Zenon
<1>2. TypeOK
  BY <1>1 DEF TypeOK, Attempt, Status, Feed, Header
<1> QED  BY <1>2 DEF IInv, BodyFits, OneAnswerInv, ProgressInv, KeyInv

(* A piece of the body is stored where it fits.                            *)
LEMMA ChunkFits ==
  ASSUME IInv, NEW n \in Chunk, WriteChunk(n)
  PROVE  /\ len' \in 0..HardCap /\ alloc' \in 0..(HardCap + 1)
         /\ len' + 1 <= alloc'
<1> USE FetchAssumption DEF IInv, TypeOK
<1>1. len + n + 1 \in Nat /\ len + n + 1 <= HardCap + 1 /\ len' = len + n /\ alloc \in Nat
  BY DEF WriteChunk, TooLong
<1>2. CASE len + n + 1 > alloc
  <2>1. alloc' = Grown(len + n + 1)
    BY <1>2 DEF WriteChunk
  <2> QED  BY <1>1, <2>1, GrownIs
<1>3. CASE ~(len + n + 1 > alloc)
  BY <1>1, <1>3 DEF WriteChunk
<1> QED  BY <1>2, <1>3

(* Every step of every call keeps every part.                              *)
LEMMA InvStep == IInv /\ [Next]_vars => IInv'
<1> SUFFICES ASSUME IInv, [Next]_vars PROVE IInv'
  OBVIOUS
<1> USE FetchAssumption DEF IInv, buffer, call
<1>1. MaxDelay \in Nat /\ \A a, b \in Nat : a <= b =>
        a * MaxDelay \in Nat /\ a * MaxDelay <= b * MaxDelay
        /\ (a + 1) * MaxDelay = a * MaxDelay + MaxDelay
  BY MaxDelayIs, Multiples
<1>2. MaxDelay' = MaxDelay
  BY DEF MaxDelay
<1>3. CASE UNCHANGED vars
  BY <1>2, <1>3 DEF vars, TypeOK, BodyFits, OneAnswerInv, ProgressInv, KeyInv, SendsKey
<1>4. ASSUME NEW secure \in BOOLEAN, FetchPage(secure) PROVE IInv'
  <2> USE <1>4 DEF FetchPage, Start
  <2>2. TypeOK'
    BY DEF TypeOK, Attempt, Status, Retryable, Feed, Header
  <2>3. BodyFits' /\ OneAnswerInv'
    BY DEF TypeOK, BodyFits, OneAnswerInv
  <2>4. ProgressInv'
    BY <1>1, <1>2 DEF TypeOK, ProgressInv
  <2>5. KeyInv'
    BY DEF TypeOK, KeyInv, SendsKey
  <2> QED  BY <2>2, <2>3, <2>4, <2>5
<1>5. ASSUME NEW f \in Feed \ {"nvd"}, NEW secure \in BOOLEAN, FetchGet(f, secure) PROVE IInv'
  <2> USE <1>5 DEF FetchGet, Start
  <2>2. TypeOK'
    BY DEF TypeOK, Attempt, Status, Retryable, Feed, Header
  <2>3. BodyFits' /\ OneAnswerInv'
    BY DEF TypeOK, BodyFits, OneAnswerInv
  <2>4. ProgressInv'
    BY <1>1, <1>2 DEF TypeOK, ProgressInv
  <2>5. KeyInv'
    BY DEF TypeOK, KeyInv, SendsKey
  <2> QED  BY <2>2, <2>3, <2>4, <2>5
<1>6. ASSUME NEW s \in {"invalid_arg", "transport"}, CallFails(s) PROVE IInv'
  <2> USE <1>6 DEF CallFails, Return
  <2>2. TypeOK'
    BY DEF TypeOK, Attempt, Status, Retryable, Feed, Header
  <2>3. BodyFits' /\ OneAnswerInv'
    BY DEF TypeOK, BodyFits, OneAnswerInv
  <2>4. ProgressInv'
    BY <1>1, <1>2 DEF TypeOK, ProgressInv
  <2>5. KeyInv'
    BY DEF TypeOK, KeyInv, SendsKey
  <2> QED  BY <2>2, <2>3, <2>4, <2>5
<1>7. ASSUME NoHandle PROVE IInv'
  <2> USE <1>7 DEF NoHandle, Return
  <2>2. TypeOK'
    BY DEF TypeOK, Attempt, Status, Retryable, Feed, Header
  <2>3. BodyFits' /\ OneAnswerInv'
    BY DEF TypeOK, BodyFits, OneAnswerInv
  <2>4. ProgressInv'
    BY <1>1, <1>2 DEF TypeOK, ProgressInv
  <2>5. KeyInv'
    BY DEF TypeOK, KeyInv, SendsKey
  <2> QED  BY <2>2, <2>3, <2>4, <2>5
<1>8. ASSUME Prepare PROVE IInv'
  <2> USE <1>8 DEF Prepare, FreshContext
  <2>2. TypeOK'
    BY DEF TypeOK, Attempt, Status, Retryable, Feed, Header
  <2>3. BodyFits' /\ OneAnswerInv'
    BY DEF TypeOK, BodyFits, OneAnswerInv
  <2>4. ProgressInv'
    BY <1>1, <1>2 DEF TypeOK, ProgressInv
  <2>5. KeyInv'
    BY DEF TypeOK, KeyInv, SendsKey
  <2> QED  BY <2>2, <2>3, <2>4, <2>5
<1>9. ASSUME Refused PROVE IInv'
  <2> USE <1>9 DEF Refused, Ends, Return
  <2>2. TypeOK'
    BY DEF TypeOK, Attempt, Status, Retryable, Feed, Header
  <2>3. BodyFits' /\ OneAnswerInv'
    BY DEF TypeOK, BodyFits, OneAnswerInv
  <2>4. ProgressInv'
    BY <1>1, <1>2 DEF TypeOK, ProgressInv
  <2>5. KeyInv'
    BY DEF TypeOK, KeyInv, SendsKey
  <2> QED  BY <2>2, <2>3, <2>4, <2>5
<1>10. ASSUME Request PROVE IInv'
  <2> USE <1>10 DEF Request
  <2>2. TypeOK'
    BY DEF TypeOK, Attempt, Status, Retryable, Feed, Header, ProgressInv
  <2>3. BodyFits' /\ OneAnswerInv'
    BY DEF TypeOK, BodyFits, OneAnswerInv
  <2>4. ProgressInv'
    BY <1>1, <1>2 DEF TypeOK, ProgressInv
  <2>5. KeyInv'
    BY DEF TypeOK, KeyInv, SendsKey
  <2> QED  BY <2>2, <2>3, <2>4, <2>5
<1>11. ASSUME NEW n \in Chunk, WriteChunk(n) PROVE IInv'
  <2> USE <1>11 DEF WriteChunk
  <2>1. len' \in 0..HardCap /\ alloc' \in 0..(HardCap + 1) /\ len' + 1 <= alloc'
    BY ChunkFits
  <2>2. TypeOK'
    BY <2>1 DEF TypeOK, Attempt, Status, Retryable, Feed, Header, ProgressInv
  <2>3. BodyFits' /\ OneAnswerInv'
    BY <2>1 DEF TypeOK, BodyFits, OneAnswerInv
  <2>4. ProgressInv'
    BY <1>1, <1>2 DEF TypeOK, ProgressInv
  <2>5. KeyInv'
    BY DEF TypeOK, KeyInv, SendsKey
  <2> QED  BY <2>2, <2>3, <2>4, <2>5
<1>12. ASSUME NEW n \in Chunk, WriteAborts(n) PROVE IInv'
  <2> USE <1>12 DEF WriteAborts, Ends, Return, FreshContext
  <2>2. TypeOK'
    BY DEF TypeOK, Attempt, Status, Retryable, Feed, Header
  <2>3. BodyFits' /\ OneAnswerInv'
    BY DEF TypeOK, BodyFits, OneAnswerInv
  <2>4. ProgressInv'
    BY <1>1, <1>2 DEF TypeOK, ProgressInv
  <2>5. KeyInv'
    BY DEF TypeOK, KeyInv, SendsKey
  <2> QED  BY <2>2, <2>3, <2>4, <2>5
<1>13. ASSUME TransferFails PROVE IInv'
  <2> USE <1>13 DEF TransferFails, Ends, FreshContext
  <2>2. TypeOK'
    BY DEF TypeOK, Attempt, Status, Retryable, Feed, Header
  <2>3. BodyFits' /\ OneAnswerInv'
    BY DEF TypeOK, BodyFits, OneAnswerInv
  <2>4. ProgressInv'
    BY <1>1, <1>2 DEF TypeOK, ProgressInv
  <2>5. KeyInv'
    BY DEF TypeOK, KeyInv, SendsKey
  <2> QED  BY <2>2, <2>3, <2>4, <2>5
<1>14. ASSUME AnswerOk PROVE IInv'
  <2> USE <1>14 DEF AnswerOk, Ends, Return
  <2>2. TypeOK'
    BY DEF TypeOK, Attempt, Status, Retryable, Feed, Header
  <2>3. BodyFits' /\ OneAnswerInv'
    BY DEF TypeOK, BodyFits, OneAnswerInv
  <2>4. ProgressInv'
    BY <1>1, <1>2 DEF TypeOK, ProgressInv
  <2>5. KeyInv'
    BY DEF TypeOK, KeyInv, SendsKey
  <2> QED  BY <2>2, <2>3, <2>4, <2>5
<1>15. ASSUME Answer5xx PROVE IInv'
  <2> USE <1>15 DEF Answer5xx, Ends, FreshContext
  <2>2. TypeOK'
    BY DEF TypeOK, Attempt, Status, Retryable, Feed, Header
  <2>3. BodyFits' /\ OneAnswerInv'
    BY DEF TypeOK, BodyFits, OneAnswerInv
  <2>4. ProgressInv'
    BY <1>1, <1>2 DEF TypeOK, ProgressInv
  <2>5. KeyInv'
    BY DEF TypeOK, KeyInv, SendsKey
  <2> QED  BY <2>2, <2>3, <2>4, <2>5
<1>16. ASSUME NEW sec \in RetryAfter \cup {0}, Answer429(sec) PROVE IInv'
  <2> USE <1>16 DEF Answer429, Ends, FreshContext
  <2>2. TypeOK'
    BY DEF TypeOK, Attempt, Status, Retryable, Feed, Header
  <2>3. BodyFits' /\ OneAnswerInv'
    BY DEF TypeOK, BodyFits, OneAnswerInv
  <2>4. ProgressInv'
    BY <1>1, <1>2 DEF TypeOK, ProgressInv
  <2>5. KeyInv'
    BY DEF TypeOK, KeyInv, SendsKey
  <2> QED  BY <2>2, <2>3, <2>4, <2>5
<1>17. ASSUME NEW r \in {"auth", "http"}, AnswerRefused(r) PROVE IInv'
  <2> USE <1>17 DEF AnswerRefused, Ends, Return, FreshContext
  <2>2. TypeOK'
    BY DEF TypeOK, Attempt, Status, Retryable, Feed, Header
  <2>3. BodyFits' /\ OneAnswerInv'
    BY DEF TypeOK, BodyFits, OneAnswerInv
  <2>4. ProgressInv'
    BY <1>1, <1>2 DEF TypeOK, ProgressInv
  <2>5. KeyInv'
    BY DEF TypeOK, KeyInv, SendsKey
  <2> QED  BY <2>2, <2>3, <2>4, <2>5
<1>18. ASSUME GiveUp PROVE IInv'
  <2> USE <1>18 DEF GiveUp, Return, Exhausted
  <2>2. TypeOK'
    BY DEF TypeOK, Attempt, Status, Retryable, Feed, Header, ProgressInv
  <2>3. BodyFits' /\ OneAnswerInv'
    BY DEF TypeOK, BodyFits, OneAnswerInv
  <2>4. ProgressInv'
    BY <1>1, <1>2 DEF TypeOK, ProgressInv
  <2>5. KeyInv'
    BY DEF TypeOK, KeyInv, SendsKey
  <2> QED  BY <2>2, <2>3, <2>4, <2>5
<1>19. ASSUME NEW d \in Delay, Retry(d) PROVE IInv'
  <2> USE <1>19 DEF Retry, Exhausted
  <2>1. d \in Nat /\ d <= MaxDelay
    BY DelayIs
  <2>2. TypeOK'
    BY <2>1 DEF TypeOK, Attempt, Status, Retryable, Feed, Header
  <2>3. BodyFits' /\ OneAnswerInv'
    BY DEF TypeOK, BodyFits, OneAnswerInv
  <2>4. ProgressInv'
    BY <1>1, <1>2, <2>1 DEF TypeOK, ProgressInv
  <2>5. KeyInv'
    BY DEF TypeOK, KeyInv, SendsKey
  <2> QED  BY <2>2, <2>3, <2>4, <2>5
<1>20. ASSUME Sleep PROVE IInv'
  <2> USE <1>20 DEF Sleep
  <2>2. TypeOK'
    BY DEF TypeOK, Attempt, Status, Retryable, Feed, Header
  <2>3. BodyFits' /\ OneAnswerInv'
    BY DEF TypeOK, BodyFits, OneAnswerInv
  <2>4. ProgressInv'
    BY <1>1, <1>2 DEF TypeOK, ProgressInv
  <2>5. KeyInv'
    BY DEF TypeOK, KeyInv, SendsKey
  <2> QED  BY <2>2, <2>3, <2>4, <2>5
<1>21. ASSUME NextCall PROVE IInv'
  <2> USE <1>21 DEF NextCall, FreshContext
  <2>2. TypeOK'
    BY DEF TypeOK, Attempt, Status, Retryable, Feed, Header
  <2>3. BodyFits' /\ OneAnswerInv'
    BY DEF TypeOK, BodyFits, OneAnswerInv
  <2>4. ProgressInv'
    BY <1>1, <1>2 DEF TypeOK, ProgressInv
  <2>5. KeyInv'
    BY DEF TypeOK, KeyInv, SendsKey
  <2> QED  BY <2>2, <2>3, <2>4, <2>5
<1> QED
  BY <1>3, <1>4, <1>5, <1>6, <1>7, <1>8, <1>9, <1>10, <1>11, <1>12, <1>13, <1>14, <1>15, <1>16, <1>17, <1>18, <1>19, <1>20, <1>21 DEF Next, Fetch

----------------------------------------------------------------------------
(* The types hold in every state of every call.                            *)
THEOREM TypeCorrect == Spec => []TypeOK
<1>1. IInv => TypeOK
  BY DEF IInv
<1> QED  BY <1>1, InitInv, InvStep, PTL DEF Spec

(* What a call returns is one whole answer in a buffer it fits into, NUL   *)
(* included, however the server cuts its bodies into pieces and however    *)
(* often the transfer breaks and is made again (fetch_write_cb,            *)
(* do_one_attempt).                                                        *)
THEOREM BodyAlwaysSound == Spec => []BodyIsSound
<1>1. IInv => BodyIsSound
  BY DEF IInv, BodyIsSound, BodyIsOneAnswer, OneAnswerInv
<1> QED  BY <1>1, InitInv, InvStep, PTL DEF Spec

(* A call makes at most max_retries + 1 requests and sleeps at most        *)
(* max_retries times the longest delay of its configuration, whatever      *)
(* Retry-After the server sends (fetch_retry_loop).                        *)
THEOREM CallAlwaysBounded == Spec => []CallIsBounded
<1>1. IInv => CallIsBounded
  <2> SUFFICES ASSUME IInv PROVE CallIsBounded
    OBVIOUS
  <2>1. requests <= MaxRetries + 1
    BY FetchAssumption DEF IInv, TypeOK
  <2>2. 0 * MaxDelay = 0 /\ attempt \in Nat /\ delay \in Nat /\ slept \in Nat
    BY MaxDelayIs, FetchAssumption DEF IInv, TypeOK
  <2>3. attempt <= MaxRetries => attempt * MaxDelay <= MaxRetries * MaxDelay
    BY <2>2, Multiples, FetchAssumption
  <2>4. attempt * MaxDelay \in Nat /\ MaxRetries * MaxDelay \in Nat
    BY <2>2, Multiples, FetchAssumption
  <2>5. slept <= MaxRetries * MaxDelay
    BY <2>2, <2>3, <2>4, FetchAssumption DEF IInv, ProgressInv, TypeOK
  <2> QED  BY <2>1, <2>5 DEF CallIsBounded
<1> QED  BY <1>1, InitInv, InvStep, PTL DEF Spec

(* No request but one of NVD over https carries the API key, and every one *)
(* of those that memory allows does: through any calls of any feeds and    *)
(* each of their retries.  It is the callers that decide this and          *)
(* append_api_key_header that carries it out, hence KeyInv, which follows  *)
(* their choice through the loop (cytadel_nvd_fetch_page and               *)
(* cytadel_nvd_fetch_get, fetch_retry_loop, do_one_attempt).               *)
THEOREM KeyAlwaysPrivate == Spec => []KeyStaysPrivate
<1>1. IInv => KeyStaysPrivate
  BY DEF IInv, TypeOK, KeyInv, KeyStaysPrivate, SendsKey
<1> QED  BY <1>1, InitInv, InvStep, PTL DEF Spec
=============================================================================
