-------------------------- MODULE WorkerPoolProofs --------------------------
(***************************************************************************)
(* Proofs about WorkerPool for every number of targets and workers: slots  *)
(* have one writer, the caller never reads a slot being written, and when  *)
(* the pool returns every target has been scanned.  Then the list of those *)
(* targets: for every spec and targets file, what is scanned is exactly    *)
(* what was named.  Last, what relates the run over all pure functions to  *)
(* the calls of each part, on which the other theorems about them rest.    *)
(***************************************************************************)
EXTENDS WorkerPool, Algorithms, FiniteSetTheorems, SequenceTheorems, WellFoundedInduction, TLAPS

(* Workers are created in order and claim distinct indices.                *)
ThreadInv ==
  /\ \A w \in Worker : pc[w] = "none" <=> w >= created
  /\ \A w \in Worker : pc[w] = "scan" => idx[w] < next /\ idx[w] \in Target
  /\ \A v, w \in Worker : pc[v] = "scan" /\ pc[w] = "scan" /\ idx[v] = idx[w] => v = w
  /\ \A w \in Worker : pc[w] = "exited" => next >= TargetCount
  /\ created = 0 => next = 0

(* What a slot not yet freed holds follows from the cursor: untouched past *)
(* it, a result or a scan in progress before it.                           *)
SlotInv ==
  /\ \A i \in Target : i >= consumed => slot[i] # "freed"
  /\ \A i \in Target : i >= consumed /\ i >= next => slot[i] = "untouched"
  /\ \A i \in Target : i >= consumed /\ i < next => slot[i] # "untouched"
  /\ \A i \in Target : i >= consumed /\ slot[i] = "partial" =>
       \E w \in Worker : pc[w] = "scan" /\ idx[w] = i
  /\ \A w \in Worker : pc[w] = "scan" /\ idx[w] >= consumed => slot[idx[w]] = "partial"

(* The caller's progress: it consumes only after joining all it created.   *)
MainInv ==
  /\ joined <= created
  /\ main \in {"enter", "create", "join"} => consumed = 0 /\ poolRc = 1
  /\ main = "enter" => created = 0
  /\ main \in {"enter", "create"} => joined = 0 /\ createFailed = FALSE
  /\ main \in {"consume", "done"} => joined = created
  /\ main = "join" /\ createFailed = FALSE => created = WorkerCount
  /\ joinFailed = FALSE => \A w \in Worker : w < joined => pc[w] = "exited"
  /\ poolRc = 0 => joinFailed = FALSE /\ created = WorkerCount

Inv == TypeOK /\ ThreadInv /\ SlotInv /\ MainInv

(* The pool asks for at least one thread.                                  *)
LEMMA WorkerCountPos == WorkerCount \in Nat \ {0}
<1>1. Clamped \in Nat \ {0}
  <2>1. CASE MaxWorkers < 1
    BY <2>1 DEF Clamped
  <2>2. CASE ~(MaxWorkers < 1)
    BY <2>2, PoolAssumption DEF Clamped
  <2> QED  BY <2>1, <2>2
<1> QED  BY <1>1, PoolAssumption DEF WorkerCount

(* The pool's invariant holds when it is entered.                          *)
LEMMA InitInv == Init => Inv
<1> SUFFICES ASSUME Init PROVE Inv
  OBVIOUS
<1> USE PoolAssumption, WorkerCountPos DEF Init
<1>1. TypeOK
  <2>1. created \in 0..WorkerCount /\ joined \in 0..WorkerCount /\ consumed \in 0..TargetCount
    OBVIOUS
  <2>2. createFailed \in BOOLEAN /\ joinFailed \in BOOLEAN
    BY Zenon
  <2> QED  BY <2>1, <2>2 DEF TypeOK
<1>2. ThreadInv
  BY DEF ThreadInv, Worker
<1>3. SlotInv
  BY DEF SlotInv, Worker, Target
<1>4. MainInv
  BY DEF MainInv, Worker
<1> QED  BY <1>1, <1>2, <1>3, <1>4 DEF Inv

(* Every step of main and of the workers keeps the pool's invariant.       *)
LEMMA InvStep == Inv /\ [Next]_vars => Inv'
<1> SUFFICES ASSUME Inv, [Next]_vars PROVE Inv'
  OBVIOUS
<1> USE PoolAssumption, WorkerCountPos DEF Inv, TypeOK, Worker, Target
<1>1. CASE EnterPool
  BY <1>1 DEF EnterPool, ThreadInv, SlotInv, MainInv
<1>2. CASE CreateThread
  <2>1. TypeOK'
    BY <1>2 DEF CreateThread
  <2>2. ThreadInv' /\ MainInv'
    BY <1>2 DEF CreateThread, ThreadInv, MainInv
  <2>3. SlotInv'
    BY <1>2 DEF CreateThread, SlotInv, ThreadInv
  <2> QED  BY <2>1, <2>2, <2>3
<1>3. CASE CreateFails
  BY <1>3 DEF CreateFails, ThreadInv, SlotInv, MainInv
<1>4. CASE AllCreated
  BY <1>4 DEF AllCreated, ThreadInv, SlotInv, MainInv
<1>5. CASE JoinThread
  BY <1>5 DEF JoinThread, ThreadInv, SlotInv, MainInv
<1>6. CASE JoinFails
  BY <1>6 DEF JoinFails, ThreadInv, SlotInv, MainInv
<1>7. CASE ReturnFromPool
  BY <1>7 DEF ReturnFromPool, ThreadInv, SlotInv, MainInv
<1>8. CASE ConsumeResult
  BY <1>8 DEF ConsumeResult, ThreadInv, SlotInv, MainInv
<1>9. CASE FreeResults
  BY <1>9 DEF FreeResults, ThreadInv, SlotInv, MainInv
<1>10. ASSUME NEW w \in Worker, Claim(w) PROVE Inv'
  <2>1. TypeOK'
    BY <1>10 DEF Claim
  <2>2. ThreadInv'
    BY <1>10 DEF Claim, ThreadInv
  <2>3. MainInv'
    BY <1>10 DEF Claim, MainInv
  <2>4. SlotInv'
    <3>1. (\A i \in Target : i >= consumed => slot[i] # "freed")'
      BY <1>10 DEF Claim, SlotInv
    <3>2. (\A i \in Target : i >= consumed /\ i >= next => slot[i] = "untouched")'
      BY <1>10 DEF Claim, SlotInv
    <3>3. (\A i \in Target : i >= consumed /\ i < next => slot[i] # "untouched")'
      BY <1>10 DEF Claim, SlotInv
    <3>4. (\A i \in Target : i >= consumed /\ slot[i] = "partial" =>
             \E v \in Worker : pc[v] = "scan" /\ idx[v] = i)'
      BY <1>10 DEF Claim, SlotInv
    <3>5. (\A v \in Worker : pc[v] = "scan" /\ idx[v] >= consumed => slot[idx[v]] = "partial")'
      BY <1>10 DEF Claim, ThreadInv, SlotInv
    <3> QED  BY <3>1, <3>2, <3>3, <3>4, <3>5 DEF SlotInv
  <2> QED  BY <2>1, <2>2, <2>3, <2>4
<1>11. ASSUME NEW w \in Worker, FinishScan(w) PROVE Inv'
  <2>1. TypeOK'
    BY <1>11 DEF FinishScan
  <2>2. ThreadInv' /\ MainInv'
    BY <1>11 DEF FinishScan, ThreadInv, MainInv
  <2>3. SlotInv'
    BY <1>11 DEF FinishScan, ThreadInv, SlotInv
  <2> QED  BY <2>1, <2>2, <2>3
<1>12. CASE UNCHANGED vars
  BY <1>12 DEF vars, ThreadInv, SlotInv, MainInv
<1> QED  BY <1>1, <1>2, <1>3, <1>4, <1>5, <1>6, <1>7, <1>8, <1>9, <1>10, <1>11, <1>12
         DEF Next, MainStep

(* The inductive invariant: claims lie below the cursor, no two are of one *)
(* slot, and main leaves the pool with the threads it created joined.      *)
THEOREM PoolInvariance == Spec => []Inv
BY InitInv, InvStep, PTL DEF Spec

(* Two workers never write one slot, and none writes a slot the caller has *)
(* freed.                                                                  *)
THEOREM Ownership == Spec => []SlotOwnership
<1>1. Inv => SlotOwnership
  <2> SUFFICES ASSUME Inv PROVE SlotOwnership
    OBVIOUS
  <2>1. ASSUME joinFailed = FALSE, NEW w \in Worker, pc[w] = "scan" PROVE slot[idx[w]] = "partial"
    <3>1. w < created
      BY <2>1 DEF Inv, TypeOK, ThreadInv, Worker
    <3>2. joined # created
      BY <2>1, <3>1 DEF Inv, MainInv
    <3>3. consumed = 0
      BY <3>2 DEF Inv, TypeOK, MainInv
    <3> QED  BY <2>1, <3>3 DEF Inv, SlotInv, ThreadInv, Target
  <2> QED  BY <2>1 DEF SlotOwnership, Inv, TypeOK, ThreadInv
<1> QED  BY <1>1, PoolInvariance, PTL

(* When the pool returns, no thread runs, and every target was scanned if  *)
(* any thread could be created.                                            *)
THEOREM CompleteOnReturn == Spec => []ReturnIsComplete
<1>1. Inv => ReturnIsComplete
  <2> SUFFICES ASSUME Inv, main = "consume", joinFailed = FALSE
               PROVE  /\ \A w \in Worker : pc[w] \in {"none", "exited"}
                      /\ \A i \in Target : i >= consumed =>
                           slot[i] \in IF created > 0 THEN {"ok", "error"} ELSE {"untouched"}
    BY DEF ReturnIsComplete, Inv, TypeOK
  <2> USE PoolAssumption, WorkerCountPos DEF Inv, TypeOK, Worker, Target
  <2>1. \A w \in Worker : IF w < created THEN pc[w] = "exited" ELSE pc[w] = "none"
    BY DEF MainInv, ThreadInv
  <2>2. created > 0 => next >= TargetCount
    BY <2>1 DEF ThreadInv
  <2>3. \A i \in Target : i >= consumed => slot[i] # "partial" /\ slot[i] # "freed"
    BY <2>1 DEF SlotInv
  <2>4. CASE created > 0
    BY <2>1, <2>2, <2>3, <2>4 DEF SlotInv
  <2>5. CASE created = 0
    BY <2>1, <2>5 DEF SlotInv, ThreadInv
  <2> QED  BY <2>4, <2>5
<1> QED  BY <1>1, PoolInvariance, PTL

(* A pool that returned 0 has scanned every target.                        *)
THEOREM CompleteOnSuccess == Spec => []SuccessIsComplete
<1>1. Inv /\ ReturnIsComplete => SuccessIsComplete
  BY WorkerCountPos DEF Inv, TypeOK, MainInv, ReturnIsComplete, SuccessIsComplete
<1> QED  BY <1>1, PoolInvariance, CompleteOnReturn, PTL

(* A slot with a result keeps it until the caller frees it.                *)
THEOREM NoRescan == Spec => ScannedOnce
<1>1. Inv /\ SlotOwnership /\ [Next]_vars =>
        [~joinFailed => \A i \in Target :
           slot[i] \in {"ok", "error"} => slot'[i] \in {slot[i], "freed"}]_vars
  <2> SUFFICES ASSUME Inv, SlotOwnership, [Next]_vars, ~joinFailed, NEW i \in Target,
                      slot[i] \in {"ok", "error"}
               PROVE  slot'[i] \in {slot[i], "freed"}
    OBVIOUS
  <2> USE PoolAssumption DEF Inv, TypeOK, Target
  <2>1. ASSUME NEW w \in Worker, Claim(w) PROVE slot'[i] = slot[i]
    <3>1. w < created /\ joined # created
      BY <2>1 DEF Claim, ThreadInv, MainInv, Worker
    <3>2. consumed = 0
      BY <3>1 DEF MainInv
    <3>3. i < next
      BY <3>2 DEF SlotInv
    <3> QED  BY <2>1, <3>3 DEF Claim
  <2>2. ASSUME NEW w \in Worker, FinishScan(w) PROVE slot'[i] = slot[i]
    BY <2>2 DEF FinishScan, SlotOwnership
  <2>3. CASE MainStep
    BY <2>3 DEF MainStep, EnterPool, CreateThread, CreateFails, AllCreated, JoinThread,
               JoinFails, ReturnFromPool, ConsumeResult, FreeResults
  <2> QED  BY <2>1, <2>2, <2>3 DEF Next, vars
<1> QED  BY <1>1, PoolInvariance, Ownership, PTL DEF Spec, ScannedOnce

(* Main reads whole results: a pool that returns has no thread left, and   *)
(* one that returns 0 has scanned every target (worker_pool.c's joins).    *)
THEOREM PoolComplete == Spec => []PoolIsComplete
BY CompleteOnReturn, CompleteOnSuccess, PTL DEF PoolIsComplete

-----------------------------------------------------------------------------
(***************************************************************************)
(* The scope of a scan (Targets, ScopeCalls)                               *)
(***************************************************************************)

(* A set of numbers that is not empty has a least member.                   *)
LEMMA LeastNat ==
  ASSUME NEW S \in SUBSET Nat, S # {}
  PROVE  \E x \in S : \A y \in S : x <= y
<1>1. IsWellFoundedOn(OpToRel(<, Nat), Nat)
  BY NatLessThanWellFounded
<1>2. PICK x \in S : \A y \in S : ~(<<y, x>> \in OpToRel(<, Nat))
  BY <1>1, WFMin
<1>3. \A y \in S : ~(y < x)
  BY <1>2 DEF OpToRel
<1> QED  BY <1>3

(* The runs of a loop of n turns that starts at z: step[k] is turn k.       *)
Runs(T, z, step, n) ==
  {g \in [0 .. n -> T] : g[0] = z /\ \A k \in 1 .. n : g[k] = step[k][g[k - 1]]}

(* There is one, by induction on the number of turns.                       *)
LEMMA RunExists ==
  ASSUME NEW T, NEW z \in T, NEW step, NEW N \in Nat,
         \A k \in 1 .. N, x \in T : step[k][x] \in T
  PROVE  \E g : g \in Runs(T, z, step, N)
<1> DEFINE S == {k \in 0 .. N : Runs(T, z, step, k) = {}}
<1> SUFFICES ASSUME S # {} PROVE FALSE
  OBVIOUS
<1>0. S \in SUBSET Nat
  OBVIOUS
<1>1. PICK m \in S : \A y \in S : m <= y
  <2> HIDE DEF S
  <2> QED BY <1>0, LeastNat
<1>2. m # 0
  <2>1. [k \in 0 .. 0 |-> z] \in Runs(T, z, step, 0)
    BY DEF Runs
  <2> QED  BY <2>1
<1>3. PICK g : g \in Runs(T, z, step, m - 1)
  BY <1>1, <1>2
<1>4. /\ g \in [0 .. m - 1 -> T] /\ g[0] = z
      /\ \A k \in 1 .. m - 1 : g[k] = step[k][g[k - 1]]
  BY <1>3 DEF Runs
<1> DEFINE h == [k \in 0 .. m |-> IF k = m THEN step[m][g[m - 1]] ELSE g[k]]
<1>5. h \in [0 .. m -> T] /\ h[0] = z
  BY <1>2, <1>4
<1>6. ASSUME NEW k \in 1 .. m PROVE h[k] = step[k][h[k - 1]]
  <2>1. CASE k = m
    BY <1>2, <1>4, <2>1
  <2>2. CASE k # m
    BY <1>2, <1>4, <2>2
  <2> QED  BY <2>1, <2>2
<1>7. h \in Runs(T, z, step, m)
  BY <1>5, <1>6 DEF Runs
<1> QED  BY <1>1, <1>7

(* The powers of two.                                                       *)
LEMMA PowerIs ==
  /\ AddressBits \in Nat \ {0}
  /\ Power \in [0 .. AddressBits -> Nat \ {0}]
  /\ Power[0] = 1
  /\ \A n \in 0 .. AddressBits - 1 : Power[n + 1] = 2 * Power[n]
<1> DEFINE W == AddressBits
           Is(p) == p = [n \in 0 .. AddressBits |-> IF n = 0 THEN 1 ELSE 2 * p[n - 1]]
           power == CHOOSE p : Is(p)
           T == Nat \ {0}
           step == [k \in 1 .. W |-> [x \in T |-> 2 * x]]
<1>1. W \in Nat \ {0}
  BY TargetsAssumption
<1>2. PICK g : g \in Runs(T, 1, step, W)
  <2>1. \A k \in 1 .. W, x \in T : step[k][x] \in T
    OBVIOUS
  <2>2. 1 \in T
    OBVIOUS
  <2> HIDE DEF T, step
  <2> QED  BY <1>1, <2>1, <2>2, RunExists
<1>3. g \in [0 .. W -> T] /\ g[0] = 1 /\ \A k \in 1 .. W : g[k] = 2 * g[k - 1]
  <2>1. g \in [0 .. W -> T] /\ g[0] = 1
    BY <1>2 DEF Runs
  <2>2. ASSUME NEW k \in 1 .. W PROVE g[k] = 2 * g[k - 1]
    <3>1. g[k] = step[k][g[k - 1]]
      BY <1>2 DEF Runs
    <3>2. k - 1 \in 0 .. W
      BY <1>1
    <3>3. g[k - 1] \in T
      BY <2>1, <3>2
    <3> QED  BY <3>1, <3>3
  <2> QED  BY <2>1, <2>2
<1>4. Is(g)
  <2>1. \A n \in 0 .. W : g[n] = IF n = 0 THEN 1 ELSE 2 * g[n - 1]
    <3>1. \A n \in 0 .. W : n # 0 => n \in 1 .. W
      BY <1>1
    <3> HIDE DEF T
    <3> QED  BY <1>3, <3>1
  <2>2. g = [n \in 0 .. W |-> g[n]]
    <3> HIDE DEF T
    <3> QED  BY <1>3
  <2>3. g = [n \in 0 .. W |-> IF n = 0 THEN 1 ELSE 2 * g[n - 1]]
    BY <2>1, <2>2
  <2> QED  BY <2>3
<1>5. Is(power)
  BY <1>4
<1>6. Power = power
  BY DEF Power
<1> HIDE DEF power
<1>7. Power[0] = 1 /\ \A k \in 1 .. W : Power[k] = 2 * Power[k - 1]
  BY <1>1, <1>5, <1>6
<1>8. \A n \in 0 .. W : Power[n] \in T
  <2> DEFINE S == {n \in 0 .. W : Power[n] \notin T}
  <2> SUFFICES ASSUME S # {} PROVE FALSE
    OBVIOUS
  <2>1. S \in SUBSET Nat
    <3>1. \A y \in 0 .. W : y \in Nat
      BY <1>1
    <3> QED  BY <3>1, Zenon
  <2>2. PICK m \in S : \A y \in S : m <= y
    <3> HIDE DEF S
    <3> QED  BY <2>1, LeastNat
  <2>3. m # 0
    BY <1>7
  <2>4. m - 1 \in 0 .. W /\ m - 1 \notin S
    BY <1>1, <2>2, <2>3
  <2> QED  BY <1>7, <2>2, <2>3, <2>4
<1>9. Power = [n \in 0 .. W |-> Power[n]]
  BY <1>5, <1>6
<1> QED
  <2>1. \A n \in 0 .. W - 1 : n + 1 \in 1 .. W /\ n + 1 - 1 = n
    BY <1>1
  <2> HIDE DEF T, W
  <2> QED  BY <1>1, <1>7, <1>8, <1>9, <2>1 DEF T, W

(* Induction up to N: what holds at 0 and from each number to the next one. *)
LEMMA UpTo ==
  ASSUME NEW N \in Nat, NEW S, 0 \in S, \A n \in 0 .. N - 1 : n \in S => n + 1 \in S
  PROVE  \A n \in 0 .. N : n \in S
<1> DEFINE B == {n \in 0 .. N : n \notin S}
<1> SUFFICES ASSUME B # {} PROVE FALSE
  OBVIOUS
<1>1. B \in SUBSET Nat
  OBVIOUS
<1>2. PICK m \in B : \A y \in B : m <= y
  <2> HIDE DEF B
  <2> QED  BY <1>1, LeastNat
<1>3. m \in 1 .. N /\ m - 1 \in 0 .. N - 1 /\ m - 1 \notin B
  BY <1>2
<1>4. m - 1 + 1 = m
  BY <1>3
<1> QED  BY <1>2, <1>3, <1>4

(* Division with remainder, both ways.                                      *)
LEMMA DivMod ==
  ASSUME NEW a \in Nat, NEW d \in Nat \ {0}
  PROVE  /\ a \div d \in Nat /\ a % d \in Nat /\ a % d < d
         /\ a = d * (a \div d) + (a % d)
BY SMT

(* Quotient and remainder of a number that is written as such.              *)
LEMMA DivIs ==
  ASSUME NEW q \in Nat, NEW d \in Nat \ {0}, NEW r \in Nat, r < d
  PROVE  (d * q + r) \div d = q /\ (d * q + r) % d = r
BY SMT

(* Laws of the product that the solver is told where it needs them.         *)
LEMMA Distribute ==
  ASSUME NEW x \in Int, NEW y \in Int, NEW z \in Int
  PROVE  x * (y + z) = x * y + x * z /\ x * (y - z) = x * y - x * z /\ x * y = y * x
         /\ x * (y * z) = (x * y) * z
BY SMT

(* 2^(j + k) is 2^j * 2^k, and a greater power is an even multiple.         *)
LEMMA PowerSplits ==
  ASSUME NEW j \in 0 .. AddressBits
  PROVE  \A k \in 0 .. AddressBits - j : Power[j + k] = Power[j] * Power[k]
<1> DEFINE S == {k \in 0 .. AddressBits - j : Power[j + k] = Power[j] * Power[k]}
<1>1. 0 \in S
  BY PowerIs
<1>2. ASSUME NEW n \in 0 .. AddressBits - j - 1, n \in S PROVE n + 1 \in S
  <2>1. Power[j + n] = Power[j] * Power[n]
    BY <1>2
  <2>2. j + n \in 0 .. AddressBits - 1 /\ n \in 0 .. AddressBits - 1 /\ j + (n + 1) = j + n + 1
    BY PowerIs
  <2>3. Power[j + (n + 1)] = 2 * Power[j + n] /\ Power[n + 1] = 2 * Power[n]
    BY <2>2, PowerIs
  <2>4. Power[j] \in Nat /\ Power[n] \in Nat
    BY <2>2, PowerIs
  <2>5. 2 * (Power[j] * Power[n]) = Power[j] * (2 * Power[n])
    BY <2>4, SMT
  <2>6. Power[j + (n + 1)] = Power[j] * Power[n + 1]
    BY <2>1, <2>3, <2>5
  <2> QED  BY <2>2, <2>6, PowerIs
<1>3. AddressBits - j \in Nat
  BY PowerIs
<1> HIDE DEF S
<1>4. \A k \in 0 .. AddressBits - j : k \in S
  BY <1>1, <1>2, <1>3, UpTo
<1> QED  BY <1>4 DEF S

(* A higher power is at least twice a lower one, and an even multiple of    *)
(* it.                                                                      *)
LEMMA PowerGrows ==
  ASSUME NEW j \in 0 .. AddressBits, NEW k \in 0 .. AddressBits, j < k
  PROVE  2 * Power[j] <= Power[k] /\ \E h \in Nat : Power[k] = Power[j] * (2 * h)
<1>1. AddressBits \in Nat
  BY PowerIs
<1>2. PICK m \in 0 .. AddressBits - 1 : k = j + (m + 1)
  <2>1. k - j - 1 \in 0 .. AddressBits - 1 /\ k = j + (k - j - 1 + 1)
    BY <1>1
  <2> QED  BY <2>1
<1>3. m + 1 \in 0 .. AddressBits - j
  BY <1>1, <1>2
<1>4. Power[k] = Power[j] * Power[m + 1]
  BY <1>2, <1>3, PowerSplits
<1>5. Power[m + 1] = 2 * Power[m] /\ Power[m] \in Nat \ {0} /\ Power[j] \in Nat \ {0}
  BY <1>1, PowerIs
<1>6. Power[k] = Power[j] * (2 * Power[m])
  BY <1>4, <1>5
<1>7. 2 * Power[j] <= Power[j] * (2 * Power[m])
  BY <1>5, SMT
<1> QED  BY <1>5, <1>6, <1>7

(* A word modulo 2^(k + 1) is its bit k above the word modulo 2^k.          *)
LEMMA BitIs ==
  ASSUME NEW a \in Nat, NEW k \in 0 .. AddressBits - 1
  PROVE  /\ Bit(a, k) \in {0, 1}
         /\ a % Power[k + 1] = (a % Power[k]) + Power[k] * Bit(a, k)
         /\ a % Power[k + 1] \in Nat /\ a % Power[k] \in Nat
<1>1. PICK d \in Nat \ {0} : d = Power[k] /\ Power[k + 1] = 2 * d
  <2>1. k \in 0 .. AddressBits
    BY PowerIs
  <2>2. Power[k] \in Nat \ {0} /\ Power[k + 1] = 2 * Power[k]
    BY <2>1, PowerIs
  <2> QED  BY <2>2
<1>2. PICK q \in Nat, r \in Nat : q = a \div d /\ r = a % d /\ r < d /\ a = d * q + r
  BY DivMod
<1>3. PICK t \in Nat, b \in {0, 1} : b = q % 2 /\ q = 2 * t + b
  <2>1. q \div 2 \in Nat /\ q % 2 \in {0, 1} /\ q = 2 * (q \div 2) + (q % 2)
    BY SMT
  <2> QED  BY <2>1
<1>4. a = (2 * d) * t + (d * b + r)
  <2>1. d * (2 * t + b) = d * (2 * t) + d * b
    BY Distribute
  <2>2. d * (2 * t) = (2 * d) * t
    BY SMT
  <2>3. PICK e \in Int, f \in Int : e = (2 * d) * t /\ f = d * b
    BY SMT
  <2>4. a = e + f + r
    BY <1>2, <1>3, <2>1, <2>2, <2>3
  <2> QED  BY <2>3, <2>4
<1>5. d * b + r \in Nat /\ d * b + r < 2 * d /\ 2 * d \in Nat \ {0}
  <2>1. d * b = 0 \/ d * b = d
    BY SMT
  <2> QED  BY <1>2, <2>1, SMT
<1>6. a % (2 * d) = d * b + r
  <2>1. PICK u \in Nat, e \in Nat \ {0} : u = d * b + r /\ e = 2 * d
    BY <1>5
  <2>2. a = e * t + u /\ u < e
    BY <1>4, <1>5, <2>1
  <2>3. (e * t + u) % e = u
    BY <2>2, DivIs
  <2> QED  BY <2>1, <2>2, <2>3
<1>7. Bit(a, k) = b
  BY <1>1, <1>2, <1>3 DEF Bit
<1>8. d * b + r = r + d * b
  BY <1>5, SMT
<1> QED  BY <1>1, <1>2, <1>5, <1>6, <1>7, <1>8

(* The sum over the bits that both words have, and that one of them has.    *)
LEMMA AndSum ==
  ASSUME NEW x \in Nat, NEW y \in Nat
  PROVE  \E g \in [0 .. AddressBits -> Nat] :
            /\ BitAnd(x, y) = g[AddressBits] /\ g[0] = 0
            /\ \A k \in 0 .. AddressBits - 1 :
                  g[k + 1] = g[k] + Power[k] * (Bit(x, k) * Bit(y, k))
<1> DEFINE W == AddressBits
           c(k) == Power[k - 1] * (Bit(x, k - 1) * Bit(y, k - 1))
           Is(l) == l = [k \in 0 .. AddressBits |->
                           IF k = 0 THEN 0
                           ELSE l[k - 1] + Power[k - 1] * (Bit(x, k - 1) * Bit(y, k - 1))]
           low == CHOOSE l : Is(l)
           step == [k \in 1 .. W |-> [v \in Nat |-> v + c(k)]]
<1>1. W \in Nat
  BY PowerIs
<1>2. ASSUME NEW k \in 1 .. W PROVE c(k) \in Nat
  <2>1. k - 1 \in 0 .. W - 1
    BY <1>1
  <2>2. PICK u \in {0, 1}, v \in {0, 1}, p \in Nat :
           u = Bit(x, k - 1) /\ v = Bit(y, k - 1) /\ p = Power[k - 1]
    <3>1. k - 1 \in 0 .. W
      BY <1>1
    <3> QED  BY <2>1, <3>1, BitIs, PowerIs
  <2>3. p * (u * v) \in Nat
    BY SMT
  <2> QED  BY <2>2, <2>3
<1> HIDE DEF c
<1>3. PICK g : g \in Runs(Nat, 0, step, W)
  <2>1. \A k \in 1 .. W, v \in Nat : step[k][v] \in Nat
    BY <1>2
  <2> HIDE DEF step
  <2> QED  BY <1>1, <2>1, RunExists
<1>4. g \in [0 .. W -> Nat] /\ g[0] = 0 /\ \A k \in 1 .. W : g[k] = g[k - 1] + c(k)
  <2>1. g \in [0 .. W -> Nat] /\ g[0] = 0
    BY <1>3 DEF Runs
  <2>2. ASSUME NEW k \in 1 .. W PROVE g[k] = g[k - 1] + c(k)
    <3>1. g[k] = step[k][g[k - 1]]
      BY <1>3 DEF Runs
    <3>2. k - 1 \in 0 .. W
      BY <1>1
    <3> QED  BY <2>1, <3>1, <3>2
  <2> QED  BY <2>1, <2>2
<1>5. Is(g)
  <2>1. \A n \in 0 .. W : n # 0 => n \in 1 .. W
    BY <1>1
  <2>2. \A n \in 0 .. W : g[n] = IF n = 0 THEN 0 ELSE g[n - 1] + c(n)
    BY <1>4, <2>1
  <2>3. g = [n \in 0 .. W |-> g[n]]
    BY <1>4
  <2>4. g = [n \in 0 .. W |-> IF n = 0 THEN 0 ELSE g[n - 1] + c(n)]
    BY <2>2, <2>3
  <2> QED  BY <2>4 DEF c
<1>6. Is(low)
  BY <1>5
<1>7. BitAnd(x, y) = low[W]
  BY DEF BitAnd
<1> HIDE DEF low
<1>8. low = [n \in 0 .. W |-> IF n = 0 THEN 0 ELSE low[n - 1] + c(n)]
  BY <1>6 DEF c
<1>9. low[0] = 0 /\ \A n \in 1 .. W : low[n] = low[n - 1] + c(n)
  BY <1>1, <1>8
<1>10. \A n \in 0 .. W : low[n] = g[n]
  <2> DEFINE S == {n \in 0 .. W : low[n] = g[n]}
  <2>1. 0 \in S
    BY <1>1, <1>4, <1>9
  <2>2. ASSUME NEW n \in 0 .. W - 1, n \in S PROVE n + 1 \in S
    <3>1. n + 1 \in 1 .. W /\ n + 1 - 1 = n
      BY <1>1
    <3> QED  BY <1>1, <1>4, <1>9, <2>2, <3>1
  <2> HIDE DEF S
  <2>3. \A n \in 0 .. W : n \in S
    BY <1>1, <2>1, <2>2, UpTo
  <2> QED  BY <2>3 DEF S
<1>11. BitAnd(x, y) = g[W]
  BY <1>1, <1>7, <1>10
<1>12. ASSUME NEW k \in 0 .. W - 1 PROVE g[k + 1] = g[k] + Power[k] * (Bit(x, k) * Bit(y, k))
  <2>1. k + 1 \in 1 .. W /\ k + 1 - 1 = k
    BY <1>1
  <2>2. g[k + 1] = g[k + 1 - 1] + c(k + 1)
    BY <1>4, <2>1
  <2> QED  BY <2>1, <2>2 DEF c
<1> QED  BY <1>4, <1>11, <1>12

(* The loop of BitOr adds up the powers of the bits of either word.         *)
LEMMA OrSum ==
  ASSUME NEW x \in Nat, NEW y \in Nat
  PROVE  \E g \in [0 .. AddressBits -> Nat] :
            /\ BitOr(x, y) = g[AddressBits] /\ g[0] = 0
            /\ \A k \in 0 .. AddressBits - 1 :
                  g[k + 1] = g[k] + Power[k] * (IF Bit(x, k) + Bit(y, k) = 0 THEN 0 ELSE 1)
<1> DEFINE W == AddressBits
           c(k) == Power[k - 1] * (IF Bit(x, k - 1) + Bit(y, k - 1) = 0 THEN 0 ELSE 1)
           Is(l) == l = [k \in 0 .. AddressBits |->
                           IF k = 0 THEN 0
                           ELSE l[k - 1] + Power[k - 1] * (IF Bit(x, k - 1) + Bit(y, k - 1) = 0 THEN 0 ELSE 1)]
           low == CHOOSE l : Is(l)
           step == [k \in 1 .. W |-> [v \in Nat |-> v + c(k)]]
<1>1. W \in Nat
  BY PowerIs
<1>2. ASSUME NEW k \in 1 .. W PROVE c(k) \in Nat
  <2>1. k - 1 \in 0 .. W - 1
    BY <1>1
  <2>2. PICK u \in {0, 1}, v \in {0, 1}, p \in Nat :
           u = Bit(x, k - 1) /\ v = Bit(y, k - 1) /\ p = Power[k - 1]
    <3>1. k - 1 \in 0 .. W
      BY <1>1
    <3> QED  BY <2>1, <3>1, BitIs, PowerIs
  <2>3. p * (IF u + v = 0 THEN 0 ELSE 1) \in Nat
    BY SMT
  <2> QED  BY <2>2, <2>3
<1> HIDE DEF c
<1>3. PICK g : g \in Runs(Nat, 0, step, W)
  <2>1. \A k \in 1 .. W, v \in Nat : step[k][v] \in Nat
    BY <1>2
  <2> HIDE DEF step
  <2> QED  BY <1>1, <2>1, RunExists
<1>4. g \in [0 .. W -> Nat] /\ g[0] = 0 /\ \A k \in 1 .. W : g[k] = g[k - 1] + c(k)
  <2>1. g \in [0 .. W -> Nat] /\ g[0] = 0
    BY <1>3 DEF Runs
  <2>2. ASSUME NEW k \in 1 .. W PROVE g[k] = g[k - 1] + c(k)
    <3>1. g[k] = step[k][g[k - 1]]
      BY <1>3 DEF Runs
    <3>2. k - 1 \in 0 .. W
      BY <1>1
    <3> QED  BY <2>1, <3>1, <3>2
  <2> QED  BY <2>1, <2>2
<1>5. Is(g)
  <2>1. \A n \in 0 .. W : n # 0 => n \in 1 .. W
    BY <1>1
  <2>2. \A n \in 0 .. W : g[n] = IF n = 0 THEN 0 ELSE g[n - 1] + c(n)
    BY <1>4, <2>1
  <2>3. g = [n \in 0 .. W |-> g[n]]
    BY <1>4
  <2>4. g = [n \in 0 .. W |-> IF n = 0 THEN 0 ELSE g[n - 1] + c(n)]
    BY <2>2, <2>3
  <2> QED  BY <2>4 DEF c
<1>6. Is(low)
  BY <1>5
<1>7. BitOr(x, y) = low[W]
  BY DEF BitOr
<1> HIDE DEF low
<1>8. low = [n \in 0 .. W |-> IF n = 0 THEN 0 ELSE low[n - 1] + c(n)]
  BY <1>6 DEF c
<1>9. low[0] = 0 /\ \A n \in 1 .. W : low[n] = low[n - 1] + c(n)
  BY <1>1, <1>8
<1>10. \A n \in 0 .. W : low[n] = g[n]
  <2> DEFINE S == {n \in 0 .. W : low[n] = g[n]}
  <2>1. 0 \in S
    BY <1>1, <1>4, <1>9
  <2>2. ASSUME NEW n \in 0 .. W - 1, n \in S PROVE n + 1 \in S
    <3>1. n + 1 \in 1 .. W /\ n + 1 - 1 = n
      BY <1>1
    <3> QED  BY <1>1, <1>4, <1>9, <2>2, <3>1
  <2> HIDE DEF S
  <2>3. \A n \in 0 .. W : n \in S
    BY <1>1, <2>1, <2>2, UpTo
  <2> QED  BY <2>3 DEF S
<1>11. BitOr(x, y) = g[W]
  BY <1>1, <1>7, <1>10
<1>12. ASSUME NEW k \in 0 .. W - 1
       PROVE  g[k + 1] = g[k] + Power[k] * (IF Bit(x, k) + Bit(y, k) = 0 THEN 0 ELSE 1)
  <2>1. k + 1 \in 1 .. W /\ k + 1 - 1 = k
    BY <1>1
  <2>2. g[k + 1] = g[k + 1 - 1] + c(k + 1)
    BY <1>4, <2>1
  <2> QED  BY <2>1, <2>2 DEF c
<1> QED  BY <1>4, <1>11, <1>12

(* A number below the divisor is its own remainder.                         *)
LEMMA SmallMod ==
  ASSUME NEW a \in Nat, NEW d \in Nat \ {0}, a < d
  PROVE  a % d = a /\ a \div d = 0
BY SMT

(* A word masked with ones from bit s up loses its low bits.                *)
LEMMA AndIs ==
  ASSUME NEW a \in Nat, NEW y \in Nat, a < Word32, NEW s \in 0 .. AddressBits,
         \A k \in 0 .. AddressBits - 1 : Bit(y, k) = IF k >= s THEN 1 ELSE 0
  PROVE  BitAnd(a, y) = a - (a % Power[s])
<1> DEFINE W == AddressBits
<1>1. W \in Nat /\ \A k \in 0 .. W : Power[k] \in Nat \ {0} /\ a % Power[k] \in Nat
  BY PowerIs, DivMod
<1>2. PICK g \in [0 .. W -> Nat] :
            /\ BitAnd(a, y) = g[W] /\ g[0] = 0
            /\ \A k \in 0 .. W - 1 : g[k + 1] = g[k] + Power[k] * (Bit(a, k) * Bit(y, k))
  BY AndSum
<1> DEFINE S == {k \in 0 .. W : g[k] = IF k <= s THEN 0 ELSE (a % Power[k]) - (a % Power[s])}
<1>3. 0 \in S
  BY <1>1, <1>2
<1>4. ASSUME NEW k \in 0 .. W - 1, k \in S PROVE k + 1 \in S
  <2>1. g[k] = IF k <= s THEN 0 ELSE (a % Power[k]) - (a % Power[s])
    BY <1>4
  <2>2. PICK u \in {0, 1}, p \in Nat \ {0}, h \in Nat, h1 \in Nat, hs \in Nat :
           /\ u = Bit(a, k) /\ p = Power[k] /\ h = a % Power[k] /\ h1 = a % Power[k + 1]
           /\ hs = a % Power[s] /\ h1 = h + p * u
    <3>1. k \in 0 .. W /\ k + 1 \in 0 .. W
      BY <1>1
    <3>2. /\ Bit(a, k) \in {0, 1} /\ a % Power[k + 1] \in Nat
          /\ a % Power[k + 1] = (a % Power[k]) + Power[k] * Bit(a, k)
      BY BitIs
    <3>3. Power[k] \in Nat \ {0} /\ a % Power[k] \in Nat /\ a % Power[s] \in Nat
      BY <1>1, <3>1
    <3> QED  BY <3>2, <3>3, Zenon
  <2>3. g[k + 1] = g[k] + p * (u * Bit(y, k))
    BY <1>2, <2>2
  <2>4. CASE k < s
    <3>1. Bit(y, k) = 0 /\ k + 1 <= s /\ g[k] = 0
      BY <1>1, <2>1, <2>4
    <3>2. g[k + 1] = 0
      BY <2>3, <3>1, SMT
    <3> QED  BY <1>1, <3>1, <3>2
  <2>5. CASE k >= s
    <3>1. Bit(y, k) = 1 /\ ~(k + 1 <= s) /\ k + 1 \in 0 .. W
      BY <1>1, <2>5
    <3>2. g[k] = h - hs
      <4>1. CASE k = s
        BY <2>1, <2>2, <4>1
      <4>2. CASE k # s
        BY <2>1, <2>2, <2>5, <4>2
      <4> QED  BY <4>1, <4>2
    <3>3. g[k + 1] = g[k] + p * u
      BY <2>3, <3>1, SMT
    <3>4. PICK e \in Nat : e = p * u
      <4>1. p * u \in Nat
        BY SMT
      <4> QED  BY <4>1
    <3>5. g[k + 1] = h1 - hs
      <4>1. h1 = h + e
        BY <2>2, <3>4
      <4>2. g[k + 1] = h - hs + e
        BY <3>2, <3>3, <3>4
      <4> QED  BY <4>1, <4>2
    <3> QED  BY <2>2, <3>1, <3>5
  <2> QED  BY <1>1, <2>4, <2>5
<1> HIDE DEF S
<1>5. W \in S
  <2>1. \A k \in 0 .. W : k \in S
    BY <1>1, <1>3, <1>4, UpTo
  <2> QED  BY <1>1, <2>1
<1>6. g[W] = IF W <= s THEN 0 ELSE (a % Power[W]) - (a % Power[s])
  BY <1>5 DEF S
<1>7. a % Power[W] = a
  BY <1>1, SmallMod DEF Word32
<1>8. W <= s => s = W
  BY <1>1
<1> QED  BY <1>1, <1>2, <1>6, <1>7, <1>8

(* Words that share no bit are added.                                       *)
LEMMA OrIs ==
  ASSUME NEW x \in Nat, NEW y \in Nat, x < Word32, y < Word32,
         \A k \in 0 .. AddressBits - 1 : Bit(x, k) = 0 \/ Bit(y, k) = 0
  PROVE  BitOr(x, y) = x + y
<1> DEFINE W == AddressBits
<1>1. W \in Nat /\ \A k \in 0 .. W : Power[k] \in Nat \ {0} /\ x % Power[k] \in Nat /\ y % Power[k] \in Nat
  BY PowerIs, DivMod
<1>2. PICK g \in [0 .. W -> Nat] :
            /\ BitOr(x, y) = g[W] /\ g[0] = 0
            /\ \A k \in 0 .. W - 1 :
                  g[k + 1] = g[k] + Power[k] * (IF Bit(x, k) + Bit(y, k) = 0 THEN 0 ELSE 1)
  BY OrSum
<1> DEFINE S == {k \in 0 .. W : g[k] = (x % Power[k]) + (y % Power[k])}
<1>3. 0 \in S
  <2>1. Power[0] = 1
    BY PowerIs
  <2>2. x % 1 = 0 /\ y % 1 = 0
    BY SMT
  <2> QED  BY <1>1, <1>2, <2>1, <2>2
<1>4. ASSUME NEW k \in 0 .. W - 1, k \in S PROVE k + 1 \in S
  <2>1. g[k] = (x % Power[k]) + (y % Power[k])
    BY <1>4
  <2>0. k \in 0 .. W /\ k + 1 \in 0 .. W
    BY <1>1
  <2>2. PICK u \in {0, 1}, v \in {0, 1}, p \in Nat \ {0}, h \in Nat, h1 \in Nat, i \in Nat, i1 \in Nat :
           /\ u = Bit(x, k) /\ v = Bit(y, k) /\ p = Power[k]
           /\ h = x % Power[k] /\ h1 = x % Power[k + 1] /\ h1 = h + p * u
           /\ i = y % Power[k] /\ i1 = y % Power[k + 1] /\ i1 = i + p * v
    <3>1. /\ Bit(x, k) \in {0, 1} /\ x % Power[k + 1] \in Nat
          /\ x % Power[k + 1] = (x % Power[k]) + Power[k] * Bit(x, k)
      BY BitIs
    <3>2. /\ Bit(y, k) \in {0, 1} /\ y % Power[k + 1] \in Nat
          /\ y % Power[k + 1] = (y % Power[k]) + Power[k] * Bit(y, k)
      BY BitIs
    <3>3. Power[k] \in Nat \ {0} /\ x % Power[k] \in Nat /\ y % Power[k] \in Nat
      BY <1>1, <2>0
    <3> QED  BY <3>1, <3>2, <3>3, Zenon
  <2>3. g[k + 1] = g[k] + p * (IF u + v = 0 THEN 0 ELSE 1)
    BY <1>2, <2>2
  <2>4. u = 0 \/ v = 0
    BY <2>2
  <2>5. p * (IF u + v = 0 THEN 0 ELSE 1) = p * u + p * v
    BY <2>4, SMT
  <2>6. PICK e \in Nat, f \in Nat : e = p * u /\ f = p * v
    <3>1. p * u \in Nat
      BY SMT
    <3>2. p * v \in Nat
      BY SMT
    <3> QED  BY <3>1, <3>2
  <2>7. g[k + 1] = h1 + i1
    <3>1. h1 = h + e /\ i1 = i + f
      BY <2>2, <2>6
    <3>2. g[k + 1] = (h + i) + (e + f)
      BY <2>1, <2>2, <2>3, <2>5, <2>6
    <3> QED  BY <3>1, <3>2
  <2> QED  BY <2>0, <2>2, <2>7
<1> HIDE DEF S
<1>5. W \in S
  <2>1. \A k \in 0 .. W : k \in S
    BY <1>1, <1>3, <1>4, UpTo
  <2> QED  BY <1>1, <2>1
<1>6. g[W] = (x % Power[W]) + (y % Power[W])
  BY <1>5 DEF S
<1>7. x % Power[W] = x /\ y % Power[W] = y
  BY <1>1, SmallMod DEF Word32
<1> QED  BY <1>2, <1>6, <1>7

(* The product is monotonic.                                                *)
LEMMA MulMono ==
  ASSUME NEW d \in Nat, NEW x \in Nat, NEW y \in Nat, x <= y
  PROVE  d * x <= d * y /\ d * x \in Nat /\ d * y \in Nat
BY SMT

(* A multiple of an even multiple of 2^k has bit k clear.                   *)
LEMMA EvenBit ==
  ASSUME NEW k \in 0 .. AddressBits - 1, NEW h \in Nat
  PROVE  Bit(Power[k] * (2 * h), k) = 0
<1>1. PICK d \in Nat \ {0} : d = Power[k]
  <2>1. k \in 0 .. AddressBits
    BY PowerIs
  <2> QED  BY <2>1, PowerIs
<1>2. PICK e \in Nat : e = 2 * h
  OBVIOUS
<1>3. (d * e + 0) \div d = e
  BY DivIs
<1>4. d * e + 0 = d * e
  BY MulMono
<1>5. e % 2 = 0
  BY <1>2, SMT
<1> QED  BY <1>1, <1>2, <1>3, <1>4, <1>5 DEF Bit

(* The mask of a prefix: ones from bit AddressBits - prefix up.             *)
LEMMA MaskIs ==
  ASSUME NEW prefix \in 0 .. AddressBits
  PROVE  /\ Mask(prefix) \in Nat
         /\ \A k \in 0 .. AddressBits - 1 :
              Bit(Mask(prefix), k) = IF k >= AddressBits - prefix THEN 1 ELSE 0
<1> DEFINE W == AddressBits
<1>1. W \in Nat /\ \A k \in 0 .. W : Power[k] \in Nat \ {0}
  BY PowerIs
<1>2. CASE prefix = 0
  <2>1. Mask(prefix) = 0
    BY <1>2 DEF Mask
  <2>2. ASSUME NEW k \in 0 .. W - 1 PROVE Bit(0, k) = 0
    <3>1. Power[k] \in Nat \ {0}
      BY <1>1
    <3>2. 0 \div Power[k] = 0
      BY <3>1, SmallMod
    <3> QED  BY <3>2 DEF Bit
  <2>3. \A k \in 0 .. W - 1 : ~(k >= W - prefix)
    BY <1>1, <1>2
  <2> QED  BY <2>1, <2>2, <2>3
<1>3. CASE prefix # 0
  <2>1. PICK s \in 0 .. W - 1 : s = W - prefix
    BY <1>1, <1>3
  <2>2. PICK w \in Nat \ {0}, d \in Nat \ {0}, p \in Nat \ {0} :
           w = Power[W] /\ d = Power[s] /\ p = Power[prefix] /\ w = d * p
    <3>1. s \in 0 .. W /\ W \in 0 .. W /\ prefix \in 0 .. W - s /\ s + prefix = W
      BY <1>1, <2>1
    <3>2. Power[W] = Power[s] * Power[prefix]
      BY <3>1, PowerSplits
    <3> QED  BY <1>1, <3>1, <3>2
  <2>3. d <= w
    <3>1. d * 1 <= d * p
      BY MulMono
    <3> QED  BY <2>2, <3>1
  <2>4. PICK m \in Nat : m = w - d /\ m < w
    <3>1. w - d \in Nat /\ w - d < w
      BY <2>3
    <3> QED  BY <3>1
  <2>5. (w - 1) * d = w * (d - 1) + m
    <3>1. PICK e \in Nat : e = w * d
      <4>1. w * d \in Nat
        BY SMT
      <4> QED  BY <4>1
    <3>2. w * (d - 1) = w * d - w * 1 /\ w * 1 = w
      BY Distribute, SMT
    <3>3. (w - 1) * d = d * (w - 1)
      <4>1. w - 1 \in Int /\ d \in Int
        OBVIOUS
      <4> QED  BY <4>1, Distribute
    <3>4. d * (w - 1) = d * w - d * 1 /\ d * 1 = d /\ d * w = w * d
      BY Distribute, SMT
    <3>5. (w - 1) * d = e - d
      BY <3>1, <3>3, <3>4
    <3>6. w * (d - 1) = e - w
      BY <3>1, <3>2
    <3> QED  BY <2>4, <3>1, <3>5, <3>6
  <2>6. Mask(prefix) = m
    <3>1. PICK q \in Nat : q = d - 1
      OBVIOUS
    <3>2. (w * q + m) % w = m
      BY <2>4, DivIs
    <3>3. Mask(prefix) = ((Power[W] - 1) * Power[W - prefix]) % Power[W]
      BY <1>3 DEF Mask, Word32
    <3>4. Mask(prefix) = ((w - 1) * d) % w
      BY <2>1, <2>2, <3>3
    <3> QED  BY <2>5, <3>1, <3>2, <3>4
  <2>7. ASSUME NEW k \in 0 .. W - 1, k >= s PROVE Bit(m, k) = 1
    <3>1. PICK c \in Nat \ {0}, h \in Nat : c = Power[k] /\ w = c * (2 * h)
      <4>1. k \in 0 .. W /\ W \in 0 .. W /\ k < W
        BY <1>1
      <4>2. \E h \in Nat : Power[W] = Power[k] * (2 * h)
        BY <4>1, PowerGrows
      <4> QED  BY <1>1, <2>2, <4>1, <4>2, Zenon
    <3>2. h # 0
      <4>1. c * (2 * 0) = 0
        BY SMT
      <4> QED  BY <2>2, <3>1, <4>1
    <3>3. d <= c
      <4>1. k \in 0 .. W /\ s \in 0 .. W
        BY <1>1
      <4>2. s < k => 2 * Power[s] <= Power[k]
        BY <4>1, PowerGrows
      <4>3. CASE s = k
        BY <2>2, <3>1, <4>3
      <4>4. CASE s # k
        BY <2>2, <2>7, <3>1, <4>2, <4>4
      <4> QED  BY <4>3, <4>4
    <3>4. PICK r \in Nat, q \in Nat : r = c - d /\ r < c /\ q = 2 * h - 1
      <4>1. c - d \in Nat /\ c - d < c /\ 2 * h - 1 \in Nat
        BY <3>2, <3>3
      <4> QED  BY <4>1
    <3>5. m = c * q + r
      <4>1. PICK e \in Nat, f \in Int : e = 2 * h /\ f = c * e
        BY SMT
      <4>2. c * (e - 1) = c * e - c * 1 /\ c * 1 = c
        BY Distribute, SMT
      <4>3. c * q = f - c
        BY <3>4, <4>1, <4>2
      <4>4. w = f
        BY <3>1, <4>1
      <4> QED  BY <2>4, <3>4, <4>3, <4>4
    <3>6. m \div c = q
      BY <3>4, <3>5, DivIs
    <3>7. q % 2 = 1
      BY <3>2, <3>4, SMT
    <3> QED  BY <3>1, <3>6, <3>7 DEF Bit
  <2>8. ASSUME NEW k \in 0 .. W - 1, k < s PROVE Bit(m, k) = 0
    <3>1. PICK c \in Nat \ {0}, h \in Nat : c = Power[k] /\ d = c * (2 * h)
      <4>1. k \in 0 .. W /\ s \in 0 .. W
        BY <1>1
      <4> QED  BY <1>1, <2>2, <2>8, <4>1, PowerGrows
    <3>2. PICK q \in Nat, g \in Nat : q = p - 1 /\ g = h * q
      <4>1. \A q \in Nat : h * q \in Nat
        BY SMT
      <4> QED  BY <4>1
    <3>3. m = d * q
      <4>1. d * (p - 1) = d * p - d * 1 /\ d * 1 = d
        BY Distribute, SMT
      <4> QED  BY <2>2, <2>4, <3>2, <4>1
    <3>4. d * q = c * (2 * g)
      <4>1. (c * (2 * h)) * q = c * (2 * (h * q))
        BY SMT
      <4> QED  BY <3>1, <3>2, <4>1
    <3> QED  BY <3>1, <3>2, <3>3, <3>4, EvenBit
  <2>9. \A k \in 0 .. W - 1 : ~(k >= s) => k < s
    BY <1>1
  <2> QED  BY <2>1, <2>6, <2>7, <2>8, <2>9
<1> QED  BY <1>2, <1>3

(* A block: the addresses from its network up, as many as HostCount, are    *)
(* those with the prefix of the token.                                      *)
LEMMA CidrIs ==
  ASSUME NEW addr \in Nat, addr < Word32, NEW prefix \in 0 .. AddressBits
  PROVE  \E d \in Nat \ {0}, q \in Nat :
           /\ d = Power[AddressBits - prefix] /\ q = addr \div d
           /\ BitAnd(addr, Mask(prefix)) = d * q
           /\ \A n \in 0 .. d - 1 :
                /\ BitOr(d * q, n) = d * q + n
                /\ d * q + n \in 0 .. Word32 - 1
                /\ (d * q + n) \div d = q
           /\ \A x \in 0 .. Word32 - 1 : x \div d = q => \E n \in 0 .. d - 1 : x = d * q + n
<1> DEFINE W == AddressBits
<1>1. W \in Nat /\ \A k \in 0 .. W : Power[k] \in Nat \ {0}
  BY PowerIs
<1>2. PICK s \in 0 .. W : s = W - prefix
  BY <1>1
<1>3. PICK w \in Nat \ {0}, d \in Nat \ {0}, p \in Nat \ {0} :
         w = Power[W] /\ d = Power[s] /\ p = Power[prefix] /\ w = d * p
  <2>1. W \in 0 .. W /\ prefix \in 0 .. W - s /\ s + prefix = W
    BY <1>1, <1>2
  <2>2. Power[W] = Power[s] * Power[prefix]
    BY <2>1, PowerSplits
  <2> QED  BY <1>1, <2>1, <2>2
<1>4. w = Word32 /\ addr < w
  BY <1>3 DEF Word32
<1>5. PICK q \in Nat, r \in Nat : q = addr \div d /\ r = addr % d /\ r < d /\ addr = d * q + r
  BY DivMod
<1>6. PICK net \in Nat : net = d * q
  <2>1. d * q \in Nat
    BY SMT
  <2> QED  BY <2>1
<1>7. BitAnd(addr, Mask(prefix)) = net
  <2>1. PICK y \in Nat : /\ y = Mask(prefix)
                         /\ \A k \in 0 .. W - 1 : Bit(y, k) = IF k >= s THEN 1 ELSE 0
    BY <1>2, MaskIs
  <2>2. BitAnd(addr, y) = addr - (addr % Power[s])
    BY <2>1, AndIs
  <2>3. BitAnd(addr, Mask(prefix)) = addr - r
    BY <1>3, <1>5, <2>1, <2>2
  <2>4. addr = net + r
    BY <1>5, <1>6
  <2> QED  BY <2>3, <2>4
<1>8. net + d <= w
  <2>1. q + 1 <= p
    <3> SUFFICES ASSUME p <= q PROVE FALSE
      OBVIOUS
    <3>1. d * p <= d * q
      BY MulMono
    <3> QED  BY <1>3, <1>4, <1>5, <1>6, <3>1
  <2>2. d * (q + 1) <= d * p
    BY <2>1, MulMono
  <2>3. d * (q + 1) = d * q + d * 1 /\ d * 1 = d
    BY Distribute, SMT
  <2> QED  BY <1>3, <1>6, <2>2, <2>3
<1>9. ASSUME NEW n \in 0 .. d - 1
      PROVE  BitOr(net, n) = net + n /\ net + n \in 0 .. w - 1 /\ (net + n) \div d = q
  <2>1. net + n \in 0 .. w - 1 /\ n \in Nat /\ n < d /\ net \in Nat /\ net < w /\ n < w
    BY <1>8
  <2>2. (d * q + n) \div d = q
    BY <2>1, DivIs
  <2>3. ASSUME NEW k \in 0 .. W - 1 PROVE Bit(net, k) = 0 \/ Bit(n, k) = 0
    <3>1. k \in 0 .. W
      BY <1>1
    <3>2. CASE k < s
      <4>1. PICK h \in Nat : d = Power[k] * (2 * h)
        BY <1>3, <3>1, <3>2, PowerGrows
      <4>2. PICK c \in Nat, g \in Nat : c = Power[k] /\ g = h * q
        <5>1. h * q \in Nat
          BY SMT
        <5> QED  BY <1>1, <3>1, <5>1
      <4>3. (c * (2 * h)) * q = c * (2 * (h * q))
        BY SMT
      <4>4. net = Power[k] * (2 * g)
        BY <1>6, <4>1, <4>2, <4>3
      <4> QED  BY <4>2, <4>4, EvenBit
    <3>3. CASE k >= s
      <4>1. PICK c \in Nat \ {0} : c = Power[k]
        BY <1>1, <3>1
      <4>2. d <= c
        <5>1. s < k => 2 * Power[s] <= Power[k]
          BY <3>1, PowerGrows
        <5>2. CASE s = k
          BY <1>3, <4>1, <5>2
        <5>3. CASE s # k
          BY <1>3, <3>3, <4>1, <5>1, <5>3
        <5> QED  BY <5>2, <5>3
      <4>3. n \div c = 0
        BY <2>1, <4>2, SmallMod
      <4> QED  BY <4>1, <4>3 DEF Bit
    <3> QED  BY <3>1, <3>2, <3>3
  <2>4. BitOr(net, n) = net + n
    BY <1>4, <2>1, <2>3, OrIs
  <2> QED  BY <1>6, <2>1, <2>2, <2>4
<1>10. ASSUME NEW x \in 0 .. w - 1, x \div d = q PROVE \E n \in 0 .. d - 1 : x = net + n
  <2>1. x % d \in Nat /\ x % d < d /\ x = d * (x \div d) + (x % d)
    BY DivMod
  <2>2. PICK n \in 0 .. d - 1 : n = x % d
    BY <2>1
  <2> QED  BY <1>6, <1>10, <2>1, <2>2
<1>11. /\ d = Power[AddressBits - prefix] /\ q = addr \div d
       /\ BitAnd(addr, Mask(prefix)) = d * q
  BY <1>2, <1>3, <1>5, <1>6, <1>7
<1>12. /\ \A n \in 0 .. d - 1 :
             /\ BitOr(d * q, n) = d * q + n
             /\ d * q + n \in 0 .. Word32 - 1
             /\ (d * q + n) \div d = q
       /\ \A x \in 0 .. Word32 - 1 : x \div d = q => \E n \in 0 .. d - 1 : x = d * q + n
  BY <1>4, <1>6, <1>9, <1>10, Zenon
<1> QED  BY <1>11, <1>12, Zenon

(* R orders the members of S strictly and totally.                          *)
Orders(S, R) ==
  /\ IsFiniteSet(S)
  /\ \A i \in S : <<i, i>> \notin R
  /\ \A i, j \in S : i # j => <<i, j>> \in R \/ <<j, i>> \in R
  /\ \A i, j, k \in S : <<i, j>> \in R /\ <<j, k>> \in R => <<i, k>> \in R

(* Sorted by R, every member of S is listed, once, after those before it.   *)
LEMMA InOrderIs ==
  ASSUME NEW S, NEW R, Orders(S, R)
  PROVE  /\ Cardinality(S) \in Nat
         /\ InOrder(S, R) \in [1 .. Cardinality(S) -> S]
         /\ \A i \in S : \E k \in 1 .. Cardinality(S) : InOrder(S, R)[k] = i
         /\ \A k, l \in 1 .. Cardinality(S) :
              k < l => <<InOrder(S, R)[k], InOrder(S, R)[l]>> \in R
<1> DEFINE n == Cardinality(S)
           below(i) == {j \in S : <<j, i>> \in R}
           rank == [i \in S |-> Cardinality(below(i))]
<1>1. n \in Nat /\ IsFiniteSet(S)
  BY FS_CardinalityType DEF Orders
<1>2. ASSUME NEW i \in S
      PROVE  below(i) \in SUBSET S /\ IsFiniteSet(below(i)) /\ rank[i] \in 0 .. n - 1
  <2>1. below(i) \in SUBSET S /\ i \notin below(i)
    BY DEF Orders
  <2> HIDE DEF below
  <2>2. /\ IsFiniteSet(below(i)) /\ Cardinality(below(i)) <= n
        /\ n = Cardinality(below(i)) => S = below(i)
    BY <1>1, <2>1, FS_Subset
  <2>3. Cardinality(below(i)) \in Nat
    BY <2>2, FS_CardinalityType
  <2>4. n # Cardinality(below(i))
    BY <2>1, <2>2
  <2> QED  BY <1>1, <2>1, <2>2, <2>3, <2>4
<1>3. ASSUME NEW i \in S, NEW j \in S, <<i, j>> \in R PROVE rank[i] < rank[j]
  <2>1. below(i) \in SUBSET below(j) /\ i \in below(j) /\ i \notin below(i)
    BY <1>3 DEF Orders
  <2>2. /\ IsFiniteSet(below(j)) /\ rank[i] \in 0 .. n - 1 /\ rank[j] \in 0 .. n - 1
        /\ rank[i] = Cardinality(below(i)) /\ rank[j] = Cardinality(below(j))
    BY <1>2
  <2> HIDE DEF below, rank
  <2>3. /\ Cardinality(below(i)) <= Cardinality(below(j))
        /\ Cardinality(below(j)) = Cardinality(below(i)) => below(j) = below(i)
    BY <2>1, <2>2, FS_Subset
  <2> QED  BY <1>1, <2>1, <2>2, <2>3
<1>4. \A i, j \in S : rank[i] = rank[j] => i = j
  <2> SUFFICES ASSUME NEW i \in S, NEW j \in S, rank[i] = rank[j], i # j PROVE FALSE
    OBVIOUS
  <2>1. <<i, j>> \in R \/ <<j, i>> \in R
    BY DEF Orders
  <2>2. rank[i] \in 0 .. n - 1 /\ rank[j] \in 0 .. n - 1
    BY <1>2
  <2> HIDE DEF rank
  <2> QED  BY <1>1, <1>3, <2>1, <2>2
<1>5. \A k \in 1 .. n : \E i \in S : rank[i] = k - 1
  <2>1. rank \in Injection(S, 0 .. n - 1)
    <3>1. rank \in [S -> 0 .. n - 1]
      <4>1. \A i \in S : rank[i] \in 0 .. n - 1
        BY <1>2
      <4> QED  BY <4>1
    <3> HIDE DEF rank
    <3> QED  BY <1>4, <3>1 DEF Injection, IsInjective
  <2>2. IsFiniteSet(0 .. n - 1) /\ Cardinality(0 .. n - 1) = n
    BY <1>1, FS_Interval
  <2> HIDE DEF rank
  <2>3. rank \in Surjection(S, 0 .. n - 1)
    BY <2>1, <2>2, FS_Injection
  <2>4. \A t \in 0 .. n - 1 : \E i \in S : rank[i] = t
    BY <2>3 DEF Surjection
  <2>5. \A k \in 1 .. n : k - 1 \in 0 .. n - 1
    BY <1>1
  <2> QED  BY <2>4, <2>5
<1>6. ASSUME NEW k \in 1 .. n PROVE InOrder(S, R)[k] \in S /\ rank[InOrder(S, R)[k]] = k - 1
  <2>1. InOrder(S, R)[k] = CHOOSE i \in S : Cardinality({j \in S : <<j, i>> \in R}) = k - 1
    BY DEF InOrder
  <2>2. \E i \in S : Cardinality({j \in S : <<j, i>> \in R}) = k - 1
    BY <1>5
  <2>3. /\ InOrder(S, R)[k] \in S
        /\ Cardinality({j \in S : <<j, InOrder(S, R)[k]>> \in R}) = k - 1
    BY <2>1, <2>2, Zenon
  <2> QED  BY <2>3
<1>7. \A k \in 1 .. n : InOrder(S, R)[k] \in S /\ rank[InOrder(S, R)[k]] = k - 1
  BY <1>6
<1>8. InOrder(S, R) \in [1 .. n -> S]
  <2> DEFINE e(k) == CHOOSE i \in S : Cardinality({j \in S : <<j, i>> \in R}) = k - 1
  <2>1. InOrder(S, R) = [k \in 1 .. n |-> e(k)]
    BY Zenon DEF InOrder
  <2> HIDE DEF e
  <2> QED  BY <1>7, <2>1
<1> HIDE DEF rank
<1>9. ASSUME NEW i \in S PROVE \E k \in 1 .. n : InOrder(S, R)[k] = i
  <2>1. PICK t \in 0 .. n - 1 : t = rank[i]
    BY <1>2
  <2>2. PICK k \in 1 .. n : k - 1 = t
    <3>1. t + 1 \in 1 .. n /\ t + 1 - 1 = t
      BY <1>1
    <3> QED  BY <3>1
  <2>3. InOrder(S, R)[k] \in S /\ rank[InOrder(S, R)[k]] = rank[i]
    BY <1>7, <2>1, <2>2
  <2> QED  BY <1>4, <2>3
<1>10. ASSUME NEW k \in 1 .. n, NEW l \in 1 .. n, k < l
       PROVE  <<InOrder(S, R)[k], InOrder(S, R)[l]>> \in R
  <2>1. PICK i \in S, j \in S : /\ i = InOrder(S, R)[k] /\ j = InOrder(S, R)[l]
                               /\ rank[i] = k - 1 /\ rank[j] = l - 1
    BY <1>7
  <2>2. i # j
    BY <1>1, <1>10, <2>1
  <2>3. <<i, j>> \in R \/ <<j, i>> \in R
    BY <2>2 DEF Orders
  <2>4. <<j, i>> \in R => rank[j] < rank[i]
    BY <1>3
  <2> QED  BY <1>1, <1>10, <2>1, <2>3, <2>4
<1> QED  BY <1>1, <1>8, <1>9, <1>10

(* A set of numbers in ascending order.                                     *)
LEMMA AscendingIs ==
  ASSUME NEW S \in SUBSET Nat, IsFiniteSet(S)
  PROVE  /\ Cardinality(S) \in Nat
         /\ Ascending(S) \in [1 .. Cardinality(S) -> S]
         /\ \A i \in S : \E k \in 1 .. Cardinality(S) : Ascending(S)[k] = i
         /\ \A k, l \in 1 .. Cardinality(S) : k < l => Ascending(S)[k] < Ascending(S)[l]
<1> DEFINE R == {p \in S \X S : p[1] < p[2]}
<1>1. \A i, j \in S : <<i, j>> \in R <=> i < j
  OBVIOUS
<1> HIDE DEF R
<1>2. Orders(S, R)
  BY <1>1 DEF Orders
<1>3. Ascending(S) = InOrder(S, R)
  BY DEF Ascending, R
<1>4. /\ Cardinality(S) \in Nat
      /\ Ascending(S) \in [1 .. Cardinality(S) -> S]
      /\ \A i \in S : \E k \in 1 .. Cardinality(S) : Ascending(S)[k] = i
      /\ \A k, l \in 1 .. Cardinality(S) : k < l => <<Ascending(S)[k], Ascending(S)[l]>> \in R
  BY <1>2, <1>3, InOrderIs
<1>5. \A k, l \in 1 .. Cardinality(S) : k < l => Ascending(S)[k] < Ascending(S)[l]
  BY <1>1, <1>4
<1> QED  BY <1>4, <1>5

(* Target i is sorted before target j: by address, then by position.        *)
Sooner(ip, i, j) == ip[i] < ip[j] \/ (ip[i] = ip[j] /\ i < j)

(* The positions of the addresses that no earlier position has.             *)
Firsts(ip, n) == {i \in 1 .. n : \A j \in 1 .. i - 1 : ip[j] # ip[i]}

(* keys are the positions of the n addresses, sorted.                       *)
KeysSort(ip, n, keys) ==
  /\ n \in Nat /\ ip \in [1 .. n -> Nat] /\ keys \in [1 .. n -> 1 .. n]
  /\ \A i \in 1 .. n : \E k \in 1 .. n : keys[k] = i
  /\ \A k, l \in 1 .. n : k < l => Sooner(ip, keys[k], keys[l])

(* The first of each run of one address among the sorted keys is the first  *)
(* position of that address.                                                *)
LEMMA KeepIs ==
  ASSUME NEW ip, NEW n, NEW keys, KeysSort(ip, n, keys)
  PROVE  {keys[k] : k \in {k \in 1 .. n : k = 1 \/ ip[keys[k]] # ip[keys[k - 1]]}} = Firsts(ip, n)
<1>1. /\ n \in Nat /\ ip \in [1 .. n -> Nat] /\ keys \in [1 .. n -> 1 .. n]
      /\ \A i \in 1 .. n : \E k \in 1 .. n : keys[k] = i
  BY DEF KeysSort
<1> DEFINE Keep == {keys[k] : k \in {k \in 1 .. n : k = 1 \/ ip[keys[k]] # ip[keys[k - 1]]}}
<1>2. ASSUME NEW k \in 1 .. n, NEW l \in 1 .. n, k < l
      PROVE  /\ ip[keys[k]] \in Nat /\ ip[keys[l]] \in Nat /\ ip[keys[k]] <= ip[keys[l]]
             /\ ip[keys[k]] = ip[keys[l]] => keys[k] < keys[l]
  <2>1. PICK i \in 1 .. n, j \in 1 .. n : i = keys[k] /\ j = keys[l]
    BY <1>1
  <2>2. PICK u \in Nat, v \in Nat : u = ip[i] /\ v = ip[j]
    BY <1>1
  <2>3. u < v \/ (u = v /\ i < j)
    BY <1>2, <2>1, <2>2 DEF KeysSort, Sooner
  <2>4. u <= v /\ (u = v => i < j)
    BY <2>3
  <2> QED  BY <2>1, <2>2, <2>4, Zenon
<1>3. ASSUME NEW i \in Firsts(ip, n) PROVE i \in Keep
  <2>1. i \in 1 .. n /\ \A j \in 1 .. i - 1 : ip[j] # ip[i]
    BY DEF Firsts
  <2>2. PICK k \in 1 .. n : keys[k] = i
    BY <1>1, <2>1
  <2>3. k = 1 \/ ip[keys[k]] # ip[keys[k - 1]]
    <3> SUFFICES ASSUME k # 1, ip[keys[k]] = ip[keys[k - 1]] PROVE FALSE
      OBVIOUS
    <3>1. k - 1 \in 1 .. n /\ k - 1 < k
      BY <1>1
    <3>2. PICK j \in 1 .. n : j = keys[k - 1]
      BY <1>1, <3>1
    <3>3. ip[j] = ip[i]
      BY <2>2, <3>2
    <3>4. j < i
      BY <1>2, <2>2, <3>1, <3>2, <3>3, Zenon
    <3>5. j \in 1 .. i - 1
      BY <1>1, <2>1, <3>4
    <3> QED  BY <2>1, <3>3, <3>5
  <2> QED  BY <1>1, <2>2, <2>3
<1>4. ASSUME NEW i \in Keep PROVE i \in Firsts(ip, n)
  <2>1. PICK k \in 1 .. n : keys[k] = i /\ (k = 1 \/ ip[keys[k]] # ip[keys[k - 1]])
    BY <1>1
  <2>2. i \in 1 .. n
    BY <1>1, <2>1
  <2>3. ASSUME NEW j \in 1 .. i - 1, ip[j] = ip[i] PROVE FALSE
    <3>1. j \in 1 .. n /\ j < i
      BY <1>1, <2>2
    <3>2. PICK l \in 1 .. n : keys[l] = j
      BY <1>1, <3>1
    <3>4. l < k
      <4> SUFFICES ASSUME ~(l < k) PROVE FALSE
        OBVIOUS
      <4>1. l # k
        BY <2>1, <3>1, <3>2
      <4>2. k < l
        BY <1>1, <4>1
      <4>3. i < j
        BY <1>2, <2>1, <2>3, <3>2, <4>2, Zenon
      <4> QED  BY <2>2, <3>1, <4>3
    <3>5. k # 1 /\ k - 1 \in 1 .. n /\ k - 1 < k /\ l <= k - 1
      BY <1>1, <3>4
    <3>6. PICK u \in Nat, v \in Nat : u = ip[keys[k - 1]] /\ v = ip[i] /\ v = ip[j] /\ u <= v
      BY <1>1, <1>2, <2>1, <2>2, <2>3, <3>5, Zenon
    <3>8. v <= u
      <4>1. CASE l = k - 1
        BY <3>2, <3>6, <4>1
      <4>2. CASE l # k - 1
        <5>1. l < k - 1
          BY <1>1, <3>5, <4>2
        <5> QED  BY <1>2, <3>2, <3>5, <3>6, <5>1, Zenon
      <4> QED  BY <4>1, <4>2
    <3>9. u = v
      BY <3>6, <3>8
    <3> QED  BY <2>1, <3>5, <3>6, <3>9
  <2> QED  BY <2>2, <2>3 DEF Firsts
<1> HIDE DEF Keep
<1>5. Keep = Firsts(ip, n)
  BY <1>3, <1>4
<1> QED  BY <1>5 DEF Keep

(* The list without duplicates: the n first targets of each address, in the *)
(* order of the list; f gives the place of each in the list.                *)
ClosesUp(T, items, ip, n, f) ==
  /\ Dedup(items) \in Seq(T) /\ Len(Dedup(items)) = n /\ n <= Len(items)
  /\ f \in [1 .. n -> Firsts(ip, Len(items))]
  /\ \A k \in 1 .. n : Dedup(items)[k] = items[f[k]]
  /\ \A k, l \in 1 .. n : f[k] = f[l] => k = l
  /\ \A i \in Firsts(ip, Len(items)) : \E k \in 1 .. n : f[k] = i

(* What dedup keeps: the first position of every address, each of them      *)
(* once.                                                                    *)
LEMMA DedupIs ==
  ASSUME NEW T, NEW items \in Seq(T), NEW ip \in [1 .. Len(items) -> Nat],
         \A i \in 1 .. Len(items) : ip[i] = items[i].ip
  PROVE  \E n \in Nat : \E f : ClosesUp(T, items, ip, n, f)
<1> DEFINE N == Len(items)
           place == DOMAIN items
           R == {p \in place \X place :
                   \/ items[p[1]].ip < items[p[2]].ip
                   \/ items[p[1]].ip = items[p[2]].ip /\ p[1] < p[2]}
           keys == InOrder(place, R)
           keep == {keys[k] : k \in {k \in DOMAIN keys :
                      k = 1 \/ items[keys[k]].ip # items[keys[k - 1]].ip}}
           kept == Ascending(keep)
           F == Firsts(ip, N)
<1>1. N \in Nat /\ place = 1 .. N /\ IsFiniteSet(place) /\ Cardinality(place) = N
  <2>1. N \in Nat /\ place = 1 .. N
    BY LenProperties
  <2>2. IsFiniteSet(1 .. N) /\ Cardinality(1 .. N) = IF 1 > N THEN 0 ELSE N - 1 + 1
    BY <2>1, FS_Interval
  <2> QED  BY <2>1, <2>2
<1>2. ASSUME NEW i \in 1 .. N, NEW j \in 1 .. N PROVE <<i, j>> \in R <=> Sooner(ip, i, j)
  <2> DEFINE Q(a, b) == items[a].ip < items[b].ip \/ (items[a].ip = items[b].ip /\ a < b)
  <2>1. R = {p \in place \X place : Q(p[1], p[2])}
    OBVIOUS
  <2>2. Q(i, j) <=> Sooner(ip, i, j)
    BY Zenon DEF Sooner
  <2> HIDE DEF Q, R
  <2> QED  BY <1>1, <2>1, <2>2
<1>3. Dedup(items) = [k \in DOMAIN kept |-> items[kept[k]]]
  BY DEF Dedup
<1> HIDE DEF R
<1>4. Orders(1 .. N, R)
  <2>1. \A i \in 1 .. N : i \in Nat /\ ip[i] \in Nat
    BY <1>1
  <2>2. \A i \in 1 .. N : ~Sooner(ip, i, i)
    BY <2>1 DEF Sooner
  <2>3. \A i, j \in 1 .. N : i # j => Sooner(ip, i, j) \/ Sooner(ip, j, i)
    <3> SUFFICES ASSUME NEW i \in 1 .. N, NEW j \in 1 .. N, i # j
                 PROVE  Sooner(ip, i, j) \/ Sooner(ip, j, i)
      OBVIOUS
    <3>1. PICK u \in Nat, v \in Nat : u = ip[i] /\ v = ip[j]
      BY <2>1
    <3>2. (u < v \/ (u = v /\ i < j)) \/ (v < u \/ (v = u /\ j < i))
      <4>1. i \in Nat /\ j \in Nat
        BY <2>1
      <4> QED  BY <4>1
    <3> QED  BY <3>1, <3>2 DEF Sooner
  <2>4. ASSUME NEW i \in 1 .. N, NEW j \in 1 .. N, NEW k \in 1 .. N, Sooner(ip, i, j), Sooner(ip, j, k)
        PROVE  Sooner(ip, i, k)
    <3>1. PICK u \in Nat, v \in Nat, w \in Nat : u = ip[i] /\ v = ip[j] /\ w = ip[k]
      BY <2>1
    <3>2. (u < v \/ (u = v /\ i < j)) /\ (v < w \/ (v = w /\ j < k))
      BY <2>4, <3>1 DEF Sooner
    <3>3. u < w \/ (u = w /\ i < k)
      BY <1>1, <3>2
    <3> QED  BY <3>1, <3>3 DEF Sooner
  <2>5. \A i \in 1 .. N : <<i, i>> \notin R
    BY <1>2, <2>2
  <2>6. \A i, j \in 1 .. N : i # j => <<i, j>> \in R \/ <<j, i>> \in R
    BY <1>2, <2>3
  <2>7. \A i, j, k \in 1 .. N : <<i, j>> \in R /\ <<j, k>> \in R => <<i, k>> \in R
    BY <1>2, <2>4, Zenon
  <2>8. IsFiniteSet(1 .. N)
    BY <1>1
  <2> QED  BY <2>5, <2>6, <2>7, <2>8 DEF Orders
<1>5. /\ keys \in [1 .. N -> 1 .. N]
      /\ \A i \in 1 .. N : \E k \in 1 .. N : keys[k] = i
      /\ \A k, l \in 1 .. N : k < l => <<keys[k], keys[l]>> \in R
  <2>1. keys = InOrder(1 .. N, R) /\ Cardinality(1 .. N) = N
    BY <1>1, Zenon
  <2> HIDE DEF keys
  <2> QED  BY <1>4, <2>1, InOrderIs
<1> HIDE DEF keys
<1>6. KeysSort(ip, N, keys)
  <2>1. \A k \in 1 .. N : keys[k] \in 1 .. N
    BY <1>5
  <2>2. \A k, l \in 1 .. N : k < l => Sooner(ip, keys[k], keys[l])
    BY <1>2, <1>5, <2>1, Zenon
  <2> QED  BY <1>1, <1>5, <2>2 DEF KeysSort
<1>7. keep = F
  <2>1. {keys[k] : k \in {k \in 1 .. N : k = 1 \/ ip[keys[k]] # ip[keys[k - 1]]}} = F
    BY <1>6, KeepIs
  <2>2. \A k \in 1 .. N : k = 1 \/ k - 1 \in 1 .. N
    BY <1>1
  <2>3. \A k \in 1 .. N : items[keys[k]].ip = ip[keys[k]]
    BY <1>5
  <2>4. \A k \in 1 .. N : (k = 1 \/ items[keys[k]].ip # items[keys[k - 1]].ip)
                           <=> (k = 1 \/ ip[keys[k]] # ip[keys[k - 1]])
    BY <2>2, <2>3
  <2>5. DOMAIN keys = 1 .. N
    BY <1>5
  <2>6. {k \in DOMAIN keys : k = 1 \/ items[keys[k]].ip # items[keys[k - 1]].ip}
          = {k \in 1 .. N : k = 1 \/ ip[keys[k]] # ip[keys[k - 1]]}
    BY <2>4, <2>5
  <2> QED  BY <2>1, <2>6
<1> HIDE DEF keep
<1>8. F \in SUBSET (1 .. N) /\ IsFiniteSet(F) /\ F \in SUBSET Nat /\ Cardinality(F) <= N
  <2>1. F \in SUBSET (1 .. N)
    BY DEF Firsts
  <2> HIDE DEF F
  <2>2. IsFiniteSet(F) /\ Cardinality(F) <= N
    BY <1>1, <2>1, FS_Subset
  <2>3. F \in SUBSET Nat
    BY <1>1, <2>1
  <2> QED  BY <2>1, <2>2, <2>3
<1>9. kept = Ascending(F)
  BY <1>7
<1> HIDE DEF kept, F
<1>10. PICK n \in Nat :
          /\ n = Cardinality(F) /\ n <= N
          /\ kept \in [1 .. n -> F]
          /\ \A i \in F : \E k \in 1 .. n : kept[k] = i
          /\ \A k, l \in 1 .. n : k < l => kept[k] < kept[l]
  BY <1>8, <1>9, AscendingIs
<1>11. DOMAIN kept = 1 .. n
  BY <1>10
<1>12. Dedup(items) \in [1 .. n -> T]
  <2>1. \A k \in 1 .. n : kept[k] \in 1 .. N
    BY <1>8, <1>10
  <2>2. \A k \in 1 .. n : items[kept[k]] \in T
    BY <2>1, ElementOfSeq
  <2> QED  BY <1>3, <1>11, <2>2
<1>13. Dedup(items) \in Seq(T) /\ Len(Dedup(items)) = n
  BY <1>12, LenProperties
<1>14. \A k \in 1 .. n : Dedup(items)[k] = items[kept[k]]
  BY <1>3, <1>11
<1>15. ASSUME NEW k \in 1 .. n, NEW l \in 1 .. n, kept[k] = kept[l] PROVE k = l
  <2>1. kept[k] \in Nat /\ kept[l] \in Nat
    BY <1>8, <1>10
  <2>2. ~(k < l) /\ ~(l < k)
    BY <1>10, <1>15, <2>1
  <2> QED  BY <1>10, <2>2
<1>16. /\ kept \in [1 .. n -> F]
       /\ \A i \in F : \E k \in 1 .. n : kept[k] = i
  BY <1>10
<1>17. /\ Dedup(items) \in Seq(T) /\ Len(Dedup(items)) = n /\ n <= Len(items)
       /\ kept \in [1 .. n -> Firsts(ip, Len(items))]
       /\ \A k \in 1 .. n : Dedup(items)[k] = items[kept[k]]
       /\ \A k, l \in 1 .. n : kept[k] = kept[l] => k = l
       /\ \A i \in Firsts(ip, Len(items)) : \E k \in 1 .. n : kept[k] = i
  <2>1. \A k, l \in 1 .. n : kept[k] = kept[l] => k = l
    BY <1>15
  <2>2. n <= Len(items)
    BY <1>10
  <2> QED  BY <1>13, <1>14, <1>16, <2>1, <2>2, Zenon DEF F
<1>18. ClosesUp(T, items, ip, n, kept)
  BY <1>17, Zenon DEF ClosesUp
<1> QED  BY <1>18, Zenon

(* The whole of a list that is not too long.                                *)
LEMMA FirstFewIs ==
  ASSUME NEW T, NEW s \in Seq(T), NEW n \in Nat, Len(s) <= n
  PROVE  FirstFew(s, n) = s
<1>1. Len(s) \in Nat
  BY LenProperties
<1>2. FirstFew(s, n) = SubSeq(s, 1, Len(s))
  BY <1>1 DEF FirstFew
<1> QED  BY <1>2

(* A token of a port list.                                                  *)
LEMMA PortTokenIs ==
  ASSUME NEW tok \in PortTokens
  PROVE  tok.kind \in {"malformed", "range"} /\ tok.start \in Nat /\ tok.end \in Nat
BY ScopeCallsAssumption

(* The ports of a range, and their bits.                                    *)
Span(tok) == tok.start .. tok.end
Bits(S) == {PortBit(v) : v \in S}

(* The run over the tokens of a port list.                                  *)
LEMMA PortRun ==
  ASSUME NEW toks \in Seq(PortTokens)
  PROVE  \E g : /\ SetPorts(toks) = g[Len(toks)]
                /\ g[0] = [status |-> "ok", bits |-> {}]
                /\ \A k \in 1 .. Len(toks) : g[k] = PortToken(g[k - 1], toks[k])
<1> DEFINE n == Len(toks)
           z == [status |-> "ok", bits |-> {}]
           T == [status : {"ok", "malformed", "out_of_bounds"}, bits : SUBSET Bits(Nat)]
           step == [k \in 1 .. n |-> [x \in T |-> PortToken(x, toks[k])]]
           Is(l) == l = [k \in 0 .. n |-> IF k = 0 THEN z ELSE PortToken(l[k - 1], toks[k])]
           low == CHOOSE l : Is(l)
<1>1. n \in Nat
  BY LenProperties
<1>2. z \in T
  OBVIOUS
<1>3. ASSUME NEW k \in 1 .. n, NEW x \in T PROVE PortToken(x, toks[k]) \in T
  <2>1. PICK tok \in PortTokens : tok = toks[k]
    BY <1>1, ElementOfSeq
  <2>2. tok.start \in Nat /\ tok.end \in Nat
    BY PortTokenIs
  <2>3. {PortBit(v) : v \in tok.start .. tok.end} \in SUBSET Bits(Nat)
    BY <2>2 DEF Bits
  <2>4. PICK B \in SUBSET Bits(Nat) : B = {PortBit(v) : v \in tok.start .. tok.end}
    BY <2>3
  <2>5. PortToken(x, tok) \in {x, [status |-> "malformed", bits |-> {}],
                               [status |-> "out_of_bounds", bits |-> {}],
                               [status |-> "ok", bits |-> x.bits \cup B]}
    BY <2>4 DEF PortToken
  <2> QED  BY <2>1, <2>5
<1> HIDE DEF z, T
<1>4. PICK g : g \in Runs(T, z, step, n)
  <2>1. \A k \in 1 .. n, x \in T : step[k][x] \in T
    BY <1>3
  <2> HIDE DEF step
  <2> QED  BY <1>1, <1>2, <2>1, RunExists
<1>5. g \in [0 .. n -> T] /\ g[0] = z /\ \A k \in 1 .. n : g[k] = PortToken(g[k - 1], toks[k])
  <2>1. g \in [0 .. n -> T] /\ g[0] = z
    BY <1>4 DEF Runs
  <2>2. ASSUME NEW k \in 1 .. n PROVE g[k] = PortToken(g[k - 1], toks[k])
    <3>1. g[k] = step[k][g[k - 1]]
      BY <1>4 DEF Runs
    <3>2. k - 1 \in 0 .. n
      BY <1>1
    <3> QED  BY <2>1, <3>1, <3>2
  <2> QED  BY <2>1, <2>2
<1>6. Is(g)
  <2>1. \A k \in 0 .. n : k # 0 => k \in 1 .. n
    BY <1>1
  <2>2. \A k \in 0 .. n : g[k] = IF k = 0 THEN z ELSE PortToken(g[k - 1], toks[k])
    BY <1>5, <2>1
  <2>3. g = [k \in 0 .. n |-> g[k]]
    BY <1>5
  <2> QED  BY <2>2, <2>3
<1>7. Is(low)
  BY <1>6
<1>8. SetPorts(toks) = low[n]
  BY Zenon DEF SetPorts, z
<1> HIDE DEF low
<1>9. low[0] = z /\ \A k \in 1 .. n : low[k] = PortToken(low[k - 1], toks[k])
  BY <1>1, <1>7
<1> QED  BY <1>8, <1>9 DEF z

(* Two ports have two bits.                                                 *)
LEMMA PortBitIs ==
  ASSUME NEW u \in Nat, NEW v \in Nat, PortBit(u) = PortBit(v)
  PROVE  u = v
<1>1. u \div 8 = v \div 8 /\ u % 8 = v % 8
  BY DEF PortBit
<1>2. /\ u \div 8 \in Nat /\ u % 8 \in Nat /\ u = 8 * (u \div 8) + (u % 8)
      /\ v = 8 * (v \div 8) + (v % 8)
  BY DivMod
<1> QED  BY <1>1, <1>2

(* The first k tokens are ranges of ports, and the bits are those of their  *)
(* ports.                                                                   *)
PortsSoFar(toks, k, bits) ==
  /\ \A j \in 1 .. k : IsPortRange(toks[j])
  /\ bits = Bits({v \in 1 .. MaxPort : \E j \in 1 .. k : v \in Span(toks[j])})

(* They are after the last token of a list that is accepted.                *)
LEMMA SetPortsIs ==
  ASSUME NEW toks \in Seq(PortTokens), SetPorts(toks).status = "ok"
  PROVE  PortsSoFar(toks, Len(toks), SetPorts(toks).bits)
<1> DEFINE n == Len(toks)
<1>1. n \in Nat
  BY LenProperties
<1>2. PICK g : /\ SetPorts(toks) = g[n]
               /\ g[0] = [status |-> "ok", bits |-> {}]
               /\ \A k \in 1 .. n : g[k] = PortToken(g[k - 1], toks[k])
  BY PortRun
<1> DEFINE S == {k \in 0 .. n : g[k].status = "ok" => PortsSoFar(toks, k, g[k].bits)}
<1>3. 0 \in S
  BY <1>1, <1>2 DEF PortsSoFar, Bits
<1>4. ASSUME NEW k \in 0 .. n - 1, k \in S PROVE k + 1 \in S
  <2>1. k + 1 \in 1 .. n /\ k + 1 - 1 = k /\ k + 1 \in 0 .. n
    BY <1>1
  <2>2. PICK tok \in PortTokens : tok = toks[k + 1]
    BY <2>1, ElementOfSeq
  <2>3. g[k + 1] = PortToken(g[k], tok)
    BY <1>2, <2>1, <2>2
  <2> SUFFICES ASSUME g[k + 1].status = "ok" PROVE PortsSoFar(toks, k + 1, g[k + 1].bits)
    BY <2>1
  <2>4. /\ g[k].status = "ok" /\ tok.kind # "malformed"
        /\ {tok.start, tok.end} \subseteq 1 .. MaxPort /\ ~(tok.start > tok.end)
        /\ g[k + 1].bits = g[k].bits \cup Bits(Span(tok))
    BY <2>3 DEF PortToken, Bits, Span
  <2>5. IsPortRange(tok)
    <3>1. \A u, v \in Nat : u \in 1 .. MaxPort /\ v \in 1 .. MaxPort /\ ~(u > v)
             => 1 <= u /\ u <= v /\ v <= MaxPort
      OBVIOUS
    <3>2. tok.start \in 1 .. MaxPort /\ tok.end \in 1 .. MaxPort
      BY <2>4
    <3> QED  BY <2>4, <3>1, <3>2, PortTokenIs DEF IsPortRange
  <2>6. PortsSoFar(toks, k, g[k].bits)
    BY <1>4, <2>4
  <2>7. \A j \in 1 .. k + 1 : j \in 1 .. k \/ j = k + 1
    BY <1>1
  <2>8. \A j \in 1 .. k + 1 : IsPortRange(toks[j])
    BY <2>2, <2>5, <2>6, <2>7 DEF PortsSoFar
  <2> DEFINE U(m) == {v \in 1 .. MaxPort : \E j \in 1 .. m : v \in Span(toks[j])}
  <2>9. U(k + 1) = U(k) \cup Span(tok)
    <3>1. \A v \in Span(tok) : v \in 1 .. MaxPort
      <4>1. tok.start \in 1 .. MaxPort /\ tok.end \in 1 .. MaxPort /\ MaxPort \in Nat
        BY <2>4, TargetsAssumption
      <4> QED  BY <4>1 DEF Span
    <3>2. \A j \in 1 .. k : j \in 1 .. k + 1
      BY <1>1
    <3>3. k + 1 \in 1 .. k + 1
      BY <1>1
    <3> QED  BY <2>2, <2>7, <3>1, <3>2, <3>3
  <2>10. Bits(U(k + 1)) = Bits(U(k)) \cup Bits(Span(tok))
    <3> HIDE DEF U
    <3> QED  BY <2>9 DEF Bits
  <2>11. g[k].bits = Bits(U(k))
    BY <2>6 DEF PortsSoFar
  <2>12. g[k + 1].bits = Bits(U(k + 1))
    <3> HIDE DEF U
    <3> QED  BY <2>4, <2>10, <2>11
  <2> QED  BY <2>8, <2>12 DEF PortsSoFar
<1> HIDE DEF S
<1>5. n \in S
  <2>1. \A k \in 0 .. n : k \in S
    BY <1>1, <1>3, <1>4, UpTo
  <2> QED  BY <1>1, <2>1
<1> QED  BY <1>2, <1>5 DEF S

(* A port list that is accepted is the union of its ranges, ascending.      *)
PortsOf(toks, items) ==
  /\ \A i \in 1 .. Len(items) - 1 : items[i] < items[i + 1]
  /\ {items[i] : i \in DOMAIN items}
       = {v \in 1 .. MaxPort : \E k \in DOMAIN toks : v \in toks[k].start .. toks[k].end}
  /\ \A k \in DOMAIN toks : IsPortRange(toks[k])

LEMMA PortRangeIs ==
  ASSUME NEW toks \in Seq(PortTokens), NEW spec, spec.toks = toks, NEW denied,
         NEW r, r = PortRangeParse(spec, denied), r.status = "ok"
  PROVE  PortsOf(toks, r.items)
<1>0. PICK items : items = r.items
  OBVIOUS
<1> DEFINE done == SetPorts(FirstFew(toks, MaxPortTokens))
           ports == {v \in 1 .. MaxPort : PortBit(v) \in done.bits}
           U == {v \in 1 .. MaxPort : \E j \in 1 .. Len(toks) : v \in Span(toks[j])}
<1>1. Len(toks) \in Nat /\ DOMAIN toks = 1 .. Len(toks) /\ MaxPortTokens \in Nat /\ MaxPort \in Nat
  BY LenProperties, TargetsAssumption
<1>2. done.status = "ok" /\ Len(toks) <= MaxPortTokens /\ items = Ascending(ports)
  <2>1. r = IF spec.tooLong THEN Failed("malformed")
            ELSE IF done.status # "ok" THEN Failed(done.status)
            ELSE IF Len(toks) > MaxPortTokens THEN Failed("too_many")
            ELSE IF ports = {} THEN Failed("empty")
            ELSE IF denied THEN Failed("alloc")
            ELSE Listed(Ascending(ports))
    BY DEF PortRangeParse
  <2> HIDE DEF done, ports
  <2> QED  BY <1>0, <1>1, <2>1 DEF Failed, Listed
<1>3. FirstFew(toks, MaxPortTokens) = toks
  BY <1>1, <1>2, FirstFewIs
<1>4. PortsSoFar(toks, Len(toks), done.bits)
  BY <1>2, <1>3, SetPortsIs
<1>5. done.bits = Bits(U)
  BY <1>4 DEF PortsSoFar
<1>6. ports = U
  <2>1. U \subseteq 1 .. MaxPort
    OBVIOUS
  <2> HIDE DEF U
  <2>2. ASSUME NEW v \in 1 .. MaxPort PROVE PortBit(v) \in Bits(U) <=> v \in U
    <3>1. \A u \in U : u \in Nat /\ v \in Nat
      BY <1>1, <2>1
    <3>2. \A u \in U : PortBit(u) = PortBit(v) => u = v
      BY <3>1, PortBitIs
    <3> QED  BY <3>2 DEF Bits
  <2> QED  BY <1>5, <2>1, <2>2
<1> HIDE DEF done, ports
<1>7. U \in SUBSET Nat /\ IsFiniteSet(U)
  <2>1. U \in SUBSET (1 .. MaxPort)
    OBVIOUS
  <2>2. IsFiniteSet(1 .. MaxPort)
    BY <1>1, FS_Interval
  <2> HIDE DEF U
  <2>3. IsFiniteSet(U)
    BY <2>1, <2>2, FS_Subset
  <2>4. U \in SUBSET Nat
    BY <1>1, <2>1
  <2> QED  BY <2>3, <2>4
<1>8. PICK c \in Nat : /\ items \in [1 .. c -> U]
                       /\ \A i \in U : \E k \in 1 .. c : items[k] = i
                       /\ \A k, l \in 1 .. c : k < l => items[k] < items[l]
  <2>1. items = Ascending(U)
    BY <1>2, <1>6
  <2> HIDE DEF U
  <2>2. /\ Cardinality(U) \in Nat
        /\ Ascending(U) \in [1 .. Cardinality(U) -> U]
        /\ \A i \in U : \E k \in 1 .. Cardinality(U) : Ascending(U)[k] = i
        /\ \A k, l \in 1 .. Cardinality(U) : k < l => Ascending(U)[k] < Ascending(U)[l]
    BY <1>7, AscendingIs
  <2>3. /\ items \in [1 .. Cardinality(U) -> U]
        /\ \A i \in U : \E k \in 1 .. Cardinality(U) : items[k] = i
        /\ \A k, l \in 1 .. Cardinality(U) : k < l => items[k] < items[l]
    BY <2>1, <2>2
  <2> QED  BY <2>2, <2>3
<1>9. Len(items) = c /\ DOMAIN items = 1 .. c
  <2> HIDE DEF U
  <2>1. items \in Seq(U)
    BY <1>8
  <2> QED  BY <1>8, <2>1, LenProperties
<1>10. \A i \in 1 .. Len(items) - 1 : items[i] < items[i + 1]
  <2>1. \A i \in 1 .. c - 1 : i \in 1 .. c /\ i + 1 \in 1 .. c /\ i < i + 1
    OBVIOUS
  <2> QED  BY <1>8, <1>9, <2>1
<1>11. {items[i] : i \in DOMAIN items} = U
  <2> HIDE DEF U
  <2> QED  BY <1>8, <1>9
<1>12. U = {v \in 1 .. MaxPort : \E k \in DOMAIN toks : v \in toks[k].start .. toks[k].end}
  BY <1>1 DEF Span
<1>13. \A k \in DOMAIN toks : IsPortRange(toks[k])
  BY <1>1, <1>4 DEF PortsSoFar
<1> HIDE DEF U
<1>14. PortsOf(toks, items)
  BY <1>10, <1>11, <1>12, <1>13, Zenon DEF PortsOf
<1> QED  BY <1>0, <1>14

(* Ranges of ports are accepted one after the other.                        *)
LEMMA SetPortsOk ==
  ASSUME NEW toks \in Seq(PortTokens), \A k \in 1 .. Len(toks) : IsPortRange(toks[k])
  PROVE  SetPorts(toks).status = "ok"
<1> DEFINE n == Len(toks)
<1>1. n \in Nat
  BY LenProperties
<1>2. PICK g : /\ SetPorts(toks) = g[n]
               /\ g[0] = [status |-> "ok", bits |-> {}]
               /\ \A k \in 1 .. n : g[k] = PortToken(g[k - 1], toks[k])
  BY PortRun
<1> DEFINE S == {k \in 0 .. n : g[k].status = "ok"}
<1>3. 0 \in S
  BY <1>1, <1>2
<1>4. ASSUME NEW k \in 0 .. n - 1, k \in S PROVE k + 1 \in S
  <2>1. k + 1 \in 1 .. n /\ k + 1 - 1 = k /\ k + 1 \in 0 .. n
    BY <1>1
  <2>2. PICK tok \in PortTokens : tok = toks[k + 1]
    BY <2>1, ElementOfSeq
  <2>3. g[k + 1] = PortToken(g[k], tok)
    BY <1>2, <2>1, <2>2
  <2>4. /\ tok.kind # "malformed" /\ tok.start \in 1 .. MaxPort /\ tok.end \in 1 .. MaxPort
        /\ ~(tok.start > tok.end)
    <3>1. IsPortRange(tok) /\ tok.start \in Nat /\ tok.end \in Nat /\ MaxPort \in Nat
      BY <2>1, <2>2, PortTokenIs, TargetsAssumption
    <3> QED  BY <3>1 DEF IsPortRange
  <2>5. {tok.start, tok.end} \subseteq 1 .. MaxPort
    BY <2>4
  <2>6. g[k + 1].status = "ok"
    BY <1>4, <2>3, <2>4, <2>5 DEF PortToken
  <2> QED  BY <2>1, <2>6
<1> HIDE DEF S
<1>5. n \in S
  <2>1. \A k \in 0 .. n : k \in S
    BY <1>1, <1>3, <1>4, UpTo
  <2> QED  BY <1>1, <2>1
<1> QED  BY <1>2, <1>5 DEF S

(* A port list that is refused has a reason.                                *)
LEMMA PortRefusalIs ==
  ASSUME NEW toks \in Seq(PortTokens), toks # <<>>, NEW spec, spec.toks = toks, NEW denied,
         \A k \in DOMAIN toks : IsPortRange(toks[k]),
         Len(toks) <= MaxPortTokens, ~spec.tooLong, ~denied
  PROVE  PortRangeParse(spec, denied).status = "ok"
<1> DEFINE done == SetPorts(FirstFew(toks, MaxPortTokens))
           ports == {v \in 1 .. MaxPort : PortBit(v) \in done.bits}
<1>1. Len(toks) \in Nat /\ DOMAIN toks = 1 .. Len(toks) /\ MaxPortTokens \in Nat /\ MaxPort \in Nat
  BY LenProperties, TargetsAssumption
<1>2. FirstFew(toks, MaxPortTokens) = toks
  BY <1>1, FirstFewIs
<1>3. done.status = "ok"
  BY <1>1, <1>2, SetPortsOk
<1>4. PortsSoFar(toks, Len(toks), done.bits)
  BY <1>2, <1>3, SetPortsIs
<1>5. 1 \in 1 .. Len(toks)
  BY <1>1, EmptySeq
<1>6. PICK tok \in PortTokens : tok = toks[1] /\ IsPortRange(tok)
  BY <1>1, <1>5, ElementOfSeq
<1>7. PICK u \in 1 .. MaxPort : u = tok.start /\ u \in Span(tok)
  <2>1. tok.start \in Nat /\ tok.end \in Nat
    BY PortTokenIs
  <2> QED  BY <1>1, <1>6, <2>1 DEF IsPortRange, Span
<1>8. PortBit(u) \in done.bits
  BY <1>4, <1>5, <1>6, <1>7 DEF PortsSoFar, Bits
<1>9. ports # {}
  BY <1>8
<1>10. PortRangeParse(spec, denied) = Listed(Ascending(ports))
  <2>1. PortRangeParse(spec, denied) =
          IF spec.tooLong THEN Failed("malformed")
          ELSE IF done.status # "ok" THEN Failed(done.status)
          ELSE IF Len(toks) > MaxPortTokens THEN Failed("too_many")
          ELSE IF ports = {} THEN Failed("empty")
          ELSE IF denied THEN Failed("alloc")
          ELSE Listed(Ascending(ports))
    BY DEF PortRangeParse
  <2> HIDE DEF done, ports
  <2> QED  BY <1>1, <1>3, <1>9, <2>1
<1> QED  BY <1>10 DEF Listed

(* The targets a token can stand for, and what a parse can have come to.    *)
Items == [host : Nat \cup {tok.host : tok \in SpecTokens}, ip : 0 .. Word32 - 1]
Parses == [status : {"ok", "invalid", "too_many", "resolve", "alloc"}, items : Seq(Items)]

(* How many addresses a token stands for.                                   *)
Size(tok) == Cardinality(Denotes(tok))

(* A token of a target spec or of a targets file.                           *)
LEMMA SpecTokenIs ==
  ASSUME NEW tok \in SpecTokens
  PROVE  /\ tok.kind \in {"ip", "cidr", "name", "blank", "long", "multi"}
         /\ tok.addr \in 0 .. Word32 - 1 /\ tok.addr \in Nat /\ tok.addr < Word32
         /\ tok.prefix \in Nat /\ Word32 \in Nat \ {0}
         /\ tok.answers \in Seq([family : {"inet", "inet6"}, addr : 0 .. Word32 - 1])
<1>1. /\ tok.kind \in {"ip", "cidr", "name", "blank", "long", "multi"}
      /\ tok.addr \in 0 .. Word32 - 1 /\ tok.prefix \in Nat
      /\ tok.answers \in Seq([family : {"inet", "inet6"}, addr : 0 .. Word32 - 1])
  BY ScopeCallsAssumption, Zenon
<1>2. Word32 \in Nat \ {0}
  <2>1. AddressBits \in 0 .. AddressBits
    BY PowerIs
  <2> QED  BY <2>1, PowerIs DEF Word32
<1>3. \A w \in Nat : \A a \in 0 .. w - 1 : a \in Nat /\ a < w
  OBVIOUS
<1>4. tok.addr \in Nat /\ tok.addr < Word32
  BY <1>1, <1>2, <1>3
<1> QED  BY <1>1, <1>2, <1>4

(* They are finitely many.                                                  *)
LEMMA SizeIs ==
  ASSUME NEW tok \in SpecTokens
  PROVE  Size(tok) \in Nat /\ (Size(tok) = 0 <=> Denotes(tok) = {})
<1>1. PICK w \in Nat : w = Word32
  BY SpecTokenIs
<1>2. Denotes(tok) \in SUBSET (0 .. w - 1)
  <2>1. Block(tok) \in SUBSET (0 .. w - 1)
    BY <1>1 DEF Block
  <2>2. \A i \in DOMAIN tok.answers : tok.answers[i].addr \in 0 .. w - 1
    <3> SUFFICES ASSUME NEW i \in DOMAIN tok.answers PROVE tok.answers[i].addr \in 0 .. w - 1
      OBVIOUS
    <3>1. i \in 1 .. Len(tok.answers)
      BY SpecTokenIs, LenProperties
    <3>2. tok.answers[i] \in [family : {"inet", "inet6"}, addr : 0 .. w - 1]
      BY <1>1, <3>1, SpecTokenIs, ElementOfSeq
    <3> QED  BY <3>2
  <2> QED  BY <1>1, <2>1, <2>2, SpecTokenIs DEF Denotes
<1>3. IsFiniteSet(0 .. w - 1)
  BY FS_Interval
<1>4. IsFiniteSet(Denotes(tok))
  BY <1>2, <1>3, FS_Subset
<1> QED  BY <1>4, FS_CardinalityType, FS_EmptySet DEF Size

(* new lists the targets of tok.                                            *)
Lists(tok, new) ==
  /\ new \in Seq(Items) /\ Denotes(tok) # {} /\ Len(new) = Size(tok)
  /\ \A i \in 1 .. Len(new) : /\ new[i].ip \in Denotes(tok)
                              /\ tok.kind = "cidr" \/ new[i].host = tok.host
  /\ \A x \in Denotes(tok) : \E i \in 1 .. Len(new) : new[i].ip = x

(* The hosts of a block list it.                                            *)
LEMMA BlockIs ==
  ASSUME NEW tok \in SpecTokens, tok.kind = "cidr", tok.prefix \in 0 .. AddressBits
  PROVE  LET cidr == CidrParse(tok)
             hosts == [n \in 1 .. HostCount(cidr) |->
                         NewTarget(NthAddress(cidr, n - 1), NthAddress(cidr, n - 1))]
         IN  /\ HostCount(cidr) \in Nat /\ Len(hosts) = HostCount(cidr)
             /\ Lists(tok, hosts)
<1> DEFINE cidr == CidrParse(tok)
           hosts == [n \in 1 .. HostCount(cidr) |->
                         NewTarget(NthAddress(cidr, n - 1), NthAddress(cidr, n - 1))]
<1>1. PICK addr \in Nat, prefix \in 0 .. AddressBits :
         addr = tok.addr /\ prefix = tok.prefix /\ addr < Word32
  BY SpecTokenIs
<1>2. PICK d \in Nat \ {0}, q \in Nat :
           /\ d = Power[AddressBits - prefix] /\ q = addr \div d
           /\ BitAnd(addr, Mask(prefix)) = d * q
           /\ \A n \in 0 .. d - 1 :
                /\ BitOr(d * q, n) = d * q + n
                /\ d * q + n \in 0 .. Word32 - 1
                /\ (d * q + n) \div d = q
           /\ \A x \in 0 .. Word32 - 1 : x \div d = q => \E n \in 0 .. d - 1 : x = d * q + n
  BY <1>1, CidrIs
<1>3. PICK b \in Nat : b = d * q
  <2>1. d * q \in Nat
    BY SMT
  <2> QED  BY <2>1
<1>4. cidr = [ok |-> TRUE, network |-> b, prefix |-> prefix]
  BY <1>1, <1>2, <1>3 DEF CidrParse
<1>5. HostCount(cidr) = d /\ \A n : NthAddress(cidr, n) = BitOr(b, n)
  BY <1>2, <1>4 DEF HostCount, NthAddress
<1>6. /\ \A n \in 0 .. d - 1 : /\ BitOr(b, n) = b + n /\ b + n \in 0 .. Word32 - 1
                               /\ (b + n) \div d = q
      /\ \A x \in 0 .. Word32 - 1 : x \div d = q => \E n \in 0 .. d - 1 : x = b + n
  BY <1>2, <1>3, Zenon
<1>7. \A n \in 1 .. d : n - 1 \in 0 .. d - 1
  OBVIOUS
<1>8. hosts = [n \in 1 .. d |-> NewTarget(b + (n - 1), b + (n - 1))]
  <2>1. hosts = [n \in 1 .. d |-> NewTarget(BitOr(b, n - 1), BitOr(b, n - 1))]
    BY <1>5
  <2>2. \A n \in 1 .. d : BitOr(b, n - 1) = b + (n - 1)
    BY <1>6, <1>7
  <2> QED  BY <2>1, <2>2
<1>9. Denotes(tok) = {x \in 0 .. Word32 - 1 : x \div d = q}
  <2>1. tok.prefix <= AddressBits
    BY PowerIs
  <2>2. Denotes(tok) = Block(tok)
    BY <2>1 DEF Denotes
  <2> QED  BY <1>1, <1>2, <2>2 DEF Block
<1>10. \A n \in 1 .. d : b + (n - 1) \in Denotes(tok) /\ b + (n - 1) \in Nat
  <2>1. \A n \in 1 .. d : b + (n - 1) \in Nat
    OBVIOUS
  <2> QED  BY <1>6, <1>7, <1>9, <2>1
<1>11. \A x \in Denotes(tok) : \E n \in 1 .. d : x = b + (n - 1)
  <2> SUFFICES ASSUME NEW x \in Denotes(tok) PROVE \E n \in 1 .. d : x = b + (n - 1)
    OBVIOUS
  <2>1. PICK m \in 0 .. d - 1 : x = b + m
    BY <1>6, <1>9
  <2>2. m + 1 \in 1 .. d /\ m + 1 - 1 = m
    OBVIOUS
  <2> QED  BY <2>1, <2>2
<1>12. Denotes(tok) \subseteq 0 .. Word32 - 1
  BY <1>9
<1> HIDE DEF cidr, hosts
<1>13. \A n \in 1 .. d : hosts[n] = [host |-> b + (n - 1), ip |-> b + (n - 1)]
  BY <1>8 DEF NewTarget
<1>14. hosts \in [1 .. d -> Items]
  <2>1. \A n \in 1 .. d : [host |-> b + (n - 1), ip |-> b + (n - 1)] \in Items
    BY <1>10, <1>12 DEF Items
  <2> QED  BY <1>8, <1>13, <2>1
<1>15. hosts \in Seq(Items) /\ Len(hosts) = d
  BY <1>14, LenProperties
<1>16. \A n \in 1 .. d : hosts[n].ip = b + (n - 1)
  <2>1. \A v : [host |-> v, ip |-> v].ip = v
    OBVIOUS
  <2> QED  BY <1>13, <2>1, Zenon
<1>17. Lists(tok, hosts)
  <2>1. Denotes(tok) # {}
    <3>1. 1 \in 1 .. d
      OBVIOUS
    <3> QED  BY <1>10, <3>1
  <2>2. \A i \in 1 .. Len(hosts) : hosts[i].ip \in Denotes(tok)
    BY <1>10, <1>15, <1>16
  <2>3. \A x \in Denotes(tok) : \E i \in 1 .. Len(hosts) : hosts[i].ip = x
    BY <1>11, <1>15, <1>16
  <2>4. Size(tok) = d
    <3>1. b + d - 1 \in Int /\ ~(b > b + d - 1) /\ b + d - 1 - b + 1 = d
      OBVIOUS
    <3>2. Denotes(tok) = b .. b + d - 1
      <4>1. ASSUME NEW x \in b .. b + d - 1 PROVE x \in Denotes(tok)
        <5>1. PICK m \in 1 .. d : x = b + (m - 1)
          <6>1. x - b + 1 \in 1 .. d /\ x = b + (x - b + 1 - 1)
            OBVIOUS
          <6> QED  BY <6>1
        <5> QED  BY <1>10, <5>1
      <4>2. \A n \in 1 .. d : b + (n - 1) \in b .. b + d - 1
        OBVIOUS
      <4> QED  BY <1>11, <4>1, <4>2
    <3>3. Cardinality(b .. b + d - 1) = d
      BY <3>1, FS_Interval
    <3> QED  BY <3>2, <3>3 DEF Size
  <2> QED  BY <1>15, <2>1, <2>2, <2>3, <2>4 DEF Lists
<1> QED  BY <1>5, <1>15, <1>17 DEF cidr, hosts

(* A single target lists its token.                                         *)
LEMMA TargetIs ==
  ASSUME NEW tok \in SpecTokens, tok.kind \notin {"cidr", "blank", "long"}
  PROVE  /\ TargetParse(tok).status \in {"ok", "invalid", "resolve"}
         /\ TargetParse(tok).status = "ok" =>
              Lists(tok, <<NewTarget(tok.host, TargetParse(tok).ip)>>)
         /\ TargetParse(tok).status # "ok" => Denotes(tok) = {}
<1> DEFINE v4 == {i \in DOMAIN tok.answers : tok.answers[i].family = "inet"}
           least == CHOOSE i \in v4 : \A j \in v4 : i <= j
           target == TargetParse(tok)
<1>1. tok.kind \in {"multi", "ip", "name"}
  BY SpecTokenIs
<1>2. target = IF tok.kind = "multi" THEN [status |-> "invalid", ip |-> 0]
               ELSE IF tok.kind = "ip" THEN [status |-> "ok", ip |-> tok.addr]
               ELSE IF v4 = {} THEN [status |-> "resolve", ip |-> 0]
               ELSE [status |-> "ok", ip |-> tok.answers[least].addr]
  BY DEF TargetParse
<1> HIDE DEF target
<1>3. target.status \in {"ok", "invalid", "resolve"}
  <2> HIDE DEF v4, least
  <2> QED  BY <1>2
<1>4. ASSUME NEW x \in 0 .. Word32 - 1, target = [status |-> "ok", ip |-> x], Denotes(tok) = {x}
      PROVE  Lists(tok, <<NewTarget(tok.host, target.ip)>>)
  <2>1. target.ip = x
    BY <1>4
  <2>2. PICK t \in Items : t = NewTarget(tok.host, x) /\ t.ip = x /\ t.host = tok.host
    <3>1. [host |-> tok.host, ip |-> x] \in Items
      BY DEF Items
    <3> QED  BY <3>1 DEF NewTarget
  <2>3. <<t>> \in Seq(Items) /\ Len(<<t>>) = 1 /\ <<t>>[1] = t
    OBVIOUS
  <2>4. \A i \in 1 .. 1 : i = 1
    OBVIOUS
  <2>5. 1 \in 1 .. 1
    OBVIOUS
  <2>6. Size(tok) = 1
    BY <1>4, FS_Singleton DEF Size
  <2>7. Lists(tok, <<t>>)
    BY <1>4, <2>2, <2>3, <2>4, <2>5, <2>6 DEF Lists
  <2> QED  BY <2>1, <2>2, <2>7
<1>5. CASE tok.kind = "multi"
  <2> HIDE DEF v4, least
  <2> QED  BY <1>2, <1>5 DEF target, Denotes
<1>6. CASE tok.kind = "ip"
  <2>1. target = [status |-> "ok", ip |-> tok.addr]
    <3> HIDE DEF v4, least
    <3> QED  BY <1>2, <1>6
  <2>2. Denotes(tok) = {tok.addr} /\ tok.addr \in 0 .. Word32 - 1
    BY <1>6, SpecTokenIs DEF Denotes
  <2> QED  BY <1>3, <1>4, <2>1, <2>2 DEF target
<1>7. CASE tok.kind = "name"
  <2>1. CASE v4 = {}
    <3>1. target.status = "resolve"
      <4> HIDE DEF v4, least
      <4> QED  BY <1>2, <1>7, <2>1
    <3>2. Denotes(tok) = {}
      BY <1>7, <2>1 DEF Denotes
    <3> QED  BY <3>1, <3>2 DEF target
  <2>2. CASE v4 # {}
    <3>1. target = [status |-> "ok", ip |-> tok.answers[least].addr]
      <4> HIDE DEF v4, least
      <4> QED  BY <1>2, <1>7, <2>2
    <3>2. DOMAIN tok.answers = 1 .. Len(tok.answers) /\ Len(tok.answers) \in Nat
      BY SpecTokenIs, LenProperties
    <3>3. v4 \in SUBSET Nat
      BY <3>2
    <3>4. \E i \in v4 : \A j \in v4 : i <= j
      <4> HIDE DEF v4
      <4> QED  BY <2>2, <3>3, LeastNat
    <3>5. PICK m \in v4 : m = least /\ \A j \in v4 : m <= j
      <4> HIDE DEF v4
      <4> QED  BY <3>4
    <3>6. m \in 1 .. Len(tok.answers) /\ tok.answers[m].family = "inet"
      BY <3>2
    <3>7. tok.answers[m].addr \in 0 .. Word32 - 1
      <4>1. tok.answers[m] \in [family : {"inet", "inet6"}, addr : 0 .. Word32 - 1]
        BY <3>6, SpecTokenIs, ElementOfSeq
      <4> QED  BY <4>1
    <3>8. \A i \in DOMAIN tok.answers :
             (/\ tok.answers[i].family = "inet"
              /\ \A j \in 1 .. i - 1 : tok.answers[j].family # "inet") <=> i = m
      <4>1. ASSUME NEW i \in DOMAIN tok.answers, tok.answers[i].family = "inet",
                   \A j \in 1 .. i - 1 : tok.answers[j].family # "inet"
            PROVE  i = m
        <5>1. i \in v4
          BY <4>1
        <5>2. m <= i
          BY <3>5, <5>1
        <5>3. ~(m < i)
          BY <3>2, <3>6, <4>1
        <5> QED  BY <3>2, <3>6, <5>2, <5>3
      <4>2. ASSUME NEW j \in 1 .. m - 1, tok.answers[j].family = "inet" PROVE FALSE
        <5>1. j \in DOMAIN tok.answers /\ j < m
          BY <3>2, <3>6
        <5>2. j \in v4
          BY <4>2, <5>1
        <5> QED  BY <3>2, <3>5, <3>6, <5>1, <5>2
      <4> QED  BY <3>6, <4>1, <4>2
    <3>9. Denotes(tok) = {tok.answers[m].addr}
      <4>1. Denotes(tok) = {tok.answers[i].addr : i \in {i \in DOMAIN tok.answers :
                                            /\ tok.answers[i].family = "inet"
                                            /\ \A j \in 1 .. i - 1 : tok.answers[j].family # "inet"}}
        BY <1>7 DEF Denotes
      <4>2. m \in DOMAIN tok.answers
        BY <3>2, <3>6
      <4>3. {i \in DOMAIN tok.answers :
                /\ tok.answers[i].family = "inet"
                /\ \A j \in 1 .. i - 1 : tok.answers[j].family # "inet"} = {m}
        BY <3>8, <4>2
      <4>4. {tok.answers[i].addr : i \in {m}} = {tok.answers[m].addr}
        OBVIOUS
      <4> QED  BY <4>1, <4>3, <4>4
    <3>10. target.status = "ok"
      BY <3>1
    <3> QED  BY <1>3, <1>4, <3>1, <3>5, <3>7, <3>9, <3>10 DEF target
  <2> QED  BY <2>1, <2>2
<1> QED  BY <1>1, <1>5, <1>6, <1>7

(* What one token adds to the list so far.  Only a token that names nothing *)
(* or too much for the list, or lack of memory, stops the expansion.        *)
Fits(tok, acc, denied) ==
  /\ acc.status = "ok" /\ denied.targets = {}
  /\ Denotes(tok) # {} /\ Len(acc.items) + Size(tok) <= MaxTargets

LEMMA TokenIs ==
  ASSUME NEW tok \in SpecTokens, NEW acc \in Parses, NEW denied
  PROVE  /\ ExpandToken(acc, tok, denied) \in Parses
         /\ ExpandToken(acc, tok, denied).status = "ok" =>
              /\ acc.status = "ok"
              /\ \E new : /\ Lists(tok, new)
                          /\ ExpandToken(acc, tok, denied).items = acc.items \o new
                          /\ Len(ExpandToken(acc, tok, denied).items) <= MaxTargets
         /\ Fits(tok, acc, denied) => ExpandToken(acc, tok, denied).status = "ok"
<1> DEFINE r == ExpandToken(acc, tok, denied)
           Adds(new) == Lists(tok, new) /\ r.items = acc.items \o new /\ Len(r.items) <= MaxTargets
           Good == /\ r \in Parses /\ (r.status = "ok" => acc.status = "ok" /\ \E new : Adds(new))
                   /\ Fits(tok, acc, denied) => r.status = "ok"
<1>1. /\ acc.items \in Seq(Items) /\ Len(acc.items) \in Nat /\ MaxTargets \in Nat
      /\ Size(tok) \in Nat /\ (Denotes(tok) # {} => Size(tok) # 0)
  <2>1. acc.items \in Seq(Items)
    BY DEF Parses
  <2> QED  BY <2>1, LenProperties, TargetsAssumption, SizeIs
<1>2. ASSUME NEW why \in {"invalid", "too_many", "resolve", "alloc"}, r = Failed(why),
             ~Fits(tok, acc, denied)
      PROVE  Good
  <2>1. Failed(why) \in Parses /\ Failed(why).status # "ok"
    BY DEF Failed, Parses
  <2> QED  BY <1>2, <2>1
<1>3. ASSUME NEW new, Lists(tok, new), r = Listed(acc.items \o new), acc.status = "ok",
             Len(acc.items) + Len(new) <= MaxTargets
      PROVE  Good
  <2>1. new \in Seq(Items)
    BY <1>3 DEF Lists
  <2>2. acc.items \o new \in Seq(Items) /\ Len(acc.items \o new) = Len(acc.items) + Len(new)
    BY <1>1, <2>1, ConcatProperties
  <2>3. r \in Parses /\ r.items = acc.items \o new /\ r.status = "ok"
    BY <1>3, <2>2 DEF Listed, Parses
  <2> QED  BY <1>3, <2>2, <2>3
<1>4. CASE acc.status # "ok"
  BY <1>4 DEF ExpandToken, Fits
<1>5. CASE acc.status = "ok" /\ tok.kind \in {"blank", "long"}
  <2>1. r = Failed("invalid")
    BY <1>5 DEF ExpandToken
  <2>2. ~Fits(tok, acc, denied)
    BY <1>5 DEF Fits, Denotes
  <2> QED  BY <1>2, <2>1, <2>2
<1>6. CASE acc.status = "ok" /\ tok.kind = "cidr"
  <2> DEFINE cidr == CidrParse(tok)
             hosts == [n \in 1 .. HostCount(cidr) |->
                         NewTarget(NthAddress(cidr, n - 1), NthAddress(cidr, n - 1))]
             short == CannotPush(Len(acc.items), Len(acc.items) + HostCount(cidr) - 1, denied)
  <2>1. r = IF ~cidr.ok THEN Failed("invalid")
            ELSE IF Len(acc.items) + HostCount(cidr) > MaxTargets THEN Failed("too_many")
            ELSE IF short THEN Failed("alloc")
            ELSE Listed(acc.items \o hosts)
    <3>1. r = ExpandCidr(tok, acc, denied)
      BY <1>6 DEF ExpandToken
    <3> QED  BY <3>1 DEF ExpandCidr
  <2>2. CASE tok.prefix \notin 0 .. AddressBits
    <3>1. ~cidr.ok
      BY <2>2 DEF CidrParse
    <3>2. r = Failed("invalid")
      <4> HIDE DEF cidr, hosts, short
      <4> QED  BY <2>1, <3>1
    <3>3. ~(tok.prefix <= AddressBits)
      BY <2>2, SpecTokenIs, PowerIs
    <3>4. ~Fits(tok, acc, denied)
      BY <1>6, <3>3 DEF Fits, Denotes
    <3> HIDE DEF r, Good
    <3> QED  BY <1>2, <3>2, <3>4 DEF Good, r
  <2>3. CASE tok.prefix \in 0 .. AddressBits
    <3>1. cidr.ok
      BY <2>3 DEF CidrParse
    <3>2. HostCount(cidr) \in Nat /\ Len(hosts) = HostCount(cidr) /\ Lists(tok, hosts)
      BY <1>6, <2>3, BlockIs, Zenon
    <3>3. short => denied.targets # {}
      BY DEF CannotPush
    <3> HIDE DEF r, Good, cidr, hosts, short
    <3>4. HostCount(cidr) = Size(tok)
      BY <3>2 DEF Lists
    <3>5. CASE Len(acc.items) + HostCount(cidr) > MaxTargets
      <4>1. r = Failed("too_many")
        BY <2>1, <3>1, <3>5
      <4>2. ~Fits(tok, acc, denied)
        BY <1>1, <3>4, <3>5 DEF Fits
      <4> QED  BY <1>2, <4>1, <4>2 DEF Good, r
    <3>6. CASE ~(Len(acc.items) + HostCount(cidr) > MaxTargets) /\ short
      <4>1. r = Failed("alloc")
        BY <2>1, <3>1, <3>6
      <4>2. ~Fits(tok, acc, denied)
        BY <3>3, <3>6 DEF Fits
      <4> QED  BY <1>2, <4>1, <4>2 DEF Good, r
    <3>7. CASE ~(Len(acc.items) + HostCount(cidr) > MaxTargets) /\ ~short
      <4>1. r = Listed(acc.items \o hosts)
        BY <2>1, <3>1, <3>7
      <4>2. Len(acc.items) + Len(hosts) <= MaxTargets
        BY <1>1, <3>2, <3>7
      <4>3. Good
        BY <1>3, <1>6, <3>2, <4>1, <4>2
      <4> QED  BY <4>3 DEF Good, r
    <3> QED  BY <3>5, <3>6, <3>7
  <2> QED  BY <2>2, <2>3
<1>7. CASE acc.status = "ok" /\ tok.kind \notin {"blank", "long", "cidr"}
  <2> DEFINE target == TargetParse(tok)
             t == NewTarget(tok.host, target.ip)
             short == CannotPush(Len(acc.items), Len(acc.items), denied)
  <2>1. r = IF Len(acc.items) + 1 > MaxTargets THEN Failed("too_many")
            ELSE IF target.status # "ok" THEN Failed(target.status)
            ELSE IF short THEN Failed("alloc")
            ELSE Listed(Append(acc.items, t))
    <3>1. r = ExpandTarget(tok, acc, denied)
      BY <1>7 DEF ExpandToken
    <3> QED  BY <3>1 DEF ExpandTarget
  <2>2. /\ target.status \in {"ok", "invalid", "resolve"}
        /\ target.status = "ok" => Lists(tok, <<t>>)
        /\ target.status # "ok" => Denotes(tok) = {}
    BY <1>7, TargetIs
  <2>3. short => denied.targets # {}
    BY DEF CannotPush
  <2> HIDE DEF r, Good, target, short
  <2>4. CASE Len(acc.items) + 1 > MaxTargets
    <3>1. r = Failed("too_many")
      BY <2>1, <2>4
    <3>2. ~Fits(tok, acc, denied)
      BY <1>1, <2>4 DEF Fits
    <3> QED  BY <1>2, <3>1, <3>2 DEF Good, r
  <2>5. CASE ~(Len(acc.items) + 1 > MaxTargets) /\ target.status # "ok"
    <3>1. r = Failed(target.status)
      BY <2>1, <2>5
    <3>2. ~Fits(tok, acc, denied)
      BY <2>2, <2>5 DEF Fits
    <3> QED  BY <1>2, <2>2, <2>5, <3>1, <3>2 DEF Good, r
  <2>6. CASE ~(Len(acc.items) + 1 > MaxTargets) /\ target.status = "ok" /\ short
    <3>1. r = Failed("alloc")
      BY <2>1, <2>6
    <3>2. ~Fits(tok, acc, denied)
      BY <2>3, <2>6 DEF Fits
    <3> QED  BY <1>2, <3>1, <3>2 DEF Good, r
  <2>7. CASE ~(Len(acc.items) + 1 > MaxTargets) /\ target.status = "ok" /\ ~short
    <3>1. r = Listed(Append(acc.items, t))
      BY <2>1, <2>7
    <3>2. t \in Items /\ Lists(tok, <<t>>)
      <4>1. Lists(tok, <<t>>)
        BY <2>2, <2>7
      <4>2. <<t>> \in Seq(Items) /\ Len(<<t>>) = 1 /\ <<t>>[1] = t
        BY <4>1 DEF Lists
      <4>3. 1 \in 1 .. Len(<<t>>)
        BY <4>2
      <4>4. <<t>>[1] \in Items
        BY <4>2, <4>3, ElementOfSeq
      <4> QED  BY <4>1, <4>2, <4>4
    <3> HIDE DEF t
    <3>3. Append(acc.items, t) = acc.items \o <<t>> /\ Len(<<t>>) = 1
      BY <1>1, <3>2, AppendIsConcat
    <3>4. r = Listed(acc.items \o <<t>>) /\ Len(acc.items) + Len(<<t>>) <= MaxTargets
      BY <1>1, <2>7, <3>1, <3>3
    <3>5. Good
      BY <1>3, <1>7, <3>2, <3>4
    <3> QED  BY <3>5 DEF Good, r
  <2> QED  BY <2>4, <2>5, <2>6, <2>7
<1> HIDE DEF Good
<1>8. Good
  BY <1>4, <1>5, <1>6, <1>7 DEF Good
<1> QED  BY <1>8 DEF Good

(* o tells which of the tokens at the positions J each target is from: in   *)
(* the order of the tokens, every target is one of its token, and every     *)
(* address of a token has a target from that token.                         *)
From(toks, J, items, o) ==
  /\ o \in [1 .. Len(items) -> J]
  /\ \A i, j \in 1 .. Len(items) : i <= j => o[i] <= o[j]
  /\ \A i \in 1 .. Len(items) :
        /\ items[i].ip \in Denotes(toks[o[i]])
        /\ toks[o[i]].kind = "cidr" \/ items[i].host = toks[o[i]].host
  /\ \A j \in J : /\ Denotes(toks[j]) # {}
                  /\ \A x \in Denotes(toks[j]) :
                        \E i \in 1 .. Len(items) : o[i] = j /\ items[i].ip = x

Covers(toks, J, items) ==
  /\ items \in Seq(Items) /\ Len(items) <= MaxTargets /\ J \in SUBSET Nat
  /\ \E o : From(toks, J, items, o)

(* No target covers no token.                                               *)
LEMMA CoversNothing ==
  ASSUME NEW toks
  PROVE  Covers(toks, {}, <<>>)
<1>1. <<>> \in Seq(Items) /\ Len(<<>>) = 0 /\ MaxTargets \in Nat
  BY TargetsAssumption
<1>2. 1 .. 0 = {}
  OBVIOUS
<1>3. From(toks, {}, <<>>, [i \in {} |-> 0])
  BY <1>1, <1>2 DEF From
<1> QED  BY <1>1, <1>3 DEF Covers

(* The next token adds its targets at the end.                              *)
LEMMA CoversMore ==
  ASSUME NEW toks, NEW J, NEW items, Covers(toks, J, items),
         NEW m \in Nat, \A j \in J : j < m,
         NEW new, Lists(toks[m], new), Len(items \o new) <= MaxTargets
  PROVE  Covers(toks, J \cup {m}, items \o new)
<1> DEFINE both == items \o new
<1>1. items \in Seq(Items) /\ new \in Seq(Items) /\ J \in SUBSET Nat
  BY DEF Covers, Lists
<1>2. PICK o : From(toks, J, items, o)
  BY DEF Covers
<1>3. PICK a \in Nat, b \in Nat : a = Len(items) /\ b = Len(new)
  BY <1>1, LenProperties
<1>4. /\ both \in Seq(Items) /\ Len(both) = a + b
      /\ \A i \in 1 .. a + b : both[i] = IF i <= a THEN items[i] ELSE new[i - a]
  BY <1>1, <1>3, ConcatProperties
<1>5. /\ o \in [1 .. a -> J] /\ \A i, j \in 1 .. a : i <= j => o[i] <= o[j]
      /\ \A i \in 1 .. a : /\ items[i].ip \in Denotes(toks[o[i]])
                           /\ toks[o[i]].kind = "cidr" \/ items[i].host = toks[o[i]].host
      /\ \A j \in J : /\ Denotes(toks[j]) # {}
                      /\ \A x \in Denotes(toks[j]) :
                            \E i \in 1 .. a : o[i] = j /\ items[i].ip = x
  BY <1>2, <1>3, Zenon DEF From
<1>6. /\ Denotes(toks[m]) # {}
      /\ \A i \in 1 .. b : /\ new[i].ip \in Denotes(toks[m])
                           /\ toks[m].kind = "cidr" \/ new[i].host = toks[m].host
      /\ \A x \in Denotes(toks[m]) : \E i \in 1 .. b : new[i].ip = x
  BY <1>3, Zenon DEF Lists
<1>7. \A i \in 1 .. a + b : (i \in 1 .. a /\ i <= a) \/ (~(i <= a) /\ i - a \in 1 .. b)
  OBVIOUS
<1>8. /\ \A i \in 1 .. a : i \in 1 .. a + b /\ i <= a
      /\ \A i \in 1 .. b : i + a \in 1 .. a + b /\ ~(i + a <= a) /\ i + a - a = i
  OBVIOUS
<1> HIDE DEF both
<1> DEFINE c == [i \in 1 .. a + b |-> IF i <= a THEN o[i] ELSE m]
<1>9. /\ \A i \in 1 .. a : c[i] = o[i] /\ both[i] = items[i]
      /\ \A i \in 1 .. a + b : ~(i <= a) => c[i] = m /\ both[i] = new[i - a]
  BY <1>4, <1>8
<1>10. c \in [1 .. a + b -> J \cup {m}]
  BY <1>5, <1>7
<1> HIDE DEF c
<1>11. \A i, j \in 1 .. a + b : i <= j => c[i] <= c[j]
  <2> SUFFICES ASSUME NEW i \in 1 .. a + b, NEW j \in 1 .. a + b, i <= j PROVE c[i] <= c[j]
    OBVIOUS
  <2>1. CASE j <= a
    <3>1. i \in 1 .. a /\ j \in 1 .. a
      BY <2>1
    <3> QED  BY <1>5, <1>9, <3>1
  <2>2. CASE ~(j <= a) /\ i <= a
    <3>1. i \in 1 .. a /\ c[j] = m
      BY <1>9, <2>2
    <3>2. PICK u \in J : u = c[i]
      BY <1>5, <1>9, <3>1
    <3>3. u \in Nat /\ u < m
      BY <1>1
    <3> QED  BY <3>1, <3>2, <3>3
  <2>3. CASE ~(j <= a) /\ ~(i <= a)
    <3>1. c[i] = m /\ c[j] = m
      BY <1>9, <2>3
    <3> QED  BY <3>1
  <2> QED  BY <2>1, <2>2, <2>3
<1>12. ASSUME NEW i \in 1 .. a + b
       PROVE  /\ both[i].ip \in Denotes(toks[c[i]])
              /\ toks[c[i]].kind = "cidr" \/ both[i].host = toks[c[i]].host
  <2>1. CASE i <= a
    <3>1. i \in 1 .. a
      BY <2>1
    <3> QED  BY <1>5, <1>9, <3>1, Zenon
  <2>2. CASE ~(i <= a)
    <3>1. i - a \in 1 .. b
      BY <2>2
    <3> QED  BY <1>6, <1>9, <2>2, <3>1, Zenon
  <2> QED  BY <2>1, <2>2
<1>13. ASSUME NEW j \in J \cup {m}
       PROVE  /\ Denotes(toks[j]) # {}
              /\ \A x \in Denotes(toks[j]) :
                    \E i \in 1 .. a + b : c[i] = j /\ both[i].ip = x
  <2>1. CASE j \in J
    <3>1. ASSUME NEW x \in Denotes(toks[j]) PROVE \E i \in 1 .. a + b : c[i] = j /\ both[i].ip = x
      <4>1. PICK i \in 1 .. a : o[i] = j /\ items[i].ip = x
        BY <1>5, <2>1, Zenon
      <4>2. c[i] = j /\ both[i].ip = x
        BY <1>9, <4>1, Zenon
      <4>3. i \in 1 .. a + b
        BY <1>8
      <4> QED  BY <4>2, <4>3, Zenon
    <3>2. Denotes(toks[j]) # {}
      BY <1>5, <2>1, Zenon
    <3> QED  BY <3>1, <3>2, Zenon
  <2>2. CASE j = m
    <3>1. ASSUME NEW x \in Denotes(toks[m]) PROVE \E i \in 1 .. a + b : c[i] = m /\ both[i].ip = x
      <4>1. PICK i \in 1 .. b : new[i].ip = x
        BY <1>6
      <4>2. PICK l \in 1 .. a + b : ~(l <= a) /\ l - a = i
        BY <1>8
      <4> QED  BY <1>9, <4>1, <4>2, Zenon
    <3> QED  BY <1>6, <2>2, <3>1
  <2> QED  BY <2>1, <2>2
<1>14. From(toks, J \cup {m}, both, c)
  <2>1. 1 .. Len(both) = 1 .. a + b
    BY <1>4
  <2>2. /\ c \in [1 .. Len(both) -> J \cup {m}]
        /\ \A i, j \in 1 .. Len(both) : i <= j => c[i] <= c[j]
    BY <1>10, <1>11, <2>1
  <2>3. \A i \in 1 .. Len(both) :
          /\ both[i].ip \in Denotes(toks[c[i]])
          /\ toks[c[i]].kind = "cidr" \/ both[i].host = toks[c[i]].host
    BY <1>12, <2>1, Zenon
  <2>4. \A j \in J \cup {m} :
          /\ Denotes(toks[j]) # {}
          /\ \A x \in Denotes(toks[j]) :
                \E i \in 1 .. Len(both) : c[i] = j /\ both[i].ip = x
    <3> SUFFICES ASSUME NEW j \in J \cup {m}
                 PROVE  /\ Denotes(toks[j]) # {}
                        /\ \A x \in Denotes(toks[j]) :
                              \E i \in 1 .. Len(both) : c[i] = j /\ both[i].ip = x
      BY Zenon
    <3>1. ASSUME NEW x \in Denotes(toks[j])
          PROVE  \E i \in 1 .. Len(both) : c[i] = j /\ both[i].ip = x
      <4>1. PICK i \in 1 .. a + b : c[i] = j /\ both[i].ip = x
        BY <1>13
      <4> QED  BY <2>1, <4>1
    <3> QED  BY <1>13, <3>1
  <2> QED  BY <2>2, <2>3, <2>4, Zenon DEF From
<1>15. J \cup {m} \in SUBSET Nat
  BY <1>1
<1> QED  BY <1>4, <1>14, <1>15 DEF Covers, both

(* The run over the tokens of a list.                                       *)
LEMMA ExpandRun ==
  ASSUME NEW toks \in Seq(SpecTokens), NEW acc \in Parses, NEW denied
  PROVE  \E g \in [0 .. Len(toks) -> Parses] :
            /\ ExpandAll(toks, acc, denied) = g[Len(toks)] /\ g[0] = acc
            /\ \A k \in 1 .. Len(toks) : g[k] = ExpandToken(g[k - 1], toks[k], denied)
<1> DEFINE n == Len(toks)
           T == Parses
           step == [k \in 1 .. n |-> [x \in T |-> ExpandToken(x, toks[k], denied)]]
           Is(l) == l = [k \in 0 .. n |-> IF k = 0 THEN acc ELSE ExpandToken(l[k - 1], toks[k], denied)]
           low == CHOOSE l : Is(l)
<1>1. n \in Nat
  BY LenProperties
<1>3. ASSUME NEW k \in 1 .. n, NEW x \in T PROVE ExpandToken(x, toks[k], denied) \in T
  <2>1. PICK tok \in SpecTokens : tok = toks[k]
    BY <1>1, ElementOfSeq
  <2> QED  BY <2>1, TokenIs
<1>2. acc \in T
  OBVIOUS
<1> HIDE DEF T
<1>4. PICK g : g \in Runs(T, acc, step, n)
  <2>1. \A k \in 1 .. n, x \in T : step[k][x] \in T
    BY <1>3
  <2> HIDE DEF step
  <2> QED  BY <1>1, <1>2, <2>1, RunExists
<1>5. g \in [0 .. n -> T] /\ g[0] = acc /\ \A k \in 1 .. n : g[k] = ExpandToken(g[k - 1], toks[k], denied)
  <2>1. g \in [0 .. n -> T] /\ g[0] = acc
    BY <1>4 DEF Runs
  <2>2. ASSUME NEW k \in 1 .. n PROVE g[k] = ExpandToken(g[k - 1], toks[k], denied)
    <3>1. g[k] = step[k][g[k - 1]]
      BY <1>4 DEF Runs
    <3>2. k - 1 \in 0 .. n
      BY <1>1
    <3> QED  BY <2>1, <3>1, <3>2
  <2> QED  BY <2>1, <2>2
<1>6. Is(g)
  <2>1. \A k \in 0 .. n : k # 0 => k \in 1 .. n
    BY <1>1
  <2>2. \A k \in 0 .. n : g[k] = IF k = 0 THEN acc ELSE ExpandToken(g[k - 1], toks[k], denied)
    BY <1>5, <2>1
  <2>3. g = [k \in 0 .. n |-> g[k]]
    BY <1>5
  <2> QED  BY <2>2, <2>3
<1>7. Is(low)
  BY <1>6
<1>8. ExpandAll(toks, acc, denied) = low[n]
  BY Zenon DEF ExpandAll
<1> HIDE DEF low
<1>9. low[0] = acc /\ \A k \in 1 .. n : low[k] = ExpandToken(low[k - 1], toks[k], denied)
  BY <1>1, <1>7
<1>10. \A k \in 0 .. n : low[k] = g[k]
  <2> DEFINE S == {k \in 0 .. n : low[k] = g[k]}
  <2>1. 0 \in S
    BY <1>1, <1>5, <1>9
  <2>2. ASSUME NEW k \in 0 .. n - 1, k \in S PROVE k + 1 \in S
    <3>1. k + 1 \in 1 .. n /\ k + 1 - 1 = k /\ k + 1 \in 0 .. n
      BY <1>1
    <3> QED  BY <1>5, <1>9, <2>2, <3>1
  <2> HIDE DEF S
  <2>3. \A k \in 0 .. n : k \in S
    BY <1>1, <2>1, <2>2, UpTo
  <2> QED  BY <2>3 DEF S
<1>11. ExpandAll(toks, acc, denied) = g[n]
  BY <1>1, <1>8, <1>10
<1> QED  BY <1>5, <1>11 DEF T

(* What it gives is a parse.                                                *)
LEMMA ExpandIsParse ==
  ASSUME NEW toks \in Seq(SpecTokens), NEW acc \in Parses, NEW denied
  PROVE  ExpandAll(toks, acc, denied) \in Parses
<1>1. PICK g \in [0 .. Len(toks) -> Parses] : ExpandAll(toks, acc, denied) = g[Len(toks)]
  BY ExpandRun
<1>2. Len(toks) \in 0 .. Len(toks)
  BY LenProperties
<1> QED  BY <1>1, <1>2

(* list is the tokens of toks at the places pos, which ascend from J on.    *)
Places(toks, J, list, pos) ==
  /\ list \in Seq(SpecTokens)
  /\ pos \in [1 .. Len(list) -> Nat]
  /\ \A i \in 1 .. Len(list) : list[i] = toks[pos[i]]
  /\ \A i, j \in 1 .. Len(list) : i < j => pos[i] < pos[j]
  /\ \A i \in 1 .. Len(list), j \in J : j < pos[i]

Reached(J, pos, k) == J \cup {pos[i] : i \in 1 .. k}

(* A walk over a list adds the targets of the places of its tokens.         *)
LEMMA WalkIs ==
  ASSUME NEW toks, NEW J, NEW list, NEW pos, Places(toks, J, list, pos),
         NEW acc \in Parses, acc.status = "ok", Covers(toks, J, acc.items), NEW denied,
         ExpandAll(list, acc, denied).status = "ok"
  PROVE  Covers(toks, Reached(J, pos, Len(list)), ExpandAll(list, acc, denied).items)
<1> DEFINE n == Len(list)
           At(k) == Reached(J, pos, k)
<1>1. n \in Nat /\ list \in Seq(SpecTokens)
  BY LenProperties DEF Places
<1>2. PICK g \in [0 .. n -> Parses] :
            /\ ExpandAll(list, acc, denied) = g[n] /\ g[0] = acc
            /\ \A k \in 1 .. n : g[k] = ExpandToken(g[k - 1], list[k], denied)
  BY <1>1, ExpandRun
<1> DEFINE S == {k \in 0 .. n : g[k].status = "ok" => Covers(toks, At(k), g[k].items)}
<1>3. 0 \in S
  <2>1. At(0) = J
    BY DEF Reached
  <2>2. 0 \in 0 .. n
    BY <1>1
  <2> HIDE DEF At
  <2>3. Covers(toks, At(0), g[0].items)
    BY <1>2, <2>1, Zenon
  <2> QED  BY <2>2, <2>3, Zenon
<1>4. ASSUME NEW k \in 0 .. n - 1, k \in S PROVE k + 1 \in S
  <2>1. k + 1 \in 1 .. n /\ k + 1 - 1 = k /\ k + 1 \in 0 .. n /\ k \in 0 .. n
    BY <1>1
  <2> SUFFICES ASSUME g[k + 1].status = "ok" PROVE Covers(toks, At(k + 1), g[k + 1].items)
    BY <2>1
  <2>2. PICK tok \in SpecTokens, m \in Nat : /\ tok = list[k + 1] /\ m = pos[k + 1]
                                           /\ tok = toks[m]
    <3>1. list[k + 1] \in SpecTokens
      BY <1>1, <2>1, ElementOfSeq
    <3>2. pos[k + 1] \in Nat /\ list[k + 1] = toks[pos[k + 1]]
      BY <2>1 DEF Places
    <3> QED  BY <3>1, <3>2, Zenon
  <2>3. g[k + 1] = ExpandToken(g[k], tok, denied) /\ g[k] \in Parses
    <3>1. g[k + 1] = ExpandToken(g[k + 1 - 1], list[k + 1], denied)
      <4>1. \A l \in 1 .. n : g[l] = ExpandToken(g[l - 1], list[l], denied)
        BY <1>2, Zenon
      <4> QED  BY <2>1, <4>1
    <3>2. g[k] \in Parses
      BY <2>1
    <3> QED  BY <2>1, <2>2, <3>1, <3>2, Zenon
  <2>4. PICK new : /\ Lists(tok, new) /\ g[k + 1].items = g[k].items \o new
                   /\ Len(g[k].items \o new) <= MaxTargets
    <3>1. \E new : /\ Lists(tok, new)
                   /\ ExpandToken(g[k], tok, denied).items = g[k].items \o new
                   /\ Len(ExpandToken(g[k], tok, denied).items) <= MaxTargets
      BY <2>3, TokenIs, Zenon
    <3> QED  BY <2>3, <3>1, Zenon
  <2>5. g[k].status = "ok"
    <3>1. ExpandToken(g[k], tok, denied).status = "ok"
      BY <2>3, Zenon
    <3> QED  BY <2>3, <3>1, TokenIs
  <2>6. Covers(toks, At(k), g[k].items)
    BY <1>4, <2>5
  <2>7. \A j \in At(k) : j < m
    <3>1. \A i \in 1 .. k : i \in 1 .. n /\ i < k + 1
      BY <1>1
    <3>2. \A i \in 1 .. k : pos[i] < m
      BY <2>1, <2>2, <3>1 DEF Places
    <3>3. \A j \in J : j < m
      BY <2>1, <2>2 DEF Places
    <3> QED  BY <3>2, <3>3 DEF Reached
  <2>8. At(k + 1) = At(k) \cup {m}
    <3>1. \A i \in 1 .. k + 1 : i \in 1 .. k \/ i = k + 1
      BY <1>1
    <3>2. k + 1 \in 1 .. k + 1 /\ \A i \in 1 .. k : i \in 1 .. k + 1
      BY <1>1
    <3> QED  BY <2>2, <3>1, <3>2 DEF Reached
  <2> HIDE DEF At
  <2>9. Lists(toks[m], new)
    BY <2>2, <2>4
  <2>10. Covers(toks, At(k) \cup {m}, g[k].items \o new)
    BY <2>4, <2>6, <2>7, <2>9, CoversMore
  <2> QED  BY <2>4, <2>8, <2>10
<1> HIDE DEF S
<1>5. n \in S
  <2>1. \A k \in 0 .. n : k \in S
    BY <1>1, <1>3, <1>4, UpTo
  <2> QED  BY <1>1, <2>1
<1> QED  BY <1>2, <1>5 DEF S

(* There is memory for every target.                                        *)
HasRoom(denied) == denied.targets = {}

(* A walk goes to its end when every token names something and the list has *)
(* room for all of them; sum[k] is what the list holds after k tokens.      *)
Sums(list, acc, sum) ==
  /\ sum \in [0 .. Len(list) -> Nat] /\ sum[0] = Len(acc.items)
  /\ \A k \in 1 .. Len(list) : /\ sum[k] = sum[k - 1] + Size(list[k])
                                /\ sum[k] <= MaxTargets /\ Denotes(list[k]) # {}

LEMMA WalkEndsWell ==
  ASSUME NEW list \in Seq(SpecTokens), NEW acc \in Parses, acc.status = "ok",
         NEW denied, HasRoom(denied), NEW sum, Sums(list, acc, sum)
  PROVE  /\ ExpandAll(list, acc, denied).status = "ok"
         /\ Len(ExpandAll(list, acc, denied).items) = sum[Len(list)]
<1> DEFINE n == Len(list)
<1>1. n \in Nat /\ list \in Seq(SpecTokens)
  BY LenProperties
<1>2. PICK g \in [0 .. n -> Parses] :
            /\ ExpandAll(list, acc, denied) = g[n] /\ g[0] = acc
            /\ \A k \in 1 .. n : g[k] = ExpandToken(g[k - 1], list[k], denied)
  BY <1>1, ExpandRun
<1> DEFINE S == {k \in 0 .. n : g[k].status = "ok" /\ Len(g[k].items) = sum[k]}
<1>3. 0 \in S
  BY <1>1, <1>2 DEF Sums
<1>4. ASSUME NEW k \in 0 .. n - 1, k \in S PROVE k + 1 \in S
  <2>1. k + 1 \in 1 .. n /\ k + 1 - 1 = k /\ k + 1 \in 0 .. n /\ k \in 0 .. n
    BY <1>1
  <2>2. PICK tok \in SpecTokens : tok = list[k + 1]
    BY <2>1, ElementOfSeq
  <2>3. g[k + 1] = ExpandToken(g[k], tok, denied) /\ g[k] \in Parses
    <3>1. \A l \in 1 .. n : g[l] = ExpandToken(g[l - 1], list[l], denied)
      BY <1>2, Zenon
    <3> QED  BY <2>1, <2>2, <3>1
  <2>4. /\ sum[k + 1] = sum[k] + Size(tok) /\ sum[k + 1] <= MaxTargets
        /\ Denotes(tok) # {}
    BY <2>1, <2>2 DEF Sums
  <2>5. g[k].status = "ok" /\ Len(g[k].items) = sum[k]
    BY <1>4
  <2>6. Fits(tok, g[k], denied)
    BY <2>4, <2>5 DEF Fits, HasRoom
  <2>7. g[k + 1].status = "ok"
    <3>1. ExpandToken(g[k], tok, denied).status = "ok"
      BY <2>3, <2>6, TokenIs
    <3> QED  BY <2>3, <3>1, Zenon
  <2>8. PICK new : Lists(tok, new) /\ g[k + 1].items = g[k].items \o new
    <3>1. ExpandToken(g[k], tok, denied).status = "ok"
      BY <2>3, <2>7, Zenon
    <3>2. \E new : /\ Lists(tok, new)
                   /\ ExpandToken(g[k], tok, denied).items = g[k].items \o new
                   /\ Len(ExpandToken(g[k], tok, denied).items) <= MaxTargets
      BY <2>3, <3>1, TokenIs, Zenon
    <3> QED  BY <2>3, <3>2, Zenon
  <2>9. Len(g[k + 1].items) = Len(g[k].items) + Size(tok)
    <3>1. new \in Seq(Items) /\ Len(new) = Size(tok)
      BY <2>8 DEF Lists
    <3>2. g[k].items \in Seq(Items)
      BY <2>3 DEF Parses
    <3>3. Len(g[k].items \o new) = Len(g[k].items) + Len(new)
      BY <3>1, <3>2, ConcatProperties
    <3> QED  BY <2>8, <3>1, <3>3
  <2> QED  BY <2>1, <2>4, <2>5, <2>7, <2>9
<1> HIDE DEF S
<1>5. n \in S
  <2>1. \A k \in 0 .. n : k \in S
    BY <1>1, <1>3, <1>4, UpTo
  <2> QED  BY <1>1, <2>1
<1> QED  BY <1>2, <1>5 DEF S

(* r is exactly what the tokens at the positions M name.                    *)
Exact(toks, M, r) ==
  /\ {r[i].ip : i \in DOMAIN r} = UNION {Denotes(toks[k]) : k \in M}
  /\ \A i, j \in DOMAIN r : r[i].ip = r[j].ip => i = j
  /\ \A k \in M : Denotes(toks[k]) # {}
  /\ Len(r) \in 1 .. MaxTargets
  /\ \A i \in DOMAIN r, k \in M :
       /\ r[i].ip \in Denotes(toks[k])
       /\ \A l \in M : l < k => r[i].ip \notin Denotes(toks[l])
       => toks[k].kind = "cidr" \/ r[i].host = toks[k].host

(* The list without duplicates is, when the list covers the tokens.         *)
LEMMA DedupIsExact ==
  ASSUME NEW toks, NEW M, NEW items, Covers(toks, M, items), items # <<>>
  PROVE  Exact(toks, M, Dedup(items))
<1> DEFINE N == Len(items)
           ip == [i \in 1 .. N |-> items[i].ip]
           r == Dedup(items)
           F == Firsts(ip, N)
<1>1. items \in Seq(Items) /\ N \in Nat /\ N <= MaxTargets /\ MaxTargets \in Nat /\ M \in SUBSET Nat
  BY LenProperties, TargetsAssumption DEF Covers
<1>2. N # 0
  BY <1>1, EmptySeq
<1>3. PICK o : From(toks, M, items, o)
  BY DEF Covers
<1>4. /\ o \in [1 .. N -> M] /\ \A i, j \in 1 .. N : i <= j => o[i] <= o[j]
      /\ \A i \in 1 .. N : /\ items[i].ip \in Denotes(toks[o[i]])
                           /\ toks[o[i]].kind = "cidr" \/ items[i].host = toks[o[i]].host
      /\ \A j \in M : Denotes(toks[j]) # {}
      /\ \A j \in M : \A x \in Denotes(toks[j]) :
                            \E i \in 1 .. N : o[i] = j /\ items[i].ip = x
  BY <1>3, Zenon DEF From
<1>5. ip \in [1 .. N -> Nat] /\ \A i \in 1 .. N : ip[i] = items[i].ip
  <2>1. ASSUME NEW i \in 1 .. N PROVE items[i].ip \in Nat
    <3>1. items[i] \in Items
      BY <1>1, ElementOfSeq
    <3>2. items[i].ip \in 0 .. Word32 - 1
      BY <3>1 DEF Items
    <3>3. \A w : \A x \in 0 .. w - 1 : x \in Nat
      OBVIOUS
    <3> QED  BY <3>2, <3>3
  <2> QED  BY <2>1
<1> HIDE DEF ip, r
<1>6. PICK n \in Nat : \E f : ClosesUp(Items, items, ip, n, f)
  <2>1. items \in Seq(Items) /\ ip \in [1 .. Len(items) -> Nat]
    BY <1>1, <1>5
  <2>2. \A i \in 1 .. Len(items) : ip[i] = items[i].ip
    BY <1>5
  <2> QED  BY <2>1, <2>2, DedupIs
<1>7. PICK f :
            /\ r \in Seq(Items) /\ Len(r) = n /\ n <= N
            /\ f \in [1 .. n -> F]
            /\ \A k \in 1 .. n : r[k] = items[f[k]]
            /\ \A k, l \in 1 .. n : f[k] = f[l] => k = l
            /\ \A i \in F : \E k \in 1 .. n : f[k] = i
  BY <1>6, Zenon DEF r, ClosesUp
<1>8. DOMAIN r = 1 .. n
  BY <1>7, LenProperties
<1>9. ASSUME NEW k \in 1 .. n
      PROVE  /\ f[k] \in 1 .. N /\ r[k].ip = ip[f[k]] /\ r[k] = items[f[k]]
             /\ \A q \in 1 .. N : ip[q] = ip[f[k]] => f[k] <= q
  <2>1. PICK p \in F : p = f[k]
    BY <1>7
  <2>2. p \in 1 .. N /\ \A j \in 1 .. p - 1 : ip[j] # ip[p]
    BY DEF Firsts
  <2>3. ASSUME NEW q \in 1 .. N, ip[q] = ip[p] PROVE p <= q
    <3> SUFFICES ASSUME ~(p <= q) PROVE FALSE
      OBVIOUS
    <3>1. q \in 1 .. p - 1
      BY <1>1, <2>2
    <3> QED  BY <2>2, <2>3, <3>1
  <2>4. r[k] = items[p]
    BY <1>7, <2>1
  <2> QED  BY <1>5, <2>1, <2>2, <2>3, <2>4
<1>10. ASSUME NEW q \in 1 .. N PROVE \E k \in 1 .. n : r[k].ip = ip[q]
  <2> DEFINE S == {i \in 1 .. N : ip[i] = ip[q]}
  <2>1. S \in SUBSET Nat /\ S # {}
    BY <1>1
  <2>2. PICK p \in S : \A y \in S : p <= y
    <3> HIDE DEF S
    <3> QED  BY <2>1, LeastNat
  <2>3. p \in F
    <3>1. \A j \in 1 .. p - 1 : j \in 1 .. N /\ ~(p <= j)
      BY <1>1, <2>2
    <3>2. \A j \in 1 .. p - 1 : ip[j] # ip[p]
      BY <2>2, <3>1
    <3> QED  BY <2>2, <3>2 DEF Firsts
  <2>4. PICK k \in 1 .. n : f[k] = p
    BY <1>7, <2>3
  <2> QED  BY <1>9, <2>2, <2>4
<1>11. {r[i].ip : i \in DOMAIN r} = UNION {Denotes(toks[k]) : k \in M}
  <2>1. ASSUME NEW i \in 1 .. n PROVE \E k \in M : r[i].ip \in Denotes(toks[k])
    <3>1. f[i] \in 1 .. N /\ r[i] = items[f[i]]
      BY <1>9
    <3>2. o[f[i]] \in M
      BY <1>4, <3>1
    <3>3. items[f[i]].ip \in Denotes(toks[o[f[i]]])
      BY <1>4, <3>1, Zenon
    <3> QED  BY <3>1, <3>2, <3>3
  <2>2. ASSUME NEW k \in M, NEW x \in Denotes(toks[k]) PROVE \E i \in 1 .. n : r[i].ip = x
    <3>1. PICK q \in 1 .. N : items[q].ip = x
      BY <1>4
    <3>2. ip[q] = x
      BY <1>5, <3>1
    <3> QED  BY <1>10, <3>2
  <2>3. \A x : x \in {r[i].ip : i \in DOMAIN r} <=> \E i \in 1 .. n : r[i].ip = x
    BY <1>8
  <2>4. \A x : x \in UNION {Denotes(toks[k]) : k \in M} <=> \E k \in M : x \in Denotes(toks[k])
    OBVIOUS
  <2>5. \A x : x \in {r[i].ip : i \in DOMAIN r} <=> x \in UNION {Denotes(toks[k]) : k \in M}
    <3> SUFFICES ASSUME NEW x PROVE (\E i \in 1 .. n : r[i].ip = x) <=> \E k \in M : x \in Denotes(toks[k])
      BY <2>3, <2>4, Zenon
    <3>1. ASSUME NEW i \in 1 .. n, r[i].ip = x PROVE \E k \in M : x \in Denotes(toks[k])
      BY <2>1, <3>1
    <3>2. ASSUME NEW k \in M, x \in Denotes(toks[k]) PROVE \E i \in 1 .. n : r[i].ip = x
      BY <2>2, <3>2
    <3> QED  BY <3>1, <3>2, Zenon
  <2> QED  BY <2>5, Zenon
<1>12. ASSUME NEW i \in 1 .. n, NEW j \in 1 .. n, r[i].ip = r[j].ip PROVE i = j
  <2>1. PICK a \in 1 .. N, b \in 1 .. N : a = f[i] /\ b = f[j] /\ a <= b /\ b <= a
    BY <1>9, <1>12
  <2>2. a = b
    BY <1>1, <2>1
  <2> QED  BY <1>7, <2>1, <2>2
<1>13. Len(r) \in 1 .. MaxTargets
  <2>1. 1 \in 1 .. N
    BY <1>1, <1>2
  <2>2. \E k \in 1 .. n : r[k].ip = ip[1]
    BY <1>10, <2>1
  <2> QED  BY <1>1, <1>7, <2>2
<1>14. ASSUME NEW i \in 1 .. n, NEW k \in M, r[i].ip \in Denotes(toks[k]),
              \A l \in M : l < k => r[i].ip \notin Denotes(toks[l])
       PROVE  toks[k].kind = "cidr" \/ r[i].host = toks[k].host
  <2>1. PICK p \in 1 .. N : p = f[i] /\ r[i] = items[p] /\ r[i].ip = ip[p]
    BY <1>9
  <2>2. PICK m \in M : m = o[p]
    BY <1>4
  <2>3. items[p].ip \in Denotes(toks[m]) /\ (toks[m].kind = "cidr" \/ items[p].host = toks[m].host)
    BY <1>4, <2>2, Zenon
  <2>4. ~(m < k)
    BY <1>14, <2>1, <2>3
  <2>5. PICK q \in 1 .. N : o[q] = k /\ items[q].ip = r[i].ip
    <3>1. \A x \in Denotes(toks[k]) : \E q \in 1 .. N : o[q] = k /\ items[q].ip = x
      BY <1>4, Zenon
    <3>2. r[i].ip \in Denotes(toks[k])
      BY <1>14
    <3> QED  BY <3>1, <3>2, Zenon
  <2>6. ip[q] = ip[p]
    BY <1>5, <2>1, <2>5
  <2>7. p <= q
    BY <1>9, <2>1, <2>6
  <2>8. m <= k
    BY <1>4, <2>2, <2>5, <2>7
  <2>9. m = k
    BY <1>1, <2>4, <2>8
  <2> QED  BY <2>1, <2>3, <2>9
<1>15. \A k \in M : Denotes(toks[k]) # {}
  BY <1>4
<1>16. Exact(toks, M, r)
  <2>1. \A i, j \in DOMAIN r : r[i].ip = r[j].ip => i = j
    BY <1>8, <1>12
  <2>2. \A i \in DOMAIN r, k \in M :
          /\ r[i].ip \in Denotes(toks[k])
          /\ \A l \in M : l < k => r[i].ip \notin Denotes(toks[l])
          => toks[k].kind = "cidr" \/ r[i].host = toks[k].host
    BY <1>8, <1>14, Zenon
  <2> QED  BY <1>11, <1>13, <1>15, <2>1, <2>2, Zenon DEF Exact
<1> QED  BY <1>16 DEF r

-----------------------------------------------------------------------------
(* The targets file, and the tokens of the lines that are delivered of it.  *)
IsFile(file) ==
  /\ file.delivered \in Nat
  /\ \A i \in 1 .. file.delivered : file.lines[i].tok \in SpecTokens

Delivered(file) == [i \in 1 .. file.delivered |-> file.lines[i].tok]

FileParses == [status : {"ok", "line_too_long", "too_many_lines", "alloc"}, items : Seq(SpecTokens)]

(* A line is refused, passed over when it is blank, or kept.                *)
LineAdds(acc, tok, after) ==
  /\ acc.status = "ok"
  /\ \/ tok.kind = "blank" /\ after.items = acc.items
     \/ tok.kind # "blank" /\ after.items = Append(acc.items, tok)

LineFits(acc, line, denied) ==
  /\ acc.status = "ok" /\ ~(line.len >= LineMax) /\ denied.lines = {}
  /\ line.tok.kind = "blank" \/ ~(Len(acc.items) >= MaxLines)

LEMMA LineIs ==
  ASSUME NEW acc \in FileParses, NEW line, line.tok \in SpecTokens, NEW denied,
         NEW after, after = ReadLine(acc, line, denied)
  PROVE  /\ after \in FileParses
         /\ after.status = "ok" => LineAdds(acc, line.tok, after)
         /\ LineFits(acc, line, denied) => after.status = "ok"
<1>0. PICK tok \in SpecTokens : tok = line.tok
  OBVIOUS
<1> DEFINE Refuses(why) == [status |-> why, items |-> <<>>]
           long == line.len >= LineMax
           full == Len(acc.items) >= MaxLines
           short == Len(acc.items) \in denied.lines
<1>1. acc.items \in Seq(SpecTokens) /\ Append(acc.items, tok) \in Seq(SpecTokens)
  <2>1. acc.items \in Seq(SpecTokens)
    BY DEF FileParses
  <2> QED  BY <2>1
<1>2. PICK more \in Seq(SpecTokens) : more = Append(acc.items, tok)
  BY <1>1
<1>3. after = IF acc.status # "ok" THEN acc
             ELSE IF long THEN Refuses("line_too_long")
             ELSE IF tok.kind = "blank" THEN acc
             ELSE IF full THEN Refuses("too_many_lines")
             ELSE IF short THEN Refuses("alloc")
             ELSE [status |-> "ok", items |-> more]
  BY <1>0, <1>2 DEF ReadLine, Failed, Listed
<1>4. short => denied.lines # {}
  OBVIOUS
<1> HIDE DEF long, full, short
<1>5. after \in FileParses
  BY <1>1, <1>3 DEF FileParses
<1>6. ASSUME after.status = "ok"
      PROVE  /\ acc.status = "ok"
             /\ \/ tok.kind = "blank" /\ after.items = acc.items
                \/ tok.kind # "blank" /\ after.items = more
  BY <1>3, <1>6
<1>7. ASSUME acc.status = "ok", ~long, denied.lines = {}, tok.kind = "blank" \/ ~full
      PROVE  after.status = "ok"
  BY <1>3, <1>4, <1>7
<1>8. after.status = "ok" => LineAdds(acc, tok, after)
  BY <1>2, <1>6 DEF LineAdds
<1>9. LineFits(acc, line, denied) => after.status = "ok"
  BY <1>0, <1>7, Zenon DEF LineFits, long, full
<1> QED  BY <1>0, <1>5, <1>8, <1>9

(* items are the lines that are not blank of the first k, in their order;   *)
(* p tells where each is.                                                   *)
Kept(file, k, items, p) ==
  /\ items \in Seq(SpecTokens) /\ p \in [1 .. Len(items) -> 1 .. k]
  /\ \A i \in 1 .. Len(items) : items[i] = file[p[i]] /\ file[p[i]].kind # "blank"
  /\ \A i, j \in 1 .. Len(items) : i < j => p[i] < p[j]
  /\ \A j \in 1 .. k : file[j].kind # "blank" => \E i \in 1 .. Len(items) : p[i] = j

(* One more line is passed over or kept.                                    *)
LEMMA KeptMore ==
  ASSUME NEW file, NEW k \in Nat, NEW items, NEW p, Kept(file, k, items, p),
         NEW tok \in SpecTokens, tok = file[k + 1]
  PROVE  /\ tok.kind = "blank" => \E q : Kept(file, k + 1, items, q)
         /\ tok.kind # "blank" => \E q : Kept(file, k + 1, Append(items, tok), q)
<1>1. items \in Seq(SpecTokens) /\ p \in [1 .. Len(items) -> 1 .. k]
  BY DEF Kept
<1>2. PICK n \in Nat : n = Len(items)
  BY <1>1, LenProperties
<1>3. /\ p \in [1 .. n -> 1 .. k]
      /\ \A i \in 1 .. n : items[i] = file[p[i]] /\ file[p[i]].kind # "blank"
      /\ \A i, j \in 1 .. n : i < j => p[i] < p[j]
      /\ \A j \in 1 .. k : file[j].kind # "blank" => \E i \in 1 .. n : p[i] = j
  BY <1>2 DEF Kept
<1>4. /\ \A j \in 1 .. k : j \in 1 .. k + 1 /\ j < k + 1
      /\ \A j \in 1 .. k + 1 : j \in 1 .. k \/ j = k + 1
      /\ k + 1 \in 1 .. k + 1
  OBVIOUS
<1>5. CASE tok.kind = "blank"
  <2>1. p \in [1 .. n -> 1 .. k + 1]
    BY <1>3, <1>4
  <2>2. \A j \in 1 .. k + 1 : file[j].kind # "blank" => \E i \in 1 .. n : p[i] = j
    BY <1>3, <1>4, <1>5
  <2>3. Kept(file, k + 1, items, p)
    BY <1>1, <1>2, <1>3, <2>1, <2>2 DEF Kept
  <2> QED  BY <1>5, <2>3
<1>6. CASE tok.kind # "blank"
  <2> DEFINE more == Append(items, tok)
             q == [i \in 1 .. n + 1 |-> IF i = n + 1 THEN k + 1 ELSE p[i]]
  <2>1. /\ more \in Seq(SpecTokens) /\ Len(more) = n + 1 /\ more[n + 1] = tok
        /\ \A i \in 1 .. n : more[i] = items[i]
    BY <1>1, <1>2, AppendProperties
  <2>2. /\ \A i \in 1 .. n + 1 : i \in 1 .. n \/ i = n + 1
        /\ \A i \in 1 .. n : i \in 1 .. n + 1 /\ i # n + 1 /\ ~(n + 1 < i)
        /\ n + 1 \in 1 .. n + 1 /\ ~(n + 1 < n + 1)
    OBVIOUS
  <2>3. q[n + 1] = k + 1 /\ \A i \in 1 .. n : q[i] = p[i]
    BY <2>2
  <2>4. q \in [1 .. n + 1 -> 1 .. k + 1]
    BY <1>3, <1>4, <2>2
  <2> HIDE DEF q, more
  <2>5. \A i \in 1 .. n + 1 : more[i] = file[q[i]] /\ file[q[i]].kind # "blank"
    BY <1>3, <1>6, <2>1, <2>2, <2>3
  <2>6. ASSUME NEW i \in 1 .. n + 1, NEW j \in 1 .. n + 1, i < j PROVE q[i] < q[j]
    <3>1. CASE j \in 1 .. n
      <4>1. i \in 1 .. n
        BY <2>2, <2>6, <3>1
      <4> QED  BY <1>3, <2>3, <2>6, <3>1, <4>1
    <3>2. CASE j = n + 1
      <4>1. i \in 1 .. n
        BY <2>2, <2>6, <3>2
      <4>2. p[i] \in 1 .. k
        BY <1>3, <4>1
      <4> QED  BY <1>4, <2>3, <3>2, <4>1, <4>2
    <3> QED  BY <2>2, <3>1, <3>2
  <2>7. ASSUME NEW j \in 1 .. k + 1, file[j].kind # "blank" PROVE \E i \in 1 .. n + 1 : q[i] = j
    <3>1. CASE j \in 1 .. k
      BY <1>3, <2>2, <2>3, <2>7, <3>1
    <3>2. CASE j = k + 1
      BY <2>2, <2>3, <3>2
    <3> QED  BY <1>4, <3>1, <3>2
  <2>8. Kept(file, k + 1, more, q)
    BY <2>1, <2>4, <2>5, <2>6, <2>7 DEF Kept
  <2> QED  BY <1>6, <2>8 DEF more
<1> QED  BY <1>5, <1>6

(* The run over the lines of a file that opens.                             *)
LEMMA FileRun ==
  ASSUME NEW file, IsFile(file), file.opens, NEW denied
  PROVE  \E g \in [0 .. file.delivered -> FileParses] :
            /\ ReadTargetsFile(file, denied) = g[file.delivered] /\ g[0] = Nothing
            /\ \A k \in 1 .. file.delivered : g[k] = ReadLine(g[k - 1], file.lines[k], denied)
<1> DEFINE n == file.delivered
           T == FileParses
           step == [k \in 1 .. n |-> [x \in T |-> ReadLine(x, file.lines[k], denied)]]
           Is(l) == l = [k \in 0 .. n |-> IF k = 0 THEN Nothing
                                          ELSE ReadLine(l[k - 1], file.lines[k], denied)]
           low == CHOOSE l : Is(l)
<1>1. n \in Nat
  BY DEF IsFile
<1>2. Nothing \in T
  BY DEF Nothing, Listed, FileParses
<1>3. ASSUME NEW k \in 1 .. n, NEW x \in T PROVE ReadLine(x, file.lines[k], denied) \in T
  <2>1. file.lines[k].tok \in SpecTokens
    BY DEF IsFile
  <2> QED  BY <2>1, LineIs
<1> HIDE DEF T
<1>4. PICK g : g \in Runs(T, Nothing, step, n)
  <2>1. \A k \in 1 .. n, x \in T : step[k][x] \in T
    BY <1>3
  <2> HIDE DEF step
  <2> QED  BY <1>1, <1>2, <2>1, RunExists
<1>5. /\ g \in [0 .. n -> T] /\ g[0] = Nothing
      /\ \A k \in 1 .. n : g[k] = ReadLine(g[k - 1], file.lines[k], denied)
  <2>1. g \in [0 .. n -> T] /\ g[0] = Nothing
    BY <1>4 DEF Runs
  <2>2. ASSUME NEW k \in 1 .. n PROVE g[k] = ReadLine(g[k - 1], file.lines[k], denied)
    <3>1. g[k] = step[k][g[k - 1]]
      BY <1>4 DEF Runs
    <3>2. k - 1 \in 0 .. n
      BY <1>1
    <3> QED  BY <2>1, <3>1, <3>2
  <2> QED  BY <2>1, <2>2
<1>6. Is(g)
  <2>1. \A k \in 0 .. n : k # 0 => k \in 1 .. n
    BY <1>1
  <2>2. \A k \in 0 .. n : g[k] = IF k = 0 THEN Nothing ELSE ReadLine(g[k - 1], file.lines[k], denied)
    BY <1>5, <2>1
  <2>3. g = [k \in 0 .. n |-> g[k]]
    BY <1>5
  <2> QED  BY <2>2, <2>3
<1>7. Is(low)
  BY <1>6
<1>8. ReadTargetsFile(file, denied) = low[n]
  BY Zenon DEF ReadTargetsFile
<1> HIDE DEF low
<1>9. low[0] = Nothing /\ \A k \in 1 .. n : low[k] = ReadLine(low[k - 1], file.lines[k], denied)
  BY <1>1, <1>7
<1>10. \A k \in 0 .. n : low[k] = g[k]
  <2> DEFINE S == {k \in 0 .. n : low[k] = g[k]}
  <2>1. 0 \in S
    BY <1>1, <1>5, <1>9
  <2>2. ASSUME NEW k \in 0 .. n - 1, k \in S PROVE k + 1 \in S
    <3>1. k + 1 \in 1 .. n /\ k + 1 - 1 = k /\ k + 1 \in 0 .. n
      BY <1>1
    <3> QED  BY <1>5, <1>9, <2>2, <3>1
  <2> HIDE DEF S
  <2>3. \A k \in 0 .. n : k \in S
    BY <1>1, <2>1, <2>2, UpTo
  <2> QED  BY <2>3 DEF S
<1>11. ReadTargetsFile(file, denied) = g[n]
  BY <1>1, <1>8, <1>10
<1> QED  BY <1>5, <1>11 DEF T

(* A file that is read: its lines that are not blank.                       *)
LEMMA FileIs ==
  ASSUME NEW file, IsFile(file), NEW denied, ReadTargetsFile(file, denied).status = "ok"
  PROVE  \E p : Kept(Delivered(file), file.delivered, ReadTargetsFile(file, denied).items, p)
<1> DEFINE n == file.delivered
           toks == Delivered(file)
<1>1. n \in Nat /\ \A i \in 1 .. n : toks[i] = file.lines[i].tok /\ toks[i] \in SpecTokens
  BY DEF IsFile, Delivered
<1>0. file.opens
  BY DEF ReadTargetsFile, Failed
<1>2. PICK g \in [0 .. n -> FileParses] :
            /\ ReadTargetsFile(file, denied) = g[n] /\ g[0] = Nothing
            /\ \A k \in 1 .. n : g[k] = ReadLine(g[k - 1], file.lines[k], denied)
  BY <1>0, FileRun
<1> HIDE DEF toks
<1> DEFINE S == {k \in 0 .. n : g[k].status = "ok" => \E p : Kept(toks, k, g[k].items, p)}
<1>3. 0 \in S
  <2>1. g[0].items = <<>> /\ Len(<<>>) = 0 /\ <<>> \in Seq(SpecTokens)
    BY <1>2 DEF Nothing, Listed
  <2>2. 1 .. 0 = {}
    OBVIOUS
  <2>3. Kept(toks, 0, <<>>, [i \in {} |-> 0])
    BY <2>1, <2>2 DEF Kept
  <2> QED  BY <1>1, <2>1, <2>3
<1>4. ASSUME NEW k \in 0 .. n - 1, k \in S PROVE k + 1 \in S
  <2>1. k + 1 \in 1 .. n /\ k + 1 - 1 = k /\ k + 1 \in 0 .. n /\ k \in 0 .. n /\ k \in Nat
    BY <1>1
  <2> SUFFICES ASSUME g[k + 1].status = "ok" PROVE \E p : Kept(toks, k + 1, g[k + 1].items, p)
    BY <2>1
  <2>2. PICK line : line = file.lines[k + 1]
    OBVIOUS
  <2>3. PICK tok \in SpecTokens : tok = toks[k + 1] /\ line.tok = tok
    BY <1>1, <2>1, <2>2
  <2>4. g[k + 1] = ReadLine(g[k], line, denied) /\ g[k] \in FileParses
    <3>1. \A l \in 1 .. n : g[l] = ReadLine(g[l - 1], file.lines[l], denied)
      BY <1>2, Zenon
    <3>2. g[k + 1] = ReadLine(g[k], file.lines[k + 1], denied)
      BY <2>1, <3>1
    <3>3. g[k] \in FileParses
      BY <2>1
    <3> QED  BY <2>2, <3>2, <3>3
  <2>5. /\ g[k].status = "ok"
        /\ \/ tok.kind = "blank" /\ g[k + 1].items = g[k].items
           \/ tok.kind # "blank" /\ g[k + 1].items = Append(g[k].items, tok)
    <3>1. LineAdds(g[k], line.tok, g[k + 1])
      BY <2>3, <2>4, LineIs, Zenon
    <3> QED  BY <2>3, <3>1 DEF LineAdds
  <2>6. PICK p : Kept(toks, k, g[k].items, p)
    BY <1>4, <2>5
  <2>7. /\ tok.kind = "blank" => \E q : Kept(toks, k + 1, g[k].items, q)
        /\ tok.kind # "blank" => \E q : Kept(toks, k + 1, Append(g[k].items, tok), q)
    BY <2>1, <2>3, <2>6, KeptMore
  <2> QED  BY <2>5, <2>7
<1> HIDE DEF S
<1>5. n \in S
  <2>1. \A k \in 0 .. n : k \in S
    BY <1>1, <1>3, <1>4, UpTo
  <2> QED  BY <1>1, <2>1
<1> QED  BY <1>2, <1>5 DEF S, toks

(* A file is read to its end when its lines are short and not too many; m   *)
(* counts the lines that are not blank.                                     *)
Counts(file, m) ==
  /\ m \in [0 .. file.delivered -> Nat] /\ m[0] = 0
  /\ \A k \in 1 .. file.delivered :
        /\ m[k] = m[k - 1] + (IF file.lines[k].tok.kind = "blank" THEN 0 ELSE 1)
        /\ m[k] <= MaxLines /\ ~(file.lines[k].len >= LineMax)

LEMMA FileEndsWell ==
  ASSUME NEW file, IsFile(file), file.opens, NEW denied, denied.lines = {},
         NEW m, Counts(file, m)
  PROVE  ReadTargetsFile(file, denied).status = "ok"
<1> DEFINE n == file.delivered
<1>1. n \in Nat /\ \A i \in 1 .. n : file.lines[i].tok \in SpecTokens
  BY DEF IsFile
<1>2. PICK g \in [0 .. n -> FileParses] :
            /\ ReadTargetsFile(file, denied) = g[n] /\ g[0] = Nothing
            /\ \A k \in 1 .. n : g[k] = ReadLine(g[k - 1], file.lines[k], denied)
  BY FileRun
<1> DEFINE S == {k \in 0 .. n : g[k].status = "ok" /\ Len(g[k].items) = m[k]}
<1>3. 0 \in S
  BY <1>1, <1>2 DEF Nothing, Listed, Counts
<1>4. ASSUME NEW k \in 0 .. n - 1, k \in S PROVE k + 1 \in S
  <2>1. k + 1 \in 1 .. n /\ k + 1 - 1 = k /\ k + 1 \in 0 .. n /\ k \in 0 .. n
    BY <1>1
  <2>2. PICK line : line = file.lines[k + 1]
    OBVIOUS
  <2>3. PICK tok \in SpecTokens : line.tok = tok
    BY <1>1, <2>1, <2>2
  <2>4. g[k + 1] = ReadLine(g[k], line, denied) /\ g[k] \in FileParses
    <3>1. \A l \in 1 .. n : g[l] = ReadLine(g[l - 1], file.lines[l], denied)
      BY <1>2, Zenon
    <3>2. g[k + 1] = ReadLine(g[k], file.lines[k + 1], denied)
      BY <2>1, <3>1
    <3>3. g[k] \in FileParses
      BY <2>1
    <3> QED  BY <2>2, <3>2, <3>3
  <2>5. /\ m[k] \in Nat /\ MaxLines \in Nat /\ ~(line.len >= LineMax)
        /\ m[k + 1] = m[k] + (IF tok.kind = "blank" THEN 0 ELSE 1) /\ m[k + 1] <= MaxLines
    <3>1. PICK l \in 1 .. n : l = k + 1 /\ l - 1 = k
      BY <2>1
    <3>2. /\ m[l] = m[l - 1] + (IF file.lines[l].tok.kind = "blank" THEN 0 ELSE 1)
          /\ m[l] <= MaxLines /\ ~(file.lines[l].len >= LineMax)
      BY Zenon DEF Counts
    <3>3. m[k] \in Nat /\ MaxLines \in Nat
      BY <2>1, TargetsAssumption DEF Counts
    <3>4. ~(line.len >= LineMax)
      BY <2>2, <3>1, <3>2, Zenon
    <3>5. m[l] = m[k] + (IF tok.kind = "blank" THEN 0 ELSE 1)
      BY <2>2, <2>3, <3>1, <3>2, Zenon
    <3> QED  BY <3>1, <3>2, <3>3, <3>4, <3>5
  <2>6. g[k].status = "ok" /\ Len(g[k].items) = m[k]
    BY <1>4
  <2>7. tok.kind = "blank" \/ ~(Len(g[k].items) >= MaxLines)
    BY <2>5, <2>6
  <2>8. g[k + 1].status = "ok"
    <3>1. LineFits(g[k], line, denied)
      BY <2>3, <2>5, <2>6, <2>7, Zenon DEF LineFits
    <3> QED  BY <2>3, <2>4, <3>1, LineIs, Zenon
  <2>9. \/ tok.kind = "blank" /\ g[k + 1].items = g[k].items
        \/ tok.kind # "blank" /\ g[k + 1].items = Append(g[k].items, tok)
    <3>1. LineAdds(g[k], line.tok, g[k + 1])
      BY <2>3, <2>4, <2>8, LineIs, Zenon
    <3> QED  BY <2>3, <3>1 DEF LineAdds
  <2>10. g[k].items \in Seq(SpecTokens)
    BY <2>4 DEF FileParses
  <2>11. Len(Append(g[k].items, tok)) = Len(g[k].items) + 1
    BY <2>10, AppendProperties
  <2>12. Len(g[k + 1].items) = m[k + 1]
    BY <2>5, <2>6, <2>9, <2>11
  <2> QED  BY <2>1, <2>8, <2>12
<1> HIDE DEF S
<1>5. n \in S
  <2>1. \A k \in 0 .. n : k \in S
    BY <1>1, <1>3, <1>4, UpTo
  <2> QED  BY <1>1, <2>1
<1> QED  BY <1>2, <1>5 DEF S

(* The positions that count: all of the spec, and the lines of the file     *)
(* that are not blank.                                                      *)
Counted(spec, file) ==
  {k \in DOMAIN (spec \o file) : k <= Len(spec) \/ (spec \o file)[k].kind # "blank"}

(* The lines that are delivered are tokens.                                 *)
LEMMA DeliveredIs ==
  ASSUME NEW file, IsFile(file)
  PROVE  /\ Delivered(file) \in Seq(SpecTokens)
         /\ Len(Delivered(file)) = file.delivered /\ file.delivered \in Nat
<1>1. PICK n \in Nat : n = file.delivered
  BY DEF IsFile
<1>2. Delivered(file) \in [1 .. n -> SpecTokens]
  BY <1>1 DEF IsFile, Delivered
<1>3. Delivered(file) \in Seq(SpecTokens) /\ Len(Delivered(file)) = n
  BY <1>2, LenProperties
<1> QED  BY <1>1, <1>3

TokensOf(given, spec) == spec = given.toks
LinesOf(source, file) == file = Delivered(source)

(* A target list that is accepted is the whole of what was read.            *)
LEMMA TargetListIs ==
  ASSUME NEW given, NEW spec \in Seq(SpecTokens), TokensOf(given, spec),
         NEW source, IsFile(source), NEW file \in Seq(SpecTokens), LinesOf(source, file),
         NEW hasSpec \in BOOLEAN, NEW hasFile \in BOOLEAN, NEW denied,
         hasSpec <=> spec # <<>>, file # <<>> => hasFile,
         NEW r, r = TargetListParse(given, hasSpec, source, hasFile, denied), r.status = "ok"
  PROVE  Exact(spec \o file, Counted(spec, file), r.items)
<1> DEFINE toks == spec \o file
           M == Counted(spec, file)
           fromSpec == IF hasSpec THEN ExpandSpec(given, Nothing, denied) ELSE Nothing
           lines == ReadTargetsFile(source, denied)
           whole == IF fromSpec.status # "ok" \/ ~hasFile THEN fromSpec
                    ELSE IF lines.status # "ok" THEN Failed("file")
                    ELSE ExpandAll(lines.items, fromSpec, denied)
<1>1. r = IF ~hasSpec /\ ~hasFile THEN Failed("empty")
          ELSE IF whole.status # "ok" THEN whole
          ELSE IF whole.items = <<>> THEN Failed("empty")
          ELSE IF Len(whole.items) > 1 /\ denied.dedup THEN Failed("alloc")
          ELSE Listed(Dedup(whole.items))
  BY DEF TargetListParse
<1> HIDE DEF fromSpec, lines, whole
<1>2. whole.status = "ok" /\ whole.items # <<>> /\ r.items = Dedup(whole.items)
  BY <1>1 DEF Failed, Listed
<1>3. /\ fromSpec.status = "ok"
      /\ hasFile => lines.status = "ok" /\ whole = ExpandAll(lines.items, fromSpec, denied)
      /\ ~hasFile => whole = fromSpec
  <2>1. Failed("file").status # "ok"
    BY DEF Failed
  <2> QED  BY <1>2, <2>1 DEF whole
<1>4. PICK a \in Nat, b \in Nat :
         /\ a = Len(spec) /\ b = Len(file) /\ toks \in Seq(SpecTokens)
         /\ Len(toks) = a + b /\ DOMAIN toks = 1 .. a + b
         /\ \A i \in 1 .. a + b : toks[i] = IF i <= a THEN spec[i] ELSE file[i - a]
  <2>1. Len(spec) \in Nat /\ Len(file) \in Nat
    BY LenProperties
  <2>2. /\ toks \in Seq(SpecTokens) /\ Len(toks) = Len(spec) + Len(file)
        /\ \A i \in 1 .. Len(spec) + Len(file) :
              toks[i] = IF i <= Len(spec) THEN spec[i] ELSE file[i - Len(spec)]
    BY ConcatProperties
  <2>3. DOMAIN toks = 1 .. Len(toks)
    BY <2>2, LenProperties
  <2> HIDE DEF toks
  <2> QED  BY <2>1, <2>2, <2>3
<1>5. M = {k \in 1 .. a + b : k <= a \/ toks[k].kind # "blank"}
  BY <1>4 DEF Counted
<1> HIDE DEF toks, M
<1>6. Nothing \in Parses /\ Nothing.status = "ok" /\ Covers(toks, {}, Nothing.items)
  BY CoversNothing DEF Nothing, Listed, Parses
<1>7. fromSpec \in Parses /\ Covers(toks, 1 .. a, fromSpec.items)
  <2>1. CASE ~hasSpec
    <3>1. spec = <<>> /\ a = 0
      BY <1>4, <2>1
    <3>2. 1 .. a = {} /\ fromSpec = Nothing
      BY <2>1, <3>1 DEF fromSpec
    <3> QED  BY <1>6, <3>2
  <2>2. CASE hasSpec
    <3> DEFINE done == ExpandAll(FirstFew(spec, MaxTokens), Nothing, denied)
    <3>1. fromSpec = IF given.tooLong THEN Failed("invalid")
                     ELSE IF done.status = "ok" /\ Len(spec) > MaxTokens THEN Failed("invalid")
                     ELSE done
      BY <2>2 DEF fromSpec, ExpandSpec, TokensOf
    <3>2. Failed("invalid").status # "ok" /\ MaxTokens \in Nat
      BY TargetsAssumption DEF Failed
    <3> HIDE DEF done
    <3>3. fromSpec = done /\ done.status = "ok" /\ Len(spec) <= MaxTokens
      BY <1>3, <1>4, <3>1, <3>2
    <3>4. FirstFew(spec, MaxTokens) = spec
      BY <3>2, <3>3, FirstFewIs
    <3>5. fromSpec = ExpandAll(spec, Nothing, denied)
      BY <3>3, <3>4 DEF done
    <3>6. fromSpec \in Parses
      <4>1. PICK g \in [0 .. a -> Parses] : ExpandAll(spec, Nothing, denied) = g[a]
        BY <1>4, <1>6, ExpandRun
      <4>2. a \in 0 .. a
        OBVIOUS
      <4> QED  BY <3>5, <4>1, <4>2
    <3>7. PICK pos : pos = [i \in 1 .. a |-> i]
      OBVIOUS
    <3>8. Places(toks, {}, spec, pos)
      <4>1. \A i \in 1 .. a : i \in 1 .. a + b /\ i <= a /\ i \in Nat
        OBVIOUS
      <4> QED  BY <1>4, <3>7, <4>1 DEF Places
    <3>9. Covers(toks, Reached({}, pos, Len(spec)), ExpandAll(spec, Nothing, denied).items)
      BY <1>3, <1>6, <3>5, <3>8, WalkIs
    <3>10. Reached({}, pos, Len(spec)) = 1 .. a
      BY <1>4, <3>7 DEF Reached
    <3> QED  BY <3>5, <3>6, <3>9, <3>10
  <2> QED  BY <2>1, <2>2
<1>8. Covers(toks, M, whole.items)
  <2>1. CASE ~hasFile
    <3>1. file = <<>> /\ b = 0
      BY <1>4, <2>1
    <3>2. M = 1 .. a
      BY <1>5, <3>1
    <3> QED  BY <1>3, <1>7, <2>1, <3>2
  <2>2. CASE hasFile
    <3>1. PICK p : Kept(file, b, lines.items, p)
      <4>1. b = source.delivered
        BY <1>4, DeliveredIs DEF LinesOf
      <4> QED  BY <1>3, <2>2, <4>1, FileIs DEF lines, LinesOf
    <3>2. PICK n \in Nat : /\ n = Len(lines.items) /\ lines.items \in Seq(SpecTokens)
      BY <3>1, LenProperties DEF Kept
    <3>3. /\ p \in [1 .. n -> 1 .. b]
          /\ \A i \in 1 .. n : lines.items[i] = file[p[i]] /\ file[p[i]].kind # "blank"
          /\ \A i, j \in 1 .. n : i < j => p[i] < p[j]
          /\ \A j \in 1 .. b : file[j].kind # "blank" => \E i \in 1 .. n : p[i] = j
      BY <3>1, <3>2 DEF Kept
    <3>4. \A j \in 1 .. b : a + j \in 1 .. a + b /\ ~(a + j <= a) /\ a + j - a = j /\ a + j \in Nat
      OBVIOUS
    <3>5. \A j \in 1 .. b : toks[a + j] = file[j]
      BY <1>4, <3>4
    <3>6. PICK pos : pos = [i \in 1 .. n |-> a + p[i]]
      OBVIOUS
    <3>7. Places(toks, 1 .. a, lines.items, pos)
      <4>1. pos \in [1 .. n -> Nat]
        <5>1. \A i \in 1 .. n : p[i] \in 1 .. b
          BY <3>3
        <5>2. \A i \in 1 .. n : a + p[i] \in Nat
          BY <3>4, <5>1
        <5> QED  BY <3>6, <5>2
      <4>2. \A i \in 1 .. n : lines.items[i] = toks[pos[i]]
        BY <3>3, <3>5, <3>6
      <4>3. \A i, j \in 1 .. n : i < j => pos[i] < pos[j]
        BY <3>3, <3>6
      <4>4. \A i \in 1 .. n, j \in 1 .. a : j < pos[i]
        BY <3>3, <3>6
      <4> QED  BY <3>2, <4>1, <4>2, <4>3, <4>4 DEF Places
    <3>8. Covers(toks, Reached(1 .. a, pos, n), ExpandAll(lines.items, fromSpec, denied).items)
      BY <1>2, <1>3, <1>7, <2>2, <3>2, <3>7, WalkIs
    <3>9. Reached(1 .. a, pos, n) = M
      <4>1. ASSUME NEW k \in M PROVE k \in 1 .. a \/ \E i \in 1 .. n : k = pos[i]
        <5>1. k \in 1 .. a + b /\ (k <= a \/ toks[k].kind # "blank")
          BY <1>5
        <5>2. CASE k <= a
          BY <5>1, <5>2
        <5>3. CASE ~(k <= a)
          <6>1. PICK j \in 1 .. b : k = a + j
            <7>1. k - a \in 1 .. b /\ k = a + (k - a)
              BY <5>1, <5>3
            <7> QED  BY <7>1
          <6>2. file[j].kind # "blank"
            BY <3>5, <5>1, <5>3, <6>1
          <6>3. PICK i \in 1 .. n : p[i] = j
            BY <3>3, <6>2
          <6>4. pos[i] = k
            BY <3>6, <6>1, <6>3
          <6> QED  BY <6>4
        <5> QED  BY <5>2, <5>3
      <4>2. \A k \in 1 .. a : k \in M
        <5>1. \A k \in 1 .. a : k \in 1 .. a + b /\ k <= a
          OBVIOUS
        <5> QED  BY <1>5, <5>1
      <4>3. ASSUME NEW i \in 1 .. n PROVE pos[i] \in M
        <5>1. PICK j \in 1 .. b : j = p[i] /\ file[j].kind # "blank"
          BY <3>3
        <5>2. pos[i] = a + j
          BY <3>6, <5>1
        <5> QED  BY <1>5, <3>4, <3>5, <5>1, <5>2
      <4> QED  BY <4>1, <4>2, <4>3 DEF Reached
    <3> QED  BY <1>3, <2>2, <3>8, <3>9
  <2> QED  BY <2>1, <2>2
<1>9. Exact(toks, M, Dedup(whole.items))
  BY <1>2, <1>8, DedupIsExact
<1> QED  BY <1>2, <1>9 DEF toks, M

(* sum[k] is what the first k tokens name, of those at the positions M.     *)
SumOf(toks, M) ==
  LET sum[k \in 0 .. Len(toks)] ==
          IF k = 0 THEN 0
          ELSE sum[k - 1] + (IF k \in M THEN Cardinality(Denotes(toks[k])) ELSE 0)
  IN  sum

IsSum(toks, M, n, sum) ==
  /\ sum \in [0 .. n -> Nat] /\ sum[0] = 0
  /\ \A k \in 1 .. n : sum[k] = sum[k - 1] + (IF k \in M THEN Size(toks[k]) ELSE 0)

LEMMA SumIs ==
  ASSUME NEW toks \in Seq(SpecTokens), NEW M
  PROVE  IsSum(toks, M, Len(toks), SumOf(toks, M))
<1> DEFINE n == Len(toks)
           d == [k \in 1 .. n |-> IF k \in M THEN Cardinality(Denotes(toks[k])) ELSE 0]
           step == [k \in 1 .. n |-> [x \in Nat |-> x + d[k]]]
           Is(l) == l = [k \in 0 .. n |->
                           IF k = 0 THEN 0
                           ELSE l[k - 1] + (IF k \in M THEN Cardinality(Denotes(toks[k])) ELSE 0)]
           low == CHOOSE l : Is(l)
<1>1. n \in Nat
  BY LenProperties
<1>2. \A k \in 1 .. n : d[k] \in Nat
  <2> SUFFICES ASSUME NEW k \in 1 .. n PROVE d[k] \in Nat
    OBVIOUS
  <2>1. PICK tok \in SpecTokens : tok = toks[k]
    BY <1>1, ElementOfSeq
  <2>2. Cardinality(Denotes(tok)) \in Nat
    BY SizeIs DEF Size
  <2> QED  BY <2>1, <2>2
<1>3. \A k \in 1 .. n : d[k] = IF k \in M THEN Cardinality(Denotes(toks[k])) ELSE 0
  OBVIOUS
<1> HIDE DEF d
<1>4. PICK g : g \in Runs(Nat, 0, step, n)
  <2>1. \A k \in 1 .. n, x \in Nat : step[k][x] \in Nat
    BY <1>2
  <2> HIDE DEF step
  <2> QED  BY <1>1, <2>1, RunExists
<1>5. g \in [0 .. n -> Nat] /\ g[0] = 0 /\ \A k \in 1 .. n : g[k] = g[k - 1] + d[k]
  <2>1. g \in [0 .. n -> Nat] /\ g[0] = 0
    BY <1>4 DEF Runs
  <2>2. ASSUME NEW k \in 1 .. n PROVE g[k] = g[k - 1] + d[k]
    <3>1. g[k] = step[k][g[k - 1]]
      BY <1>4 DEF Runs
    <3>2. k - 1 \in 0 .. n
      BY <1>1
    <3> QED  BY <2>1, <3>1, <3>2
  <2> QED  BY <2>1, <2>2
<1>6. Is(g)
  <2>1. \A k \in 0 .. n : k # 0 => k \in 1 .. n
    BY <1>1
  <2>2. \A k \in 0 .. n : g[k] = IF k = 0 THEN 0
              ELSE g[k - 1] + (IF k \in M THEN Cardinality(Denotes(toks[k])) ELSE 0)
    BY <1>3, <1>5, <2>1, Zenon
  <2>3. g = [k \in 0 .. n |-> g[k]]
    BY <1>5
  <2> QED  BY <2>2, <2>3, Zenon
<1>7. Is(low)
  BY <1>6
<1>8. SumOf(toks, M) = low
  BY Zenon DEF SumOf
<1> HIDE DEF low
<1>9. low[0] = 0 /\ \A k \in 1 .. n : low[k] = low[k - 1] + d[k]
  <2>1. \A k \in 1 .. n : k \in 0 .. n /\ k # 0
    BY <1>1
  <2>2. 0 \in 0 .. n
    BY <1>1
  <2> QED  BY <1>3, <1>7, <2>1, <2>2
<1>10. low = g
  <2> DEFINE S == {k \in 0 .. n : low[k] = g[k]}
  <2>1. 0 \in S
    BY <1>1, <1>5, <1>9
  <2>2. ASSUME NEW k \in 0 .. n - 1, k \in S PROVE k + 1 \in S
    <3>1. k + 1 \in 1 .. n /\ k + 1 - 1 = k /\ k + 1 \in 0 .. n
      BY <1>1
    <3> QED  BY <1>5, <1>9, <2>2, <3>1
  <2> HIDE DEF S
  <2>3. \A k \in 0 .. n : k \in S
    BY <1>1, <2>1, <2>2, UpTo
  <2>4. \A k \in 0 .. n : low[k] = g[k]
    BY <2>3 DEF S
  <2>5. low = [k \in 0 .. n |-> low[k]]
    BY <1>7
  <2>6. g = [k \in 0 .. n |-> g[k]]
    BY <1>5
  <2> QED  BY <2>4, <2>5, <2>6
<1>11. IsSum(toks, M, n, g)
  <2>1. \A k \in 1 .. n : d[k] = IF k \in M THEN Size(toks[k]) ELSE 0
    BY <1>3 DEF Size
  <2> QED  BY <1>5, <2>1 DEF IsSum
<1> QED  BY <1>8, <1>10, <1>11, Zenon

(* A sum grows, and stays where nothing is added.                           *)
LEMMA SumGrows ==
  ASSUME NEW toks, NEW M, NEW n \in Nat, NEW sum, IsSum(toks, M, n, sum),
         \A k \in 1 .. n : k \in M => Size(toks[k]) \in Nat,
         NEW i \in 0 .. n, NEW j \in 0 .. n, i <= j
  PROVE  sum[i] <= sum[j] /\ ((\A l \in i + 1 .. j : l \notin M) => sum[j] = sum[i])
<1> DEFINE d == [k \in 1 .. n |-> IF k \in M THEN Size(toks[k]) ELSE 0]
           Empty(m) == \A l \in i + 1 .. m : l \notin M
           S == {m \in 0 .. n : i <= m => sum[i] <= sum[m] /\ (Empty(m) => sum[m] = sum[i])}
<1>1. /\ sum \in [0 .. n -> Nat] /\ \A k \in 1 .. n : sum[k] = sum[k - 1] + d[k]
      /\ \A k \in 1 .. n : d[k] \in Nat /\ (k \notin M => d[k] = 0)
  BY DEF IsSum
<1> HIDE DEF d
<1>2. 0 \in S
  BY <1>1
<1>3. ASSUME NEW k \in 0 .. n - 1, k \in S PROVE k + 1 \in S
  <2>1. k + 1 \in 1 .. n /\ k + 1 - 1 = k /\ k + 1 \in 0 .. n /\ k \in 0 .. n
    OBVIOUS
  <2>2. /\ sum[i] \in Nat /\ sum[k] \in Nat /\ d[k + 1] \in Nat
        /\ sum[k + 1] = sum[k] + d[k + 1] /\ (k + 1 \notin M => d[k + 1] = 0)
    BY <1>1, <2>1
  <2> SUFFICES ASSUME i <= k + 1
               PROVE  sum[i] <= sum[k + 1] /\ (Empty(k + 1) => sum[k + 1] = sum[i])
    BY <2>1
  <2>3. CASE i = k + 1
    BY <2>2, <2>3
  <2>4. CASE i <= k
    <3>1. k + 1 \in i + 1 .. k + 1 /\ \A l \in i + 1 .. k : l \in i + 1 .. k + 1
      BY <2>4
    <3>2. Empty(k + 1) => Empty(k) /\ k + 1 \notin M
      BY <3>1
    <3>3. sum[i] <= sum[k] /\ (Empty(k) => sum[k] = sum[i])
      BY <1>3, <2>4
    <3> HIDE DEF Empty
    <3> QED  BY <2>2, <3>2, <3>3
  <2> QED  BY <2>3, <2>4
<1> HIDE DEF S
<1>4. j \in S
  BY <1>2, <1>3, UpTo
<1> QED  BY <1>4 DEF S

(* The positions that count, when a tokens come from the spec.              *)
CountedFrom(toks, a, b) == {k \in 1 .. a + b : k <= a \/ toks[k].kind # "blank"}

(* Of the lines up to the k-th, those that count are one more or as many as *)
(* before it, and never more than all.                                      *)
Tally(toks, M, a, b, m) ==
  /\ m \in [0 .. b -> Nat] /\ m[0] = 0
  /\ \A k \in 1 .. b :
       /\ m[k] = m[k - 1] + (IF toks[a + k].kind = "blank" THEN 0 ELSE 1)
       /\ m[k] <= Cardinality({l \in M : l > a})

LEMMA CountIs ==
  ASSUME NEW a \in Nat, NEW b \in Nat, NEW toks, NEW M, M = CountedFrom(toks, a, b)
  PROVE  \E m : Tally(toks, M, a, b, m)
<1> DEFINE C(k) == {l \in M : l > a /\ l <= a + k}
           m == [k \in 0 .. b |-> Cardinality(C(k))]
<1>1. IsFiniteSet(1 .. a + b) /\ M \in SUBSET (1 .. a + b)
  <2>1. PICK n \in Int : n = a + b
    OBVIOUS
  <2>2. IsFiniteSet(1 .. n)
    BY <2>1, FS_Interval
  <2>3. M \in SUBSET (1 .. a + b)
    BY Zenon DEF CountedFrom
  <2> QED  BY <2>1, <2>2, <2>3
<1>2. IsFiniteSet(M)
  BY <1>1, FS_Subset
<1>3. IsFiniteSet({l \in M : l > a}) /\ \A k \in 0 .. b : C(k) \in SUBSET {l \in M : l > a}
  <2>1. {l \in M : l > a} \in SUBSET M
    OBVIOUS
  <2> QED  BY <1>2, <2>1, FS_Subset
<1>4. \A k \in 0 .. b : IsFiniteSet(C(k)) /\ Cardinality(C(k)) <= Cardinality({l \in M : l > a})
  <2> HIDE DEF C
  <2> QED  BY <1>3, FS_Subset
<1>5. m \in [0 .. b -> Nat]
  <2> HIDE DEF C
  <2> QED  BY <1>4, FS_CardinalityType
<1>6. m[0] = 0
  <2>1. C(0) = {}
    BY <1>1
  <2>2. 0 \in 0 .. b
    OBVIOUS
  <2> HIDE DEF C
  <2> QED  BY <2>1, <2>2, FS_EmptySet
<1>7. ASSUME NEW k \in 1 .. b
      PROVE  /\ m[k] = m[k - 1] + (IF toks[a + k].kind = "blank" THEN 0 ELSE 1)
             /\ m[k] <= Cardinality({l \in M : l > a})
  <2>1. PICK x \in 1 .. a + b : x = a + k /\ ~(x <= a) /\ x > a
    OBVIOUS
  <2>2. PICK h \in 0 .. b : h = k - 1 /\ k \in 0 .. b
    OBVIOUS
  <2>3. x \in M <=> toks[x].kind # "blank"
    BY <2>1 DEF CountedFrom
  <2>4. \A l \in 1 .. a + b : (l <= a + k <=> l <= a + h \/ l = x) /\ ~(x <= a + h)
    BY <2>1, <2>2
  <2>5. CASE toks[x].kind = "blank"
    <3>1. C(k) = C(h)
      BY <1>1, <2>3, <2>4, <2>5
    <3> HIDE DEF C
    <3>2. m[k] = m[h] /\ m[h] \in Nat
      BY <1>5, <2>2, <3>1
    <3> QED  BY <1>4, <2>1, <2>2, <2>5, <3>2
  <2>6. CASE toks[x].kind # "blank"
    <3>1. C(k) = C(h) \cup {x} /\ x \notin C(h)
      BY <1>1, <2>1, <2>3, <2>4, <2>6
    <3> HIDE DEF C
    <3>2. Cardinality(C(k)) = Cardinality(C(h)) + 1
      BY <1>4, <3>1, FS_AddElement
    <3>3. m[k] = m[h] + 1
      BY <2>2, <3>2
    <3>4. m[k] <= Cardinality({l \in M : l > a})
      BY <1>4, <2>2
    <3> QED  BY <2>1, <2>2, <2>6, <3>3, <3>4
  <2> QED  BY <2>5, <2>6
<1> HIDE DEF m
<1>8. Tally(toks, M, a, b, m)
  BY <1>5, <1>6, <1>7 DEF Tally
<1> QED  BY <1>8, Zenon

(* at[k] is where the k-th kept line is among all tokens: up to there the   *)
(* tokens name what they name up to the line before it, and what it names.  *)
KeptPlaces(toks, M, a, b, items, n, sum, at) ==
  /\ at \in [0 .. n -> 0 .. a + b] /\ at[0] = a
  /\ \A k \in 1 .. n : /\ at[k] \in M /\ toks[at[k]] = items[k]
                       /\ sum[at[k]] = sum[at[k - 1]] + Size(items[k])
  /\ \A l \in M : l <= at[n]

LEMMA KeptSum ==
  ASSUME NEW a \in Nat, NEW b \in Nat, NEW toks, NEW M, M = CountedFrom(toks, a, b),
         NEW more, \A j \in 1 .. b : toks[a + j] = more[j],
         NEW items, NEW p, Kept(more, b, items, p), NEW n \in Nat, n = Len(items),
         NEW sum, IsSum(toks, M, a + b, sum),
         \A k \in 1 .. a + b : k \in M => Size(toks[k]) \in Nat
  PROVE  \E at : KeptPlaces(toks, M, a, b, items, n, sum, at)
<1> DEFINE at == [k \in 0 .. n |-> IF k = 0 THEN a ELSE a + p[k]]
<1>1. /\ p \in [1 .. n -> 1 .. b]
      /\ \A i \in 1 .. n : items[i] = more[p[i]] /\ more[p[i]].kind # "blank"
      /\ \A i, j \in 1 .. n : i < j => p[i] < p[j]
      /\ \A j \in 1 .. b : more[j].kind # "blank" => \E i \in 1 .. n : p[i] = j
  BY DEF Kept
<1>2. /\ \A k \in 1 .. n : k \in 0 .. n /\ k # 0 /\ k - 1 \in 0 .. n
      /\ \A k \in 0 .. n : k # 0 => k \in 1 .. n
      /\ 0 \in 0 .. n /\ n \in 0 .. n
  OBVIOUS
<1>3. at[0] = a /\ \A k \in 1 .. n : at[k] = a + p[k]
  BY <1>2
<1>4. at \in [0 .. n -> a .. a + b]
  <2>1. \A j \in 1 .. b : a + j \in a .. a + b
    OBVIOUS
  <2>2. a \in a .. a + b
    OBVIOUS
  <2> QED  BY <1>1, <1>2, <2>1, <2>2
<1> HIDE DEF at
<1>5. \A i, j \in 0 .. n : i < j => at[i] < at[j]
  <2> SUFFICES ASSUME NEW i \in 0 .. n, NEW j \in 0 .. n, i < j PROVE at[i] < at[j]
    OBVIOUS
  <2>1. j \in 1 .. n
    OBVIOUS
  <2>2. PICK q \in 1 .. b : q = p[j] /\ at[j] = a + q
    BY <1>1, <1>3, <2>1
  <2>3. CASE i = 0
    BY <1>3, <2>2, <2>3
  <2>4. CASE i # 0
    <3>1. i \in 1 .. n
      BY <2>4
    <3>2. PICK r \in 1 .. b : r = p[i] /\ at[i] = a + r
      BY <1>1, <1>3, <3>1
    <3>3. r < q
      BY <1>1, <2>1, <2>2, <3>1, <3>2
    <3> QED  BY <2>2, <3>2, <3>3
  <2> QED  BY <2>3, <2>4
<1>6. \A k \in 1 .. n : at[k] \in M /\ toks[at[k]] = items[k]
  <2> SUFFICES ASSUME NEW k \in 1 .. n PROVE at[k] \in M /\ toks[at[k]] = items[k]
    OBVIOUS
  <2>1. PICK j \in 1 .. b : j = p[k] /\ items[k] = more[j] /\ more[j].kind # "blank"
    BY <1>1
  <2>2. at[k] = a + j /\ toks[a + j] = more[j]
    BY <1>3, <2>1
  <2>3. a + j \in 1 .. a + b
    OBVIOUS
  <2> QED  BY <2>1, <2>2, <2>3 DEF CountedFrom
<1>7. \A l \in M : l > a => \E i \in 1 .. n : at[i] = l
  <2> SUFFICES ASSUME NEW l \in M, l > a PROVE \E i \in 1 .. n : at[i] = l
    OBVIOUS
  <2>1. l \in 1 .. a + b /\ toks[l].kind # "blank"
    BY DEF CountedFrom
  <2>2. PICK j \in 1 .. b : l = a + j
    <3>1. l - a \in 1 .. b /\ l = a + (l - a)
      BY <2>1
    <3> QED  BY <3>1
  <2>3. PICK i \in 1 .. n : p[i] = j
    BY <1>1, <2>1, <2>2
  <2> QED  BY <1>3, <2>2, <2>3
<1>8. \A l \in M : l <= at[n]
  <2> SUFFICES ASSUME NEW l \in M PROVE l <= at[n]
    OBVIOUS
  <2>1. l \in 1 .. a + b
    BY DEF CountedFrom
  <2>2. PICK z \in a .. a + b : z = at[n]
    BY <1>2, <1>4
  <2>3. CASE l <= a
    BY <2>1, <2>2, <2>3
  <2>4. CASE l > a
    <3>1. PICK i \in 1 .. n : at[i] = l
      BY <1>7, <2>4
    <3>2. CASE i = n
      BY <2>1, <3>1, <3>2
    <3>3. CASE i < n
      BY <1>2, <1>5, <2>1, <2>2, <3>1, <3>3
    <3> QED  BY <3>2, <3>3
  <2> QED  BY <2>1, <2>3, <2>4
<1>9. ASSUME NEW k \in 1 .. n PROVE sum[at[k]] = sum[at[k - 1]] + Size(items[k])
  <2>1. PICK h \in 0 .. n : h = k - 1 /\ h < k /\ k \in 0 .. n
    BY <1>2
  <2>2. PICK x \in a .. a + b, y \in a .. a + b : x = at[k] /\ y = at[h] /\ y < x
    BY <1>4, <1>5, <2>1
  <2>3. x \in 1 .. a + b /\ x - 1 \in 0 .. a + b /\ y \in 0 .. a + b /\ y <= x - 1
    BY <2>2
  <2>4. sum[x] = sum[x - 1] + Size(items[k])
    <3>1. x \in M /\ toks[x] = items[k]
      BY <1>6, <2>2
    <3>2. sum[x] = sum[x - 1] + (IF x \in M THEN Size(toks[x]) ELSE 0)
      BY <2>3, Zenon DEF IsSum
    <3> QED  BY <3>1, <3>2, Zenon
  <2>5. ASSUME NEW l \in y + 1 .. x - 1, l \in M PROVE FALSE
    <3>1. l > a /\ l > y /\ l < x
      BY <2>2
    <3>2. PICK i \in 1 .. n : at[i] = l
      BY <1>7, <2>5, <3>1
    <3>3. i \in 0 .. n /\ (i < k \/ k < i \/ i = k)
      BY <1>2
    <3>4. CASE i = k
      BY <2>2, <3>1, <3>2, <3>4
    <3>5. CASE k < i
      <4>1. x < l
        BY <1>5, <2>1, <2>2, <3>2, <3>3, <3>5
      <4> QED  BY <2>2, <3>1, <4>1
    <3>6. CASE i < k
      <4>1. i = h \/ i < h
        BY <2>1, <3>6
      <4>2. l <= y
        <5>1. CASE i = h
          BY <2>2, <3>2, <5>1
        <5>2. CASE i < h
          <6>1. l < y
            BY <1>5, <2>1, <2>2, <3>2, <3>3, <5>2
          <6> QED  BY <2>2, <6>1
        <5> QED  BY <4>1, <5>1, <5>2
      <4> QED  BY <2>2, <3>1, <4>2
    <3> QED  BY <3>3, <3>4, <3>5, <3>6
  <2>6. sum[x - 1] = sum[y]
    <3>1. a + b \in Nat
      OBVIOUS
    <3>2. PICK w \in 0 .. a + b : w = x - 1
      BY <2>3
    <3>3. \A l \in y + 1 .. w : l \notin M
      BY <2>5, <3>2
    <3>4. PICK v \in Nat : v = a + b
      BY <3>1
    <3>5. /\ IsSum(toks, M, v, sum) /\ w \in 0 .. v /\ y \in 0 .. v /\ y <= w
          /\ \A l \in 1 .. v : l \in M => Size(toks[l]) \in Nat
      BY <2>3, <3>2, <3>4
    <3>6. sum[w] = sum[y]
      BY <3>3, <3>5, SumGrows
    <3> QED  BY <3>2, <3>6
  <2> QED  BY <2>1, <2>2, <2>4, <2>6
<1>10. at \in [0 .. n -> 0 .. a + b]
  <2>1. \A x \in a .. a + b : x \in 0 .. a + b
    OBVIOUS
  <2> QED  BY <1>4, <2>1
<1>11. KeptPlaces(toks, M, a, b, items, n, sum, at)
  <2> HIDE DEF at
  <2> QED  BY <1>3, <1>6, <1>8, <1>9, <1>10 DEF KeptPlaces
<1> QED  BY <1>11, Zenon

(* What could stop the parse of the targets does not.                       *)
Parsable(given, source, hasFile, denied) ==
  /\ ~given.tooLong /\ (hasFile => source.opens)
  /\ \A i \in 1 .. source.delivered : ~(source.lines[i].len >= LineMax)
  /\ denied.lines = {} /\ HasRoom(denied) /\ ~denied.dedup

Few(toks, M, a) ==
  /\ a <= MaxTokens /\ Cardinality({k \in M : k > a}) <= MaxLines
  /\ SumOf(toks, M)[Len(toks)] <= MaxTargets

Naming(toks, M) == M # {} /\ \A k \in M : Denotes(toks[k]) # {}

(* Then the list is accepted.                                               *)
LEMMA TargetsAccepted ==
  ASSUME NEW given, NEW spec \in Seq(SpecTokens), TokensOf(given, spec),
         NEW source, IsFile(source), NEW file \in Seq(SpecTokens), LinesOf(source, file),
         NEW hasSpec \in BOOLEAN, NEW hasFile \in BOOLEAN, NEW denied,
         hasSpec <=> spec # <<>>, file # <<>> => hasFile,
         Parsable(given, source, hasFile, denied),
         Few(spec \o file, Counted(spec, file), Len(spec)),
         Naming(spec \o file, Counted(spec, file))
  PROVE  TargetListParse(given, hasSpec, source, hasFile, denied).status = "ok"
<1> DEFINE toks == spec \o file
           M == Counted(spec, file)
           sum == SumOf(toks, M)
           fromSpec == IF hasSpec THEN ExpandSpec(given, Nothing, denied) ELSE Nothing
           lines == ReadTargetsFile(source, denied)
           whole == IF fromSpec.status # "ok" \/ ~hasFile THEN fromSpec
                    ELSE IF lines.status # "ok" THEN Failed("file")
                    ELSE ExpandAll(lines.items, fromSpec, denied)
           r == TargetListParse(given, hasSpec, source, hasFile, denied)
<1>1. r = IF ~hasSpec /\ ~hasFile THEN Failed("empty")
          ELSE IF whole.status # "ok" THEN whole
          ELSE IF whole.items = <<>> THEN Failed("empty")
          ELSE IF Len(whole.items) > 1 /\ denied.dedup THEN Failed("alloc")
          ELSE Listed(Dedup(whole.items))
  BY DEF TargetListParse
<1>2. PICK a \in Nat, b \in Nat :
         /\ a = Len(spec) /\ b = Len(file) /\ toks \in Seq(SpecTokens)
         /\ Len(toks) = a + b /\ DOMAIN toks = 1 .. a + b
         /\ \A i \in 1 .. a + b : toks[i] = IF i <= a THEN spec[i] ELSE file[i - a]
  <2>1. Len(spec) \in Nat /\ Len(file) \in Nat
    BY LenProperties
  <2>2. /\ toks \in Seq(SpecTokens) /\ Len(toks) = Len(spec) + Len(file)
        /\ \A i \in 1 .. Len(spec) + Len(file) :
              toks[i] = IF i <= Len(spec) THEN spec[i] ELSE file[i - Len(spec)]
    BY ConcatProperties
  <2>3. DOMAIN toks = 1 .. Len(toks)
    BY <2>2, LenProperties
  <2> HIDE DEF toks
  <2> QED  BY <2>1, <2>2, <2>3
<1>3. M = CountedFrom(toks, a, b)
  BY <1>2 DEF Counted, CountedFrom
<1>4. Few(toks, M, a) /\ Naming(toks, M)
  BY <1>2
<1> HIDE DEF toks, M, r, fromSpec, lines, whole
<1>5. IsSum(toks, M, a + b, sum)
  BY <1>2, SumIs
<1>6. \A k \in 1 .. a + b : toks[k] \in SpecTokens /\ Size(toks[k]) \in Nat
  <2> SUFFICES ASSUME NEW k \in 1 .. a + b PROVE toks[k] \in SpecTokens /\ Size(toks[k]) \in Nat
    OBVIOUS
  <2>1. toks[k] \in SpecTokens
    BY <1>2, ElementOfSeq
  <2> QED  BY <2>1, SizeIs
<1>7. sum[a + b] <= MaxTargets /\ MaxTargets \in Nat /\ MaxTokens \in Nat /\ MaxLines \in Nat
  BY <1>2, <1>4, TargetsAssumption DEF Few
<1> HIDE DEF sum
<1>8. \A i \in 0 .. a + b : sum[i] \in Nat /\ sum[i] <= MaxTargets
  <2> SUFFICES ASSUME NEW i \in 0 .. a + b PROVE sum[i] \in Nat /\ sum[i] <= MaxTargets
    OBVIOUS
  <2>1. a + b \in 0 .. a + b /\ i <= a + b /\ a + b \in Nat
    OBVIOUS
  <2>2. sum[i] \in Nat /\ sum[a + b] \in Nat
    BY <1>5, <2>1 DEF IsSum
  <2>3. sum[i] <= sum[a + b]
    BY <1>5, <1>6, <2>1, SumGrows
  <2> QED  BY <1>7, <2>2, <2>3
<1>9. /\ \A k \in 1 .. a : k \in 1 .. a + b /\ k \in M /\ toks[k] = spec[k]
      /\ \A j \in 1 .. b : a + j \in 1 .. a + b /\ toks[a + j] = file[j]
  <2>1. \A k \in 1 .. a : k \in 1 .. a + b /\ k <= a
    OBVIOUS
  <2>2. \A j \in 1 .. b : a + j \in 1 .. a + b /\ ~(a + j <= a) /\ a + j - a = j
    OBVIOUS
  <2>3. \A k \in 1 .. a : k \in M
    BY <1>3, <2>1 DEF CountedFrom
  <2>4. \A k \in 1 .. a : toks[k] = spec[k]
    BY <1>2, <2>1
  <2>5. \A j \in 1 .. b : toks[a + j] = file[j]
    <3> SUFFICES ASSUME NEW j \in 1 .. b PROVE toks[a + j] = file[j]
      OBVIOUS
    <3>1. PICK i : i = a + j /\ i \in 1 .. a + b /\ ~(i <= a) /\ i - a = j
      BY <2>2
    <3>2. toks[i] = IF i <= a THEN spec[i] ELSE file[i - a]
      BY <1>2, <3>1, Zenon
    <3>3. toks[i] = file[i - a]
      BY <3>1, <3>2, Zenon
    <3> QED  BY <3>1, <3>3, Zenon
  <2> QED  BY <2>1, <2>2, <2>3, <2>4, <2>5
<1>10. Nothing \in Parses /\ Nothing.status = "ok" /\ Len(Nothing.items) = 0
  BY DEF Nothing, Listed, Parses
<1>11. fromSpec \in Parses /\ fromSpec.status = "ok" /\ Len(fromSpec.items) = sum[a]
  <2>1. CASE ~hasSpec
    <3>1. spec = <<>> /\ a = 0
      BY <1>2, <2>1
    <3>2. fromSpec = Nothing /\ sum[0] = 0
      BY <1>5, <2>1 DEF fromSpec, IsSum
    <3> QED  BY <1>10, <3>1, <3>2
  <2>2. CASE hasSpec
    <3> DEFINE done == ExpandAll(FirstFew(spec, MaxTokens), Nothing, denied)
               part == [k \in 0 .. a |-> sum[k]]
    <3>1. fromSpec = IF given.tooLong THEN Failed("invalid")
                     ELSE IF done.status = "ok" /\ Len(spec) > MaxTokens THEN Failed("invalid")
                     ELSE done
      BY <2>2 DEF fromSpec, ExpandSpec, TokensOf
    <3>2. ~given.tooLong /\ Len(spec) <= MaxTokens /\ ~(Len(spec) > MaxTokens)
      BY <1>2, <1>4, <1>7 DEF Parsable, Few
    <3>3. FirstFew(spec, MaxTokens) = spec
      BY <1>7, <3>2, FirstFewIs
    <3> HIDE DEF done
    <3>4. fromSpec = done
      BY <3>1, <3>2
    <3>5. fromSpec = ExpandAll(spec, Nothing, denied)
      BY <3>3, <3>4 DEF done
    <3>6. Sums(spec, Nothing, part)
      <4>1. /\ \A k \in 0 .. a : k \in 0 .. a + b
            /\ \A k \in 1 .. a : k \in 0 .. a /\ k - 1 \in 0 .. a
            /\ 0 \in 0 .. a
        OBVIOUS
      <4>2. part \in [0 .. a -> Nat] /\ part[0] = 0
        BY <1>5, <1>8, <4>1 DEF IsSum
      <4>3. ASSUME NEW k \in 1 .. a
            PROVE  /\ part[k] = part[k - 1] + Size(spec[k])
                   /\ part[k] <= MaxTargets /\ Denotes(spec[k]) # {}
        <5>1. k \in M /\ k \in 1 .. a + b /\ toks[k] = spec[k]
          BY <1>9
        <5>2. sum[k] = sum[k - 1] + (IF k \in M THEN Size(toks[k]) ELSE 0)
          BY <1>5, <5>1, Zenon DEF IsSum
        <5>3. sum[k] = sum[k - 1] + Size(spec[k])
          BY <5>1, <5>2, Zenon
        <5>4. Denotes(spec[k]) # {}
          BY <1>4, <5>1 DEF Naming
        <5>5. part[k] = sum[k] /\ part[k - 1] = sum[k - 1] /\ sum[k] <= MaxTargets
          BY <1>8, <4>1
        <5> QED  BY <5>3, <5>4, <5>5
      <4> HIDE DEF part
      <4> QED  BY <1>2, <1>10, <4>2, <4>3 DEF Sums
    <3>7. HasRoom(denied)
      BY DEF Parsable
    <3>8. part[a] = sum[a]
      OBVIOUS
    <3> HIDE DEF part
    <3>9. fromSpec.status = "ok" /\ Len(fromSpec.items) = sum[a]
      BY <1>2, <1>10, <3>5, <3>6, <3>7, <3>8, WalkEndsWell
    <3>10. fromSpec \in Parses
      BY <1>10, <3>5, ExpandIsParse
    <3> QED  BY <3>9, <3>10
  <2> QED  BY <2>1, <2>2
<1>12. \A i \in 0 .. a + b : (\A l \in M : l <= i) => sum[i] # 0
  <2> SUFFICES ASSUME NEW i \in 0 .. a + b, \A l \in M : l <= i PROVE sum[i] # 0
    OBVIOUS
  <2>1. PICK l \in M : Denotes(toks[l]) # {} /\ l <= i
    BY <1>4 DEF Naming
  <2>2. l \in 1 .. a + b /\ l \in 0 .. a + b /\ l - 1 \in 0 .. a + b /\ a + b \in Nat
    BY <1>3 DEF CountedFrom
  <2>3. sum[l] = sum[l - 1] + (IF l \in M THEN Size(toks[l]) ELSE 0)
    BY <1>5, <2>2, Zenon DEF IsSum
  <2>4. sum[l] = sum[l - 1] + Size(toks[l])
    BY <2>3, Zenon
  <2>5. Size(toks[l]) \in Nat /\ Size(toks[l]) # 0
    BY <1>6, <2>1, <2>2, SizeIs
  <2>6. sum[l] <= sum[i]
    BY <1>5, <1>6, <2>1, <2>2, SumGrows
  <2>7. sum[l - 1] \in Nat /\ sum[l] \in Nat /\ sum[i] \in Nat
    BY <1>8, <2>2
  <2> QED  BY <2>4, <2>5, <2>6, <2>7
<1>13. whole.status = "ok" /\ whole.items # <<>>
  <2>1. CASE ~hasFile
    <3>1. file = <<>> /\ b = 0
      BY <1>2, <2>1
    <3>2. whole = fromSpec
      BY <2>1 DEF whole
    <3>3. a \in 0 .. a + b /\ \A l \in M : l <= a
      BY <1>3, <3>1 DEF CountedFrom
    <3>4. sum[a] # 0
      BY <1>12, <3>3
    <3>5. fromSpec.items # <<>>
      BY <1>11, <3>4
    <3> QED  BY <1>11, <3>2, <3>5
  <2>2. CASE hasFile
    <3>1. source.delivered = b
      BY <1>2, DeliveredIs DEF LinesOf
    <3>0. PICK m : Tally(toks, M, a, b, m)
      BY <1>3, CountIs, Zenon
    <3>2. /\ m \in [0 .. b -> Nat] /\ m[0] = 0
          /\ \A k \in 1 .. b :
                 /\ m[k] = m[k - 1] + (IF toks[a + k].kind = "blank" THEN 0 ELSE 1)
                 /\ m[k] <= Cardinality({l \in M : l > a})
      BY <3>0, Zenon DEF Tally
    <3>3. Counts(source, m)
      <4>1. ASSUME NEW k \in 1 .. b
            PROVE  /\ m[k] = m[k - 1] + (IF source.lines[k].tok.kind = "blank" THEN 0 ELSE 1)
                   /\ m[k] <= MaxLines /\ ~(source.lines[k].len >= LineMax)
        <5>1. toks[a + k] = source.lines[k].tok
          <6>1. file[k] = source.lines[k].tok
            BY <3>1 DEF LinesOf, Delivered
          <6> QED  BY <1>9, <6>1
        <5>2. /\ m[k] = m[k - 1] + (IF toks[a + k].kind = "blank" THEN 0 ELSE 1)
              /\ m[k] <= Cardinality({l \in M : l > a})
          BY <3>2, Zenon
        <5>3. PICK c \in Nat : c = Cardinality({l \in M : l > a}) /\ c <= MaxLines
          <6>0. IsFiniteSet(1 .. a + b)
            BY FS_Interval
          <6>1. IsFiniteSet(1 .. a + b) /\ {l \in M : l > a} \in SUBSET (1 .. a + b)
            BY <1>3, <6>0 DEF CountedFrom
          <6>2. IsFiniteSet({l \in M : l > a})
            BY <6>1, FS_Subset
          <6>3. Cardinality({l \in M : l > a}) \in Nat
            BY <6>2, FS_CardinalityType
          <6> QED  BY <1>4, <6>3 DEF Few
        <5>4. k \in 0 .. b
          OBVIOUS
        <5>5. m[k] <= MaxLines
          BY <1>7, <3>2, <5>2, <5>3, <5>4
        <5>6. ~(source.lines[k].len >= LineMax)
          BY <3>1, Zenon DEF Parsable
        <5> QED  BY <5>1, <5>2, <5>5, <5>6, Zenon
      <4> QED  BY <3>1, <3>2, <4>1, Zenon DEF Counts
    <3>4. lines.status = "ok"
      <4>1. source.opens /\ denied.lines = {}
        BY <2>2 DEF Parsable
      <4> QED  BY <3>3, <4>1, FileEndsWell DEF lines
    <3>5. PICK p : Kept(file, b, lines.items, p)
      BY <3>1, <3>4, FileIs DEF lines, LinesOf
    <3>6. PICK n \in Nat : n = Len(lines.items) /\ lines.items \in Seq(SpecTokens)
      BY <3>5, LenProperties DEF Kept
    <3>17. PICK at : KeptPlaces(toks, M, a, b, lines.items, n, sum, at)
      <4>1. \A k \in 1 .. a + b : k \in M => Size(toks[k]) \in Nat
        BY <1>6, Zenon
      <4>2. \A j \in 1 .. b : toks[a + j] = file[j]
        BY <1>9, Zenon
      <4> QED  BY <1>3, <1>5, <3>5, <3>6, <4>1, <4>2, KeptSum, Zenon
    <3>7. /\ at \in [0 .. n -> 0 .. a + b] /\ at[0] = a
          /\ \A k \in 1 .. n : /\ at[k] \in M /\ toks[at[k]] = lines.items[k]
                               /\ sum[at[k]] = sum[at[k - 1]] + Size(lines.items[k])
          /\ \A l \in M : l <= at[n]
      BY <3>17, Zenon DEF KeptPlaces
    <3> DEFINE part == [k \in 0 .. n |-> sum[at[k]]]
    <3>8. Sums(lines.items, fromSpec, part)
      <4>1. /\ \A k \in 1 .. n : k \in 0 .. n /\ k - 1 \in 0 .. n
            /\ 0 \in 0 .. n
        OBVIOUS
      <4>2. part \in [0 .. n -> Nat] /\ part[0] = sum[a]
        BY <1>8, <3>7, <4>1
      <4>3. ASSUME NEW k \in 1 .. n
            PROVE  /\ part[k] = part[k - 1] + Size(lines.items[k])
                   /\ part[k] <= MaxTargets /\ Denotes(lines.items[k]) # {}
        <5>1. /\ at[k] \in M /\ toks[at[k]] = lines.items[k]
              /\ sum[at[k]] = sum[at[k - 1]] + Size(lines.items[k])
          BY <3>7, Zenon
        <5>2. Denotes(lines.items[k]) # {}
          BY <1>4, <5>1 DEF Naming
        <5>3. part[k] = sum[at[k]] /\ part[k - 1] = sum[at[k - 1]] /\ sum[at[k]] <= MaxTargets
          BY <1>8, <3>7, <4>1
        <5> QED  BY <5>1, <5>2, <5>3
      <4> HIDE DEF part
      <4> QED  BY <1>11, <3>6, <4>2, <4>3 DEF Sums
    <3>9. part[n] = sum[at[n]] /\ n \in 0 .. n
      OBVIOUS
    <3> HIDE DEF part
    <3>10. whole = ExpandAll(lines.items, fromSpec, denied)
      BY <1>11, <2>2, <3>4 DEF whole
    <3>11. HasRoom(denied)
      BY DEF Parsable
    <3>12. whole.status = "ok" /\ Len(whole.items) = part[n]
      BY <1>11, <3>6, <3>8, <3>10, <3>11, WalkEndsWell
    <3>13. sum[at[n]] # 0
      BY <1>12, <3>7, <3>9
    <3>14. whole.items # <<>>
      BY <3>9, <3>12, <3>13
    <3> QED  BY <3>12, <3>14
  <2> QED  BY <2>1, <2>2
<1>14. hasSpec \/ hasFile
  <2> SUFFICES ASSUME ~hasSpec, ~hasFile PROVE FALSE
    OBVIOUS
  <2>1. spec = <<>> /\ file = <<>>
    OBVIOUS
  <2>2. a = 0 /\ b = 0
    BY <1>2, <2>1
  <2>3. M = {}
    BY <1>3, <2>2 DEF CountedFrom
  <2> QED  BY <1>4, <2>3 DEF Naming
<1>15. ~denied.dedup
  BY DEF Parsable
<1>16. r = Listed(Dedup(whole.items))
  BY <1>1, <1>13, <1>14, <1>15
<1> QED  BY <1>16 DEF Listed, r

(* Calls have the arguments and the results the functions give.             *)
ScopeInv ==
  /\ call.op = "targets" =>
       /\ call.spec.toks \in Seq(SpecTokens) /\ IsFile(call.file)
       /\ call.hasFile \in BOOLEAN /\ (~call.hasFile => call.file.delivered = 0)
       /\ result = TargetListParse(call.spec, call.spec.toks # <<>>, call.file, call.hasFile,
                                   call.denied)
  /\ call.op = "ports" =>
       /\ call.toks \in Seq(PortTokens) /\ call.toks # <<>>
       /\ result = PortRangeParse([toks |-> call.toks, tooLong |-> call.tooLong], call.denied)

(* The lines of a file that are delivered before a fault.                   *)
LEMMA FaultyFile ==
  ASSUME NEW lines \in Seq(FileLines), NEW n \in Nat, NEW file, file.lines = lines,
         file.delivered = Len(FirstFew(lines, n))
  PROVE  IsFile(file) /\ (lines = <<>> => file.delivered = 0)
<1>1. PICK L \in Nat : L = Len(lines)
  BY LenProperties
<1>2. PICK m \in 0 .. L : m = file.delivered
  <2>1. PICK k \in 0 .. L : k = IF n < L THEN n ELSE L
    BY <1>1
  <2>2. FirstFew(lines, n) = SubSeq(lines, 1, k)
    BY <1>1, <2>1 DEF FirstFew
  <2>3. Len(SubSeq(lines, 1, k)) = k
    BY <1>1, <2>1
  <2> QED  BY <2>1, <2>2, <2>3
<1>3. ASSUME NEW i \in 1 .. m PROVE file.lines[i].tok \in SpecTokens
  <2>1. i \in 1 .. L
    BY <1>1, <1>2
  <2>2. lines[i] \in FileLines
    BY <1>1, <2>1, ElementOfSeq
  <2>3. lines[i] \in [len : Nat, tok : SpecTokens]
    BY <2>2, ScopeCallsAssumption
  <2> QED  BY <2>3
<1>4. lines = <<>> => L = 0
  BY <1>1
<1> QED  BY <1>2, <1>3, <1>4 DEF IsFile

(* What call and result hold between two calls.                             *)
LEMMA ScopeInvariant == ScopeSpec => []ScopeInv
<1>1. CallInit => ScopeInv
  BY DEF CallInit, Idle, ScopeInv
<1>2. ScopeInv /\ [ScopeNext \/ call'.op \notin {"targets", "ports"}]_<<call, result>> => ScopeInv'
  <2> SUFFICES ASSUME ScopeInv, [ScopeNext \/ call'.op \notin {"targets", "ports"}]_<<call, result>>
               PROVE  ScopeInv'
    OBVIOUS
  <2>1. CASE ParseTargets
    <3>1. PICK toks \in SeqsUpTo(SpecTokens, MaxTokens + 1), lines \in SeqsUpTo(FileLines, MaxLines + 1),
               fault \in Faults \cup {NoFault}, hasFile \in BOOLEAN :
           /\ fault = NoFault \/ Len(toks) <= FaultyTokens
           /\ lines # <<>> => hasFile
           /\ LET spec == [toks |-> toks, tooLong |-> fault.tooLong]
                  file == [opens |-> fault.opens, lines |-> lines,
                           delivered |-> Len(FirstFew(lines, fault.delivers))]
              IN  Called([op |-> "targets", spec |-> spec, file |-> file, hasFile |-> hasFile,
                          denied |-> fault.denied],
                         TargetListParse(spec, toks # <<>>, file, hasFile, fault.denied))
      BY <2>1, Zenon DEF ParseTargets
    <3>2. PICK spec, file : /\ spec = [toks |-> toks, tooLong |-> fault.tooLong]
                            /\ file = [opens |-> fault.opens, lines |-> lines,
                                       delivered |-> Len(FirstFew(lines, fault.delivers))]
                            /\ call' = [op |-> "targets", spec |-> spec, file |-> file,
                                        hasFile |-> hasFile, denied |-> fault.denied]
                            /\ result' = TargetListParse(spec, toks # <<>>, file, hasFile, fault.denied)
      BY <3>1, Zenon DEF Called
    <3>3. toks \in Seq(SpecTokens) /\ lines \in Seq(FileLines)
      <4>1. MaxTokens + 1 \in Nat /\ MaxLines + 1 \in Nat
        BY TargetsAssumption
      <4> QED  BY <4>1 DEF SeqsUpTo
    <3>4. fault.delivers \in Nat
      BY ScopeCallsAssumption, TargetsAssumption DEF NoFault
    <3>5. IsFile(file) /\ (lines = <<>> => file.delivered = 0)
      <4>1. file.lines = lines /\ file.delivered = Len(FirstFew(lines, fault.delivers))
        BY <3>2
      <4> QED  BY <3>3, <3>4, <4>1, FaultyFile
    <3>6. /\ call'.op = "targets" /\ call'.spec = spec /\ call'.file = file
          /\ call'.hasFile = hasFile /\ call'.denied = fault.denied
      BY <3>2
    <3>7. spec.toks = toks
      BY <3>2
    <3>8. /\ call'.spec.toks \in Seq(SpecTokens) /\ IsFile(call'.file)
          /\ call'.hasFile \in BOOLEAN /\ (~call'.hasFile => call'.file.delivered = 0)
          /\ result' = TargetListParse(call'.spec, call'.spec.toks # <<>>, call'.file, call'.hasFile,
                                       call'.denied)
      BY <3>1, <3>2, <3>3, <3>5, <3>6, <3>7, Zenon
    <3>9. call'.op # "ports"
      BY <3>6
    <3> QED  BY <3>8, <3>9, Zenon DEF ScopeInv
  <2>2. CASE ParsePorts
    <3>1. PICK toks \in SeqsUpTo(PortTokens, MaxPortTokens + 1) \ {<<>>}, tooLong \in BOOLEAN,
               denied \in BOOLEAN :
            /\ call' = [op |-> "ports", toks |-> toks, tooLong |-> tooLong, denied |-> denied]
            /\ result' = PortRangeParse([toks |-> toks, tooLong |-> tooLong], denied)
      BY <2>2, Zenon DEF ParsePorts, Called
    <3>2. toks \in Seq(PortTokens) /\ toks # <<>>
      <4>1. MaxPortTokens + 1 \in Nat
        BY TargetsAssumption
      <4> QED  BY <4>1 DEF SeqsUpTo
    <3>3. /\ call'.op = "ports" /\ call'.toks = toks /\ call'.tooLong = tooLong
          /\ call'.denied = denied
      BY <3>1
    <3>4. call'.op # "targets"
      BY <3>3
    <3> QED  BY <3>1, <3>2, <3>3, <3>4, Zenon DEF ScopeInv
  <2>3. CASE call'.op \notin {"targets", "ports"}
    BY <2>3, Zenon DEF ScopeInv
  <2>4. CASE UNCHANGED <<call, result>>
    <3>1. call' = call /\ result' = result
      BY <2>4
    <3> QED  BY <3>1, Zenon DEF ScopeInv
  <2> QED  BY <2>1, <2>2, <2>3, <2>4 DEF ScopeNext
<1> QED  BY <1>1, <1>2, PTL DEF ScopeSpec

(* target_list.c, targets_file.c and port_range.c: for specs, files and     *)
(* faults of any kind, a list that is accepted holds every address and      *)
(* every port that was read, each once, and no other, a host keeps the      *)
(* first name given for it, and a list that is refused has a reason.        *)
THEOREM ScopeHolds == ScopeSpec => []ScopeIsExact
<1>1. ScopeInv => TargetListIsExact
  <2> SUFFICES ASSUME ScopeInv, call.op = "targets", result.status = "ok"
               PROVE  Exact(Given, Meant, result.items)
    BY Zenon DEF TargetListIsExact, Exact
  <2> DEFINE spec == call.spec.toks
             file == Delivered(call.file)
             hasSpec == spec # <<>>
  <2>1. /\ spec \in Seq(SpecTokens) /\ IsFile(call.file) /\ call.hasFile \in BOOLEAN
        /\ ~call.hasFile => call.file.delivered = 0
        /\ result = TargetListParse(call.spec, hasSpec, call.file, call.hasFile, call.denied)
    BY Zenon DEF ScopeInv
  <2>2. file \in Seq(SpecTokens) /\ Len(file) = call.file.delivered
    BY <2>1, DeliveredIs
  <2>3. hasSpec \in BOOLEAN /\ (hasSpec <=> spec # <<>>)
    OBVIOUS
  <2>4. file # <<>> => call.hasFile
    <3> HIDE DEF file
    <3> QED  BY <2>1, <2>2, EmptySeq
  <2> HIDE DEF hasSpec, spec, file
  <2>5. Exact(spec \o file, Counted(spec, file), result.items)
    BY <2>1, <2>2, <2>3, <2>4, TargetListIs DEF spec, file, TokensOf, LinesOf
  <2> QED  BY <2>5, Zenon DEF Given, FromSpec, FromFile, Meant, Counted, spec, file, Delivered
<1>2. ScopeInv => PortListIsExact
  <2> SUFFICES ASSUME ScopeInv, call.op = "ports" PROVE PortListIsExact
    BY DEF PortListIsExact
  <2>1. PICK spec : spec = [toks |-> call.toks, tooLong |-> call.tooLong]
    OBVIOUS
  <2>2. /\ call.toks \in Seq(PortTokens) /\ call.toks # <<>>
        /\ result = PortRangeParse(spec, call.denied)
        /\ spec.toks = call.toks /\ spec.tooLong = call.tooLong
    BY <2>1 DEF ScopeInv
  <2>3. CASE result.status = "ok"
    <3>1. PortsOf(call.toks, result.items)
      BY <2>2, <2>3, PortRangeIs
    <3> QED  BY <2>3, <3>1, Zenon DEF PortListIsExact, PortsOf
  <2>4. CASE result.status # "ok"
    <3> DEFINE Short == Len(call.toks) <= MaxPortTokens
    <3>1. \/ \E k \in DOMAIN call.toks : ~IsPortRange(call.toks[k])
          \/ ~Short \/ call.tooLong \/ call.denied
      <4> SUFFICES ASSUME \A k \in DOMAIN call.toks : IsPortRange(call.toks[k]), Short,
                          ~call.tooLong, ~call.denied
                   PROVE  FALSE
        BY Zenon
      <4> QED  BY <2>2, <2>4, PortRefusalIs, Zenon
    <3>2. ~Short => Len(call.toks) > MaxPortTokens
      BY <2>2, LenProperties, TargetsAssumption
    <3> HIDE DEF Short
    <3> QED  BY <2>4, <3>1, <3>2, Zenon DEF PortListIsExact
  <2> QED  BY <2>3, <2>4
<1>3. ScopeInv => TargetRefusalHasReason
  <2> SUFFICES ASSUME ScopeInv, call.op = "targets", result.status # "ok"
               PROVE  TargetRefusalHasReason
    BY DEF TargetRefusalHasReason
  <2> DEFINE spec == call.spec.toks
             file == Delivered(call.file)
             hasSpec == spec # <<>>
  <2>1. /\ spec \in Seq(SpecTokens) /\ IsFile(call.file) /\ call.hasFile \in BOOLEAN
        /\ ~call.hasFile => call.file.delivered = 0
        /\ result = TargetListParse(call.spec, hasSpec, call.file, call.hasFile, call.denied)
    BY Zenon DEF ScopeInv
  <2>2. file \in Seq(SpecTokens) /\ Len(file) = call.file.delivered
    BY <2>1, DeliveredIs
  <2>3. hasSpec \in BOOLEAN /\ (hasSpec <=> spec # <<>>)
    OBVIOUS
  <2>4. file # <<>> => call.hasFile
    <3> HIDE DEF file
    <3> QED  BY <2>1, <2>2, EmptySeq
  <2>5. FromSpec = spec /\ Given = spec \o file /\ Meant = Counted(spec, file)
    BY Zenon DEF Given, FromSpec, FromFile, Meant, Counted, Delivered
  <2>6. Named = SumOf(spec \o file, Counted(spec, file))
    <3>1. Named = SumOf(Given, Meant)
      BY Zenon DEF Named, SumOf
    <3> QED  BY <2>5, <3>1, Zenon
  <2> HIDE DEF hasSpec, spec, file
  <2>7. \/ ~Parsable(call.spec, call.file, call.hasFile, call.denied)
        \/ ~Few(spec \o file, Counted(spec, file), Len(spec))
        \/ ~Naming(spec \o file, Counted(spec, file))
    <3>1. TokensOf(call.spec, spec) /\ LinesOf(call.file, file)
      BY Zenon DEF spec, file, TokensOf, LinesOf
    <3> QED  BY <2>1, <2>2, <2>3, <2>4, <3>1, TargetsAccepted
  <2>8. ~Naming(spec \o file, Counted(spec, file))
          => Meant = {} \/ \E k \in Meant : Denotes(Given[k]) = {}
    BY <2>5, Zenon DEF Naming
  <2>9. ~Parsable(call.spec, call.file, call.hasFile, call.denied)
          => \/ call.spec.tooLong
             \/ call.hasFile /\ ~call.file.opens
             \/ \E i \in 1 .. call.file.delivered : call.file.lines[i].len >= LineMax
             \/ call.denied.lines # {} \/ call.denied.targets # {} \/ call.denied.dedup
    BY Zenon DEF Parsable, HasRoom
  <2>10. ~Few(spec \o file, Counted(spec, file), Len(spec))
          => \/ Len(FromSpec) > MaxTokens \/ Cardinality({k \in Meant : k > Len(FromSpec)}) > MaxLines
             \/ Named[Len(Given)] > MaxTargets
    <3>1. PICK x, y, z : /\ x = Len(FromSpec) /\ y = Cardinality({k \in Meant : k > Len(FromSpec)})
                         /\ z = Named[Len(Given)]
      OBVIOUS
    <3>2. Few(spec \o file, Counted(spec, file), Len(spec))
            <=> x <= MaxTokens /\ y <= MaxLines /\ z <= MaxTargets
      BY <2>5, <2>6, <3>1, Zenon DEF Few
    <3>3. x \in Nat
      BY <2>1, <2>5, <3>1, LenProperties
    <3>4. y \in Nat
      <4>1. Len(spec \o file) \in Nat /\ DOMAIN (spec \o file) = 1 .. Len(spec \o file)
        BY <2>1, <2>2, ConcatProperties, LenProperties
      <4>2. IsFiniteSet(1 .. Len(spec \o file))
        BY <4>1, FS_Interval
      <4>3. {k \in Meant : k > Len(FromSpec)} \in SUBSET (1 .. Len(spec \o file))
        BY <2>5, <4>1 DEF Counted
      <4>4. IsFiniteSet({k \in Meant : k > Len(FromSpec)})
        BY <4>2, <4>3, FS_Subset
      <4> QED  BY <3>1, <4>4, FS_CardinalityType
    <3>5. z \in Nat
      <4>1. PICK toks \in Seq(SpecTokens) : toks = spec \o file
        BY <2>1, <2>2, ConcatProperties
      <4>2. IsSum(toks, Meant, Len(toks), Named)
        BY <2>5, <2>6, <4>1, SumIs
      <4>3. Len(toks) \in 0 .. Len(toks)
        BY LenProperties
      <4>4. Named[Len(toks)] \in Nat
        BY <4>2, <4>3 DEF IsSum
      <4> QED  BY <2>5, <3>1, <4>1, <4>4
    <3>6. MaxTokens \in Nat /\ MaxLines \in Nat /\ MaxTargets \in Nat
      BY TargetsAssumption
    <3>7. x > MaxTokens \/ y > MaxLines \/ z > MaxTargets
            \/ (x <= MaxTokens /\ y <= MaxLines /\ z <= MaxTargets)
      BY <3>3, <3>4, <3>5, <3>6
    <3> QED  BY <3>1, <3>2, <3>7, Zenon
  <2> QED  BY <2>7, <2>8, <2>9, <2>10, Zenon DEF TargetRefusalHasReason
<1>4. ScopeInv => ScopeIsExact
  BY <1>1, <1>2, <1>3 DEF ScopeIsExact
<1> QED  BY <1>4, ScopeInvariant, PTL

(* Between two calls a walk's call is a record with its four fields.       *)
DayCall ==
  call.op = "day" => \E d, m, l : call = [op |-> "day", days |-> d, ms |-> m, left |-> l]

(* A call of ScopeNext is a parse of targets or of ports.                  *)
LEMMA ScopeOps == ScopeNext => call'.op \in {"targets", "ports"}
<1>1. ASSUME ParseTargets PROVE call'.op = "targets"
  <2>1. PICK spec, file, hasFile, denied :
          call' = [op |-> "targets", spec |-> spec, file |-> file, hasFile |-> hasFile,
                   denied |-> denied]
    BY <1>1, Zenon DEF ParseTargets, Called
  <2> QED  BY <2>1
<1>2. ASSUME ParsePorts PROVE call'.op = "ports"
  <2>1. PICK toks, tooLong, denied :
          call' = [op |-> "ports", toks |-> toks, tooLong |-> tooLong, denied |-> denied]
    BY <1>2, Zenon DEF ParsePorts, Called
  <2> QED  BY <2>1
<1> QED  BY <1>1, <1>2, Zenon DEF ScopeNext

(* A call of VersionNext is one about versions.                             *)
LEMMA VersionOps == VersionNext => call'.op \in {"compare", "match"}
<1>1. ASSUME CompareThree PROVE call'.op = "compare"
  <2>1. PICK a, b, c : call' = [op |-> "compare", a |-> a, b |-> b, c |-> c]
    BY <1>1, Zenon DEF CompareThree, Called
  <2> QED  BY <2>1
<1>2. ASSUME MatchProduct PROVE call'.op = "match"
  <2>1. PICK rows, detected : call' = [op |-> "match", rows |-> rows, detected |-> detected]
    BY <1>2, Zenon DEF MatchProduct, Called
  <2> QED  BY <2>1
<1> QED  BY <1>1, <1>2, Zenon DEF VersionNext

(* A call of GateNext is a check of a key or a text.                        *)
LEMMA GateOps == GateNext => call'.op \in {"value", "key"}
<1>1. ASSUME CheckValue PROVE call'.op = "value"
  <2>1. PICK buf : call' = [op |-> "value", buf |-> buf]
    BY <1>1, Zenon DEF CheckValue, Called
  <2> QED  BY <2>1
<1>2. ASSUME CheckKey PROVE call'.op = "key"
  <2>1. PICK key : call' = [op |-> "key", key |-> key]
    BY <1>2, Zenon DEF CheckKey, Called
  <2> QED  BY <2>1
<1> QED  BY <1>1, <1>2, Zenon DEF GateNext

(* A call of ReportNext is one of the report's buffer.                      *)
LEMMA ReportOps == ReportNext => call'.op \in {"escape", "link", "reserve"}
<1>1. ASSUME Escape PROVE call'.op = "escape"
  <2>1. PICK text : call' = [op |-> "escape", text |-> text]
    BY <1>1, Zenon DEF Escape, Called
  <2> QED  BY <2>1
<1>2. ASSUME EscapeLink PROVE call'.op = "link"
  <2>1. PICK text : call' = [op |-> "link", text |-> text]
    BY <1>2, Zenon DEF EscapeLink, Called
  <2> QED  BY <2>1
<1>3. ASSUME ReserveRoom PROVE call'.op = "reserve"
  <2>1. PICK len, cap, extra, granted :
          call' = [op |-> "reserve", len |-> len, cap |-> cap, extra |-> extra, granted |-> granted]
    BY <1>3, Zenon DEF ReserveRoom, Called
  <2> QED  BY <2>1
<1> QED  BY <1>1, <1>2, <1>3, Zenon DEF ReportNext

(* A step of the walk goes from a walk's call to another, or to none.      *)
LEMMA CalendarOps ==
  ASSUME DayCall, CalendarNext
  PROVE  DayCall' /\ call'.op \in {"day", "idle"}
<1>1. CASE StartWalk
  <2>1. PICK d, m, l : call' = [op |-> "day", days |-> d, ms |-> m, left |-> l]
    BY <1>1, Zenon DEF StartWalk, Called
  <2> QED  BY <2>1 DEF DayCall
<1>2. CASE WalkDay
  <2>1. PICK d, m, l : call = [op |-> "day", days |-> d, ms |-> m, left |-> l]
    BY <1>2 DEF WalkDay, DayCall
  <2>2. PICK e, f : call' = [call EXCEPT !.days = e, !.left = f]
    BY <1>2 DEF WalkDay
  <2>3. call' = [op |-> "day", days |-> e, ms |-> m, left |-> f]
    BY <2>1, <2>2
  <2> QED  BY <2>3 DEF DayCall
<1>3. CASE WalkEnds
  <2>1. call' = [op |-> "idle"]
    BY <1>3 DEF WalkEnds, Called, Idle
  <2> QED  BY <2>1 DEF DayCall
<1> QED  BY <1>1, <1>2, <1>3 DEF CalendarNext

(* The run over all functions makes the calls of each part, and what it    *)
(* does in between is none of that part's calls: what is proved of a part  *)
(* whatever else is called holds of the run.                               *)
THEOREM EveryPartIsCalled ==
  CallsSpec => CalendarSpec /\ VersionSpec /\ GateSpec /\ ScopeSpec /\ ReportSpec
<1> DEFINE Parts == /\ CalendarNext \/ call'.op # "day"
                    /\ VersionNext \/ call'.op \notin {"compare", "match"}
                    /\ GateNext \/ call'.op \notin {"value", "key"}
                    /\ ScopeNext \/ call'.op \notin {"targets", "ports"}
                    /\ ReportNext \/ call'.op \notin {"escape", "link", "reserve"}
<1>1. CallInit => DayCall
  BY DEF CallInit, Idle, DayCall
<1>2. Returned => call'.op = "idle"
  BY DEF Returned, Called, Idle
<1>3. ASSUME DayCall, CallsNext PROVE DayCall' /\ Parts
  <2>1. CASE CalendarNext
    BY <1>3, <2>1, CalendarOps
  <2>2. CASE ScopeNext
    BY <2>2, ScopeOps DEF DayCall
  <2>3. CASE VersionNext
    BY <2>3, VersionOps DEF DayCall
  <2>4. CASE GateNext
    BY <2>4, GateOps DEF DayCall
  <2>5. CASE ReportNext
    BY <2>5, ReportOps DEF DayCall
  <2>6. CASE Returned
    BY <1>2, <2>6 DEF DayCall
  <2> QED  BY <1>3, <2>1, <2>2, <2>3, <2>4, <2>5, <2>6 DEF CallsNext
<1>4. DayCall /\ UNCHANGED <<call, result>> => DayCall'
  BY DEF DayCall
<1>5. CallsSpec => []DayCall
  BY <1>1, <1>3, <1>4, PTL DEF CallsSpec
<1>6. DayCall /\ [CallsNext]_<<call, result>>
        => /\ [CalendarNext \/ call'.op # "day"]_<<call, result>>
           /\ [VersionNext \/ call'.op \notin {"compare", "match"}]_<<call, result>>
           /\ [GateNext \/ call'.op \notin {"value", "key"}]_<<call, result>>
           /\ [ScopeNext \/ call'.op \notin {"targets", "ports"}]_<<call, result>>
           /\ [ReportNext \/ call'.op \notin {"escape", "link", "reserve"}]_<<call, result>>
  BY <1>3
<1> QED
  BY <1>5, <1>6, PTL DEF CallsSpec, CalendarSpec, VersionSpec, GateSpec, ScopeSpec, ReportSpec

(* The scope is exact in the run over all functions as well.               *)
COROLLARY ScopeOfTheRun == CallsSpec => []ScopeIsExact
BY EveryPartIsCalled, ScopeHolds, PTL

=============================================================================
