--------------------------- MODULE HostScanProofs ---------------------------
(***************************************************************************)
(* Proofs about HostScan for every plugin directory, every answer of the   *)
(* network and every table size: the registry loads exactly the graphs     *)
(* that can be ordered, the growing hash table is a map, a plugin is       *)
(* offered every port of the service it asks for, and detection says https *)
(* of the ports that speak TLS and of no others; and, of the gate of the   *)
(* knowledge base, that it takes the keys that are paths and the texts     *)
(* that are UTF-8, and nothing else.                                       *)
(***************************************************************************)
EXTENDS HostScan, GateCalls, FiniteSetTheorems, SequenceTheorems, WellFoundedInduction, TLAPS

Headers == {Header(f) : f \in Files}

(* No two registered plugins have the same script_id.                      *)
IdsDistinct ==
  \A i, j \in DOMAIN reg.headers : reg.headers[i].id = reg.headers[j].id => i = j

(* What registration has let through: one wildcard at most.                *)
KeysValid == \A i \in DOMAIN reg.headers : RequiredKeysOk(reg.headers[i].keys)

PlacedIds == {reg.headers[j].id : j \in Placed}

(* The mentions of dependencies that are not placed yet.                   *)
Owed(i) == {d \in DOMAIN reg.headers[i].deps : reg.headers[i].deps[d] \notin PlacedIds}

(* Kahn's invariant: the order so far is legal and names nothing twice,    *)
(* and the in-degree of every other plugin counts what it is owed.         *)
OrderInv ==
  /\ reg.order \in Seq(DOMAIN reg.headers)
  /\ \A i, j \in DOMAIN reg.order : reg.order[i] = reg.order[j] => i = j
  /\ \A k \in DOMAIN reg.order : \A d \in DOMAIN reg.headers[reg.order[k]].deps :
       \E j \in 1..(k - 1) : reg.headers[reg.order[j]].id = reg.headers[reg.order[k]].deps[d]

DegreeInv ==
  /\ DOMAIN reg.degree = DOMAIN reg.headers
  /\ \A i \in DOMAIN reg.headers \ Placed : reg.degree[i] = Cardinality(Owed(i))

RegInv ==
  /\ reg \in RegSet
  /\ IdsDistinct /\ KeysValid
  /\ reg.pc \in {"open", "register", "check"} => reg.order = <<>>
  /\ reg.pc = "sort" => OrderInv /\ DegreeInv
  /\ LoadIsExact

----------------------------------------------------------------------------
(* Induction over the natural numbers, as the existence of a least         *)
(* counterexample.                                                         *)
LEMMA Least ==
  ASSUME NEW S \in SUBSET Nat, S # {}
  PROVE  \E x \in S : \A y \in S : x <= y
<1>1. IsWellFoundedOn(OpToRel(<, Nat), Nat)
  BY NatLessThanWellFounded
<1>2. PICK x \in S : \A y \in S : ~(<<y, x>> \in OpToRel(<, Nat))
  BY <1>1, WFMin
<1>3. \A y \in S : ~(y < x)
  BY <1>2 DEF OpToRel
<1> QED  BY <1>3

(* An interval that starts at 1.                                           *)
LEMMA Interval ==
  ASSUME NEW n \in Nat
  PROVE  IsFiniteSet(1..n) /\ Cardinality(1..n) = n
BY FS_Interval, 1 \in Int

(* What a header has.                                                      *)
LEMMA HeaderIs ==
  ASSUME NEW h \in Headers
  PROVE  /\ Len(h.deps) \in Nat /\ DOMAIN h.deps = 1..Len(h.deps)
         /\ Len(h.keys) \in Nat /\ DOMAIN h.keys = 1..Len(h.keys)
         /\ IsFiniteSet(DOMAIN h.deps) /\ Cardinality(DOMAIN h.deps) = Len(h.deps)
<1>1. PICK f \in Files : h = Header(f)
  BY DEF Headers
<1>2. IsSequence(f.deps) /\ IsSequence(f.keys)
  BY FileAssumption
<1>3. IsSequence(h.deps) /\ IsSequence(h.keys)
  BY <1>1, <1>2 DEF Header
<1>4. ASSUME NEW s, IsSequence(s) PROVE Len(s) \in Nat /\ DOMAIN s = 1..Len(s)
  BY <1>4 DEF IsSequence
<1>5. /\ Len(h.deps) \in Nat /\ DOMAIN h.deps = 1..Len(h.deps)
      /\ Len(h.keys) \in Nat /\ DOMAIN h.keys = 1..Len(h.keys)
  BY <1>3, <1>4
<1> QED  BY <1>5, Interval

(* The headers are a sequence of headers.                                   *)
LEMMA HeadersAre ==
  ASSUME reg \in RegSet
  PROVE  /\ Len(reg.headers) \in Nat /\ DOMAIN reg.headers = 1..Len(reg.headers)
         /\ \A i \in DOMAIN reg.headers : reg.headers[i] \in Headers
BY DEF RegSet, Headers

(* The lowest element of a set of indices.                                 *)
LEMMA LowestIs ==
  ASSUME NEW S \in SUBSET Nat, S # {}
  PROVE  Lowest(S) \in S
BY Least DEF Lowest

----------------------------------------------------------------------------
(* What is owed is finite, and an empty debt is a count of zero.           *)
LEMMA OwedIs ==
  ASSUME reg \in RegSet, NEW i \in DOMAIN reg.headers
  PROVE  IsFiniteSet(Owed(i)) /\ Cardinality(Owed(i)) \in Nat /\ (Cardinality(Owed(i)) = 0 <=> Owed(i) = {})
<1>1. IsFiniteSet(DOMAIN reg.headers[i].deps)
  BY HeadersAre, HeaderIs
<1>2. Owed(i) \subseteq DOMAIN reg.headers[i].deps
  BY DEF Owed
<1> QED  BY <1>1, <1>2, FS_Subset, FS_EmptySet, FS_CardinalityType

(* A directory with a dependency that is not there has no order.           *)
LEMMA MissingIsNotOrderable ==
  ASSUME reg \in RegSet, MissingDependency(reg.headers)
  PROVE  ~Orderable(reg.headers)
<1> DEFINE hs == reg.headers
<1> SUFFICES ASSUME NEW p \in Bijection(DOMAIN hs, DOMAIN hs),
                    LegalOrder([i \in DOMAIN hs |-> hs[p[i]]])
             PROVE  FALSE
  BY DEF Orderable
<1>1. PICK i \in DOMAIN hs : \E d \in DOMAIN hs[i].deps : ~Registered(hs, hs[i].deps[d])
  BY DEF MissingDependency
<1>2. PICK d \in DOMAIN hs[i].deps : ~Registered(hs, hs[i].deps[d])
  BY <1>1
<1>3. p \in [DOMAIN hs -> DOMAIN hs] /\ \E q \in DOMAIN hs : p[q] = i
  BY DEF Bijection, Injection, Surjection
<1>4. PICK q \in DOMAIN hs : p[q] = i
  BY <1>3
<1> DEFINE s == [k \in DOMAIN hs |-> hs[p[k]]]
<1>5. s[q] = hs[i] /\ DOMAIN s = DOMAIN hs
  BY <1>4
<1>6. hs[i].deps[d] \in Before(s, q)
  <2> HIDE DEF s
  <2>1. {s[q].deps[e] : e \in DOMAIN s[q].deps} \subseteq Before(s, q)
    BY <1>5 DEF LegalOrder, s
  <2> QED  BY <1>5, <2>1
<1>7. PICK j \in 1..(q - 1) : s[j].id = hs[i].deps[d]
  BY <1>6 DEF Before
<1>8. j \in DOMAIN hs
  BY <1>7, HeadersAre
<1>9. hs[p[j]].id = hs[i].deps[d] /\ p[j] \in DOMAIN hs
  BY <1>3, <1>7, <1>8
<1> QED  BY <1>2, <1>9 DEF Registered

(* A sort that is stuck before its end leaves plugins that no order can    *)
(* place: of those, the one an order would run first has all it needs.     *)
LEMMA CycleIsNotOrderable ==
  ASSUME reg \in RegSet, OrderInv, DegreeInv, Ready = {}, Len(reg.order) < Len(reg.headers)
  PROVE  ~Orderable(reg.headers)
<1> DEFINE hs == reg.headers
           n  == Len(reg.headers)
<1> SUFFICES ASSUME NEW p \in Bijection(DOMAIN hs, DOMAIN hs),
                    LegalOrder([i \in DOMAIN hs |-> hs[p[i]]])
             PROVE  FALSE
  BY DEF Orderable
<1>1. n \in Nat /\ DOMAIN hs = 1..n
  BY HeadersAre
<1>2. \E u \in 1..n : u \notin Placed
  <2> SUFFICES ASSUME \A u \in 1..n : u \in Placed PROVE FALSE
    OBVIOUS
  <2>1. reg.order \in Surjection(1..Len(reg.order), 1..n)
    <3>1. reg.order \in [1..Len(reg.order) -> 1..n]
      BY <1>1 DEF OrderInv
    <3>2. \A u \in 1..n : \E k \in 1..Len(reg.order) : reg.order[k] = u
      BY <1>1, <3>1 DEF Placed
    <3> QED  BY <3>1, <3>2 DEF Surjection
  <2>2. Len(reg.order) \in Nat
    BY DEF RegSet
  <2>3. IsFiniteSet(1..Len(reg.order)) /\ Cardinality(1..Len(reg.order)) = Len(reg.order)
        /\ Cardinality(1..n) = n
    BY <1>1, <2>2, Interval
  <2>4. Cardinality(1..n) <= Cardinality(1..Len(reg.order))
    BY <2>1, <2>3, FS_Surjection
  <2> QED  BY <1>1, <2>2, <2>3, <2>4
<1>3. PICK u \in 1..n : u \notin Placed
  BY <1>2
<1>4. p \in [1..n -> 1..n] /\ \A w \in 1..n : \E q \in 1..n : p[q] = w
  BY <1>1 DEF Bijection, Injection, Surjection
<1> DEFINE Q == {q \in 1..n : p[q] \notin Placed}
<1>5. Q \in SUBSET Nat /\ Q # {}
  <2>1. PICK q \in 1..n : p[q] = u
    BY <1>3, <1>4
  <2>2. q \in Q
    BY <1>3, <2>1
  <2> QED  BY <1>1, <2>2
<1>6. PICK q \in Q : \A k \in Q : q <= k
  <2> HIDE DEF Q
  <2> QED  BY <1>5, Least
<1> DEFINE i == p[q]
           s == [k \in DOMAIN hs |-> hs[p[k]]]
<1>7. i \in DOMAIN hs /\ i \notin Placed /\ q \in 1..n
  BY <1>1, <1>4, <1>6
<1>8. s[q] = hs[i] /\ DOMAIN s = DOMAIN hs /\ q \in DOMAIN hs
  BY <1>1, <1>7
<1>9. ASSUME NEW d \in DOMAIN hs[i].deps PROVE hs[i].deps[d] \in PlacedIds
  <2>1. hs[i].deps[d] \in Before(s, q)
    <3> HIDE DEF s, i
    <3>1. {s[q].deps[e] : e \in DOMAIN s[q].deps} \subseteq Before(s, q)
      BY <1>8 DEF LegalOrder, s
    <3> QED  BY <1>8, <3>1
  <2>2. PICK j \in 1..(q - 1) : s[j].id = hs[i].deps[d]
    BY <2>1 DEF Before
  <2>3. j \in 1..n /\ j \notin Q
    BY <1>6, <1>7, <2>2
  <2>4. p[j] \in Placed /\ hs[p[j]].id = hs[i].deps[d]
    BY <1>1, <2>2, <2>3
  <2> QED  BY <2>4 DEF PlacedIds
<1>10. Owed(i) = {}
  BY <1>9 DEF Owed
<1>11. reg.degree[i] = 0
  BY <1>7, <1>10, FS_EmptySet DEF DegreeInv
<1> QED  BY <1>7, <1>11 DEF Ready

(* A legal order of the plugins is what the registry keeps.                *)
LEMMA ReorderedIsLegal ==
  ASSUME reg \in RegSet, OrderInv
  PROVE  LegalOrder(Reordered(reg.headers, reg.order))
<1> DEFINE s == Reordered(reg.headers, reg.order)
<1>1. DOMAIN s = DOMAIN reg.order /\ \A k \in DOMAIN reg.order : s[k] = reg.headers[reg.order[k]]
  BY DEF Reordered
<1>2. DOMAIN reg.order = 1..Len(reg.order) /\ Len(reg.order) \in Nat
  BY DEF RegSet
<1>3. ASSUME NEW k \in DOMAIN s, NEW d \in DOMAIN s[k].deps PROVE s[k].deps[d] \in Before(s, k)
  <2> HIDE DEF s
  <2>1. PICK j \in 1..(k - 1) : reg.headers[reg.order[j]].id = s[k].deps[d]
    BY <1>1, <1>3 DEF OrderInv
  <2>2. j \in DOMAIN reg.order
    BY <1>1, <1>2, <2>1
  <2>3. s[j].id = s[k].deps[d]
    BY <1>1, <2>1, <2>2
  <2> QED  BY <2>1, <2>3 DEF Before
<1> HIDE DEF s
<1> QED  BY <1>3 DEF LegalOrder, s

----------------------------------------------------------------------------
(* The steps of cytadel_plugin_registry_load.                              *)

(* Before the directory is opened.                                          *)
LEMMA RegInitInv == Init => RegInv
<1> SUFFICES ASSUME Init PROVE RegInv
  OBVIOUS
<1>1. PICK s \in Scenarios :
        /\ RegInit(s.dir)
        /\ host = [pc |-> "main", up |-> FALSE, ports |-> s.ports, states |-> <<>>, next |-> 1]
  BY DEF Init
<1>2. s.dir \in Seq(Files)
  BY ScenarioAssumption DEF IsScenario
<1>3. reg = [pc |-> "open", dir |-> s.dir, headers |-> <<>>, degree |-> <<>>, order |-> <<>>]
  BY <1>1 DEF RegInit
<1>4. reg \in RegSet /\ reg.pc = "open" /\ reg.headers = <<>> /\ reg.order = <<>>
  <2>1. <<>> \in Seq(Nat) /\ <<>> \in Seq({Header(f) : f \in Files})
    OBVIOUS
  <2>2. reg.pc = "open" /\ reg.headers = <<>> /\ reg.order = <<>>
    BY <1>3
  <2> QED  BY <1>2, <1>3, <2>1, <2>2 DEF RegSet
<1> QED  BY <1>4 DEF RegInv, IdsDistinct, KeysValid, LoadIsExact

(* A registration keeps the script_ids distinct.                           *)
LEMMA RegisterKeeps ==
  ASSUME RegInv, RegisterFile
  PROVE  RegInv'
<1> DEFINE f == Head(reg.dir)
           keep == RegisterOneFile(f) /\ ~Registered(reg.headers, f.id)
<1>1. /\ reg \in RegSet /\ reg.pc = "register" /\ reg.dir # <<>>
      /\ reg' = [reg EXCEPT !.dir = Tail(@), !.headers = IF keep THEN Append(@, Header(f)) ELSE @]
  BY DEF RegInv, RegisterFile
<1>2. f \in Files /\ Tail(reg.dir) \in Seq(Files)
  BY <1>1 DEF RegSet
<1> HIDE DEF f, keep
<1>3. reg'.headers = IF keep THEN Append(reg.headers, Header(f)) ELSE reg.headers
  BY <1>1 DEF RegSet
<1>4. /\ reg'.pc = "register" /\ reg'.order = reg.order /\ reg'.dir = Tail(reg.dir)
      /\ reg'.degree = reg.degree
  BY <1>1 DEF RegSet
<1>5. Header(f) \in {Header(g) : g \in Files} /\ Header(f).id = f.id
  BY <1>2 DEF Header
<1>6. reg' \in RegSet
  <2>1. reg'.headers \in Seq({Header(g) : g \in Files})
    BY <1>1, <1>3, <1>5 DEF RegSet
  <2> QED  BY <1>1, <1>2, <1>4, <2>1 DEF RegSet
<1>7. IdsDistinct'
  <2>1. CASE ~keep
    BY <1>3, <2>1 DEF IdsDistinct, RegInv
  <2>2. CASE keep
    <3>1. DOMAIN reg.headers = 1..Len(reg.headers) /\ Len(reg.headers) \in Nat
      BY <1>1, HeadersAre
    <3>2. \A i \in DOMAIN reg.headers : reg.headers[i].id # f.id
      BY <2>2 DEF keep, Registered
    <3>3. /\ DOMAIN reg'.headers = 1..(Len(reg.headers) + 1)
          /\ reg'.headers[Len(reg.headers) + 1] = Header(f)
          /\ \A i \in DOMAIN reg.headers : reg'.headers[i] = reg.headers[i]
      BY <1>1, <1>3, <1>5, <2>2, <3>1 DEF RegSet
    <3> SUFFICES ASSUME NEW i \in DOMAIN reg'.headers, NEW j \in DOMAIN reg'.headers,
                        reg'.headers[i].id = reg'.headers[j].id
                 PROVE  i = j
      BY DEF IdsDistinct
    <3>4. CASE i \in DOMAIN reg.headers /\ j \in DOMAIN reg.headers
      BY <3>3, <3>4 DEF RegInv, IdsDistinct
    <3>5. CASE i \in DOMAIN reg.headers /\ j \notin DOMAIN reg.headers
      BY <1>5, <3>1, <3>2, <3>3, <3>5
    <3>6. CASE i \notin DOMAIN reg.headers /\ j \in DOMAIN reg.headers
      BY <1>5, <3>1, <3>2, <3>3, <3>6
    <3>7. CASE i \notin DOMAIN reg.headers /\ j \notin DOMAIN reg.headers
      BY <3>1, <3>3, <3>7
    <3> QED  BY <3>4, <3>5, <3>6, <3>7
  <2> QED  BY <2>1, <2>2
<1>8. KeysValid'
  <2>1. CASE ~keep
    BY <1>3, <2>1 DEF KeysValid, RegInv
  <2>2. CASE keep
    <3>1. RequiredKeysOk(Header(f).keys)
      BY <2>2 DEF keep, RegisterOneFile, Header
    <3>2. \A i \in DOMAIN reg'.headers :
            reg'.headers[i] = Header(f) \/ (i \in DOMAIN reg.headers /\ reg'.headers[i] = reg.headers[i])
      BY <1>1, <1>3, <1>5, <2>2, HeadersAre DEF RegSet
    <3> QED  BY <3>1, <3>2 DEF KeysValid, RegInv
  <2> QED  BY <2>1, <2>2
<1> QED  BY <1>1, <1>4, <1>6, <1>7, <1>8 DEF RegInv, LoadIsExact

(* The check ends in a refusal or in the first state of the sort.          *)
LEMMA CheckKeeps ==
  ASSUME RegInv, CheckDependencies
  PROVE  RegInv'
<1>1. reg \in RegSet /\ reg.pc = "check" /\ reg.order = <<>>
  BY DEF RegInv, CheckDependencies
<1>2. CASE MissingDependency(reg.headers)
  <2>1. reg' = [reg EXCEPT !.pc = "refused"]
    BY <1>2 DEF CheckDependencies
  <2>2. reg' \in RegSet /\ reg'.headers = reg.headers /\ reg'.pc = "refused"
    BY <1>1, <2>1 DEF RegSet
  <2>3. ~Orderable(reg.headers)
    BY <1>1, <1>2, MissingIsNotOrderable
  <2>4. IdsDistinct' /\ KeysValid' /\ LoadIsExact'
    <3>1. ~Orderable(reg'.headers)
      BY <2>2, <2>3
    <3> QED  BY <2>2, <3>1 DEF RegInv, IdsDistinct, KeysValid, LoadIsExact
  <2> QED  BY <2>2, <2>4 DEF RegInv
<1>3. CASE ~MissingDependency(reg.headers)
  <2>1. reg' = [reg EXCEPT !.pc = "sort", !.degree = InDegree(reg.headers)]
    BY <1>3 DEF CheckDependencies
  <2>2. /\ reg'.headers = reg.headers /\ reg'.pc = "sort" /\ reg'.order = <<>>
        /\ reg'.degree = InDegree(reg.headers)
    BY <1>1, <2>1 DEF RegSet
  <2>3. InDegree(reg.headers) \in Seq(Nat) /\ DOMAIN InDegree(reg.headers) = DOMAIN reg.headers
    <3>1. \A i \in DOMAIN reg.headers : Len(reg.headers[i].deps) \in Nat
      BY <1>1, HeadersAre, HeaderIs
    <3>2. InDegree(reg.headers) \in [1..Len(reg.headers) -> Nat] /\ Len(reg.headers) \in Nat
      BY <1>1, <3>1, HeadersAre DEF InDegree
    <3>3. ASSUME NEW n \in Nat, NEW g \in [1..n -> Nat] PROVE g \in Seq(Nat)
      OBVIOUS
    <3> QED  BY <1>1, <3>2, <3>3, HeadersAre
  <2>4. reg' \in RegSet
    BY <1>1, <2>1, <2>3 DEF RegSet
  <2>5. OrderInv'
    BY <2>2 DEF OrderInv
  <2>6. Placed' = {} /\ PlacedIds' = {}
    BY <2>2 DEF Placed, PlacedIds
  <2>7. DegreeInv'
    <3> SUFFICES ASSUME NEW i \in DOMAIN reg.headers
                 PROVE  InDegree(reg.headers)[i] = Cardinality(Owed(i)')
      BY <2>2, <2>3, <2>6 DEF DegreeInv
    <3>1. Owed(i)' = DOMAIN reg.headers[i].deps
      BY <2>2, <2>6 DEF Owed
    <3>2. Cardinality(DOMAIN reg.headers[i].deps) = Len(reg.headers[i].deps)
      BY <1>1, HeadersAre, HeaderIs
    <3> QED  BY <3>1, <3>2 DEF InDegree
  <2>8. IdsDistinct' /\ KeysValid' /\ LoadIsExact'
    BY <2>2 DEF RegInv, IdsDistinct, KeysValid, LoadIsExact
  <2> QED  BY <2>2, <2>4, <2>5, <2>7, <2>8 DEF RegInv
<1> QED  BY <1>2, <1>3

(* Placing a plugin whose debt is paid keeps Kahn's invariant: what the    *)
(* others owed it is taken from their in-degrees, mention by mention.      *)
LEMMA PlaceKeeps ==
  ASSUME RegInv, PlaceNext
  PROVE  RegInv'
<1> DEFINE r  == Lowest(Ready)
           hs == reg.headers
           mentions(i) == {d \in DOMAIN hs[i].deps : hs[i].deps[d] = hs[r].id}
<1>1. /\ reg \in RegSet /\ reg.pc = "sort" /\ OrderInv /\ DegreeInv
      /\ IdsDistinct /\ KeysValid /\ Ready # {}
  BY DEF RegInv, PlaceNext
<1>2. DOMAIN hs = 1..Len(hs) /\ Len(hs) \in Nat
  BY <1>1, HeadersAre
<1>3. r \in DOMAIN hs /\ r \notin Placed /\ reg.degree[r] = 0
  <2>1. Ready \in SUBSET Nat
    BY <1>2 DEF Ready
  <2>2. r \in Ready
    BY <1>1, <2>1, LowestIs
  <2> QED  BY <2>2 DEF Ready
<1>4. reg' = [reg EXCEPT
               !.order = Append(@, r),
               !.degree = [i \in DOMAIN @ |->
                   IF i \in Placed \union {r} THEN @[i]
                   ELSE @[i] - Mentions(hs[i].deps, hs[r].id)]]
  BY DEF PlaceNext
<1> HIDE DEF r
<1>5. /\ reg'.pc = "sort" /\ reg'.headers = hs /\ reg'.dir = reg.dir
      /\ reg'.order = Append(reg.order, r)
      /\ reg'.degree = [i \in DOMAIN reg.degree |->
                          IF i \in Placed \union {r} THEN reg.degree[i]
                          ELSE reg.degree[i] - Mentions(hs[i].deps, hs[r].id)]
  BY <1>1, <1>4 DEF RegSet
<1>6. /\ Len(reg.order) \in Nat /\ DOMAIN reg.order = 1..Len(reg.order)
      /\ DOMAIN reg'.order = 1..(Len(reg.order) + 1)
      /\ reg'.order[Len(reg.order) + 1] = r
      /\ \A k \in DOMAIN reg.order : reg'.order[k] = reg.order[k]
  BY <1>1, <1>5 DEF RegSet
<1>7. Placed' = Placed \union {r}
  <2>1. \A x \in Placed' : x \in Placed \union {r}
    BY <1>6 DEF Placed
  <2>2. \A x \in Placed : x \in Placed'
    BY <1>6 DEF Placed
  <2>3. r \in Placed'
    BY <1>6 DEF Placed
  <2> QED  BY <2>1, <2>2, <2>3
<1>8. PlacedIds' = PlacedIds \union {hs[r].id}
  BY <1>5, <1>7 DEF PlacedIds
<1>9. \A d \in DOMAIN hs[r].deps : hs[r].deps[d] \in PlacedIds
  <2>1. Cardinality(Owed(r)) = 0
    BY <1>1, <1>3 DEF DegreeInv
  <2>2. Owed(r) = {}
    BY <1>1, <1>3, <2>1, OwedIs
  <2> QED  BY <2>2 DEF Owed
<1>10. OrderInv'
  <2>1. reg'.order \in Seq(DOMAIN hs)
    <3>1. ASSUME NEW S, NEW s \in Seq(S), NEW x \in S PROVE Append(s, x) \in Seq(S)
      OBVIOUS
    <3>2. reg.order \in Seq(DOMAIN hs)
      BY <1>1 DEF OrderInv
    <3> HIDE DEF hs
    <3> QED  BY <1>3, <1>5, <3>1, <3>2
  <2>2. ASSUME NEW i \in DOMAIN reg'.order, NEW j \in DOMAIN reg'.order, reg'.order[i] = reg'.order[j]
        PROVE  i = j
    <3>1. \A k \in DOMAIN reg.order : reg.order[k] # r
      BY <1>3 DEF Placed
    <3>2. CASE i \in DOMAIN reg.order /\ j \in DOMAIN reg.order
      BY <1>1, <1>6, <2>2, <3>2 DEF OrderInv
    <3>3. CASE i \notin DOMAIN reg.order \/ j \notin DOMAIN reg.order
      BY <1>6, <2>2, <3>1, <3>3
    <3> QED  BY <3>2, <3>3
  <2>3. ASSUME NEW k \in DOMAIN reg'.order, NEW d \in DOMAIN hs[reg'.order[k]].deps
        PROVE  \E j \in 1..(k - 1) : hs[reg'.order[j]].id = hs[reg'.order[k]].deps[d]
    <3>1. CASE k \in DOMAIN reg.order
      <4>1. reg'.order[k] = reg.order[k]
        BY <1>6, <3>1
      <4>2. PICK j \in 1..(k - 1) : hs[reg.order[j]].id = hs[reg.order[k]].deps[d]
        BY <1>1, <2>3, <3>1, <4>1 DEF OrderInv
      <4>3. j \in DOMAIN reg.order
        BY <1>6, <3>1, <4>2
      <4> QED  BY <1>6, <4>1, <4>2, <4>3
    <3>2. CASE k \notin DOMAIN reg.order
      <4>1. k = Len(reg.order) + 1 /\ reg'.order[k] = r
        BY <1>6, <3>2
      <4>2. hs[r].deps[d] \in PlacedIds
        BY <1>9, <2>3, <4>1
      <4>3. PICK x \in Placed : hs[x].id = hs[r].deps[d]
        BY <4>2 DEF PlacedIds
      <4>4. PICK j \in DOMAIN reg.order : reg.order[j] = x
        BY <4>3 DEF Placed
      <4>5. j \in 1..(k - 1) /\ reg'.order[j] = x
        BY <1>6, <4>1, <4>4
      <4> QED  BY <4>1, <4>3, <4>5
    <3> QED  BY <3>1, <3>2
  <2>4. \A i, j \in DOMAIN reg'.order : reg'.order[i] = reg'.order[j] => i = j
    BY <2>2
  <2>5. \A k \in DOMAIN reg'.order : \A d \in DOMAIN hs[reg'.order[k]].deps :
          \E j \in 1..(k - 1) : hs[reg'.order[j]].id = hs[reg'.order[k]].deps[d]
    BY <2>3
  <2>6. reg'.headers = hs
    BY <1>5
  <2> HIDE DEF hs
  <2> QED  BY <2>1, <2>4, <2>5, <2>6 DEF OrderInv
<1>11. ASSUME NEW i \in DOMAIN hs, i \notin Placed', ~(i \in Placed \union {r})
       PROVE  reg'.degree[i] = Cardinality(Owed(i)') /\ reg'.degree[i] \in Nat
  <2>1. Owed(i)' = Owed(i) \ mentions(i)
    BY <1>5, <1>8 DEF Owed
  <2>2. mentions(i) \subseteq Owed(i)
    <3>1. hs[r].id \notin PlacedIds
      <4> SUFFICES ASSUME NEW x \in Placed, hs[x].id = hs[r].id PROVE FALSE
        BY DEF PlacedIds
      <4>1. x \in DOMAIN hs
        BY <1>1 DEF Placed, OrderInv
      <4> QED  BY <1>1, <1>3, <4>1 DEF IdsDistinct
    <3> QED  BY <3>1 DEF Owed
  <2>3. Mentions(hs[i].deps, hs[r].id) = Cardinality(mentions(i))
    BY DEF Mentions
  <2>4. reg'.degree[i] = reg.degree[i] - Cardinality(mentions(i))
    BY <1>1, <1>5, <1>11, <2>3 DEF DegreeInv
  <2>5. reg.degree[i] = Cardinality(Owed(i))
    BY <1>1, <1>11 DEF DegreeInv
  <2>6. IsFiniteSet(Owed(i)) /\ Owed(i) \cap mentions(i) = mentions(i)
    BY <1>1, <2>2, OwedIs
  <2> HIDE DEF mentions
  <2>7. /\ IsFiniteSet(Owed(i) \ mentions(i))
        /\ Cardinality(Owed(i) \ mentions(i)) = Cardinality(Owed(i)) - Cardinality(Owed(i) \cap mentions(i))
    BY <2>6, FS_Difference
  <2>8. Cardinality(Owed(i) \ mentions(i)) \in Nat
    BY <2>7, FS_CardinalityType
  <2>9. reg'.degree[i] = Cardinality(Owed(i) \ mentions(i))
    BY <2>4, <2>5, <2>6, <2>7
  <2> QED  BY <2>1, <2>8, <2>9
<1>12. DegreeInv'
  BY <1>1, <1>5, <1>7, <1>11 DEF DegreeInv
<1>13. reg' \in RegSet
  <2>1. reg'.order \in Seq(Nat)
    BY <1>1, <1>2, <1>3, <1>5 DEF RegSet
  <2>2. DOMAIN reg'.degree = 1..Len(hs)
    BY <1>1, <1>2, <1>5 DEF DegreeInv
  <2>3. \A i \in 1..Len(hs) : reg'.degree[i] \in Nat
    <3> SUFFICES ASSUME NEW i \in 1..Len(hs) PROVE reg'.degree[i] \in Nat
      OBVIOUS
    <3>1. CASE i \in Placed \union {r}
      BY <1>1, <1>2, <1>5, <3>1 DEF DegreeInv, RegSet
    <3>2. CASE ~(i \in Placed \union {r})
      BY <1>2, <1>7, <1>11, <3>2
    <3> QED  BY <3>1, <3>2
  <2>4. reg'.degree \in Seq(Nat)
    <3>1. reg'.degree \in [1..Len(hs) -> Nat]
      BY <1>5, <2>2, <2>3
    <3>2. ASSUME NEW n \in Nat, NEW g \in [1..n -> Nat] PROVE g \in Seq(Nat)
      OBVIOUS
    <3> QED  BY <1>2, <3>1, <3>2
  <2> QED  BY <1>1, <1>4, <1>5, <2>1, <2>4 DEF RegSet
<1>14. IdsDistinct' /\ KeysValid' /\ LoadIsExact'
  BY <1>1, <1>5 DEF IdsDistinct, KeysValid, LoadIsExact
<1> QED  BY <1>5, <1>10, <1>12, <1>13, <1>14 DEF RegInv

(* The registry is rearranged in the order that the sort has found.         *)
LEMMA ReorderKeeps ==
  ASSUME RegInv, Reorder
  PROVE  RegInv'
<1> DEFINE s == Reordered(reg.headers, reg.order)
<1>1. reg \in RegSet /\ reg.pc = "sort" /\ OrderInv /\ IdsDistinct /\ KeysValid
  BY DEF RegInv, Reorder
<1>2. reg' = [reg EXCEPT !.pc = "loaded", !.degree = <<>>, !.headers = s, !.order = <<>>]
  BY DEF Reorder
<1>3. /\ DOMAIN s = 1..Len(reg.order) /\ Len(reg.order) \in Nat
      /\ \A k \in 1..Len(reg.order) : s[k] = reg.headers[reg.order[k]] /\ reg.order[k] \in DOMAIN reg.headers
  BY <1>1 DEF Reordered, RegSet, OrderInv
<1>4. s \in Seq({Header(f) : f \in Files})
  <2>1. \A k \in 1..Len(reg.order) : s[k] \in Headers
    BY <1>1, <1>3, HeadersAre
  <2>2. s \in [1..Len(reg.order) -> Headers]
    BY <1>3, <2>1 DEF Reordered
  <2>3. ASSUME NEW S, NEW n \in Nat, NEW g \in [1..n -> S] PROVE g \in Seq(S)
    OBVIOUS
  <2> HIDE DEF s
  <2>4. s \in Seq(Headers)
    BY <1>3, <2>2, <2>3
  <2> QED  BY <2>4 DEF Headers
<1>5. LegalOrder(s)
  BY <1>1, ReorderedIsLegal
<1> HIDE DEF s
<1>6. reg' \in RegSet /\ reg'.pc = "loaded" /\ reg'.headers = s
  <2>1. <<>> \in Seq(Nat)
    OBVIOUS
  <2> QED  BY <1>1, <1>2, <1>4, <2>1 DEF RegSet
<1>7. IdsDistinct' /\ KeysValid'
  <2>1. \A i, j \in 1..Len(reg.order) : s[i].id = s[j].id => i = j
    BY <1>1, <1>3 DEF IdsDistinct, OrderInv
  <2>2. \A i \in 1..Len(reg.order) : RequiredKeysOk(s[i].keys)
    BY <1>1, <1>3 DEF KeysValid
  <2> QED  BY <1>3, <1>6, <2>1, <2>2 DEF IdsDistinct, KeysValid
<1> QED  BY <1>5, <1>6, <1>7 DEF RegInv, LoadIsExact

(* Every step of the load keeps the invariant.                             *)
LEMMA RegNextKeeps ==
  ASSUME RegInv, NEW max, RegNext(max), UNCHANGED host
  PROVE  RegInv'
<1>1. reg \in RegSet
  BY DEF RegInv
<1>2. CASE LoadFails(max)
  <2>1. <<>> \in Seq(Nat) /\ <<>> \in Seq(Files) /\ <<>> \in Seq({Header(f) : f \in Files})
    OBVIOUS
  <2>2. reg' \in RegSet /\ reg'.pc = "unavailable" /\ reg'.headers = <<>>
    BY <1>1, <1>2, <2>1 DEF LoadFails, RegSet
  <2> QED  BY <2>2 DEF RegInv, IdsDistinct, KeysValid, LoadIsExact
<1>3. CASE ScanFilenames \/ Listed
  <2>1. /\ reg' \in RegSet /\ reg'.pc \in {"register", "check"}
        /\ reg'.headers = reg.headers /\ reg'.order = <<>>
    BY <1>1, <1>3 DEF RegInv, ScanFilenames, Listed, RegSet
  <2> QED  BY <2>1 DEF RegInv, IdsDistinct, KeysValid, LoadIsExact
<1>4. CASE FindCycle
  <2>1. /\ reg' = [reg EXCEPT !.pc = "refused"]
        /\ OrderInv /\ DegreeInv /\ Ready = {} /\ Len(reg.order) < Len(reg.headers)
    BY <1>4 DEF RegInv, FindCycle
  <2>2. reg' \in RegSet /\ reg'.pc = "refused" /\ reg'.headers = reg.headers
    BY <1>1, <2>1 DEF RegSet
  <2>3. ~Orderable(reg'.headers)
    BY <1>1, <2>1, <2>2, CycleIsNotOrderable
  <2> QED  BY <2>2, <2>3 DEF RegInv, IdsDistinct, KeysValid, LoadIsExact
<1> QED
  BY <1>2, <1>3, <1>4, RegisterKeeps, CheckKeeps, PlaceKeeps, ReorderKeeps DEF RegNext

(* The registry does not change after that.                                *)
LEMMA RegStays ==
  ASSUME RegInv, UNCHANGED reg, host'.pc = "main" => host.pc = "main"
  PROVE  RegInv'
<1>1. IdsDistinct' = IdsDistinct
  BY DEF IdsDistinct
<1>2. KeysValid' = KeysValid
  BY DEF KeysValid
<1>3. OrderInv' = OrderInv
  BY DEF OrderInv
<1>4. Placed' = Placed
  BY DEF Placed
<1>5. PlacedIds' = PlacedIds
  BY <1>4 DEF PlacedIds
<1>6. \A i : Owed(i)' = Owed(i)
  BY <1>5 DEF Owed
<1>7. DegreeInv' = DegreeInv
  BY <1>4, <1>6 DEF DegreeInv
<1>8. LoadIsExact'
  BY DEF RegInv, LoadIsExact
<1> QED  BY <1>1, <1>2, <1>3, <1>7, <1>8 DEF RegInv

----------------------------------------------------------------------------
(* The hash table.                                                         *)

(* Every entry is in the chain of its key, and no key has two.             *)
SoundTable(t) ==
  /\ t \in KbSet /\ Len(t) >= 1
  /\ \A b \in DOMAIN t : \A e \in t[b] : BucketOf(e.key, Len(t)) = b
  /\ \A b \in DOMAIN t : \A e, g \in t[b] : e.key = g.key => e = g

(* A key's bucket exists.                                                   *)
LEMMA BucketIs ==
  ASSUME NEW k \in Key, NEW n \in Nat, n >= 1
  PROVE  BucketOf(k, n) \in 1..n
<1>1. Hash[k] \in Nat
  BY KbTableAssumption
<1>2. ASSUME NEW h \in Nat PROVE h % n \in 0..(n - 1)
  OBVIOUS
<1> QED  BY <1>1, <1>2 DEF BucketOf

(* A table of the right type.                                              *)
LEMMA TableIs ==
  ASSUME NEW t \in KbSet
  PROVE  /\ Len(t) \in Nat /\ DOMAIN t = 1..Len(t)
         /\ \A b \in DOMAIN t : \A e \in t[b] : e \in [key : Key, value : KbValue]
BY DEF KbSet

(* A lookup finds what the table has, wherever it is.                      *)
LEMMA FindIs ==
  ASSUME NEW t, SoundTable(t), NEW k \in Key
  PROVE  Find(t, k) = {e \in Entries(t) : e.key = k}
<1>1. /\ Len(t) \in Nat /\ Len(t) >= 1 /\ DOMAIN t = 1..Len(t)
  BY TableIs DEF SoundTable
<1>2. BucketOf(k, Len(t)) \in DOMAIN t
  BY <1>1, BucketIs
<1>3. ASSUME NEW e \in Find(t, k) PROVE e \in Entries(t) /\ e.key = k
  BY <1>2, <1>3 DEF Find, Entries
<1>4. ASSUME NEW e \in Entries(t), e.key = k PROVE e \in Find(t, k)
  <2>1. PICK b \in DOMAIN t : e \in t[b]
    BY <1>4 DEF Entries
  <2>2. BucketOf(e.key, Len(t)) = b
    BY <2>1 DEF SoundTable
  <2> QED  BY <1>4, <2>1, <2>2 DEF Find
<1> QED  BY <1>3, <1>4

(* A new table is empty.                                                    *)
LEMMA CreateIs ==
  SoundTable(Create) /\ Entries(Create) = {}
<1>1. Create \in [1..InitialBuckets -> SUBSET [key : Key, value : KbValue]]
  BY DEF Create
<1>2. InitialBuckets \in Nat /\ InitialBuckets >= 1
  BY KbTableAssumption
<1>3. ASSUME NEW S, NEW n \in Nat, NEW g \in [1..n -> S] PROVE g \in Seq(S) /\ Len(g) = n
  OBVIOUS
<1>4. Create \in KbSet /\ Len(Create) = InitialBuckets
  BY <1>1, <1>2, <1>3 DEF KbSet
<1>5. DOMAIN Create = 1..InitialBuckets /\ \A b \in DOMAIN Create : Create[b] = {}
  BY DEF Create
<1> QED  BY <1>2, <1>4, <1>5 DEF SoundTable, Entries

(* Growth keeps every entry and puts each where a lookup will search.      *)
LEMMA RehashIs ==
  ASSUME NEW t, SoundTable(t), NEW n \in Nat, n >= 1
  PROVE  /\ SoundTable(Rehash(t, n)) /\ Len(Rehash(t, n)) = n
         /\ Entries(Rehash(t, n)) = Entries(t)
<1> DEFINE r == Rehash(t, n)
<1>1. /\ Len(t) \in Nat /\ DOMAIN t = 1..Len(t)
      /\ \A b \in DOMAIN t : \A e \in t[b] : e \in [key : Key, value : KbValue]
  BY TableIs DEF SoundTable
<1>2. \A e \in Entries(t) : e \in [key : Key, value : KbValue]
  BY <1>1 DEF Entries
<1>3. /\ DOMAIN r = 1..n
      /\ \A b \in 1..n : r[b] = {e \in Entries(t) : BucketOf(e.key, n) = b}
  BY DEF Rehash
<1>4. r \in [1..n -> SUBSET [key : Key, value : KbValue]]
  <2>1. \A b \in 1..n : r[b] \in SUBSET [key : Key, value : KbValue]
    BY <1>2, <1>3
  <2> QED  BY <1>3, <2>1 DEF Rehash
<1>5. ASSUME NEW S, NEW m \in Nat, NEW g \in [1..m -> S] PROVE g \in Seq(S) /\ Len(g) = m
  OBVIOUS
<1> HIDE DEF r
<1>6. r \in KbSet /\ Len(r) = n
  BY <1>4, <1>5 DEF KbSet
<1>7. ASSUME NEW e \in Entries(t), NEW g \in Entries(t), e.key = g.key PROVE e = g
  <2>1. PICK b \in DOMAIN t : e \in t[b]
    BY DEF Entries
  <2>2. PICK c \in DOMAIN t : g \in t[c]
    BY DEF Entries
  <2>3. b = c
    BY <1>7, <2>1, <2>2 DEF SoundTable
  <2> QED  BY <1>7, <2>1, <2>2, <2>3 DEF SoundTable
<1>8. SoundTable(r)
  <2>1. \A b \in DOMAIN r : \A e \in r[b] : BucketOf(e.key, Len(r)) = b
    BY <1>3, <1>6
  <2>2. \A b \in DOMAIN r : \A e, g \in r[b] : e.key = g.key => e = g
    BY <1>3, <1>7
  <2> QED  BY <1>6, <2>1, <2>2 DEF SoundTable
<1>9. Entries(r) = Entries(t)
  <2>1. \A e \in Entries(r) : e \in Entries(t)
    BY <1>3 DEF Entries
  <2>2. ASSUME NEW e \in Entries(t) PROVE e \in Entries(r)
    <3>1. BucketOf(e.key, n) \in 1..n
      BY <1>2, BucketIs
    <3>2. e \in r[BucketOf(e.key, n)]
      BY <1>3, <3>1
    <3> QED  BY <1>3, <3>1, <3>2 DEF Entries
  <2> QED  BY <2>1, <2>2
<1> QED  BY <1>6, <1>8, <1>9 DEF r

(* A write into the chain of its key.                                      *)
Put(t, k, v) ==
  [t EXCEPT ![BucketOf(k, Len(t))] = (t[BucketOf(k, Len(t))] \ Find(t, k)) \union {Entry(k, v)}]

(* Putting an entry in its bucket replaces the one of its key and no other. *)
LEMMA PutIs ==
  ASSUME NEW t, SoundTable(t), NEW k \in Key, NEW v \in KbValue
  PROVE  /\ SoundTable(Put(t, k, v))
         /\ Entries(Put(t, k, v)) = {e \in Entries(t) : e.key # k} \union {Entry(k, v)}
<1> DEFINE b == BucketOf(k, Len(t))
           c == (t[b] \ Find(t, k)) \union {Entry(k, v)}
           u == [t EXCEPT ![b] = c]
<1>0. Put(t, k, v) = u
  BY DEF Put
<1>1. /\ t \in KbSet /\ Len(t) \in Nat /\ Len(t) >= 1 /\ DOMAIN t = 1..Len(t)
      /\ \A a \in DOMAIN t : \A e \in t[a] : e \in [key : Key, value : KbValue]
  BY TableIs DEF SoundTable
<1>2. b \in DOMAIN t
  BY <1>1, BucketIs
<1>3. Entry(k, v) \in [key : Key, value : KbValue] /\ Entry(k, v).key = k
  BY DEF Entry
<1>4. Find(t, k) = {e \in t[b] : e.key = k}
  BY DEF Find
<1>5. c \in SUBSET [key : Key, value : KbValue]
  BY <1>1, <1>2, <1>3
<1>6. \A e \in c : e = Entry(k, v) \/ (e \in t[b] /\ e.key # k)
  BY <1>4
<1> HIDE DEF c, b
<1>7. DOMAIN u = DOMAIN t /\ u[b] = c /\ \A a \in DOMAIN t : a # b => u[a] = t[a]
  BY <1>1, <1>2
<1>8. u \in KbSet /\ Len(u) = Len(t)
  <2>1. ASSUME NEW S, NEW s \in Seq(S), NEW i \in 1..Len(s), NEW x \in S
        PROVE  [s EXCEPT ![i] = x] \in Seq(S) /\ Len([s EXCEPT ![i] = x]) = Len(s)
    OBVIOUS
  <2> QED  BY <1>1, <1>2, <1>5, <2>1 DEF KbSet
<1> HIDE DEF u
<1>9. \A a \in DOMAIN u : \A e \in u[a] : BucketOf(e.key, Len(u)) = a
  <2> SUFFICES ASSUME NEW a \in DOMAIN u, NEW e \in u[a] PROVE BucketOf(e.key, Len(t)) = a
    BY <1>8
  <2>1. CASE a # b
    BY <1>7, <2>1 DEF SoundTable
  <2>2. CASE a = b /\ e = Entry(k, v)
    BY <1>3, <2>2 DEF b
  <2>3. CASE a = b /\ e \in t[b]
    BY <1>2, <2>3 DEF SoundTable
  <2> QED  BY <1>6, <1>7, <2>1, <2>2, <2>3
<1>10. \A a \in DOMAIN u : \A e, g \in u[a] : e.key = g.key => e = g
  <2> SUFFICES ASSUME NEW a \in DOMAIN u, NEW e \in u[a], NEW g \in u[a], e.key = g.key PROVE e = g
    OBVIOUS
  <2>1. CASE a # b
    BY <1>7, <2>1 DEF SoundTable
  <2>2. CASE a = b
    <3>1. e \in c /\ g \in c
      BY <1>7, <2>2
    <3>2. CASE e \in t[b] /\ g \in t[b]
      BY <1>2, <3>2 DEF SoundTable
    <3> QED  BY <1>3, <1>6, <3>1, <3>2
  <2> QED  BY <2>1, <2>2
<1>11. SoundTable(u)
  BY <1>1, <1>8, <1>9, <1>10 DEF SoundTable
<1>12. Entries(u) = {e \in Entries(t) : e.key # k} \union {Entry(k, v)}
  <2>1. ASSUME NEW e \in Entries(u) PROVE e = Entry(k, v) \/ (e \in Entries(t) /\ e.key # k)
    <3>1. PICK a \in DOMAIN u : e \in u[a]
      BY DEF Entries
    <3>2. CASE a = b
      BY <1>2, <1>6, <1>7, <3>1, <3>2 DEF Entries
    <3>3. CASE a # b
      <4>1. e \in t[a] /\ BucketOf(e.key, Len(t)) = a
        BY <1>7, <3>1, <3>3 DEF SoundTable
      <4> QED  BY <1>7, <3>1, <3>3, <4>1 DEF Entries, b
    <3> QED  BY <3>2, <3>3
  <2>2. Entry(k, v) \in Entries(u)
    <3>1. Entry(k, v) \in c
      BY DEF c
    <3> QED  BY <1>2, <1>7, <3>1 DEF Entries
  <2>3. ASSUME NEW e \in Entries(t), e.key # k PROVE e \in Entries(u)
    <3>1. PICK a \in DOMAIN t : e \in t[a]
      BY DEF Entries
    <3>2. e \in u[a]
      BY <1>4, <1>7, <2>3, <3>1 DEF c
    <3> QED  BY <1>7, <3>1, <3>2 DEF Entries
  <2> QED  BY <2>1, <2>2, <2>3
<1> QED  BY <1>0, <1>11, <1>12

(* What a set leaves: the table is sound, its key has the new value, and   *)
(* every other entry is there.                                             *)
LEMMA SetIs ==
  ASSUME NEW t, SoundTable(t), NEW k \in Key, NEW v \in KbValue, NEW m \in BOOLEAN
  PROVE  /\ SoundTable(Set(t, k, v, m))
         /\ Entries(Set(t, k, v, m)) = {e \in Entries(t) : e.key # k} \union {Entry(k, v)}
<1>1. CASE Present(t, k)
  <2>1. Set(t, k, v, m) = Put(t, k, v)
    BY <1>1 DEF Set, Put
  <2> QED  BY <2>1, PutIs
<1>2. CASE ~Present(t, k)
  <2> DEFINE g == GrowIfNeeded(t, m)
  <2>1. SoundTable(g) /\ Entries(g) = Entries(t)
    <3>1. CASE NeedsGrowth(t) /\ m
      <4>1. 2 * Len(t) \in Nat /\ 2 * Len(t) >= 1
        BY TableIs DEF SoundTable
      <4> QED  BY <3>1, <4>1, RehashIs DEF GrowIfNeeded
    <3>2. CASE ~(NeedsGrowth(t) /\ m)
      BY <3>2 DEF GrowIfNeeded
    <3> QED  BY <3>1, <3>2
  <2> HIDE DEF g
  <2>2. Find(g, k) = {}
    BY <1>2, <2>1, FindIs DEF Present
  <2>3. g[BucketOf(k, Len(g))] \ Find(g, k) = g[BucketOf(k, Len(g))]
    BY <2>2
  <2>4. Set(t, k, v, m) = Put(g, k, v)
    BY <1>2, <2>3 DEF Set, InsertNew, Put, g
  <2>5. /\ SoundTable(Set(t, k, v, m))
        /\ Entries(Set(t, k, v, m)) = {e \in Entries(g) : e.key # k} \union {Entry(k, v)}
    BY <2>1, <2>4, PutIs
  <2> QED  BY <2>1, <2>5
<1> QED  BY <1>1, <1>2

(* What a user sees of a set.                                              *)
LEMMA GetAfterSet ==
  ASSUME NEW t, SoundTable(t), NEW k \in Key, NEW v \in KbValue, NEW m \in BOOLEAN, NEW j \in Key
  PROVE  /\ Get(Set(t, k, v, m), j) = IF j = k THEN v ELSE Get(t, j)
         /\ Present(Set(t, k, v, m), j) <=> j = k \/ Present(t, j)
<1> DEFINE u == Set(t, k, v, m)
<1>1. SoundTable(u) /\ Entries(u) = {e \in Entries(t) : e.key # k} \union {Entry(k, v)}
  BY SetIs
<1> HIDE DEF u
<1>2. Find(u, j) = {e \in Entries(u) : e.key = j} /\ Find(t, j) = {e \in Entries(t) : e.key = j}
  BY <1>1, FindIs
<1>3. Entry(k, v).key = k /\ Entry(k, v).value = v
  BY DEF Entry
<1>4. CASE j = k
  <2>1. Find(u, j) = {Entry(k, v)}
    BY <1>1, <1>2, <1>3, <1>4
  <2>2. (CHOOSE e \in Find(u, j) : TRUE) = Entry(k, v)
    BY <2>1
  <2> QED  BY <1>3, <1>4, <2>1, <2>2 DEF Get, Present, u
<1>5. CASE j # k
  <2>1. Find(u, j) = Find(t, j)
    BY <1>1, <1>2, <1>3, <1>5
  <2> QED  BY <1>5, <2>1 DEF Get, Present, u
<1> QED  BY <1>4, <1>5
----------------------------------------------------------------------------
(* The run of the scheduler.                                               *)

(* The plugins have started, or have all had their turn.                   *)
Running == host.pc \in {"plugins", "ports", "run"} \/ (host.pc = "done" /\ host.up)

(* Nothing is left to write when the plugins start, nothing is done by     *)
(* plugins before, and the turn of a plugin is over when the scan is.      *)
PhaseInv ==
  /\ Running => todo = <<>>
  /\ ~Running => disp.turn = 1 /\ hist.wrote = {}
  /\ host.pc \in {"main", "aborted", "create"} => kb = Create /\ todo = <<>>
  /\ host.pc \in {"ports", "run"} => disp.turn <= Len(Plugins)
  /\ host.pc = "done" /\ host.up => disp.turn > Len(Plugins)
  /\ host.pc \in {"scan", "detect", "plugins", "ports", "run"} => host.up

(* The turns that have begun.                                              *)
Begun(t) ==
  t \in DOMAIN Plugins /\ (t < disp.turn \/ (t = disp.turn /\ host.pc \in {"ports", "run"}))

(* Only plugins whose turn has begun have written, and what they wrote is  *)
(* still there.                                                            *)
WroteInv ==
  \A w \in hist.wrote :
    w[2] \in KeysOf(kb) /\ \E u \in DOMAIN Plugins : Begun(u) /\ w[1] = Plugins[u].id

(* A key that was not there when the turn of plugin t collected its ports. *)
WrittenSince(t, k) ==
  /\ \E w \in hist.wrote : w[2] = k
  /\ \A w \in hist.wrote :
       w[2] = k => \E u \in DOMAIN Plugins : u >= t /\ w[1] = Plugins[u].id

(* A port that the current turn has still to do or is doing.               *)
InHand(t, k) ==
  /\ t = disp.turn
  /\ \/ host.pc \in {"ports", "run"} /\ k \in disp.ports
     \/ host.pc = "run" /\ disp.bound = k[3]

(* Every port of its service that a plugin was not offered is in hand or   *)
(* was written too late for it.                                            *)
OfferInv ==
  oom = 0 =>
    \A t \in DOMAIN Plugins : \A svc \in WildcardServices(Plugins[t]) : \A k \in KeysOf(kb) :
      Begun(t) /\ IsServiceKey(k, svc) =>
        \/ <<Plugins[t].id, k[3]>> \in hist.offered
        \/ InHand(t, k)
        \/ WrittenSince(t, k)

IInv ==
  /\ TypeOK
  /\ RegInv
  /\ SoundTable(kb) /\ IsFiniteSet(KeysOf(kb))
  /\ PhaseInv /\ WroteInv /\ OfferInv

(* The registry that a scan uses.                                          *)
LEMMA PluginsAre ==
  ASSUME RegInv
  PROVE  /\ Len(Plugins) \in Nat /\ DOMAIN Plugins = 1..Len(Plugins)
         /\ \A t \in DOMAIN Plugins : Plugins[t] \in Headers /\ Plugins[t].id \in Ids
         /\ \A i, j \in DOMAIN Plugins : Plugins[i].id = Plugins[j].id => i = j
         /\ \A t \in DOMAIN Plugins : RequiredKeysOk(Plugins[t].keys)
         /\ LegalOrder(Plugins)
<1>1. \A h \in Headers : h.id \in Ids
  BY DEF Headers, Header, Ids
<1>2. CASE LoadsPlugins /\ reg.pc = "loaded"
  <2>1. Plugins = reg.headers /\ reg.headers \in Seq(Headers)
    BY <1>2 DEF Plugins, RegInv, RegSet, Headers
  <2>2. LegalOrder(reg.headers)
    BY <1>2 DEF RegInv, LoadIsExact
  <2>3. ASSUME NEW S, NEW s \in Seq(S)
        PROVE  Len(s) \in Nat /\ DOMAIN s = 1..Len(s) /\ \A i \in DOMAIN s : s[i] \in S
    OBVIOUS
  <2> QED  BY <1>1, <2>1, <2>2, <2>3 DEF RegInv, IdsDistinct, KeysValid
<1>3. CASE ~(LoadsPlugins /\ reg.pc = "loaded")
  <2>1. Plugins = <<>>
    BY <1>3 DEF Plugins
  <2>2. Len(<<>>) = 0 /\ DOMAIN <<>> = 1..0 /\ \A i \in 1..0 : FALSE
    OBVIOUS
  <2> QED  BY <2>1, <2>2 DEF LegalOrder
<1> QED  BY <1>2, <1>3

(* A step that leaves the registry and the options leaves the plugins.     *)
LEMMA PluginsStay ==
  ASSUME UNCHANGED <<reg, opts>>
  PROVE  Plugins' = Plugins
BY DEF Plugins, LoadsPlugins

(* The initial states.                                                     *)
LEMMA InitInv == Init => IInv
<1> SUFFICES ASSUME Init PROVE IInv
  OBVIOUS
<1>1. PICK s \in Scenarios :
        /\ opts = s.opts /\ RegInit(s.dir)
        /\ host = [pc |-> "main", up |-> FALSE, ports |-> s.ports, states |-> <<>>, next |-> 1]
  BY DEF Init
<1>2. RegInv
  BY RegInitInv
<1>3. SoundTable(kb) /\ KeysOf(kb) = {}
  BY CreateIs DEF Init, KeysOf
<1>4. opts \in OptSet /\ oom \in 0..opts.failures
  <2>1. opts \in OptSet
    BY <1>1, ScenarioAssumption DEF IsScenario
  <2> QED  BY <2>1 DEF Init, OptSet
<1>5. host \in HostSet
  <2>1. <<>> \in Seq(PortState) /\ s.ports \in {x.ports : x \in Scenarios}
    OBVIOUS
  <2> QED  BY <1>1, <2>1 DEF HostSet
<1>6. disp \in DispSet
  <2>1. 0 \in 0..MaxOps
    BY ScenarioAssumption
  <2> QED  BY <2>1 DEF Init, DispSet
<1>7. TypeOK
  BY <1>2, <1>3, <1>4, <1>5, <1>6 DEF Init, TypeOK, RegInv, SoundTable, HistSet
<1>8. PhaseInv /\ WroteInv /\ OfferInv
  <2>1. host.pc = "main" /\ disp.turn = 1 /\ hist.wrote = {} /\ kb = Create /\ todo = <<>>
    BY <1>1 DEF Init
  <2> QED  BY <1>3, <2>1 DEF PhaseInv, Running, WroteInv, OfferInv
<1>9. IsFiniteSet(KeysOf(kb))
  BY <1>3, FS_EmptySet
<1> QED  BY <1>2, <1>3, <1>7, <1>8, <1>9 DEF IInv

(* The keys of a table are what a lookup finds, and a set adds its own.    *)
LEMMA KeysAre ==
  ASSUME NEW t, SoundTable(t)
  PROVE  /\ KeysOf(t) \subseteq Key
         /\ \A k \in Key : Present(t, k) <=> k \in KeysOf(t)
<1>1. KeysOf(t) \subseteq Key
  BY TableIs DEF SoundTable, KeysOf, Entries
<1>2. ASSUME NEW k \in Key PROVE Present(t, k) <=> k \in KeysOf(t)
  <2>1. Find(t, k) = {e \in Entries(t) : e.key = k}
    BY FindIs
  <2> QED  BY <2>1 DEF Present, KeysOf
<1> QED  BY <1>1, <1>2

(* A write adds its key, and the keys stay finite.                          *)
LEMMA KeysAfterSet ==
  ASSUME NEW t, SoundTable(t), NEW k \in Key, NEW v \in KbValue, NEW m \in BOOLEAN,
         IsFiniteSet(KeysOf(t))
  PROVE  /\ SoundTable(Set(t, k, v, m))
         /\ KeysOf(Set(t, k, v, m)) = KeysOf(t) \union {k}
         /\ IsFiniteSet(KeysOf(Set(t, k, v, m)))
<1> DEFINE u == Set(t, k, v, m)
<1>1. SoundTable(u) /\ Entries(u) = {e \in Entries(t) : e.key # k} \union {Entry(k, v)}
  BY SetIs
<1>2. Entry(k, v).key = k
  BY DEF Entry
<1> HIDE DEF u
<1>3. KeysOf(u) = KeysOf(t) \union {k}
  BY <1>1, <1>2 DEF KeysOf
<1>4. IsFiniteSet(KeysOf(t) \union {k})
  BY FS_AddElement
<1> QED  BY <1>1, <1>3, <1>4 DEF u

----------------------------------------------------------------------------
(* The steps before the plugins run.                                       *)

(* A step before the plugins start leaves the scheduler where it was.      *)
LEMMA QuietKeeps ==
  ASSUME PhaseInv, ~Running, UNCHANGED <<disp, hist>>,
         host'.pc \notin {"ports", "run"}, ~(host'.pc = "done" /\ host'.up),
         host'.pc = "plugins" => todo' = <<>>, host'.pc \in {"scan", "detect", "plugins"} => host'.up,
         host'.pc \in {"main", "aborted", "create"} => kb' = Create /\ todo' = <<>>,
         \A t \in DOMAIN Plugins' : t \in Nat /\ t >= 1
  PROVE  PhaseInv' /\ WroteInv' /\ OfferInv'
<1>1. disp'.turn = 1 /\ hist'.wrote = {}
  BY DEF PhaseInv
<1>2. PhaseInv'
  BY <1>1 DEF PhaseInv, Running
<1>3. \A t : ~Begun(t)'
  <2> SUFFICES ASSUME NEW t, t \in DOMAIN Plugins', t < 1 PROVE FALSE
    BY <1>1 DEF Begun
  <2> QED  OBVIOUS
<1> QED  BY <1>1, <1>2, <1>3 DEF WroteInv, OfferInv

(* What a step may have left to write.                                     *)
LEMMA OneWrite ==
  ASSUME NEW k \in Key, NEW v \in KbValue
  PROVE  Write(k, v) \in Seq(KbWrites)
<1>1. <<k, v>> \in KbWrites
  BY DEF KbWrites
<1>2. ASSUME NEW S, NEW x \in S PROVE <<x>> \in Seq(S)
  OBVIOUS
<1> QED  BY <1>1, <1>2 DEF Write

(* The keys and values that the scanner writes by itself.                   *)
LEMMA KnownKeys ==
  /\ <<"Host/ip">> \in Key /\ <<"Host/hostname">> \in Key /\ <<"Scan/start_time">> \in Key
  /\ <<"Host/state">> \in Key
  /\ "text" \in KbValue /\ "up" \in KbValue /\ "down" \in KbValue
  /\ PortState \subseteq KbValue /\ Writable \subseteq Key
BY KeyAssumption

(* The steps of main.                                                      *)
LEMMA MainKeeps ==
  ASSUME IInv, Load \/ AbortMain \/ StartScan
  PROVE  IInv'
<1>1. /\ host.pc = "main" /\ ~Running /\ RegInv
      /\ UNCHANGED <<opts, kb, todo, disp, findings, hist>>
  BY DEF IInv, Load, AbortMain, StartScan, Running
<1>2. host \in HostSet /\ reg \in RegSet
  BY DEF IInv, TypeOK
<1>3. \A r \in RegSet : \A t \in DOMAIN r.headers : t \in Nat /\ t >= 1
  <2>1. ASSUME NEW S, NEW s \in Seq(S) PROVE \A t \in DOMAIN s : t \in Nat /\ t >= 1
    OBVIOUS
  <2>2. \A r \in RegSet : r.headers \in Seq(Headers)
    BY DEF RegSet, Headers
  <2> QED  BY <2>1, <2>2
<1>4. /\ RegInv' /\ host' \in HostSet /\ oom' \in 0..opts.failures
      /\ host'.pc \in {"main", "aborted", "create"}
  <2>1. CASE Load
    <3>1. UNCHANGED host /\ RegNext(opts.failures)
      BY <2>1 DEF Load
    <3>2. RegInv'
      BY <1>1, <3>1, RegNextKeeps
    <3>3. oom \in 0..opts.failures /\ opts.failures \in Nat
      BY DEF IInv, TypeOK, OptSet
    <3>4. oom' \in 0..opts.failures
      BY <3>1, <3>3 DEF RegNext, LoadFails, ScanFilenames, RegisterFile, Listed,
           CheckDependencies, PlaceNext, FindCycle, Reorder
    <3> QED  BY <1>1, <1>2, <3>1, <3>2, <3>4
  <2>2. CASE AbortMain
    <3>1. host' = [host EXCEPT !.pc = "aborted"] /\ UNCHANGED <<reg, oom>>
      BY <2>2 DEF AbortMain
    <3>2. host' \in HostSet /\ host'.pc = "aborted"
      BY <1>2, <3>1 DEF HostSet
    <3>3. RegInv'
      BY <1>1, <3>1, <3>2, RegStays
    <3> QED  BY <1>1, <3>1, <3>2, <3>3 DEF IInv, TypeOK
  <2>3. CASE StartScan
    <3>1. /\ reg' = [reg EXCEPT !.dir = <<>>, !.headers = Plugins, !.degree = <<>>, !.order = <<>>,
                                !.pc = IF LoadsPlugins THEN @ ELSE "unavailable"]
          /\ host' = [host EXCEPT !.pc = "create"] /\ UNCHANGED oom /\ LoadSettled
      BY <2>3 DEF StartScan
    <3>2. host' \in HostSet /\ host'.pc = "create"
      BY <1>2, <3>1 DEF HostSet
    <3>3. Plugins \in Seq(Headers)
      BY <1>2 DEF Plugins, RegSet, Headers
    <3>4. reg' \in RegSet
      <4>1. <<>> \in Seq(Nat) /\ <<>> \in Seq(Files)
        OBVIOUS
      <4> QED  BY <1>2, <3>1, <3>3, <4>1 DEF RegSet, Headers
    <3>5. /\ reg'.headers = Plugins
          /\ reg'.pc \in {"loaded", "refused", "unavailable"}
      BY <1>2, <3>1 DEF RegSet, LoadSettled
    <3>6. RegInv'
      BY <1>1, <3>2, <3>4, <3>5, PluginsAre DEF RegInv, IdsDistinct, KeysValid, LoadIsExact
    <3> QED  BY <1>1, <3>1, <3>2, <3>6 DEF IInv, TypeOK
  <2> QED  BY <2>1, <2>2, <2>3
<1>5. \A t \in DOMAIN Plugins' : t \in Nat /\ t >= 1
  <2>1. reg' \in RegSet
    BY <1>4 DEF RegInv
  <2>2. CASE Plugins' = reg'.headers
    BY <1>3, <2>1, <2>2
  <2>3. CASE Plugins' = <<>>
    BY <2>3
  <2> QED  BY <2>2, <2>3 DEF Plugins
<1>6. PhaseInv' /\ WroteInv' /\ OfferInv'
  <2>1. PhaseInv /\ kb = Create /\ todo = <<>>
    BY <1>1 DEF IInv, PhaseInv
  <2> QED  BY <1>1, <1>4, <1>5, <2>1, QuietKeeps
<1>7. TypeOK'
  BY <1>1, <1>4 DEF IInv, TypeOK, RegInv
<1>8. SoundTable(kb)' /\ IsFiniteSet(KeysOf(kb))'
  BY <1>1 DEF IInv
<1> QED  BY <1>4, <1>6, <1>7, <1>8 DEF IInv

(* The steps of cytadel_host_scan.                                         *)
LEMMA QuietStep ==
  ASSUME IInv, ~Running, UNCHANGED <<reg, opts, disp, findings, hist>>,
         host' \in HostSet, host'.pc \notin {"main", "aborted", "create", "ports", "run"},
         ~(host'.pc = "done" /\ host'.up), host'.pc = "plugins" => todo' = <<>>,
         host'.pc \in {"scan", "detect", "plugins"} => host'.up,
         todo' \in Seq(KbWrites), oom' \in 0..opts.failures,
         SoundTable(kb'), IsFiniteSet(KeysOf(kb'))
  PROVE  IInv'
<1>1. RegInv'
  BY RegStays DEF IInv
<1>2. \A t \in DOMAIN Plugins' : t \in Nat /\ t >= 1
  BY PluginsStay, PluginsAre DEF IInv
<1>3. PhaseInv' /\ WroteInv' /\ OfferInv'
  BY <1>2, QuietKeeps DEF IInv
<1>4. TypeOK'
  BY <1>1 DEF IInv, TypeOK, RegInv, SoundTable
<1> QED  BY <1>1, <1>3, <1>4 DEF IInv

(* What the end of discovery does to the host.                              *)
LEMMA HostStateIs ==
  ASSUME host \in HostSet, NEW up \in BOOLEAN, HostState(up)
  PROVE  /\ host' \in HostSet /\ host'.pc = (IF up THEN "scan" ELSE "done") /\ host'.up = up
         /\ todo' \in Seq(KbWrites)
<1>1. host' = [host EXCEPT !.pc = IF up THEN "scan" ELSE "done", !.up = up, !.next = 1]
  BY DEF HostState
<1>2. host' \in HostSet /\ host'.pc = (IF up THEN "scan" ELSE "done") /\ host'.up = up
  <2>1. 1 \in Nat \ {0}
    OBVIOUS
  <2>2. CASE up
    BY <1>1, <2>1, <2>2 DEF HostSet
  <2>3. CASE ~up
    BY <1>1, <2>1, <2>3 DEF HostSet
  <2> QED  BY <2>2, <2>3
<1>3. (IF up THEN "up" ELSE "down") \in KbValue
  BY KnownKeys
<1>4. todo' \in Seq(KbWrites)
  BY <1>3, KnownKeys, OneWrite DEF HostState
<1> QED  BY <1>2, <1>4

(* The steps of discovery.                                                  *)
LEMMA DiscoverKeeps ==
  ASSUME IInv,
         CreateKb \/ HostScanFails \/ SkipDiscovery \/ IcmpEchoProbe \/ FallBackToTcpPing \/ TcpPing
  PROVE  IInv'
<1>1. /\ ~Running /\ UNCHANGED <<reg, opts, disp, findings, hist>>
  BY DEF Running, CreateKb, HostScanFails, SkipDiscovery, IcmpEchoProbe, FallBackToTcpPing, TcpPing
<1>2. /\ host \in HostSet /\ todo \in Seq(KbWrites) /\ oom \in 0..opts.failures
      /\ opts.failures \in Nat /\ SoundTable(kb) /\ IsFiniteSet(KeysOf(kb))
  BY DEF IInv, TypeOK, OptSet
<1>3. CASE CreateKb
  <2>1. host' \in HostSet /\ host'.pc = "discover"
    BY <1>2, <1>3 DEF CreateKb, HostSet
  <2>2. SoundTable(kb') /\ IsFiniteSet(KeysOf(kb'))
    <3>1. SoundTable(kb') /\ KeysOf(kb') = {}
      BY <1>3, CreateIs DEF CreateKb, KeysOf
    <3> QED  BY <3>1, FS_EmptySet
  <2>3. todo' \in Seq(KbWrites)
    <3>1. /\ Write(<<"Host/ip">>, "text") \in Seq(KbWrites)
          /\ Write(<<"Host/hostname">>, "text") \in Seq(KbWrites)
          /\ Write(<<"Scan/start_time">>, "text") \in Seq(KbWrites)
      BY KnownKeys, OneWrite
    <3>2. ASSUME NEW S, NEW a \in Seq(S), NEW b \in Seq(S), NEW c \in Seq(S), NEW x \in BOOLEAN
          PROVE  a \o (IF x THEN b ELSE <<>>) \o c \in Seq(S)
      OBVIOUS
    <3>3. opts.named \in BOOLEAN
      BY DEF IInv, TypeOK, OptSet
    <3> QED  BY <1>3, <3>1, <3>2, <3>3 DEF CreateKb
  <2>4. oom' = oom
    BY <1>3 DEF CreateKb
  <2> QED  BY <1>1, <1>2, <2>1, <2>2, <2>3, <2>4, QuietStep
<1>4. CASE HostScanFails
  <2>1. /\ host' = [host EXCEPT !.pc = "failed"] /\ UNCHANGED <<kb, todo>>
        /\ oom < opts.failures /\ oom' = oom + 1
    BY <1>4 DEF HostScanFails
  <2>2. host' \in HostSet /\ host'.pc = "failed"
    BY <1>2, <2>1 DEF HostSet
  <2>3. oom' \in 0..opts.failures
    BY <1>2, <2>1
  <2> QED  BY <1>1, <1>2, <2>1, <2>2, <2>3, QuietStep
<1>5. CASE SkipDiscovery \/ IcmpEchoProbe
  <2>1. UNCHANGED <<oom, kb>> /\ \E up \in BOOLEAN : HostState(up)
    BY <1>5 DEF SkipDiscovery, IcmpEchoProbe
  <2>2. PICK up \in BOOLEAN : HostState(up)
    BY <2>1
  <2> QED  BY <1>1, <1>2, <2>1, <2>2, HostStateIs, QuietStep
<1>6. CASE FallBackToTcpPing
  <2>1. host' \in HostSet /\ host'.pc = "ping" /\ UNCHANGED <<oom, kb, todo>>
    BY <1>2, <1>6 DEF FallBackToTcpPing, HostSet
  <2> QED  BY <1>1, <1>2, <2>1, QuietStep
<1>7. CASE TcpPing
  <2>1. UNCHANGED <<oom, kb>> /\ host.pc = "ping"
    BY <1>7 DEF TcpPing
  <2>2. CASE \E up \in BOOLEAN : HostState(up)
    <3>1. PICK up \in BOOLEAN : HostState(up)
      BY <2>2
    <3> QED  BY <1>1, <1>2, <2>1, <3>1, HostStateIs, QuietStep
  <2>3. CASE host' = [host EXCEPT !.next = @ + 1] /\ UNCHANGED todo
    <3>1. host' \in HostSet /\ host'.pc = "ping"
      BY <1>2, <2>1, <2>3 DEF HostSet
    <3> QED  BY <1>1, <1>2, <2>1, <2>3, <3>1, QuietStep
  <2> QED  BY <1>7, <2>2, <2>3 DEF TcpPing
<1> QED  BY <1>3, <1>4, <1>5, <1>6, <1>7

(* The ports of the scan.                                                  *)
LEMMA PortsAre ==
  ASSUME host \in HostSet
  PROVE  /\ Len(host.ports) \in Nat /\ DOMAIN host.ports = 1..Len(host.ports)
         /\ \A i \in DOMAIN host.ports :
              /\ <<"Ports", host.ports[i]>> \in Key
              /\ \A a \in Answers : DetectPort(host.ports[i], a) \in Seq(KbWrites)
<1>1. PICK s \in Scenarios : host.ports = s.ports
  BY DEF HostSet
<1>2. s.ports \in Seq(PortNumber)
  BY ScenarioAssumption DEF IsScenario
<1>3. ASSUME NEW S, NEW q \in Seq(S) PROVE Len(q) \in Nat /\ DOMAIN q = 1..Len(q)
  OBVIOUS
<1>4. Len(s.ports) \in Nat /\ DOMAIN s.ports = 1..Len(s.ports)
  BY <1>2, <1>3
<1> QED  BY <1>1, <1>4, KeyAssumption

(* The steps of the port scan and of service detection.                     *)
LEMMA PortScanKeeps ==
  ASSUME IInv, ProbePort \/ PortsScanned \/ DetectService \/ PortsDetected
  PROVE  IInv'
<1>1. /\ ~Running /\ UNCHANGED <<reg, oom, opts, kb, disp, findings, hist>> /\ todo = <<>>
      /\ host.pc \in {"scan", "detect"} /\ host.up
  BY DEF Running, ProbePort, PortsScanned, DetectService, PortsDetected, IInv, PhaseInv
<1>2. /\ host \in HostSet /\ todo \in Seq(KbWrites) /\ oom \in 0..opts.failures
      /\ SoundTable(kb) /\ IsFiniteSet(KeysOf(kb))
  BY DEF IInv, TypeOK
<1>3. CASE ProbePort
  <2>1. PICK x \in PortState : host' = [host EXCEPT !.states = Append(@, x)]
    BY <1>3 DEF ProbePort
  <2>2. host.states \in Seq(PortState)
    BY <1>2 DEF HostSet
  <2>3. Append(host.states, x) \in Seq(PortState)
    BY <2>2
  <2>4. host' \in HostSet /\ host'.pc = host.pc /\ host'.up = host.up
    BY <1>2, <2>1, <2>3 DEF HostSet
  <2>5. UNCHANGED todo
    BY <1>3 DEF ProbePort
  <2> QED  BY <1>1, <1>2, <2>4, <2>5, QuietStep
<1>4. CASE PortsScanned
  <2>1. /\ host' = [host EXCEPT !.pc = "detect", !.next = 1]
        /\ Len(host.states) = Len(host.ports)
        /\ todo' = [i \in DOMAIN host.ports |-> <<<<"Ports", host.ports[i]>>, host.states[i]>>]
    BY <1>4 DEF PortsScanned
  <2>2. host' \in HostSet /\ host'.up = host.up /\ host'.pc = "detect"
    <3>1. 1 \in Nat \ {0}
      OBVIOUS
    <3> QED  BY <1>2, <2>1, <3>1 DEF HostSet
  <2>3. \A i \in 1..Len(host.ports) : host.states[i] \in PortState
    <3>1. host.states \in Seq(PortState)
      BY <1>2 DEF HostSet
    <3>2. ASSUME NEW S, NEW q \in Seq(S) PROVE \A i \in 1..Len(q) : q[i] \in S
      OBVIOUS
    <3> QED  BY <2>1, <3>1, <3>2
  <2>4. \A i \in 1..Len(host.ports) : <<<<"Ports", host.ports[i]>>, host.states[i]>> \in KbWrites
    BY <1>2, <2>3, PortsAre, KnownKeys DEF KbWrites
  <2>5. todo' \in [1..Len(host.ports) -> KbWrites]
    BY <1>2, <2>1, <2>4, PortsAre
  <2>6. ASSUME NEW S, NEW n \in Nat, NEW g \in [1..n -> S] PROVE g \in Seq(S)
    OBVIOUS
  <2>7. todo' \in Seq(KbWrites)
    BY <1>2, <2>5, <2>6, PortsAre
  <2> QED  BY <1>1, <1>2, <2>2, <2>7, QuietStep
<1>5. CASE DetectService
  <2>1. /\ host' = [host EXCEPT !.next = @ + 1] /\ host.pc = "detect"
        /\ host.next <= Len(host.ports)
    BY <1>5 DEF DetectService
  <2>2. host' \in HostSet /\ host'.up = host.up /\ host'.pc = "detect" /\ host.next \in DOMAIN host.ports
    <3>1. host \in HostSet /\ host.next \in Nat \ {0} /\ host.next + 1 \in Nat \ {0}
      BY <1>2 DEF HostSet
    <3>2. host' \in HostSet /\ host'.up = host.up /\ host'.pc = "detect"
      BY <2>1, <3>1 DEF HostSet
    <3> QED  BY <2>1, <3>1, <3>2, PortsAre
  <2>3. todo' \in Seq(KbWrites)
    BY <1>2, <1>5, <2>2, PortsAre DEF DetectService
  <2> QED  BY <1>1, <1>2, <2>2, <2>3, QuietStep
<1>6. CASE PortsDetected
  <2>1. host' \in HostSet /\ host'.up = host.up /\ host'.pc = "plugins" /\ todo' = <<>>
    BY <1>1, <1>2, <1>6 DEF PortsDetected, HostSet
  <2> QED  BY <1>1, <1>2, <2>1, QuietStep
<1> QED  BY <1>3, <1>4, <1>5, <1>6

(* A write of the scanner itself.                                          *)
LEMMA KbWriteKeeps ==
  ASSUME IInv, KbWrite
  PROVE  IInv'
<1>1. /\ todo # <<>> /\ todo' = Tail(todo) /\ UNCHANGED <<reg, opts, host, disp, findings, hist>>
  BY DEF KbWrite
<1>2. /\ host \in HostSet /\ todo \in Seq(KbWrites) /\ oom \in 0..opts.failures
      /\ opts.failures \in Nat /\ SoundTable(kb) /\ IsFiniteSet(KeysOf(kb))
  BY DEF IInv, TypeOK, OptSet
<1>3. ~Running /\ host.pc \notin {"main", "aborted", "create", "ports", "run", "plugins"}
      /\ ~(host.pc = "done" /\ host.up) /\ (host.pc \in {"scan", "detect"} => host.up)
  BY <1>1 DEF IInv, PhaseInv, Running
<1>4. todo' \in Seq(KbWrites) /\ Head(todo) \in KbWrites
  BY <1>1, <1>2
<1>5. Head(todo)[1] \in Key
  BY <1>4 DEF KbWrites
<1>6. oom' \in 0..opts.failures
  <2>1. oom' = oom \/ (oom < opts.failures /\ oom' = oom + 1)
    BY DEF KbWrite
  <2> QED  BY <1>2, <2>1
<1>7. SoundTable(kb') /\ IsFiniteSet(KeysOf(kb'))
  <2>1. CASE UNCHANGED kb
    BY <1>2, <2>1
  <2>2. CASE \E m \in BOOLEAN : Head(todo)[2] \in KbValue /\ kb' = Set(kb, Head(todo)[1], Head(todo)[2], m)
    BY <1>2, <1>5, <2>2, KeysAfterSet
  <2> QED  BY <2>1, <2>2 DEF KbWrite
<1> QED  BY <1>1, <1>2, <1>3, <1>4, <1>6, <1>7, QuietStep

----------------------------------------------------------------------------
(* The steps of the scheduler.                                             *)

(* The typed facts that the steps below use.                               *)
LEMMA TurnFacts ==
  ASSUME IInv
  PROVE  /\ host \in HostSet /\ disp \in DispSet /\ hist \in HistSet /\ findings \in Seq(Ids)
         /\ oom \in 0..opts.failures /\ opts.failures \in Nat /\ RegInv
         /\ disp.turn \in Nat /\ disp.turn >= 1 /\ disp.ops \in 0..MaxOps /\ MaxOps \in Nat
         /\ disp.ports \in SUBSET {k \in Key : IsServiceKey(k, k[2])}
         /\ disp.bound \in PortNumber \union {NoPort}
         /\ host.pc \in {"plugins", "ports", "run"} => host.up
BY ScenarioAssumption DEF IInv, TypeOK, DispSet, OptSet, PhaseInv

(* The state of the scheduler at the beginning of a turn.                   *)
LEMMA NextTurnIs ==
  ASSUME IInv
  PROVE  NextTurn \in DispSet /\ NextTurn.turn = disp.turn + 1
<1>1. 0 \in 0..MaxOps /\ disp.turn + 1 \in Nat \ {0}
  BY TurnFacts
<1> QED  BY <1>1, TurnFacts DEF NextTurn, DispSet

(* What the history records of an offer.                                    *)
LEMMA OfferedIs ==
  ASSUME IInv, disp.turn <= Len(Plugins), NEW p \in PortNumber \union {NoPort}, Offered(p)
  PROVE  /\ hist' \in HistSet /\ hist'.wrote = hist.wrote
         /\ hist'.offered = hist.offered \union {<<Plugins[disp.turn].id, p>>}
<1>1. disp.turn \in DOMAIN Plugins
  BY TurnFacts, PluginsAre
<1>2. Plugins[disp.turn].id \in Ids
  BY <1>1, TurnFacts, PluginsAre
<1>3. hist' = [hist EXCEPT !.offered = hist.offered \union {<<Plugins[disp.turn].id, p>>}]
  BY DEF Offered, CurrentPlugin
<1> QED  BY <1>2, <1>3, TurnFacts DEF HistSet

(* A step of the scheduler that writes nothing: the ports that it takes    *)
(* out of hand, and the ones of a turn that it begins, must be accounted   *)
(* for.                                                                    *)
LEMMA TurnStep ==
  ASSUME IInv, UNCHANGED <<reg, opts, kb, todo>>, Running, Running',
         host' \in HostSet, disp' \in DispSet, hist' \in HistSet, findings' \in Seq(Ids),
         oom' \in 0..opts.failures, oom' = 0 => oom = 0,
         hist'.wrote = hist.wrote, hist.offered \subseteq hist'.offered,
         host'.pc \in {"ports", "run"} => disp'.turn <= Len(Plugins),
         host'.pc = "done" => disp'.turn > Len(Plugins), host'.up,
         \A t \in DOMAIN Plugins : Begun(t) => Begun(t)',
         \A t \in DOMAIN Plugins : \A svc \in WildcardServices(Plugins[t]) : \A k \in KeysOf(kb) :
           /\ oom' = 0 /\ IsServiceKey(k, svc)
           /\ (Begun(t)' /\ ~Begun(t)) \/ InHand(t, k)
           => <<Plugins[t].id, k[3]>> \in hist'.offered \/ InHand(t, k)'
  PROVE  IInv'
<1>1. RegInv' /\ Plugins' = Plugins /\ KeysOf(kb') = KeysOf(kb)
  <2>1. host'.pc = "main" => host.pc = "main"
    BY DEF Running
  <2> QED  BY <2>1, RegStays, PluginsStay DEF IInv
<1>2. TypeOK'
  BY <1>1 DEF IInv, TypeOK, RegInv
<1>3. PhaseInv'
  BY <1>1 DEF IInv, PhaseInv, Running
<1>4. WroteInv'
  BY <1>1 DEF IInv, WroteInv
<1>5. OfferInv'
  <2>0. \A u \in DOMAIN Plugins : WildcardServices(Plugins[u])' = WildcardServices(Plugins[u])
    BY <1>1 DEF WildcardServices
  <2> SUFFICES ASSUME oom' = 0, NEW t \in DOMAIN Plugins, NEW svc \in WildcardServices(Plugins[t]),
                      NEW k \in KeysOf(kb), Begun(t)', IsServiceKey(k, svc)
               PROVE  \/ <<Plugins[t].id, k[3]>> \in hist'.offered
                      \/ InHand(t, k)'
                      \/ WrittenSince(t, k)'
    BY <1>1, <2>0 DEF OfferInv
  <2>1. CASE Begun(t) /\ ~InHand(t, k)
    <3>1. <<Plugins[t].id, k[3]>> \in hist.offered \/ WrittenSince(t, k)
      BY <2>1 DEF IInv, OfferInv
    <3>2. WrittenSince(t, k) => WrittenSince(t, k)'
      BY <1>1 DEF WrittenSince
    <3> QED  BY <3>1, <3>2
  <2>2. CASE ~Begun(t) \/ InHand(t, k)
    BY <2>2
  <2> QED  BY <2>1, <2>2
<1>6. SoundTable(kb)' /\ IsFiniteSet(KeysOf(kb))'
  BY DEF IInv
<1> QED  BY <1>1, <1>2, <1>3, <1>4, <1>5, <1>6 DEF IInv

(* The turn of a plugin without wildcard.                                   *)
LEMMA ExactTurnKeeps ==
  ASSUME IInv, ExactTurn
  PROVE  IInv'
<1>1. /\ host.pc = "plugins" /\ disp.turn <= Len(Plugins) /\ UNCHANGED <<reg, oom, opts, kb, todo, findings>>
      /\ WildcardServices(Plugins[disp.turn]) = {}
  BY DEF ExactTurn, CurrentPlugin
<1>2. disp.turn \in DOMAIN Plugins
  BY <1>1, TurnFacts, PluginsAre
<1>3. \A t, k : ~InHand(t, k)
  BY <1>1 DEF InHand
<1>4. CASE GatesSatisfied(CurrentPlugin)
  <2>1. /\ host' = [host EXCEPT !.pc = "run"] /\ UNCHANGED hist
        /\ disp' = [disp EXCEPT !.bound = NoPort, !.ops = 0]
    BY <1>4 DEF ExactTurn
  <2>2. host' \in HostSet /\ host'.up = host.up /\ host'.pc = "run"
    BY <2>1, TurnFacts DEF HostSet
  <2>3. disp' \in DispSet /\ disp'.turn = disp.turn
    <3>1. 0 \in 0..MaxOps
      BY TurnFacts
    <3> QED  BY <2>1, <3>1, TurnFacts DEF DispSet
  <2>4. \A t \in DOMAIN Plugins : (Begun(t) => Begun(t)') /\ (Begun(t)' /\ ~Begun(t) => t = disp.turn)
    BY <1>1, <2>2, <2>3, PluginsStay DEF Begun
  <2> QED  BY <1>1, <1>3, <2>1, <2>2, <2>3, <2>4, TurnFacts, TurnStep DEF Running
<1>5. CASE ~GatesSatisfied(CurrentPlugin)
  <2>1. disp' = NextTurn /\ Offered(NoPort) /\ UNCHANGED host
    BY <1>5 DEF ExactTurn
  <2>2. disp' \in DispSet /\ disp'.turn = disp.turn + 1
    BY <2>1, NextTurnIs
  <2>3. /\ hist' \in HistSet /\ hist'.wrote = hist.wrote /\ hist.offered \subseteq hist'.offered
    BY <1>1, <2>1, OfferedIs
  <2>4. \A t \in DOMAIN Plugins : (Begun(t) => Begun(t)') /\ (Begun(t)' /\ ~Begun(t) => t = disp.turn)
    BY <1>1, <2>1, <2>2, PluginsStay, PluginsAre, TurnFacts DEF Begun
  <2> QED  BY <1>1, <1>3, <2>1, <2>2, <2>3, <2>4, TurnFacts, TurnStep DEF Running
<1> QED  BY <1>4, <1>5

(* A plugin asks for one service at most.                                  *)
LEMMA OneService ==
  ASSUME RegInv, NEW t \in DOMAIN Plugins,
         NEW a \in WildcardServices(Plugins[t]), NEW b \in WildcardServices(Plugins[t])
  PROVE  a = b
<1> DEFINE h == Plugins[t]
           W == {i \in DOMAIN h.keys : Wildcard(h.keys[i])}
<1>1. IsFiniteSet(DOMAIN h.keys)
  <2>1. Len(h.keys) \in Nat /\ DOMAIN h.keys = 1..Len(h.keys)
    BY PluginsAre, HeaderIs
  <2> QED  BY <2>1, Interval
<1>2. IsFiniteSet(W) /\ Cardinality(W) <= 1
  <2>1. W \subseteq DOMAIN h.keys
    OBVIOUS
  <2>2. IsFiniteSet(W)
    BY <1>1, <2>1, FS_Subset
  <2> QED  BY <2>2, PluginsAre DEF RequiredKeysOk
<1>3. PICK i \in W : a = h.keys[i][2]
  BY DEF WildcardServices
<1>4. PICK j \in W : b = h.keys[j][2]
  BY DEF WildcardServices
<1> HIDE DEF W
<1>5. i = j
  <2> SUFFICES ASSUME i # j PROVE FALSE
    OBVIOUS
  <2>1. {i, j} \subseteq W
    OBVIOUS
  <2>2. IsFiniteSet({i, j}) /\ Cardinality({i, j}) <= Cardinality(W)
    BY <1>2, <2>1, FS_Subset
  <2>3. IsFiniteSet({i}) /\ Cardinality({i}) = 1
    BY FS_Singleton
  <2>4. Cardinality({i} \union {j}) = 2
    <3>1. j \notin {i}
      OBVIOUS
    <3>2. Cardinality({i} \union {j}) = Cardinality({i}) + 1
      BY <2>3, <3>1, FS_AddElement
    <3> QED  BY <2>3, <3>2
  <2>5. {i, j} = {i} \union {j}
    OBVIOUS
  <2>6. Cardinality(W) \in Nat
    BY <1>2, FS_CardinalityType
  <2> QED  BY <1>2, <2>2, <2>4, <2>5, <2>6
<1> QED  BY <1>3, <1>4, <1>5

(* The ports are collected: all of them, when nothing runs out of memory.  *)
LEMMA WildcardTurnKeeps ==
  ASSUME IInv, WildcardTurn
  PROVE  IInv'
<1>1. host.pc = "plugins" /\ disp.turn <= Len(Plugins) /\ UNCHANGED <<reg, opts, kb, todo, findings>>
  BY DEF WildcardTurn
<1>2. disp.turn \in DOMAIN Plugins
  BY <1>1, TurnFacts, PluginsAre
<1>3. \A t, k : ~InHand(t, k)
  BY <1>1 DEF InHand
<1>. DEFINE Turn(svc, lost) ==
        /\ oom' = oom + Cardinality(lost) /\ oom' <= opts.failures
        /\ \/ /\ CollectPorts(svc) \ lost = {}
              /\ disp' = NextTurn /\ Offered(NoPort) /\ UNCHANGED host
           \/ /\ CollectPorts(svc) \ lost # {}
              /\ disp' = [disp EXCEPT !.ports = CollectPorts(svc) \ lost]
              /\ host' = [host EXCEPT !.pc = "ports"]
              /\ UNCHANGED hist
<1>0. PICK svc \in WildcardServices(Plugins[disp.turn]) : \E lost \in SUBSET CollectPorts(svc) : Turn(svc, lost)
  BY DEF WildcardTurn, CurrentPlugin
<1>4. PICK lost \in SUBSET CollectPorts(svc) : Turn(svc, lost)
  BY <1>0
<1>5. IsFiniteSet(lost) /\ Cardinality(lost) \in Nat
  <2>1. lost \subseteq KeysOf(kb)
    BY DEF CollectPorts
  <2> QED  BY <2>1, FS_Subset, FS_CardinalityType DEF IInv
<1>6. oom' \in 0..opts.failures /\ (oom' = 0 => oom = 0 /\ Cardinality(lost) = 0)
  BY <1>4, <1>5, TurnFacts
<1>7. oom' = 0 => lost = {}
  BY <1>5, <1>6, FS_EmptySet
<1>8. ASSUME NEW k \in KeysOf(kb), NEW s \in WildcardServices(Plugins[disp.turn]),
             IsServiceKey(k, s), oom' = 0
      PROVE  k \in CollectPorts(svc) \ lost
  <2>1. s = svc
    BY <1>2, OneService, TurnFacts
  <2> QED  BY <1>7, <1>8, <2>1 DEF CollectPorts
<1>9. CASE CollectPorts(svc) \ lost = {}
  <2>1. disp' = NextTurn /\ Offered(NoPort) /\ UNCHANGED host
    BY <1>4, <1>9
  <2>2. disp' \in DispSet /\ disp'.turn = disp.turn + 1
    BY <2>1, NextTurnIs
  <2>3. hist' \in HistSet /\ hist'.wrote = hist.wrote /\ hist.offered \subseteq hist'.offered
    BY <1>1, <2>1, OfferedIs
  <2>4. \A t \in DOMAIN Plugins : (Begun(t) => Begun(t)') /\ (Begun(t)' /\ ~Begun(t) => t = disp.turn)
    BY <1>1, <2>1, <2>2, PluginsStay, PluginsAre, TurnFacts DEF Begun
  <2>5. findings' \in Seq(Ids)
    BY <1>1, TurnFacts
  <2> QED  BY <1>1, <1>3, <1>6, <1>8, <1>9, <2>1, <2>2, <2>3, <2>4, <2>5, TurnFacts, TurnStep DEF Running
<1>10. CASE CollectPorts(svc) \ lost # {}
  <2>1. /\ disp' = [disp EXCEPT !.ports = CollectPorts(svc) \ lost]
        /\ host' = [host EXCEPT !.pc = "ports"] /\ UNCHANGED hist
    BY <1>4, <1>10
  <2>2. host' \in HostSet /\ host'.up = host.up /\ host'.pc = "ports"
    BY <2>1, TurnFacts DEF HostSet
  <2>3. disp' \in DispSet /\ disp'.turn = disp.turn /\ disp'.ports = CollectPorts(svc) \ lost
    <3>1. \A k \in CollectPorts(svc) : k \in Key /\ IsServiceKey(k, k[2])
      BY KeysAre DEF CollectPorts, IsServiceKey, IInv
    <3>2. CollectPorts(svc) \ lost \in SUBSET {k \in Key : IsServiceKey(k, k[2])}
      BY <3>1
    <3> QED  BY <2>1, <3>2, TurnFacts DEF DispSet
  <2>4. \A t \in DOMAIN Plugins : (Begun(t) => Begun(t)') /\ (Begun(t)' /\ ~Begun(t) => t = disp.turn)
    BY <1>1, <2>2, <2>3, PluginsStay DEF Begun
  <2>5. \A k \in CollectPorts(svc) \ lost : InHand(disp.turn, k)'
    BY <2>2, <2>3 DEF InHand
  <2>6. findings' \in Seq(Ids) /\ hist' \in HistSet
    BY <1>1, <2>1, TurnFacts
  <2> QED  BY <1>1, <1>3, <1>6, <1>8, <2>1, <2>2, <2>3, <2>4, <2>5, <2>6, TurnFacts, TurnStep DEF Running
<1> QED  BY <1>9, <1>10

(* One port is taken out of hand: it runs, or it is offered and skipped.   *)
LEMMA WildcardPortKeeps ==
  ASSUME IInv, WildcardPort
  PROVE  IInv'
<1>1. host.pc = "ports" /\ UNCHANGED <<reg, oom, opts, kb, todo, findings>>
  BY DEF WildcardPort
<1>2. disp.turn <= Len(Plugins)
  BY <1>1 DEF IInv, PhaseInv
<1>3. PICK k \in LowestPorts(disp.ports) :
        IF GatesSatisfied(CurrentPlugin)
        THEN /\ host' = [host EXCEPT !.pc = "run"]
             /\ disp' = [disp EXCEPT !.bound = k[3], !.ports = @ \ {k}, !.ops = 0]
             /\ UNCHANGED hist
        ELSE /\ disp' = [disp EXCEPT !.ports = @ \ {k}]
             /\ Offered(k[3])
             /\ UNCHANGED host
  BY DEF WildcardPort
<1>4. k[3] \in PortNumber \union {NoPort}
  BY TurnFacts DEF LowestPorts, IsServiceKey
<1>5. disp.ports \ {k} \in SUBSET {j \in Key : IsServiceKey(j, j[2])} /\ 0 \in 0..MaxOps
  BY TurnFacts
<1>6. CASE GatesSatisfied(CurrentPlugin)
  <2>1. /\ host' = [host EXCEPT !.pc = "run"] /\ UNCHANGED hist
        /\ disp' = [disp EXCEPT !.bound = k[3], !.ports = @ \ {k}, !.ops = 0]
    BY <1>3, <1>6
  <2>2. host' \in HostSet /\ host'.up = host.up /\ host'.pc = "run"
    BY <2>1, TurnFacts DEF HostSet
  <2>3. /\ disp' \in DispSet /\ disp'.turn = disp.turn /\ disp'.ports = disp.ports \ {k}
        /\ disp'.bound = k[3]
    BY <1>4, <1>5, <2>1, TurnFacts DEF DispSet
  <2>4. \A t \in DOMAIN Plugins : Begun(t)' <=> Begun(t)
    BY <1>1, <2>2, <2>3, PluginsStay DEF Begun
  <2>5. \A t, j : InHand(t, j) => InHand(t, j)'
    BY <1>1, <2>2, <2>3 DEF InHand
  <2> QED  BY <1>1, <1>2, <2>1, <2>2, <2>3, <2>4, <2>5, TurnFacts, TurnStep DEF Running
<1>7. CASE ~GatesSatisfied(CurrentPlugin)
  <2>1. /\ disp' = [disp EXCEPT !.ports = @ \ {k}] /\ Offered(k[3]) /\ UNCHANGED host
    BY <1>3, <1>7
  <2>2. disp' \in DispSet /\ disp'.turn = disp.turn /\ disp'.ports = disp.ports \ {k}
    BY <1>5, <2>1, TurnFacts DEF DispSet
  <2>3. /\ hist' \in HistSet /\ hist'.wrote = hist.wrote
        /\ hist'.offered = hist.offered \union {<<Plugins[disp.turn].id, k[3]>>}
    BY <1>2, <1>4, <2>1, OfferedIs
  <2>4. \A t \in DOMAIN Plugins : Begun(t)' <=> Begun(t)
    BY <1>1, <2>1, <2>2, PluginsStay DEF Begun
  <2>5. \A t, j : InHand(t, j) => InHand(t, j)' \/ (t = disp.turn /\ j = k)
    BY <1>1, <2>1, <2>2 DEF InHand
  <2> QED  BY <1>1, <1>2, <2>1, <2>2, <2>3, <2>4, <2>5, TurnFacts, TurnStep DEF Running
<1> QED  BY <1>6, <1>7

(* A wildcard turn ends, and the last turn has ended.                       *)
LEMMA EndingsKeep ==
  ASSUME IInv, WildcardTurnEnds \/ PluginsDone
  PROVE  IInv'
<1>1. UNCHANGED <<reg, oom, opts, kb, todo, findings, hist>>
  BY DEF WildcardTurnEnds, PluginsDone
<1>2. CASE WildcardTurnEnds
  <2>1. /\ host.pc = "ports" /\ disp.ports = {} /\ host' = [host EXCEPT !.pc = "plugins"]
        /\ disp' = NextTurn
    BY <1>2 DEF WildcardTurnEnds
  <2>2. host' \in HostSet /\ host'.up = host.up /\ host'.pc = "plugins"
    BY <2>1, TurnFacts DEF HostSet
  <2>3. disp' \in DispSet /\ disp'.turn = disp.turn + 1
    BY <2>1, NextTurnIs
  <2>4. \A t \in DOMAIN Plugins : Begun(t)' <=> Begun(t)
    BY <2>1, <2>2, <2>3, <1>1, PluginsStay, PluginsAre, TurnFacts DEF Begun
  <2>5. \A t, k : ~InHand(t, k)
    BY <2>1 DEF InHand
  <2> QED  BY <1>1, <2>1, <2>2, <2>3, <2>4, <2>5, TurnFacts, TurnStep DEF Running
<1>3. CASE PluginsDone
  <2>1. /\ host.pc = "plugins" /\ disp.turn > Len(Plugins) /\ host' = [host EXCEPT !.pc = "done"]
        /\ UNCHANGED disp
    BY <1>3 DEF PluginsDone
  <2>2. host' \in HostSet /\ host'.pc = "done" /\ host'.up = host.up
    BY <2>1, TurnFacts DEF HostSet
  <2>3. \A t \in DOMAIN Plugins : Begun(t)' <=> Begun(t)
    BY <2>1, <2>2, <1>1, PluginsStay DEF Begun
  <2>4. \A t, k : ~InHand(t, k)
    BY <2>1 DEF InHand
  <2> QED  BY <1>1, <2>1, <2>2, <2>3, <2>4, TurnFacts, TurnStep DEF Running
<1> QED  BY <1>2, <1>3

(* A plugin reports a finding, which may be lost.                           *)
LEMMA ReportVulnKeeps ==
  ASSUME IInv, ReportVuln
  PROVE  IInv'
<1>1. /\ host.pc = "run" /\ disp.ops < MaxOps /\ disp' = [disp EXCEPT !.ops = @ + 1]
      /\ UNCHANGED <<reg, opts, host, kb, todo, hist>>
      /\ oom' = oom \/ (oom < opts.failures /\ oom' = oom + 1)
      /\ findings' = findings \/ findings' = Append(findings, Plugins[disp.turn].id)
  BY DEF ReportVuln, CurrentPlugin
<1>2. disp.turn <= Len(Plugins) /\ disp.turn \in DOMAIN Plugins
  BY <1>1, TurnFacts, PluginsAre DEF IInv, PhaseInv
<1>3. findings' \in Seq(Ids)
  <2>1. Plugins[disp.turn].id \in Ids
    BY <1>2, TurnFacts, PluginsAre
  <2>2. ASSUME NEW S, NEW s \in Seq(S), NEW x \in S PROVE Append(s, x) \in Seq(S)
    OBVIOUS
  <2> QED  BY <1>1, <2>1, <2>2, TurnFacts
<1>4. /\ disp' \in DispSet /\ disp'.turn = disp.turn /\ disp'.ports = disp.ports
      /\ disp'.bound = disp.bound
  <2>1. disp.ops + 1 \in 0..MaxOps
    BY <1>1, TurnFacts
  <2> QED  BY <1>1, <2>1, TurnFacts DEF DispSet
<1>5. oom' \in 0..opts.failures /\ (oom' = 0 => oom = 0)
  BY <1>1, TurnFacts
<1>6. \A t \in DOMAIN Plugins : Begun(t)' <=> Begun(t)
  BY <1>1, <1>4, PluginsStay DEF Begun
<1>7. \A t, k : InHand(t, k)' <=> InHand(t, k)
  BY <1>1, <1>4 DEF InHand
<1> QED  BY <1>1, <1>2, <1>3, <1>4, <1>5, <1>6, <1>7, TurnFacts, TurnStep DEF Running

(* A plugin has run for what it was bound to.                               *)
LEMMA InvokeReturnsKeeps ==
  ASSUME IInv, InvokeReturns
  PROVE  IInv'
<1>1. /\ host.pc = "run" /\ Offered(disp.bound) /\ UNCHANGED <<reg, oom, opts, kb, todo, findings>>
  BY DEF InvokeReturns
<1>2. disp.turn <= Len(Plugins)
  BY <1>1 DEF IInv, PhaseInv
<1>3. /\ hist' \in HistSet /\ hist'.wrote = hist.wrote
      /\ hist'.offered = hist.offered \union {<<Plugins[disp.turn].id, disp.bound>>}
  BY <1>1, <1>2, OfferedIs, TurnFacts
<1>4. CASE WildcardServices(CurrentPlugin) = {}
  <2>1. host' = [host EXCEPT !.pc = "plugins"] /\ disp' = NextTurn
    BY <1>4 DEF InvokeReturns
  <2>2. host' \in HostSet /\ host'.up = host.up /\ host'.pc = "plugins"
    BY <2>1, TurnFacts DEF HostSet
  <2>3. disp' \in DispSet /\ disp'.turn = disp.turn + 1
    BY <2>1, NextTurnIs
  <2>4. \A t \in DOMAIN Plugins : Begun(t)' <=> Begun(t)
    BY <1>1, <2>2, <2>3, PluginsStay, PluginsAre, TurnFacts DEF Begun
  <2>5. \A t, k : InHand(t, k) => WildcardServices(Plugins[t]) = {}
    BY <1>4 DEF InHand, CurrentPlugin
  <2> QED  BY <1>1, <1>2, <1>3, <2>1, <2>2, <2>3, <2>4, <2>5, TurnFacts, TurnStep DEF Running
<1>5. CASE WildcardServices(CurrentPlugin) # {}
  <2>1. /\ host' = [host EXCEPT !.pc = "ports"]
        /\ disp' = [disp EXCEPT !.bound = NoPort, !.ops = 0]
    BY <1>5 DEF InvokeReturns
  <2>2. host' \in HostSet /\ host'.up = host.up /\ host'.pc = "ports"
    BY <2>1, TurnFacts DEF HostSet
  <2>3. disp' \in DispSet /\ disp'.turn = disp.turn /\ disp'.ports = disp.ports
    <3>1. 0 \in 0..MaxOps
      BY TurnFacts
    <3> QED  BY <2>1, <3>1, TurnFacts DEF DispSet
  <2>4. \A t \in DOMAIN Plugins : Begun(t)' <=> Begun(t)
    BY <1>1, <2>2, <2>3, PluginsStay DEF Begun
  <2>5. \A t, k : InHand(t, k) => InHand(t, k)' \/ (t = disp.turn /\ disp.bound = k[3])
    BY <1>1, <2>2, <2>3 DEF InHand
  <2> QED  BY <1>1, <1>2, <1>3, <2>1, <2>2, <2>3, <2>4, <2>5, TurnFacts, TurnStep DEF Running
<1> QED  BY <1>4, <1>5

(* A plugin writes: its key is there already, or no plugin has written it  *)
(* and its own turn is the first.                                          *)
LEMMA SetKbItemKeeps ==
  ASSUME IInv, SetKbItem
  PROVE  IInv'
<1>1. /\ host.pc = "run" /\ disp.ops < MaxOps /\ disp' = [disp EXCEPT !.ops = @ + 1]
      /\ UNCHANGED <<reg, opts, host, todo, findings>>
      /\ oom' = oom \/ (oom < opts.failures /\ oom' = oom + 1)
  BY DEF SetKbItem
<1>2. PICK k \in Writable : \E m \in BOOLEAN :
        /\ kb' = Set(kb, k, "text", m)
        /\ hist' = [hist EXCEPT !.wrote = @ \union {<<Plugins[disp.turn].id, k>>}]
  BY DEF SetKbItem, CurrentPlugin
<1>3. k \in Key /\ "text" \in KbValue
  BY KnownKeys
<1>4. SoundTable(kb') /\ KeysOf(kb') = KeysOf(kb) \union {k} /\ IsFiniteSet(KeysOf(kb'))
  BY <1>2, <1>3, KeysAfterSet DEF IInv
<1>5. disp.turn <= Len(Plugins) /\ disp.turn \in DOMAIN Plugins
  BY <1>1, TurnFacts, PluginsAre DEF IInv, PhaseInv
<1> DEFINE new == <<Plugins[disp.turn].id, k>>
<1>6. hist' \in HistSet /\ hist'.wrote = hist.wrote \union {new} /\ hist'.offered = hist.offered
  <2>1. Plugins[disp.turn].id \in Ids
    BY <1>5, TurnFacts, PluginsAre
  <2>2. hist \in HistSet /\ new \in Ids \X Key
    BY <1>3, <2>1, TurnFacts
  <2>3. hist' = [hist EXCEPT !.wrote = hist.wrote \union {new}]
    BY <1>2, <2>2 DEF HistSet
  <2> HIDE DEF new
  <2> QED  BY <2>2, <2>3 DEF HistSet
<1>7. new[1] = Plugins[disp.turn].id /\ new[2] = k
  OBVIOUS
<1> HIDE DEF new
<1>8. /\ disp' \in DispSet /\ disp'.turn = disp.turn /\ disp'.ports = disp.ports
      /\ disp'.bound = disp.bound
  <2>1. disp.ops + 1 \in 0..MaxOps
    BY <1>1, TurnFacts
  <2> QED  BY <1>1, <2>1, TurnFacts DEF DispSet
<1>9. oom' \in 0..opts.failures /\ (oom' = 0 => oom = 0)
  BY <1>1, TurnFacts
<1>10. RegInv' /\ Plugins' = Plugins
  BY <1>1, RegStays, PluginsStay, TurnFacts
<1>11. TypeOK'
  BY <1>1, <1>4, <1>6, <1>8, <1>9, <1>10 DEF IInv, TypeOK, RegInv, SoundTable
<1>12. PhaseInv'
  BY <1>1, <1>8, <1>10 DEF IInv, PhaseInv, Running
<1>13. \A t : Begun(t)' <=> Begun(t)
  BY <1>1, <1>8, <1>10 DEF Begun
<1>14. \A t, j : InHand(t, j)' <=> InHand(t, j)
  BY <1>1, <1>8 DEF InHand
<1>15. WroteInv'
  <2>1. Begun(disp.turn)
    BY <1>1, <1>5 DEF Begun
  <2> SUFFICES ASSUME NEW w \in hist'.wrote
               PROVE  w[2] \in KeysOf(kb') /\ \E u \in DOMAIN Plugins : Begun(u) /\ w[1] = Plugins[u].id
    BY <1>10, <1>13 DEF WroteInv
  <2>2. CASE w \in hist.wrote
    BY <1>4, <2>2 DEF IInv, WroteInv
  <2>3. CASE w = new
    BY <1>4, <1>5, <1>7, <2>1, <2>3
  <2> QED  BY <1>6, <2>2, <2>3
<1>16. OfferInv'
  <2> SUFFICES ASSUME oom' = 0, NEW t \in DOMAIN Plugins, NEW svc \in WildcardServices(Plugins[t]),
                      NEW j \in KeysOf(kb'), Begun(t), IsServiceKey(j, svc)
               PROVE  \/ <<Plugins[t].id, j[3]>> \in hist.offered
                      \/ InHand(t, j)
                      \/ WrittenSince(t, j)'
    BY <1>6, <1>10, <1>13, <1>14 DEF OfferInv, WildcardServices
  <2>1. t <= disp.turn
    BY TurnFacts, PluginsAre DEF Begun
  <2>2. CASE j \in KeysOf(kb)
    <3>1. WrittenSince(t, j) => WrittenSince(t, j)'
      BY <1>5, <1>6, <1>7, <1>10, <2>1 DEF WrittenSince
    <3> QED  BY <1>9, <2>2, <3>1 DEF IInv, OfferInv
  <2>3. CASE j \notin KeysOf(kb)
    <3>1. j = k
      BY <1>4, <2>3
    <3>2. \A w \in hist.wrote : w[2] # j
      BY <2>3 DEF IInv, WroteInv
    <3> QED  BY <1>5, <1>6, <1>7, <1>10, <2>1, <3>1, <3>2 DEF WrittenSince
  <2> QED  BY <2>2, <2>3
<1> QED  BY <1>4, <1>10, <1>11, <1>12, <1>15, <1>16 DEF IInv

----------------------------------------------------------------------------
(* A step of nobody.                                                        *)
LEMMA StutterKeeps ==
  ASSUME IInv, UNCHANGED vars
  PROVE  IInv'
<1>1. RegInv' /\ Plugins' = Plugins
  BY RegStays, PluginsStay DEF IInv, vars
<1>2. TypeOK'
  BY DEF IInv, TypeOK, vars
<1>3. PhaseInv'
  BY <1>1 DEF IInv, PhaseInv, Running, vars
<1>4. (\A t : Begun(t)' <=> Begun(t)) /\ (\A t, k : InHand(t, k)' <=> InHand(t, k))
  BY <1>1 DEF Begun, InHand, vars
<1>5. \A t, k : WrittenSince(t, k)' <=> WrittenSince(t, k)
  BY <1>1 DEF WrittenSince, vars
<1>6. WroteInv'
  BY <1>1, <1>4 DEF IInv, WroteInv, vars
<1>7. OfferInv'
  BY <1>1, <1>4, <1>5 DEF IInv, OfferInv, WildcardServices, vars
<1> QED  BY <1>1, <1>2, <1>3, <1>6, <1>7 DEF IInv, vars

(* The invariant is inductive.                                             *)
LEMMA StepKeeps == IInv /\ [Next]_vars => IInv'
<1> SUFFICES ASSUME IInv, [Next]_vars PROVE IInv'
  OBVIOUS
<1>1. CASE Load \/ AbortMain \/ StartScan
  BY <1>1, MainKeeps
<1>2. CASE CreateKb \/ HostScanFails \/ SkipDiscovery \/ IcmpEchoProbe \/ FallBackToTcpPing \/ TcpPing
  BY <1>2, DiscoverKeeps
<1>3. CASE ProbePort \/ PortsScanned \/ DetectService \/ PortsDetected
  BY <1>3, PortScanKeeps
<1>4. CASE KbWrite
  BY <1>4, KbWriteKeeps
<1>5. CASE ExactTurn
  BY <1>5, ExactTurnKeeps
<1>6. CASE WildcardTurn
  BY <1>6, WildcardTurnKeeps
<1>7. CASE WildcardPort
  BY <1>7, WildcardPortKeeps
<1>8. CASE WildcardTurnEnds \/ PluginsDone
  BY <1>8, EndingsKeep
<1>9. CASE SetKbItem
  BY <1>9, SetKbItemKeeps
<1>10. CASE ReportVuln
  BY <1>10, ReportVulnKeeps
<1>11. CASE InvokeReturns
  BY <1>11, InvokeReturnsKeeps
<1>12. CASE Finished \/ UNCHANGED vars
  BY <1>12, StutterKeeps DEF Finished
<1> QED
  BY <1>1, <1>2, <1>3, <1>4, <1>5, <1>6, <1>7, <1>8, <1>9, <1>10, <1>11, <1>12 DEF Next

(* IInv holds in every state of a host scan.                               *)
THEOREM Inductive == Spec => []IInv
<1>1. Init => IInv
  BY InitInv
<1>2. IInv /\ [Next]_vars => IInv'
  BY StepKeeps
<1> QED  BY <1>1, <1>2, PTL DEF Spec

(* Every variable of a host scan keeps its type, the oom counter its bound *)
(* and the todo list writes that the knowledge base can be asked for.      *)
THEOREM TypeCorrect == Spec => []TypeOK
<1>1. IInv => TypeOK
  BY DEF IInv
<1> QED  BY <1>1, Inductive, PTL

(* registry.c and depgraph.c refuse a directory exactly when its plugins   *)
(* cannot be ordered, whatever they depend on and however often they name  *)
(* it, and what is loaded runs every dependency first.                     *)
THEOREM LoadAlwaysExact == Spec => []LoadIsExact
<1>1. IInv => LoadIsExact
  BY DEF IInv, RegInv
<1> QED  BY <1>1, Inductive, PTL

(* scheduler.c offers a plugin every port of its service that detection or *)
(* one of its dependencies wrote: a port it was not offered was written by *)
(* plugins of later turns alone, and no dependency is one of those.        *)
THEOREM EveryServiceAlwaysOffered == Spec => []EveryServiceIsOffered
<1>1. IInv => EveryServiceIsOffered
  <2> SUFFICES ASSUME IInv, host.pc = "done", host.up, oom = 0,
                      NEW t \in DOMAIN Plugins, NEW svc \in WildcardServices(Plugins[t]),
                      NEW k \in Key, IsServiceKey(k, svc), Present(kb, k),
                      \/ {w[1] : w \in {x \in hist.wrote : x[2] = k}} = {}
                      \/ {w[1] : w \in {x \in hist.wrote : x[2] = k}}
                           \intersect {Plugins[t].deps[d] : d \in DOMAIN Plugins[t].deps} # {}
               PROVE  <<Plugins[t].id, k[3]>> \in hist.offered
    BY DEF EveryServiceIsOffered
  <2>1. k \in KeysOf(kb)
    BY KeysAre DEF IInv
  <2>2. Begun(t)
    <3>1. disp.turn > Len(Plugins)
      BY DEF IInv, PhaseInv
    <3> QED  BY <3>1, TurnFacts, PluginsAre DEF Begun
  <2>3. ~InHand(t, k)
    BY DEF InHand
  <2>4. ASSUME WrittenSince(t, k) PROVE FALSE
    <3>1. PICK w \in hist.wrote :
            w[2] = k /\ w[1] \in {Plugins[t].deps[d] : d \in DOMAIN Plugins[t].deps}
      BY <2>4 DEF WrittenSince
    <3>2. PICK u \in DOMAIN Plugins : u >= t /\ w[1] = Plugins[u].id
      BY <2>4, <3>1 DEF WrittenSince
    <3>3. w[1] \in Before(Plugins, t)
      BY <3>1, TurnFacts, PluginsAre DEF LegalOrder
    <3>4. PICK j \in 1..(t - 1) : w[1] = Plugins[j].id
      BY <3>3 DEF Before
    <3>5. j \in DOMAIN Plugins /\ j < t
      BY <3>4, TurnFacts, PluginsAre
    <3>6. j = u
      BY <3>2, <3>4, <3>5, TurnFacts, PluginsAre
    <3> QED  BY <3>2, <3>5, <3>6, TurnFacts, PluginsAre
  <2> QED  BY <2>1, <2>2, <2>3, <2>4 DEF IInv, OfferInv
<1> QED  BY <1>1, Inductive, PTL

(* kb.c's table implements a map: a set changes its own key, no lookup     *)
(* loses one, through every growth and every growth that fails.            *)
THEOREM KbAlwaysMap == Spec => KbIsMap
<1>1. Init => Map!MapInit
  <2>1. \A k \in Key : Get(Create, k) = NotFound
    <3> SUFFICES ASSUME NEW k \in Key PROVE Get(Create, k) = NotFound
      OBVIOUS
    <3>1. Find(Create, k) = {}
      BY CreateIs, FindIs
    <3> QED  BY <3>1 DEF Get, Present
  <2> QED  BY <2>1 DEF Init, Map!MapInit
<1>2. IInv /\ [Next]_vars => [Map!MapSet]_([k \in Key |-> Get(kb, k)])
  <2> SUFFICES ASSUME IInv, [Next]_vars PROVE [Map!MapSet]_([k \in Key |-> Get(kb, k)])
    OBVIOUS
  <2>1. CASE UNCHANGED kb
    BY <2>1
  <2>2. CASE \E k \in Key : \E v \in KbValue : \E m \in BOOLEAN : kb' = Set(kb, k, v, m)
    <3>1. PICK k \in Key, v \in KbValue, m \in BOOLEAN : kb' = Set(kb, k, v, m)
      BY <2>2
    <3>2. \A j \in Key : Get(kb', j) = IF j = k THEN v ELSE Get(kb, j)
      BY <3>1, GetAfterSet DEF IInv
    <3>3. [j \in Key |-> Get(kb', j)] = [[j \in Key |-> Get(kb, j)] EXCEPT ![k] = v]
      BY <3>2
    <3>4. CASE Get(kb, k) = v
      BY <3>2, <3>4
    <3>5. CASE Get(kb, k) # v
      <4>1. [j \in Key |-> Get(kb', j)][k] \in KbValue \ {[j \in Key |-> Get(kb, j)][k]}
        BY <3>2, <3>5
      <4>2. [j \in Key |-> Get(kb', j)][k] = v
        BY <3>2
      <4> QED  BY <3>3, <4>1, <4>2 DEF Map!MapSet
    <3> QED  BY <3>4, <3>5
  <2>3. CASE CreateKb
    BY <2>1, <2>3 DEF CreateKb, IInv, PhaseInv
  <2>4. CASE KbWrite
    <3>1. Head(todo) \in KbWrites
      BY <2>4 DEF KbWrite, IInv, TypeOK
    <3>2. Head(todo)[1] \in Key
      BY <3>1 DEF KbWrites
    <3> QED  BY <2>1, <2>2, <2>4, <3>2 DEF KbWrite
  <2>5. CASE SetKbItem
    BY <2>2, <2>5, KnownKeys DEF SetKbItem
  <2> QED
    BY <2>1, <2>3, <2>4, <2>5 DEF Next, vars, Load, AbortMain, StartScan, HostScanFails,
         SkipDiscovery, IcmpEchoProbe, FallBackToTcpPing, TcpPing, ProbePort, PortsScanned,
         DetectService, PortsDetected, ExactTurn, WildcardTurn, WildcardPort, WildcardTurnEnds,
         PluginsDone, ReportVuln, InvokeReturns, Finished
<1> QED  BY <1>1, <1>2, Inductive, PTL DEF Spec, KbIsMap, Map!MapSpec
----------------------------------------------------------------------------
(* What detection writes.                                                  *)

(* A key about port p that detection or a plugin may write.                *)
About(k, p) ==
  (k[1] = "Services" /\ k[3] = p) \/ (Len(k) = 2 /\ k[1] # "Ports" /\ k[2] = p)

(* Key k has value v, or is about to be given it.                          *)
Held(k, v) ==
  \/ k \in KeysOf(kb) /\ Get(kb, k) = v
  \/ <<k, v>> \in Range(todo)

Untouched(i) ==
  \A k \in Key, v \in KbValue : About(k, host.ports[i]) => ~Held(k, v)

(* Port i has what one answer of it leads to, and nothing else.            *)
FollowsAnswer(i) ==
  /\ i < host.next /\ host.states[i] = "open"
  /\ \E a \in Answers :
       \A k \in Key, v \in KbValue : About(k, host.ports[i]) =>
         /\ Held(k, v) => <<k, v>> \in Range(DetectPort(host.ports[i], a))
         /\ <<k, v>> \in Range(DetectPort(host.ports[i], a)) => \E u \in KbValue : Held(k, u)

Detecting == host.pc \in {"detect", "plugins"} /\ disp.turn = 1

DetectInv ==
  oom = 0 /\ (~Running \/ Detecting) =>
    \A i \in DOMAIN host.ports : Untouched(i) \/ (Detecting /\ FollowsAnswer(i))

FactName ==
  {"HTTP/status", "HTTP/server", "HTTP/title", "CPE", "Banner", "SSH/version", "SSH/protocol",
   "FTP/banner", "TLS/session", "TLS/cert"}

Fact(n, p, v) == <<<<n, p>>, v>>

TokenOf(x, p) == <<ServiceKey(x, p), "int">>

(* The writes that name no service but x and no fact but those of p.       *)
PlainWrites(x, p) ==
  {TokenOf(x, p)} \union {Fact(n, p, v) : n \in FactName, v \in {"int", "text", "bytes"}}

(* What is in a concatenation is in one of its parts.                       *)
LEMMA Concat ==
  ASSUME NEW S, NEW a \in Seq(S), NEW b \in Seq(S)
  PROVE  a \o b \in Seq(S) /\ Range(a \o b) = Range(a) \union Range(b)
<1>1. a \o b \in Seq(S)
  OBVIOUS
<1>2. ASSUME NEW w \in Range(a \o b) PROVE w \in Range(a) \union Range(b)
  <2>1. PICK i \in 1..(Len(a) + Len(b)) : w = (a \o b)[i]
    BY <1>2 DEF Range
  <2>2. CASE i <= Len(a)
    BY <2>1, <2>2 DEF Range
  <2>3. CASE i > Len(a)
    <3>1. w = b[i - Len(a)] /\ i - Len(a) \in DOMAIN b
      BY <2>1, <2>3
    <3> QED  BY <3>1 DEF Range
  <2> QED  BY <2>1, <2>2, <2>3
<1>3. ASSUME NEW w \in Range(a) PROVE w \in Range(a \o b)
  <2>1. PICK i \in 1..Len(a) : w = a[i]
    BY <1>3 DEF Range
  <2>2. w = (a \o b)[i] /\ i \in DOMAIN (a \o b)
    BY <2>1
  <2> QED  BY <2>2 DEF Range
<1>4. ASSUME NEW w \in Range(b) PROVE w \in Range(a \o b)
  <2>1. PICK i \in 1..Len(b) : w = b[i]
    BY <1>4 DEF Range
  <2>2. w = (a \o b)[Len(a) + i] /\ Len(a) + i \in DOMAIN (a \o b)
    BY <2>1
  <2> QED  BY <2>2 DEF Range
<1> QED  BY <1>1, <1>2, <1>3, <1>4

(* The sequence of one element.                                             *)
LEMMA Single ==
  ASSUME NEW S, NEW x \in S
  PROVE  <<x>> \in Seq(S) /\ Range(<<x>>) = {x}
BY DEF Range

(* The write of a service token.                                            *)
LEMMA TokenWriteIs ==
  ASSUME NEW p, NEW x
  PROVE  TokenWrite(x, p) \in Seq(PlainWrites(x, p)) /\ Range(TokenWrite(x, p)) = {TokenOf(x, p)}
<1>1. TokenOf(x, p) \in PlainWrites(x, p)
  BY DEF PlainWrites
<1>2. TokenWrite(x, p) = <<TokenOf(x, p)>>
  BY DEF TokenWrite, TokenOf
<1> QED  BY <1>1, <1>2, Single

(* The write of one fact about a port.                                      *)
LEMMA FactWriteIs ==
  ASSUME NEW p, NEW x, NEW n \in FactName, NEW v \in {"int", "text", "bytes"}
  PROVE  <<<<<<n, p>>, v>>>> \in Seq(PlainWrites(x, p))
<1>1. Fact(n, p, v) \in PlainWrites(x, p)
  BY DEF PlainWrites
<1>2. <<Fact(n, p, v)>> \in Seq(PlainWrites(x, p))
  BY <1>1, Single
<1> QED  BY <1>2 DEF Fact

(* The write of a text, which is stored as bytes if it is not UTF-8.        *)
LEMMA TextWriteIs ==
  ASSUME NEW p, NEW x, NEW n \in FactName, NEW text
  PROVE  TextWrite(<<n, p>>, text) \in Seq(PlainWrites(x, p))
<1>1. CASE text.utf8
  BY <1>1, FactWriteIs DEF TextWrite
<1>2. CASE ~text.utf8
  BY <1>2, FactWriteIs DEF TextWrite
<1> QED  BY <1>1, <1>2

(* The empty sequence is a sequence of writes.                              *)
LEMMA NoWrites == \A S : <<>> \in Seq(S)
OBVIOUS

(* The write of a CPE name, if the text names a product.                    *)
LEMMA CpeWritesIs ==
  ASSUME NEW p, NEW x, NEW text
  PROVE  CpeWrites(p, text) \in Seq(PlainWrites(x, p))
<1>1. "CPE" \in FactName /\ "text" \in {"int", "text", "bytes"}
  BY DEF FactName
<1>2. CASE text.product
  BY <1>1, <1>2, FactWriteIs DEF CpeWrites
<1>3. CASE ~text.product
  BY <1>3, NoWrites DEF CpeWrites
<1> QED  BY <1>2, <1>3

(* Only the two ports of HTTP over TLS are well known for https.           *)
LEMMA WellKnownIs ==
  ASSUME NEW p, p \notin HttpPort
  PROVE  \E x : x # "https" /\ WellKnownWrites(p) \in Seq(PlainWrites(x, p))
<1>1. CASE \E t \in WellKnownToken : t[1] = p
  <2> DEFINE c == CHOOSE t \in WellKnownToken : t[1] = p
  <2>1. c \in WellKnownToken /\ c[1] = p
    BY <1>1
  <2> HIDE DEF c
  <2>2. c[2] # "https"
    BY <2>1 DEF WellKnownToken, HttpPort
  <2>3. WellKnownWrites(p) = TokenWrite(c[2], p)
    BY <1>1 DEF WellKnownWrites, c
  <2> QED  BY <2>2, <2>3, TokenWriteIs
<1>2. CASE ~(\E t \in WellKnownToken : t[1] = p)
  <2>1. WellKnownWrites(p) = <<>>
    BY <1>2 DEF WellKnownWrites
  <2> QED  BY <2>1, NoWrites
<1> QED  BY <1>1, <1>2

(* The names of the facts that detection writes.                            *)
LEMMA FactNames ==
  /\ "HTTP/status" \in FactName /\ "HTTP/server" \in FactName /\ "HTTP/title" \in FactName
  /\ "Banner" \in FactName /\ "SSH/version" \in FactName /\ "SSH/protocol" \in FactName
  /\ "FTP/banner" \in FactName /\ "TLS/session" \in FactName /\ "TLS/cert" \in FactName
  /\ "int" \in {"int", "text", "bytes"} /\ "text" \in {"int", "text", "bytes"}
BY DEF FactName

(* What the HTTP probe writes: facts of the port and its token.             *)
LEMMA HttpWritesIs ==
  ASSUME NEW p, NEW http
  PROVE  HttpWrites(p, http) \in Seq(PlainWrites("www", p))
<1> DEFINE S == PlainWrites("www", p)
           a == IF http.status THEN <<<<<<"HTTP/status", p>>, "int">>>> ELSE <<>>
           b == IF http.server = NoText THEN <<>>
                ELSE TextWrite(<<"HTTP/server", p>>, http.server) \o CpeWrites(p, http.server)
           c == IF http.title = NoText THEN <<>> ELSE TextWrite(<<"HTTP/title", p>>, http.title)
           d == TokenWrite("www", p)
<1>1. a \in Seq(S)
  BY FactNames, FactWriteIs, NoWrites
<1>2. b \in Seq(S)
  <2>1. TextWrite(<<"HTTP/server", p>>, http.server) \in Seq(S) /\ CpeWrites(p, http.server) \in Seq(S)
    BY FactNames, TextWriteIs, CpeWritesIs
  <2> HIDE DEF S
  <2>2. TextWrite(<<"HTTP/server", p>>, http.server) \o CpeWrites(p, http.server) \in Seq(S)
    BY <2>1, Concat
  <2> QED  BY <2>2, NoWrites
<1>3. c \in Seq(S)
  BY FactNames, TextWriteIs, NoWrites
<1>4. d \in Seq(S)
  BY TokenWriteIs
<1>5. HttpWrites(p, http) = a \o b \o c \o d
  BY DEF HttpWrites
<1> HIDE DEF S, a, b, c, d
<1>6. a \o b \o c \o d \in Seq(S)
  BY <1>1, <1>2, <1>3, <1>4, Concat
<1> QED  BY <1>5, <1>6 DEF S

(* What an SSH banner makes the probe write.                                *)
LEMMA SshWritesIs ==
  ASSUME NEW p, NEW banner
  PROVE  SshWrites(p, banner) \in Seq(PlainWrites("ssh", p))
<1> DEFINE S == PlainWrites("ssh", p)
           a == TextWrite(<<"SSH/version", p>>, banner.line)
           b == <<<<<<"SSH/protocol", p>>, "text">>>>
           c == TokenWrite("ssh", p)
           d == CpeWrites(p, banner.line)
<1>1. a \in Seq(S) /\ b \in Seq(S) /\ c \in Seq(S) /\ d \in Seq(S)
  BY FactNames, TextWriteIs, FactWriteIs, TokenWriteIs, CpeWritesIs
<1>2. SshWrites(p, banner) = a \o b \o c \o d
  BY DEF SshWrites
<1> HIDE DEF S, a, b, c, d
<1>3. a \o b \o c \o d \in Seq(S)
  BY <1>1, Concat
<1> QED  BY <1>2, <1>3 DEF S

(* What an FTP banner makes the probe write.                                *)
LEMMA FtpWritesIs ==
  ASSUME NEW p, NEW banner
  PROVE  FtpWrites(p, banner) \in Seq(PlainWrites("ftp", p))
<1> DEFINE S == PlainWrites("ftp", p)
           a == TextWrite(<<"FTP/banner", p>>, banner.line)
           b == TokenWrite("ftp", p)
           c == CpeWrites(p, banner.line)
<1>1. a \in Seq(S) /\ b \in Seq(S) /\ c \in Seq(S)
  BY FactNames, TextWriteIs, TokenWriteIs, CpeWritesIs
<1>2. FtpWrites(p, banner) = a \o b \o c
  BY DEF FtpWrites
<1> HIDE DEF S, a, b, c
<1>3. a \o b \o c \in Seq(S)
  BY <1>1, Concat
<1> QED  BY <1>2, <1>3 DEF S

(* The banner probe writes one token, and not that of https.                *)
LEMMA BannerWritesIs ==
  ASSUME NEW p, p \notin HttpPort, NEW banner
  PROVE  \E x : x # "https" /\ BannerWrites(p, banner) \in Seq(PlainWrites(x, p))
<1> DEFINE a == IF banner.line = NoText THEN <<>> ELSE TextWrite(<<"Banner", p>>, banner.line)
           b == IF banner.kind = "ssh" /\ banner.line # NoText THEN SshWrites(p, banner)
                ELSE IF LooksLikeFtp(p, banner) /\ banner.line # NoText THEN FtpWrites(p, banner)
                ELSE WellKnownWrites(p)
<1>1. BannerWrites(p, banner) = a \o b
  BY DEF BannerWrites
<1>2. \A x : a \in Seq(PlainWrites(x, p))
  BY FactNames, TextWriteIs, NoWrites
<1>3. \E x : x # "https" /\ b \in Seq(PlainWrites(x, p))
  <2>1. "ssh" # "https" /\ "ftp" # "https"
    OBVIOUS
  <2> QED  BY <2>1, SshWritesIs, FtpWritesIs, WellKnownIs
<1> HIDE DEF a, b
<1>4. PICK x : x # "https" /\ b \in Seq(PlainWrites(x, p))
  BY <1>3
<1>5. a \o b \in Seq(PlainWrites(x, p))
  BY <1>2, <1>4, Concat
<1> QED  BY <1>1, <1>4, <1>5

(* Without TLS there is one service at most, and it is not https.          *)
LEMMA PlaintextIs ==
  ASSUME NEW p, NEW a
  PROVE  \E x : x # "https" /\ PlaintextWrites(p, a) \in Seq(PlainWrites(x, p))
<1>1. CASE p \in HttpPort
  <2>1. PlaintextWrites(p, a) \in Seq(PlainWrites("www", p))
    BY <1>1, HttpWritesIs, NoWrites DEF PlaintextWrites
  <2> QED  BY <2>1
<1>2. CASE p \notin HttpPort
  <2>1. PlaintextWrites(p, a) = IF BannerGrab(a) THEN BannerWrites(p, a.banner) ELSE WellKnownWrites(p)
    BY <1>2 DEF PlaintextWrites
  <2> QED  BY <1>2, <2>1, BannerWritesIs, WellKnownIs
<1> QED  BY <1>1, <1>2

(* What a TLS session makes detection write.                                *)
LEMMA SessionIs ==
  ASSUME NEW p, NEW x, NEW tls
  PROVE  SessionWrites(p, tls) \in Seq(PlainWrites(x, p))
<1> DEFINE S == PlainWrites(x, p)
           a == <<<<<<"TLS/session", p>>, "text">>>>
           b == IF tls = "cert" THEN <<<<<<"TLS/cert", p>>, "text">>>> ELSE <<>>
<1>1. a \in Seq(S) /\ b \in Seq(S)
  BY FactNames, FactWriteIs, NoWrites
<1>2. SessionWrites(p, tls) = a \o b
  BY DEF SessionWrites
<1> HIDE DEF S, a, b
<1>3. a \o b \in Seq(S)
  BY <1>1, Concat
<1> QED  BY <1>2, <1>3 DEF S

(* What detection writes about a port: the facts and the service of its    *)
(* plain protocol, whether TLS was tried, and https when it was spoken.    *)
TlsTried(p, e) == IF e = "none" THEN {} ELSE {<<TlsEnabledKey(p), e>>}

TlsSpoken(p, e) == IF e = "true" THEN {TokenOf("https", p)} ELSE {}

Writes(p, x, e) == PlainWrites(x, p) \union TlsTried(p, e) \union TlsSpoken(p, e)

Outcome(s, p, x, e) ==
  /\ Range(s) \subseteq Writes(p, x, e)
  /\ TlsTried(p, e) \subseteq Range(s) /\ TlsSpoken(p, e) \subseteq Range(s)

(* A sequence over a set is one over every larger set.                      *)
LEMMA Wider ==
  ASSUME NEW S, NEW T, S \subseteq T, NEW s \in Seq(S)
  PROVE  s \in Seq(T) /\ Range(s) \subseteq S
<1>1. \A i \in 1..Len(s) : s[i] \in S
  OBVIOUS
<1> QED  BY <1>1 DEF Range

(* Whatever the answers, what a port's detection writes is the outcome of   *)
(* one kind of service and one kind of TLS.                                 *)
LEMMA DetectIs ==
  ASSUME NEW p, NEW a
  PROVE  \E x, e : x # "https" /\ Outcome(DetectPort(p, a), p, x, e)
<1>1. CASE p \notin TlsCandidatePort
  <2>1. PICK x : x # "https" /\ PlaintextWrites(p, a) \in Seq(PlainWrites(x, p))
    BY PlaintextIs
  <2>2. Range(PlaintextWrites(p, a)) \subseteq PlainWrites(x, p)
    BY <2>1, Wider
  <2>3. Outcome(PlaintextWrites(p, a), p, x, "none")
    BY <2>2 DEF Outcome, Writes, TlsTried, TlsSpoken
  <2> QED  BY <1>1, <2>1, <2>3 DEF DetectPort
<1>2. CASE p \in TlsCandidatePort /\ ~TlsConnects(a)
  <2>1. PICK x : x # "https" /\ PlaintextWrites(p, a) \in Seq(PlainWrites(x, p))
    BY PlaintextIs
  <2> DEFINE w == <<TlsEnabledKey(p), "false">>
             S == PlainWrites(x, p) \union {w}
             s == PlaintextWrites(p, a)
             v == <<w>>
  <2>2. s \in Seq(S) /\ Range(s) \subseteq PlainWrites(x, p)
    BY <2>1, Wider
  <2>3. v \in Seq(S) /\ Range(v) = {w}
    <3>1. w \in S
      OBVIOUS
    <3> QED  BY <3>1, Single
  <2>4. DetectPort(p, a) = v \o s
    BY <1>2 DEF DetectPort
  <2> HIDE DEF S, s, w, v
  <2>5. Range(DetectPort(p, a)) = {w} \union Range(s)
    BY <2>2, <2>3, <2>4, Concat
  <2>6. TlsTried(p, "false") = {w} /\ TlsSpoken(p, "false") = {}
    BY DEF TlsTried, TlsSpoken, w
  <2>7. Outcome(DetectPort(p, a), p, x, "false")
    BY <2>2, <2>5, <2>6 DEF Outcome, Writes
  <2> QED  BY <2>1, <2>7
<1>3. CASE p \in TlsCandidatePort /\ TlsConnects(a)
  <2> DEFINE w == <<TlsEnabledKey(p), "true">>
             t == TokenOf("https", p)
             v == <<w>>
             b == SessionWrites(p, a.tls)
             c == TokenWrite("https", p)
             d == IF p \notin HttpPort THEN WellKnownWrites(p)
                  ELSE IF HttpProbe(a) THEN HttpWrites(p, a.http) ELSE <<>>
  <2>1. \E x : x # "https" /\ d \in Seq(PlainWrites(x, p))
    <3>1. "www" # "https"
      OBVIOUS
    <3> QED  BY <3>1, WellKnownIs, HttpWritesIs, NoWrites
  <2>2. PICK x : x # "https" /\ d \in Seq(PlainWrites(x, p))
    BY <2>1
  <2> DEFINE S == PlainWrites(x, p) \union {w, t}
             s == v \o b
             r == s \o c
  <2>3. PlainWrites(x, p) \subseteq S /\ w \in S /\ t \in S
    OBVIOUS
  <2>4. c = <<t>>
    BY DEF TokenWrite, TokenOf
  <2>5. b \in Seq(PlainWrites(x, p))
    BY SessionIs
  <2>6. DetectPort(p, a) = r \o d
    BY <1>3 DEF DetectPort, TlsWrites
  <2>7. TlsTried(p, "true") = {w} /\ TlsSpoken(p, "true") = {t}
    BY DEF TlsTried, TlsSpoken
  <2> HIDE DEF S, w, t, b, c, d
  <2>8. v \in Seq(S) /\ Range(v) = {w} /\ c \in Seq(S) /\ Range(c) = {t}
    BY <2>3, <2>4, Single
  <2> HIDE DEF v
  <2>9. /\ b \in Seq(S) /\ Range(b) \subseteq PlainWrites(x, p)
        /\ d \in Seq(S) /\ Range(d) \subseteq PlainWrites(x, p)
    BY <2>2, <2>3, <2>5, Wider
  <2>10. s \in Seq(S) /\ Range(s) = {w} \union Range(b)
    BY <2>8, <2>9, Concat
  <2> HIDE DEF s
  <2>11. r \in Seq(S) /\ Range(r) = Range(s) \union {t}
    BY <2>8, <2>10, Concat
  <2> HIDE DEF r
  <2>12. Range(DetectPort(p, a)) = Range(r) \union Range(d)
    BY <2>6, <2>9, <2>11, Concat
  <2>13. Outcome(DetectPort(p, a), p, x, "true")
    BY <2>7, <2>9, <2>10, <2>11, <2>12 DEF Outcome, Writes
  <2> QED  BY <2>2, <2>13
<1> QED  BY <1>1, <1>2, <1>3

(* The keys of those writes are about their port.                          *)
LEMMA OutcomeIs ==
  ASSUME NEW p, NEW x, NEW e, x # "https",
         NEW w \in Writes(p, x, e)
  PROVE  /\ About(w[1], p) /\ \A q : About(w[1], q) => q = p
         /\ w[1] = TlsEnabledKey(p) => e # "none" /\ w[2] = e
         /\ w[1][1] = "Services" =>
              w[1] = ServiceKey(x, p) \/ (w[1] = ServiceKey("https", p) /\ e = "true")
<1>1. CASE w \in PlainWrites(x, p) /\ w # TokenOf(x, p)
  <2>1. PICK n \in FactName, v \in {"int", "text", "bytes"} : w = Fact(n, p, v)
    BY <1>1 DEF PlainWrites
  <2>2. n # "Services" /\ n # "Ports" /\ n # "TLS/enabled"
    BY DEF FactName
  <2>3. w[1] = <<n, p>> /\ Len(w[1]) = 2 /\ w[1][1] = n /\ w[1][2] = p
    BY <2>1 DEF Fact
  <2> QED  BY <2>2, <2>3 DEF About, TlsEnabledKey
<1>2. CASE w = TokenOf(x, p) \/ (w = TokenOf("https", p) /\ e = "true")
  <2>1. PICK y : w = <<<<"Services", y, p, 0>>, "int">> /\ (y = x \/ (y = "https" /\ e = "true"))
    BY <1>2 DEF TokenOf, ServiceKey
  <2>2. w[1] = <<"Services", y, p, 0>> /\ Len(w[1]) = 4 /\ w[1][1] = "Services" /\ w[1][3] = p
    BY <2>1
  <2> QED  BY <2>1, <2>2 DEF About, TlsEnabledKey, ServiceKey
<1>3. CASE w = <<TlsEnabledKey(p), e>> /\ e # "none"
  <2>1. w[1] = <<"TLS/enabled", p>> /\ w[2] = e /\ Len(w[1]) = 2 /\ w[1][1] = "TLS/enabled" /\ w[1][2] = p
    BY <1>3 DEF TlsEnabledKey
  <2> QED  BY <1>3, <2>1 DEF About
<1> QED  BY <1>1, <1>2, <1>3 DEF Writes, TlsTried, TlsSpoken

(* Writes about no port.                                                   *)
QuietWrites == {w \in KbWrites : \A p : ~About(w[1], p)}

(* A write that is about no port.                                           *)
LEMMA QuietWriteIs ==
  ASSUME NEW k \in Key, NEW v \in KbValue, \A p : ~About(k, p)
  PROVE  Write(k, v) \in Seq(QuietWrites)
<1>1. <<k, v>> \in QuietWrites
  BY DEF QuietWrites, KbWrites
<1> QED  BY <1>1, Single DEF Write

(* The keys of the host and of the port states are about no service.        *)
LEMMA QuietKeys ==
  \A p, q : /\ ~About(<<"Host/ip">>, p) /\ ~About(<<"Host/hostname">>, p)
            /\ ~About(<<"Scan/start_time">>, p) /\ ~About(<<"Host/state">>, p)
            /\ ~About(<<"Ports", q>>, p)
BY DEF About

(* Before detection, steps whose writes are about no port's service.        *)
LEMMA CalmKeeps ==
  ASSUME DetectInv, ~Running, ~Detecting, oom' = 0 => oom = 0, host'.ports = host.ports,
         kb' = kb, todo' = todo \/ todo' \in Seq(QuietWrites)
  PROVE  DetectInv'
<1> SUFFICES ASSUME oom' = 0, NEW i \in DOMAIN host.ports PROVE Untouched(i)'
  BY DEF DetectInv
<1>1. Untouched(i)
  BY DEF DetectInv
<1>2. ASSUME NEW k \in Key, NEW v \in KbValue, About(k, host.ports[i]), Held(k, v)' PROVE FALSE
  <2>1. CASE <<k, v>> \in Range(todo') /\ todo' \in Seq(QuietWrites)
    <3>1. <<k, v>> \in QuietWrites
      BY <2>1, Wider
    <3> QED  BY <1>2, <3>1 DEF QuietWrites
  <2>2. CASE (k \in KeysOf(kb) /\ Get(kb, k) = v) \/ <<k, v>> \in Range(todo)
    BY <1>1, <1>2, <2>2 DEF Untouched, Held
  <2> QED  BY <1>2, <2>1, <2>2 DEF Held
<1> QED  BY <1>2 DEF Untouched

(* Before detection, nothing is written about a port.                      *)
LEMMA BeforeDetection ==
  ASSUME IInv, DetectInv, oom' = 0 => oom = 0,
         \/ Load \/ AbortMain \/ StartScan \/ CreateKb \/ HostScanFails \/ SkipDiscovery
         \/ IcmpEchoProbe \/ FallBackToTcpPing \/ TcpPing \/ ProbePort \/ PortsScanned
  PROVE  DetectInv'
<1>1. ~Running /\ ~Detecting
  BY DEF Running, Detecting, Load, AbortMain, StartScan, CreateKb, HostScanFails, SkipDiscovery,
       IcmpEchoProbe, FallBackToTcpPing, TcpPing, ProbePort, PortsScanned
<1>2. host \in HostSet
  BY DEF IInv, TypeOK
<1>3. CASE Load \/ AbortMain \/ StartScan \/ HostScanFails \/ FallBackToTcpPing \/ ProbePort
  <2>1. UNCHANGED <<kb, todo>> /\ host'.ports = host.ports
    BY <1>2, <1>3 DEF HostSet, Load, AbortMain, StartScan, HostScanFails, FallBackToTcpPing, ProbePort
  <2> QED  BY <1>1, <2>1, CalmKeeps
<1>4. CASE CreateKb
  <2>1. host'.ports = host.ports /\ kb' = kb
    BY <1>2, <1>4 DEF HostSet, CreateKb, IInv, PhaseInv
  <2>2. /\ Write(<<"Host/ip">>, "text") \in Seq(QuietWrites)
        /\ Write(<<"Host/hostname">>, "text") \in Seq(QuietWrites)
        /\ Write(<<"Scan/start_time">>, "text") \in Seq(QuietWrites)
    BY KnownKeys, QuietKeys, QuietWriteIs
  <2>3. ASSUME NEW S, NEW a \in Seq(S), NEW b \in Seq(S), NEW c \in Seq(S), NEW x \in BOOLEAN
        PROVE  a \o (IF x THEN b ELSE <<>>) \o c \in Seq(S)
    OBVIOUS
  <2>4. opts.named \in BOOLEAN
    BY DEF IInv, TypeOK, OptSet
  <2>5. todo' \in Seq(QuietWrites)
    BY <1>4, <2>2, <2>3, <2>4 DEF CreateKb
  <2> QED  BY <1>1, <2>1, <2>5, CalmKeeps
<1>5. ASSUME NEW up \in BOOLEAN, HostState(up), UNCHANGED kb PROVE DetectInv'
  <2>1. host'.ports = host.ports
    BY <1>2, <1>5 DEF HostState, HostSet
  <2>2. (IF up THEN "up" ELSE "down") \in KbValue
    BY KnownKeys
  <2>3. todo' \in Seq(QuietWrites)
    BY <1>5, <2>2, KnownKeys, QuietKeys, QuietWriteIs DEF HostState
  <2> QED  BY <1>1, <1>5, <2>1, <2>3, CalmKeeps
<1>6. CASE SkipDiscovery \/ IcmpEchoProbe
  <2>1. UNCHANGED kb /\ \E up \in BOOLEAN : HostState(up)
    BY <1>6 DEF SkipDiscovery, IcmpEchoProbe
  <2> QED  BY <1>5, <2>1
<1>7. CASE TcpPing
  <2>1. /\ UNCHANGED kb
        /\ \/ \E up \in BOOLEAN : HostState(up)
           \/ host' = [host EXCEPT !.next = @ + 1] /\ UNCHANGED todo
    BY <1>7 DEF TcpPing
  <2>2. CASE host' = [host EXCEPT !.next = @ + 1] /\ UNCHANGED todo
    <3>1. host'.ports = host.ports
      BY <1>2, <2>2 DEF HostSet
    <3> QED  BY <1>1, <2>1, <2>2, <3>1, CalmKeeps
  <2> QED  BY <1>5, <2>1, <2>2
<1>8. CASE PortsScanned
  <2>1. /\ host'.ports = host.ports /\ UNCHANGED kb
        /\ todo' = [i \in DOMAIN host.ports |-> <<<<"Ports", host.ports[i]>>, host.states[i]>>]
    BY <1>2, <1>8 DEF PortsScanned, HostSet
  <2>2. todo' \in Seq(KbWrites) /\ DOMAIN todo' = 1..Len(host.ports) /\ Len(host.ports) \in Nat
    <3>1. IInv'
      BY <1>8, PortScanKeeps
    <3> QED  BY <1>2, <2>1, <3>1, PortsAre DEF IInv, TypeOK
  <2>3. \A i \in 1..Len(host.ports) : todo'[i] \in KbWrites
    BY <2>2
  <2>4. \A i \in 1..Len(host.ports) : todo'[i][1] = <<"Ports", host.ports[i]>>
    BY <1>2, <2>1, PortsAre
  <2>5. \A i \in 1..Len(host.ports) : todo'[i] \in QuietWrites
    BY <2>3, <2>4, QuietKeys DEF QuietWrites
  <2>6. ASSUME NEW S, NEW n \in Nat, NEW s \in Seq(KbWrites), DOMAIN s = 1..n, \A i \in 1..n : s[i] \in S
        PROVE  s \in Seq(S)
    <3>1. s \in [1..n -> S]
      BY <2>6
    <3> QED  BY <3>1
  <2>7. todo' \in Seq(QuietWrites)
    BY <2>2, <2>5, <2>6
  <2> QED  BY <1>1, <2>1, <2>7, CalmKeeps
<1> QED  BY <1>3, <1>4, <1>6, <1>7, <1>8

(* A write moves what a key is about to have into the table.               *)
LEMMA WriteKeepsHeld ==
  ASSUME IInv, KbWrite, oom' = 0, oom = 0
  PROVE  \A k \in Key, v \in KbValue :
           /\ Held(k, v)' => Held(k, v)
           /\ Held(k, v) => \E u \in KbValue : Held(k, u)'
<1>1. todo \in Seq(KbWrites) /\ todo # <<>> /\ todo' = Tail(todo) /\ SoundTable(kb)
      /\ IsFiniteSet(KeysOf(kb))
  BY DEF IInv, TypeOK, KbWrite
<1>2. Head(todo) \in KbWrites /\ Range(todo) = {Head(todo)} \union Range(todo')
  <2>1. Head(todo) = todo[1] /\ Len(todo) \in Nat /\ Len(todo) >= 1 /\ DOMAIN todo = 1..Len(todo)
    BY <1>1
  <2>2. DOMAIN todo' = 1..(Len(todo) - 1) /\ \A i \in 1..(Len(todo) - 1) : todo'[i] = todo[i + 1]
    BY <1>1
  <2>3. ASSUME NEW w \in Range(todo) PROVE w \in {Head(todo)} \union Range(todo')
    <3>1. PICK i \in 1..Len(todo) : w = todo[i]
      BY <2>1, <2>3 DEF Range
    <3>2. CASE i = 1
      BY <2>1, <3>1, <3>2
    <3>3. CASE i # 1
      <4>1. i - 1 \in 1..(Len(todo) - 1) /\ todo'[i - 1] = w
        BY <2>1, <2>2, <3>1, <3>3
      <4> QED  BY <2>2, <4>1 DEF Range
    <3> QED  BY <3>2, <3>3
  <2>4. ASSUME NEW w \in Range(todo') PROVE w \in Range(todo)
    <3>1. PICK i \in 1..(Len(todo) - 1) : w = todo'[i]
      BY <2>2, <2>4 DEF Range
    <3>2. i + 1 \in 1..Len(todo) /\ todo[i + 1] = w
      BY <2>1, <2>2, <3>1
    <3> QED  BY <2>1, <3>2 DEF Range
  <2>5. Head(todo) \in Range(todo)
    BY <2>1 DEF Range
  <2>6. Head(todo) \in KbWrites
    BY <1>1
  <2> QED  BY <2>3, <2>4, <2>5, <2>6
<1>3. PICK k0 \in Key, v0 \in KbValue \union {"bytes"} : Head(todo) = <<k0, v0>>
  BY <1>2 DEF KbWrites
<1>4. \/ v0 \in KbValue /\ kb' = Set(kb, k0, v0, TRUE)
      \/ v0 \notin KbValue /\ kb' = kb
  <2>1. oom' # oom + 1 /\ Head(todo)[1] = k0 /\ Head(todo)[2] = v0
    BY <1>3
  <2> QED  BY <2>1 DEF KbWrite
<1>5. CASE v0 \in KbValue /\ kb' = Set(kb, k0, v0, TRUE)
  <2>1. \A k \in Key : Get(kb', k) = IF k = k0 THEN v0 ELSE Get(kb, k)
    <3>1. \A k \in Key : Get(Set(kb, k0, v0, TRUE), k) = IF k = k0 THEN v0 ELSE Get(kb, k)
      BY <1>1, <1>3, <1>5, GetAfterSet, Zenon
    <3> QED  BY <1>5, <3>1
  <2>2. KeysOf(kb') = KeysOf(kb) \union {k0}
    BY <1>1, <1>3, <1>5, KeysAfterSet
  <2> SUFFICES ASSUME NEW k \in Key, NEW v \in KbValue
               PROVE  /\ Held(k, v)' => Held(k, v)
                      /\ Held(k, v) => \E u \in KbValue : Held(k, u)'
    OBVIOUS
  <2>3. CASE k = k0
    <3>1. Held(k, v0)'
      BY <1>3, <2>1, <2>2, <2>3 DEF Held
    <3>2. Held(k, v)' => Held(k, v)
      BY <1>2, <1>3, <2>1, <2>2, <2>3 DEF Held
    <3> QED  BY <1>5, <3>1, <3>2
  <2>4. CASE k # k0
    <3>1. <<k, v>> # Head(todo)
      BY <1>3, <2>4
    <3>2. Held(k, v)' <=> Held(k, v)
      BY <1>2, <2>1, <2>2, <2>4, <3>1 DEF Held
    <3> QED  BY <3>2
  <2> QED  BY <2>3, <2>4
<1>6. CASE v0 \notin KbValue /\ kb' = kb
  <2>1. ASSUME NEW k \in Key, NEW v \in KbValue PROVE Held(k, v)' <=> Held(k, v)
    <3>1. <<k, v>> # Head(todo)
      BY <1>3, <1>6
    <3> QED  BY <1>2, <1>6, <3>1 DEF Held
  <2> QED  BY <2>1
<1> QED  BY <1>4, <1>5, <1>6

(* A pending write is made or lost.                                         *)
LEMMA WriteKeepsDetected ==
  ASSUME IInv, DetectInv, KbWrite
  PROVE  DetectInv'
<1>1. UNCHANGED <<host, disp>>
  BY DEF KbWrite
<1>2. (Running' <=> Running) /\ (Detecting' <=> Detecting)
  BY <1>1 DEF Running, Detecting
<1> SUFFICES ASSUME oom' = 0, ~Running \/ Detecting, NEW i \in DOMAIN host.ports
             PROVE  Untouched(i)' \/ (Detecting /\ FollowsAnswer(i)')
  BY <1>1, <1>2 DEF DetectInv
<1>3. oom = 0
  <2>1. oom' = oom \/ oom' = oom + 1
    BY DEF KbWrite
  <2> QED  BY <2>1, TurnFacts
<1>4. \A k \in Key, v \in KbValue :
        (Held(k, v)' => Held(k, v)) /\ (Held(k, v) => \E u \in KbValue : Held(k, u)')
  BY <1>3, WriteKeepsHeld
<1>5. CASE Untouched(i)
  BY <1>1, <1>4, <1>5 DEF Untouched
<1>6. CASE Detecting /\ FollowsAnswer(i)
  <2>1. PICK a \in Answers :
          \A k \in Key, v \in KbValue : About(k, host.ports[i]) =>
            /\ Held(k, v) => <<k, v>> \in Range(DetectPort(host.ports[i], a))
            /\ <<k, v>> \in Range(DetectPort(host.ports[i], a)) => \E u \in KbValue : Held(k, u)
    BY <1>6 DEF FollowsAnswer
  <2>2. \A k \in Key, v \in KbValue : About(k, host.ports[i]) =>
          /\ Held(k, v)' => <<k, v>> \in Range(DetectPort(host.ports[i], a))
          /\ <<k, v>> \in Range(DetectPort(host.ports[i], a)) => \E u \in KbValue : Held(k, u)'
    BY <1>4, <2>1
  <2> QED  BY <1>1, <1>6, <2>2 DEF FollowsAnswer
<1> QED  BY <1>3, <1>5, <1>6 DEF DetectInv

(* No port is scanned twice.                                               *)
LEMMA PortsDiffer ==
  ASSUME host \in HostSet
  PROVE  \A i, j \in DOMAIN host.ports : host.ports[i] = host.ports[j] => i = j
<1>1. PICK s \in Scenarios : host.ports = s.ports
  BY DEF HostSet
<1> QED  BY <1>1, ScenarioAssumption DEF IsScenario

(* What is written about a port is about no other.                         *)
LEMMA DetectIsAbout ==
  ASSUME NEW p, NEW a, NEW w \in Range(DetectPort(p, a)), NEW q, About(w[1], q)
  PROVE  q = p
<1>1. PICK x, e : x # "https" /\ Outcome(DetectPort(p, a), p, x, e)
  BY DetectIs
<1>2. x # "https" /\ w \in Writes(p, x, e)
  BY <1>1 DEF Outcome
<1>3. \A r : About(w[1], r) => r = p
  <2>1. \A y, z, d : \A u \in Writes(y, z, d) : z # "https" => \A r : About(u[1], r) => r = y
    BY OutcomeIs
  <2> QED  BY <1>2, <2>1
<1> QED  BY <1>3

(* A port that keeps what is held about it keeps its place.                *)
LEMMA SameHeld ==
  ASSUME NEW i \in DOMAIN host.ports, host'.ports = host.ports, host'.states = host.states,
         i < host.next => i < host'.next,
         \A k \in Key, v \in KbValue : About(k, host.ports[i]) => (Held(k, v)' <=> Held(k, v))
  PROVE  /\ Untouched(i) => Untouched(i)'
         /\ FollowsAnswer(i) => FollowsAnswer(i)'
<1>1. Untouched(i) => Untouched(i)'
  BY DEF Untouched
<1>2. ASSUME FollowsAnswer(i) PROVE FollowsAnswer(i)'
  <2>1. PICK a \in Answers :
          \A k \in Key, v \in KbValue : About(k, host.ports[i]) =>
            /\ Held(k, v) => <<k, v>> \in Range(DetectPort(host.ports[i], a))
            /\ <<k, v>> \in Range(DetectPort(host.ports[i], a)) => \E u \in KbValue : Held(k, u)
    BY <1>2 DEF FollowsAnswer
  <2>2. \A k \in Key, v \in KbValue : About(k, host.ports[i]) =>
          /\ Held(k, v)' => <<k, v>> \in Range(DetectPort(host.ports[i], a))
          /\ <<k, v>> \in Range(DetectPort(host.ports[i], a)) => \E u \in KbValue : Held(k, u)'
    BY <2>1
  <2> QED  BY <1>2, <2>2 DEF FollowsAnswer
<1> QED  BY <1>1, <1>2

(* The detection of one port, and its end.                                  *)
LEMMA DetectionKeeps ==
  ASSUME IInv, DetectInv, DetectService \/ PortsDetected
  PROVE  DetectInv'
<1>1. /\ host.pc = "detect" /\ todo = <<>> /\ UNCHANGED <<oom, kb, disp>> /\ host \in HostSet
      /\ ~Running /\ Detecting
  BY DEF DetectService, PortsDetected, IInv, TypeOK, Running, Detecting, PhaseInv
<1>2. /\ host'.ports = host.ports /\ host'.states = host.states /\ Detecting'
      /\ DetectService => host'.next = host.next + 1
      /\ PortsDetected => host'.next = host.next
  BY <1>1 DEF DetectService, PortsDetected, Detecting, HostSet
<1>3. host.next \in Nat /\ Len(host.ports) \in Nat /\ DOMAIN host.ports = 1..Len(host.ports)
  BY <1>1, PortsAre DEF HostSet
<1>4. Range(todo) = {}
  BY <1>1 DEF Range
<1> SUFFICES ASSUME oom = 0, NEW i \in DOMAIN host.ports
             PROVE  Untouched(i)' \/ FollowsAnswer(i)'
  BY <1>1, <1>2 DEF DetectInv
<1>5. Untouched(i) \/ FollowsAnswer(i)
  BY <1>1 DEF DetectInv
<1>6. i < host.next => i < host'.next
  BY <1>2, <1>3
<1>7. CASE todo' = todo
  <2>1. \A k \in Key, v \in KbValue : Held(k, v)' <=> Held(k, v)
    BY <1>1, <1>7 DEF Held
  <2> QED  BY <1>2, <1>5, <1>6, <2>1, SameHeld
<1>8. CASE /\ DetectService /\ host.states[host.next] = "open"
           /\ \E a \in Answers : todo' = DetectPort(host.ports[host.next], a)
  <2>1. PICK a \in Answers : todo' = DetectPort(host.ports[host.next], a)
    BY <1>8
  <2>2. host.next \in DOMAIN host.ports /\ host'.next = host.next + 1
    BY <1>2, <1>3, <1>8, ScenarioAssumption DEF DetectService, HostSet, IInv, TypeOK
  <2>3. CASE i = host.next
    <3>1. Untouched(i)
      BY <1>3, <1>5, <2>3 DEF FollowsAnswer
    <3>2. \A k \in Key, v \in KbValue : About(k, host.ports[i]) =>
            (Held(k, v)' <=> <<k, v>> \in Range(DetectPort(host.ports[i], a)))
      BY <1>1, <2>1, <2>3, <3>1 DEF Untouched, Held
    <3>3. i < host'.next
      BY <1>3, <2>2, <2>3
    <3>4. \A k \in Key, v \in KbValue : About(k, host.ports[i]) =>
            /\ Held(k, v)' => <<k, v>> \in Range(DetectPort(host.ports[i], a))
            /\ <<k, v>> \in Range(DetectPort(host.ports[i], a)) => \E u \in KbValue : Held(k, u)'
      BY <3>2
    <3> QED  BY <1>2, <1>8, <2>3, <3>3, <3>4 DEF FollowsAnswer
  <2>4. CASE i # host.next
    <3>1. ASSUME NEW k \in Key, NEW v \in KbValue, About(k, host.ports[i])
          PROVE  Held(k, v)' <=> Held(k, v)
      <4>1. <<k, v>> \notin Range(todo')
        <5> SUFFICES ASSUME <<k, v>> \in Range(DetectPort(host.ports[host.next], a)) PROVE FALSE
          BY <2>1
        <5>1. <<k, v>>[1] = k
          OBVIOUS
        <5>2. host.ports[i] = host.ports[host.next]
          BY <3>1, <5>1, DetectIsAbout
        <5> QED  BY <1>1, <2>2, <2>4, <5>2, PortsDiffer
      <4> QED  BY <1>1, <1>4, <4>1 DEF Held
    <3> QED  BY <1>2, <1>5, <1>6, <3>1, SameHeld
  <2> QED  BY <2>3, <2>4
<1> QED  BY <1>7, <1>8 DEF DetectService, PortsDetected

(* What plugins do comes after.                                            *)
LEMMA PluginsComeAfter ==
  ASSUME IInv,
         \/ ExactTurn \/ WildcardTurn \/ WildcardPort \/ WildcardTurnEnds \/ PluginsDone
         \/ SetKbItem \/ ReportVuln \/ InvokeReturns
  PROVE  DetectInv'
<1>1. host \in HostSet /\ disp \in DispSet /\ disp.turn \in Nat /\ disp.turn >= 1
      /\ (host.pc \in {"plugins", "ports", "run"} => host.up)
  BY TurnFacts
<1>2. ASSUME disp' = NextTurn, host'.pc = "plugins" PROVE Running' /\ ~Detecting'
  <2>1. disp'.turn = disp.turn + 1
    BY <1>2, NextTurnIs
  <2> QED  BY <1>1, <1>2, <2>1 DEF Running, Detecting
<1>3. ASSUME host'.pc \in {"ports", "run"} PROVE Running' /\ ~Detecting'
  BY <1>3 DEF Running, Detecting
<1>4. CASE ExactTurn \/ WildcardTurn
  <2>1. \/ disp' = NextTurn /\ host' = host /\ host.pc = "plugins"
        \/ host' = [host EXCEPT !.pc = "run"] \/ host' = [host EXCEPT !.pc = "ports"]
    BY <1>4 DEF ExactTurn, WildcardTurn
  <2>2. \/ disp' = NextTurn /\ host'.pc = "plugins"
        \/ host'.pc \in {"ports", "run"}
    BY <1>1, <2>1 DEF HostSet
  <2> QED  BY <1>2, <1>3, <2>2 DEF DetectInv
<1>5. CASE WildcardPort \/ SetKbItem \/ ReportVuln
  <2>1. host'.pc \in {"ports", "run"}
    BY <1>1, <1>5 DEF WildcardPort, SetKbItem, ReportVuln, HostSet
  <2> QED  BY <1>3, <2>1 DEF DetectInv
<1>6. CASE WildcardTurnEnds \/ InvokeReturns
  <2>1. \/ disp' = NextTurn /\ host'.pc = "plugins"
        \/ host'.pc \in {"ports", "run"}
    BY <1>1, <1>6 DEF WildcardTurnEnds, InvokeReturns, HostSet
  <2> QED  BY <1>2, <1>3, <2>1 DEF DetectInv
<1>7. CASE PluginsDone
  <2>1. host'.pc = "done" /\ host'.up
    BY <1>1, <1>7 DEF PluginsDone, HostSet
  <2> QED  BY <2>1 DEF DetectInv, Running, Detecting
<1> QED  BY <1>4, <1>5, <1>6, <1>7

(* The invariant of detection holds in the beginning and is kept.           *)
LEMMA DetectInductive ==
  /\ Init => DetectInv
  /\ IInv /\ DetectInv /\ [Next]_vars => DetectInv'
<1>1. Init => DetectInv
  <2> SUFFICES ASSUME Init, NEW i \in DOMAIN host.ports PROVE Untouched(i)
    BY DEF DetectInv
  <2>1. KeysOf(kb) = {} /\ Range(todo) = {}
    BY CreateIs DEF Init, KeysOf, Range
  <2> QED  BY <2>1 DEF Untouched, Held
<1>2. ASSUME IInv, DetectInv, [Next]_vars PROVE DetectInv'
  <2>1. CASE UNCHANGED vars
    <3>1. /\ Running' <=> Running
          /\ Detecting' <=> Detecting
          /\ \A k, v : Held(k, v)' <=> Held(k, v)
          /\ UNCHANGED <<host, oom>>
      BY <2>1 DEF vars, Running, Detecting, Held
    <3>2. \A i \in DOMAIN host.ports :
            (Untouched(i) => Untouched(i)') /\ (FollowsAnswer(i) => FollowsAnswer(i)')
      BY <3>1, SameHeld
    <3> QED  BY <1>2, <3>1, <3>2 DEF DetectInv
  <2>2. CASE \/ Load \/ AbortMain \/ StartScan \/ CreateKb \/ HostScanFails \/ SkipDiscovery
             \/ IcmpEchoProbe \/ FallBackToTcpPing \/ TcpPing \/ ProbePort \/ PortsScanned
    <3>1. oom' = oom \/ oom' = oom + 1
      BY <2>2 DEF Load, AbortMain, StartScan, CreateKb, HostScanFails, SkipDiscovery,
           IcmpEchoProbe, FallBackToTcpPing, TcpPing, ProbePort, PortsScanned, RegNext, LoadFails,
           ScanFilenames, RegisterFile, Listed, CheckDependencies, PlaceNext, FindCycle, Reorder
    <3>2. oom' = 0 => oom = 0
      BY <1>2, <3>1, TurnFacts
    <3> QED  BY <1>2, <2>2, <3>2, BeforeDetection
  <2>3. CASE KbWrite
    BY <1>2, <2>3, WriteKeepsDetected
  <2>4. CASE DetectService \/ PortsDetected
    BY <1>2, <2>4, DetectionKeeps
  <2>5. CASE \/ ExactTurn \/ WildcardTurn \/ WildcardPort \/ WildcardTurnEnds \/ PluginsDone
             \/ SetKbItem \/ ReportVuln \/ InvokeReturns
    BY <1>2, <2>5, PluginsComeAfter
  <2> QED  BY <1>2, <2>1, <2>2, <2>3, <2>4, <2>5 DEF Next, Finished
<1> QED  BY <1>1, <1>2

(* service_detect.c says https of a port exactly when TLS was spoken with  *)
(* it, gives it a second service only then, and says nothing of a port     *)
(* that was not open.                                                      *)
THEOREM TokensAlwaysFollowTls == Spec => []TokensFollowTls
<1>1. IInv /\ DetectInv => TokensFollowTls
  <2> SUFFICES ASSUME IInv, DetectInv, host.pc = "plugins", disp.turn = 1, oom = 0,
                      NEW i \in DOMAIN host.ports
               PROVE  LET p == host.ports[i]
                          Tokens == {k \in Key : k[1] = "Services" /\ k[3] = p /\ Present(kb, k)}
                          Facts == {k \in Key : Len(k) = 2 /\ k[1] # "Ports" /\ k[2] = p /\ Present(kb, k)}
                          secure == Get(kb, TlsEnabledKey(p)) = "true"
                      IN  /\ ServiceKey("https", p) \in Tokens <=> secure
                          /\ Cardinality(Tokens) <= IF secure THEN 2 ELSE 1
                          /\ Tokens \union Facts # {} => host.states[i] = "open"
    BY DEF TokensFollowTls
  <2> DEFINE p == host.ports[i]
             Tokens == {k \in Key : k[1] = "Services" /\ k[3] = p /\ Present(kb, k)}
             Facts == {k \in Key : Len(k) = 2 /\ k[1] # "Ports" /\ k[2] = p /\ Present(kb, k)}
             secure == Get(kb, TlsEnabledKey(p)) = "true"
             https == ServiceKey("https", p)
             tls == TlsEnabledKey(p)
  <2>1. Untouched(i) \/ FollowsAnswer(i)
    BY DEF DetectInv, Detecting
  <2>2. ASSUME NEW k \in Key PROVE Present(kb, k) <=> \E v \in KbValue : Held(k, v)
    <3>1. Range(todo) = {}
      BY DEF IInv, PhaseInv, Running, Range
    <3>2. Present(kb, k) <=> k \in KeysOf(kb)
      BY KeysAre DEF IInv
    <3>3. Present(kb, k) => Get(kb, k) \in KbValue
      <4> SUFFICES ASSUME Find(kb, k) # {} PROVE (CHOOSE e \in Find(kb, k) : TRUE).value \in KbValue
        BY DEF Get, Present
      <4>1. \A e \in Entries(kb) : e.value \in KbValue
        BY TableIs DEF IInv, SoundTable, Entries
      <4>2. Find(kb, k) \subseteq Entries(kb)
        BY FindIs DEF IInv
      <4> QED  BY <4>1, <4>2
    <3> QED  BY <3>1, <3>2, <3>3 DEF Held
  <2>3. ASSUME NEW k \in Key, NEW v \in KbValue, Held(k, v) PROVE Get(kb, k) = v
    <3>1. Range(todo) = {}
      BY DEF IInv, PhaseInv, Running, Range
    <3> QED  BY <2>3, <3>1 DEF Held
  <2>4. /\ \A k \in Tokens \union Facts : About(k, p) /\ k \in Key /\ Present(kb, k)
        /\ About(https, p) /\ About(tls, p) /\ https[1] = "Services" /\ https[3] = p
    BY DEF About, ServiceKey, TlsEnabledKey
  <2>5. tls \in Key /\ \A a \in Answers : DetectPort(p, a) \in Seq(KbWrites)
    <3>1. PICK s \in Scenarios : host.ports = s.ports
      BY DEF IInv, TypeOK, HostSet
    <3> QED  BY <3>1, KeyAssumption
  <2>6. secure <=> Held(tls, "true")
    <3>1. "true" \in KbValue /\ NotFound # "true"
      BY KeyAssumption
    <3>2. secure => Present(kb, tls)
      BY <3>1 DEF Get
    <3>3. secure => Held(tls, "true")
      <4> SUFFICES ASSUME secure PROVE Held(tls, "true")
        OBVIOUS
      <4>1. PICK v \in KbValue : Held(tls, v)
        BY <2>2, <2>5, <3>2
      <4>2. Get(kb, tls) = v
        BY <2>3, <2>5, <4>1
      <4> QED  BY <4>1, <4>2
    <3> QED  BY <2>3, <2>5, <3>1, <3>3
  <2>7. "true" \in KbValue
    BY KeyAssumption
  <2> HIDE DEF Tokens, Facts, secure, https, tls
  <2>8. CASE Untouched(i)
    <3>1. \A k \in Key, v \in KbValue : About(k, p) => ~Held(k, v)
      BY <2>8 DEF Untouched
    <3>2. Tokens \union Facts = {}
      BY <2>2, <2>4, <3>1
    <3>3. ~secure
      BY <2>4, <2>5, <2>6, <2>7, <3>1
    <3>4. Cardinality(Tokens) = 0
      BY <3>2, FS_EmptySet
    <3>5. /\ https \in Tokens <=> secure
          /\ Cardinality(Tokens) <= IF secure THEN 2 ELSE 1
          /\ Tokens \union Facts # {} => host.states[i] = "open"
      BY <3>2, <3>3, <3>4
    <3> QED  BY <3>5 DEF Tokens, Facts, secure, https
  <2>9. CASE FollowsAnswer(i)
    <3>1. PICK a \in Answers :
            \A k \in Key, v \in KbValue : About(k, p) =>
              /\ Held(k, v) => <<k, v>> \in Range(DetectPort(p, a))
              /\ <<k, v>> \in Range(DetectPort(p, a)) => \E u \in KbValue : Held(k, u)
      BY <2>9 DEF FollowsAnswer
    <3>2. PICK x, e : x # "https" /\ Outcome(DetectPort(p, a), p, x, e)
      BY DetectIs
    <3> HIDE DEF p
    <3>3. ASSUME NEW k \in Key, NEW v \in KbValue, About(k, p), Held(k, v)
          PROVE  /\ k = tls => v = e
                 /\ k[1] = "Services" => k = ServiceKey(x, p) \/ (k = https /\ e = "true")
      <4>1. <<k, v>> \in Writes(p, x, e)
        BY <3>1, <3>2, <3>3 DEF Outcome
      <4>2. <<k, v>>[1] = k /\ <<k, v>>[2] = v
        OBVIOUS
      <4> QED  BY <3>2, <4>1, <4>2, OutcomeIs DEF tls, https
    <3>4. secure <=> e = "true"
      <4>1. ASSUME secure PROVE e = "true"
        BY <2>4, <2>5, <2>6, <2>7, <3>3, <4>1
      <4>2. ASSUME e = "true" PROVE secure
        <5>1. <<tls, "true">> \in Range(DetectPort(p, a))
          BY <3>2, <4>2 DEF Outcome, TlsTried, tls
        <5>2. PICK u \in KbValue : Held(tls, u)
          BY <2>4, <2>5, <2>7, <3>1, <5>1
        <5>3. u = "true"
          BY <2>4, <2>5, <3>3, <4>2, <5>2
        <5> QED  BY <2>6, <5>2, <5>3
      <4> QED  BY <4>1, <4>2
    <3>5. \A k \in Tokens : k = ServiceKey(x, p) \/ (k = https /\ secure)
      <4> SUFFICES ASSUME NEW k \in Tokens PROVE k = ServiceKey(x, p) \/ (k = https /\ secure)
        OBVIOUS
      <4>1. PICK v \in KbValue : Held(k, v)
        BY <2>2, <2>4
      <4>2. k[1] = "Services"
        BY DEF Tokens
      <4> QED  BY <2>4, <3>3, <3>4, <4>1, <4>2
    <3>6. https # ServiceKey(x, p)
      BY <3>2 DEF https, ServiceKey
    <3>7. https \in Tokens <=> secure
      <4>1. ASSUME secure PROVE https \in Tokens
        <5>1. <<https, "int">> \in Range(DetectPort(p, a))
          BY <3>2, <3>4, <4>1 DEF Outcome, TlsSpoken, TokenOf, https
        <5>2. <<https, "int">> \in KbWrites
          BY <2>5, <5>1, Wider
        <5>3. https \in Key /\ "int" \in KbValue
          BY <5>2 DEF KbWrites
        <5>4. Present(kb, https)
          BY <2>2, <2>4, <3>1, <5>1, <5>3
        <5> QED  BY <2>4, <5>3, <5>4 DEF Tokens
      <4> QED  BY <3>5, <3>6, <4>1
    <3>8. Cardinality(Tokens) <= IF secure THEN 2 ELSE 1
      <4> DEFINE s == ServiceKey(x, p)
      <4> HIDE DEF s
      <4>1. IsFiniteSet({s}) /\ Cardinality({s}) = 1
        BY FS_Singleton
      <4>2. IsFiniteSet({s} \union {https}) /\ Cardinality({s} \union {https}) = 2
        <5>1. https \notin {s}
          BY <3>6 DEF s
        <5>2. /\ IsFiniteSet({s} \union {https})
              /\ Cardinality({s} \union {https}) = Cardinality({s}) + 1
          BY <4>1, <5>1, FS_AddElement
        <5> QED  BY <4>1, <5>2
      <4>3. CASE secure
        <5>1. Tokens \subseteq {s} \union {https}
          BY <3>5 DEF s
        <5> QED  BY <4>2, <4>3, <5>1, FS_Subset
      <4>4. CASE ~secure
        <5>1. Tokens \subseteq {s}
          BY <3>5, <4>4 DEF s
        <5> QED  BY <4>1, <4>4, <5>1, FS_Subset
      <4> QED  BY <4>3, <4>4
    <3>9. host.states[i] = "open"
      BY <2>9 DEF FollowsAnswer
    <3> QED  BY <3>7, <3>8, <3>9 DEF p, Tokens, Facts, secure, https
  <2> QED  BY <2>1, <2>8, <2>9
<1>2. IInv /\ DetectInv /\ [Next]_vars => DetectInv'
  BY DetectInductive
<1>3. Init => DetectInv
  BY DetectInductive
<1> QED  BY <1>1, <1>2, <1>3, Inductive, PTL DEF Spec

-----------------------------------------------------------------------------
(***************************************************************************)
(* The gate of the knowledge base (KbValidate, called by GateCalls).  One  *)
(* turn of the UTF-8 loop accepts exactly one character (CharIs, by the    *)
(* ranges of the first byte), the answers for the suffixes of a text are a *)
(* recursive function that looks ahead (BackwardRun), and a text can be    *)
(* cut into characters exactly when they lead from its first byte to its   *)
(* end (Utf8Is).                                                           *)
(***************************************************************************)

(* A set of numbers that is not empty has a least member.                   *)
LEMMA LeastNat ==
  ASSUME NEW S \in SUBSET Nat, S # {}
  PROVE  \E x \in S : \A y \in S : x <= y
<1>1. IsWellFoundedOn(OpToRel(<, Nat), Nat)
  BY NatLessThanWellFounded
<1>2. PICK x \in S : \A y \in S : ~(<<y, x>> \in OpToRel(<, Nat))
  BY <1>1, WFMin
<1>3. \A y \in S : ~(y < x)
  BY <1>2 DEF OpToRel
<1> QED  BY <1>3

(* The step of a recursive function whose value at a position depends on    *)
(* the values at later positions only.                                      *)
LooksAhead(M, T, step) ==
  /\ \A i \in 1 .. M : \A g \in [1 .. M -> T] : step[i][g] \in T
  /\ \A i \in 1 .. M : \A g, h \in [1 .. M -> T] :
       (\A j \in i + 1 .. M : g[j] = h[j]) => step[i][g] = step[i][h]

(* The functions that follow the steps at the last k positions.             *)
Solved(M, T, step, k) ==
  {g \in [1 .. M -> T] : \A i \in 1 .. M : i > M - k => g[i] = step[i][g]}

(* Such a function exists, by induction on the positions from the last one. *)
LEMMA BackwardRun ==
  ASSUME NEW M \in Nat, NEW T, NEW t \in T, NEW step, LooksAhead(M, T, step)
  PROVE  \E g \in [1 .. M -> T] : \A i \in 1 .. M : g[i] = step[i][g]
<1> USE DEF LooksAhead
<1> DEFINE S == {k \in 0 .. M : Solved(M, T, step, k) = {}}
<1>1. CASE S = {}
  <2>1. PICK g : g \in Solved(M, T, step, M)
    BY <1>1
  <2>2. g \in [1 .. M -> T] /\ \A i \in 1 .. M : i > M - M => g[i] = step[i][g]
    BY <2>1 DEF Solved
  <2>3. \A i \in 1 .. M : i > M - M
    OBVIOUS
  <2> QED  BY <2>2, <2>3
<1>2. CASE S # {}
  <2>1. S \in SUBSET Nat
    OBVIOUS
  <2>2. PICK m \in S : \A y \in S : m <= y
    <3> HIDE DEF S
    <3> QED  BY <1>2, <2>1, LeastNat
  <2>3. m # 0
    <3>1. [i \in 1 .. M |-> t] \in Solved(M, T, step, 0)
      BY DEF Solved
    <3> QED  BY <2>2, <3>1
  <2>4. m \in 1 .. M /\ m - 1 \in 0 .. M /\ m - 1 \notin S
    BY <2>2, <2>3
  <2>5. PICK g : g \in Solved(M, T, step, m - 1)
    BY <2>4
  <2> DEFINE p == M - m + 1
             h == [i \in 1 .. M |-> IF i = p THEN step[p][g] ELSE g[i]]
  <2>6. g \in [1 .. M -> T] /\ \A i \in 1 .. M : i > M - (m - 1) => g[i] = step[i][g]
    BY <2>5 DEF Solved
  <2>7. p \in 1 .. M
    BY <2>4
  <2>8. h \in [1 .. M -> T]
    BY <2>6, <2>7
  <2>9. ASSUME NEW i \in 1 .. M, i > M - m PROVE h[i] = step[i][h]
    <3>1. \A j \in i + 1 .. M : j \in 1 .. M /\ j # p
      BY <2>4, <2>9
    <3>2. \A j \in i + 1 .. M : g[j] = h[j]
      BY <3>1
    <3>3. step[i][g] = step[i][h]
      <4> HIDE DEF h
      <4> QED  BY <2>6, <2>8, <3>2
    <3>4. CASE i = p
      BY <3>3, <3>4
    <3>5. CASE i # p
      <4>1. i > M - (m - 1)
        BY <2>4, <2>9, <3>5
      <4> QED  BY <2>6, <3>3, <3>5, <4>1
    <3> QED  BY <3>4, <3>5
  <2>10. h \in Solved(M, T, step, m)
    BY <2>8, <2>9 DEF Solved
  <2> QED  BY <2>2, <2>10
<1> QED  BY <1>1, <1>2

(* How many bytes follow a first byte, and whether the bytes at a position  *)
(* pass the checks of one turn of the validator's loop.                     *)
Extra(b) == IF b < 128 THEN 0 ELSE Follow(b).extra
Fits(buf, i) ==
  buf[i] < 128 \/ LET f == Follow(buf[i])
                  IN  /\ f.extra > 0 /\ i + f.extra <= Len(buf)
                      /\ buf[i + 1] \in f.lo .. f.hi
                      /\ \A k \in 2 .. f.extra : buf[i + k] \in 128 .. 191

(* The bytes of the form 10xxxxxx, and the low bits of a byte.              *)
LEMMA ByteIs ==
  ASSUME NEW c \in 0 .. 255
  PROVE  /\ c \div 64 = 2 <=> c \in 128 .. 191
         /\ c \in 128 .. 191 => c % 64 = c - 128
         /\ c \in 192 .. 223 => c % 32 = c - 192
         /\ c \in 224 .. 239 => c % 16 = c - 224
         /\ c \in 240 .. 247 => c % 8 = c - 240
OBVIOUS


(* The length of a character, by the range of its first byte.               *)
LEMMA UnitsIs ==
  ASSUME NEW b \in 0 .. 255
  PROVE  /\ b < 128 => Units(b) = 1
         /\ b \in 128 .. 191 \/ b \in 248 .. 255 => Units(b) = 0
         /\ b \in 192 .. 223 => Units(b) = 2
         /\ b \in 224 .. 239 => Units(b) = 3
         /\ b \in 240 .. 247 => Units(b) = 4
BY SMT DEF Units

(* The table of the validator, by ranges.                                   *)
LEMMA FollowIs ==
  ASSUME NEW b \in 128 .. 255
  PROVE  /\ Follow(b).extra = IF b \in 194 .. 223 THEN 1 ELSE IF b \in 224 .. 239 THEN 2
                              ELSE IF b \in 240 .. 244 THEN 3 ELSE 0
         /\ b \in 194 .. 244 => /\ Follow(b).lo = IF b = 224 THEN 160 ELSE IF b = 240 THEN 144 ELSE 128
                                /\ Follow(b).hi = IF b = 237 THEN 159 ELSE IF b = 244 THEN 143 ELSE 191
BY SMT DEF Follow

(* A position of a text, its byte, and the character of n bytes there.      *)
At(buf, L, i, b, n, x) ==
  /\ L = Len(buf) /\ b = buf[i] /\ x = CodePoint(buf, i, n)
  /\ \A k \in 1 .. L : buf[k] \in 0 .. 255

(* One turn of the validator's loop accepts exactly one character.          *)
LEMMA CharIs ==
  ASSUME NEW buf, NEW L \in Nat, NEW i \in 1 .. L, NEW b \in 0 .. 255, NEW n \in 1 .. 4,
         NEW x, At(buf, L, i, b, n, x)
  PROVE  IsCharacter(buf, i, n) <=> Fits(buf, i) /\ n = Extra(b) + 1
<1>1. b = buf[i] /\ L = Len(buf)
  BY DEF At
<1>7. ASSUME b >= 128
      PROVE  Fits(buf, i) <=>
                /\ Follow(b).extra > 0 /\ i + Follow(b).extra <= L
                /\ buf[i + 1] \in Follow(b).lo .. Follow(b).hi
                /\ \A k \in 2 .. Follow(b).extra : buf[i + k] \in 128 .. 191
  BY <1>1, <1>7, SMT DEF Fits
<1>8. \A k \in 1 .. L : buf[k] \div 64 = 2 <=> buf[k] \in 128 .. 191
  <2> TAKE k \in 1 .. L
  <2>1. PICK c \in 0 .. 255 : c = buf[k]
    BY Zenon DEF At
  <2>2. c \div 64 = 2 <=> c \in 128 .. 191
    BY SMT
  <2> QED  BY <2>1, <2>2
<1>2. CASE b < 128
  <2>1. Units(b) = 1
    BY <1>2, UnitsIs, SMT
  <2>2. Fits(buf, i) /\ Extra(b) = 0
    BY <1>1, <1>2, SMT DEF Fits, Extra
  <2>3. ASSUME n = 1 PROVE IsCharacter(buf, i, n)
    <3>1. x = b /\ LeastCodePoint(n) = 0
      BY <2>3, SMT DEF CodePoint, LeastCodePoint, At
    <3>2. n = Units(b) /\ n # 0 /\ i + n <= L + 1
      BY <2>1, <2>3, SMT
    <3>3. \A k \in 1 .. n - 1 : buf[i + k] \div 64 = 2
      BY <2>3, SMT
    <3>4. LeastCodePoint(n) <= x /\ x <= 1114111 /\ ~(55296 <= x /\ x <= 57343)
      <4> QED  BY <1>2, <3>1, SMT
    <3> QED  BY <3>2, <3>3, <3>4, SMT DEF IsCharacter, At
  <2>4. IsCharacter(buf, i, n) => n = 1
    BY <1>1, <2>1, SMT DEF IsCharacter
  <2> QED  BY <2>2, <2>3, <2>4, SMT
<1>3. CASE b \in 128 .. 191 \/ b \in 248 .. 255
  <2>1. Units(b) = 0
    BY <1>3, UnitsIs, SMT
  <2>2. ~(b < 128) /\ Follow(b).extra = 0
    BY <1>3, FollowIs, SMT
  <2>3. ~Fits(buf, i)
    BY <1>1, <2>2, SMT DEF Fits
  <2>4. ~IsCharacter(buf, i, n)
    BY <1>1, <2>1, SMT DEF IsCharacter
  <2> QED  BY <2>3, <2>4
<1>4. CASE b \in 192 .. 223
  <2>1. Units(b) = 2
    BY <1>4, UnitsIs, SMT
  <2>2. ~(b < 128) /\ Follow(b).extra = (IF b >= 194 THEN 1 ELSE 0)
    BY <1>4, FollowIs, SMT
  <2>3. ASSUME b >= 194 PROVE Follow(b).lo = 128 /\ Follow(b).hi = 191
    <3>1. b \in 128 .. 255 /\ b \in 194 .. 244
      BY <1>4, <2>3, SMT
    <3>2. /\ Follow(b).lo = IF b = 224 THEN 160 ELSE IF b = 240 THEN 144 ELSE 128
          /\ Follow(b).hi = IF b = 237 THEN 159 ELSE IF b = 244 THEN 143 ELSE 191
      BY <3>1, FollowIs
    <3> QED  BY <1>4, <3>2, SMT
  <2>4. Fits(buf, i) <=> b >= 194 /\ i + 1 <= L /\ buf[i + 1] \in 128 .. 191
    BY <1>4, <1>7, <2>2, <2>3, SMT
  <2>5. Fits(buf, i) => Extra(b) = 1
    BY <2>2, <2>4, SMT DEF Extra
  <2>6. IsCharacter(buf, i, n) => n = 2
    BY <1>1, <2>1, SMT DEF IsCharacter
  <2>7. ASSUME n = 2 PROVE IsCharacter(buf, i, n) <=> Fits(buf, i)
    <3>1. x = (b % 32) * 64 + (buf[i + 1] % 64) /\ LeastCodePoint(n) = 128
      BY <2>7, SMT DEF CodePoint, LeastCodePoint, At
    <3>2. IsCharacter(buf, i, n) <=>
             /\ i + 1 <= L /\ buf[i + 1] \div 64 = 2
             /\ 128 <= x /\ x <= 1114111 /\ ~(55296 <= x /\ x <= 57343)
      <4>1. (\A k \in 1 .. n - 1 : buf[i + k] \div 64 = 2) <=> buf[i + 1] \div 64 = 2
        BY <2>7, SMT
      <4>2. i + n <= L + 1 <=> i + 1 <= L
        BY <2>7, SMT
      <4>3. n = Units(b) /\ n # 0
        BY <2>1, <2>7, SMT
      <4>4. b = buf[i] /\ L = Len(buf) /\ x = CodePoint(buf, i, n)
        BY DEF At
      <4>5. IsCharacter(buf, i, n) <=>
               /\ i + n <= L + 1 /\ \A k \in 1 .. n - 1 : buf[i + k] \div 64 = 2
               /\ LeastCodePoint(n) <= x /\ x <= 1114111 /\ ~(55296 <= x /\ x <= 57343)
        BY <4>3, <4>4, SMT DEF IsCharacter
      <4> QED  BY <3>1, <4>1, <4>2, <4>5, SMT
    <3>3. ASSUME i + 1 <= L, buf[i + 1] \in 128 .. 191
          PROVE  (128 <= x /\ x <= 1114111 /\ ~(55296 <= x /\ x <= 57343)) <=> b >= 194
      <4>1. (128 <= x <=> b >= 194) /\ x <= 2047
        <5>1. PICK c \in 128 .. 191 : c = buf[i + 1]
          BY <3>3, Zenon
        <5>2. b % 32 = b - 192 /\ c % 64 = c - 128
          BY <1>4, ByteIs, SMT
        <5>3. x = (b - 192) * 64 + c - 128
          BY <3>1, <5>1, <5>2, SMT
        <5> QED  BY <1>4, <5>3, SMT
      <4>2. x \in Int
        <5> QED  BY <1>4, <3>1, <3>3, SMT
      <4> QED  BY <4>1, <4>2, SMT
    <3>4. i + 1 <= L => (buf[i + 1] \div 64 = 2 <=> buf[i + 1] \in 128 .. 191)
      BY <1>8, SMT
    <3> QED  BY <2>4, <3>2, <3>3, <3>4, SMT
  <2> QED  BY <2>5, <2>6, <2>7, <2>4, SMT
<1>5. CASE b \in 224 .. 239
  <2>1. Units(b) = 3
    BY <1>5, UnitsIs, SMT
  <2>2. ~(b < 128) /\ Follow(b).extra = 2
    BY <1>5, FollowIs, SMT
  <2>3. /\ Follow(b).lo = IF b = 224 THEN 160 ELSE 128
        /\ Follow(b).hi = IF b = 237 THEN 159 ELSE 191
    BY <1>5, FollowIs, SMT
  <2>4. Fits(buf, i) <=> /\ i + 2 <= L /\ buf[i + 1] \in 128 .. 191 /\ buf[i + 2] \in 128 .. 191
                         /\ b # 224 \/ buf[i + 1] >= 160
                         /\ ~(b = 237 /\ buf[i + 1] >= 160)
    BY <1>5, <1>7, <2>2, <2>3, SMT
  <2>5. Extra(b) = 2
    BY <2>2, SMT DEF Extra
  <2>6. IsCharacter(buf, i, n) => n = 3
    BY <1>1, <2>1, SMT DEF IsCharacter
  <2>7. ASSUME n = 3 PROVE IsCharacter(buf, i, n) <=> Fits(buf, i)
    <3>1. x = (b % 16) * 4096 + (buf[i + 1] % 64) * 64 + (buf[i + 2] % 64) /\ LeastCodePoint(n) = 2048
      BY <2>7, SMT DEF CodePoint, LeastCodePoint, At
    <3>2. IsCharacter(buf, i, n) <=>
             /\ i + 2 <= L /\ buf[i + 1] \div 64 = 2 /\ buf[i + 2] \div 64 = 2
             /\ 2048 <= x /\ x <= 1114111 /\ ~(55296 <= x /\ x <= 57343)
      <4>1. (\A k \in 1 .. n - 1 : buf[i + k] \div 64 = 2)
               <=> buf[i + 1] \div 64 = 2 /\ buf[i + 2] \div 64 = 2
        BY <2>7, SMT
      <4>2. i + n <= L + 1 <=> i + 2 <= L
        BY <2>7, SMT
      <4>3. n = Units(b) /\ n # 0
        BY <2>1, <2>7, SMT
      <4>4. b = buf[i] /\ L = Len(buf) /\ x = CodePoint(buf, i, n)
        BY DEF At
      <4>5. IsCharacter(buf, i, n) <=>
               /\ i + n <= L + 1 /\ \A k \in 1 .. n - 1 : buf[i + k] \div 64 = 2
               /\ LeastCodePoint(n) <= x /\ x <= 1114111 /\ ~(55296 <= x /\ x <= 57343)
        BY <4>3, <4>4, SMT DEF IsCharacter
      <4> QED  BY <3>1, <4>1, <4>2, <4>5, SMT
    <3>3. ASSUME i + 2 <= L, buf[i + 1] \in 128 .. 191, buf[i + 2] \in 128 .. 191
          PROVE  (2048 <= x /\ x <= 1114111 /\ ~(55296 <= x /\ x <= 57343))
                    <=> (b # 224 \/ buf[i + 1] >= 160) /\ ~(b = 237 /\ buf[i + 1] >= 160)
      <4>1. /\ 2048 <= x <=> (b # 224 \/ buf[i + 1] >= 160)
            /\ (55296 <= x /\ x <= 57343) <=> (b = 237 /\ buf[i + 1] >= 160)
            /\ x <= 65535
        <5>1. PICK c \in 128 .. 191, d \in 128 .. 191 : c = buf[i + 1] /\ d = buf[i + 2]
          BY <3>3, Zenon
        <5>2. b % 16 = b - 224 /\ c % 64 = c - 128 /\ d % 64 = d - 128
          BY <1>5, ByteIs, SMT
        <5>4. x = (b - 224) * 4096 + (c - 128) * 64 + d - 128
          BY <3>1, <5>1, <5>2, SMT
        <5>3. /\ 2048 <= x <=> (b # 224 \/ c >= 160)
              /\ (55296 <= x /\ x <= 57343) <=> (b = 237 /\ c >= 160)
              /\ x <= 65535
          BY <1>5, <5>4, SMT
        <5> QED  BY <5>1, <5>3, SMT
      <4>2. x \in Int
        <5> QED  BY <1>5, <3>1, <3>3, SMT
      <4> QED  BY <4>1, <4>2, SMT
    <3>4. i + 2 <= L => /\ buf[i + 1] \div 64 = 2 <=> buf[i + 1] \in 128 .. 191
                        /\ buf[i + 2] \div 64 = 2 <=> buf[i + 2] \in 128 .. 191
      BY <1>8, SMT
    <3> QED  BY <2>4, <3>2, <3>3, <3>4, SMT
  <2> QED  BY <2>5, <2>6, <2>7, SMT
<1>6. CASE b \in 240 .. 247
  <2>1. Units(b) = 4
    BY <1>6, UnitsIs, SMT
  <2>2. ~(b < 128) /\ Follow(b).extra = IF b <= 244 THEN 3 ELSE 0
    BY <1>6, FollowIs, SMT
  <2>3. b <= 244 => /\ Follow(b).lo = IF b = 240 THEN 144 ELSE 128
                    /\ Follow(b).hi = IF b = 244 THEN 143 ELSE 191
    BY <1>6, FollowIs, SMT
  <2>4. Fits(buf, i) <=> /\ i + 3 <= L
                         /\ \A k \in 1 .. 3 : buf[i + k] \in 128 .. 191
                         /\ b # 240 \/ buf[i + 1] >= 144
                         /\ b <= 243 \/ (b = 244 /\ buf[i + 1] <= 143)
    BY <1>6, <1>7, <2>2, <2>3, SMT
  <2>5. Fits(buf, i) => Extra(b) = 3
    BY <2>2, <2>4, SMT DEF Extra
  <2>6. IsCharacter(buf, i, n) => n = 4
    BY <1>1, <2>1, SMT DEF IsCharacter
  <2>7. ASSUME n = 4 PROVE IsCharacter(buf, i, n) <=> Fits(buf, i)
    <3>1. /\ x = (b % 8) * 262144 + (buf[i + 1] % 64) * 4096 + (buf[i + 2] % 64) * 64
                    + (buf[i + 3] % 64)
          /\ LeastCodePoint(n) = 65536
      BY <2>7, SMT DEF CodePoint, LeastCodePoint, At
    <3>2. IsCharacter(buf, i, n) <=>
             /\ i + 3 <= L /\ \A k \in 1 .. 3 : buf[i + k] \div 64 = 2
             /\ 65536 <= x /\ x <= 1114111 /\ ~(55296 <= x /\ x <= 57343)
      <4>1. (\A k \in 1 .. n - 1 : buf[i + k] \div 64 = 2)
               <=> \A k \in 1 .. 3 : buf[i + k] \div 64 = 2
        BY <2>7, SMT
      <4>2. i + n <= L + 1 <=> i + 3 <= L
        BY <2>7, SMT
      <4>3. n = Units(b) /\ n # 0
        BY <2>1, <2>7, SMT
      <4>4. b = buf[i] /\ L = Len(buf) /\ x = CodePoint(buf, i, n)
        BY DEF At
      <4>5. IsCharacter(buf, i, n) <=>
               /\ i + n <= L + 1 /\ \A k \in 1 .. n - 1 : buf[i + k] \div 64 = 2
               /\ LeastCodePoint(n) <= x /\ x <= 1114111 /\ ~(55296 <= x /\ x <= 57343)
        BY <4>3, <4>4, SMT DEF IsCharacter
      <4> QED  BY <3>1, <4>1, <4>2, <4>5, SMT
    <3>3. ASSUME i + 3 <= L, \A k \in 1 .. 3 : buf[i + k] \in 128 .. 191
          PROVE  (65536 <= x /\ x <= 1114111 /\ ~(55296 <= x /\ x <= 57343))
                    <=> /\ b # 240 \/ buf[i + 1] >= 144
                        /\ b <= 243 \/ (b = 244 /\ buf[i + 1] <= 143)
      <4>0. buf[i + 1] \in 128 .. 191 /\ buf[i + 2] \in 128 .. 191 /\ buf[i + 3] \in 128 .. 191
        BY <3>3, SMT
      <4>1. /\ 65536 <= x <=> (b # 240 \/ buf[i + 1] >= 144)
            /\ x <= 1114111 <=> (b <= 243 \/ (b = 244 /\ buf[i + 1] <= 143))
            /\ (55296 <= x /\ x <= 57343) => ~(65536 <= x)
        <5>1. PICK c \in 128 .. 191, d \in 128 .. 191, e \in 128 .. 191 :
                 c = buf[i + 1] /\ d = buf[i + 2] /\ e = buf[i + 3]
          BY <4>0, Zenon
        <5>2. b % 8 = b - 240 /\ c % 64 = c - 128 /\ d % 64 = d - 128 /\ e % 64 = e - 128
          <6>1. b % 8 = b - 240
            BY <1>6, SMT
          <6>2. c % 64 = c - 128
            BY SMT
          <6>3. d % 64 = d - 128
            BY SMT
          <6>4. e % 64 = e - 128
            BY SMT
          <6> QED  BY <6>1, <6>2, <6>3, <6>4
        <5>4. x = (b - 240) * 262144 + (c - 128) * 4096 + (d - 128) * 64 + (e - 128)
          <6>1. x = (b % 8) * 262144 + (c % 64) * 4096 + (d % 64) * 64 + (e % 64)
            BY <3>1, <5>1, SMT
          <6> QED  BY <5>2, <6>1, SMT
        <5>3. /\ 65536 <= x <=> (b # 240 \/ c >= 144)
              /\ x <= 1114111 <=> (b <= 243 \/ (b = 244 /\ c <= 143))
              /\ (55296 <= x /\ x <= 57343) => ~(65536 <= x)
          BY <1>6, <5>4, SMT
        <5> QED  BY <5>1, <5>3, SMT
      <4> QED  BY <4>1, SMT
    <3>4. i + 3 <= L => \A k \in 1 .. 3 : buf[i + k] \div 64 = 2 <=> buf[i + k] \in 128 .. 191
      BY <1>8, SMT
    <3> QED  BY <2>4, <3>2, <3>3, <3>4, SMT
  <2> QED  BY <2>5, <2>6, <2>7, <2>4, SMT
<1> QED  BY <1>2, <1>3, <1>4, <1>5, <1>6, SMT

(* One turn of the loop at position i, g telling the answer for the rest.   *)
Turn(buf, i, g) ==
  IF i > Len(buf) THEN TRUE
  ELSE IF buf[i] < 128 THEN g[i + 1]
  ELSE LET f == Follow(buf[i])
       IN  /\ f.extra > 0
           /\ i + f.extra <= Len(buf)
           /\ buf[i + 1] \in f.lo .. f.hi
           /\ \A k \in 2 .. f.extra : buf[i + k] \in 128 .. 191
           /\ g[i + f.extra + 1]

(* At most three bytes follow.                                              *)
LEMMA ExtraIs ==
  ASSUME NEW b \in 0 .. 255
  PROVE  /\ Extra(b) \in 0 .. 3
         /\ b >= 128 => Extra(b) = Follow(b).extra
<1>1. b >= 128 => Follow(b).extra \in 0 .. 3
  BY SMT DEF Follow
<1> QED  BY <1>1, SMT DEF Extra

(* A turn accepts the bytes of one character and goes on behind them.       *)
LEMMA TurnIs ==
  ASSUME NEW buf, NEW L \in Nat, L = Len(buf), NEW i \in 1 .. L, NEW b \in 0 .. 255, b = buf[i],
         NEW g
  PROVE  /\ Fits(buf, i) => i + Extra(b) <= L
         /\ Turn(buf, i, g) <=> Fits(buf, i) /\ g[i + Extra(b) + 1]
<1>1. CASE b < 128
  <2>1. Extra(b) = 0 /\ Fits(buf, i)
    BY <1>1, SMT DEF Extra, Fits
  <2>2. Turn(buf, i, g) <=> g[i + 1]
    BY <1>1, SMT DEF Turn
  <2>3. i + Extra(b) + 1 = i + 1
    BY <2>1, SMT
  <2> QED  BY <2>1, <2>2, <2>3, SMT
<1>2. CASE ~(b < 128)
  <2>1. Extra(b) = Follow(b).extra
    BY <1>2, SMT DEF Extra
  <2> DEFINE ok == /\ Follow(b).extra > 0
                   /\ i + Follow(b).extra <= L
                   /\ buf[i + 1] \in Follow(b).lo .. Follow(b).hi
                   /\ \A k \in 2 .. Follow(b).extra : buf[i + k] \in 128 .. 191
  <2>2. Turn(buf, i, g) <=> ok /\ g[i + Follow(b).extra + 1]
    BY <1>2, SMT DEF Turn
  <2>3. Fits(buf, i) <=> ok
    BY <1>2, SMT DEF Fits
  <2>4. ok => i + Extra(b) <= L
    BY <2>1, SMT
  <2> HIDE DEF ok
  <2> QED  BY <2>1, <2>2, <2>3, <2>4
<1> QED  BY <1>1, <1>2

(* The validator's answers for every suffix of a text.                      *)
LEMMA ValidIs ==
  ASSUME NEW L \in Nat, NEW buf \in [1 .. L -> 0 .. 255], Len(buf) = L
  PROVE  \E v : /\ ValidateUtf8(buf) = v[1] /\ v[L + 1] = TRUE
                /\ \A i \in 1 .. L : v[i] <=> Fits(buf, i) /\ v[i + Extra(buf[i]) + 1]
<1> DEFINE Valid(v) == v = [i \in 1 .. Len(buf) + 1 |->
                              IF i > Len(buf) THEN TRUE
                              ELSE IF buf[i] < 128 THEN v[i + 1]
                              ELSE LET f == Follow(buf[i])
                                   IN  /\ f.extra > 0
                                       /\ i + f.extra <= Len(buf)
                                       /\ buf[i + 1] \in f.lo .. f.hi
                                       /\ \A k \in 2 .. f.extra : buf[i + k] \in 128 .. 191
                                       /\ v[i + f.extra + 1]]
           valid == CHOOSE v : Valid(v)
           M == L + 1
           G == [1 .. M -> BOOLEAN]
           step == [i \in 1 .. M |-> [g \in G |-> Turn(buf, i, g)]]
<1>1. \A i \in 1 .. L : buf[i] \in 0 .. 255 /\ Extra(buf[i]) \in 0 .. 3
  BY ExtraIs
<1>2. ASSUME NEW i \in 1 .. L, NEW g
      PROVE  /\ Fits(buf, i) => i + Extra(buf[i]) <= L
             /\ Turn(buf, i, g) <=> Fits(buf, i) /\ g[i + Extra(buf[i]) + 1]
  BY <1>1, TurnIs
<1>3. \A g : Turn(buf, M, g) = TRUE
  BY SMT DEF Turn
<1>4. \A i \in 1 .. M : \A g \in G : Turn(buf, i, g) \in BOOLEAN
  <2> SUFFICES ASSUME NEW i \in 1 .. M, NEW g \in G PROVE Turn(buf, i, g) \in BOOLEAN
    OBVIOUS
  <2>1. CASE i = M
    BY <1>3, <2>1
  <2>2. CASE i # M /\ buf[i] < 128
    <3>1. ~(i > Len(buf)) /\ i + 1 \in 1 .. M
      BY <2>2, SMT
    <3>2. Turn(buf, i, g) = g[i + 1]
      BY <2>2, <3>1, Zenon DEF Turn
    <3> QED  BY <3>1, <3>2
  <2>3. CASE i # M /\ ~(buf[i] < 128)
    BY <2>3, Zenon DEF Turn
  <2> QED  BY <2>1, <2>2, <2>3
<1>5. PICK g \in G : \A i \in 1 .. M : g[i] = Turn(buf, i, g)
  <2>1. \A i \in 1 .. M : \A g \in G : step[i][g] = Turn(buf, i, g)
    OBVIOUS
  <2>2. ASSUME NEW i \in 1 .. M, NEW g \in G, NEW h \in G,
               \A j \in i + 1 .. M : g[j] = h[j]
        PROVE  Turn(buf, i, g) = Turn(buf, i, h)
    <3>1. CASE i = M
      BY <1>3, <3>1
    <3>2. CASE i # M
      <4>1. i \in 1 .. L
        BY <3>2
      <4>2. Fits(buf, i) => g[i + Extra(buf[i]) + 1] = h[i + Extra(buf[i]) + 1]
        <5>1. Fits(buf, i) => i + Extra(buf[i]) + 1 \in i + 1 .. M
          BY <1>1, <1>2, <4>1
        <5> QED  BY <2>2, <5>1
      <4>3. Turn(buf, i, g) <=> Turn(buf, i, h)
        BY <1>2, <4>1, <4>2
      <4>4. Turn(buf, i, g) \in BOOLEAN /\ Turn(buf, i, h) \in BOOLEAN
        BY <1>4
      <4> QED  BY <4>3, <4>4
    <3> QED  BY <3>1, <3>2
  <2>3. \E g \in [1 .. M -> BOOLEAN] : \A i \in 1 .. M : g[i] = step[i][g]
    <3>1. \A i \in 1 .. M : \A g \in [1 .. M -> BOOLEAN] : step[i][g] \in BOOLEAN
      BY <1>4, <2>1
    <3>2. \A i \in 1 .. M : \A g, h \in [1 .. M -> BOOLEAN] :
            (\A j \in i + 1 .. M : g[j] = h[j]) => step[i][g] = step[i][h]
      BY <2>1, <2>2
    <3>3. M \in Nat
      OBVIOUS
    <3> HIDE DEF step, M, G
    <3>4. PICK T : T = BOOLEAN
      OBVIOUS
    <3>5. PICK t \in T : t = TRUE
      BY <3>4
    <3>6. LooksAhead(M, T, step)
      BY <3>1, <3>2, <3>4 DEF LooksAhead
    <3>7. \E g \in [1 .. M -> T] : \A i \in 1 .. M : g[i] = step[i][g]
      BY <3>3, <3>6, BackwardRun
    <3> QED  BY <3>4, <3>7
  <2> QED  BY <2>1, <2>3
<1>6. Valid(g)
  <2>1. g = [i \in 1 .. M |-> g[i]]
    OBVIOUS
  <2>2. g = [i \in 1 .. M |-> Turn(buf, i, g)]
    BY <1>5, <2>1
  <2> QED  BY <2>2 DEF Turn
<1>7. Valid(valid)
  BY <1>6
<1>8. ValidateUtf8(buf) = valid[1]
  BY DEF ValidateUtf8
<1>9. valid = [i \in 1 .. M |-> Turn(buf, i, valid)]
  <2> HIDE DEF valid
  <2> QED  BY <1>7 DEF Turn
<1> HIDE DEF valid, Valid
<1>10. \A i \in 1 .. M : valid[i] = Turn(buf, i, valid)
  BY <1>9
<1>11. valid[L + 1] = TRUE
  BY <1>3, <1>10
<1>12. ASSUME NEW i \in 1 .. L PROVE valid[i] <=> Fits(buf, i) /\ valid[i + Extra(buf[i]) + 1]
  BY <1>2, <1>10
<1> QED  BY <1>8, <1>11, <1>12

(* The same for any text of bytes.                                          *)
LEMMA CharacterIs ==
  ASSUME NEW L \in Nat, NEW buf \in [1 .. L -> 0 .. 255], Len(buf) = L,
         NEW i \in 1 .. L, NEW n \in 1 .. 4
  PROVE  IsCharacter(buf, i, n) <=> Fits(buf, i) /\ n = Extra(buf[i]) + 1
<1>1. PICK x : x = CodePoint(buf, i, n)
  OBVIOUS
<1>2. buf[i] \in 0 .. 255 /\ At(buf, L, i, buf[i], n, x)
  BY <1>1 DEF At
<1> QED  BY <1>2, CharIs

(* kb_validate_utf8 accepts a text exactly when it can be cut into          *)
(* characters.                                                              *)
LEMMA Utf8Is ==
  ASSUME NEW L \in Nat, NEW buf \in [1 .. L -> 0 .. 255], Len(buf) = L
  PROVE  ValidateUtf8(buf) <=> IsUtf8(buf)
<1>1. PICK v : /\ ValidateUtf8(buf) = v[1] /\ v[L + 1] = TRUE
               /\ \A i \in 1 .. L : v[i] <=> Fits(buf, i) /\ v[i + Extra(buf[i]) + 1]
  BY ValidIs
<1>2. \A i \in 1 .. L, n \in 1 .. 4 :
         IsCharacter(buf, i, n) <=> Fits(buf, i) /\ n = Extra(buf[i]) + 1
  BY CharacterIs
<1>3. \A i \in 1 .. L : Extra(buf[i]) \in 0 .. 3
  BY ExtraIs
<1>4. \A i \in 1 .. L : Fits(buf, i) => i + Extra(buf[i]) <= L
  BY TurnIs
<1>5. ASSUME ValidateUtf8(buf) PROVE IsUtf8(buf)
  <2> DEFINE starts == {i \in 1 .. L + 1 : v[i]}
  <2>1. 1 \in starts
    <3>1. v[1]
      BY <1>1, <1>5, Zenon
    <3>2. 1 \in 1 .. L + 1
      OBVIOUS
    <3> QED  BY <3>1, <3>2, Zenon
  <2>2. ASSUME NEW i \in starts, i <= L
        PROVE  \E n \in 1 .. 4 : IsCharacter(buf, i, n) /\ i + n \in starts
    <3> DEFINE n == Extra(buf[i]) + 1
    <3>1. i \in 1 .. L /\ v[i]
      BY <2>2
    <3>2. Fits(buf, i) /\ v[i + Extra(buf[i]) + 1]
      BY <1>1, <3>1
    <3>3. n \in 1 .. 4 /\ i + n = i + Extra(buf[i]) + 1 /\ i + n \in 1 .. L + 1
      BY <1>3, <1>4, <3>1, <3>2
    <3>4. IsCharacter(buf, i, n)
      BY <1>2, <3>1, <3>2, <3>3
    <3> HIDE DEF n
    <3> QED  BY <3>2, <3>3, <3>4
  <2>3. starts \in SUBSET (1 .. Len(buf) + 1)
    OBVIOUS
  <2> HIDE DEF starts
  <2> QED  BY <2>1, <2>2, <2>3 DEF IsUtf8
<1>6. ASSUME IsUtf8(buf), ~ValidateUtf8(buf) PROVE FALSE
  <2>1. PICK starts \in SUBSET (1 .. L + 1) :
           /\ 1 \in starts
           /\ \A i \in starts : i <= L =>
                 \E n \in 1 .. 4 : IsCharacter(buf, i, n) /\ i + n \in starts
    BY <1>6 DEF IsUtf8
  <2> DEFINE S == {d \in 0 .. L : L + 1 - d \in starts /\ ~v[L + 1 - d]}
  <2>2. L \in S
    <3>1. L + 1 - L = 1
      OBVIOUS
    <3> QED  BY <1>1, <1>6, <2>1, <3>1
  <2>3. PICK d \in S : \A y \in S : d <= y
    <3>1. S \in SUBSET Nat
      <4>1. \A y \in 0 .. L : y \in Nat
        OBVIOUS
      <4> QED  BY <4>1, Zenon
    <3>2. S # {}
      BY <2>2, Zenon
    <3> HIDE DEF S
    <3> QED  BY <3>1, <3>2, LeastNat
  <2>4. PICK i \in 1 .. L + 1 : i = L + 1 - d
    BY <2>3
  <2>5. i \in starts /\ ~v[i]
    BY <2>3, <2>4
  <2>6. i \in 1 .. L
    BY <1>1, <2>4, <2>5
  <2>7. PICK n \in 1 .. 4 : IsCharacter(buf, i, n) /\ i + n \in starts
    BY <2>1, <2>5, <2>6
  <2>8. Fits(buf, i) /\ n = Extra(buf[i]) + 1
    BY <1>2, <2>6, <2>7
  <2>9. ~v[i + n]
    <3>1. i + n = i + Extra(buf[i]) + 1
      BY <1>3, <2>6, <2>8
    <3>2. ~v[i + Extra(buf[i]) + 1]
      BY <1>1, <2>5, <2>6, <2>8
    <3> QED  BY <3>1, <3>2
  <2>10. PICK e \in 0 .. L : e = d - n /\ L + 1 - e = i + n
    BY <2>1, <2>3, <2>4, <2>7
  <2>11. e \in S
    BY <2>7, <2>9, <2>10
  <2>12. d \in 0 .. L /\ d <= e
    BY <2>3, <2>11, Zenon
  <2> QED  BY <2>10, <2>12, SMT
<1> QED  BY <1>5, <1>6

(* The lengths of the segments of a key: zero at a slash and before the     *)
(* first character, and nowhere else.                                       *)
LEMMA SegmentsAre ==
  ASSUME NEW L \in Nat, NEW key, Len(key) = L
  PROVE  \A i \in 0 .. L : /\ SegmentLength(key)[i] \in Nat
                           /\ SegmentLength(key)[i] = 0 <=> i = 0 \/ key[i] = "slash"
<1> DEFINE Seg(s) == s = [i \in 0 .. Len(key) |->
                            IF i = 0 \/ key[i] = "slash" THEN 0 ELSE s[i - 1] + 1]
           seg == CHOOSE s : Seg(s)
           M == L + 1
           G == [1 .. M -> Nat]
           Back(j, g) == IF M - j = 0 \/ key[M - j] = "slash" THEN 0 ELSE g[j + 1] + 1
           step == [j \in 1 .. M |-> [g \in G |-> Back(j, g)]]
<1>1. PICK g \in G : \A j \in 1 .. M : g[j] = Back(j, g)
  <2>1. \A j \in 1 .. M : \A g \in G : step[j][g] = Back(j, g)
    OBVIOUS
  <2>2. \A j \in 1 .. M : \A g \in G : Back(j, g) \in Nat
    OBVIOUS
  <2>3. \A j \in 1 .. M : \A g, h \in G : (\A k \in j + 1 .. M : g[k] = h[k]) => Back(j, g) = Back(j, h)
    OBVIOUS
  <2>4. PICK T : T = Nat
    OBVIOUS
  <2>5. PICK t \in T : t = 0
    BY <2>4
  <2>8. M \in Nat
    OBVIOUS
  <2> HIDE DEF Back, step, M
  <2>6. LooksAhead(M, T, step)
    <3>1. \A j \in 1 .. M : \A h \in [1 .. M -> Nat] : step[j][h] \in Nat
      BY <2>1, <2>2
    <3>2. \A j \in 1 .. M : \A g, h \in [1 .. M -> Nat] :
             (\A k \in j + 1 .. M : g[k] = h[k]) => step[j][g] = step[j][h]
      <4> SUFFICES ASSUME NEW j \in 1 .. M, NEW g \in G, NEW h \in G,
                          \A k \in j + 1 .. M : g[k] = h[k]
                   PROVE  step[j][g] = step[j][h]
        OBVIOUS
      <4>1. Back(j, g) = Back(j, h)
        BY <2>3
      <4>2. step[j][g] = Back(j, g) /\ step[j][h] = Back(j, h)
        BY <2>1
      <4> QED  BY <4>1, <4>2
    <3> QED  BY <2>4, <3>1, <3>2 DEF LooksAhead
  <2>7. \E g \in [1 .. M -> T] : \A j \in 1 .. M : g[j] = step[j][g]
    BY <2>6, <2>8, BackwardRun
  <2>9. PICK g \in G : \A j \in 1 .. M : g[j] = step[j][g]
    BY <2>4, <2>7
  <2> QED  BY <2>1, <2>9
<1>2. \E s : Seg(s)
  <2> DEFINE s == [i \in 0 .. L |-> g[M - i]]
  <2>1. ASSUME NEW i \in 0 .. L
        PROVE  s[i] = IF i = 0 \/ key[i] = "slash" THEN 0 ELSE s[i - 1] + 1
    <3>1. M - i \in 1 .. M /\ M - (M - i) = i
      OBVIOUS
    <3>2. g[M - i] = IF i = 0 \/ key[i] = "slash" THEN 0 ELSE g[M - i + 1] + 1
      BY <1>1, <3>1
    <3>3. i # 0 => s[i - 1] = g[M - i + 1]
      <4>1. i # 0 => i - 1 \in 0 .. L /\ M - (i - 1) = M - i + 1
        OBVIOUS
      <4> QED  BY <4>1
    <3> QED  BY <3>2, <3>3
  <2>2. s = [i \in 0 .. L |-> IF i = 0 \/ key[i] = "slash" THEN 0 ELSE s[i - 1] + 1]
    BY <2>1
  <2>3. Seg(s)
    <3> HIDE DEF s
    <3> QED  BY <2>2
  <2> QED  BY <2>3
<1>3. Seg(seg)
  BY <1>2
<1>4. SegmentLength(key) = seg
  BY DEF SegmentLength
<1> HIDE DEF seg
<1>5. \A i \in 0 .. L : seg[i] = IF i = 0 \/ key[i] = "slash" THEN 0 ELSE seg[i - 1] + 1
  BY <1>3
<1>6. \A i \in 0 .. L : seg[i] \in Nat
  <2> DEFINE S == {i \in 0 .. L : seg[i] \notin Nat}
  <2> SUFFICES ASSUME S # {} PROVE FALSE
    OBVIOUS
  <2>1. S \in SUBSET Nat
    <3>1. \A y \in 0 .. L : y \in Nat
      OBVIOUS
    <3> QED  BY <3>1, Zenon
  <2>2. PICK m \in S : \A y \in S : m <= y
    <3> HIDE DEF S
    <3> QED  BY <2>1, LeastNat
  <2>3. m \in 1 .. L /\ m - 1 \in 0 .. L /\ m - 1 \notin S
    BY <1>5, <2>2
  <2>4. seg[m - 1] \in Nat
    BY <2>3
  <2>5. seg[m] \in Nat
    <3>1. m \in 0 .. L
      BY <2>3
    <3>2. seg[m] = IF m = 0 \/ key[m] = "slash" THEN 0 ELSE seg[m - 1] + 1
      BY <1>5, <3>1, Zenon
    <3>3. seg[m - 1] + 1 \in Nat
      BY <2>4, SMT
    <3> QED  BY <3>2, <3>3
  <2> QED  BY <2>2, <2>5
<1>7. ASSUME NEW i \in 0 .. L PROVE seg[i] = 0 <=> i = 0 \/ key[i] = "slash"
  <2>1. CASE i = 0 \/ key[i] = "slash"
    BY <1>5, <2>1
  <2>2. CASE ~(i = 0 \/ key[i] = "slash")
    <3>1. i - 1 \in 0 .. L /\ seg[i] = seg[i - 1] + 1
      BY <1>5, <2>2
    <3> QED  BY <1>6, <2>2, <3>1
  <2> QED  BY <2>1, <2>2
<1> QED  BY <1>4, <1>6, <1>7

(* kb_validate_key accepts a key exactly when it is a path of segments.     *)
LEMMA KeyIs ==
  ASSUME NEW L \in Nat, NEW key \in [1 .. L -> {"slash", "ok", "other"}], Len(key) = L
  PROVE  ValidateKey(key) <=>
            /\ L # 0 /\ L <= KeyMaxLen
            /\ \A i \in 1 .. L : key[i] # "other"
            /\ \A i \in {i \in 1 .. L : key[i] = "slash"} :
                  /\ i > 1 /\ i < L
                  /\ key[i + 1] = "ok"
<1>1. \A i \in 0 .. L : /\ SegmentLength(key)[i] \in Nat
                        /\ SegmentLength(key)[i] = 0 <=> i = 0 \/ key[i] = "slash"
  BY SegmentsAre
<1> DEFINE Sep(i) == i > 1 /\ key[i - 1] # "slash"
<1>2. \A i \in 1 .. L : SegmentLength(key)[i - 1] # 0 <=> Sep(i)
  BY <1>1
<1>3. L # 0 => (SegmentLength(key)[L] > 0 <=> key[L] # "slash")
  BY <1>1
<1>4. KeyMaxLen \in Nat
  BY KbValidateAssumption
<1>5. ValidateKey(key) <=> /\ L # 0 /\ L <= KeyMaxLen
                           /\ key[1] # "slash" /\ key[L] # "slash"
                           /\ \A i \in 1 .. L : /\ key[i] \in {"slash", "ok"}
                                                /\ key[i] = "slash" => Sep(i)
  <2> HIDE DEF Sep
  <2>1. DOMAIN key = 1 .. L
    OBVIOUS
  <2>2. L \in 1 .. KeyMaxLen <=> L # 0 /\ L <= KeyMaxLen
    BY <1>4
  <2> QED  BY <1>2, <1>3, <2>1, <2>2 DEF ValidateKey
<1>6. \A i \in 1 .. L : key[i] \in {"slash", "ok"} <=> key[i] # "other"
  OBVIOUS
<1>7. ASSUME ValidateKey(key)
      PROVE  /\ L # 0 /\ L <= KeyMaxLen
             /\ \A i \in 1 .. L : key[i] # "other"
             /\ \A i \in 1 .. L : key[i] = "slash" => /\ i > 1 /\ i < L
                                                      /\ key[i + 1] = "ok"
  <2>1. ASSUME NEW i \in 1 .. L, key[i] = "slash"
        PROVE  i > 1 /\ i < L /\ key[i + 1] = "ok"
    <3>1. i > 1 /\ i # L
      BY <1>5, <1>7, <2>1
    <3>2. i + 1 \in 1 .. L /\ i + 1 - 1 = i
      BY <3>1
    <3>3. key[i + 1] # "slash"
      BY <1>5, <1>7, <2>1, <3>2
    <3> QED  BY <1>5, <1>7, <3>1, <3>2, <3>3
  <2> QED  BY <1>5, <1>6, <1>7, <2>1
<1>8. ASSUME L # 0, L <= KeyMaxLen, \A i \in 1 .. L : key[i] # "other",
             \A i \in 1 .. L : key[i] = "slash" => i > 1 /\ i < L /\ key[i + 1] = "ok"
      PROVE  ValidateKey(key)
  <2>1. key[1] # "slash" /\ key[L] # "slash"
    BY <1>8
  <2>2. ASSUME NEW i \in 1 .. L, key[i] = "slash" PROVE Sep(i)
    <3>1. i > 1 /\ i - 1 \in 1 .. L /\ i - 1 + 1 = i
      BY <1>8, <2>2
    <3>2. key[i - 1] # "slash"
      BY <1>8, <2>2, <3>1
    <3> QED  BY <3>1, <3>2
  <2> HIDE DEF Sep
  <2> QED  BY <1>5, <1>6, <1>8, <2>1, <2>2
<1> QED  BY <1>7, <1>8

(* What is known of the calls and of their results.                         *)
GateInv ==
  /\ call.op = "value" =>
       /\ \E n \in 1 .. MaxBytes : call.buf \in [1 .. n -> 0 .. 255]
       /\ result = ValidateValue(call.buf)
  /\ call.op = "key" =>
       /\ \E n \in 0 .. KeyMaxLen + 1 : call.key \in [1 .. n -> {"slash", "ok", "other"}]
       /\ result = ValidateKey(call.key)

(* Calls have the arguments and the results the functions give.             *)
LEMMA GateInvariant == GateSpec => []GateInv
<1>1. CallInit => GateInv
  BY DEF CallInit, Idle, GateInv
<1>2. GateInv /\ [GateNext \/ call'.op \notin {"value", "key"}]_<<call, result>> => GateInv'
  <2> SUFFICES ASSUME GateInv, [GateNext \/ call'.op \notin {"value", "key"}]_<<call, result>>
               PROVE  GateInv'
    OBVIOUS
  <2>1. CASE CheckValue
    <3>0. PICK n \in 1 .. MaxBytes : \E b \in LeadBytes, more \in [1 .. n - 1 -> OtherBytes] :
            Called([op |-> "value", buf |-> <<b>> \o more], ValidateValue(<<b>> \o more))
      BY <2>1 DEF CheckValue
    <3>1. PICK b \in LeadBytes, more \in [1 .. n - 1 -> OtherBytes] :
            Called([op |-> "value", buf |-> <<b>> \o more], ValidateValue(<<b>> \o more))
      BY <3>0
    <3>2. PICK buf : buf = <<b>> \o more
      OBVIOUS
    <3>3. buf \in [1 .. n -> 0 .. 255]
      <4>1. n \in Nat /\ n - 1 \in Nat /\ b \in 0 .. 255
        BY GateCallsAssumption
      <4>2. more \in Seq(0 .. 255) /\ Len(more) = n - 1
        <5>1. OtherBytes \subseteq 0 .. 255
          BY GateCallsAssumption
        <5>2. PICK m \in Nat : m = n - 1
          BY <4>1
        <5>3. more \in [1 .. m -> 0 .. 255]
          BY <5>1, <5>2
        <5>4. more \in Seq(0 .. 255)
          BY <5>3, SeqDef
        <5> QED  BY <5>2, <5>3, <5>4, LenProperties
      <4>3. <<b>> \in Seq(0 .. 255) /\ Len(<<b>>) = 1
        BY <4>1
      <4>4. buf \in Seq(0 .. 255) /\ Len(buf) = 1 + (n - 1)
        BY <3>2, <4>2, <4>3, ConcatProperties
      <4>5. Len(buf) = n
        BY <4>1, <4>4
      <4> QED  BY <4>4, <4>5, LenProperties
    <3>4. call' = [op |-> "value", buf |-> buf] /\ result' = ValidateValue(buf)
      BY <3>1, <3>2 DEF Called
    <3> QED  BY <3>3, <3>4 DEF GateInv
  <2>2. CASE CheckKey
    <3>1. PICK key \in SeqsUpTo(KeyChars, KeyMaxLen + 1) :
            Called([op |-> "key", key |-> key], ValidateKey(key))
      BY <2>2 DEF CheckKey
    <3>2. PICK n \in 0 .. KeyMaxLen + 1 : key \in [1 .. n -> KeyChars]
      BY DEF SeqsUpTo
    <3>3. key \in [1 .. n -> {"slash", "ok", "other"}]
      BY <3>2, GateCallsAssumption
    <3>4. call' = [op |-> "key", key |-> key] /\ result' = ValidateKey(key)
      BY <3>1 DEF Called
    <3> QED  BY <3>3, <3>4 DEF GateInv
  <2>3. CASE call'.op \notin {"value", "key"}
    BY <2>3 DEF GateInv
  <2>4. CASE UNCHANGED <<call, result>>
    BY <2>4 DEF GateInv
  <2> QED  BY <2>1, <2>2, <2>3, <2>4 DEF GateNext
<1> QED  BY <1>1, <1>2, PTL DEF GateSpec

(* kb_validate.c and kb.c: for values and keys of any length over any bytes *)
(* and characters, and for any length limits, the gate accepts the UTF-8    *)
(* values without a NUL and the paths of non-empty segments that are within *)
(* the limits, and nothing else.                                            *)
THEOREM GateHolds == GateSpec => []GateIsExact
<1>1. GateInv => ValueIsExact
  <2> SUFFICES ASSUME GateInv, call.op = "value" PROVE ValueIsExact
    BY DEF ValueIsExact
  <2>1. PICK n \in 1 .. MaxBytes : call.buf \in [1 .. n -> 0 .. 255]
    BY DEF GateInv
  <2>2. n \in Nat
    BY GateCallsAssumption
  <2>3. Len(call.buf) = n
    <3>1. call.buf \in Seq(0 .. 255)
      BY <2>1, <2>2, SeqDef
    <3> QED  BY <2>1, <2>2, <3>1
  <2>4. ValidateUtf8(call.buf) <=> IsUtf8(call.buf)
    BY <2>1, <2>2, <2>3, Utf8Is
  <2>5. result = ValidateValue(call.buf)
    BY DEF GateInv
  <2> QED  BY <2>4, <2>5, Zenon DEF ValueIsExact, ValidateValue, NoEmbeddedNul
<1>2. GateInv => KeyIsAPath
  <2> SUFFICES ASSUME GateInv, call.op = "key" PROVE KeyIsAPath
    BY DEF KeyIsAPath
  <2>1. PICK n \in 0 .. KeyMaxLen + 1 : call.key \in [1 .. n -> {"slash", "ok", "other"}]
    BY DEF GateInv
  <2>2. n \in Nat
    BY KbValidateAssumption
  <2>3. Len(call.key) = n /\ DOMAIN call.key = 1 .. n /\ (call.key # <<>> <=> n # 0)
    <3>1. call.key \in Seq({"slash", "ok", "other"})
      BY <2>1, <2>2, SeqDef
    <3> QED  BY <2>1, <2>2, <3>1
  <2>4. ValidateKey(call.key) <=>
            /\ n # 0 /\ n <= KeyMaxLen
            /\ \A i \in 1 .. n : call.key[i] # "other"
            /\ \A i \in {i \in 1 .. n : call.key[i] = "slash"} :
                  /\ i > 1 /\ i < n
                  /\ call.key[i + 1] = "ok"
    BY <2>1, <2>2, <2>3, KeyIs
  <2>5. result = ValidateKey(call.key)
    BY DEF GateInv
  <2> QED  BY <2>3, <2>4, <2>5 DEF KeyIsAPath
<1> QED  BY <1>1, <1>2, GateInvariant, PTL DEF GateIsExact

=============================================================================
