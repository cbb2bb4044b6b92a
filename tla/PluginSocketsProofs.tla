------------------------ MODULE PluginSocketsProofs ------------------------
(***************************************************************************)
(* Proofs about PluginSockets: for any number of threads and descriptors,  *)
(* no close reaches the connection of somebody else, and one failed        *)
(* allocation does not leak a descriptor.                                  *)
(***************************************************************************)
EXTENDS PluginSockets, TLAPS

(* A connect or http_get in progress holds its own, newest connection,     *)
(* which has neither a userdata nor a slot yet.                            *)
CurIsOwn ==
  \A w \in Worker : pc[w] \in {"connect", "http"} =>
    /\ owner[cur[w]] = <<w, opened[w]>>
    /\ opened[w] \in Serial
    /\ opened[w] \notin alive[w] /\ opened[w] \notin tracked[w]

(* Userdata and slots belong to connections opened so far.                 *)
Numbered ==
  \A w \in Worker, n \in Serial : n \in alive[w] \/ n \in tracked[w] => n <= opened[w]

(* The two handles of one connection agree.                                *)
Agree ==
  \A w \in Worker, n \in Serial :
    n \in alive[w] /\ n \in tracked[w] => sockFd[w][n] = slot[w][n]

(* lua_close leaves no userdata, the end of the invocation no slot.        *)
Phases ==
  \A w \in Worker :
    /\ pc[w] \in {"sweep", "idle"} => alive[w] = {}
    /\ pc[w] = "idle" => tracked[w] = {}

(* Somebody will still close every open descriptor.                        *)
Held ==
  oom <= 1 =>
    \A w \in Worker, f \in Fd, n \in Serial : owner[f] = <<w, n>> =>
      \/ pc[w] \in {"connect", "http"} /\ cur[w] = f
      \/ n \in alive[w] /\ sockFd[w][n] = f
      \/ n \in tracked[w] /\ slot[w][n] = f

IInv == TypeOK /\ CurIsOwn /\ Numbered /\ Agree /\ Phases /\ HandleIsOwn /\ SlotIsOwn /\ Held

(* The invariant holds of the empty descriptor table.                      *)
LEMMA InitIInv == Init => IInv
<1> SUFFICES ASSUME Init PROVE IInv
  OBVIOUS
<1> USE SocketAssumption DEF Init, Fd, NoFd, Serial, Closed
<1>1. TypeOK
  BY DEF TypeOK
<1>2. CurIsOwn /\ Numbered /\ Agree /\ Phases /\ HandleIsOwn /\ SlotIsOwn
  BY DEF CurIsOwn, Numbered, Agree, Phases, HandleIsOwn, SlotIsOwn
<1>3. Held
  BY DEF Held
<1> QED
  BY <1>1, <1>2, <1>3 DEF IInv

(* Updating one entry of a table of tables keeps its type.                 *)
LEMMA UpdateType ==
  ASSUME NEW W, NEW D, NEW R, NEW t \in [W -> [D -> R]], NEW w \in W, NEW d \in D, NEW r \in R
  PROVE  [t EXCEPT ![w][d] = r] \in [W -> [D -> R]]
<1>1. [t[w] EXCEPT ![d] = r] \in [D -> R]
  OBVIOUS
<1> QED
  BY <1>1

(* Every action preserves the types.                                       *)
LEMMA TypeStep == TypeOK /\ CurIsOwn /\ [Next]_vars => TypeOK'
<1> SUFFICES ASSUME TypeOK, CurIsOwn, [Next]_vars PROVE TypeOK'
  OBVIOUS
<1> USE SocketAssumption DEF NoFd, tracker
<1>0. CASE UNCHANGED vars
  BY <1>0 DEF TypeOK, vars
<1>1. CASE Next
  <2>0. PICK w \in Worker :
        \/ BeginInvocation(w)
        \/ \E f \in Fd : OpenSockTcp(w, f) \/ HttpGet(w, f)
        \/ CloseCurrent(w) \/ Connected(w)
        \/ \E n \in Serial : CloseSock(w, n) \/ Finalize(w, n) \/ ForceClose(w, n)
        \/ EndRun(w) \/ StateClosed(w) \/ EndInvocation(w)
    BY <1>1 DEF Next
  <2>1. CASE BeginInvocation(w)
    BY <2>1 DEF BeginInvocation, TypeOK, Closed
  <2>2. CASE \E f \in Fd : OpenSockTcp(w, f) \/ HttpGet(w, f)
    <3>0. PICK f \in Fd : OpenSockTcp(w, f) \/ HttpGet(w, f)
      BY <2>2
    <3>1. opened[w] + 1 \in Serial /\ opened[w] + 1 \in 0..MaxOpens
      BY <3>0 DEF OpenSockTcp, HttpGet, OpenDescriptor, TypeOK, Serial
    <3>4. <<w, opened[w] + 1>> \in Worker \X Serial
      BY <3>1
    <3>5. \A c \in Worker \X Serial :
            [owner EXCEPT ![f] = c] \in [Fd -> (Worker \X Serial) \cup {NoConn}]
      BY DEF TypeOK
    <3>2. owner' \in [Fd -> (Worker \X Serial) \cup {NoConn}]
      BY <3>0, <3>4, <3>5 DEF OpenSockTcp, HttpGet, OpenDescriptor
    <3>6. pc' \in [Worker -> {"idle", "lua", "connect", "http", "close", "sweep"}]
      BY <3>0 DEF OpenSockTcp, HttpGet, OpenDescriptor, TypeOK
    <3>7. /\ cur' \in [Worker -> Fd \cup {NoFd}] /\ cur'[w] = f
          /\ \A v \in Worker \ {w} : cur'[v] = cur[v] /\ pc'[v] = pc[v]
      BY <3>0 DEF OpenSockTcp, HttpGet, OpenDescriptor, TypeOK
    <3>8. \A v \in Worker : pc'[v] \in {"connect", "http"} => cur'[v] \in Fd
      BY <3>7 DEF TypeOK
    <3>3. opened' \in [Worker -> 0..MaxOpens]
      BY <3>0, <3>1 DEF OpenSockTcp, HttpGet, OpenDescriptor, TypeOK
    <3> QED
      BY <3>0, <3>2, <3>3, <3>6, <3>7, <3>8 DEF OpenSockTcp, HttpGet, OpenDescriptor, TypeOK
  <2>3. CASE CloseCurrent(w)
    BY <2>3 DEF CloseCurrent, TypeOK
  <2>4. CASE Connected(w)
    <3>1. opened[w] \in Serial /\ cur[w] \in Fd
      BY <2>4 DEF Connected, CurIsOwn, TypeOK
    <3>2. Grown(w) \in Nat
      BY DEF Grown, TypeOK
    <3>3. /\ [alive EXCEPT ![w] = @ \cup {opened[w]}] \in [Worker -> SUBSET Serial]
          /\ [tracked EXCEPT ![w] = @ \cup {opened[w]}] \in [Worker -> SUBSET Serial]
          /\ [capacity EXCEPT ![w] = Grown(w)] \in [Worker -> Nat]
      BY <3>1, <3>2 DEF TypeOK
    <3>4. /\ [sockFd EXCEPT ![w][opened[w]] = cur[w]] \in [Worker -> [Serial -> Fd \cup {NoFd}]]
          /\ [slot EXCEPT ![w][opened[w]] = cur[w]] \in [Worker -> [Serial -> Fd \cup {NoFd}]]
      BY <3>1, UpdateType DEF TypeOK
    <3>6. /\ alive' \in [Worker -> SUBSET Serial] /\ tracked' \in [Worker -> SUBSET Serial]
          /\ capacity' \in [Worker -> Nat]
          /\ sockFd' \in [Worker -> [Serial -> Fd \cup {NoFd}]]
          /\ slot' \in [Worker -> [Serial -> Fd \cup {NoFd}]]
      BY <2>4, <3>3, <3>4 DEF Connected, TrackerAdd, NewUserdata, TypeOK
    <3>5. oom' \in Nat
      BY <2>4 DEF Connected, TypeOK
    <3> QED
      BY <2>4, <3>5, <3>6 DEF Connected, TypeOK
  <2>5. CASE \E n \in Serial : CloseSock(w, n) \/ Finalize(w, n) \/ ForceClose(w, n)
    <3>0. PICK n \in Serial : CloseSock(w, n) \/ Finalize(w, n) \/ ForceClose(w, n)
      BY <2>5
    <3>1. /\ [sockFd EXCEPT ![w][n] = NoFd] \in [Worker -> [Serial -> Fd \cup {NoFd}]]
          /\ [slot EXCEPT ![w][n] = NoFd] \in [Worker -> [Serial -> Fd \cup {NoFd}]]
      BY UpdateType DEF TypeOK
    <3>2. \A f : [owner EXCEPT ![f] = NoConn] \in [Fd -> (Worker \X Serial) \cup {NoConn}]
      BY DEF TypeOK
    <3>3. alive' \in [Worker -> SUBSET Serial]
      BY <3>0 DEF CloseSock, Finalize, ForceClose, TypeOK
    <3> QED
      BY <3>0, <3>1, <3>2, <3>3 DEF CloseSock, Finalize, ForceClose, SocketClose, TypeOK
  <2>6. CASE EndRun(w)
    BY <2>6 DEF EndRun, TypeOK
  <2>7. CASE StateClosed(w)
    BY <2>7 DEF StateClosed, TypeOK
  <2>8. CASE EndInvocation(w)
    BY <2>8 DEF EndInvocation, TypeOK
  <2> QED
    BY <2>0, <2>1, <2>2, <2>3, <2>4, <2>5, <2>6, <2>7, <2>8
<1> QED
  BY <1>0, <1>1

----------------------------------------------------------------------------
(* What the actions do, entry by entry.                                    *)

(* A descriptor is opened.                                                 *)
LEMMA OpenStep ==
  ASSUME TypeOK, NEW w \in Worker, NEW f \in Fd, OpenSockTcp(w, f) \/ HttpGet(w, f)
  PROVE  /\ pc[w] = "lua" /\ owner[f] = NoConn
         /\ owner' = [owner EXCEPT ![f] = <<w, opened[w] + 1>>]
         /\ opened[w] + 1 \in Serial /\ opened' = [opened EXCEPT ![w] = opened[w] + 1]
         /\ cur' = [cur EXCEPT ![w] = f]
         /\ pc' = [pc EXCEPT ![w] = pc'[w]] /\ pc'[w] \in {"connect", "http"}
         /\ UNCHANGED <<alive, sockFd, tracked, slot, oom>>
BY SocketAssumption DEF OpenSockTcp, HttpGet, OpenDescriptor, TypeOK, Serial, tracker

(* A socket is closed through its userdata: its own connection is the only *)
(* one to lose a descriptor, and its slot says so.                         *)
LEMMA CloseStep ==
  ASSUME IInv, NEW w \in Worker, NEW n \in Serial, n \in alive[w], SocketClose(w, n)
  PROVE  /\ sockFd' = [sockFd EXCEPT ![w][n] = NoFd]
         /\ n \in tracked[w] => slot' = [slot EXCEPT ![w][n] = NoFd]
         /\ n \notin tracked[w] => slot' = slot
         /\ sockFd[w][n] = NoFd => owner' = owner
         /\ sockFd[w][n] # NoFd =>
              owner' = [owner EXCEPT ![sockFd[w][n]] = NoConn] /\ owner[sockFd[w][n]] = <<w, n>>
<1>1. n \in tracked[w] => sockFd[w][n] = slot[w][n]
  BY DEF IInv, Agree
<1>2. sockFd[w][n] # NoFd => owner[sockFd[w][n]] = <<w, n>>
  BY DEF IInv, HandleIsOwn
<1>3. n \in tracked[w] /\ slot[w][n] = NoFd => slot = [slot EXCEPT ![w][n] = NoFd]
  BY DEF IInv, TypeOK
<1>4. MustClose(w, n) <=> sockFd[w][n] # NoFd
  BY <1>1 DEF MustClose
<1> QED
  BY <1>1, <1>2, <1>3, <1>4 DEF SocketClose
----------------------------------------------------------------------------
(* Every action preserves the invariant.                                   *)

Rest == CurIsOwn /\ Numbered /\ Agree /\ Phases /\ HandleIsOwn /\ SlotIsOwn /\ Held

(* Opening a descriptor: only a free number is handed out.                 *)
LEMMA OpenKeeps ==
  ASSUME IInv, TypeOK', NEW w \in Worker, NEW f \in Fd, OpenSockTcp(w, f) \/ HttpGet(w, f)
  PROVE  Rest'
<1> DEFINE k == opened[w] + 1
<1>0. \A v \in Worker, n \in Serial : <<v, n>> # NoConn
  BY SocketAssumption DEF Serial
<1>1. /\ pc[w] = "lua" /\ owner[f] = NoConn /\ k \in Serial /\ k > opened[w]
      /\ owner'[f] = <<w, k>> /\ opened'[w] = k /\ cur'[w] = f
      /\ pc'[w] \in {"connect", "http"}
      /\ UNCHANGED <<alive, sockFd, tracked, slot, oom>>
  BY OpenStep DEF IInv, TypeOK
<1>2. /\ \A g \in Fd : g # f => owner'[g] = owner[g]
      /\ \A v \in Worker : v # w =>
           opened'[v] = opened[v] /\ cur'[v] = cur[v] /\ pc'[v] = pc[v]
  BY OpenStep DEF IInv, TypeOK
<1> HIDE DEF k
<1> USE DEF IInv
<1>3. CurIsOwn'
  <2> SUFFICES ASSUME NEW v \in Worker, pc'[v] \in {"connect", "http"}
               PROVE  /\ owner'[cur'[v]] = <<v, opened'[v]>> /\ opened'[v] \in Serial
                      /\ opened'[v] \notin alive[v] /\ opened'[v] \notin tracked[v]
    BY <1>1 DEF CurIsOwn
  <2>1. CASE v = w
    BY <1>1, <2>1, SocketAssumption DEF Numbered, TypeOK, Serial
  <2>2. CASE v # w
    <3>1. /\ owner[cur[v]] = <<v, opened[v]>> /\ opened[v] \in Serial /\ cur[v] \in Fd
          /\ opened[v] \notin alive[v] /\ opened[v] \notin tracked[v]
      BY <1>2, <2>2 DEF CurIsOwn, TypeOK
    <3>2. cur[v] # f
      BY <1>0, <1>1, <3>1
    <3> QED
      BY <1>2, <2>2, <3>1, <3>2
  <2> QED
    BY <2>1, <2>2
<1>4. Numbered'
  <2>0. \A v \in Worker : opened[v] \in Int
    BY DEF TypeOK
  <2>1. \A v \in Worker : opened'[v] \in Int /\ opened'[v] >= opened[v]
    BY <1>1, <1>2, <2>0 DEF Serial
  <2>2. \A n \in Serial : n \in Int
    BY DEF Serial
  <2> QED
    BY <1>1, <2>0, <2>1, <2>2 DEF Numbered
<1>5. Agree' /\ Phases'
  BY <1>1, <1>2 DEF Agree, Phases
<1>6. HandleIsOwn'
  <2> SUFFICES ASSUME NEW v \in Worker, NEW n \in Serial, n \in alive'[v], sockFd'[v][n] # NoFd
               PROVE  owner'[sockFd'[v][n]] = <<v, n>>
    BY DEF HandleIsOwn
  <2>1. sockFd[v][n] \in Fd /\ owner[sockFd[v][n]] = <<v, n>>
    BY <1>1 DEF HandleIsOwn, TypeOK
  <2>2. sockFd[v][n] # f /\ sockFd' = sockFd
    BY <1>0, <1>1, <2>1
  <2> QED
    BY <1>2, <2>1, <2>2
<1>8. SlotIsOwn'
  <2> SUFFICES ASSUME NEW v \in Worker, NEW n \in Serial, n \in tracked'[v], slot'[v][n] # NoFd
               PROVE  owner'[slot'[v][n]] = <<v, n>>
    BY DEF SlotIsOwn
  <2>1. slot[v][n] \in Fd /\ owner[slot[v][n]] = <<v, n>>
    BY <1>1 DEF SlotIsOwn, TypeOK
  <2>2. slot[v][n] # f /\ slot' = slot
    BY <1>0, <1>1, <2>1
  <2> QED
    BY <1>2, <2>1, <2>2
<1>7. Held'
  <2> SUFFICES ASSUME oom <= 1, NEW v \in Worker, NEW g \in Fd, NEW n \in Serial,
                      owner'[g] = <<v, n>>
               PROVE  \/ pc'[v] \in {"connect", "http"} /\ cur'[v] = g
                      \/ n \in alive[v] /\ sockFd[v][n] = g
                      \/ n \in tracked[v] /\ slot[v][n] = g
    BY <1>1 DEF Held
  <2>1. CASE g = f
    BY <1>1, <2>1
  <2>2. CASE g # f
    BY <1>1, <1>2, <2>2 DEF Held
  <2> QED
    BY <2>1, <2>2
<1> QED
  BY <1>3, <1>4, <1>5, <1>6, <1>7, <1>8 DEF Rest

(* A C function closes the descriptor it opened itself.                    *)
LEMMA CloseCurrentKeeps ==
  ASSUME IInv, TypeOK', NEW w \in Worker, CloseCurrent(w)
  PROVE  Rest'
<1> USE SocketAssumption DEF IInv, TypeOK, CloseCurrent, tracker
<1>0. \A v \in Worker, n \in Serial : <<v, n>> # NoConn
  BY DEF Serial
<1>1. owner[cur[w]] = <<w, opened[w]>> /\ cur[w] \in Fd
  BY DEF CurIsOwn
<1>2. CurIsOwn'
  BY <1>0, <1>1 DEF CurIsOwn
<1>3. Numbered' /\ Agree' /\ Phases'
  BY DEF Numbered, Agree, Phases
<1>4. HandleIsOwn' /\ SlotIsOwn'
  BY <1>0, <1>1 DEF CurIsOwn, HandleIsOwn, SlotIsOwn
<1>5. Held'
  <2> SUFFICES ASSUME oom' <= 1, NEW v \in Worker, NEW g \in Fd, NEW n \in Serial,
                      owner'[g] = <<v, n>>
               PROVE  \/ pc'[v] \in {"connect", "http"} /\ cur'[v] = g
                      \/ n \in alive'[v] /\ sockFd'[v][n] = g
                      \/ n \in tracked'[v] /\ slot'[v][n] = g
    BY DEF Held
  <2>1. g # cur[w] /\ owner[g] = <<v, n>>
    BY <1>0, <1>1
  <2>2. \/ pc[v] \in {"connect", "http"} /\ cur[v] = g
        \/ n \in alive[v] /\ sockFd[v][n] = g
        \/ n \in tracked[v] /\ slot[v][n] = g
    BY <2>1 DEF Held
  <2>3. v # w => pc'[v] = pc[v] /\ cur'[v] = cur[v]
    OBVIOUS
  <2> QED
    BY <2>1, <2>2, <2>3
<1> QED
  BY <1>2, <1>3, <1>4, <1>5 DEF Rest

(* A connection gets its slot and its userdata, or one of them.            *)
LEMMA ConnectedKeeps ==
  ASSUME IInv, TypeOK', NEW w \in Worker, Connected(w)
  PROVE  Rest'
<1> DEFINE k == opened[w]
<1> USE SocketAssumption DEF IInv, TypeOK, tracker
<1>1. /\ pc[w] = "connect" /\ pc' = [pc EXCEPT ![w] = "lua"]
      /\ owner[cur[w]] = <<w, k>> /\ cur[w] \in Fd /\ k \in Serial
      /\ k \notin alive[w] /\ k \notin tracked[w]
      /\ cur' = [cur EXCEPT ![w] = NoFd] /\ UNCHANGED <<owner, opened>>
  BY DEF CurIsOwn, Connected
<1>2. \/ UNCHANGED <<alive, sockFd>>
      \/ /\ alive' = [alive EXCEPT ![w] = alive[w] \cup {k}]
         /\ sockFd' = [sockFd EXCEPT ![w][k] = cur[w]]
  BY DEF Connected, NewUserdata
<1>3. \/ UNCHANGED <<tracked, slot>>
      \/ /\ tracked' = [tracked EXCEPT ![w] = tracked[w] \cup {k}]
         /\ slot' = [slot EXCEPT ![w][k] = cur[w]]
  BY DEF Connected, TrackerAdd
<1>4. /\ oom' >= oom
      /\ \/ oom' > 1
         \/ k \in alive'[w] /\ sockFd'[w][k] = cur[w]
         \/ k \in tracked'[w] /\ slot'[w][k] = cur[w]
  BY <1>1 DEF Connected, TrackerAdd, NewUserdata
<1>5. /\ \A v \in Worker, n \in Serial : <<v, n>> # <<w, k>> =>
           /\ n \in alive'[v] <=> n \in alive[v]
           /\ sockFd'[v][n] = sockFd[v][n]
           /\ n \in tracked'[v] <=> n \in tracked[v]
           /\ slot'[v][n] = slot[v][n]
      /\ k \in alive'[w] => sockFd'[w][k] = cur[w]
      /\ k \in tracked'[w] => slot'[w][k] = cur[w]
  BY <1>1, <1>2, <1>3
<1> HIDE DEF k
<1>6. CurIsOwn'
  BY <1>1, <1>5 DEF CurIsOwn
<1>7. Numbered'
  BY <1>1, <1>5 DEF Numbered, k
<1>8. Agree'
  <2> SUFFICES ASSUME NEW v \in Worker, NEW n \in Serial, n \in alive'[v], n \in tracked'[v]
               PROVE  sockFd'[v][n] = slot'[v][n]
    BY DEF Agree
  <2>1. CASE v = w /\ n = k
    BY <1>5, <2>1
  <2>2. CASE ~(v = w /\ n = k)
    BY <1>5, <2>2 DEF Agree
  <2> QED
    BY <2>1, <2>2
<1>9. Phases'
  BY <1>1, <1>2, <1>3 DEF Phases
<1>10. HandleIsOwn'
  <2> SUFFICES ASSUME NEW v \in Worker, NEW n \in Serial, n \in alive'[v], sockFd'[v][n] # NoFd
               PROVE  owner'[sockFd'[v][n]] = <<v, n>>
    BY DEF HandleIsOwn
  <2>1. CASE v = w /\ n = k
    BY <1>1, <1>5, <2>1
  <2>2. CASE ~(v = w /\ n = k)
    BY <1>1, <1>5, <2>2 DEF HandleIsOwn
  <2> QED
    BY <2>1, <2>2
<1>12. SlotIsOwn'
  <2> SUFFICES ASSUME NEW v \in Worker, NEW n \in Serial, n \in tracked'[v], slot'[v][n] # NoFd
               PROVE  owner'[slot'[v][n]] = <<v, n>>
    BY DEF SlotIsOwn
  <2>1. CASE v = w /\ n = k
    BY <1>1, <1>5, <2>1
  <2>2. CASE ~(v = w /\ n = k)
    BY <1>1, <1>5, <2>2 DEF SlotIsOwn
  <2> QED
    BY <2>1, <2>2
<1>11. Held'
  <2> SUFFICES ASSUME oom' <= 1, NEW v \in Worker, NEW g \in Fd, NEW n \in Serial,
                      owner[g] = <<v, n>>
               PROVE  \/ pc'[v] \in {"connect", "http"} /\ cur'[v] = g
                      \/ n \in alive'[v] /\ sockFd'[v][n] = g
                      \/ n \in tracked'[v] /\ slot'[v][n] = g
    BY <1>1 DEF Held
  <2>1. \/ pc[v] \in {"connect", "http"} /\ cur[v] = g
        \/ n \in alive[v] /\ sockFd[v][n] = g
        \/ n \in tracked[v] /\ slot[v][n] = g
    BY <1>4 DEF Held
  <2>2. CASE v = w /\ n = k
    BY <1>1, <1>4, <2>1, <2>2
  <2>3. CASE ~(v = w /\ n = k)
    BY <1>1, <1>5, <2>1, <2>3
  <2> QED
    BY <2>2, <2>3
<1> QED
  BY <1>6, <1>7, <1>8, <1>9, <1>10, <1>11, <1>12 DEF Rest
(* A userdata closes its socket, and may be gone afterwards.               *)
LEMMA SocketCloseKeeps ==
  ASSUME IInv, TypeOK', NEW w \in Worker, NEW n \in Serial, CloseSock(w, n) \/ Finalize(w, n)
  PROVE  Rest'
<1>0. \A v \in Worker, m \in Serial : <<v, m>> # NoConn
  BY SocketAssumption DEF Serial
<1>1. /\ n \in alive[w] /\ pc[w] \in {"lua", "close"} /\ SocketClose(w, n)
      /\ UNCHANGED <<pc, opened, cur, tracked, oom>>
  BY DEF CloseSock, Finalize
<1>2. \A v \in Worker : v # w => alive'[v] = alive[v]
  BY DEF CloseSock, Finalize, IInv, TypeOK
<1>3. alive'[w] \in {alive[w], alive[w] \ {n}}
  BY DEF CloseSock, Finalize, IInv, TypeOK
<1>4. /\ sockFd'[w][n] = NoFd
      /\ n \in tracked[w] => slot'[w][n] = NoFd
      /\ sockFd[w][n] # NoFd => owner[sockFd[w][n]] = <<w, n>> /\ owner'[sockFd[w][n]] = NoConn
      /\ \A v \in Worker, m \in Serial : <<v, m>> # <<w, n>> =>
           sockFd'[v][m] = sockFd[v][m] /\ slot'[v][m] = slot[v][m]
      /\ \A g \in Fd : g # sockFd[w][n] => owner'[g] = owner[g]
  BY <1>1, CloseStep DEF IInv, TypeOK
<1>5. \A g \in Fd : g = sockFd[w][n] => owner'[g] = NoConn
  BY <1>4 DEF NoFd, Fd
<1> USE DEF IInv
<1>6. CurIsOwn'
  <2> SUFFICES ASSUME NEW v \in Worker, pc[v] \in {"connect", "http"}
               PROVE  /\ owner'[cur[v]] = <<v, opened[v]>> /\ opened[v] \in Serial
                      /\ opened[v] \notin alive'[v] /\ opened[v] \notin tracked[v]
    BY <1>1 DEF CurIsOwn
  <2>1. /\ owner[cur[v]] = <<v, opened[v]>> /\ opened[v] \in Serial /\ cur[v] \in Fd
        /\ opened[v] \notin alive[v] /\ opened[v] \notin tracked[v]
    BY DEF CurIsOwn, TypeOK
  <2>2. v # w
    BY <1>1
  <2>3. cur[v] # sockFd[w][n]
    BY <1>4, <2>1, <2>2 DEF NoFd, Fd
  <2> QED
    BY <1>2, <1>4, <2>1, <2>2, <2>3
<1>7. Numbered'
  BY <1>1, <1>2, <1>3 DEF Numbered
<1>8. Agree'
  <2> SUFFICES ASSUME NEW v \in Worker, NEW m \in Serial, m \in alive'[v], m \in tracked[v]
               PROVE  sockFd'[v][m] = slot'[v][m]
    BY <1>1 DEF Agree
  <2>1. CASE v = w /\ m = n
    BY <1>4, <2>1
  <2>2. CASE ~(v = w /\ m = n)
    BY <1>2, <1>3, <1>4, <2>2 DEF Agree
  <2> QED
    BY <2>1, <2>2
<1>9. Phases'
  BY <1>1, <1>2 DEF Phases
<1>10. HandleIsOwn'
  <2> SUFFICES ASSUME NEW v \in Worker, NEW m \in Serial, m \in alive'[v], sockFd'[v][m] # NoFd
               PROVE  owner'[sockFd'[v][m]] = <<v, m>>
    BY DEF HandleIsOwn
  <2>1. ~(v = w /\ m = n)
    BY <1>4
  <2>2. /\ sockFd'[v][m] = sockFd[v][m] /\ owner[sockFd[v][m]] = <<v, m>>
        /\ sockFd[v][m] \in Fd
    BY <1>2, <1>3, <1>4, <2>1 DEF HandleIsOwn, TypeOK
  <2>3. sockFd[v][m] # sockFd[w][n]
    BY <1>4, <2>1, <2>2 DEF NoFd, Fd
  <2> QED
    BY <1>4, <2>2, <2>3
<1>11. SlotIsOwn'
  <2> SUFFICES ASSUME NEW v \in Worker, NEW m \in Serial, m \in tracked[v], slot'[v][m] # NoFd
               PROVE  owner'[slot'[v][m]] = <<v, m>>
    BY <1>1 DEF SlotIsOwn
  <2>1. ~(v = w /\ m = n)
    BY <1>4
  <2>2. /\ slot'[v][m] = slot[v][m] /\ owner[slot[v][m]] = <<v, m>> /\ slot[v][m] \in Fd
    BY <1>4, <2>1 DEF SlotIsOwn, TypeOK
  <2>3. slot[v][m] # sockFd[w][n]
    BY <1>4, <2>1, <2>2 DEF NoFd, Fd
  <2> QED
    BY <1>4, <2>2, <2>3
<1>12. Held'
  <2> SUFFICES ASSUME oom' <= 1, NEW v \in Worker, NEW g \in Fd, NEW m \in Serial,
                      owner'[g] = <<v, m>>
               PROVE  \/ pc'[v] \in {"connect", "http"} /\ cur'[v] = g
                      \/ m \in alive'[v] /\ sockFd'[v][m] = g
                      \/ m \in tracked'[v] /\ slot'[v][m] = g
    BY DEF Held
  <2>1. g # sockFd[w][n] /\ owner[g] = <<v, m>>
    BY <1>0, <1>4, <1>5
  <2>2. \/ pc[v] \in {"connect", "http"} /\ cur[v] = g
        \/ m \in alive[v] /\ sockFd[v][m] = g
        \/ m \in tracked[v] /\ slot[v][m] = g
    BY <1>1, <2>1 DEF Held
  <2>3. CASE v = w /\ m = n
    <3>1. m \in tracked[v] => slot[v][m] # g
      BY <1>1, <2>1, <2>3 DEF Agree
    <3> QED
      BY <1>1, <2>1, <2>2, <2>3, <3>1
  <2>4. CASE ~(v = w /\ m = n)
    BY <1>1, <1>2, <1>3, <1>4, <2>2, <2>4
  <2> QED
    BY <2>3, <2>4
<1> QED
  BY <1>6, <1>7, <1>8, <1>9, <1>10, <1>11, <1>12 DEF Rest

(* The sweep closes what a slot still holds.                               *)
LEMMA ForceCloseKeeps ==
  ASSUME IInv, TypeOK', NEW w \in Worker, NEW n \in Serial, ForceClose(w, n)
  PROVE  Rest'
<1> DEFINE f == slot[w][n]
<1>0. \A v \in Worker, m \in Serial : <<v, m>> # NoConn
  BY SocketAssumption DEF Serial
<1>1. /\ pc[w] = "sweep" /\ alive[w] = {} /\ f \in Fd /\ owner[f] = <<w, n>>
      /\ UNCHANGED <<pc, opened, cur, alive, sockFd, tracked, oom>>
  BY DEF ForceClose, IInv, SlotIsOwn, TypeOK, Phases
<1>2. /\ owner'[f] = NoConn /\ slot'[w][n] = NoFd
      /\ \A g \in Fd : g # f => owner'[g] = owner[g]
      /\ \A v \in Worker, m \in Serial : <<v, m>> # <<w, n>> => slot'[v][m] = slot[v][m]
  BY <1>1 DEF ForceClose, IInv, TypeOK
<1> HIDE DEF f
<1> USE DEF IInv
<1>3. CurIsOwn'
  <2> SUFFICES ASSUME NEW v \in Worker, pc[v] \in {"connect", "http"}
               PROVE  /\ owner'[cur[v]] = <<v, opened[v]>> /\ opened[v] \in Serial
                      /\ opened[v] \notin alive[v] /\ opened[v] \notin tracked[v]
    BY <1>1 DEF CurIsOwn
  <2>1. /\ owner[cur[v]] = <<v, opened[v]>> /\ opened[v] \in Serial /\ cur[v] \in Fd
        /\ opened[v] \notin alive[v] /\ opened[v] \notin tracked[v]
    BY DEF CurIsOwn, TypeOK
  <2>2. cur[v] # f
    BY <1>1, <2>1
  <2> QED
    BY <1>2, <2>1, <2>2
<1>4. Numbered' /\ Phases'
  BY <1>1 DEF Numbered, Phases
<1>5. Agree'
  BY <1>1, <1>2 DEF Agree
<1>6. HandleIsOwn'
  <2> SUFFICES ASSUME NEW v \in Worker, NEW m \in Serial, m \in alive[v], sockFd[v][m] # NoFd
               PROVE  owner'[sockFd[v][m]] = <<v, m>>
    BY <1>1 DEF HandleIsOwn
  <2>1. sockFd[v][m] \in Fd /\ owner[sockFd[v][m]] = <<v, m>> /\ v # w
    BY <1>1 DEF HandleIsOwn, TypeOK
  <2> QED
    BY <1>1, <1>2, <2>1
<1>7. SlotIsOwn'
  <2> SUFFICES ASSUME NEW v \in Worker, NEW m \in Serial, m \in tracked[v], slot'[v][m] # NoFd
               PROVE  owner'[slot'[v][m]] = <<v, m>>
    BY <1>1 DEF SlotIsOwn
  <2>1. ~(v = w /\ m = n)
    BY <1>2
  <2>2. /\ slot'[v][m] = slot[v][m] /\ owner[slot[v][m]] = <<v, m>> /\ slot[v][m] \in Fd
    BY <1>2, <2>1 DEF SlotIsOwn, TypeOK
  <2> QED
    BY <1>1, <1>2, <2>1, <2>2
<1>8. Held'
  <2> SUFFICES ASSUME oom' <= 1, NEW v \in Worker, NEW g \in Fd, NEW m \in Serial,
                      owner'[g] = <<v, m>>
               PROVE  \/ pc'[v] \in {"connect", "http"} /\ cur'[v] = g
                      \/ m \in alive'[v] /\ sockFd'[v][m] = g
                      \/ m \in tracked'[v] /\ slot'[v][m] = g
    BY DEF Held
  <2>1. g # f /\ owner[g] = <<v, m>>
    BY <1>0, <1>2
  <2>2. \/ pc[v] \in {"connect", "http"} /\ cur[v] = g
        \/ m \in alive[v] /\ sockFd[v][m] = g
        \/ m \in tracked[v] /\ slot[v][m] = g
    BY <1>1, <2>1 DEF Held
  <2>3. slot[v][m] = g => slot'[v][m] = g
    BY <1>2, <2>1 DEF f
  <2> QED
    BY <1>1, <2>2, <2>3
<1> QED
  BY <1>3, <1>4, <1>5, <1>6, <1>7, <1>8 DEF Rest

(* The invocation moves on to its next phase.                              *)
LEMMA PhaseKeeps ==
  ASSUME IInv, TypeOK', NEW w \in Worker,
         BeginInvocation(w) \/ EndRun(w) \/ StateClosed(w) \/ EndInvocation(w)
  PROVE  Rest'
<1> USE DEF IInv
<1>1. /\ UNCHANGED <<owner, opened, cur, alive, sockFd, oom>>
      /\ pc[w] \notin {"connect", "http"} /\ pc'[w] \notin {"connect", "http"}
      /\ \A v \in Worker : v # w =>
           pc'[v] = pc[v] /\ tracked'[v] = tracked[v] /\ slot'[v] = slot[v]
  BY DEF BeginInvocation, EndRun, StateClosed, EndInvocation, TypeOK, tracker
<1>2. /\ pc'[w] \in {"sweep", "idle"} => alive[w] = {}
      /\ pc'[w] = "idle" => tracked'[w] = {}
  BY DEF BeginInvocation, EndRun, StateClosed, EndInvocation, Phases, TypeOK, tracker
<1>3. \/ tracked'[w] = tracked[w] /\ slot'[w] = slot[w]
      \/ tracked'[w] = {} /\ \A n \in tracked[w] : slot[w][n] = NoFd
  BY DEF BeginInvocation, EndRun, StateClosed, EndInvocation, Phases, TypeOK, tracker
<1>4. CurIsOwn'
  BY <1>1 DEF CurIsOwn
<1>5. Numbered' /\ Agree'
  BY <1>1, <1>3 DEF Numbered, Agree
<1>9. SlotIsOwn'
  BY <1>1, <1>3 DEF SlotIsOwn
<1>6. Phases'
  BY <1>1, <1>2 DEF Phases
<1>7. HandleIsOwn'
  BY <1>1 DEF HandleIsOwn
<1>8. Held'
  <2> SUFFICES ASSUME oom' <= 1, NEW v \in Worker, NEW g \in Fd, NEW m \in Serial,
                      owner'[g] = <<v, m>>
               PROVE  \/ pc'[v] \in {"connect", "http"} /\ cur'[v] = g
                      \/ m \in alive'[v] /\ sockFd'[v][m] = g
                      \/ m \in tracked'[v] /\ slot'[v][m] = g
    BY DEF Held
  <2>1. \/ pc[v] \in {"connect", "http"} /\ cur[v] = g
        \/ m \in alive[v] /\ sockFd[v][m] = g
        \/ m \in tracked[v] /\ slot[v][m] = g
    BY <1>1 DEF Held
  <2>2. g # NoFd
    BY DEF Fd, NoFd
  <2> QED
    BY <1>1, <1>3, <2>1, <2>2
<1> QED
  BY <1>4, <1>5, <1>6, <1>7, <1>8, <1>9 DEF Rest

(* All actions together.                                                  *)
LEMMA InvStep == IInv /\ [Next]_vars => IInv'
<1> SUFFICES ASSUME IInv, [Next]_vars PROVE IInv'
  OBVIOUS
<1>1. TypeOK'
  BY TypeStep DEF IInv
<1>2. Rest'
  <2>1. CASE UNCHANGED vars
    BY <2>1 DEF vars, tracker, IInv, Rest, CurIsOwn, Numbered, Agree, Phases, HandleIsOwn,
                SlotIsOwn, Held
  <2>2. CASE Next
    BY <1>1, <2>2, OpenKeeps, CloseCurrentKeeps, ConnectedKeeps, SocketCloseKeeps,
       ForceCloseKeeps, PhaseKeeps DEF Next
  <2> QED
    BY <2>1, <2>2
<1> QED
  BY <1>1, <1>2 DEF IInv, Rest

----------------------------------------------------------------------------
(* The invariant holds throughout: open descriptors, userdata and tracker  *)
(* slots stay in step in every interleaving of the threads.                *)
THEOREM SocketInvariance == Spec => []IInv
BY InitIInv, InvStep, PTL DEF Spec

(* Every userdata of socket_close, send and recv names its own connection. *)
THEOREM HandlesStayOwn == Spec => []HandleIsOwn
<1>1. IInv => HandleIsOwn
  BY DEF IInv
<1> QED
  BY <1>1, SocketInvariance, PTL

(* Every slot force_close_all looks at holds its own connection.           *)
THEOREM SlotsStayOwn == Spec => []SlotIsOwn
<1>1. IInv => SlotIsOwn
  BY DEF IInv
<1> QED
  BY <1>1, SocketInvariance, PTL

(* No invocation leaks a descriptor unless two allocations failed.         *)
THEOREM NothingLeaks == Spec => []NoLeak
<1>1. IInv => NoLeak
  BY DEF IInv, Held, Phases, NoLeak
<1> QED
  BY <1>1, SocketInvariance, PTL

(* Every path that closes a socket closes its own connection only, for any *)
(* number of threads, descriptors and connections.                         *)
THEOREM ClosesStayOwn == Spec => []ClosesOwnOnly
BY HandlesStayOwn, SlotsStayOwn, PTL DEF ClosesOwnOnly

============================================================================
