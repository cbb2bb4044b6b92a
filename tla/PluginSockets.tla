--------------------------- MODULE PluginSockets ---------------------------
(***************************************************************************)
(* The sockets of plugin invocations: src/plugin/invoke.c, api_socket.c,   *)
(* fd_tracker.c and http_get of api_http.c.  Every worker thread runs one  *)
(* invocation after another, each with a Lua state and a tracker of its    *)
(* own, but all of them open and close descriptors in the one descriptor   *)
(* table of the process, where a number is reused as soon as it is closed. *)
(*                                                                         *)
(* A connection is named by the worker that opened it and a count; a slot  *)
(* of the tracker is named by the connection registered in it (track_idx). *)
(***************************************************************************)
EXTENDS Integers, FiniteSets

CONSTANTS
  Worker,       \* the threads of the pool
  NoConn,       \* a free descriptor belongs to no connection
  FdCount,      \* size of the descriptor table
  InitialSlots, \* first capacity of a tracker (8 in fd_tracker.c)
  MaxOpens,     \* bound: connections a worker opens
  MaxOom        \* bound: failed allocations

ASSUME SocketAssumption ==
  /\ NoConn \notin Worker \X Nat
  /\ FdCount \in Nat \ {0} /\ InitialSlots \in Nat \ {0}
  /\ MaxOpens \in Nat /\ MaxOom \in Nat

Fd     == 0..(FdCount - 1)
NoFd   == -1
Serial == 1..MaxOpens

VARIABLES
  owner,    \* owner[f]: the connection descriptor f belongs to
  pc,       \* pc[w]: where the invocation of w is
  opened,   \* opened[w]: connections w has opened so far
  cur,      \* cur[w]: the descriptor held by a running connect or http_get
  alive,    \* alive[w]: connections that have a socket userdata
  sockFd,   \* sockFd[w][n]: sock->fd of that userdata
  tracked,  \* tracked[w]: connections with a slot in ctx->open_fds
  slot,     \* slot[w][n]: the descriptor in that slot, -1 once closed
  capacity, \* capacity[w]: open_fds.capacity
  oom       \* failed allocations so far

tracker == <<tracked, slot, capacity>>
vars == <<owner, pc, opened, cur, alive, sockFd, tracker, oom>>

TypeOK ==
  /\ owner \in [Fd -> (Worker \X Serial) \cup {NoConn}]
  /\ pc \in [Worker -> {"idle", "lua", "connect", "http", "close", "sweep"}]
  /\ opened \in [Worker -> 0..MaxOpens]
  /\ cur \in [Worker -> Fd \cup {NoFd}]
  /\ \A w \in Worker : pc[w] \in {"connect", "http"} => cur[w] \in Fd
  /\ alive \in [Worker -> SUBSET Serial]
  /\ sockFd \in [Worker -> [Serial -> Fd \cup {NoFd}]]
  /\ tracked \in [Worker -> SUBSET Serial]
  /\ slot \in [Worker -> [Serial -> Fd \cup {NoFd}]]
  /\ capacity \in [Worker -> Nat]
  /\ oom \in Nat

Closed == [n \in Serial |-> NoFd]

Init ==
  /\ owner = [f \in Fd |-> NoConn]
  /\ pc = [w \in Worker |-> "idle"]
  /\ opened = [w \in Worker |-> 0]
  /\ cur = [w \in Worker |-> NoFd]
  /\ alive = [w \in Worker |-> {}] /\ sockFd = [w \in Worker |-> Closed]
  /\ tracked = [w \in Worker |-> {}] /\ slot = [w \in Worker |-> Closed]
  /\ capacity = [w \in Worker |-> 0]
  /\ oom = 0

----------------------------------------------------------------------------
(* luaL_newstate and an empty context; without memory for it the plugin    *)
(* fails at once and nothing was opened.                                   *)
BeginInvocation(w) ==
  /\ pc[w] = "idle"
  /\ pc' = [pc EXCEPT ![w] = "lua"]
  /\ tracked' = [tracked EXCEPT ![w] = {}]
  /\ slot' = [slot EXCEPT ![w] = Closed]
  /\ capacity' = [capacity EXCEPT ![w] = 0]
  /\ UNCHANGED <<owner, opened, cur, alive, sockFd, oom>>

(* socket(): the kernel hands out the lowest free number.  With none free  *)
(* the call returns an error to the plugin and nothing changes.            *)
OpenDescriptor(w, f, where) ==
  /\ pc[w] = "lua"
  /\ opened[w] < MaxOpens
  /\ owner[f] = NoConn /\ \A g \in Fd : g < f => owner[g] # NoConn
  /\ owner' = [owner EXCEPT ![f] = <<w, opened[w] + 1>>]
  /\ opened' = [opened EXCEPT ![w] = @ + 1]
  /\ cur' = [cur EXCEPT ![w] = f]
  /\ pc' = [pc EXCEPT ![w] = where]
  /\ UNCHANGED <<alive, sockFd, tracker, oom>>

(* raw_tcp_connect on behalf of open_sock_tcp, or of http_get.             *)
OpenSockTcp(w, f) == OpenDescriptor(w, f, "connect")
HttpGet(w, f)     == OpenDescriptor(w, f, "http")

(* The connect failed or timed out, or http_get has its response or its    *)
(* error: the C function closes the descriptor itself.                     *)
CloseCurrent(w) ==
  /\ pc[w] \in {"connect", "http"}
  /\ owner' = [owner EXCEPT ![cur[w]] = NoConn]
  /\ cur' = [cur EXCEPT ![w] = NoFd]
  /\ pc' = [pc EXCEPT ![w] = "lua"]
  /\ UNCHANGED <<opened, alive, sockFd, tracker, oom>>

(* cytadel_plugin_fd_tracker_add, which may have to grow the array.        *)
Full(w) == Cardinality(tracked[w]) = capacity[w]

Grown(w) == IF ~Full(w) THEN capacity[w] ELSE IF capacity[w] = 0 THEN InitialSlots ELSE 2 * capacity[w]

TrackerAdd(w) ==
  /\ tracked' = [tracked EXCEPT ![w] = @ \cup {opened[w]}]
  /\ slot' = [slot EXCEPT ![w][opened[w]] = cur[w]]
  /\ capacity' = [capacity EXCEPT ![w] = Grown(w)]

NewUserdata(w) ==
  /\ alive' = [alive EXCEPT ![w] = @ \cup {opened[w]}]
  /\ sockFd' = [sockFd EXCEPT ![w][opened[w]] = cur[w]]

(* Mutant: the userdata is created first, and its error skips the tracker. *)
ConnectedUserdataFirst(w) ==
  /\ pc[w] = "connect"
  /\ \/ TrackerAdd(w) /\ NewUserdata(w) /\ UNCHANGED oom
     \/ oom < MaxOom /\ oom' = oom + 1 /\ UNCHANGED <<alive, sockFd, tracker>>
     \/ Full(w) /\ NewUserdata(w) /\ oom < MaxOom /\ oom' = oom + 1 /\ UNCHANGED tracker
  /\ cur' = [cur EXCEPT ![w] = NoFd]
  /\ pc' = [pc EXCEPT ![w] = "lua"]
  /\ UNCHANGED <<owner, opened>>

(* The connection stands: register it, then create its userdata.  The      *)
(* first may fail silently, the second by a Lua error, which the plugin    *)
(* may catch.                                                              *)
Connected(w) ==
  /\ pc[w] = "connect"
  /\ \/ TrackerAdd(w) /\ NewUserdata(w) /\ UNCHANGED oom
     \/ TrackerAdd(w) /\ oom < MaxOom /\ oom' = oom + 1 /\ UNCHANGED <<alive, sockFd>>
     \/ Full(w) /\ NewUserdata(w) /\ oom < MaxOom /\ oom' = oom + 1 /\ UNCHANGED tracker
     \/ Full(w) /\ oom + 1 < MaxOom /\ oom' = oom + 2 /\ UNCHANGED <<alive, sockFd, tracker>>
  /\ cur' = [cur EXCEPT ![w] = NoFd]
  /\ pc' = [pc EXCEPT ![w] = "lua"]
  /\ UNCHANGED <<owner, opened>>

(* Mutant: a connection without a slot passes for a closed one.            *)
MustCloseTracked(w, n) ==
  sockFd[w][n] # NoFd /\ n \in tracked[w] /\ slot[w][n] # NoFd

(* The descriptor is still to be closed: not closed through this userdata, *)
(* and not known to the tracker as closed.                                 *)
MustClose(w, n) == sockFd[w][n] # NoFd /\ ~(n \in tracked[w] /\ slot[w][n] = NoFd)

(* Mutant: the slot is not marked closed.                                  *)
SocketCloseNoMark(w, n) ==
  /\ owner' = IF MustClose(w, n) THEN [owner EXCEPT ![sockFd[w][n]] = NoConn] ELSE owner
  /\ sockFd' = [sockFd EXCEPT ![w][n] = NoFd]
  /\ UNCHANGED slot

(* cytadel_plugin_socket_close on the userdata of connection n: mark the   *)
(* slot, close the descriptor, forget its number.                          *)
SocketClose(w, n) ==
  /\ slot' = IF MustClose(w, n) /\ n \in tracked[w] THEN [slot EXCEPT ![w][n] = NoFd] ELSE slot
  /\ owner' = IF MustClose(w, n) THEN [owner EXCEPT ![sockFd[w][n]] = NoConn] ELSE owner
  /\ sockFd' = [sockFd EXCEPT ![w][n] = NoFd]

(* close_sock, or the end of a <close> variable.                           *)
CloseSock(w, n) ==
  /\ pc[w] = "lua"
  /\ n \in alive[w]
  /\ SocketClose(w, n)
  /\ UNCHANGED <<pc, opened, cur, alive, tracked, capacity, oom>>

(* __gc, by the collector while the plugin runs or by lua_close.           *)
Finalize(w, n) ==
  /\ pc[w] \in {"lua", "close"}
  /\ n \in alive[w]
  /\ SocketClose(w, n)
  /\ alive' = [alive EXCEPT ![w] = @ \ {n}]
  /\ UNCHANGED <<pc, opened, cur, tracked, capacity, oom>>

(* The protected call returned, whatever its result, or the script could   *)
(* not be loaded or defines no run(): close_state is next on every path.   *)
EndRun(w) ==
  /\ pc[w] = "lua"
  /\ pc' = [pc EXCEPT ![w] = "close"]
  /\ UNCHANGED <<owner, opened, cur, alive, sockFd, tracker, oom>>

StateClosed(w) ==
  /\ pc[w] = "close"
  /\ alive[w] = {}
  /\ pc' = [pc EXCEPT ![w] = "sweep"]
  /\ UNCHANGED <<owner, opened, cur, alive, sockFd, tracker, oom>>

(* One turn of the loop of force_close_all.                                *)
ForceClose(w, n) ==
  /\ pc[w] = "sweep"
  /\ n \in tracked[w] /\ slot[w][n] # NoFd
  /\ owner' = [owner EXCEPT ![slot[w][n]] = NoConn]
  /\ slot' = [slot EXCEPT ![w][n] = NoFd]
  /\ UNCHANGED <<pc, opened, cur, alive, sockFd, tracked, capacity, oom>>

(* The tracker is freed and the invocation returns its status.             *)
EndInvocation(w) ==
  /\ pc[w] = "sweep"
  /\ \A n \in tracked[w] : slot[w][n] = NoFd
  /\ tracked' = [tracked EXCEPT ![w] = {}]
  /\ capacity' = [capacity EXCEPT ![w] = 0]
  /\ pc' = [pc EXCEPT ![w] = "idle"]
  /\ UNCHANGED <<owner, opened, cur, alive, sockFd, slot, oom>>

Engine(w) ==
  \/ CloseCurrent(w) \/ Connected(w)
  \/ EndRun(w) \/ StateClosed(w) \/ EndInvocation(w)
  \/ \E n \in Serial : (pc[w] = "close" /\ Finalize(w, n)) \/ ForceClose(w, n)

Next ==
  \E w \in Worker :
    \/ BeginInvocation(w)
    \/ \E f \in Fd : OpenSockTcp(w, f) \/ HttpGet(w, f)
    \/ CloseCurrent(w) \/ Connected(w)
    \/ \E n \in Serial : CloseSock(w, n) \/ Finalize(w, n) \/ ForceClose(w, n)
    \/ EndRun(w) \/ StateClosed(w) \/ EndInvocation(w)

Spec == Init /\ [][Next]_vars

(* Threads are scheduled, network calls have timeouts, and a plugin ends:  *)
(* run() at the latest by the error of the runtime hook; its top-level     *)
(* chunk, which runs before the hook is set, is assumed to.                *)
Fairness == \A w \in Worker : WF_vars(Engine(w))

FairSpec == Spec /\ Fairness
----------------------------------------------------------------------------
(* Properties.                                                             *)

(* A socket userdata that is not marked closed names a descriptor that is  *)
(* still its own connection: no close, send or recv through it can reach   *)
(* the connection of another thread that got the same number.              *)
HandleIsOwn ==
  \A w \in Worker, n \in Serial :
    n \in alive[w] /\ sockFd[w][n] # NoFd => owner[sockFd[w][n]] = <<w, n>>

(* Nor can the end-of-invocation sweep: a slot that is not marked closed   *)
(* holds the descriptor of the connection it was registered for.           *)
SlotIsOwn ==
  \A w \in Worker, n \in Serial :
    n \in tracked[w] /\ slot[w][n] # NoFd => owner[slot[w][n]] = <<w, n>>

(* No close of any path (close_sock, __close, __gc, the sweep) reaches a   *)
(* descriptor number that another connection has got since.                *)
ClosesOwnOnly == HandleIsOwn /\ SlotIsOwn

(* An invocation leaves no descriptor open, however it ended, as long as   *)
(* no more than one allocation failed (section 4.4 of the plugin API).     *)
NoLeak ==
  oom <= 1 =>
    \A w \in Worker, f \in Fd, n \in Serial : owner[f] = <<w, n>> => pc[w] # "idle"

(* Every descriptor goes back to the table: threads that need one are not  *)
(* starved of it for ever by a plugin that forgot to close its sockets.    *)
EventuallyClosed ==
  \A f \in Fd : owner[f] # NoConn ~> (owner[f] = NoConn \/ oom > 1)
============================================================================
