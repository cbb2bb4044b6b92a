------------------------------ MODULE Algorithms ------------------------------
(***************************************************************************)
(* The calls of the pure functions, one at a time: a call is made with     *)
(* arguments from small sets and its result is compared with a reference   *)
(* definition that is written without the algorithm.  The calls of each    *)
(* part are those of ScopeCalls, VersionCalls, GateCalls, ReportCalls and  *)
(* CalendarCalls.                                                          *)
(***************************************************************************)
EXTENDS ScopeCalls, VersionCalls, GateCalls, ReportCalls, CalendarCalls

Returned ==
    /\ call.op \notin {"idle", "day"}
    /\ Called(Idle, <<>>)

CallsNext == ScopeNext \/ VersionNext \/ GateNext \/ ReportNext \/ CalendarNext \/ Returned

CallsSpec == CallInit /\ [][CallsNext]_<<call, result>>

=============================================================================
