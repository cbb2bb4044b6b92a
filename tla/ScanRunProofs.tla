--------------------------- MODULE ScanRunProofs ---------------------------
(***************************************************************************)
(* For every number of scans, hosts, findings and ports, every set of      *)
(* pages and every combination of failures: 'completed' and exit status 0  *)
(* are said only of a scan that lost nothing, detections are never torn, a *)
(* final status is final and a report of a finished scan is exact.  Then   *)
(* the text of a report: what is escaped is read back whole and stays in   *)
(* its place.                                                              *)
(***************************************************************************)
EXTENDS ScanRun, ReportCalls, SequenceTheorems, WellFoundedInduction, TLAPS

Active == {"setup", "pool", "persist", "finding", "detect", "finalize"}
Final  == {"completed", "failed"}

(* The unit was passed by the loops of main and persist_host.              *)
Before(s, h, u) == h < host[s] \/ (h = host[s] /\ u < unit[s])

(* The row follows the process.                                            *)
StatusInv(s) ==
  /\ pc[s] = "start" => status[s] = "none"
  /\ pc[s] \in Active => status[s] = "running"

(* A clean pool leaves no target out.                                      *)
PoolInv(s) ==
  /\ poolOk[s] => \A h \in Host : outcome[s][h] # "unscanned"
  /\ pc[s] \in {"start", "setup", "pool"} => ~poolOk[s] /\ host[s] = 1 /\ unit[s] = 1

(* As long as db_ok holds, what the loops have passed is accounted for.    *)
LoopInv(s) ==
  /\ dbOk[s] =>
       \A h \in Host, u \in Unit :
         Before(s, h, u) /\ outcome[s][h] = "up" => <<h, u>> \in skipped[s] \cup done[s]
  /\ pc[s] \in {"finding", "detect"} => host[s] \in Host /\ unit[s] \in Unit
  /\ pc[s] = "finding" => IsFinding(s)
  /\ pc[s] = "detect" => ~IsFinding(s)
  /\ pc[s] = "finalize" /\ poolOk[s] => host[s] = Hosts + 1

WholeInv(s) ==
  /\ pc[s] = "success" => Whole(s)
  /\ status[s] = "completed" => Whole(s)

(* Rows are those of units the loops have passed, ...                      *)
RowsInv(s) ==
  /\ \A h \in Host, u \in Unit : <<h, u>> \in done[s] => Before(s, h, u)
  /\ \A h \in Host, u \in Unit, c \in Cve \cup {0} : <<h, u, c>> \in rows[s] => <<h, u>> \in done[s]

(* ... and those of a detection are one state of the mirror.               *)
TornInv(s) ==
  \A h \in Host, u \in (Findings + 1)..Units :
    <<h, u>> \in done[s] => \E m \in seen : CvesOf(s, h, u) = m \ Malformed

(* The open transaction has inserted the groups it has read so far.        *)
PendInv(s) ==
  /\ pc[s] \notin {"finding", "detect"} => pend[s] = {}
  /\ pc[s] = "finding" => pend[s] \subseteq {<<host[s], unit[s], 0>>}
  /\ pc[s] = "detect" =>
       \E m \in seen :
         /\ todo[s] \subseteq m
         /\ \A h \in Host, u \in Unit, c \in Cve \cup {0} :
              <<h, u, c>> \in pend[s] <=> h = host[s] /\ u = unit[s] /\ c \in (m \ todo[s]) \ Malformed

ScanInv(s) ==
  StatusInv(s) /\ PoolInv(s) /\ LoopInv(s) /\ WholeInv(s) /\ RowsInv(s) /\ TornInv(s) /\ PendInv(s)

(* What a report has read of a scan that it saw finished is still so.      *)
ReportInv ==
  /\ report.pc # "idle" => status[report.scan] # "none"
  /\ report.pc \in {"summary", "body", "written"} /\ report.status \in Final =>
       status[report.scan] = report.status
  /\ report.pc \in {"body", "written"} /\ report.status \in Final =>
       report.counted = rows[report.scan]
  /\ report.pc = "written" /\ report.status \in Final =>
       report.listed = rows[report.scan]

IInv ==
  /\ TypeOK
  /\ mirror \in seen
  /\ \A s \in Scan : ScanInv(s)
  /\ ReportInv

----------------------------------------------------------------------------
(* The types of the parts, and the arithmetic of the loops.                *)
LEMMA Constants ==
  /\ Hosts \in Nat /\ Findings \in Nat /\ Ports \in Nat /\ Units \in Nat
  /\ Cve \subseteq Nat /\ 0 \notin Cve
  /\ \A p \in Page : p \subseteq Cve
BY ScanAssumption DEF Units, Cve

(* Initially nothing is stored and nobody reads.                           *)
LEMMA InitIInv == Init => IInv
<1> SUFFICES ASSUME Init PROVE IInv
  OBVIOUS
<1>1. TypeOK
  BY Constants DEF Init, TypeOK, Report, NoReport
<1>2. ASSUME NEW s \in Scan PROVE ScanInv(s)
  BY <1>2, Constants
     DEF Init, ScanInv, StatusInv, PoolInv, LoopInv, WholeInv, RowsInv, TornInv, PendInv, Before,
         Active, Host, Unit, Cve
<1>3. ReportInv
  BY DEF Init, ReportInv, NoReport
<1> QED
  BY <1>1, <1>2, <1>3 DEF IInv, Init

----------------------------------------------------------------------------
(* The type invariant is inductive.                                        *)
LEMMA TypeMain ==
  ASSUME TypeOK, NEW s \in Scan, LoopInv(s), Main(s) PROVE TypeOK'
<1> USE Constants
<1>1. CASE OpenGate(s) \/ GateRefuses(s) \/ Setup(s) \/ SetupFails(s) \/ LoopEnds(s)
  <2>1. CASE OpenGate(s)
    BY <2>1 DEF TypeOK, OpenGate, CommitBy, loop
  <2>2. CASE GateRefuses(s)
    BY <2>2 DEF TypeOK, GateRefuses, db, loop, txn, Ended
  <2>3. CASE Setup(s)
    BY <2>3 DEF TypeOK, Setup, db, loop, txn
  <2>4. CASE SetupFails(s)
    BY <2>4 DEF TypeOK, SetupFails, CommitBy, db, loop, txn, Ended
  <2>5. CASE LoopEnds(s)
    BY <2>5 DEF TypeOK, LoopEnds, db, loop, txn
  <2> QED  BY <1>1, <2>1, <2>2, <2>3, <2>4, <2>5
<1>2. CASE Pool(s)
  BY <1>2 DEF TypeOK, Pool, db, txn
<1>3. CASE NextHost(s)
  BY <1>3 DEF TypeOK, NextHost, Persisting, Host, db, txn
<1>4. CASE SkipUnit(s)
  BY <1>4 DEF TypeOK, SkipUnit, Persisting, HasWork, Unit, At, db, txn
<1>5. CASE BeginFinding(s)
  BY <1>5 DEF TypeOK, BeginFinding, Persisting, HasWork, loop, Row
<1>6. CASE BeginFindingFails(s) \/ FindingFails(s) \/ DetectFails(s)
  BY <1>6 DEF TypeOK, BeginFindingFails, FindingFails, DetectFails, PersistFails
<1>7. CASE CommitFinding(s) \/ CommitDetect(s)
  <2>1. Commit(s) /\ host[s] \in Host /\ unit[s] \in Unit
    BY <1>7 DEF CommitFinding, CommitDetect, LoopInv
  <2>2. unit' \in [Scan -> 1..(Units + 1)] /\ stale' \in [Scan -> BOOLEAN]
    BY <2>1 DEF TypeOK, Commit, CommitBy, Unit
  <2>3. rows' \in [Scan -> SUBSET Row] /\ done' \in [Scan -> SUBSET (Host \X Unit)]
    BY <2>1 DEF TypeOK, Commit, At
  <2> QED
    BY <2>1, <2>2, <2>3 DEF TypeOK, Commit
<1>8. CASE RejectFinding(s)
  BY <1>8 DEF TypeOK, RejectFinding, At, LoopInv, Host, Unit
<1>9. CASE BeginDetect(s)
  BY <1>9 DEF TypeOK, BeginDetect, db, loop
<1>10. CASE \E c \in Cve : FlushGroup(s, c)
  BY <1>10 DEF TypeOK, FlushGroup, loop, Row, LoopInv
<1>11. CASE Finalize(s) \/ FinalizeFails(s)
  <2>1. CASE Finalize(s)
    BY <2>1 DEF TypeOK, Finalize, ExitWith, CommitBy, db, loop, txn, Ended
  <2>2. CASE FinalizeFails(s)
    BY <2>2 DEF TypeOK, FinalizeFails, ExitWith, CommitBy, db, loop, txn, Ended
  <2> QED  BY <1>11, <2>1, <2>2
<1> QED
  BY <1>1, <1>2, <1>3, <1>4, <1>5, <1>6, <1>7, <1>8, <1>9, <1>10, <1>11 DEF Main

(* The steps of the others.                                                *)
LEMMA TypeOther ==
  ASSUME TypeOK, ReportInv, (\E s \in Scan : Kill(s)) \/ SyncJob \/ ReportCmd PROVE TypeOK'
<1> USE Constants
<1>1. CASE \E s \in Scan : Kill(s)
  BY <1>1 DEF TypeOK, Kill, loop, Ended
<1>2. CASE SyncJob
  <2>1. CASE \E p \in Page : SyncBegin(p)
    BY <2>1 DEF TypeOK, SyncBegin, loop, txn
  <2>2. CASE SyncCommit
    BY <2>2 DEF TypeOK, SyncCommit, CommitBy, loop
  <2>3. CASE SyncRollback
    BY <2>3 DEF TypeOK, SyncRollback, loop, txn
  <2> QED
    BY <1>2, <2>1, <2>2, <2>3 DEF SyncJob
<1>3. CASE ReportCmd
  <2>1. report' \in Report
    <3>1. CASE \E s \in Scan : ReportBegin(s)
      BY <3>1 DEF ReportBegin, Report
    <3>2. CASE ReportHeader
      BY <3>2 DEF ReportHeader, Report, TypeOK, NoReport, ReportInv
    <3>3. CASE ReportSummary
      BY <3>3 DEF ReportSummary, Report, TypeOK, NoReport
    <3>4. CASE ReportBody
      BY <3>4 DEF ReportBody, Report, TypeOK, NoReport
    <3>5. CASE ReportEnd
      BY <3>5 DEF ReportEnd, Report
    <3> QED
      BY <1>3, <3>1, <3>2, <3>3, <3>4, <3>5 DEF ReportCmd
  <2>2. UNCHANGED <<db, pc, loop, txn, skipped, done, page>>
    BY <1>3 DEF ReportCmd, ReportBegin, ReportHeader, ReportSummary, ReportBody, ReportEnd
  <2> QED
    BY <2>1, <2>2 DEF TypeOK, db, loop, txn
<1> QED
  BY <1>1, <1>2, <1>3

----------------------------------------------------------------------------
(* Nothing of scan t changes, except perhaps that its snapshot gets stale. *)
Untouched(t) ==
  /\ status'[t] = status[t] /\ rows'[t] = rows[t] /\ pc'[t] = pc[t]
  /\ host'[t] = host[t] /\ unit'[t] = unit[t] /\ outcome'[t] = outcome[t]
  /\ poolOk'[t] = poolOk[t] /\ dbOk'[t] = dbOk[t]
  /\ todo'[t] = todo[t] /\ pend'[t] = pend[t]
  /\ skipped'[t] = skipped[t] /\ done'[t] = done[t]

(* An untouched scan keeps its invariant while the mirror moves on.        *)
LEMMA Frame ==
  ASSUME NEW t \in Scan, ScanInv(t), Untouched(t), seen \subseteq seen' PROVE ScanInv(t)'
<1>1. StatusInv(t)' /\ PoolInv(t)'
  BY DEF ScanInv, Untouched, StatusInv, PoolInv
<1>2. LoopInv(t)'
  BY DEF ScanInv, Untouched, LoopInv, Before, IsFinding
<1>3. WholeInv(t)'
  BY DEF ScanInv, Untouched, WholeInv, Whole
<1>4. RowsInv(t)'
  BY DEF ScanInv, Untouched, RowsInv, Before
<1>5. TornInv(t)'
  BY DEF ScanInv, Untouched, TornInv, CvesOf
<1>6. PendInv(t)'
  BY DEF ScanInv, Untouched, PendInv
<1> QED
  BY <1>1, <1>2, <1>3, <1>4, <1>5, <1>6 DEF ScanInv

(* A process changes the data of no scan but its own.                      *)
LEMMA OnlyOwn ==
  ASSUME TypeOK, NEW s \in Scan, Main(s) \/ Kill(s), NEW t \in Scan, t # s
  PROVE  Untouched(t) /\ seen' = seen
<1> USE DEF TypeOK, Untouched, db, loop, txn
<1>1. CASE OpenGate(s) \/ GateRefuses(s) \/ Setup(s) \/ SetupFails(s) \/ LoopEnds(s)
  BY <1>1 DEF OpenGate, GateRefuses, Setup, SetupFails, LoopEnds
<1>2. CASE Pool(s)
  BY <1>2 DEF Pool
<1>3. CASE NextHost(s) \/ SkipUnit(s)
  BY <1>3 DEF NextHost, SkipUnit
<1>4. CASE BeginFinding(s) \/ RejectFinding(s) \/ BeginDetect(s)
  BY <1>4 DEF BeginFinding, RejectFinding, BeginDetect
<1>5. CASE BeginFindingFails(s) \/ FindingFails(s) \/ DetectFails(s)
  BY <1>5 DEF BeginFindingFails, FindingFails, DetectFails, PersistFails
<1>6. CASE CommitFinding(s) \/ CommitDetect(s)
  BY <1>6 DEF CommitFinding, CommitDetect, Commit
<1>7. CASE \E c \in Cve : FlushGroup(s, c)
  BY <1>7 DEF FlushGroup
<1>8. CASE Finalize(s) \/ FinalizeFails(s)
  BY <1>8 DEF Finalize, FinalizeFails, ExitWith
<1>9. CASE Kill(s)
  BY <1>9 DEF Kill
<1> QED
  BY <1>1, <1>2, <1>3, <1>4, <1>5, <1>6, <1>7, <1>8, <1>9 DEF Main

----------------------------------------------------------------------------
(* The steps of a process keep its own invariant.                          *)

(* Steps that touch neither rows nor the loops' positions.                 *)
LEMMA SetupKeeps ==
  ASSUME TypeOK, NEW s \in Scan, ScanInv(s),
         OpenGate(s) \/ GateRefuses(s) \/ Setup(s) \/ SetupFails(s) \/ LoopEnds(s) \/ Kill(s)
  PROVE  ScanInv(s)'
<1>1. /\ rows'[s] = rows[s] /\ host'[s] = host[s] /\ unit'[s] = unit[s]
      /\ outcome'[s] = outcome[s] /\ poolOk'[s] = poolOk[s] /\ dbOk'[s] = dbOk[s]
      /\ skipped'[s] = skipped[s] /\ done'[s] = done[s] /\ seen' = seen
  BY DEF OpenGate, GateRefuses, Setup, SetupFails, LoopEnds, Kill, db, loop
<1>2. \/ pc[s] = "start" /\ pc'[s] = "setup" /\ status'[s] = "running" /\ pend'[s] = pend[s]
      \/ pc[s] = "start" /\ pc'[s] = "failure" /\ status'[s] = status[s] /\ pend'[s] = pend[s]
      \/ pc[s] = "setup" /\ pc'[s] \in {"pool", "finalize"} /\ status'[s] = status[s] /\ pend'[s] = pend[s]
      \/ pc[s] = "persist" /\ host[s] = Hosts + 1 /\ pc'[s] = "finalize" /\ status'[s] = status[s] /\ pend'[s] = pend[s]
      \/ pc'[s] = "killed" /\ status'[s] = status[s] /\ pend'[s] = {}
  BY DEF OpenGate, GateRefuses, Setup, SetupFails, LoopEnds, Kill, db, loop, txn, TypeOK
<1>3. StatusInv(s)' /\ PoolInv(s)'
  BY <1>1, <1>2 DEF ScanInv, StatusInv, PoolInv, Active
<1>4. LoopInv(s)'
  BY <1>1, <1>2 DEF ScanInv, LoopInv, PoolInv, Before, IsFinding
<1>5. WholeInv(s)'
  BY <1>1, <1>2 DEF ScanInv, WholeInv, Whole
<1>6. RowsInv(s)' /\ TornInv(s)'
  BY <1>1 DEF ScanInv, RowsInv, TornInv, CvesOf, Before
<1>7. PendInv(s)'
  BY <1>1, <1>2 DEF ScanInv, PendInv
<1> QED
  BY <1>3, <1>4, <1>5, <1>6, <1>7 DEF ScanInv

(* The pool's results come in before the loops have passed anything.       *)
LEMMA PoolKeeps ==
  ASSUME TypeOK, NEW s \in Scan, ScanInv(s), Pool(s) PROVE ScanInv(s)'
<1>1. /\ rows'[s] = rows[s] /\ host'[s] = host[s] /\ unit'[s] = unit[s] /\ dbOk'[s] = dbOk[s]
      /\ skipped'[s] = skipped[s] /\ done'[s] = done[s] /\ seen' = seen /\ pend'[s] = pend[s]
      /\ status'[s] = status[s] /\ pc[s] = "pool" /\ pc'[s] = "persist"
      /\ poolOk'[s] => \A h \in Host : outcome'[s][h] # "unscanned"
  BY DEF Pool, TypeOK, db, txn
<1>2. StatusInv(s)' /\ PoolInv(s)'
  BY <1>1 DEF ScanInv, StatusInv, PoolInv, Active
<1>3. ASSUME NEW h \in Host, NEW u \in Unit PROVE ~Before(s, h, u)
  BY <1>1, <1>3, Constants DEF ScanInv, PoolInv, Before, Host, Unit
<1>4. LoopInv(s)'
  BY <1>1, <1>3 DEF ScanInv, LoopInv, Before
<1>5. WholeInv(s)'
  BY <1>1 DEF ScanInv, WholeInv, StatusInv, Active
<1>6. RowsInv(s)' /\ TornInv(s)'
  BY <1>1 DEF ScanInv, RowsInv, TornInv, CvesOf, Before
<1>7. PendInv(s)'
  BY <1>1 DEF ScanInv, PendInv
<1> QED
  BY <1>2, <1>4, <1>5, <1>6, <1>7 DEF ScanInv

(* A host is left only when nothing of it is to be stored any more.        *)
LEMMA NextHostKeeps ==
  ASSUME TypeOK, NEW s \in Scan, ScanInv(s), NextHost(s) PROVE ScanInv(s)'
<1>1. /\ rows'[s] = rows[s] /\ host'[s] = host[s] + 1 /\ unit'[s] = 1 /\ dbOk'[s] = dbOk[s]
      /\ skipped'[s] = skipped[s] /\ done'[s] = done[s] /\ seen' = seen /\ pend'[s] = pend[s]
      /\ status'[s] = status[s] /\ pc[s] = "persist" /\ pc'[s] = "persist"
      /\ poolOk'[s] = poolOk[s] /\ outcome'[s] = outcome[s]
  BY DEF NextHost, Persisting, TypeOK, db, txn
<1>2. StatusInv(s)' /\ PoolInv(s)'
  BY <1>1 DEF ScanInv, StatusInv, PoolInv, Active
<1>3. ASSUME NEW h \in Host, NEW u \in Unit, Before(s, h, u)' PROVE Before(s, h, u) \/ h = host[s]
  BY <1>1, <1>3, Constants DEF Before, Host, Unit, TypeOK
<1>4. ASSUME NEW h \in Host, NEW u \in Unit, Before(s, h, u)
      PROVE  Before(s, h, u)'
  BY <1>1, <1>4, Constants DEF Before, Host, Unit, TypeOK
<1>5. ASSUME dbOk[s], outcome[s][host[s]] = "up", NEW u \in Unit PROVE Before(s, host[s], u)
  <2>1. unit[s] \notin Unit
    BY <1>5 DEF NextHost, HasWork
  <2> QED
    BY <2>1, Constants DEF Before, Unit, TypeOK
<1>6. LoopInv(s)'
  BY <1>1, <1>3, <1>5 DEF ScanInv, LoopInv
<1>7. WholeInv(s)'
  BY <1>1 DEF ScanInv, WholeInv, StatusInv, Active
<1>8. RowsInv(s)' /\ TornInv(s)'
  BY <1>1, <1>4 DEF ScanInv, RowsInv, TornInv, CvesOf
<1>9. PendInv(s)'
  BY <1>1 DEF ScanInv, PendInv
<1> QED
  BY <1>2, <1>6, <1>7, <1>8, <1>9 DEF ScanInv

(* One unit further: the positions passed are the old ones and this one.   *)
LEMMA Further ==
  ASSUME TypeOK, NEW s \in Scan, host'[s] = host[s], unit'[s] = unit[s] + 1,
         NEW h \in Host, NEW u \in Unit
  PROVE  Before(s, h, u)' <=> Before(s, h, u) \/ <<h, u>> = At(s)
BY Constants DEF Before, Host, Unit, TypeOK, At

(* A unit that is skipped is accounted for.                                *)
LEMMA SkipKeeps ==
  ASSUME TypeOK, NEW s \in Scan, ScanInv(s), SkipUnit(s) \/ RejectFinding(s) PROVE ScanInv(s)'
<1>1. /\ rows'[s] = rows[s] /\ host'[s] = host[s] /\ unit'[s] = unit[s] + 1 /\ dbOk'[s] = dbOk[s]
      /\ skipped'[s] = skipped[s] \cup {At(s)} /\ done'[s] = done[s] /\ seen' = seen
      /\ status'[s] = status[s] /\ pc[s] \in {"persist", "finding"} /\ pc'[s] = "persist"
      /\ poolOk'[s] = poolOk[s] /\ outcome'[s] = outcome[s]
  BY DEF SkipUnit, RejectFinding, Persisting, TypeOK, db, txn
<1>2. pend'[s] = {}
  BY DEF SkipUnit, RejectFinding, Persisting, TypeOK, txn, ScanInv, PendInv
<1>3. StatusInv(s)' /\ PoolInv(s)'
  BY <1>1 DEF ScanInv, StatusInv, PoolInv, Active
<1>4. LoopInv(s)'
  BY <1>1, Further DEF ScanInv, LoopInv
<1>5. WholeInv(s)'
  BY <1>1 DEF ScanInv, WholeInv, StatusInv, Active
<1>6. RowsInv(s)' /\ TornInv(s)'
  BY <1>1, Further DEF ScanInv, RowsInv, TornInv, CvesOf
<1>7. PendInv(s)'
  BY <1>1, <1>2 DEF ScanInv, PendInv
<1> QED
  BY <1>3, <1>4, <1>5, <1>6, <1>7 DEF ScanInv

(* An error of the database clears db_ok and leaves no pending row.        *)
LEMMA FailKeeps ==
  ASSUME TypeOK, NEW s \in Scan, ScanInv(s), BeginFindingFails(s) \/ FindingFails(s) \/ DetectFails(s)
  PROVE  ScanInv(s)'
<1>1. /\ rows'[s] = rows[s] /\ host'[s] = host[s] /\ unit'[s] = unit[s] /\ dbOk'[s] = FALSE
      /\ skipped'[s] = skipped[s] /\ done'[s] = done[s] /\ seen' = seen /\ pend'[s] = {}
      /\ status'[s] = status[s] /\ pc[s] \in {"persist", "finding", "detect"} /\ pc'[s] = "persist"
      /\ poolOk'[s] = poolOk[s] /\ outcome'[s] = outcome[s]
  BY DEF BeginFindingFails, FindingFails, DetectFails, PersistFails, Persisting, TypeOK
<1>2. StatusInv(s)' /\ PoolInv(s)'
  BY <1>1 DEF ScanInv, StatusInv, PoolInv, Active
<1>3. LoopInv(s)'
  BY <1>1 DEF ScanInv, LoopInv
<1>4. WholeInv(s)'
  BY <1>1 DEF ScanInv, WholeInv, StatusInv, Active
<1>5. RowsInv(s)' /\ TornInv(s)'
  BY <1>1 DEF ScanInv, RowsInv, TornInv, CvesOf, Before
<1>6. PendInv(s)'
  BY <1>1 DEF ScanInv, PendInv
<1> QED
  BY <1>2, <1>3, <1>4, <1>5, <1>6 DEF ScanInv

(* A transaction begins, or inserts the row of one more CVE group.         *)
LEMMA TransactionKeeps ==
  ASSUME TypeOK, mirror \in seen, NEW s \in Scan, ScanInv(s),
         BeginFinding(s) \/ BeginDetect(s) \/ \E c \in Cve : FlushGroup(s, c)
  PROVE  ScanInv(s)'
<1>1. /\ rows'[s] = rows[s] /\ host'[s] = host[s] /\ unit'[s] = unit[s] /\ dbOk'[s] = dbOk[s]
      /\ skipped'[s] = skipped[s] /\ done'[s] = done[s] /\ seen' = seen
      /\ status'[s] = status[s] /\ poolOk'[s] = poolOk[s] /\ outcome'[s] = outcome[s]
  BY DEF BeginFinding, BeginDetect, FlushGroup, TypeOK, db, loop
<1>2. \/ pc[s] = "persist" /\ pc'[s] = "finding" /\ IsFinding(s) /\ host[s] \in Host /\ unit[s] \in Unit
      \/ pc[s] = "persist" /\ pc'[s] = "detect" /\ ~IsFinding(s) /\ host[s] \in Host /\ unit[s] \in Unit
      \/ pc[s] = "detect" /\ pc'[s] = "detect"
  BY DEF BeginFinding, BeginDetect, FlushGroup, Persisting, HasWork, TypeOK
<1>3. StatusInv(s)' /\ PoolInv(s)'
  BY <1>1, <1>2 DEF ScanInv, StatusInv, PoolInv, Active
<1>4. LoopInv(s)'
  BY <1>1, <1>2 DEF ScanInv, LoopInv, Before, IsFinding
<1>5. WholeInv(s)'
  BY <1>1, <1>2 DEF ScanInv, WholeInv, StatusInv, Active
<1>6. RowsInv(s)' /\ TornInv(s)'
  BY <1>1 DEF ScanInv, RowsInv, TornInv, CvesOf, Before
<1>7. PendInv(s)'
  <2>1. CASE BeginFinding(s)
    <3>1. pc'[s] = "finding" /\ pend'[s] = {<<host[s], unit[s], 0>>}
      BY <2>1 DEF BeginFinding, TypeOK
    <3> QED
      BY <1>1, <3>1 DEF PendInv
  <2>2. CASE BeginDetect(s)
    <3>1. pc[s] = "persist" /\ pc'[s] = "detect" /\ todo'[s] = mirror /\ pend'[s] = {}
      BY <2>2 DEF BeginDetect, Persisting, TypeOK, ScanInv, PendInv
    <3> QED
      BY <1>1, <3>1 DEF PendInv
  <2>3. CASE \E c \in Cve : FlushGroup(s, c)
    <3> PICK c \in Cve : FlushGroup(s, c)
      BY <2>3
    <3>1. pc[s] = "detect" /\ pc'[s] = "detect" /\ c \in todo[s] /\ todo'[s] = todo[s] \ {c}
      BY DEF FlushGroup, NextGroup, TypeOK
    <3>2. PICK m \in seen :
            /\ todo[s] \subseteq m
            /\ \A h \in Host, u \in Unit, d \in Cve \cup {0} :
                 <<h, u, d>> \in pend[s]
                   <=> h = host[s] /\ u = unit[s] /\ d \in (m \ todo[s]) \ Malformed
      BY <3>1 DEF ScanInv, PendInv
    <3>3. pend'[s] = IF c \in Malformed THEN pend[s] ELSE pend[s] \cup {<<host[s], unit[s], c>>}
      <4>1. CASE c \in Malformed
        BY <4>1 DEF FlushGroup
      <4>2. CASE c \notin Malformed
        <5>1. pend' = [pend EXCEPT ![s] = pend[s] \cup {<<host[s], unit[s], c>>}]
          BY <4>2 DEF FlushGroup
        <5>2. s \in DOMAIN pend
          BY DEF TypeOK
        <5> QED  BY <4>2, <5>1, <5>2
      <4> QED  BY <4>1, <4>2
    <3>4. ASSUME NEW h \in Host, NEW u \in Unit, NEW d \in Cve \cup {0}
          PROVE  <<h, u, d>> \in pend'[s]
                   <=> h = host[s] /\ u = unit[s] /\ d \in (m \ todo'[s]) \ Malformed
      BY <3>1, <3>2, <3>3
    <3> QED
      BY <1>1, <3>1, <3>2, <3>4 DEF PendInv
  <2> QED
    BY <2>1, <2>2, <2>3
<1> QED
  BY <1>3, <1>4, <1>5, <1>6, <1>7 DEF ScanInv

(* A commit stores the unit the loops are at, which had no row before: the *)
(* rows of a detection are those of the one snapshot it was made from.     *)
LEMMA CommitKeeps ==
  ASSUME TypeOK, NEW s \in Scan, ScanInv(s), CommitFinding(s) \/ CommitDetect(s)
  PROVE  ScanInv(s)'
<1>1. /\ rows'[s] = rows[s] \cup pend[s] /\ host'[s] = host[s] /\ unit'[s] = unit[s] + 1
      /\ skipped'[s] = skipped[s] /\ done'[s] = done[s] \cup {At(s)} /\ seen' = seen
      /\ pend'[s] = {} /\ pc'[s] = "persist"
      /\ status'[s] = status[s] /\ poolOk'[s] = poolOk[s] /\ outcome'[s] = outcome[s]
      /\ dbOk'[s] = dbOk[s]
  BY DEF CommitFinding, CommitDetect, Commit, TypeOK
<1>2. /\ pc[s] \in {"finding", "detect"}
      /\ host[s] \in Host /\ unit[s] \in Unit
      /\ pc[s] = "finding" => IsFinding(s)
      /\ pc[s] = "detect" => ~IsFinding(s) /\ todo[s] = {}
  BY DEF CommitFinding, CommitDetect, ScanInv, LoopInv
<1>3. StatusInv(s)' /\ PoolInv(s)'
  BY <1>1, <1>2 DEF ScanInv, StatusInv, PoolInv, Active
<1>4. LoopInv(s)'
  BY <1>1, Further DEF ScanInv, LoopInv
<1>5. WholeInv(s)'
  BY <1>1, <1>2 DEF ScanInv, WholeInv, StatusInv, Active
<1>6. ASSUME NEW h \in Host, NEW u \in Unit, NEW c \in Cve \cup {0}, <<h, u, c>> \in pend[s]
      PROVE  <<h, u>> = At(s)
  BY <1>2, <1>6 DEF ScanInv, PendInv, At
<1>7. RowsInv(s)'
  BY <1>1, <1>6, Further DEF ScanInv, RowsInv
<1>8. TornInv(s)'
  <2> SUFFICES ASSUME NEW h \in Host, NEW u \in (Findings + 1)..Units, <<h, u>> \in done'[s]
               PROVE  \E m \in seen : CvesOf(s, h, u)' = m \ Malformed
    BY <1>1 DEF TornInv
  <2>0. u \in Unit
    BY Constants DEF Unit
  <2>1. CASE <<h, u>> # At(s)
    <3>1. <<h, u>> \in done[s]
      BY <1>1, <2>1
    <3>2. CvesOf(s, h, u)' = CvesOf(s, h, u)
      BY <1>1, <1>6, <2>0, <2>1 DEF CvesOf
    <3> QED
      BY <3>1, <3>2 DEF ScanInv, TornInv
  <2>2. CASE <<h, u>> = At(s)
    <3>0. h = host[s] /\ u = unit[s]
      BY <2>2 DEF At
    <3>1. pc[s] = "detect"
      BY <1>2, <3>0, Constants DEF IsFinding
    <3>2. ~Before(s, h, u)
      BY <3>0, Constants DEF Before, Host, Unit, TypeOK
    <3>3. <<h, u>> \notin done[s]
      BY <2>0, <3>2 DEF ScanInv, RowsInv
    <3>4. ASSUME NEW c \in Cve PROVE <<h, u, c>> \notin rows[s]
      BY <2>0, <3>3, <3>4 DEF ScanInv, RowsInv
    <3>5. PICK m \in seen :
            \A g \in Host, v \in Unit, d \in Cve \cup {0} :
              <<g, v, d>> \in pend[s]
                <=> g = host[s] /\ v = unit[s] /\ d \in (m \ todo[s]) \ Malformed
      BY <3>1 DEF ScanInv, PendInv
    <3>6. ASSUME NEW c \in Cve PROVE <<h, u, c>> \in rows'[s] <=> c \in m \ Malformed
      BY <1>1, <1>2, <2>0, <3>0, <3>1, <3>4, <3>5, <3>6
    <3>7. m \subseteq Cve
      BY DEF TypeOK
    <3>8. CvesOf(s, h, u)' = m \ Malformed
      BY <3>6, <3>7 DEF CvesOf
    <3> QED
      BY <3>8
  <2> QED
    BY <2>1, <2>2
<1>9. PendInv(s)'
  BY <1>1 DEF PendInv
<1> QED
  BY <1>3, <1>4, <1>5, <1>7, <1>8, <1>9 DEF ScanInv

(* At the end a clean scan has passed every unit of every host.            *)
LEMMA FinalizeKeeps ==
  ASSUME TypeOK, NEW s \in Scan, ScanInv(s), Finalize(s) \/ FinalizeFails(s) PROVE ScanInv(s)'
<1>1. /\ rows'[s] = rows[s] /\ host'[s] = host[s] /\ unit'[s] = unit[s] /\ dbOk'[s] = dbOk[s]
      /\ skipped'[s] = skipped[s] /\ done'[s] = done[s] /\ seen' = seen /\ pend'[s] = pend[s]
      /\ poolOk'[s] = poolOk[s] /\ outcome'[s] = outcome[s] /\ pc[s] = "finalize"
      /\ pc'[s] = IF Clean(s) THEN "success" ELSE "failure"
      /\ status'[s] \in {status[s], IF Clean(s) THEN "completed" ELSE "failed"}
  BY DEF Finalize, FinalizeFails, ExitWith, TypeOK, db, loop, txn
<1>2. StatusInv(s)' /\ PoolInv(s)'
  BY <1>1 DEF ScanInv, StatusInv, PoolInv, Active
<1>3. LoopInv(s)'
  BY <1>1 DEF ScanInv, LoopInv, Before
<1>4. Clean(s) => Whole(s)
  <2> SUFFICES ASSUME Clean(s) PROVE Whole(s)
    OBVIOUS
  <2>1. poolOk[s] /\ dbOk[s] /\ host[s] = Hosts + 1
    BY <1>1 DEF Clean, ScanInv, LoopInv
  <2>2. ASSUME NEW h \in Host, NEW u \in Unit PROVE Before(s, h, u)
    BY <2>1, <2>2, Constants DEF Before, Host
  <2> QED
    BY <2>1, <2>2 DEF Whole, ScanInv, PoolInv, LoopInv
<1>5. WholeInv(s)'
  BY <1>1, <1>4 DEF ScanInv, WholeInv, Whole, StatusInv, Active
<1>6. RowsInv(s)' /\ TornInv(s)'
  BY <1>1 DEF ScanInv, RowsInv, TornInv, CvesOf, Before
<1>7. PendInv(s)'
  BY <1>1 DEF ScanInv, PendInv
<1> QED
  BY <1>2, <1>3, <1>5, <1>6, <1>7 DEF ScanInv

(* Whatever the process does next.                                         *)
LEMMA MainKeeps ==
  ASSUME TypeOK, mirror \in seen, NEW s \in Scan, ScanInv(s), Main(s) \/ Kill(s) PROVE ScanInv(s)'
BY SetupKeeps, PoolKeeps, NextHostKeeps, SkipKeeps, FailKeeps, TransactionKeeps, CommitKeeps,
   FinalizeKeeps DEF Main

----------------------------------------------------------------------------
(* A scan with its final status has ended: no step of it is left, and no   *)
(* other step changes its status or its rows.                              *)
LEMMA FinalStep ==
  ASSUME IInv, Next, NEW s \in Scan
  PROVE  /\ status[s] # "none" => status'[s] # "none"
         /\ status[s] \in Final => status'[s] = status[s] /\ rows'[s] = rows[s]
<1>1. CASE Main(s)
  <2>1. pc[s] \in {"start"} \cup Active
    BY <1>1 DEF Main, OpenGate, GateRefuses, Setup, SetupFails, Pool, NextHost, LoopEnds, SkipUnit,
         BeginFinding, BeginFindingFails, CommitFinding, RejectFinding, FindingFails, BeginDetect,
         FlushGroup, CommitDetect, DetectFails, Finalize, FinalizeFails, Persisting, Active
  <2>2. status[s] \notin Final
    BY <2>1 DEF IInv, ScanInv, StatusInv, Final
  <2>3. status'[s] = status[s] \/ status'[s] \in {"running", "completed", "failed"}
    <3>1. CASE OpenGate(s) \/ Finalize(s)
      BY <3>1 DEF OpenGate, Finalize, IInv, TypeOK
    <3>2. CASE ~(OpenGate(s) \/ Finalize(s))
      BY <1>1, <3>2 DEF Main, GateRefuses, Setup, SetupFails, Pool, NextHost, LoopEnds, SkipUnit,
         BeginFinding, BeginFindingFails, CommitFinding, RejectFinding, FindingFails, BeginDetect,
         FlushGroup, CommitDetect, DetectFails, FinalizeFails, PersistFails, Commit, db
    <3> QED
      BY <3>1, <3>2
  <2> QED
    BY <2>2, <2>3
<1>2. CASE Kill(s) \/ SyncJob \/ ReportCmd
  BY <1>2 DEF Kill, SyncJob, SyncBegin, SyncCommit, SyncRollback, ReportCmd, ReportBegin,
       ReportHeader, ReportSummary, ReportBody, ReportEnd, db
<1>3. CASE \E t \in Scan : t # s /\ (Main(t) \/ Kill(t))
  BY <1>3, OnlyOwn DEF IInv, Untouched
<1> QED
  BY <1>1, <1>2, <1>3 DEF Next

(* The report keeps what it has read; its next query reads the same rows.  *)
LEMMA ReportStep ==
  ASSUME IInv, Next PROVE ReportInv'
<1>1. CASE \E s \in Scan : ReportBegin(s)
  BY <1>1 DEF ReportBegin, ReportInv, db
<1>2. CASE ReportHeader
  <2>1. report'.pc = "summary" /\ report'.scan = report.scan /\ report'.status = status[report.scan]
        /\ report.pc # "idle" /\ status' = status
    BY <1>2 DEF ReportHeader, db
  <2> QED
    BY <2>1 DEF ReportInv, IInv
<1>3. CASE ReportSummary
  <2>1. /\ report'.pc = "body" /\ report'.scan = report.scan /\ report'.status = report.status
        /\ report'.counted = rows[report.scan]
        /\ report.pc = "summary" /\ status' = status /\ rows' = rows
    BY <1>3 DEF ReportSummary, db
  <2> QED
    BY <2>1 DEF ReportInv, IInv
<1>4. CASE ReportBody
  <2>1. /\ report'.pc = "written" /\ report'.scan = report.scan /\ report'.status = report.status
        /\ report'.counted = report.counted /\ report'.listed = rows[report.scan]
        /\ report.pc = "body" /\ status' = status /\ rows' = rows
    BY <1>4 DEF ReportBody, db
  <2> QED
    BY <2>1 DEF ReportInv, IInv
<1>5. CASE ReportEnd
  BY <1>5 DEF ReportEnd, ReportInv, NoReport
<1>6. CASE UNCHANGED report
  <2>1. CASE report.pc = "idle"
    BY <1>6, <2>1 DEF ReportInv
  <2>2. CASE report.pc # "idle"
    <3>1. report.scan \in Scan
      BY <2>2 DEF IInv, TypeOK, Report, NoReport
    <3>2. /\ status[report.scan] # "none" => status'[report.scan] # "none"
          /\ status[report.scan] \in Final =>
               status'[report.scan] = status[report.scan] /\ rows'[report.scan] = rows[report.scan]
      BY <3>1, FinalStep
    <3> QED
      BY <1>6, <2>2, <3>2 DEF IInv, ReportInv
  <2> QED
    BY <2>1, <2>2
<1>7. CASE \E s \in Scan : Main(s) \/ Kill(s)
  BY <1>6, <1>7 DEF Main, OpenGate, GateRefuses, Setup, SetupFails, Pool, NextHost, LoopEnds, SkipUnit,
         BeginFinding, BeginFindingFails, CommitFinding, RejectFinding, FindingFails, BeginDetect,
         FlushGroup, CommitDetect, DetectFails, Finalize, FinalizeFails, PersistFails, Commit, Kill
<1>8. CASE SyncJob
  BY <1>6, <1>8 DEF SyncJob, SyncBegin, SyncCommit, SyncRollback
<1> QED
  BY <1>1, <1>2, <1>3, <1>4, <1>5, <1>7, <1>8 DEF Next, ReportCmd

(* The invariant is inductive.                                             *)
LEMMA InvStep == IInv /\ [Next]_vars => IInv'
<1> SUFFICES ASSUME IInv, [Next]_vars PROVE IInv'
  OBVIOUS
<1>1. CASE UNCHANGED vars
  <2>1. TypeOK' /\ (mirror \in seen)'
    BY <1>1 DEF IInv, TypeOK, vars, db, loop, txn
  <2>2. \A s \in Scan : Untouched(s) /\ seen \subseteq seen'
    BY <1>1 DEF Untouched, vars, db, loop, txn
  <2>3. \A s \in Scan : ScanInv(s)'
    BY <2>2, Frame DEF IInv
  <2>4. ReportInv'
    BY <1>1 DEF IInv, ReportInv, vars, db
  <2> QED
    BY <2>1, <2>3, <2>4 DEF IInv
<1>2. CASE \E s \in Scan : Main(s) \/ Kill(s)
  <2> PICK s \in Scan : Main(s) \/ Kill(s)
    BY <1>2
  <2>1. TypeOK'
    BY TypeMain, TypeOther DEF IInv, ScanInv
  <2>2. mirror' = mirror /\ seen' = seen
    BY DEF Main, OpenGate, GateRefuses, Setup, SetupFails, Pool, NextHost, LoopEnds, SkipUnit,
         BeginFinding, BeginFindingFails, CommitFinding, RejectFinding, FindingFails, BeginDetect,
         FlushGroup, CommitDetect, DetectFails, Finalize, FinalizeFails, PersistFails, Commit, Kill, db
  <2>3. ASSUME NEW t \in Scan PROVE ScanInv(t)'
    <3>1. CASE t = s
      BY <3>1, MainKeeps DEF IInv
    <3>2. CASE t # s
      BY <3>2, OnlyOwn, Frame, <2>2 DEF IInv
    <3> QED
      BY <3>1, <3>2
  <2>4. ReportInv'
    BY ReportStep, <1>2 DEF Next
  <2> QED
    BY <2>1, <2>2, <2>3, <2>4 DEF IInv
<1>3. CASE SyncJob \/ ReportCmd
  <2>1. TypeOK'
    BY <1>3, TypeOther DEF IInv
  <2>2. (mirror \in seen)' /\ seen \subseteq seen'
    BY <1>3 DEF IInv, SyncJob, SyncBegin, SyncCommit, SyncRollback, ReportCmd, ReportBegin,
         ReportHeader, ReportSummary, ReportBody, ReportEnd, db
  <2>3. \A t \in Scan : Untouched(t)
    BY <1>3 DEF Untouched, SyncJob, SyncBegin, SyncCommit, SyncRollback, ReportCmd, ReportBegin,
         ReportHeader, ReportSummary, ReportBody, ReportEnd, db, loop, txn
  <2>4. \A t \in Scan : ScanInv(t)'
    BY <2>2, <2>3, Frame DEF IInv
  <2>5. ReportInv'
    BY ReportStep, <1>3 DEF Next
  <2> QED
    BY <2>1, <2>2, <2>4, <2>5 DEF IInv
<1> QED
  BY <1>1, <1>2, <1>3 DEF Next

----------------------------------------------------------------------------
(* The invariant holds in every reachable state of main(), the syncs and   *)
(* the reports.                                                            *)
THEOREM ScanInvariance == Spec => []IInv
BY InitIInv, InvStep, PTL DEF Spec

(* 'completed' is said only of a scan that main() carried through without  *)
(* losing a unit.                                                          *)
THEOREM CompletedScans == Spec => []CompletedIsWhole
<1>1. IInv => CompletedIsWhole
  BY DEF IInv, ScanInv, WholeInv, CompletedIsWhole
<1> QED
  BY <1>1, ScanInvariance, PTL

(* And so is the exit status 0 of main().                                  *)
THEOREM SuccessfulScans == Spec => []SuccessIsWhole
<1>1. IInv => SuccessIsWhole
  BY DEF IInv, ScanInv, WholeInv, SuccessIsWhole
<1> QED
  BY <1>1, ScanInvariance, PTL

(* detect_and_persist stores what one state of the mirror says, or nothing.*)
THEOREM DetectionsWhole == Spec => []NoTornDetection
<1>1. IInv => NoTornDetection
  <2> SUFFICES ASSUME IInv, NEW s \in Scan, NEW h \in Host, NEW u \in (Findings + 1)..Units
               PROVE  IF <<h, u>> \in done[s]
                      THEN \E m \in seen : CvesOf(s, h, u) = m \ Malformed
                      ELSE CvesOf(s, h, u) = {}
    BY DEF NoTornDetection
  <2>1. u \in Unit
    BY Constants DEF Unit
  <2>2. CASE <<h, u>> \in done[s]
    BY <2>2 DEF IInv, ScanInv, TornInv
  <2>3. CASE <<h, u>> \notin done[s]
    BY <2>1, <2>3 DEF IInv, ScanInv, RowsInv, CvesOf
  <2> QED
    BY <2>2, <2>3
<1> QED
  BY <1>1, ScanInvariance, PTL

(* A report of report_cmd.c on a finished scan is exact.                   *)
THEOREM ExactReports == Spec => []FinalReportIsExact
<1>1. IInv => FinalReportIsExact
  BY DEF IInv, ReportInv, FinalReportIsExact, Final
<1> QED
  BY <1>1, ScanInvariance, PTL

(* After finalize neither the status nor the rows of a scan change.        *)
THEOREM FinalStays == Spec => FinalIsFinal
<1>1. IInv /\ [Next]_vars =>
        [\A s \in Scan : status[s] \in {"completed", "failed"} =>
           status'[s] = status[s] /\ rows'[s] = rows[s]]_vars
  BY FinalStep DEF Final
<1> QED
  BY <1>1, ScanInvariance, PTL DEF Spec, FinalIsFinal

(* Neither 'completed' nor exit status 0 is given to a scan that lost      *)
(* something, for any number of scans, hosts and units and any failures.   *)
THEOREM GoodScans == Spec => []GoodIsWhole
BY CompletedScans, SuccessfulScans, PTL DEF GoodIsWhole

-----------------------------------------------------------------------------
(***************************************************************************)
(* What a report says (TextCodec, ReportCalls)                             *)
(***************************************************************************)

(* A set of numbers that is not empty has a least member.                   *)
LEMMA LeastNat ==
  ASSUME NEW S \in SUBSET Nat, S # {}
  PROVE  \E x \in S : \A y \in S : x <= y
<1>1. IsWellFoundedOn(OpToRel(<, Nat), Nat)
  BY NatLessThanWellFounded
<1>2. PICK x \in S : \A y \in S : ~(<<y, x>> \in OpToRel(<, Nat))
  BY <1>1, WFMin
<1>3. \A y \in S : ~(y < x)
  BY <1>2 DEF OpToRel
<1> QED  BY <1>3

(* The runs of a loop of n turns that starts at z: step[k] is turn k.       *)
Runs(T, z, step, n) ==
  {g \in [0 .. n -> T] : g[0] = z /\ \A k \in 1 .. n : g[k] = step[k][g[k - 1]]}

(* There is one, by induction on the number of turns.                       *)
LEMMA RunExists ==
  ASSUME NEW T, NEW z \in T, NEW step, NEW N \in Nat,
         \A k \in 1 .. N, x \in T : step[k][x] \in T
  PROVE  \E g : g \in Runs(T, z, step, N)
<1> DEFINE S == {k \in 0 .. N : Runs(T, z, step, k) = {}}
<1> SUFFICES ASSUME S # {} PROVE FALSE
  OBVIOUS
<1>0. S \in SUBSET Nat
  OBVIOUS
<1>1. PICK m \in S : \A y \in S : m <= y
  <2> HIDE DEF S
  <2> QED BY <1>0, LeastNat
<1>2. m # 0
  <2>1. [k \in 0 .. 0 |-> z] \in Runs(T, z, step, 0)
    BY DEF Runs
  <2> QED  BY <2>1
<1>3. PICK g : g \in Runs(T, z, step, m - 1)
  BY <1>1, <1>2
<1>4. /\ g \in [0 .. m - 1 -> T] /\ g[0] = z
      /\ \A k \in 1 .. m - 1 : g[k] = step[k][g[k - 1]]
  BY <1>3 DEF Runs
<1> DEFINE h == [k \in 0 .. m |-> IF k = m THEN step[m][g[m - 1]] ELSE g[k]]
<1>5. h \in [0 .. m -> T] /\ h[0] = z
  BY <1>2, <1>4
<1>6. ASSUME NEW k \in 1 .. m PROVE h[k] = step[k][h[k - 1]]
  <2>1. CASE k = m
    BY <1>2, <1>4, <2>1
  <2>2. CASE k # m
    BY <1>2, <1>4, <2>2
  <2> QED  BY <2>1, <2>2
<1>7. h \in Runs(T, z, step, m)
  BY <1>5, <1>6 DEF Runs
<1> QED  BY <1>1, <1>7


(* Induction up to N: what holds at 0 and from each number to the next one. *)
LEMMA UpTo ==
  ASSUME NEW N \in Nat, NEW S, 0 \in S, \A n \in 0 .. N - 1 : n \in S => n + 1 \in S
  PROVE  \A n \in 0 .. N : n \in S
<1> DEFINE B == {n \in 0 .. N : n \notin S}
<1> SUFFICES ASSUME B # {} PROVE FALSE
  OBVIOUS
<1>1. B \in SUBSET Nat
  OBVIOUS
<1>2. PICK m \in B : \A y \in B : m <= y
  <2> HIDE DEF B
  <2> QED  BY <1>1, LeastNat
<1>3. m \in 1 .. N /\ m - 1 \in 0 .. N - 1 /\ m - 1 \notin B
  BY <1>2
<1>4. m - 1 + 1 = m
  BY <1>3
<1> QED  BY <1>2, <1>3, <1>4

(* The loop of an escaper, turn by turn.                                    *)
LEMMA JoinRun ==
  ASSUME NEW T, NEW pieces \in Seq(Seq(T))
  PROVE  \E g : /\ g \in [0 .. Len(pieces) -> Seq(T)]
                /\ Joined(pieces) = g[Len(pieces)]
                /\ g[0] = <<>>
                /\ \A k \in 1 .. Len(pieces) : g[k] = g[k - 1] \o pieces[k]
<1> DEFINE n == Len(pieces)
           z == <<>>
           U == Seq(T)
           Put(x, k) == x \o pieces[k]
           step == [k \in 1 .. n |-> [x \in U |-> Put(x, k)]]
           Is(l) == l = [k \in 0 .. n |-> IF k = 0 THEN z ELSE Put(l[k - 1], k)]
           low == CHOOSE l : Is(l)
<1>1. n \in Nat
  BY LenProperties
<1>2. z \in U
  OBVIOUS
<1>3. ASSUME NEW k \in 1 .. n, NEW x \in U PROVE Put(x, k) \in U
  <2>1. pieces[k] \in Seq(T)
    BY <1>1, ElementOfSeq
  <2> QED  BY <2>1, ConcatProperties
<1>4. Joined(pieces) = low[n]
  BY Zenon DEF Joined
<1> HIDE DEF z, U, Put
<1>8. PICK g : g \in Runs(U, z, step, n)
  <2>1. \A k \in 1 .. n, x \in U : step[k][x] \in U
    BY <1>3
  <2> HIDE DEF step
  <2> QED  BY <1>1, <1>2, <2>1, RunExists
<1>5. g \in [0 .. n -> U] /\ g[0] = z /\ \A k \in 1 .. n : g[k] = Put(g[k - 1], k)
  <2>1. g \in [0 .. n -> U] /\ g[0] = z
    BY <1>8 DEF Runs
  <2>2. ASSUME NEW k \in 1 .. n PROVE g[k] = Put(g[k - 1], k)
    <3>1. g[k] = step[k][g[k - 1]]
      BY <1>8 DEF Runs
    <3>2. k - 1 \in 0 .. n
      BY <1>1
    <3> QED  BY <2>1, <3>1, <3>2
  <2> QED  BY <2>1, <2>2
<1>6. Is(g)
  <2>1. \A k \in 0 .. n : k # 0 => k \in 1 .. n
    BY <1>1
  <2>2. \A k \in 0 .. n : g[k] = IF k = 0 THEN z ELSE Put(g[k - 1], k)
    BY <1>5, <2>1
  <2>3. g = [k \in 0 .. n |-> g[k]]
    BY <1>5
  <2> QED  BY <2>2, <2>3
<1>7. Is(low)
  BY <1>6
<1> HIDE DEF low
<1>9. low[0] = z /\ \A k \in 1 .. n : low[k] = Put(low[k - 1], k)
  <2>1. 0 \in 0 .. n /\ \A k \in 1 .. n : k \in 0 .. n /\ k # 0
    BY <1>1
  <2>2. \A k \in 0 .. n : low[k] = IF k = 0 THEN z ELSE Put(low[k - 1], k)
    BY <1>7, Zenon
  <2> QED  BY <2>1, <2>2, Zenon
<1>10. \A k \in 0 .. n : low[k] \in U
  <2> DEFINE S == {k \in 0 .. n : low[k] \in U}
  <2>1. 0 \in S
    BY <1>1, <1>2, <1>9
  <2>2. ASSUME NEW k \in 0 .. n - 1, k \in S PROVE k + 1 \in S
    <3>1. k + 1 \in 1 .. n /\ k + 1 - 1 = k /\ k + 1 \in 0 .. n
      BY <1>1
    <3>2. PICK h \in 1 .. n : h = k + 1 /\ h - 1 = k
      BY <3>1
    <3>3. low[k] \in U
      BY <2>2
    <3>4. low[h] \in U
      BY <1>3, <1>9, <3>2, <3>3
    <3> QED  BY <3>1, <3>2, <3>4
  <2> HIDE DEF S
  <2>3. \A k \in 0 .. n : k \in S
    BY <1>1, <2>1, <2>2, UpTo
  <2> QED  BY <2>3 DEF S
<1>11. low \in [0 .. n -> U]
  <2>1. low = [k \in 0 .. n |-> low[k]]
    BY <1>7
  <2> QED  BY <1>10, <2>1
<1> QED  BY <1>4, <1>9, <1>11 DEF z, U, Put

(* at[k] is the length of what the first k pieces make.                     *)
Cuts(at, pieces, s) ==
  /\ at \in [0 .. Len(pieces) -> Nat] /\ at[0] = 0 /\ at[Len(pieces)] = Len(s)
  /\ \A k \in 1 .. Len(pieces) :
       /\ at[k] = at[k - 1] + Len(pieces[k]) /\ at[k] <= Len(s)
       /\ \A j \in 1 .. Len(pieces[k]) : s[at[k - 1] + j] = pieces[k][j]
  /\ \A i \in 1 .. Len(s) : \E k \in 1 .. Len(pieces) : \E j \in 1 .. Len(pieces[k]) :
       i = at[k - 1] + j

Cut(pieces, s) == \E at : Cuts(at, pieces, s)

(* Numbers: what is below a part is below the sum.                          *)
LEMMA BelowSum ==
  ASSUME NEW d \in Nat, NEW a \in Nat, NEW l \in Nat, d <= a
  PROVE  d <= a + l
OBVIOUS

(* An empty range of positions is that of an empty text.                    *)
LEMMA NoPositions ==
  ASSUME NEW l \in Nat, 1 .. l = {}
  PROVE  l = 0
<1>1. 1 <= l => 1 \in 1 .. l
  OBVIOUS
<1> QED  BY <1>1

(* Every piece is in its place, and nothing else is there.                  *)
LEMMA JoinedIs ==
  ASSUME NEW T, NEW pieces \in Seq(Seq(T))
  PROVE  Joined(pieces) \in Seq(T) /\ Cut(pieces, Joined(pieces))
<1> DEFINE n == Len(pieces)
<1>1. n \in Nat
  BY LenProperties
<1>2. PICK g : /\ g \in [0 .. n -> Seq(T)]
               /\ Joined(pieces) = g[n]
               /\ g[0] = <<>>
               /\ \A k \in 1 .. n : g[k] = g[k - 1] \o pieces[k]
  BY JoinRun
<1> DEFINE at == [k \in 0 .. n |-> Len(g[k])]
           Placed(k) ==
             /\ \A m \in 1 .. k : at[m] <= at[k]
             /\ \A m \in 1 .. k : \A j \in 1 .. Len(pieces[m]) : g[k][at[m - 1] + j] = pieces[m][j]
             /\ \A i \in 1 .. Len(g[k]) : \E m \in 1 .. k : \E j \in 1 .. Len(pieces[m]) :
                  i = at[m - 1] + j
<1>3. ASSUME NEW k \in 1 .. n PROVE pieces[k] \in Seq(T) /\ Len(pieces[k]) \in Nat
  BY <1>1, ElementOfSeq, LenProperties
<1>4. ASSUME NEW k \in 0 .. n PROVE g[k] \in Seq(T) /\ at[k] = Len(g[k]) /\ at[k] \in Nat
  <2>1. g[k] \in Seq(T)
    BY <1>2
  <2> QED  BY <2>1, LenProperties
<1>5. ASSUME NEW k \in 1 .. n
      PROVE  /\ at[k] = at[k - 1] + Len(pieces[k])
             /\ \A i \in 1 .. at[k] : g[k][i] = IF i <= at[k - 1] THEN g[k - 1][i]
                                                ELSE pieces[k][i - at[k - 1]]
  <2>1. k \in 0 .. n /\ k - 1 \in 0 .. n
    BY <1>1
  <2>2. PICK x \in Seq(T) : x = g[k - 1]
    BY <2>1, <1>4
  <2>3. PICK y \in Seq(T) : y = pieces[k]
    BY <1>3
  <2>4. g[k] = x \o y
    BY <1>2, <2>2, <2>3
  <2>5. Len(x \o y) = Len(x) + Len(y)
        /\ \A i \in 1 .. Len(x) + Len(y) : (x \o y)[i] = IF i <= Len(x) THEN x[i] ELSE y[i - Len(x)]
    BY ConcatProperties
  <2>6. at[k - 1] = Len(x) /\ at[k] = Len(x \o y)
    BY <1>4, <2>1, <2>2, <2>4
  <2>7. at[k] = at[k - 1] + Len(pieces[k])
    BY <2>3, <2>5, <2>6
  <2> HIDE DEF at
  <2>8. ASSUME NEW i \in 1 .. at[k]
        PROVE  g[k][i] = IF i <= at[k - 1] THEN g[k - 1][i] ELSE pieces[k][i - at[k - 1]]
    <3>1. i \in 1 .. Len(x) + Len(y)
      BY <2>5, <2>6
    <3>2. (x \o y)[i] = IF i <= Len(x) THEN x[i] ELSE y[i - Len(x)]
      BY <2>5, <3>1
    <3> QED  BY <2>2, <2>3, <2>4, <2>6, <3>2
  <2> QED  BY <2>7, <2>8
<1>6. at \in [0 .. n -> Nat] /\ at[0] = 0 /\ at[n] = Len(Joined(pieces))
  <2>1. at[0] = Len(g[0]) /\ at[n] = Len(g[n])
    BY <1>1
  <2>2. at \in [0 .. n -> Nat]
    BY <1>4
  <2> QED  BY <1>2, <2>1, <2>2
<1> HIDE DEF at
<1>7. \A k \in 0 .. n : Placed(k)
  <2> DEFINE S == {k \in 0 .. n : Placed(k)}
  <2>1. 0 \in S
    BY <1>1, <1>2
  <2>2. ASSUME NEW k \in 0 .. n - 1, k \in S PROVE k + 1 \in S
    <3>1. PICK h \in 1 .. n : h = k + 1 /\ h - 1 = k /\ h \in 0 .. n /\ k \in 0 .. n
      BY <1>1
    <3>2. at[k] \in Nat /\ at[h] \in Nat /\ at[h] = at[k] + Len(pieces[h]) /\ Len(pieces[h]) \in Nat
          /\ \A i \in 1 .. at[h] : g[h][i] = IF i <= at[k] THEN g[k][i] ELSE pieces[h][i - at[k]]
      BY <1>3, <1>4, <1>5, <3>1
    <3>3. Placed(k)
      BY <2>2
    <3>4. ASSUME NEW m \in 1 .. h PROVE at[m] <= at[h]
      <4>1. m = h \/ m \in 1 .. k
        BY <3>1
      <4>2. at[m] \in Nat
        BY <1>4, <3>1
      <4>3. PICK a \in Nat, b \in Nat, l \in Nat : a = at[k] /\ b = at[h] /\ l = Len(pieces[h]) /\ b = a + l
        BY <3>2, Zenon
      <4>4. CASE m = h
        BY <4>2, <4>4
      <4>5. CASE m \in 1 .. k
        <5>1. at[m] <= a
          BY <3>3, <4>3, <4>5, Zenon
        <5>2. at[m] <= a + l
          BY <4>2, <5>1, BelowSum, Zenon
        <5> QED  BY <4>3, <5>2, Zenon
      <4> QED  BY <4>1, <4>4, <4>5
    <3>5. ASSUME NEW m \in 1 .. h, NEW j \in 1 .. Len(pieces[m])
          PROVE  g[h][at[m - 1] + j] = pieces[m][j]
      <4>1. CASE m = h
        <5>1. j \in Nat /\ 1 <= j /\ j <= Len(pieces[h])
          BY <3>2, <4>1
        <5>2. PICK a \in Nat, b \in Nat, l \in Nat : a = at[k] /\ b = at[h] /\ l = Len(pieces[h])
          BY <3>2
        <5>3. b = a + l /\ j <= l
          BY <3>2, <5>1, <5>2
        <5>4. PICK i \in 1 .. b : i = a + j /\ ~(i <= a) /\ i - a = j
          BY <5>1, <5>3
        <5>5. g[h][i] = pieces[h][i - a]
          BY <3>2, <5>2, <5>4
        <5>6. g[h][a + j] = pieces[h][j]
          BY <5>4, <5>5
        <5> QED  BY <3>1, <4>1, <5>2, <5>6
      <4>2. CASE m \in 1 .. k
        <5>1. m \in 1 .. n /\ m - 1 \in 0 .. n /\ m \in 0 .. n
          BY <3>1, <4>2
        <5>2. at[m] = at[m - 1] + Len(pieces[m]) /\ at[m] <= at[k] /\ at[m - 1] \in Nat
              /\ Len(pieces[m]) \in Nat
          BY <1>3, <1>4, <1>5, <3>3, <4>2, <5>1
        <5>3. at[m - 1] + j \in 1 .. at[h] /\ at[m - 1] + j <= at[k]
          <6>1. PICK a \in Nat, b \in Nat, c \in Nat, l \in Nat :
                  a = at[m - 1] /\ b = at[h] /\ c = at[k] /\ l = Len(pieces[m])
            BY <3>2, <5>2
          <6>2. a + l <= c /\ c <= b /\ j \in 1 .. l
            <7>1. j \in 1 .. l
              BY <6>1, Zenon
            <7>2. at[m] = a + l /\ at[m] <= c
              BY <5>2, <6>1, Zenon
            <7>3. PICK p \in Nat : p = Len(pieces[h]) /\ b = c + p
              BY <3>2, <6>1, Zenon
            <7> QED  BY <7>1, <7>2, <7>3
          <6>3. a + j \in 1 .. b /\ a + j <= c
            BY <6>2
          <6> QED  BY <6>1, <6>3
        <5>4. g[h][at[m - 1] + j] = g[k][at[m - 1] + j]
          BY <3>2, <5>3
        <5> QED  BY <3>3, <4>2, <5>4
      <4> QED  BY <3>1, <4>1, <4>2
    <3>6. ASSUME NEW i \in 1 .. Len(g[h])
          PROVE  \E m \in 1 .. h : \E j \in 1 .. Len(pieces[m]) : i = at[m - 1] + j
      <4>1. Len(g[h]) = at[h] /\ Len(g[k]) = at[k]
        BY <1>4, <3>1
      <4>2. CASE i <= at[k]
        <5>1. i \in 1 .. Len(g[k])
          BY <3>2, <4>1, <4>2
        <5>2. PICK m \in 1 .. k : \E j \in 1 .. Len(pieces[m]) : i = at[m - 1] + j
          BY <3>3, <5>1
        <5>3. m \in 1 .. h
          BY <3>1
        <5> QED  BY <5>2, <5>3
      <4>3. CASE ~(i <= at[k])
        <5>1. PICK j \in 1 .. Len(pieces[h]) : i = at[k] + j
          <6>1. i - at[k] \in 1 .. Len(pieces[h]) /\ i = at[k] + (i - at[k])
            <7>1. PICK a \in Nat, b \in Nat, l \in Nat : a = at[k] /\ b = at[h] /\ l = Len(pieces[h])
              BY <3>2
            <7>2. b = a + l /\ i \in 1 .. b /\ ~(i <= a)
              BY <3>2, <4>1, <4>3, <7>1
            <7>3. i - a \in 1 .. l /\ i = a + (i - a)
              BY <7>2
            <7> QED  BY <7>1, <7>3
          <6> QED  BY <6>1
        <5>2. h \in 1 .. h
          BY <3>1
        <5> QED  BY <3>1, <5>1, <5>2
      <4> QED  BY <4>2, <4>3
    <3>7. Placed(h)
      BY <3>4, <3>5, <3>6
    <3> QED  BY <3>1, <3>7
  <2> HIDE DEF S
  <2>3. \A k \in 0 .. n : k \in S
    BY <1>1, <2>1, <2>2, UpTo
  <2> QED  BY <2>3 DEF S
<1>8. Placed(n)
  <2> HIDE DEF Placed
  <2> QED  BY <1>1, <1>7
<1>9. Cuts(at, pieces, Joined(pieces))
  <2>1. Len(g[n]) = at[n]
    BY <1>1, <1>4
  <2> QED  BY <1>2, <1>5, <1>6, <1>8, <2>1 DEF Cuts
<1> QED  BY <1>1, <1>2, <1>9 DEF Cut

(* The characters of the texts and of what is written for them.             *)
Chars == HtmlChars \cup UrlChars
           \cup {"&", "amp", "lt", "gt", "quot", "#39", "semi", "backslash", "quote", "n", "t", "u0001"}

(* The spellings of a code start with its mark and differ in their second   *)
(* character.                                                               *)
IsCode(code) ==
  /\ \A c \in DOMAIN code.spell :
       code.spell[c] \in Seq(Chars) /\ Len(code.spell[c]) >= 2 /\ code.spell[c][1] = code.mark
  /\ \A c, d \in DOMAIN code.spell : code.spell[c][2] = code.spell[d][2] => c = d

(* What an escaper may write for a character.                               *)
WritesFor(code, c, piece) ==
  \/ c \in DOMAIN code.spell /\ piece = code.spell[c]
  \/ c # code.mark /\ piece = <<c>>

(* The spelling p of c, l long, is at place i of s.                         *)
SpelledAt(code, s, i, c, p, l) ==
  /\ c \in DOMAIN code.spell /\ p = code.spell[c] /\ l = Len(p)
  /\ i + l <= Len(s) + 1 /\ \A j \in 1 .. l : s[i + j - 1] = p[j]

(* A spelling is read as its character.                                     *)
LEMMA SpellingIs ==
  ASSUME NEW code, IsCode(code), NEW s, NEW i \in Nat, NEW c, NEW p, NEW l \in Nat,
         SpelledAt(code, s, i, c, p, l)
  PROVE  ReadAt(code, s, i) = [char |-> c, next |-> i + l]
<1> USE DEF SpelledAt
<1>1. l >= 2 /\ p[1] = code.mark
  BY DEF IsCode
<1>2. 1 \in 1 .. l /\ 2 \in 1 .. l /\ i + 1 - 1 = i /\ i + 2 - 1 = i + 1
  BY <1>1
<1>3. s[i + 1 - 1] = p[1] /\ s[i + 2 - 1] = p[2]
  BY <1>1, <1>2
<1>4. s[i] = code.mark /\ s[i + 1] = p[2]
  BY <1>1, <1>2, <1>3
<1>5. c \in Spelled(code, s, i)
  BY DEF Spelled
<1>6. ASSUME NEW d \in Spelled(code, s, i) PROVE d = c
  <2>1. d \in DOMAIN code.spell /\ \A j \in 1 .. Len(code.spell[d]) : s[i + j - 1] = code.spell[d][j]
    BY DEF Spelled
  <2>2. PICK q \in Seq(Chars), m \in Nat : q = code.spell[d] /\ m = Len(q) /\ m >= 2
    BY <2>1, LenProperties DEF IsCode
  <2>3. 2 \in 1 .. m
    BY <2>2
  <2>4. s[i + 2 - 1] = q[2]
    BY <2>1, <2>2, <2>3
  <2>5. code.spell[d][2] = code.spell[c][2]
    BY <1>1, <1>3, <2>2, <2>4
  <2> QED  BY <2>1, <2>5 DEF IsCode
<1>7. Spelled(code, s, i) # {} /\ (CHOOSE d \in Spelled(code, s, i) : TRUE) = c
  BY <1>5, <1>6
<1> QED  BY <1>4, <1>7 DEF ReadAt

(* A reader of a text that is written piece by piece gets it back.          *)
LEMMA DecodesIs ==
  ASSUME NEW code, IsCode(code), NEW text \in Seq(Chars), NEW pieces \in Seq(Seq(Chars)),
         Len(pieces) = Len(text),
         \A k \in 1 .. Len(text) : WritesFor(code, text[k], pieces[k])
  PROVE  Decodes(code, Joined(pieces), text)
<1> DEFINE n == Len(text)
           s == Joined(pieces)
<1>1. n \in Nat /\ Len(pieces) = n
  BY LenProperties
<1>2. PICK cut : Cuts(cut, pieces, s)
  BY JoinedIs DEF Cut
<1>3. Len(s) \in Nat
  BY JoinedIs, LenProperties
<1> HIDE DEF s
<1>4. /\ cut \in [0 .. n -> Nat] /\ cut[0] = 0 /\ cut[n] = Len(s)
      /\ \A k \in 1 .. n :
           /\ cut[k] = cut[k - 1] + Len(pieces[k]) /\ cut[k] <= Len(s)
           /\ \A j \in 1 .. Len(pieces[k]) : s[cut[k - 1] + j] = pieces[k][j]
  BY <1>1, <1>2 DEF Cuts
<1>5. ASSUME NEW k \in 1 .. n
      PROVE  /\ cut[k - 1] + 1 <= Len(s)
             /\ ReadAt(code, s, cut[k - 1] + 1) = [char |-> text[k], next |-> cut[k] + 1]
  <2>1. PICK c : c = text[k]
    OBVIOUS
  <2>2. PICK a \in Nat, b \in Nat, z \in Nat : a = cut[k - 1] /\ b = cut[k] /\ z = Len(s)
    <3>1. k \in 0 .. n /\ k - 1 \in 0 .. n
      BY <1>1
    <3> QED  BY <1>3, <1>4, <3>1
  <2>3. PICK p \in Seq(Chars), l \in Nat : p = pieces[k] /\ l = Len(p)
    BY <1>1, ElementOfSeq, LenProperties
  <2>4. b = a + l /\ b <= z /\ \A j \in 1 .. l : s[a + j] = p[j]
    BY <1>4, <2>2, <2>3
  <2>5. CASE c \in DOMAIN code.spell /\ p = code.spell[c]
    <3>1. l >= 2
      BY <2>3, <2>5 DEF IsCode
    <3>2. PICK i \in Nat : i = a + 1
      OBVIOUS
    <3>3. i + l <= z + 1 /\ i <= z /\ i + l = b + 1
      BY <2>4, <3>1, <3>2
    <3>4. ASSUME NEW j \in 1 .. l PROVE s[i + j - 1] = p[j]
      <4>1. i + j - 1 = a + j
        BY <3>2
      <4> QED  BY <2>4, <4>1
    <3>5. ReadAt(code, s, i) = [char |-> c, next |-> i + l]
      <4>1. i + l <= Len(s) + 1
        BY <2>2, <3>3
      <4>2. c \in DOMAIN code.spell /\ p = code.spell[c]
        BY <2>5
      <4>3. \A j \in 1 .. l : s[i + j - 1] = p[j]
        BY <3>4
      <4>4. SpelledAt(code, s, i, c, p, l)
        BY <2>3, <4>1, <4>2, <4>3, Zenon DEF SpelledAt
      <4> QED  BY <4>4, SpellingIs
    <3> QED  BY <2>1, <2>2, <3>2, <3>3, <3>5
  <2>6. CASE c # code.mark /\ p = <<c>>
    <3>1. l = 1 /\ p[1] = c
      <4>1. Len(<<c>>) = 1 /\ <<c>>[1] = c
        OBVIOUS
      <4> QED  BY <2>3, <2>6, <4>1, Zenon
    <3>2. s[a + 1] = c
      BY <2>4, <3>1
    <3>3. ReadAt(code, s, a + 1) = [char |-> c, next |-> a + 1 + 1]
      BY <2>6, <3>2 DEF ReadAt
    <3>4. a + 1 <= z /\ a + 1 + 1 = b + 1
      BY <2>4, <3>1
    <3> QED  BY <2>1, <2>2, <3>3, <3>4
  <2> QED  BY <2>1, <2>3, <2>5, <2>6 DEF WritesFor
<1>50. ASSUME NEW k \in 1 .. n
       PROVE  /\ ReadAt(code, s, cut[k - 1] + 1).next = cut[k] + 1
              /\ ReadAt(code, s, cut[k - 1] + 1).char = text[k]
  <2>1. PICK r : r = ReadAt(code, s, cut[k - 1] + 1)
    OBVIOUS
  <2>2. r = [char |-> text[k], next |-> cut[k] + 1]
    BY <1>5, <2>1
  <2>3. r.next = cut[k] + 1 /\ r.char = text[k]
    BY <2>2
  <2> QED  BY <2>1, <2>3
<1> DEFINE Is(l) == l = [k \in 0 .. n |-> IF k = 0 THEN 1 ELSE ReadAt(code, s, l[k - 1]).next]
           at == CHOOSE l : Is(l)
           h == [k \in 0 .. n |-> cut[k] + 1]
<1>6. Is(h)
  <2>1. h[0] = 1
    BY <1>1, <1>4
  <2>2. ASSUME NEW k \in 1 .. n PROVE h[k] = ReadAt(code, s, h[k - 1]).next
    <3>1. k \in 0 .. n /\ k - 1 \in 0 .. n
      BY <1>1
    <3>2. h[k] = cut[k] + 1 /\ h[k - 1] = cut[k - 1] + 1
      BY <3>1
    <3> HIDE DEF h
    <3> QED  BY <1>50, <3>2, Zenon
  <2>3. \A k \in 0 .. n : k = 0 \/ k \in 1 .. n
    BY <1>1
  <2>4. \A k \in 0 .. n : h[k] = IF k = 0 THEN 1 ELSE ReadAt(code, s, h[k - 1]).next
    <3> HIDE DEF h
    <3> QED  BY <2>1, <2>2, <2>3
  <2>5. h = [k \in 0 .. n |-> h[k]]
    OBVIOUS
  <2> HIDE DEF h
  <2> QED  BY <2>4, <2>5
<1>7. Is(at)
  <2> HIDE DEF h
  <2> QED BY <1>6
<1>8. Decodes(code, s, text) <=>
        /\ at[n] = Len(s) + 1
        /\ \A k \in 1 .. n : at[k - 1] <= Len(s) /\ ReadAt(code, s, at[k - 1]).char = text[k]
  BY Zenon DEF Decodes
<1> HIDE DEF at, h
<1>9. at[0] = 1 /\ \A k \in 1 .. n : at[k] = ReadAt(code, s, at[k - 1]).next
  <2>1. 0 \in 0 .. n /\ \A k \in 1 .. n : k \in 0 .. n /\ k # 0
    BY <1>1
  <2>2. \A k \in 0 .. n : at[k] = IF k = 0 THEN 1 ELSE ReadAt(code, s, at[k - 1]).next
    BY <1>7, Zenon
  <2> QED  BY <2>1, <2>2, Zenon
<1>10. \A k \in 0 .. n : at[k] = cut[k] + 1
  <2> DEFINE S == {k \in 0 .. n : at[k] = cut[k] + 1}
  <2>1. 0 \in S
    BY <1>1, <1>4, <1>9
  <2>2. ASSUME NEW k \in 0 .. n - 1, k \in S PROVE k + 1 \in S
    <3>1. PICK m \in 1 .. n : m = k + 1 /\ m - 1 = k /\ m \in 0 .. n
      BY <1>1
    <3>2. at[m] = ReadAt(code, s, at[m - 1]).next /\ at[m - 1] = cut[m - 1] + 1
      BY <1>9, <2>2, <3>1
    <3>3. at[m] = cut[m] + 1
      BY <1>50, <3>2, Zenon
    <3> QED  BY <3>1, <3>3
  <2> HIDE DEF S
  <2>3. \A k \in 0 .. n : k \in S
    BY <1>1, <2>1, <2>2, UpTo
  <2> QED  BY <2>3 DEF S
<1>11. at[n] = Len(s) + 1
  <2>1. n \in 0 .. n
    BY <1>1
  <2> QED  BY <1>4, <1>10, <2>1
<1>12. ASSUME NEW k \in 1 .. n
       PROVE  at[k - 1] <= Len(s) /\ ReadAt(code, s, at[k - 1]).char = text[k]
  <2>1. k - 1 \in 0 .. n
    BY <1>1
  <2>2. at[k - 1] = cut[k - 1] + 1
    BY <1>10, <2>1
  <2>3. cut[k - 1] + 1 <= Len(s)
    BY <1>5
  <2>4. ReadAt(code, s, at[k - 1]).char = text[k]
    BY <1>50, <2>2, Zenon
  <2> QED  BY <2>2, <2>3, <2>4, Zenon
<1> QED  BY <1>8, <1>11, <1>12 DEF s

(* The characters of the spellings.                                         *)
LEMMA CharsAre ==
  /\ "&" \in Chars /\ "amp" \in Chars /\ "lt" \in Chars /\ "gt" \in Chars
  /\ "quot" \in Chars /\ "#39" \in Chars /\ "semi" \in Chars
  /\ "backslash" \in Chars /\ "quote" \in Chars /\ "n" \in Chars /\ "t" \in Chars
  /\ "u0001" \in Chars
BY DEF Chars

(* A word of one character.                                                 *)
LEMMA Word1 ==
  ASSUME NEW T, NEW a \in T
  PROVE  <<a>> \in Seq(T) /\ Len(<<a>>) = 1 /\ <<a>>[1] = a
         /\ \A j \in 1 .. 1 : <<a>>[j] \in {a}
OBVIOUS

(* A word of two characters.                                                *)
LEMMA Word2 ==
  ASSUME NEW T, NEW a \in T, NEW b \in T
  PROVE  <<a, b>> \in Seq(T) /\ Len(<<a, b>>) = 2 /\ <<a, b>>[1] = a /\ <<a, b>>[2] = b
         /\ \A j \in 1 .. 2 : <<a, b>>[j] \in {a, b}
OBVIOUS

(* A word of three characters.                                              *)
LEMMA Word3 ==
  ASSUME NEW T, NEW a \in T, NEW b \in T, NEW c \in T
  PROVE  /\ <<a, b, c>> \in Seq(T) /\ Len(<<a, b, c>>) = 3
         /\ <<a, b, c>>[1] = a /\ <<a, b, c>>[2] = b
         /\ \A j \in 1 .. 3 : <<a, b, c>>[j] \in {a, b, c}
OBVIOUS

(* The spellings of HTML: five entities.                                    *)
LEMMA HtmlSpells ==
  /\ HtmlCode.mark = "&" /\ DOMAIN HtmlCode.spell = {"&", "<", ">", "quote", "apos"}
  /\ HtmlCode.spell["&"] = <<"&", "amp", "semi">>
  /\ HtmlCode.spell["<"] = <<"&", "lt", "semi">>
  /\ HtmlCode.spell[">"] = <<"&", "gt", "semi">>
  /\ HtmlCode.spell["quote"] = <<"&", "quot", "semi">>
  /\ HtmlCode.spell["apos"] = <<"&", "#39", "semi">>
BY DEF HtmlCode

(* The spellings of JSON: five escapes.                                     *)
LEMMA JsonSpells ==
  /\ JsonCode.mark = "backslash"
  /\ DOMAIN JsonCode.spell = {"quote", "backslash", "newline", "tab", "control"}
  /\ JsonCode.spell["quote"] = <<"backslash", "quote">>
  /\ JsonCode.spell["backslash"] = <<"backslash", "backslash">>
  /\ JsonCode.spell["newline"] = <<"backslash", "n">>
  /\ JsonCode.spell["tab"] = <<"backslash", "t">>
  /\ JsonCode.spell["control"] = <<"backslash", "u0001">>
BY DEF JsonCode

(* A good spelling, by its second character.                                *)
Spells(code, w, second) ==
  w \in Seq(Chars) /\ Len(w) >= 2 /\ w[1] = code.mark /\ w[2] = second

(* No entity is mistaken for another.                                       *)
LEMMA HtmlIsCode == IsCode(HtmlCode)
<1>1. Spells(HtmlCode, HtmlCode.spell["&"], "amp")
  <2>1. HtmlCode.spell["&"] = <<"&", "amp", "semi">> /\ HtmlCode.mark = "&"
    BY HtmlSpells
  <2>2. "&" \in Chars /\ "amp" \in Chars /\ "semi" \in Chars
    BY CharsAre
  <2>3. PICK w : w = <<"&", "amp", "semi">>
    OBVIOUS
  <2>4. w \in Seq(Chars) /\ Len(w) >= 2 /\ w[1] = "&" /\ w[2] = "amp"
    BY <2>2, <2>3, Word3
  <2> QED  BY <2>1, <2>3, <2>4, Zenon DEF Spells
<1>2. Spells(HtmlCode, HtmlCode.spell["<"], "lt")
  <2>1. HtmlCode.spell["<"] = <<"&", "lt", "semi">> /\ HtmlCode.mark = "&"
    BY HtmlSpells
  <2>2. "&" \in Chars /\ "lt" \in Chars /\ "semi" \in Chars
    BY CharsAre
  <2>3. PICK w : w = <<"&", "lt", "semi">>
    OBVIOUS
  <2>4. w \in Seq(Chars) /\ Len(w) >= 2 /\ w[1] = "&" /\ w[2] = "lt"
    BY <2>2, <2>3, Word3
  <2> QED  BY <2>1, <2>3, <2>4, Zenon DEF Spells
<1>3. Spells(HtmlCode, HtmlCode.spell[">"], "gt")
  <2>1. HtmlCode.spell[">"] = <<"&", "gt", "semi">> /\ HtmlCode.mark = "&"
    BY HtmlSpells
  <2>2. "&" \in Chars /\ "gt" \in Chars /\ "semi" \in Chars
    BY CharsAre
  <2>3. PICK w : w = <<"&", "gt", "semi">>
    OBVIOUS
  <2>4. w \in Seq(Chars) /\ Len(w) >= 2 /\ w[1] = "&" /\ w[2] = "gt"
    BY <2>2, <2>3, Word3
  <2> QED  BY <2>1, <2>3, <2>4, Zenon DEF Spells
<1>4. Spells(HtmlCode, HtmlCode.spell["quote"], "quot")
  <2>1. HtmlCode.spell["quote"] = <<"&", "quot", "semi">> /\ HtmlCode.mark = "&"
    BY HtmlSpells
  <2>2. "&" \in Chars /\ "quot" \in Chars /\ "semi" \in Chars
    BY CharsAre
  <2>3. PICK w : w = <<"&", "quot", "semi">>
    OBVIOUS
  <2>4. w \in Seq(Chars) /\ Len(w) >= 2 /\ w[1] = "&" /\ w[2] = "quot"
    BY <2>2, <2>3, Word3
  <2> QED  BY <2>1, <2>3, <2>4, Zenon DEF Spells
<1>5. Spells(HtmlCode, HtmlCode.spell["apos"], "#39")
  <2>1. HtmlCode.spell["apos"] = <<"&", "#39", "semi">> /\ HtmlCode.mark = "&"
    BY HtmlSpells
  <2>2. "&" \in Chars /\ "#39" \in Chars /\ "semi" \in Chars
    BY CharsAre
  <2>3. PICK w : w = <<"&", "#39", "semi">>
    OBVIOUS
  <2>4. w \in Seq(Chars) /\ Len(w) >= 2 /\ w[1] = "&" /\ w[2] = "#39"
    BY <2>2, <2>3, Word3
  <2> QED  BY <2>1, <2>3, <2>4, Zenon DEF Spells
<1>6. DOMAIN HtmlCode.spell = {"&", "<", ">", "quote", "apos"}
  BY HtmlSpells
<1>7. ASSUME NEW c \in DOMAIN HtmlCode.spell
      PROVE  \E second : Spells(HtmlCode, HtmlCode.spell[c], second)
  BY <1>1, <1>2, <1>3, <1>4, <1>5, <1>6
<1>8. \A c, d \in DOMAIN HtmlCode.spell : HtmlCode.spell[c][2] = HtmlCode.spell[d][2] => c = d
  BY <1>1, <1>2, <1>3, <1>4, <1>5, <1>6 DEF Spells
<1> QED  BY <1>7, <1>8 DEF IsCode, Spells

(* No escape is mistaken for another.                                       *)
LEMMA JsonIsCode == IsCode(JsonCode)
<1>1. Spells(JsonCode, JsonCode.spell["quote"], "quote")
  <2>1. JsonCode.spell["quote"] = <<"backslash", "quote">> /\ JsonCode.mark = "backslash"
    BY JsonSpells
  <2>2. "backslash" \in Chars /\ "quote" \in Chars
    BY CharsAre
  <2>3. PICK w : w = <<"backslash", "quote">>
    OBVIOUS
  <2>4. w \in Seq(Chars) /\ Len(w) >= 2 /\ w[1] = "backslash" /\ w[2] = "quote"
    BY <2>2, <2>3, Word2
  <2> QED  BY <2>1, <2>3, <2>4, Zenon DEF Spells
<1>2. Spells(JsonCode, JsonCode.spell["backslash"], "backslash")
  <2>1. JsonCode.spell["backslash"] = <<"backslash", "backslash">> /\ JsonCode.mark = "backslash"
    BY JsonSpells
  <2>2. "backslash" \in Chars
    BY CharsAre
  <2>3. PICK w : w = <<"backslash", "backslash">>
    OBVIOUS
  <2>4. w \in Seq(Chars) /\ Len(w) >= 2 /\ w[1] = "backslash" /\ w[2] = "backslash"
    BY <2>2, <2>3, Word2
  <2> QED  BY <2>1, <2>3, <2>4, Zenon DEF Spells
<1>3. Spells(JsonCode, JsonCode.spell["newline"], "n")
  <2>1. JsonCode.spell["newline"] = <<"backslash", "n">> /\ JsonCode.mark = "backslash"
    BY JsonSpells
  <2>2. "backslash" \in Chars /\ "n" \in Chars
    BY CharsAre
  <2>3. PICK w : w = <<"backslash", "n">>
    OBVIOUS
  <2>4. w \in Seq(Chars) /\ Len(w) >= 2 /\ w[1] = "backslash" /\ w[2] = "n"
    BY <2>2, <2>3, Word2
  <2> QED  BY <2>1, <2>3, <2>4, Zenon DEF Spells
<1>4. Spells(JsonCode, JsonCode.spell["tab"], "t")
  <2>1. JsonCode.spell["tab"] = <<"backslash", "t">> /\ JsonCode.mark = "backslash"
    BY JsonSpells
  <2>2. "backslash" \in Chars /\ "t" \in Chars
    BY CharsAre
  <2>3. PICK w : w = <<"backslash", "t">>
    OBVIOUS
  <2>4. w \in Seq(Chars) /\ Len(w) >= 2 /\ w[1] = "backslash" /\ w[2] = "t"
    BY <2>2, <2>3, Word2
  <2> QED  BY <2>1, <2>3, <2>4, Zenon DEF Spells
<1>5. Spells(JsonCode, JsonCode.spell["control"], "u0001")
  <2>1. JsonCode.spell["control"] = <<"backslash", "u0001">> /\ JsonCode.mark = "backslash"
    BY JsonSpells
  <2>2. "backslash" \in Chars /\ "u0001" \in Chars
    BY CharsAre
  <2>3. PICK w : w = <<"backslash", "u0001">>
    OBVIOUS
  <2>4. w \in Seq(Chars) /\ Len(w) >= 2 /\ w[1] = "backslash" /\ w[2] = "u0001"
    BY <2>2, <2>3, Word2
  <2> QED  BY <2>1, <2>3, <2>4, Zenon DEF Spells
<1>6. DOMAIN JsonCode.spell = {"quote", "backslash", "newline", "tab", "control"}
  BY JsonSpells
<1>7. ASSUME NEW c \in DOMAIN JsonCode.spell
      PROVE  \E second : Spells(JsonCode, JsonCode.spell[c], second)
  BY <1>1, <1>2, <1>3, <1>4, <1>5, <1>6
<1>8. \A c, d \in DOMAIN JsonCode.spell : JsonCode.spell[c][2] = JsonCode.spell[d][2] => c = d
  BY <1>1, <1>2, <1>3, <1>4, <1>5, <1>6 DEF Spells
<1> QED  BY <1>7, <1>8 DEF IsCode, Spells

(* None of chars is in the piece.                                           *)
Without(piece, chars) == \A j \in 1 .. Len(piece) : piece[j] \notin chars

(* What is written for a character.                                         *)
HtmlGood(c, q, w) ==
  /\ w \in Seq(Chars) /\ WritesFor(HtmlCode, c, w)
  /\ Without(w, {"<", ">"})
  /\ q => Without(w, {"<", ">", "quote", "apos"})
JsonGood(c, w) ==
  /\ w \in Seq(Chars) /\ WritesFor(JsonCode, c, w)
  /\ Without(w, {"newline", "tab", "control"})
  /\ \A j \in 1 .. Len(w) : w[j] = "quote" => j = 2 /\ w[1] = "backslash"

(* html_escape_one writes an entity or the character itself.                *)
LEMMA HtmlOneIs ==
  ASSUME NEW c \in Chars, NEW q \in BOOLEAN
  PROVE  HtmlGood(c, q, HtmlEscapeOne(c, q))
<1>1. CASE c = "&"
  <2>1. PICK w : w = <<"&", "amp", "semi">>
    OBVIOUS
  <2>2. HtmlEscapeOne(c, q) = w
    BY <1>1, <2>1 DEF HtmlEscapeOne
  <2>3. w \in Seq(Chars) /\ \A j \in 1 .. Len(w) : w[j] \in {"&", "amp", "semi"}
    <3>1. "&" \in Chars /\ "amp" \in Chars /\ "semi" \in Chars
      BY CharsAre
    <3> QED  BY <2>1, <3>1, Word3
  <2>4. WritesFor(HtmlCode, c, w)
    BY <1>1, <2>1, HtmlSpells DEF WritesFor
  <2> QED  BY <2>2, <2>3, <2>4 DEF HtmlGood, Without
<1>2. CASE c = "<"
  <2>1. PICK w : w = <<"&", "lt", "semi">>
    OBVIOUS
  <2>2. HtmlEscapeOne(c, q) = w
    BY <1>2, <2>1 DEF HtmlEscapeOne
  <2>3. w \in Seq(Chars) /\ \A j \in 1 .. Len(w) : w[j] \in {"&", "lt", "semi"}
    <3>1. "&" \in Chars /\ "lt" \in Chars /\ "semi" \in Chars
      BY CharsAre
    <3> QED  BY <2>1, <3>1, Word3
  <2>4. WritesFor(HtmlCode, c, w)
    BY <1>2, <2>1, HtmlSpells DEF WritesFor
  <2> QED  BY <2>2, <2>3, <2>4 DEF HtmlGood, Without
<1>3. CASE c = ">"
  <2>1. PICK w : w = <<"&", "gt", "semi">>
    OBVIOUS
  <2>2. HtmlEscapeOne(c, q) = w
    BY <1>3, <2>1 DEF HtmlEscapeOne
  <2>3. w \in Seq(Chars) /\ \A j \in 1 .. Len(w) : w[j] \in {"&", "gt", "semi"}
    <3>1. "&" \in Chars /\ "gt" \in Chars /\ "semi" \in Chars
      BY CharsAre
    <3> QED  BY <2>1, <3>1, Word3
  <2>4. WritesFor(HtmlCode, c, w)
    BY <1>3, <2>1, HtmlSpells DEF WritesFor
  <2> QED  BY <2>2, <2>3, <2>4 DEF HtmlGood, Without
<1>4. CASE c = "quote" /\ q
  <2>1. PICK w : w = <<"&", "quot", "semi">>
    OBVIOUS
  <2>2. HtmlEscapeOne(c, q) = w
    BY <1>4, <2>1 DEF HtmlEscapeOne
  <2>3. w \in Seq(Chars) /\ \A j \in 1 .. Len(w) : w[j] \in {"&", "quot", "semi"}
    <3>1. "&" \in Chars /\ "quot" \in Chars /\ "semi" \in Chars
      BY CharsAre
    <3> QED  BY <2>1, <3>1, Word3
  <2>4. WritesFor(HtmlCode, c, w)
    BY <1>4, <2>1, HtmlSpells DEF WritesFor
  <2> QED  BY <2>2, <2>3, <2>4 DEF HtmlGood, Without
<1>5. CASE c = "apos" /\ q
  <2>1. PICK w : w = <<"&", "#39", "semi">>
    OBVIOUS
  <2>2. HtmlEscapeOne(c, q) = w
    BY <1>5, <2>1 DEF HtmlEscapeOne
  <2>3. w \in Seq(Chars) /\ \A j \in 1 .. Len(w) : w[j] \in {"&", "#39", "semi"}
    <3>1. "&" \in Chars /\ "#39" \in Chars /\ "semi" \in Chars
      BY CharsAre
    <3> QED  BY <2>1, <3>1, Word3
  <2>4. WritesFor(HtmlCode, c, w)
    BY <1>5, <2>1, HtmlSpells DEF WritesFor
  <2> QED  BY <2>2, <2>3, <2>4 DEF HtmlGood, Without
<1>6. CASE c \notin {"&", "<", ">"} /\ (q => c \notin {"quote", "apos"})
  <2>1. PICK w : w = <<c>>
    OBVIOUS
  <2>2. HtmlEscapeOne(c, q) = w
    BY <1>6, <2>1 DEF HtmlEscapeOne
  <2>3. w \in Seq(Chars) /\ \A j \in 1 .. Len(w) : w[j] \in {c}
    BY <2>1, Word1
  <2>4. WritesFor(HtmlCode, c, w)
    BY <1>6, <2>1, HtmlSpells DEF WritesFor
  <2> QED  BY <1>6, <2>2, <2>3, <2>4 DEF HtmlGood, Without
<1> QED  BY <1>1, <1>2, <1>3, <1>4, <1>5, <1>6

(* cytadel_escape_json writes an escape or the character itself.            *)
LEMMA JsonOneIs ==
  ASSUME NEW c \in Chars
  PROVE  JsonGood(c, JsonEscapeOne(c))
<1>1. CASE c = "quote"
  <2>1. PICK w : w = <<"backslash", "quote">>
    OBVIOUS
  <2>2. JsonEscapeOne(c) = w
    BY <1>1, <2>1 DEF JsonEscapeOne
  <2>3. w \in Seq(Chars) /\ Len(w) = 2 /\ w[1] = "backslash"
        /\ \A j \in 1 .. Len(w) : w[j] \in {"backslash", "quote"}
    <3>1. "backslash" \in Chars /\ "quote" \in Chars
      BY CharsAre
    <3> QED  BY <2>1, <3>1, Word2
  <2>4. WritesFor(JsonCode, c, w)
    BY <1>1, <2>1, JsonSpells DEF WritesFor
  <2> QED  BY <2>2, <2>3, <2>4 DEF JsonGood, Without
<1>2. CASE c = "backslash"
  <2>1. PICK w : w = <<"backslash", "backslash">>
    OBVIOUS
  <2>2. JsonEscapeOne(c) = w
    BY <1>2, <2>1 DEF JsonEscapeOne
  <2>3. w \in Seq(Chars) /\ Len(w) = 2 /\ w[1] = "backslash"
        /\ \A j \in 1 .. Len(w) : w[j] \in {"backslash"}
    <3>1. "backslash" \in Chars
      BY CharsAre
    <3> QED  BY <2>1, <3>1, Word2
  <2>4. WritesFor(JsonCode, c, w)
    BY <1>2, <2>1, JsonSpells DEF WritesFor
  <2> QED  BY <2>2, <2>3, <2>4 DEF JsonGood, Without
<1>3. CASE c = "newline"
  <2>1. PICK w : w = <<"backslash", "n">>
    OBVIOUS
  <2>2. JsonEscapeOne(c) = w
    BY <1>3, <2>1 DEF JsonEscapeOne
  <2>3. w \in Seq(Chars) /\ Len(w) = 2 /\ w[1] = "backslash"
        /\ \A j \in 1 .. Len(w) : w[j] \in {"backslash", "n"}
    <3>1. "backslash" \in Chars /\ "n" \in Chars
      BY CharsAre
    <3> QED  BY <2>1, <3>1, Word2
  <2>4. WritesFor(JsonCode, c, w)
    BY <1>3, <2>1, JsonSpells DEF WritesFor
  <2> QED  BY <2>2, <2>3, <2>4 DEF JsonGood, Without
<1>4. CASE c = "tab"
  <2>1. PICK w : w = <<"backslash", "t">>
    OBVIOUS
  <2>2. JsonEscapeOne(c) = w
    BY <1>4, <2>1 DEF JsonEscapeOne
  <2>3. w \in Seq(Chars) /\ Len(w) = 2 /\ w[1] = "backslash"
        /\ \A j \in 1 .. Len(w) : w[j] \in {"backslash", "t"}
    <3>1. "backslash" \in Chars /\ "t" \in Chars
      BY CharsAre
    <3> QED  BY <2>1, <3>1, Word2
  <2>4. WritesFor(JsonCode, c, w)
    BY <1>4, <2>1, JsonSpells DEF WritesFor
  <2> QED  BY <2>2, <2>3, <2>4 DEF JsonGood, Without
<1>5. CASE c = "control"
  <2>1. PICK w : w = <<"backslash", "u0001">>
    OBVIOUS
  <2>2. JsonEscapeOne(c) = w
    BY <1>5, <2>1 DEF JsonEscapeOne
  <2>3. w \in Seq(Chars) /\ Len(w) = 2 /\ w[1] = "backslash"
        /\ \A j \in 1 .. Len(w) : w[j] \in {"backslash", "u0001"}
    <3>1. "backslash" \in Chars /\ "u0001" \in Chars
      BY CharsAre
    <3> QED  BY <2>1, <3>1, Word2
  <2>4. WritesFor(JsonCode, c, w)
    BY <1>5, <2>1, JsonSpells DEF WritesFor
  <2> QED  BY <2>2, <2>3, <2>4 DEF JsonGood, Without
<1>6. CASE c \notin {"quote", "backslash", "newline", "tab", "control"}
  <2>1. PICK w : w = <<c>>
    OBVIOUS
  <2>2. JsonEscapeOne(c) = w
    BY <1>6, <2>1 DEF JsonEscapeOne
  <2>3. w \in Seq(Chars) /\ \A j \in 1 .. Len(w) : w[j] \in {c}
    BY <2>1, Word1
  <2>4. WritesFor(JsonCode, c, w)
    BY <1>6, <2>1, JsonSpells DEF WritesFor
  <2> QED  BY <1>6, <2>2, <2>3, <2>4 DEF JsonGood, Without
<1> QED  BY <1>1, <1>2, <1>3, <1>4, <1>5, <1>6

(* What is in no piece is not in the whole.                                 *)
LEMMA LacksIs ==
  ASSUME NEW T, NEW pieces \in Seq(Seq(T)), NEW chars,
         \A k \in 1 .. Len(pieces) : Without(pieces[k], chars)
  PROVE  Lacks(Joined(pieces), chars)
<1>1. PICK s \in Seq(T) : s = Joined(pieces) /\ Cut(pieces, s)
  BY JoinedIs
<1>2. PICK at : Cuts(at, pieces, s)
  BY <1>1 DEF Cut
<1> SUFFICES ASSUME NEW i \in DOMAIN s PROVE s[i] \notin chars
  BY <1>1 DEF Lacks
<1>3. i \in 1 .. Len(s)
  BY LenProperties
<1>4. PICK k \in 1 .. Len(pieces) : \E j \in 1 .. Len(pieces[k]) : i = at[k - 1] + j
  BY <1>2, <1>3 DEF Cuts
<1>5. PICK j \in 1 .. Len(pieces[k]) : i = at[k - 1] + j
  BY <1>4
<1>6. s[i] = pieces[k][j]
  BY <1>2, <1>5 DEF Cuts
<1> QED  BY <1>6 DEF Without

(* A function on 1 .. n is a sequence of length n.                          *)
LEMMA SequenceIs ==
  ASSUME NEW T, NEW n \in Nat, NEW f \in [1 .. n -> T]
  PROVE  f \in Seq(T) /\ Len(f) = n
<1>1. f \in Seq(T)
  BY SeqDef
<1>2. DOMAIN f = 1 .. n
  OBVIOUS
<1>3. Len(f) \in Nat /\ DOMAIN f = 1 .. Len(f)
  BY <1>1, LenProperties
<1>4. Len(f) = n
  <2>1. \A i \in Nat : i \in 1 .. Len(f) <=> i \in 1 .. n
    BY <1>2, <1>3
  <2>2. PICK l \in Nat : l = Len(f)
    BY <1>3
  <2> QED  BY <2>1, <2>2
<1> QED  BY <1>1, <1>4

(* report_html.c's text: read back whole, and no markup in it.              *)
LEMMA HtmlIs ==
  ASSUME NEW text \in Seq(Chars), NEW q \in BOOLEAN
  PROVE  /\ Decodes(HtmlCode, EscapeHtml(text, q), text)
         /\ Lacks(EscapeHtml(text, q), {"<", ">"})
         /\ q => Lacks(EscapeHtml(text, q), {"<", ">", "quote", "apos"})
<1> DEFINE pieces == [i \in 1 .. Len(text) |-> HtmlEscapeOne(text[i], q)]
<1>1. EscapeHtml(text, q) = Joined(pieces)
  BY DEF EscapeHtml
<1>2. ASSUME NEW i \in 1 .. Len(text)
      PROVE  HtmlGood(text[i], q, pieces[i])
  <2>1. text[i] \in Chars
    BY ElementOfSeq
  <2> QED  BY <2>1, HtmlOneIs
<1>3. Len(text) \in Nat
  BY LenProperties
<1>4. pieces \in [1 .. Len(text) -> Seq(Chars)]
  BY <1>2 DEF HtmlGood
<1> HIDE DEF pieces
<1>5. pieces \in Seq(Seq(Chars)) /\ Len(pieces) = Len(text)
  BY <1>3, <1>4, SequenceIs
<1>6. Decodes(HtmlCode, Joined(pieces), text)
  BY <1>2, <1>5, HtmlIsCode, DecodesIs DEF HtmlGood
<1>7. Lacks(Joined(pieces), {"<", ">"})
  <2>1. \A k \in 1 .. Len(pieces) : Without(pieces[k], {"<", ">"})
    BY <1>2, <1>5 DEF HtmlGood
  <2> QED  BY <1>5, <2>1, LacksIs
<1>8. ASSUME q PROVE Lacks(Joined(pieces), {"<", ">", "quote", "apos"})
  <2>1. \A k \in 1 .. Len(pieces) : Without(pieces[k], {"<", ">", "quote", "apos"})
    BY <1>2, <1>5, <1>8 DEF HtmlGood
  <2> QED  BY <1>5, <2>1, LacksIs
<1> QED  BY <1>1, <1>6, <1>7, <1>8, Zenon

(* report_json.c's text: read back whole, and a quote has its backslash.    *)
LEMMA JsonIs ==
  ASSUME NEW text \in Seq(Chars)
  PROVE  /\ Decodes(JsonCode, EscapeJson(text), text)
         /\ Lacks(EscapeJson(text), {"newline", "tab", "control"})
         /\ \A i \in DOMAIN EscapeJson(text) :
              EscapeJson(text)[i] = "quote" => i > 1 /\ EscapeJson(text)[i - 1] = "backslash"
<1> DEFINE pieces == [i \in 1 .. Len(text) |-> JsonEscapeOne(text[i])]
<1>1. EscapeJson(text) = Joined(pieces)
  BY DEF EscapeJson
<1>2. ASSUME NEW i \in 1 .. Len(text)
      PROVE  JsonGood(text[i], pieces[i])
  <2>1. text[i] \in Chars
    BY ElementOfSeq
  <2> QED  BY <2>1, JsonOneIs
<1>3. Len(text) \in Nat
  BY LenProperties
<1>4. pieces \in [1 .. Len(text) -> Seq(Chars)]
  BY <1>2 DEF JsonGood
<1> HIDE DEF pieces
<1>5. pieces \in Seq(Seq(Chars)) /\ Len(pieces) = Len(text)
  BY <1>3, <1>4, SequenceIs
<1>6. Decodes(JsonCode, Joined(pieces), text)
  BY <1>2, <1>5, JsonIsCode, DecodesIs DEF JsonGood
<1>7. Lacks(Joined(pieces), {"newline", "tab", "control"})
  <2>1. \A k \in 1 .. Len(pieces) : Without(pieces[k], {"newline", "tab", "control"})
    BY <1>2, <1>5 DEF JsonGood
  <2> QED  BY <1>5, <2>1, LacksIs
<1>8. PICK s \in Seq(Chars) : s = Joined(pieces) /\ Cut(pieces, s)
  BY <1>5, JoinedIs
<1>9. ASSUME NEW i \in DOMAIN s, s[i] = "quote" PROVE i > 1 /\ s[i - 1] = "backslash"
  <2>1. PICK at : Cuts(at, pieces, s)
    BY <1>8 DEF Cut
  <2>2. i \in 1 .. Len(s)
    BY LenProperties
  <2>3. PICK k \in 1 .. Len(pieces) : \E j \in 1 .. Len(pieces[k]) : i = at[k - 1] + j
    BY <2>1, <2>2 DEF Cuts
  <2>4. PICK j \in 1 .. Len(pieces[k]) : i = at[k - 1] + j
    BY <2>3
  <2>5. s[i] = pieces[k][j]
    BY <2>1, <2>4 DEF Cuts
  <2>6. j = 2 /\ pieces[k][1] = "backslash" /\ pieces[k] \in Seq(Chars)
    BY <1>2, <1>5, <1>9, <2>5 DEF JsonGood
  <2>7. PICK a \in Nat, l \in Nat : a = at[k - 1] /\ l = Len(pieces[k])
    <3>1. k - 1 \in 0 .. Len(pieces)
      BY <1>3, <1>5
    <3>2. at[k - 1] \in Nat
      BY <2>1, <3>1 DEF Cuts
    <3> QED  BY <2>6, <3>2, LenProperties
  <2>8. i = a + 2 /\ 1 \in 1 .. l /\ i - 1 = a + 1 /\ i > 1
    BY <2>4, <2>6, <2>7
  <2>9. \A m \in 1 .. l : s[a + m] = pieces[k][m]
    BY <2>1, <2>7 DEF Cuts
  <2>10. s[a + 1] = "backslash"
    BY <2>6, <2>8, <2>9
  <2> QED  BY <2>8, <2>10
<1> QED  BY <1>1, <1>6, <1>7, <1>8, <1>9, Zenon

(* The loop of buf_reserve reaches what is needed.                          *)
LEMMA GrownIs ==
  ASSUME NEW cap \in 0 .. SizeMax, NEW need \in 1 .. SizeMax
  PROVE  Grown(cap, need) \in need .. SizeMax
<1> DEFINE n == SizeMax
           T == 1 .. SizeMax
           z == IF cap = 0 THEN FirstCap ELSE cap
           step == [k \in 1 .. n |-> [x \in T |-> Doubled(x, need)]]
           Is(l) == l = [k \in 0 .. n |-> IF k = 0 THEN z ELSE Doubled(l[k - 1], need)]
           low == CHOOSE l : Is(l)
<1>1. n \in Nat /\ n > 0
  BY TextCodecAssumption
<1>2. z \in T
  BY TextCodecAssumption
<1>3. ASSUME NEW x \in T
      PROVE  Doubled(x, need) \in T /\ (Doubled(x, need) >= need \/ Doubled(x, need) >= x + 1)
  <2>1. CASE x >= need
    BY <2>1 DEF Doubled
  <2>2. CASE ~(x >= need) /\ x > n \div 2
    BY <1>1, <2>2 DEF Doubled
  <2>3. CASE ~(x >= need) /\ ~(x > n \div 2)
    <3>1. PICK d \in Nat : d = n \div 2 /\ 2 * d <= n
      BY <1>1
    <3>2. 2 * x \in T /\ 2 * x >= x + 1
      BY <1>1, <2>3, <3>1
    <3> QED  BY <2>3, <3>2 DEF Doubled
  <2> QED  BY <2>1, <2>2, <2>3
<1>4. Grown(cap, need) = low[n]
  BY Zenon DEF Grown
<1> HIDE DEF T, z
<1>5. PICK g : g \in Runs(T, z, step, n)
  <2>1. \A k \in 1 .. n, x \in T : step[k][x] \in T
    BY <1>3
  <2> HIDE DEF step
  <2> QED  BY <1>1, <1>2, <2>1, RunExists
<1>6. g \in [0 .. n -> T] /\ g[0] = z /\ \A k \in 1 .. n : g[k] = Doubled(g[k - 1], need)
  <2>1. g \in [0 .. n -> T] /\ g[0] = z
    BY <1>5 DEF Runs
  <2>2. ASSUME NEW k \in 1 .. n PROVE g[k] = Doubled(g[k - 1], need)
    <3>1. g[k] = step[k][g[k - 1]]
      BY <1>5 DEF Runs
    <3>2. k - 1 \in 0 .. n
      BY <1>1
    <3> QED  BY <2>1, <3>1, <3>2
  <2> QED  BY <2>1, <2>2
<1>7. Is(g)
  <2>1. \A k \in 0 .. n : k # 0 => k \in 1 .. n
    BY <1>1
  <2>2. \A k \in 0 .. n : g[k] = IF k = 0 THEN z ELSE Doubled(g[k - 1], need)
    BY <1>6, <2>1
  <2>3. g = [k \in 0 .. n |-> g[k]]
    BY <1>6
  <2> QED  BY <2>2, <2>3
<1>8. Is(low)
  BY <1>7
<1> HIDE DEF low
<1>9. low[0] = z /\ \A k \in 1 .. n : low[k] = Doubled(low[k - 1], need)
  <2>1. 0 \in 0 .. n /\ \A k \in 1 .. n : k \in 0 .. n /\ k # 0
    BY <1>1
  <2>2. \A k \in 0 .. n : low[k] = IF k = 0 THEN z ELSE Doubled(low[k - 1], need)
    BY <1>8, Zenon
  <2> QED  BY <2>1, <2>2, Zenon
<1>10. \A k \in 0 .. n : low[k] \in T /\ (low[k] >= need \/ low[k] >= k + 1)
  <2> DEFINE S == {k \in 0 .. n : low[k] \in T /\ (low[k] >= need \/ low[k] >= k + 1)}
  <2>1. 0 \in S
    BY <1>1, <1>2, <1>9 DEF T
  <2>2. ASSUME NEW k \in 0 .. n - 1, k \in S PROVE k + 1 \in S
    <3>1. PICK h \in 1 .. n : h = k + 1 /\ h - 1 = k /\ h \in 0 .. n
      BY <1>1
    <3>2. PICK x \in T : x = low[k] /\ (x >= need \/ x >= k + 1)
      BY <2>2
    <3>3. low[h] = Doubled(x, need)
      BY <1>9, <3>1, <3>2
    <3>4. CASE x >= need
      BY <3>1, <3>2, <3>3, <3>4 DEF Doubled
    <3>5. CASE ~(x >= need)
      <4>1. PICK y \in T : y = low[h] /\ (y >= need \/ y >= x + 1)
        BY <1>3, <3>3
      <4>2. y >= need \/ y >= h + 1
        BY <3>1, <3>2, <3>5, <4>1 DEF T
      <4> QED  BY <3>1, <4>1, <4>2
    <3> QED  BY <3>4, <3>5
  <2> HIDE DEF S
  <2>3. \A k \in 0 .. n : k \in S
    BY <1>1, <2>1, <2>2, UpTo
  <2> QED  BY <2>3 DEF S
<1>11. PICK x \in T : x = low[n] /\ (x >= need \/ x >= n + 1)
  BY <1>1, <1>10
<1>12. x \in need .. SizeMax
  BY <1>1, <1>11 DEF T
<1> QED  BY <1>4, <1>11, <1>12

(* buf_reserve gives enough room or refuses.                                *)
LEMMA ReserveIs ==
  ASSUME NEW cap \in 0 .. SizeMax, NEW extra \in 0 .. SizeMax, NEW len \in 0 .. cap,
         cap = 0 \/ len < cap, NEW granted \in BOOLEAN, NEW got, got = Reserve(len, cap, extra, granted)
  PROVE  /\ got # 0 => got \in (len + 1 + extra) .. SizeMax
         /\ got = 0 => len + 1 + extra > SizeMax \/ (~granted /\ len + 1 + extra > cap)
<1>1. SizeMax \in Nat /\ SizeMax > 0 /\ len \in Nat /\ cap \in Nat /\ extra \in Nat
  BY TextCodecAssumption
<1>2. CASE len + 1 + extra > SizeMax
  <2>1. len > SizeMax - 1 \/ (len <= SizeMax - 1 /\ extra > SizeMax - (len + 1))
    BY <1>1, <1>2
  <2> QED  BY <1>2, <2>1 DEF Reserve
<1>3. CASE ~(len + 1 + extra > SizeMax)
  <2>1. ~(len > SizeMax - 1) /\ ~(extra > SizeMax - (len + 1))
    BY <1>1, <1>3
  <2>2. PICK need \in 1 .. SizeMax : need = len + 1 + extra
    BY <1>1, <1>3
  <2>3. got = IF need <= cap THEN cap ELSE IF granted THEN Grown(cap, need) ELSE 0
    BY <2>1, <2>2 DEF Reserve
  <2>4. Grown(cap, need) \in need .. SizeMax
    BY GrownIs
  <2>5. CASE need <= cap
    BY <1>1, <2>2, <2>3, <2>5
  <2>6. CASE ~(need <= cap) /\ granted
    BY <1>1, <2>2, <2>3, <2>4, <2>6
  <2>7. CASE ~(need <= cap) /\ ~granted
    BY <1>1, <2>2, <2>3, <2>7
  <2> QED  BY <2>5, <2>6, <2>7
<1> QED  BY <1>2, <1>3

(* A set of numbers below a bound that is not empty has a greatest member.  *)
LEMMA GreatestNat ==
  ASSUME NEW N \in Nat, NEW S \in SUBSET (1 .. N), S # {}
  PROVE  \E x \in S : \A y \in S : x >= y
<1> DEFINE D == {d \in Nat : \E y \in S : d = N - y}
<1>1. D \in SUBSET Nat
  OBVIOUS
<1>2. D # {}
  <2>1. PICK y \in S : TRUE
    OBVIOUS
  <2>2. N - y \in D
    OBVIOUS
  <2> QED  BY <2>2
<1>3. PICK d \in D : \A e \in D : d <= e
  <2> HIDE DEF D
  <2> QED  BY <1>1, <1>2, LeastNat
<1>4. PICK x \in S : d = N - x
  OBVIOUS
<1>5. ASSUME NEW y \in S PROVE x >= y
  <2>1. N - y \in D
    OBVIOUS
  <2>2. d <= N - y
    BY <1>3, <2>1
  <2> QED  BY <1>4, <2>2
<1> QED  BY <1>5

(* Pieces of one character do not move what follows.                        *)
LEMMA OnesStay ==
  ASSUME NEW T, NEW pieces \in Seq(Seq(T)), NEW s, NEW at, Cuts(at, pieces, s),
         NEW r \in 0 .. Len(pieces), \A k \in 1 .. r : Len(pieces[k]) = 1
  PROVE  \A k \in 0 .. r : at[k] = k
<1> DEFINE S == {k \in 0 .. r : at[k] = k}
<1>1. r \in Nat /\ Len(pieces) \in Nat
  BY LenProperties
<1>2. 0 \in S
  BY <1>1 DEF Cuts
<1>3. ASSUME NEW k \in 0 .. r - 1, k \in S PROVE k + 1 \in S
  <2>1. PICK h \in 1 .. r : h = k + 1 /\ h - 1 = k /\ h \in 1 .. Len(pieces) /\ h \in 0 .. r
    BY <1>1
  <2>2. at[h] = at[h - 1] + Len(pieces[h])
    BY <2>1 DEF Cuts
  <2>3. at[h] = k + 1
    BY <1>3, <2>1, <2>2
  <2> QED  BY <2>1, <2>3
<1> HIDE DEF S
<1>4. \A k \in 0 .. r : k \in S
  BY <1>1, <1>2, <1>3, UpTo
<1> QED  BY <1>4 DEF S

(* Pieces of one character each, joined, are the text of the characters.   *)
LEMMA OnesAre ==
  ASSUME NEW T, NEW text \in Seq(T), NEW pieces \in Seq(Seq(T)), Len(pieces) = Len(text),
         \A i \in 1 .. Len(text) : pieces[i] = <<text[i]>>
  PROVE  Joined(pieces) = text
<1>1. Len(text) \in Nat
  BY LenProperties
<1>2. PICK s \in Seq(T) : s = Joined(pieces) /\ Cut(pieces, s)
  BY JoinedIs
<1>3. PICK at : Cuts(at, pieces, s)
  BY <1>2 DEF Cut
<1>4. ASSUME NEW i \in 1 .. Len(text) PROVE Len(pieces[i]) = 1 /\ pieces[i][1] = text[i]
  <2>1. pieces[i] = <<text[i]>>
    OBVIOUS
  <2>2. Len(<<text[i]>>) = 1 /\ <<text[i]>>[1] = text[i]
    OBVIOUS
  <2> QED  BY <2>1, <2>2, Zenon
<1>5. PICK r \in 0 .. Len(pieces) : r = Len(text)
  BY <1>1
<1>6. \A k \in 0 .. r : at[k] = k
  BY <1>3, <1>4, <1>5, OnesStay
<1>7. Len(s) = Len(text)
  <2>1. at[Len(pieces)] = Len(s)
    BY <1>3 DEF Cuts
  <2>2. r \in 0 .. r
    BY <1>1, <1>5
  <2> QED  BY <1>5, <1>6, <2>1, <2>2
<1>8. ASSUME NEW i \in 1 .. Len(s) PROVE s[i] = text[i]
  <2>1. i \in 1 .. Len(pieces) /\ i - 1 \in 0 .. r /\ i - 1 + 1 = i
    BY <1>1, <1>5, <1>7
  <2>2. Len(pieces[i]) = 1 /\ pieces[i][1] = text[i]
    BY <1>4, <1>7
  <2>3. 1 \in 1 .. Len(pieces[i])
    BY <2>2
  <2>4. s[at[i - 1] + 1] = pieces[i][1]
    BY <1>3, <2>1, <2>3 DEF Cuts
  <2>5. at[i - 1] + 1 = i
    BY <1>6, <2>1
  <2> QED  BY <2>2, <2>4, <2>5
<1>9. s = text
  BY <1>7, <1>8, SeqEqual
<1> QED  BY <1>2, <1>9

(* What is written into a link.                                             *)
UrlOut == {"http", "s", "x", "digit", "+", "-", ".", ":", "/", "#", "?", "%", "hex"}

(* No character that ends an attribute or that a browser skips is written.  *)
LEMMA UrlOutIs ==
  ASSUME NEW c \in UrlOut
  PROVE  c \notin SkippedByBrowser \cup EndsAttribute
BY DEF UrlOut, SkippedByBrowser, EndsAttribute

(* A text without tabs and newlines stays as it is.                         *)
LEMMA WithoutBreaksIs ==
  ASSUME NEW T, NEW text \in Seq(T)
  PROVE  /\ WithoutBreaks(text) \in Seq(T)
         /\ (\A i \in 1 .. Len(text) : text[i] \notin {"tab", "newline"}) => WithoutBreaks(text) = text
<1> DEFINE pieces == [i \in 1 .. Len(text) |->
                        IF text[i] \in {"tab", "newline"} THEN <<>> ELSE <<text[i]>>]
<1>1. WithoutBreaks(text) = Joined(pieces)
  BY DEF WithoutBreaks
<1>2. Len(text) \in Nat
  BY LenProperties
<1>3. pieces \in [1 .. Len(text) -> Seq(T)]
  <2>1. ASSUME NEW i \in 1 .. Len(text) PROVE <<text[i]>> \in Seq(T)
    <3>1. PICK c \in T : c = text[i]
      BY ElementOfSeq
    <3> QED  BY <3>1, Word1
  <2>2. <<>> \in Seq(T)
    OBVIOUS
  <2> QED  BY <2>1, <2>2
<1>4. ASSUME NEW i \in 1 .. Len(text), text[i] \notin {"tab", "newline"}
      PROVE  pieces[i] = <<text[i]>>
  BY <1>4
<1> HIDE DEF pieces
<1>5. pieces \in Seq(Seq(T)) /\ Len(pieces) = Len(text)
  BY <1>2, <1>3, SequenceIs
<1>6. Joined(pieces) \in Seq(T)
  BY <1>5, JoinedIs
<1>7. ASSUME \A i \in 1 .. Len(text) : text[i] \notin {"tab", "newline"} PROVE Joined(pieces) = text
  <2>1. \A i \in 1 .. Len(text) : pieces[i] = <<text[i]>>
    BY <1>4, <1>7
  <2> QED  BY <1>5, <2>1, OnesAre
<1> QED  BY <1>1, <1>6, <1>7

(* A text without blanks stays as it is.                                    *)
LEMMA TrimBlanksIs ==
  ASSUME NEW T, NEW text \in Seq(T)
  PROVE  /\ TrimBlanks(text) \in Seq(T)
         /\ (\A i \in 1 .. Len(text) : text[i] # "blank") => TrimBlanks(text) = text
<1> DEFINE solid == {i \in DOMAIN text : text[i] # "blank"}
           lo == CHOOSE i \in solid : \A j \in solid : i <= j
           hi == CHOOSE i \in solid : \A j \in solid : i >= j
<1>1. Len(text) \in Nat /\ DOMAIN text = 1 .. Len(text)
  BY LenProperties
<1>2. TrimBlanks(text) = IF solid = {} THEN <<>> ELSE SubSeq(text, lo, hi)
  BY DEF TrimBlanks
<1>3. solid \in SUBSET (1 .. Len(text)) /\ solid \in SUBSET Nat
  BY <1>1
<1>4. (\A i \in 1 .. Len(text) : text[i] # "blank") => solid = 1 .. Len(text)
  BY <1>1
<1> HIDE DEF solid
<1>5. CASE solid = {}
  <2>1. TrimBlanks(text) = <<>>
    BY <1>2, <1>5
  <2>2. ASSUME \A i \in 1 .. Len(text) : text[i] # "blank" PROVE text = <<>>
    <3>1. 1 .. Len(text) = {}
      BY <1>4, <1>5, <2>2
    <3>2. Len(text) = 0
      BY <1>1, <3>1, NoPositions, Zenon
    <3>3. text # <<>> => Len(text) \in Nat \ {0}
      BY EmptySeq, Zenon
    <3> QED  BY <3>2, <3>3
  <2>3. TrimBlanks(text) \in Seq(T)
    BY <2>1, EmptySeq
  <2>4. (\A i \in 1 .. Len(text) : text[i] # "blank") => TrimBlanks(text) = text
    BY <2>1, <2>2, Zenon
  <2> QED  BY <2>3, <2>4, Zenon
<1>6. CASE solid # {}
  <2>1. lo \in solid /\ \A j \in solid : lo <= j
    <3>1. \E i \in solid : \A j \in solid : i <= j
      BY <1>3, <1>6, LeastNat
    <3> QED  BY <3>1, Zenon
  <2>2. hi \in solid /\ \A j \in solid : hi >= j
    <3>1. PICK i \in solid : \A j \in solid : i >= j
      BY <1>1, <1>3, <1>6, GreatestNat
    <3> QED  BY <3>1
  <2> HIDE DEF lo, hi
  <2>3. lo \in 1 .. Len(text) /\ hi \in 1 .. Len(text)
    BY <1>3, <2>1, <2>2
  <2>4. SubSeq(text, lo, hi) \in Seq(T)
    BY <2>3, SubSeqProperties
  <2>5. ASSUME \A i \in 1 .. Len(text) : text[i] # "blank" PROVE SubSeq(text, lo, hi) = text
    <3>1. solid = 1 .. Len(text)
      BY <1>4, <2>5
    <3>2. lo = 1 /\ hi = Len(text)
      <4>1. 1 \in solid /\ Len(text) \in solid
        BY <1>1, <2>3, <3>1
      <4>2. lo <= 1 /\ hi >= Len(text)
        BY <2>1, <2>2, <4>1
      <4>3. PICK l \in Nat : l = Len(text)
        BY <1>1
      <4>4. PICK a \in 1 .. l, b \in 1 .. l : a = lo /\ b = hi
        BY <2>3, <4>3
      <4>5. a = 1 /\ b = l
        BY <4>2, <4>3, <4>4
      <4> QED  BY <4>3, <4>4, <4>5
    <3> QED  BY <3>2, SubSeqFull
  <2> QED  BY <1>2, <1>6, <2>4, <2>5
<1> QED  BY <1>5, <1>6

(* The characters of a scheme are those of the grammar.                     *)
LEMMA GrammarIs ==
  /\ \A c : IsAlpha(c) <=> c \in SchemeGrammar.first
  /\ \A c : IsSchemeChar(c) <=> c \in SchemeGrammar.rest
  /\ \A c : IsAlpha(c) => IsSchemeChar(c)
  /\ ~IsSchemeChar(":") /\ ~IsSchemeChar("%") /\ ~IsSchemeChar("/") /\ ~IsSchemeChar("#")
BY DEF IsAlpha, IsSchemeChar, SchemeGrammar

(* How far the scan for a scheme goes.                                      *)
SchemeStops(s, n) ==
  /\ n \in 0 .. Len(s)
  /\ \A i \in 1 .. n : IsSchemeChar(s[i])
  /\ n # 0 => IsAlpha(s[1])
  /\ Len(s) # 0 /\ IsAlpha(s[1]) /\ n < Len(s) => ~IsSchemeChar(s[n + 1])

(* SchemeRun stops there.                                                   *)
LEMMA ScanIs ==
  ASSUME NEW T, NEW s \in Seq(T)
  PROVE  SchemeStops(s, SchemeRun(s))
<1> DEFINE other == {i \in DOMAIN s : ~IsSchemeChar(s[i])}
           first == CHOOSE i \in other : \A j \in other : i <= j
           n == SchemeRun(s)
<1>1. PICK l \in Nat : l = Len(s) /\ DOMAIN s = 1 .. l
  BY LenProperties
<1>2. n = IF s = <<>> THEN 0 ELSE IF ~IsAlpha(s[1]) THEN 0
          ELSE IF other = {} THEN Len(s) ELSE first - 1
  BY DEF SchemeRun
<1>3. other \in SUBSET Nat /\ other \in SUBSET (1 .. l)
  BY <1>1
<1>4. \A i \in 1 .. l : i \notin other => IsSchemeChar(s[i])
  BY <1>1
<1>5. \A i \in other : ~IsSchemeChar(s[i])
  OBVIOUS
<1>6. s = <<>> <=> l = 0
  BY <1>1, EmptySeq
<1> HIDE DEF other, n
<1>7. CASE s = <<>> \/ ~IsAlpha(s[1])
  <2>1. n = 0 /\ (Len(s) = 0 \/ ~IsAlpha(s[1]))
    BY <1>1, <1>2, <1>6, <1>7
  <2>2. n \in 0 .. Len(s) /\ 1 .. n = {}
    BY <1>1, <2>1
  <2> QED  BY <2>1, <2>2 DEF SchemeStops, n
<1>8. CASE s # <<>> /\ IsAlpha(s[1]) /\ other = {}
  <2>1. n = l
    BY <1>1, <1>2, <1>8
  <2>2. \A i \in 1 .. l : IsSchemeChar(s[i])
    BY <1>4, <1>8
  <2>3. n \in 0 .. l /\ ~(n < l)
    BY <2>1
  <2> QED  BY <1>1, <1>8, <2>1, <2>2, <2>3 DEF SchemeStops, n
<1>9. CASE s # <<>> /\ IsAlpha(s[1]) /\ other # {}
  <2>1. first \in other /\ \A j \in other : first <= j
    <3>1. PICK i \in other : \A j \in other : i <= j
      BY <1>3, <1>9, LeastNat
    <3> QED  BY <3>1
  <2> HIDE DEF first
  <2>2. PICK f \in 1 .. l : f = first /\ n = f - 1
    BY <1>2, <1>3, <1>9, <2>1
  <2>3. ASSUME NEW i \in 1 .. n PROVE IsSchemeChar(s[i])
    <3>1. i \in 1 .. l /\ ~(f <= i)
      BY <2>2
    <3>2. i \notin other
      BY <2>1, <2>2, <3>1
    <3> QED  BY <1>4, <3>1, <3>2
  <2>4. ~IsSchemeChar(s[f]) /\ n + 1 = f /\ n \in 0 .. l
    BY <1>5, <2>1, <2>2
  <2> QED  BY <1>1, <1>9, <2>3, <2>4 DEF SchemeStops, n
<1> QED  BY <1>7, <1>8, <1>9

(* The scan finds a scheme exactly where the grammar has one.               *)
LEMMA SchemeIs ==
  ASSUME NEW T, NEW s \in Seq(T)
  PROVE  /\ \A n \in SchemesOf(s) : HasScheme(s) /\ SchemeRun(s) = n
         /\ HasScheme(s) => SchemeRun(s) \in SchemesOf(s)
<1>1. PICK l \in Nat : l = Len(s)
  BY LenProperties
<1>2. PICK m : m = SchemeRun(s) /\ SchemeStops(s, m)
  BY ScanIs
<1>3. /\ m \in 0 .. l /\ \A i \in 1 .. m : IsSchemeChar(s[i])
      /\ m # 0 => IsAlpha(s[1])
      /\ l # 0 /\ IsAlpha(s[1]) /\ m < l => ~IsSchemeChar(s[m + 1])
  BY <1>1, <1>2 DEF SchemeStops
<1>4. HasScheme(s) <=> m \in 1 .. l - 1 /\ s[m + 1] = ":"
  BY <1>1, <1>2 DEF HasScheme
<1>5. ASSUME NEW n \in SchemesOf(s) PROVE m = n /\ HasScheme(s)
  <2>1. /\ n \in 1 .. l - 1 /\ IsAlpha(s[1]) /\ s[n + 1] = ":"
        /\ \A i \in 1 .. n : IsSchemeChar(s[i])
    BY <1>1, GrammarIs DEF SchemesOf
  <2>2. ~(m < n)
    <3> SUFFICES ASSUME m < n PROVE FALSE
      OBVIOUS
    <3>1. m + 1 \in 1 .. n /\ m < l /\ l # 0
      BY <1>3, <2>1
    <3> QED  BY <1>3, <2>1, <3>1
  <2>3. ~(n < m)
    <3> SUFFICES ASSUME n < m PROVE FALSE
      OBVIOUS
    <3>1. n + 1 \in 1 .. m
      BY <1>3, <2>1
    <3>2. IsSchemeChar(":")
      BY <1>3, <2>1, <3>1
    <3> QED  BY <3>2, GrammarIs
  <2>4. m = n
    BY <1>3, <2>1, <2>2, <2>3
  <2> QED  BY <1>4, <2>1, <2>4
<1>6. ASSUME HasScheme(s) PROVE m \in SchemesOf(s)
  <2>1. m \in 1 .. l - 1 /\ s[m + 1] = ":" /\ m # 0
    BY <1>4, <1>6
  <2> QED  BY <1>1, <1>3, <2>1, GrammarIs DEF SchemesOf
<1> QED  BY <1>2, <1>5, <1>6

(* What the encoder left alone was there.                                   *)
LEMMA EncodeIs ==
  ASSUME NEW T, NEW clean \in Seq(T)
  PROVE  /\ PercentEncode(clean) \in Seq(UrlOut)
         /\ \A k \in 0 .. Len(PercentEncode(clean)) :
              (\A i \in 1 .. k : PercentEncode(clean)[i] # "%") =>
                k <= Len(clean) /\ \A i \in 1 .. k : clean[i] = PercentEncode(clean)[i]
<1> DEFINE pieces == [i \in 1 .. Len(clean) |->
                        IF IsSafeUrlChar(clean[i]) THEN <<clean[i]>> ELSE <<"%", "hex">>]
<1>1. PercentEncode(clean) = Joined(pieces)
  BY DEF PercentEncode
<1>2. Len(clean) \in Nat
  BY LenProperties
<1>3. ASSUME NEW i \in 1 .. Len(clean)
      PROVE  /\ pieces[i] \in Seq(UrlOut)
             /\ \/ Len(pieces[i]) = 1 /\ pieces[i][1] = clean[i]
                \/ Len(pieces[i]) = 2 /\ pieces[i][1] = "%"
  <2>1. CASE IsSafeUrlChar(clean[i])
    <3>1. PICK c \in UrlOut : c = clean[i]
      BY <2>1 DEF IsSafeUrlChar, IsSchemeChar, IsAlpha, UrlOut
    <3>2. pieces[i] = <<c>>
      BY <2>1, <3>1
    <3>3. <<c>> \in Seq(UrlOut) /\ Len(<<c>>) = 1 /\ <<c>>[1] = c
      BY Word1
    <3> QED  BY <3>1, <3>2, <3>3, Zenon
  <2>2. CASE ~IsSafeUrlChar(clean[i])
    <3>1. pieces[i] = <<"%", "hex">>
      BY <2>2
    <3>2. "%" \in UrlOut /\ "hex" \in UrlOut
      BY DEF UrlOut
    <3>3. <<"%", "hex">> \in Seq(UrlOut) /\ Len(<<"%", "hex">>) = 2 /\ <<"%", "hex">>[1] = "%"
      BY <3>2, Word2
    <3> QED  BY <3>1, <3>3, Zenon
  <2> QED  BY <2>1, <2>2
<1>4. pieces \in [1 .. Len(clean) -> Seq(UrlOut)]
  <2>1. pieces = [i \in 1 .. Len(clean) |-> pieces[i]]
    OBVIOUS
  <2> HIDE DEF pieces
  <2> QED  BY <1>3, <2>1
<1> HIDE DEF pieces
<1>5. pieces \in Seq(Seq(UrlOut)) /\ Len(pieces) = Len(clean)
  BY <1>2, <1>4, SequenceIs
<1>6. PICK s \in Seq(UrlOut) : s = Joined(pieces) /\ Cut(pieces, s)
  BY <1>5, JoinedIs
<1>7. PICK at : Cuts(at, pieces, s)
  BY <1>6 DEF Cut
<1>8. ASSUME NEW k \in 0 .. Len(s), \A i \in 1 .. k : s[i] # "%"
      PROVE  k <= Len(clean) /\ \A i \in 1 .. k : clean[i] = s[i]
  <2> DEFINE S == {h \in 0 .. k : /\ h <= Len(clean) /\ at[h] = h
                                  /\ \A i \in 1 .. h : clean[i] = s[i]}
  <2>1. k \in Nat /\ Len(s) \in Nat
    BY LenProperties
  <2>2. 0 \in S
    BY <1>2, <1>7, <2>1 DEF Cuts
  <2>3. ASSUME NEW h \in 0 .. k - 1, h \in S PROVE h + 1 \in S
    <3>1. PICK m \in 1 .. k : m = h + 1 /\ m - 1 = h /\ m \in 0 .. k /\ m <= Len(s)
      BY <2>1
    <3>2. h <= Len(clean) /\ at[h] = h /\ \A i \in 1 .. h : clean[i] = s[i]
      BY <2>3
    <3>3. h # Len(clean)
      <4>1. at[Len(clean)] = Len(s)
        BY <1>5, <1>7 DEF Cuts
      <4> QED  BY <2>1, <3>1, <3>2, <4>1
    <3>4. m \in 1 .. Len(clean) /\ m <= Len(clean)
      BY <1>2, <3>1, <3>2, <3>3
    <3>5. at[m] = at[h] + Len(pieces[m]) /\ \A j \in 1 .. Len(pieces[m]) : s[at[h] + j] = pieces[m][j]
      BY <1>5, <1>7, <3>1, <3>4 DEF Cuts
    <3>6. 1 \in 1 .. Len(pieces[m])
      BY <1>3, <3>4
    <3>7. s[m] = pieces[m][1]
      BY <3>1, <3>2, <3>5, <3>6
    <3>8. Len(pieces[m]) = 1 /\ pieces[m][1] = clean[m]
      BY <1>3, <1>8, <3>1, <3>4, <3>7
    <3>9. at[m] = m
      BY <3>1, <3>2, <3>5, <3>8
    <3>10. ASSUME NEW i \in 1 .. m PROVE clean[i] = s[i]
      <4>1. i \in 1 .. h \/ i = m
        BY <3>1
      <4> QED  BY <3>2, <3>7, <3>8, <4>1
    <3> QED  BY <3>1, <3>4, <3>9, <3>10
  <2> HIDE DEF S
  <2>4. \A h \in 0 .. k : h \in S
    BY <2>1, <2>2, <2>3, UpTo
  <2>5. k \in S
    BY <2>1, <2>4
  <2> QED  BY <2>5 DEF S
<1> QED  BY <1>1, <1>6, <1>8

(* A link that is plain is not encoded.                                     *)
LEMMA PlainIs ==
  ASSUME NEW T, NEW text \in Seq(T), \A i \in DOMAIN text : text[i] \in PlainUrlChars
  PROVE  PercentEncode(text) = text /\ CleanUrl(text) = text
         /\ \A i \in DOMAIN text : text[i] # "control"
<1>1. Len(text) \in Nat /\ DOMAIN text = 1 .. Len(text)
  BY LenProperties
<1>2. \A i \in 1 .. Len(text) : /\ text[i] \notin {"tab", "newline"} /\ text[i] # "blank"
                                /\ text[i] # "control" /\ IsSafeUrlChar(text[i])
  BY <1>1 DEF PlainUrlChars, SchemeGrammar, IsSafeUrlChar, IsSchemeChar, IsAlpha
<1>3. WithoutBreaks(text) = text
  BY <1>2, WithoutBreaksIs
<1>4. TrimBlanks(text) = text
  BY <1>2, TrimBlanksIs
<1> DEFINE pieces == [i \in 1 .. Len(text) |->
                        IF IsSafeUrlChar(text[i]) THEN <<text[i]>> ELSE <<"%", "hex">>]
<1>5. PercentEncode(text) = Joined(pieces)
  BY DEF PercentEncode
<1>6. \A i \in 1 .. Len(text) : pieces[i] = <<text[i]>> /\ <<text[i]>> \in Seq(T)
  <2> SUFFICES ASSUME NEW i \in 1 .. Len(text) PROVE pieces[i] = <<text[i]>> /\ <<text[i]>> \in Seq(T)
    OBVIOUS
  <2>1. PICK c \in T : c = text[i]
    BY ElementOfSeq
  <2>2. <<c>> \in Seq(T)
    BY Word1
  <2>3. pieces[i] = <<text[i]>>
    BY <1>2
  <2> QED  BY <2>1, <2>2, <2>3
<1>7. pieces = [i \in 1 .. Len(text) |-> pieces[i]]
  OBVIOUS
<1> HIDE DEF pieces
<1>8. pieces \in [1 .. Len(text) -> Seq(T)]
  BY <1>6, <1>7
<1>9. pieces \in Seq(Seq(T)) /\ Len(pieces) = Len(text)
  BY <1>1, <1>8, SequenceIs
<1>10. Joined(pieces) = text
  BY <1>6, <1>9, OnesAre
<1> QED  BY <1>1, <1>2, <1>3, <1>4, <1>5, <1>10 DEF CleanUrl

(* "#" has neither a scheme nor a host.                                     *)
LEMMA HashIs == LeadsToTheWeb(<<"#">>) /\ <<"#">> \in Seq(UrlOut)
<1>1. "#" \in UrlOut
  BY DEF UrlOut
<1>2. PICK s : s = <<"#">>
  OBVIOUS
<1>3. s \in Seq(UrlOut) /\ Len(s) = 1
  BY <1>1, <1>2, Word1
<1>4. SchemesOf(s) = {}
  BY <1>3 DEF SchemesOf
<1>5. LeadsToTheWeb(s)
  BY <1>3, <1>4 DEF LeadsToTheWeb
<1> QED  BY <1>2, <1>3, <1>5

(* The empty link has neither.                                             *)
LEMMA NoLinkIs == LeadsToTheWeb(<<>>) /\ <<>> \in Seq(UrlOut)
<1>1. PICK s : s = <<>>
  OBVIOUS
<1>2. s \in Seq(UrlOut) /\ Len(s) = 0
  BY <1>1
<1>3. SchemesOf(s) = {}
  BY <1>2 DEF SchemesOf
<1>4. LeadsToTheWeb(s)
  BY <1>2, <1>3 DEF LeadsToTheWeb
<1> QED  BY <1>1, <1>2, <1>4

(* What a text starts with, as far as the encoder left it alone.            *)
LEMMA SubSeqSame ==
  ASSUME NEW n \in Nat, n >= 1, NEW S, NEW U, NEW s \in Seq(S), NEW c \in Seq(U), n <= Len(s), n <= Len(c),
         \A i \in 1 .. n : c[i] = s[i]
  PROVE  SubSeq(c, 1, n) = SubSeq(s, 1, n)
<1>1. Len(s) \in Nat /\ Len(c) \in Nat
  BY LenProperties
<1>2. \A i \in 1 .. n : s[i] \in S /\ c[i] \in S
  <2>1. \A i \in 1 .. n : i \in 1 .. Len(s)
    BY <1>1
  <2> QED  BY <2>1, ElementOfSeq
<1>3. PICK a \in Seq(S) : a = SubSeq(s, 1, n) /\ Len(a) = n /\ \A i \in 1 .. n : a[i] = s[i]
  <2>1. /\ SubSeq(s, 1, n) \in Seq(S)
        /\ Len(SubSeq(s, 1, n)) = IF 1 <= n THEN n - 1 + 1 ELSE 0
        /\ \A i \in 1 .. n - 1 + 1 : SubSeq(s, 1, n)[i] = s[1 + i - 1]
    BY <1>2, SubSeqProperties
  <2>2. 1 <= n /\ n - 1 + 1 = n /\ \A i \in 1 .. n : 1 + i - 1 = i
    OBVIOUS
  <2> QED  BY <2>1, <2>2, Zenon
<1>4. PICK b \in Seq(S) : b = SubSeq(c, 1, n) /\ Len(b) = n /\ \A i \in 1 .. n : b[i] = c[i]
  <2>1. /\ SubSeq(c, 1, n) \in Seq(S)
        /\ Len(SubSeq(c, 1, n)) = IF 1 <= n THEN n - 1 + 1 ELSE 0
        /\ \A i \in 1 .. n - 1 + 1 : SubSeq(c, 1, n)[i] = c[1 + i - 1]
    BY <1>2, SubSeqProperties
  <2>2. 1 <= n /\ n - 1 + 1 = n /\ \A i \in 1 .. n : 1 + i - 1 = i
    OBVIOUS
  <2> QED  BY <2>1, <2>2, Zenon
<1>5. a = b
  BY <1>3, <1>4, SeqEqual
<1> QED  BY <1>3, <1>4, <1>5

(* The scheme and the host that were checked are the ones that are seen.    *)
LEMMA AllowedIs ==
  ASSUME NEW T, NEW clean \in Seq(T), UrlAllowed(clean)
  PROVE  LeadsToTheWeb(PercentEncode(clean))
<1>1. PICK s \in Seq(UrlOut) : s = PercentEncode(clean)
  BY EncodeIs
<1>2. ASSUME NEW k \in 0 .. Len(s), \A i \in 1 .. k : s[i] # "%"
      PROVE  k <= Len(clean) /\ \A i \in 1 .. k : clean[i] = s[i]
  BY <1>1, <1>2, EncodeIs
<1>3. Len(s) \in Nat /\ Len(clean) \in Nat
  BY LenProperties
<1>4. ASSUME NEW n \in SchemesOf(s)
      PROVE  SubSeq(s, 1, n) \in {<<"http">>, <<"http", "s">>}
  <2>1. /\ n \in 1 .. Len(s) - 1 /\ s[1] \in SchemeGrammar.first /\ s[n + 1] = ":"
        /\ \A i \in 1 .. n : s[i] \in SchemeGrammar.rest
    BY DEF SchemesOf
  <2>2. ASSUME NEW i \in 1 .. n + 1 PROVE s[i] # "%"
    <3>1. i \in 1 .. n \/ i = n + 1
      BY <2>1
    <3>2. "%" \notin SchemeGrammar.rest /\ ":" # "%"
      BY DEF SchemeGrammar
    <3> QED  BY <2>1, <3>1, <3>2
  <2>3. n + 1 \in 0 .. Len(s) /\ n \in Nat /\ n >= 1 /\ n <= Len(s)
    BY <1>3, <2>1
  <2>4. n + 1 <= Len(clean) /\ \A i \in 1 .. n + 1 : clean[i] = s[i]
    BY <1>2, <2>2, <2>3
  <2>5. /\ 1 \in 1 .. n + 1 /\ n + 1 \in 1 .. n + 1 /\ n \in 1 .. Len(clean) - 1 /\ n <= Len(clean)
        /\ \A i \in 1 .. n : i \in 1 .. n + 1
    BY <1>3, <2>1, <2>4
  <2>6. n \in SchemesOf(clean)
    BY <2>1, <2>4, <2>5 DEF SchemesOf
  <2>7. HasScheme(clean) /\ SchemeRun(clean) = n
    BY <2>6, SchemeIs
  <2>8. SubSeq(clean, 1, n) \in {<<"http">>, <<"http", "s">>}
    BY <2>7 DEF UrlAllowed
  <2>9. \A i \in 1 .. n : clean[i] = s[i]
    BY <2>4, <2>5
  <2>10. SubSeq(clean, 1, n) = SubSeq(s, 1, n)
    BY <2>3, <2>5, <2>9, SubSeqSame
  <2> QED  BY <2>8, <2>10
<1>5. ASSUME Len(s) >= 2, {s[1], s[2]} \subseteq {"/", "backslash"} PROVE FALSE
  <2>1. s[1] \in UrlOut /\ s[2] \in UrlOut
    BY <1>3, <1>5, ElementOfSeq
  <2>2. s[1] = "/" /\ s[2] = "/"
    BY <1>5, <2>1 DEF UrlOut
  <2>3. \A i \in 1 .. 2 : s[i] # "%"
    BY <2>2
  <2>4. 2 \in 0 .. Len(s)
    BY <1>3, <1>5
  <2>5. 2 <= Len(clean) /\ clean[1] = "/" /\ clean[2] = "/"
    BY <1>2, <2>2, <2>3, <2>4
  <2>6. ~HasScheme(clean)
    <3> SUFFICES ASSUME HasScheme(clean) PROVE FALSE
      OBVIOUS
    <3>1. SchemeRun(clean) \in SchemesOf(clean)
      BY SchemeIs
    <3>2. clean[1] \in SchemeGrammar.first
      BY <3>1 DEF SchemesOf
    <3> QED  BY <2>5, <3>2 DEF SchemeGrammar
  <2> QED  BY <1>3, <2>5, <2>6 DEF UrlAllowed
<1>6. LeadsToTheWeb(s)
  BY <1>4, <1>5, Zenon DEF LeadsToTheWeb
<1> QED  BY <1>1, <1>6

(* cytadel_escape_url, for any text.                                        *)
LEMMA LinkIs ==
  ASSUME NEW T, NEW text \in Seq(T)
  PROVE  LeadsToTheWeb(EscapeUrl(text)) /\ EscapeUrl(text) \in Seq(UrlOut)
<1>1. WithoutBreaks(text) \in Seq(T)
  BY WithoutBreaksIs
<1>2. CleanUrl(text) \in Seq(T)
  BY <1>1, TrimBlanksIs DEF CleanUrl
<1>3. PICK clean \in Seq(T) : clean = CleanUrl(text)
  BY <1>2
<1>4. \/ EscapeUrl(text) = <<>>
      \/ EscapeUrl(text) = <<"#">>
      \/ UrlAllowed(clean) /\ EscapeUrl(text) = PercentEncode(clean)
  BY <1>3 DEF EscapeUrl
<1>5. CASE EscapeUrl(text) = <<>>
  BY <1>5, NoLinkIs
<1>6. CASE EscapeUrl(text) = <<"#">>
  BY <1>6, HashIs
<1>7. CASE UrlAllowed(clean) /\ EscapeUrl(text) = PercentEncode(clean)
  BY <1>7, AllowedIs, EncodeIs
<1> QED  BY <1>4, <1>5, <1>6, <1>7

(* A good link is written as it is.                                         *)
LEMMA GoodLinkIs ==
  ASSUME NEW T, NEW text \in Seq(T), LeadsToTheWeb(text),
         \A i \in DOMAIN text : text[i] \in PlainUrlChars
  PROVE  EscapeUrl(text) = text
<1>1. PercentEncode(text) = text /\ CleanUrl(text) = text /\ ~\E i \in DOMAIN text : text[i] = "control"
  BY PlainIs
<1>2. UrlAllowed(text)
  <2>1. CASE HasScheme(text)
    <3>1. SchemeRun(text) \in SchemesOf(text)
      BY <2>1, SchemeIs
    <3>2. SubSeq(text, 1, SchemeRun(text)) \in {<<"http">>, <<"http", "s">>}
      BY <3>1, Zenon DEF LeadsToTheWeb
    <3> QED  BY <2>1, <3>2 DEF UrlAllowed
  <2>2. CASE ~HasScheme(text)
    <3>1. ~(Len(text) >= 2 /\ {text[1], text[2]} \subseteq {"/", "backslash"})
      BY DEF LeadsToTheWeb
    <3> QED  BY <2>2, <3>1 DEF UrlAllowed
  <2> QED  BY <2>1, <2>2
<1>3. CASE text = <<>>
  BY <1>3 DEF EscapeUrl
<1>4. CASE text # <<>>
  BY <1>1, <1>2, <1>4 DEF EscapeUrl
<1> QED  BY <1>3, <1>4

(* What the last call was made with, and that it returned what the escapers *)
(* give.                                                                    *)
EscapeInv ==
  /\ call.op = "escape" =>
       /\ call.text \in Seq(HtmlChars)
       /\ result = [body |-> EscapeHtml(call.text, FALSE), attr |-> EscapeHtml(call.text, TRUE),
                    json |-> EscapeJson(call.text)]
  /\ call.op = "link" => call.text \in Seq(UrlChars) /\ result = EscapeUrl(call.text)
  /\ call.op = "reserve" =>
       /\ call.cap \in 0 .. SizeMax /\ call.extra \in 0 .. SizeMax /\ call.len \in 0 .. call.cap
       /\ call.cap = 0 \/ call.len < call.cap
       /\ call.granted \in BOOLEAN
       /\ result = Reserve(call.len, call.cap, call.extra, call.granted)

(* It holds after every call.                                               *)
LEMMA EscapeInvariant == ReportSpec => []EscapeInv
<1>1. CallInit => EscapeInv
  BY DEF CallInit, Idle, EscapeInv
<1>2. EscapeInv /\ [ReportNext \/ call'.op \notin {"escape", "link", "reserve"}]_<<call, result>>
        => EscapeInv'
  <2> SUFFICES ASSUME EscapeInv,
                      [ReportNext \/ call'.op \notin {"escape", "link", "reserve"}]_<<call, result>>
               PROVE  EscapeInv'
    OBVIOUS
  <2>1. CASE Escape
    <3>1. PICK text \in SeqsUpTo(HtmlChars, MaxText) :
            /\ call' = [op |-> "escape", text |-> text]
            /\ result' = [body |-> EscapeHtml(text, FALSE), attr |-> EscapeHtml(text, TRUE),
                          json |-> EscapeJson(text)]
      BY <2>1 DEF Escape, Called
    <3>2. text \in Seq(HtmlChars)
      BY ReportCallsAssumption DEF SeqsUpTo
    <3>3. call'.op = "escape" /\ call'.text = text
      BY <3>1
    <3>4. result' = [body |-> EscapeHtml(call'.text, FALSE), attr |-> EscapeHtml(call'.text, TRUE),
                     json |-> EscapeJson(call'.text)]
      BY <3>1, <3>3, Zenon
    <3> QED  BY <3>2, <3>3, <3>4 DEF EscapeInv
  <2>2. CASE EscapeLink
    <3>1. PICK text \in SeqsUpTo(UrlChars, MaxText) :
            call' = [op |-> "link", text |-> text] /\ result' = EscapeUrl(text)
      BY <2>2 DEF EscapeLink, Called
    <3>2. text \in Seq(UrlChars)
      BY ReportCallsAssumption DEF SeqsUpTo
    <3>3. call'.op = "link" /\ call'.text = text
      BY <3>1
    <3> QED  BY <3>1, <3>2, <3>3 DEF EscapeInv
  <2>3. CASE ReserveRoom
    <3>1. PICK cap \in 0 .. SizeMax, extra \in 0 .. SizeMax, granted \in BOOLEAN :
            \E len \in 0 .. cap :
              /\ cap = 0 \/ len < cap
              /\ call' = [op |-> "reserve", len |-> len, cap |-> cap, extra |-> extra,
                          granted |-> granted]
              /\ result' = Reserve(len, cap, extra, granted)
      BY <2>3 DEF ReserveRoom, Called
    <3>2. PICK len \in 0 .. cap :
              /\ cap = 0 \/ len < cap
              /\ call' = [op |-> "reserve", len |-> len, cap |-> cap, extra |-> extra,
                          granted |-> granted]
              /\ result' = Reserve(len, cap, extra, granted)
      BY <3>1
    <3>3. /\ call'.op = "reserve" /\ call'.len = len /\ call'.cap = cap /\ call'.extra = extra
          /\ call'.granted = granted
      BY <3>2
    <3> QED  BY <3>2, <3>3 DEF EscapeInv
  <2>4. CASE call'.op \notin {"escape", "link", "reserve"}
    BY <2>4 DEF EscapeInv
  <2>5. CASE UNCHANGED <<call, result>>
    BY <2>5 DEF EscapeInv
  <2> QED  BY <2>1, <2>2, <2>3, <2>4, <2>5 DEF ReportNext
<1> QED  BY <1>1, <1>2, PTL DEF ReportSpec

(* escape.c: for texts of any characters and any length, a report's text is *)
(* read back whole and cannot leave its place, a link stays http or         *)
(* relative, and a reserved buffer is large enough, for every size_t.       *)
THEOREM ReportHolds == ReportSpec => []ReportIsFaithful
<1>1. EscapeInv => EscapedTextIsKept
  <2> SUFFICES ASSUME EscapeInv, call.op = "escape" PROVE EscapedTextIsKept
    BY DEF EscapedTextIsKept
  <2>1. PICK text : text = call.text /\ text \in Seq(Chars)
    <3>1. call.text \in Seq(HtmlChars)
      BY DEF EscapeInv
    <3>2. HtmlChars \subseteq Chars
      BY DEF Chars
    <3> QED  BY <3>1, <3>2, SeqMonotonic
  <2>2. /\ result.body = EscapeHtml(text, FALSE) /\ result.attr = EscapeHtml(text, TRUE)
        /\ result.json = EscapeJson(text)
    <3>1. PICK b, a, j : b = EscapeHtml(text, FALSE) /\ a = EscapeHtml(text, TRUE) /\ j = EscapeJson(text)
      BY Zenon
    <3>2. result = [body |-> b, attr |-> a, json |-> j]
      BY <2>1, <3>1, Zenon DEF EscapeInv
    <3>3. result.body = b /\ result.attr = a /\ result.json = j
      BY <3>2
    <3> QED  BY <3>1, <3>3, Zenon
  <2>3. Decodes(HtmlCode, result.body, text) /\ Lacks(result.body, {"<", ">"})
    BY <2>1, <2>2, HtmlIs
  <2>4. Decodes(HtmlCode, result.attr, text) /\ Lacks(result.attr, {"<", ">", "quote", "apos"})
    BY <2>1, <2>2, HtmlIs
  <2>5. /\ Decodes(JsonCode, result.json, text)
        /\ Lacks(result.json, {"newline", "tab", "control"})
        /\ \A i \in DOMAIN result.json :
             result.json[i] = "quote" => i > 1 /\ result.json[i - 1] = "backslash"
    BY <2>1, <2>2, JsonIs, Zenon
  <2> QED  BY <2>1, <2>3, <2>4, <2>5, Zenon DEF EscapedTextIsKept
<1>2. EscapeInv => LinkStaysHttp
  <2> SUFFICES ASSUME EscapeInv, call.op = "link" PROVE LinkStaysHttp
    BY DEF LinkStaysHttp
  <2>1. call.text \in Seq(UrlChars) /\ result = EscapeUrl(call.text)
    BY DEF EscapeInv
  <2>2. LeadsToTheWeb(result) /\ result \in Seq(UrlOut)
    BY <2>1, LinkIs
  <2>3. Lacks(result, SkippedByBrowser \cup EndsAttribute)
    <3>1. \A i \in DOMAIN result : result[i] \in UrlOut
      BY <2>2, LenProperties, ElementOfSeq
    <3> QED  BY <3>1, UrlOutIs DEF Lacks
  <2>4. LeadsToTheWeb(call.text) /\ (\A i \in DOMAIN call.text : call.text[i] \in PlainUrlChars)
          => result = call.text
    BY <2>1, GoodLinkIs
  <2> QED  BY <2>2, <2>3, <2>4, Zenon DEF LinkStaysHttp
<1>3. EscapeInv => RoomIsEnough
  <2> SUFFICES ASSUME EscapeInv, call.op = "reserve" PROVE RoomIsEnough
    BY DEF RoomIsEnough
  <2>1. PICK cap \in 0 .. SizeMax, extra \in 0 .. SizeMax : cap = call.cap /\ extra = call.extra
    BY DEF EscapeInv
  <2>2. PICK len \in 0 .. cap, granted \in BOOLEAN :
          /\ len = call.len /\ granted = call.granted /\ (cap = 0 \/ len < cap)
          /\ result = Reserve(len, cap, extra, granted)
    BY <2>1 DEF EscapeInv
  <2>3. /\ result # 0 => result \in (len + 1 + extra) .. SizeMax
        /\ result = 0 => len + 1 + extra > SizeMax \/ (~granted /\ len + 1 + extra > cap)
    BY <2>2, ReserveIs
  <2> QED  BY <2>1, <2>2, <2>3 DEF RoomIsEnough
<1>4. EscapeInv => ReportIsFaithful
  BY <1>1, <1>2, <1>3 DEF ReportIsFaithful
<1> QED  BY <1>4, EscapeInvariant, PTL

=============================================================================
