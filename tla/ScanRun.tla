------------------------------ MODULE ScanRun ------------------------------
(***************************************************************************)
(* A scan from its authorization to its final status: main() of            *)
(* src/cli/main.c, scan_wiring.c and scan_persist.c, next to the other     *)
(* processes that use the same SQLite file: further scans, a sync that     *)
(* commits pages of CVE data (nvd_ingest.c) and a report (report_cmd.c).   *)
(*                                                                         *)
(* The file is in WAL mode: one writer at a time (lock), readers see the   *)
(* last commit before their first read, and a transaction that has read    *)
(* may go on to write only if nobody holds the lock and nobody committed   *)
(* since (otherwise SQLITE_BUSY at once, without the busy timeout).        *)
(***************************************************************************)
EXTENDS Integers, FiniteSets

CONSTANTS
  Scan,      \* the scans run against this file, each by a process of its own
  Hosts,     \* targets of a scan
  Findings,  \* plugin findings of a host that is up
  Ports,     \* open ports of a host that is up
  Page,      \* what the syncs may commit, each a set of CVE numbers
  Malformed, \* CVEs whose match rows are all malformed: no verdict
  Failure,   \* which of "disk", "timeout", "kill" can happen
  Sync, Free \* two holders of the write lock that are no scan

ASSUME ScanAssumption ==
  /\ Hosts \in Nat /\ Findings \in Nat /\ Ports \in Nat
  /\ Page \subseteq SUBSET (Nat \ {0})
  /\ Failure \subseteq {"disk", "timeout", "kill"}
  /\ Sync \notin Scan /\ Free \notin Scan /\ Sync # Free

Host  == 1..Hosts
Units == Findings + Ports
Unit  == 1..Units            \* the findings, then the ports
Cve   == UNION Page
Row   == Host \X Unit \X (Cve \cup {0})   \* 0: the row of a finding
Ended == {"success", "failure", "killed"}

VARIABLES
  \* the database
  status,   \* status[s]: scans.status, "none" before the row exists
  rows,     \* rows[s]: committed scan_results rows
  mirror,   \* the CVEs cve_cpe_matches has for the products scanned
  seen,     \* every value mirror has had
  lock,     \* holder of the write lock
  \* the scan processes
  pc,       \* pc[s]: where main() is; the exit status once it has ended
  host,     \* host[s]: loop variable of main's loop over the results
  unit,     \* unit[s]: position in persist_host's two loops
  outcome,  \* outcome[s][h]: what the worker pool left in results[h]
  poolOk,   \* poolOk[s]: pool_rc == 0, and every set-up step before it
  dbOk,     \* dbOk[s]: db_ok
  todo,     \* todo[s]: CVE groups the candidate SELECT has still to yield
  pend,     \* pend[s]: rows inserted by the open transaction
  stale,    \* stale[s]: somebody committed since s's SELECT
  skipped,  \* skipped[s]: units logged and not stored
  done,     \* done[s]: units whose transaction has committed
  \* the others
  page,     \* what the running sync has written and not committed
  report    \* the running report

db   == <<status, rows, mirror, seen, lock>>
loop == <<host, unit, outcome, poolOk, dbOk>>
txn  == <<todo, pend, stale>>
vars == <<db, pc, loop, txn, skipped, done, page, report>>

NoReport == [pc |-> "idle"]
Report ==
  {NoReport}
  \cup [pc : {"header"}, scan : Scan]
  \cup [pc : {"summary"}, scan : Scan, status : {"running", "completed", "failed"}]
  \cup [pc : {"body"}, scan : Scan, status : {"running", "completed", "failed"},
        counted : SUBSET Row]
  \cup [pc : {"written"}, scan : Scan, status : {"running", "completed", "failed"},
        counted : SUBSET Row, listed : SUBSET Row]

TypeOK ==
  /\ status \in [Scan -> {"none", "running", "completed", "failed"}]
  /\ rows \in [Scan -> SUBSET Row]
  /\ mirror \subseteq Cve /\ seen \subseteq SUBSET Cve
  /\ lock \in Scan \cup {Sync, Free}
  /\ pc \in [Scan -> {"start", "setup", "pool", "persist", "finding", "detect", "finalize"} \cup Ended]
  /\ host \in [Scan -> 1..(Hosts + 1)]
  /\ unit \in [Scan -> 1..(Units + 1)]
  /\ outcome \in [Scan -> [Host -> {"unscanned", "error", "down", "up"}]]
  /\ poolOk \in [Scan -> BOOLEAN] /\ dbOk \in [Scan -> BOOLEAN]
  /\ todo \in [Scan -> SUBSET Cve] /\ pend \in [Scan -> SUBSET Row]
  /\ stale \in [Scan -> BOOLEAN]
  /\ skipped \in [Scan -> SUBSET (Host \X Unit)]
  /\ done \in [Scan -> SUBSET (Host \X Unit)]
  /\ page \subseteq Cve
  /\ report \in Report

Init ==
  /\ status = [s \in Scan |-> "none"] /\ rows = [s \in Scan |-> {}]
  /\ mirror = {} /\ seen = {{}} /\ lock = Free
  /\ pc = [s \in Scan |-> "start"]
  /\ host = [s \in Scan |-> 1] /\ unit = [s \in Scan |-> 1]
  /\ outcome = [s \in Scan |-> [h \in Host |-> "unscanned"]]
  /\ poolOk = [s \in Scan |-> FALSE] /\ dbOk = [s \in Scan |-> TRUE]
  /\ todo = [s \in Scan |-> {}] /\ pend = [s \in Scan |-> {}]
  /\ stale = [s \in Scan |-> FALSE]
  /\ skipped = [s \in Scan |-> {}] /\ done = [s \in Scan |-> {}]
  /\ page = {} /\ report = NoReport

At(s)        == <<host[s], unit[s]>>
IsFinding(s) == unit[s] <= Findings

(* A commit makes the snapshot of every transaction that has read stale.   *)
CommitBy(s) == stale' = [t \in Scan |-> stale[t] \/ (t # s /\ pc[t] = "detect")]

(* A write can fail: the disk, or the lock was not free for 5 seconds.     *)
WriteCanFail == "disk" \in Failure \/ (lock # Free /\ "timeout" \in Failure)

----------------------------------------------------------------------------
(* main(), up to the worker pool.                                          *)

(* The scan is authorized and open_gate leaves a 'running' row behind.     *)
OpenGate(s) ==
  /\ pc[s] = "start"
  /\ lock = Free
  /\ status' = [status EXCEPT ![s] = "running"]
  /\ CommitBy(s)
  /\ pc' = [pc EXCEPT ![s] = "setup"]
  /\ UNCHANGED <<rows, mirror, seen, lock, loop, todo, pend, skipped, done, page, report>>

(* Authorization refused, no database path, or open, migrate or create     *)
(* failed: no row, and nothing is scanned.                                 *)
GateRefuses(s) ==
  /\ pc[s] = "start"
  /\ pc' = [pc EXCEPT ![s] = "failure"]
  /\ UNCHANGED <<db, loop, txn, skipped, done, page, report>>

Setup(s) ==
  /\ pc[s] = "setup"
  /\ pc' = [pc EXCEPT ![s] = "pool"]
  /\ UNCHANGED <<db, loop, txn, skipped, done, page, report>>

(* Bad targets, ports or plugin directory, or no memory: abort_and_close.  *)
SetupFails(s) ==
  /\ pc[s] = "setup"
  /\ pc' = [pc EXCEPT ![s] = "finalize"]
  /\ UNCHANGED <<db, loop, txn, skipped, done, page, report>>

(* Mutant: the row is finalized as soon as the pool has returned.          *)
PoolFinalizes(s) ==
  /\ pc[s] = "pool"
  /\ \E o \in [Host -> {"unscanned", "error", "down", "up"}], ok \in BOOLEAN :
       /\ ok => \A h \in Host : o[h] # "unscanned"
       /\ outcome' = [outcome EXCEPT ![s] = o]
       /\ poolOk' = [poolOk EXCEPT ![s] = ok]
       /\ status' = [status EXCEPT ![s] = IF ok THEN "completed" ELSE "failed"]
  /\ pc' = [pc EXCEPT ![s] = "persist"]
  /\ UNCHANGED <<rows, mirror, seen, lock, host, unit, dbOk, txn, skipped, done, page, report>>

(* cytadel_worker_pool_run: a pool that returns 0 has scanned every target *)
(* (SuccessIsComplete of WorkerPool); otherwise some may be untouched.     *)
Pool(s) ==
  /\ pc[s] = "pool"
  /\ \E o \in [Host -> {"unscanned", "error", "down", "up"}], ok \in BOOLEAN :
       /\ ok => \A h \in Host : o[h] # "unscanned"
       /\ outcome' = [outcome EXCEPT ![s] = o]
       /\ poolOk' = [poolOk EXCEPT ![s] = ok]
  /\ pc' = [pc EXCEPT ![s] = "persist"]
  /\ UNCHANGED <<db, host, unit, dbOk, txn, skipped, done, page, report>>

----------------------------------------------------------------------------
(* The loop over the results and persist_host.                             *)

Persisting(s) == pc[s] = "persist" /\ host[s] \in Host

(* The host has units left for persist_host to work through.               *)
HasWork(s) == dbOk[s] /\ outcome[s][host[s]] = "up" /\ unit[s] \in Unit

(* Mutant: the loop waits for db_ok instead of passing the host over.      *)
NextHostIfOk(s) ==
  /\ Persisting(s) /\ dbOk[s] /\ ~HasWork(s)
  /\ host' = [host EXCEPT ![s] = @ + 1]
  /\ unit' = [unit EXCEPT ![s] = 1]
  /\ UNCHANGED <<db, pc, outcome, poolOk, dbOk, txn, skipped, done, page, report>>

(* The host was errored, unscanned or down, or is finished, or a database  *)
(* error has ended persistence for this scan.                              *)
NextHost(s) ==
  /\ Persisting(s) /\ ~HasWork(s)
  /\ host' = [host EXCEPT ![s] = @ + 1]
  /\ unit' = [unit EXCEPT ![s] = 1]
  /\ UNCHANGED <<db, pc, outcome, poolOk, dbOk, txn, skipped, done, page, report>>

LoopEnds(s) ==
  /\ pc[s] = "persist" /\ host[s] = Hosts + 1
  /\ pc' = [pc EXCEPT ![s] = "finalize"]
  /\ UNCHANGED <<db, loop, txn, skipped, done, page, report>>

(* A finding that cannot be a row, or a port whose service has no vendor,  *)
(* product and version: logged and passed over.                            *)
SkipUnit(s) ==
  /\ Persisting(s) /\ HasWork(s)
  /\ skipped' = [skipped EXCEPT ![s] = @ \cup {At(s)}]
  /\ unit' = [unit EXCEPT ![s] = @ + 1]
  /\ UNCHANGED <<db, pc, host, outcome, poolOk, dbOk, txn, done, page, report>>

(* ERR_DB: persist_host returns and main clears db_ok.                     *)
PersistFails(s) ==
  /\ dbOk' = [dbOk EXCEPT ![s] = FALSE]
  /\ pend' = [pend EXCEPT ![s] = {}] /\ todo' = [todo EXCEPT ![s] = {}]
  /\ stale' = [stale EXCEPT ![s] = FALSE]
  /\ lock' = IF lock = s THEN Free ELSE lock
  /\ pc' = [pc EXCEPT ![s] = "persist"]
  /\ UNCHANGED <<status, rows, mirror, seen, host, unit, outcome, poolOk, skipped, done, page, report>>

(* cytadel_scan_persist_finding.  Its reads are transactions of their own, *)
(* so its first write waits for the lock.                                  *)
BeginFinding(s) ==
  /\ Persisting(s) /\ HasWork(s) /\ IsFinding(s)
  /\ lock = Free
  /\ lock' = s
  /\ pend' = [pend EXCEPT ![s] = {<<host[s], unit[s], 0>>}]
  /\ pc' = [pc EXCEPT ![s] = "finding"]
  /\ UNCHANGED <<status, rows, mirror, seen, loop, todo, stale, skipped, done, page, report>>

BeginFindingFails(s) ==
  /\ Persisting(s) /\ HasWork(s) /\ IsFinding(s)
  /\ WriteCanFail
  /\ PersistFails(s)

(* COMMIT, by persist_finding or detect_and_persist.                       *)
Commit(s) ==
  /\ lock' = Free
  /\ rows' = [rows EXCEPT ![s] = @ \cup pend[s]]
  /\ pend' = [pend EXCEPT ![s] = {}]
  /\ CommitBy(s)
  /\ done' = [done EXCEPT ![s] = @ \cup {At(s)}]
  /\ unit' = [unit EXCEPT ![s] = @ + 1]
  /\ pc' = [pc EXCEPT ![s] = "persist"]
  /\ UNCHANGED <<status, mirror, seen, host, outcome, poolOk, dbOk, todo, skipped, page, report>>

CommitFinding(s) == pc[s] = "finding" /\ Commit(s)

(* A constraint rejects the placeholder or the row: ROW_SKIPPED.           *)
RejectFinding(s) ==
  /\ pc[s] = "finding"
  /\ lock' = Free
  /\ pend' = [pend EXCEPT ![s] = {}]
  /\ skipped' = [skipped EXCEPT ![s] = @ \cup {At(s)}]
  /\ unit' = [unit EXCEPT ![s] = @ + 1]
  /\ pc' = [pc EXCEPT ![s] = "persist"]
  /\ UNCHANGED <<status, rows, mirror, seen, host, outcome, poolOk, dbOk, todo, stale, done, page, report>>

(* cytadel_scan_detect_and_persist: BEGIN, and the candidate SELECT, which *)
(* fixes what the transaction sees.                                        *)
BeginDetect(s) ==
  /\ Persisting(s) /\ HasWork(s) /\ ~IsFinding(s)
  /\ todo' = [todo EXCEPT ![s] = mirror]
  /\ stale' = [stale EXCEPT ![s] = FALSE]
  /\ pc' = [pc EXCEPT ![s] = "detect"]
  /\ UNCHANGED <<db, loop, pend, skipped, done, page, report>>

(* The transaction holds the write lock, or may take it now.               *)
MayWrite(s) == lock = s \/ (lock = Free /\ ~stale[s])

NextGroup(s, c) == c \in todo[s] /\ \A d \in todo[s] : c <= d

(* What comes next in the transaction is a write.                          *)
Writes(s) == todo[s] = {} \/ \E c \in Cve \ Malformed : NextGroup(s, c)

(* Mutant: without BEGIN every INSERT commits by itself.                   *)
FlushGroupAutocommit(s, c) ==
  /\ pc[s] = "detect" /\ NextGroup(s, c)
  /\ todo' = [todo EXCEPT ![s] = @ \ {c}]
  /\ IF c \in Malformed THEN UNCHANGED rows
     ELSE lock = Free /\ rows' = [rows EXCEPT ![s] = @ \cup {<<host[s], unit[s], c>>}]
  /\ UNCHANGED <<status, mirror, seen, lock, pc, loop, pend, stale, skipped, done, page, report>>

(* flush_group: a group with a verdict becomes a row, one without any is   *)
(* only counted.                                                           *)
FlushGroup(s, c) ==
  /\ pc[s] = "detect" /\ NextGroup(s, c)
  /\ todo' = [todo EXCEPT ![s] = @ \ {c}]
  /\ IF c \in Malformed THEN UNCHANGED <<lock, pend>>
     ELSE /\ MayWrite(s)
          /\ lock' = s
          /\ pend' = [pend EXCEPT ![s] = @ \cup {<<host[s], unit[s], c>>}]
  /\ UNCHANGED <<status, rows, mirror, seen, pc, loop, stale, skipped, done, page, report>>

(* The update of malformed_data_count, a write in any case, and COMMIT.    *)
CommitDetect(s) ==
  /\ pc[s] = "detect" /\ todo[s] = {}
  /\ MayWrite(s)
  /\ Commit(s)

(* The transaction cannot become a writer, or the disk failed: ROLLBACK.   *)
DetectFails(s) ==
  /\ pc[s] = "detect"
  /\ (Writes(s) /\ ~MayWrite(s)) \/ "disk" \in Failure
  /\ PersistFails(s)

FindingFails(s) == pc[s] = "finding" /\ "disk" \in Failure /\ PersistFails(s)

----------------------------------------------------------------------------
(* The end of main().                                                      *)

(* Mutant: a database error does not count.                                *)
CleanIfPoolOk(s) == poolOk[s]

(* pool_rc == 0 && db_ok, which decides the status and the exit status.    *)
Clean(s) == poolOk[s] /\ dbOk[s]

ExitWith(s) == pc' = [pc EXCEPT ![s] = IF Clean(s) THEN "success" ELSE "failure"]

Finalize(s) ==
  /\ pc[s] = "finalize"
  /\ lock = Free
  /\ status' = [status EXCEPT ![s] = IF Clean(s) THEN "completed" ELSE "failed"]
  /\ CommitBy(s)
  /\ ExitWith(s)
  /\ UNCHANGED <<rows, mirror, seen, lock, loop, todo, pend, skipped, done, page, report>>

(* The update failed: logged, and the row stays 'running'.                 *)
FinalizeFails(s) ==
  /\ pc[s] = "finalize"
  /\ WriteCanFail
  /\ ExitWith(s)
  /\ UNCHANGED <<db, loop, txn, skipped, done, page, report>>

(* The process dies; its open transaction with it.                         *)
Kill(s) ==
  /\ "kill" \in Failure
  /\ pc[s] \notin Ended
  /\ pc' = [pc EXCEPT ![s] = "killed"]
  /\ lock' = IF lock = s THEN Free ELSE lock
  /\ pend' = [pend EXCEPT ![s] = {}] /\ todo' = [todo EXCEPT ![s] = {}]
  /\ stale' = [stale EXCEPT ![s] = FALSE]
  /\ UNCHANGED <<status, rows, mirror, seen, loop, skipped, done, page, report>>

----------------------------------------------------------------------------
(* The other users of the file.                                            *)

(* A sync writes a page in one transaction.                                *)
SyncBegin(p) ==
  /\ lock = Free
  /\ lock' = Sync
  /\ page' = p
  /\ UNCHANGED <<status, rows, mirror, seen, pc, loop, txn, skipped, done, report>>

SyncCommit ==
  /\ lock = Sync
  /\ lock' = Free
  /\ mirror' = mirror \cup page
  /\ seen' = seen \cup {mirror \cup page}
  /\ page' = {}
  /\ CommitBy(Sync)
  /\ UNCHANGED <<status, rows, pc, loop, todo, pend, skipped, done, report>>

SyncRollback ==
  /\ lock = Sync
  /\ lock' = Free
  /\ page' = {}
  /\ UNCHANGED <<status, rows, mirror, seen, pc, loop, txn, skipped, done, report>>

(* A report resolves its scan (the latest, or the one asked for) ...       *)
ReportBegin(s) ==
  /\ report.pc = "idle"
  /\ status[s] # "none"
  /\ report' = [pc |-> "header", scan |-> s]
  /\ UNCHANGED <<db, pc, loop, txn, skipped, done, page>>

(* ... and then reads it by queries that are transactions of their own:    *)
(* the scans row, the counts for the summary, the results.                 *)
ReportHeader ==
  /\ report.pc = "header"
  /\ report' = [pc |-> "summary", scan |-> report.scan, status |-> status[report.scan]]
  /\ UNCHANGED <<db, pc, loop, txn, skipped, done, page>>

ReportSummary ==
  /\ report.pc = "summary"
  /\ report' = [pc |-> "body", scan |-> report.scan, status |-> report.status,
                counted |-> rows[report.scan]]
  /\ UNCHANGED <<db, pc, loop, txn, skipped, done, page>>

(* Mutant: the results were read first, the status is taken at the end.    *)
ReportBodyLateStatus ==
  /\ report.pc = "body"
  /\ report' = [pc |-> "written", scan |-> report.scan, status |-> status[report.scan],
                counted |-> report.counted, listed |-> rows[report.scan]]
  /\ UNCHANGED <<db, pc, loop, txn, skipped, done, page>>

ReportBody ==
  /\ report.pc = "body"
  /\ report' = [pc |-> "written", scan |-> report.scan, status |-> report.status,
                counted |-> report.counted, listed |-> rows[report.scan]]
  /\ UNCHANGED <<db, pc, loop, txn, skipped, done, page>>

(* The report is out; somebody asks for another one.                       *)
ReportEnd ==
  /\ report.pc = "written"
  /\ report' = NoReport
  /\ UNCHANGED <<db, pc, loop, txn, skipped, done, page>>

----------------------------------------------------------------------------
Main(s) ==
  \/ OpenGate(s) \/ GateRefuses(s) \/ Setup(s) \/ SetupFails(s) \/ Pool(s)
  \/ NextHost(s) \/ LoopEnds(s) \/ SkipUnit(s)
  \/ BeginFinding(s) \/ BeginFindingFails(s)
  \/ CommitFinding(s) \/ RejectFinding(s) \/ FindingFails(s)
  \/ BeginDetect(s) \/ (\E c \in Cve : FlushGroup(s, c))
  \/ CommitDetect(s) \/ DetectFails(s)
  \/ Finalize(s) \/ FinalizeFails(s)

SyncJob == (\E p \in Page : SyncBegin(p)) \/ SyncCommit \/ SyncRollback

ReportCmd ==
  \/ \E s \in Scan : ReportBegin(s)
  \/ ReportHeader \/ ReportSummary \/ ReportBody \/ ReportEnd

Next == (\E s \in Scan : Main(s) \/ Kill(s)) \/ SyncJob \/ ReportCmd

Spec == Init /\ [][Next]_vars

(* A process that is not killed goes on: a write that waits for the lock   *)
(* gets it or gives up after its busy timeout.                             *)
FairSpec == Spec /\ \A s \in Scan : WF_vars(Main(s))

----------------------------------------------------------------------------
(* Properties.                                                             *)

(* Every unit of every host that is up was stored or logged as skipped,    *)
(* and no host was left out by the worker pool.                            *)
Whole(s) ==
  \A h \in Host :
    /\ outcome[s][h] # "unscanned"
    /\ outcome[s][h] = "up" => \A u \in Unit : <<h, u>> \in skipped[s] \cup done[s]

(* A scans row says 'completed' only of a scan that lost nothing, whatever *)
(* database errors, rejected rows and other writers it met on its way.     *)
CompletedIsWhole == \A s \in Scan : status[s] = "completed" => Whole(s)

(* So does an exit status of 0, even if finalize then failed.              *)
SuccessIsWhole == \A s \in Scan : pc[s] = "success" => Whole(s)

(* Neither the row nor the exit status calls a scan good that lost a host, *)
(* a finding or a port on the way through main's loops and the db_ok latch.*)
GoodIsWhole == CompletedIsWhole /\ SuccessIsWhole

CvesOf(s, h, u) == {c \in Cve : <<h, u, c>> \in rows[s]}

(* The CVE rows of a port are those of one state of the mirror: what syncs *)
(* commit while the port is matched is in them page by page or not at all, *)
(* and a match that failed or was killed half-way leaves no row behind.    *)
NoTornDetection ==
  \A s \in Scan, h \in Host, u \in (Findings + 1)..Units :
    IF <<h, u>> \in done[s]
    THEN \E m \in seen : CvesOf(s, h, u) = m \ Malformed
    ELSE CvesOf(s, h, u) = {}

(* Once a scan has its final status neither the status nor its rows change *)
(* any more.                                                               *)
FinalIsFinal ==
  [][\A s \in Scan : status[s] \in {"completed", "failed"} =>
       status'[s] = status[s] /\ rows'[s] = rows[s]]_vars

(* A report whose header shows a final status is exact although it reads   *)
(* by several transactions: summary and results agree and are final.       *)
FinalReportIsExact ==
  report.pc = "written" /\ report.status \in {"completed", "failed"} =>
    report.counted = rows[report.scan] /\ report.listed = rows[report.scan]

(* A scan that has its row reaches a final status, unless the process was  *)
(* killed or the last update itself failed.                                *)
ScanEnds ==
  \A s \in Scan :
    status[s] = "running" ~> (status[s] \in {"completed", "failed"} \/ pc[s] \in Ended)

(* docs/contracts/db-schema.md on busy_timeout: it avoids "SQLITE_BUSY     *)
(* races between the scan engine (reader) and the sync job (writer)".      *)
SyncDoesNotFailScan == \A s \in Scan : dbOk[s]
============================================================================
