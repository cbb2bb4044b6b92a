---------------------------- MODULE DbMigrations ----------------------------
(***************************************************************************)
(* Opening the database and bringing its schema up to date: cytadel_db_open *)
(* (src/db/db.c) and cytadel_db_migrations_run (src/db/db_migrations.c), as *)
(* every scan and every sync does when it starts, by processes that share   *)
(* one file, a new one at first.  They run again and again and can die or   *)
(* meet a disk error anywhere.                                              *)
(*                                                                          *)
(* A statement of a migration is a pair <<version, position>>.  SQLite is   *)
(* external: one writer at a time, the first write of a transaction waits   *)
(* for the lock, for 5 seconds once busy_timeout is set and not at all      *)
(* before, and statements see what was committed before them.               *)
(***************************************************************************)
EXTENDS Integers, Sequences

CONSTANTS
  Proc,        \* the processes that use the file
  Free,        \* nobody holds the write lock
  Statements,  \* Statements[m]: number of statements of migration m
  MaxFailures  \* bound: disk errors, lock time-outs and deaths

ASSUME MigrationAssumption ==
  /\ Free \notin Proc
  /\ Statements \in Seq(Nat \ {0})
  /\ MaxFailures \in Nat

Latest    == Len(Statements)
Version   == 1..Latest
Statement == UNION {{m} \X (1..Statements[m]) : m \in Version}

(* What a database at version n has.                                       *)
UpTo(n) == {s \in Statement : s[1] <= n}

VARIABLES
  \* the file
  wal,       \* its journal mode is WAL
  table,     \* schema_migrations exists
  schema,    \* the statements whose effect is committed
  recorded,  \* the versions that schema_migrations has rows of
  lock,      \* holder of the write lock
  \* the processes
  pc,        \* pc[p]: where p is
  seen,      \* seen[p]: current_version
  next,      \* next[p]: the migration the loop is at
  stmt,      \* stmt[p]: statements the open transaction has executed
  why,       \* why[p]: why the last call failed
  failures

file == <<wal, table, schema, recorded>>
vars == <<file, lock, pc, seen, next, stmt, why, failures>>

TypeOK ==
  /\ wal \in BOOLEAN /\ table \in BOOLEAN
  /\ schema \subseteq Statement /\ recorded \subseteq Version
  /\ lock \in Proc \cup {Free}
  /\ pc \in [Proc -> {"closed", "opened", "journal", "setup", "version", "loop", "txn",
                      "recorded", "ok", "failed"}]
  /\ seen \in [Proc -> 0..Latest] /\ next \in [Proc -> 1..(Latest + 1)]
  /\ stmt \in [Proc -> Nat]
  /\ why \in [Proc -> {"none", "fault", "busy", "exists"}]
  /\ failures \in 0..MaxFailures

Init ==
  /\ wal = FALSE /\ table = FALSE /\ schema = {} /\ recorded = {}
  /\ lock = Free
  /\ pc = [p \in Proc |-> "closed"]
  /\ seen = [p \in Proc |-> 0] /\ next = [p \in Proc |-> 1] /\ stmt = [p \in Proc |-> 0]
  /\ why = [p \in Proc |-> "none"]
  /\ failures = 0

Go(p, to)   == pc' = [pc EXCEPT ![p] = to]
MayWrite(p) == lock \in {Free, p}
Release(p)  == lock' = IF lock = p THEN Free ELSE lock

(* An error status is returned, after a ROLLBACK if there is anything to   *)
(* roll back.                                                              *)
Fail(p, reason) ==
  /\ Go(p, "failed")
  /\ Release(p)
  /\ why' = [why EXCEPT ![p] = reason]
  /\ UNCHANGED <<file, seen, next, stmt>>

----------------------------------------------------------------------------
(* cytadel_db_open.                                                        *)

Open(p) ==
  /\ pc[p] = "closed"
  /\ Go(p, "opened")
  /\ why' = [why EXCEPT ![p] = "none"]
  /\ UNCHANGED <<file, lock, seen, next, stmt, failures>>

(* PRAGMA journal_mode = WAL: nothing to do for a file that is in WAL      *)
(* mode, a write to the file for a new one.                                *)
JournalIsWal(p) ==
  /\ pc[p] = "opened" /\ wal
  /\ Go(p, "setup")
  /\ UNCHANGED <<file, lock, seen, next, stmt, why, failures>>

JournalBegins(p) ==
  /\ pc[p] = "opened" /\ ~wal
  /\ lock = Free
  /\ lock' = p
  /\ Go(p, "journal")
  /\ UNCHANGED <<file, seen, next, stmt, why, failures>>

(* ... and busy_timeout is set only after it.                              *)
JournalEnds(p) ==
  /\ pc[p] = "journal"
  /\ wal' = TRUE
  /\ lock' = Free
  /\ Go(p, "setup")
  /\ UNCHANGED <<table, schema, recorded, seen, next, stmt, why, failures>>

(* The pragma does not wait for a lock: ERR_PRAGMA.                        *)
JournalBusy(p) ==
  /\ pc[p] = "opened" /\ ~wal
  /\ ~MayWrite(p)
  /\ Fail(p, "busy")
  /\ UNCHANGED failures

----------------------------------------------------------------------------
(* cytadel_db_migrations_current_version.                                  *)

(* Mutant: the table is created without IF NOT EXISTS.                     *)
EnsureTableAlways(p) ==
  /\ pc[p] = "setup"
  /\ IF table
     THEN Fail(p, "exists")
     ELSE /\ lock = Free
          /\ table' = TRUE
          /\ Go(p, "version")
          /\ UNCHANGED <<wal, schema, recorded, lock, seen, next, stmt, why>>
  /\ UNCHANGED failures

(* CREATE TABLE IF NOT EXISTS, a transaction of its own.                   *)
EnsureTable(p) ==
  /\ pc[p] = "setup"
  /\ table \/ lock = Free
  /\ table' = TRUE
  /\ Go(p, "version")
  /\ UNCHANGED <<wal, schema, recorded, lock, seen, next, stmt, why, failures>>

(* SELECT COALESCE(MAX(version), 0).                                       *)
MaxRecorded == IF recorded = {} THEN 0 ELSE CHOOSE m \in recorded : \A k \in recorded : k <= m

(* The version is read outside of the transactions that rely on it.        *)
ReadVersion(p) ==
  /\ pc[p] = "version"
  /\ seen' = [seen EXCEPT ![p] = MaxRecorded]
  /\ next' = [next EXCEPT ![p] = 1]
  /\ Go(p, "loop")
  /\ UNCHANGED <<file, lock, stmt, why, failures>>

----------------------------------------------------------------------------
(* cytadel_db_migrations_run.                                              *)

SkipMigration(p) ==
  /\ pc[p] = "loop" /\ next[p] \in Version
  /\ next[p] <= seen[p]
  /\ next' = [next EXCEPT ![p] = @ + 1]
  /\ UNCHANGED <<file, lock, pc, seen, stmt, why, failures>>

(* BEGIN, which takes no lock yet.                                         *)
BeginMigration(p) ==
  /\ pc[p] = "loop" /\ next[p] \in Version
  /\ next[p] > seen[p]
  /\ stmt' = [stmt EXCEPT ![p] = 0]
  /\ Go(p, "txn")
  /\ UNCHANGED <<file, lock, seen, next, why, failures>>

Executing(p) == pc[p] = "txn" /\ stmt[p] < Statements[next[p]]

(* The table or the column the statement adds is there already.            *)
Exists(p) == <<next[p], stmt[p] + 1>> \in schema

(* Mutant: without BEGIN every statement commits by itself.                *)
ExecStatementAutocommit(p) ==
  /\ Executing(p) /\ ~Exists(p)
  /\ MayWrite(p)
  /\ schema' = schema \cup {<<next[p], stmt[p] + 1>>}
  /\ stmt' = [stmt EXCEPT ![p] = @ + 1]
  /\ UNCHANGED <<wal, table, recorded, lock, pc, seen, next, why, failures>>

ExecStatement(p) ==
  /\ Executing(p) /\ ~Exists(p)
  /\ MayWrite(p)
  /\ lock' = p
  /\ stmt' = [stmt EXCEPT ![p] = @ + 1]
  /\ UNCHANGED <<file, pc, seen, next, why, failures>>

StatementFails(p) ==
  /\ Executing(p) /\ Exists(p)
  /\ Fail(p, "exists")
  /\ UNCHANGED failures

(* Mutant: the version is not recorded.                                    *)
RecordNothing(p) == UNCHANGED recorded

(* The bookkeeping row of the migration, committed with its statements.    *)
RecordVersion(p) == recorded' = recorded \cup {next[p]}

(* cytadel_db_record_migration, whose version is a primary key.            *)
RecordMigration(p) ==
  /\ pc[p] = "txn" /\ stmt[p] = Statements[next[p]]
  /\ IF next[p] \in recorded
     THEN Fail(p, "exists")
     ELSE Go(p, "recorded") /\ UNCHANGED <<file, lock, seen, next, stmt, why>>
  /\ UNCHANGED failures

Commit(p) ==
  /\ pc[p] = "recorded"
  /\ schema' = schema \cup {<<next[p], j>> : j \in 1..Statements[next[p]]}
  /\ RecordVersion(p)
  /\ lock' = Free
  /\ next' = [next EXCEPT ![p] = @ + 1]
  /\ Go(p, "loop")
  /\ UNCHANGED <<wal, table, seen, stmt, why, failures>>

(* Every version is in place: OK.                                          *)
Migrated(p) ==
  /\ pc[p] = "loop" /\ next[p] = Latest + 1
  /\ Go(p, "ok")
  /\ UNCHANGED <<file, lock, seen, next, stmt, why, failures>>

----------------------------------------------------------------------------
(* Faults, and what processes do with the file afterwards.                 *)

Running(p) == pc[p] \notin {"closed", "ok", "failed"}

(* A disk error, or the lock was not free for 5 seconds, in any call.      *)
CallFails(p) ==
  /\ Running(p) /\ failures < MaxFailures
  /\ Fail(p, "fault")
  /\ failures' = failures + 1

(* The process dies; SQLite forgets its transaction.                       *)
Die(p) ==
  /\ Running(p) /\ failures < MaxFailures
  /\ Release(p)
  /\ Go(p, "closed")
  /\ failures' = failures + 1
  /\ UNCHANGED <<file, seen, next, stmt, why>>

(* cytadel_db_close, by a process that is through or has given up; the     *)
(* next invocation of the program starts anew.                             *)
Close(p) ==
  /\ pc[p] \in {"ok", "failed"}
  /\ Go(p, "closed")
  /\ UNCHANGED <<file, lock, seen, next, stmt, why, failures>>

Step(p) ==
  \/ Open(p) \/ JournalIsWal(p) \/ JournalBegins(p) \/ JournalEnds(p) \/ JournalBusy(p)
  \/ EnsureTable(p) \/ ReadVersion(p)
  \/ SkipMigration(p) \/ BeginMigration(p) \/ ExecStatement(p) \/ StatementFails(p)
  \/ RecordMigration(p) \/ Commit(p) \/ Migrated(p) \/ Close(p)

Next == \E p \in Proc : Step(p) \/ CallFails(p) \/ Die(p)

Spec == Init /\ [][Next]_vars

(* A process that does not die goes on.                                    *)
FairSpec == Spec /\ \A p \in Proc : WF_vars(Step(p))

----------------------------------------------------------------------------
(* Properties.                                                             *)

(* db.h: "a failed migration never leaves the DB at a half-applied         *)
(* version".  Whoever else migrates, fails or dies, the tables are those   *)
(* of one version and schema_migrations has every version up to it.        *)
NeverHalfApplied ==
  \E n \in 0..Latest : recorded = 1..n /\ schema = UpTo(n)

(* A process for which cytadel_db_migrate returned OK works on the whole   *)
(* schema, although it checked the version once, before it began.          *)
OkMeansMigrated ==
  \A p \in Proc : pc[p] = "ok" => recorded = Version /\ schema = Statement

(* The schema on disk is always that of one version, and of the last one   *)
(* for whoever was told OK.                                                *)
SchemaIsWhole == NeverHalfApplied /\ OkMeansMigrated

(* Migrations fail by "already exists" only for a process that was         *)
(* overtaken: another one has committed that very migration since the      *)
(* version was read.                                                       *)
LoserWasOvertaken ==
  \A p \in Proc :
    pc[p] = "failed" /\ why[p] = "exists" => next[p] > seen[p] /\ next[p] \in recorded

(* However the processes get in each other's way, every one of them gets   *)
(* through if it is started again, and goes on to.                         *)
EveryProcessGetsThrough == \A p \in Proc : []<>(pc[p] = "ok")
=============================================================================
