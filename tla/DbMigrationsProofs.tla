------------------------- MODULE DbMigrationsProofs -------------------------
(***************************************************************************)
(* Proofs about DbMigrations for any number of processes, migrations and   *)
(* faults: the schema on disk is that of one version after every step, OK  *)
(* means the last version, and a migration fails by "already exists" only  *)
(* for a process that was overtaken.                                       *)
(***************************************************************************)
EXTENDS DbMigrations, TLAPS

(* Whoever has written in a transaction, or writes the journal mode, holds *)
(* the lock.                                                               *)
LockInv ==
  \A p \in Proc :
    \/ pc[p] \in {"journal", "recorded"}
    \/ pc[p] = "txn" /\ stmt[p] > 0
    => lock = p

(* The loop has left nothing out: what a process has read as the version,  *)
(* and every migration it is past, is recorded.                            *)
LoopInv ==
  \A p \in Proc :
    pc[p] \in {"loop", "txn", "recorded"} =>
      \A m \in Version : m <= seen[p] \/ m < next[p] => m \in recorded

(* An open transaction is about a migration beyond the version that was    *)
(* read, and once it has written, about one that nobody has recorded.      *)
TxnInv ==
  \A p \in Proc :
    pc[p] \in {"txn", "recorded"} =>
      /\ next[p] \in Version /\ next[p] > seen[p]
      /\ stmt[p] <= Statements[next[p]]
      /\ stmt[p] > 0 => next[p] \notin recorded
      /\ pc[p] = "recorded" => stmt[p] = Statements[next[p]]

IInv ==
  /\ TypeOK /\ LockInv /\ LoopInv /\ TxnInv
  /\ NeverHalfApplied /\ OkMeansMigrated /\ LoserWasOvertaken

----------------------------------------------------------------------------
(* The number of migrations, and the statements each of them has.          *)
LEMMA Migrations ==
  /\ Latest \in Nat /\ Version = 1..Latest
  /\ \A m \in Version : Statements[m] \in Nat /\ Statements[m] >= 1
BY MigrationAssumption DEF Latest, Version

(* A statement is a position in a migration.                               *)
LEMMA StatementIs ==
  ASSUME NEW m, NEW j
  PROVE  <<m, j>> \in Statement <=> m \in Version /\ j \in 1..Statements[m]
BY DEF Statement

(* What the schema of version n has of a migration: all or nothing.        *)
LEMMA UpToIs ==
  ASSUME NEW n \in 0..Latest, NEW m \in Version, NEW j \in 1..Statements[m]
  PROVE  <<m, j>> \in UpTo(n) <=> m <= n
BY StatementIs, Migrations DEF UpTo

(* Nothing that is recorded lies beyond a migration that is not.           *)
LEMMA RecordedPrefix ==
  ASSUME NeverHalfApplied, NEW m \in Version, NEW j \in 1..Statements[m]
  PROVE  <<m, j>> \in schema <=> m \in recorded
<1>1. PICK n \in 0..Latest : recorded = 1..n /\ schema = UpTo(n)
  BY DEF NeverHalfApplied
<1> QED  BY <1>1, UpToIs, Migrations

(* MAX(version) is the version the file is at.                             *)
LEMMA MaxRecordedIs ==
  ASSUME NeverHalfApplied
  PROVE  MaxRecorded \in 0..Latest /\ \A m \in Version : m <= MaxRecorded => m \in recorded
<1>1. PICK n \in 0..Latest : recorded = 1..n
  BY DEF NeverHalfApplied
<1>2. CASE n = 0
  BY <1>1, <1>2, Migrations DEF MaxRecorded
<1>3. CASE n > 0
  <2>1. n \in recorded /\ \A k \in recorded : k <= n
    BY <1>1, <1>3, Migrations
  <2>2. MaxRecorded \in recorded /\ \A k \in recorded : k <= MaxRecorded
    BY <2>1 DEF MaxRecorded
  <2> QED  BY <1>1, <2>1, <2>2, Migrations
<1> QED  BY <1>1, <1>2, <1>3, Migrations

----------------------------------------------------------------------------
(* Everything holds of a new file.                                         *)
LEMMA InitInv == Init => IInv
<1> SUFFICES ASSUME Init PROVE IInv
  OBVIOUS
<1> USE MigrationAssumption, Migrations DEF Init
<1>1. TypeOK
  <2>1. wal \in BOOLEAN /\ table \in BOOLEAN
    BY Zenon
  <2> QED  BY <2>1 DEF TypeOK
<1>2. NeverHalfApplied
  <2>1. UpTo(0) = {}
    BY StatementIs DEF UpTo, Statement
  <2> QED  BY <2>1 DEF NeverHalfApplied
<1> QED  BY <1>1, <1>2 DEF IInv, LockInv, LoopInv, TxnInv, OkMeansMigrated, LoserWasOvertaken

(* A failing call, whose reason is not that something exists, keeps all.   *)
LEMMA FailKeeps ==
  ASSUME IInv, NEW p \in Proc, NEW reason \in {"fault", "busy"}, Fail(p, reason),
         failures' \in 0..MaxFailures
  PROVE  IInv'
<1> USE MigrationAssumption, Migrations DEF IInv, Fail, Go, Release, file
<1>1. TypeOK'
  BY DEF TypeOK
<1>2. NeverHalfApplied'
  BY DEF NeverHalfApplied
<1>3. LockInv'
  BY DEF LockInv, TypeOK
<1>4. LoopInv' /\ TxnInv'
  BY DEF LoopInv, TxnInv, TypeOK
<1>5. OkMeansMigrated' /\ LoserWasOvertaken'
  BY DEF OkMeansMigrated, LoserWasOvertaken, TypeOK
<1> QED  BY <1>1, <1>2, <1>3, <1>4, <1>5

(* A statement that fails because what it adds is there was overtaken: the *)
(* schema has all of a migration or nothing of it.                         *)
LEMMA StatementFailsKeeps ==
  ASSUME IInv, NEW p \in Proc, StatementFails(p)
  PROVE  IInv'
<1> USE MigrationAssumption, Migrations
        DEF IInv, StatementFails, Executing, Exists, Fail, Go, Release, file
<1>1. next[p] \in recorded /\ next[p] > seen[p]
  <2>1. next[p] \in Version /\ stmt[p] + 1 \in 1..Statements[next[p]] /\ next[p] > seen[p]
    BY DEF TxnInv, TypeOK
  <2> QED  BY <2>1, RecordedPrefix
<1>2. TypeOK'
  BY DEF TypeOK
<1>3. NeverHalfApplied'
  BY DEF NeverHalfApplied
<1>4. LockInv'
  BY DEF LockInv, TypeOK
<1>5. LoopInv' /\ TxnInv'
  BY DEF LoopInv, TxnInv, TypeOK
<1>6. OkMeansMigrated' /\ LoserWasOvertaken'
  BY <1>1 DEF OkMeansMigrated, LoserWasOvertaken, TypeOK
<1> QED  BY <1>2, <1>3, <1>4, <1>5, <1>6

(* The commit takes the file from one version to the next.                 *)
LEMMA CommitKeeps ==
  ASSUME IInv, NEW p \in Proc, Commit(p)
  PROVE  IInv'
<1> USE MigrationAssumption, Migrations DEF IInv, Commit, RecordVersion, Go
<1>1. /\ next[p] \in Version /\ next[p] \notin recorded /\ lock = p
      /\ \A m \in Version : m < next[p] => m \in recorded
  <2>1. next[p] \in Version /\ stmt[p] = Statements[next[p]]
    BY DEF TxnInv
  <2>2. stmt[p] > 0
    BY <2>1
  <2> QED  BY <2>1, <2>2 DEF LockInv, LoopInv, TxnInv
<1>2. PICK n \in 0..Latest : recorded = 1..n /\ schema = UpTo(n)
  BY DEF NeverHalfApplied
<1>3. next[p] = n + 1
  <2>1. next[p] > n
    BY <1>1, <1>2
  <2>2. CASE next[p] > n + 1
    <3>1. n + 1 \in Version /\ n + 1 < next[p]
      BY <1>1, <2>2
    <3> QED  BY <1>1, <1>2, <3>1
  <2> QED  BY <1>1, <2>1, <2>2
<1>4. NeverHalfApplied'
  <2>1. recorded' = 1..(n + 1)
    BY <1>2, <1>3
  <2>2. UpTo(n + 1) = UpTo(n) \cup {<<n + 1, j>> : j \in 1..Statements[n + 1]}
    BY <1>1, <1>3 DEF UpTo, Statement
  <2>3. schema' = UpTo(n + 1)
    BY <1>2, <1>3, <2>2
  <2>4. n + 1 \in 0..Latest
    BY <1>1, <1>3
  <2> QED  BY <2>1, <2>3, <2>4 DEF NeverHalfApplied, UpTo
<1>5. recorded \subseteq recorded' /\ recorded' \subseteq Version /\ schema' \subseteq Statement
  <2>1. {<<next[p], j>> : j \in 1..Statements[next[p]]} \subseteq Statement
    BY <1>1, StatementIs
  <2> QED  BY <1>1, <2>1 DEF TypeOK
<1>6. TypeOK'
  BY <1>1, <1>5 DEF TypeOK
<1>7. LockInv' /\ TxnInv'
  BY <1>1 DEF LockInv, TxnInv, TypeOK
<1>8. LoopInv'
  <2> SUFFICES ASSUME NEW q \in Proc, pc'[q] \in {"loop", "txn", "recorded"}, NEW m \in Version,
                      m <= seen'[q] \/ m < next'[q]
               PROVE  m \in recorded'
    BY DEF LoopInv
  <2>1. CASE q = p
    <3>1. m <= seen[p] \/ m < next[p] \/ m = next[p]
      BY <1>1, <2>1 DEF TypeOK
    <3> QED  BY <1>1, <3>1 DEF LoopInv
  <2>2. CASE q # p
    BY <1>5, <2>2 DEF LoopInv, TypeOK
  <2> QED  BY <2>1, <2>2
<1>9. OkMeansMigrated'
  <2> SUFFICES ASSUME NEW q \in Proc, pc'[q] = "ok" PROVE recorded' = Version /\ schema' = Statement
    BY DEF OkMeansMigrated
  <2>1. pc[q] = "ok"
    BY DEF TypeOK
  <2> QED  BY <1>5, <2>1 DEF OkMeansMigrated
<1>10. LoserWasOvertaken'
  BY <1>5 DEF LoserWasOvertaken, TypeOK
<1> QED  BY <1>4, <1>6, <1>7, <1>8, <1>9, <1>10

(* No other step writes the schema; each keeps every part.                 *)
LEMMA InvStep == IInv /\ [Next]_vars => IInv'
<1> SUFFICES ASSUME IInv, [Next]_vars PROVE IInv'
  OBVIOUS
<1> USE MigrationAssumption, Migrations
<1>1. CASE UNCHANGED vars
  <2> USE <1>1 DEF vars, file, IInv
  <2>1. TypeOK'
    BY DEF TypeOK
  <2>2. LockInv' /\ LoopInv' /\ TxnInv'
    BY DEF LockInv, LoopInv, TxnInv
  <2>3. NeverHalfApplied' /\ OkMeansMigrated' /\ LoserWasOvertaken'
    BY DEF NeverHalfApplied, OkMeansMigrated, LoserWasOvertaken
  <2> QED  BY <2>1, <2>2, <2>3
<1>2. ASSUME NEW p \in Proc, CallFails(p) PROVE IInv'
  <2>1. Fail(p, "fault") /\ failures' \in 0..MaxFailures
    BY <1>2 DEF CallFails, IInv, TypeOK
  <2> QED  BY <2>1, FailKeeps
<1>3. ASSUME NEW p \in Proc, Die(p) PROVE IInv'
  <2> USE <1>3 DEF IInv, Die, Running, Release, Go, file
  <2>1. TypeOK' /\ NeverHalfApplied'
    BY DEF TypeOK, NeverHalfApplied
  <2>2. LockInv' /\ LoopInv' /\ TxnInv'
    BY DEF TypeOK, LockInv, LoopInv, TxnInv
  <2>3. OkMeansMigrated' /\ LoserWasOvertaken'
    BY DEF TypeOK, OkMeansMigrated, LoserWasOvertaken
  <2> QED  BY <2>1, <2>2, <2>3
<1>4. ASSUME NEW p \in Proc, JournalBusy(p) PROVE IInv'
  BY <1>4, FailKeeps DEF JournalBusy, IInv, TypeOK
<1>5. ASSUME NEW p \in Proc, StatementFails(p) PROVE IInv'
  BY <1>5, StatementFailsKeeps
<1>6. ASSUME NEW p \in Proc, Commit(p) PROVE IInv'
  BY <1>6, CommitKeeps
<1>7. ASSUME NEW p \in Proc, Open(p) PROVE IInv'
  <2> USE <1>7 DEF IInv, Open, Go, file
  <2>1. TypeOK' /\ NeverHalfApplied'
    BY DEF TypeOK, NeverHalfApplied
  <2>2. LockInv' /\ LoopInv' /\ TxnInv'
    BY DEF TypeOK, LockInv, LoopInv, TxnInv
  <2>3. OkMeansMigrated' /\ LoserWasOvertaken'
    BY DEF TypeOK, OkMeansMigrated, LoserWasOvertaken
  <2> QED  BY <2>1, <2>2, <2>3
<1>8. ASSUME NEW p \in Proc, JournalIsWal(p) PROVE IInv'
  <2> USE <1>8 DEF IInv, JournalIsWal, Go, file
  <2>1. TypeOK' /\ NeverHalfApplied'
    BY DEF TypeOK, NeverHalfApplied
  <2>2. LockInv' /\ LoopInv' /\ TxnInv'
    BY DEF TypeOK, LockInv, LoopInv, TxnInv
  <2>3. OkMeansMigrated' /\ LoserWasOvertaken'
    BY DEF TypeOK, OkMeansMigrated, LoserWasOvertaken
  <2> QED  BY <2>1, <2>2, <2>3
<1>9. ASSUME NEW p \in Proc, JournalBegins(p) PROVE IInv'
  <2> USE <1>9 DEF IInv, JournalBegins, Go, file
  <2>1. TypeOK' /\ NeverHalfApplied'
    BY DEF TypeOK, NeverHalfApplied
  <2>2. LockInv' /\ LoopInv' /\ TxnInv'
    BY DEF TypeOK, LockInv, LoopInv, TxnInv
  <2>3. OkMeansMigrated' /\ LoserWasOvertaken'
    BY DEF TypeOK, OkMeansMigrated, LoserWasOvertaken
  <2> QED  BY <2>1, <2>2, <2>3
<1>10. ASSUME NEW p \in Proc, JournalEnds(p) PROVE IInv'
  <2> USE <1>10 DEF IInv, JournalEnds, Go, file
  <2>1. TypeOK' /\ NeverHalfApplied'
    BY DEF TypeOK, NeverHalfApplied
  <2>2. LockInv' /\ LoopInv' /\ TxnInv'
    BY DEF TypeOK, LockInv, LoopInv, TxnInv
  <2>3. OkMeansMigrated' /\ LoserWasOvertaken'
    BY DEF TypeOK, OkMeansMigrated, LoserWasOvertaken
  <2> QED  BY <2>1, <2>2, <2>3
<1>11. ASSUME NEW p \in Proc, EnsureTable(p) PROVE IInv'
  <2> USE <1>11 DEF IInv, EnsureTable, Go, file
  <2>1. TypeOK' /\ NeverHalfApplied'
    BY DEF TypeOK, NeverHalfApplied
  <2>2. LockInv' /\ LoopInv' /\ TxnInv'
    BY DEF TypeOK, LockInv, LoopInv, TxnInv
  <2>3. OkMeansMigrated' /\ LoserWasOvertaken'
    BY DEF TypeOK, OkMeansMigrated, LoserWasOvertaken
  <2> QED  BY <2>1, <2>2, <2>3
<1>12. ASSUME NEW p \in Proc, ReadVersion(p) PROVE IInv'
  <2> USE <1>12 DEF IInv, ReadVersion, Go, file
  <2>1. MaxRecorded \in 0..Latest /\ \A m \in Version : m <= MaxRecorded => m \in recorded
    BY MaxRecordedIs
  <2>2. TypeOK' /\ NeverHalfApplied'
    BY <2>1 DEF TypeOK, NeverHalfApplied
  <2>3. LockInv' /\ LoopInv' /\ TxnInv'
    BY <2>1 DEF TypeOK, LockInv, LoopInv, TxnInv
  <2>4. OkMeansMigrated' /\ LoserWasOvertaken'
    BY DEF TypeOK, OkMeansMigrated, LoserWasOvertaken
  <2> QED  BY <2>2, <2>3, <2>4
<1>13. ASSUME NEW p \in Proc, SkipMigration(p) PROVE IInv'
  <2> USE <1>13 DEF IInv, SkipMigration, Go, file
  <2>1. TypeOK' /\ NeverHalfApplied'
    <3>1. next' \in [Proc -> 1..(Latest + 1)]
      BY DEF TypeOK
    <3> QED  BY <3>1 DEF TypeOK, NeverHalfApplied
  <2>2. LockInv' /\ LoopInv' /\ TxnInv'
    <3>1. LockInv' /\ TxnInv'
      BY DEF TypeOK, LockInv, TxnInv
    <3>2. LoopInv'
      BY DEF TypeOK, LoopInv
    <3> QED  BY <3>1, <3>2
  <2>3. OkMeansMigrated' /\ LoserWasOvertaken'
    BY DEF TypeOK, OkMeansMigrated, LoserWasOvertaken
  <2> QED  BY <2>1, <2>2, <2>3
<1>14. ASSUME NEW p \in Proc, BeginMigration(p) PROVE IInv'
  <2> USE <1>14 DEF IInv, BeginMigration, Go, file
  <2>1. TypeOK' /\ NeverHalfApplied'
    BY DEF TypeOK, NeverHalfApplied
  <2>2. LockInv' /\ LoopInv' /\ TxnInv'
    BY DEF TypeOK, LockInv, LoopInv, TxnInv
  <2>3. OkMeansMigrated' /\ LoserWasOvertaken'
    BY DEF TypeOK, OkMeansMigrated, LoserWasOvertaken
  <2> QED  BY <2>1, <2>2, <2>3
<1>15. ASSUME NEW p \in Proc, ExecStatement(p) PROVE IInv'
  <2> USE <1>15 DEF IInv, ExecStatement, Executing, MayWrite, file
  <2>1. /\ next[p] \in Version /\ stmt[p] + 1 \in 1..Statements[next[p]]
        /\ next[p] > seen[p] /\ next[p] \notin recorded
    <3>1. next[p] \in Version /\ stmt[p] + 1 \in 1..Statements[next[p]] /\ next[p] > seen[p]
      BY DEF TxnInv, TypeOK
    <3> QED  BY <3>1, RecordedPrefix DEF Exists
  <2>2. TypeOK' /\ NeverHalfApplied'
    BY DEF TypeOK, NeverHalfApplied
  <2>3. LockInv' /\ LoopInv'
    BY DEF TypeOK, LockInv, LoopInv
  <2>4. TxnInv'
    BY <2>1 DEF TypeOK, TxnInv
  <2>5. OkMeansMigrated' /\ LoserWasOvertaken'
    BY DEF TypeOK, OkMeansMigrated, LoserWasOvertaken
  <2> QED  BY <2>2, <2>3, <2>4, <2>5
<1>16. ASSUME NEW p \in Proc, Migrated(p) PROVE IInv'
  <2> USE <1>16 DEF IInv, Migrated, Go, file
  <2>1. recorded = Version /\ schema = Statement
    <3>1. Version \subseteq recorded
      BY DEF LoopInv
    <3>2. PICK n \in 0..Latest : recorded = 1..n /\ schema = UpTo(n)
      BY DEF NeverHalfApplied
    <3>3. n = Latest
      BY <3>1, <3>2
    <3>4. UpTo(Latest) = Statement
      BY DEF UpTo, Statement
    <3> QED  BY <3>2, <3>3, <3>4
  <2>2. TypeOK' /\ NeverHalfApplied'
    BY DEF TypeOK, NeverHalfApplied
  <2>3. LockInv' /\ LoopInv' /\ TxnInv'
    BY DEF TypeOK, LockInv, LoopInv, TxnInv
  <2>4. OkMeansMigrated'
    BY <2>1 DEF OkMeansMigrated
  <2>5. LoserWasOvertaken'
    BY DEF TypeOK, LoserWasOvertaken
  <2> QED  BY <2>2, <2>3, <2>4, <2>5
<1>17. ASSUME NEW p \in Proc, Close(p) PROVE IInv'
  <2> USE <1>17 DEF IInv, Close, Go, file
  <2>1. TypeOK' /\ NeverHalfApplied'
    BY DEF TypeOK, NeverHalfApplied
  <2>2. LockInv' /\ LoopInv' /\ TxnInv'
    BY DEF TypeOK, LockInv, LoopInv, TxnInv
  <2>3. OkMeansMigrated' /\ LoserWasOvertaken'
    BY DEF TypeOK, OkMeansMigrated, LoserWasOvertaken
  <2> QED  BY <2>1, <2>2, <2>3
<1>18. ASSUME NEW p \in Proc, RecordMigration(p) PROVE IInv'
  <2> USE <1>18 DEF IInv, RecordMigration
  <2>1. next[p] \in Version /\ next[p] \notin recorded
    <3>1. next[p] \in Version /\ stmt[p] = Statements[next[p]]
      BY DEF TxnInv
    <3>2. stmt[p] > 0
      BY <3>1
    <3> QED  BY <3>1, <3>2 DEF TxnInv
  <2>2. Go(p, "recorded") /\ UNCHANGED <<file, lock, seen, next, stmt, why, failures>>
    BY <2>1
  <2>3. TypeOK' /\ NeverHalfApplied'
    BY <2>2 DEF TypeOK, NeverHalfApplied, Go, file
  <2>4. LockInv' /\ LoopInv' /\ TxnInv'
    <3>1. stmt[p] = Statements[next[p]] /\ stmt[p] > 0
      BY <2>1
    <3> QED  BY <2>2, <3>1 DEF TypeOK, LockInv, LoopInv, TxnInv, Go, file
  <2>5. OkMeansMigrated' /\ LoserWasOvertaken'
    BY <2>2 DEF TypeOK, OkMeansMigrated, LoserWasOvertaken, Go, file
  <2> QED  BY <2>3, <2>4, <2>5
<1> QED
  BY <1>1, <1>2, <1>3, <1>4, <1>5, <1>6, <1>7, <1>8, <1>9, <1>10, <1>11, <1>12, <1>13, <1>14, <1>15, <1>16, <1>17, <1>18 DEF Next, Step

----------------------------------------------------------------------------
(* The types hold in every state of opening and migrating.                 *)
THEOREM TypeCorrect == Spec => []TypeOK
<1>1. IInv => TypeOK
  BY DEF IInv
<1> QED  BY <1>1, InitInv, InvStep, PTL DEF Spec

(* db.h: "a failed migration never leaves the DB at a half-applied         *)
(* version", and OK means the last version: for any number of processes    *)
(* that migrate one file at once, fail and die anywhere                    *)
(* (cytadel_db_migrations_run).                                            *)
THEOREM AlwaysOneVersion == Spec => []SchemaIsWhole
<1>1. IInv => SchemaIsWhole
  BY DEF IInv, SchemaIsWhole
<1> QED  BY <1>1, InitInv, InvStep, PTL DEF Spec

(* A process that fails because a table or column is there lost a race: its *)
(* migration has been committed by another one since it read the version,   *)
(* never by a left-over of a run that failed.                               *)
THEOREM OnlyTheOvertakenFail == Spec => []LoserWasOvertaken
<1>1. IInv => LoserWasOvertaken
  BY DEF IInv
<1> QED  BY <1>1, InitInv, InvStep, PTL DEF Spec
=============================================================================
