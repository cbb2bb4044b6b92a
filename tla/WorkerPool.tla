----------------------------- MODULE WorkerPool -----------------------------
(***************************************************************************)
(* The pthread worker pool of src/core/worker_pool.c and the loop of       *)
(* src/cli/main.c that reads and frees the results once it has returned.   *)
(* Workers claim targets from an atomic cursor and write into the slot of  *)
(* the target they claimed, without a lock; the caller touches the slots   *)
(* only after the pool has joined every worker it created.                 *)
(***************************************************************************)
EXTENDS Integers

CONSTANTS
  TargetCount,  \* target_count: cytadel_target_list_parse accepts no empty list
  MaxWorkers,   \* --max-workers as given
  HardCap       \* CYTADEL_WORKER_POOL_HARD_CAP_WORKERS

ASSUME PoolAssumption ==
  TargetCount \in Nat \ {0} /\ MaxWorkers \in Int /\ HardCap \in Nat \ {0}

(* max_workers clamped to [1, HardCap], then to the number of targets.     *)
Clamped == IF MaxWorkers < 1 THEN 1 ELSE IF MaxWorkers > HardCap THEN HardCap ELSE MaxWorkers
WorkerCount == IF Clamped > TargetCount THEN TargetCount ELSE Clamped

Target == 0..(TargetCount - 1)
Worker == 0..(WorkerCount - 1)

VARIABLES
  main,         \* where the calling thread is
  created,      \* number of threads created
  joined,       \* number of pthread_join calls made
  createFailed, joinFailed,
  poolRc,       \* what cytadel_worker_pool_run returned (1: not yet)
  next,         \* ctx.next_index
  pc,           \* pc[w]: where worker thread w is
  idx,          \* idx[w]: the index it claimed last
  slot,         \* slot[i]: what out_results[i] holds
  consumed      \* slots the caller has read and freed, in order

vars == <<main, created, joined, createFailed, joinFailed, poolRc, next, pc, idx, slot, consumed>>

TypeOK ==
  /\ main \in {"enter", "create", "join", "consume", "done"}
  /\ created \in 0..WorkerCount /\ joined \in 0..WorkerCount
  /\ createFailed \in BOOLEAN /\ joinFailed \in BOOLEAN
  /\ poolRc \in {-1, 0, 1}
  /\ next \in Nat
  /\ pc \in [Worker -> {"none", "claim", "scan", "exited"}]
  /\ idx \in [Worker -> Nat]
  /\ slot \in [Target -> {"untouched", "partial", "ok", "error", "freed"}]
  /\ consumed \in 0..TargetCount

Init ==
  /\ main = "enter"
  /\ created = 0 /\ joined = 0
  /\ createFailed = FALSE /\ joinFailed = FALSE
  /\ poolRc = 1
  /\ next = 0
  /\ pc = [w \in Worker |-> "none"] /\ idx = [w \in Worker |-> 0]
  /\ slot = [i \in Target |-> "untouched"]
  /\ consumed = 0

----------------------------------------------------------------------------
(* The calling thread.                                                     *)

EnterPool ==
  /\ main = "enter"
  /\ \/ main' = "consume" /\ poolRc' = -1  \* calloc of the thread handles failed
     \/ main' = "create" /\ UNCHANGED poolRc
  /\ UNCHANGED <<created, joined, createFailed, joinFailed, next, pc, idx, slot, consumed>>

CreateThread ==
  /\ main = "create"
  /\ created < WorkerCount
  /\ created' = created + 1
  /\ pc' = [pc EXCEPT ![created] = "claim"]
  /\ UNCHANGED <<main, joined, createFailed, joinFailed, poolRc, next, idx, slot, consumed>>

(* Mutant: the pool returns at once, and joins nobody.                     *)
CreateFailsReturns ==
  /\ main = "create"
  /\ created < WorkerCount
  /\ createFailed' = TRUE
  /\ main' = "consume"
  /\ poolRc' = -1
  /\ UNCHANGED <<created, joined, joinFailed, next, pc, idx, slot, consumed>>

(* pthread_create failed: no further one is tried.                         *)
CreateFails ==
  /\ main = "create"
  /\ created < WorkerCount
  /\ createFailed' = TRUE
  /\ main' = "join"
  /\ UNCHANGED <<created, joined, joinFailed, poolRc, next, pc, idx, slot, consumed>>

AllCreated ==
  /\ main = "create"
  /\ created = WorkerCount
  /\ main' = "join"
  /\ UNCHANGED <<created, joined, createFailed, joinFailed, poolRc, next, pc, idx, slot, consumed>>

(* pthread_join(threads[joined]) returns when that thread has ended.       *)
JoinThread ==
  /\ main = "join"
  /\ joined < created
  /\ pc[joined] = "exited"
  /\ joined' = joined + 1
  /\ UNCHANGED <<main, created, createFailed, joinFailed, poolRc, next, pc, idx, slot, consumed>>

(* ... or reports an error without having waited.                          *)
JoinFails ==
  /\ main = "join"
  /\ joined < created
  /\ joined' = joined + 1
  /\ joinFailed' = TRUE
  /\ UNCHANGED <<main, created, createFailed, poolRc, next, pc, idx, slot, consumed>>

(* Mutant: the join loop runs to worker_count, not to created_count.       *)
ReturnFromPoolAll ==
  /\ main = "join"
  /\ joined = WorkerCount
  /\ poolRc' = IF createFailed \/ joinFailed THEN -1 ELSE 0
  /\ main' = "consume"
  /\ UNCHANGED <<created, joined, createFailed, joinFailed, next, pc, idx, slot, consumed>>

ReturnFromPool ==
  /\ main = "join"
  /\ joined = created
  /\ poolRc' = IF createFailed \/ joinFailed THEN -1 ELSE 0
  /\ main' = "consume"
  /\ UNCHANGED <<created, joined, createFailed, joinFailed, next, pc, idx, slot, consumed>>

(* main(): report and persist result `consumed`, then free it.             *)
ConsumeResult ==
  /\ main = "consume"
  /\ consumed < TargetCount
  /\ slot' = [slot EXCEPT ![consumed] = "freed"]
  /\ consumed' = consumed + 1
  /\ UNCHANGED <<main, created, joined, createFailed, joinFailed, poolRc, next, pc, idx>>

FreeResults ==
  /\ main = "consume"
  /\ consumed = TargetCount
  /\ main' = "done"
  /\ UNCHANGED <<created, joined, createFailed, joinFailed, poolRc, next, pc, idx, slot, consumed>>

----------------------------------------------------------------------------
(* A worker thread.                                                        *)

(* Mutant: load, add and store, which loses the increment of another.      *)
ClaimNotAtomic(w) ==
  /\ pc[w] = "claim"
  /\ next' \in {next, next + 1}
  /\ next < TargetCount \/ next' = next + 1
  /\ idx' = [idx EXCEPT ![w] = next]
  /\ \/ /\ next >= TargetCount
        /\ pc' = [pc EXCEPT ![w] = "exited"]
        /\ UNCHANGED slot
     \/ /\ next < TargetCount
        /\ pc' = [pc EXCEPT ![w] = "scan"]
        /\ slot' = [slot EXCEPT ![next] = "partial"]
  /\ UNCHANGED <<main, created, joined, createFailed, joinFailed, poolRc, consumed>>

(* atomic_fetch_add of the cursor; an index past the end ends the thread.  *)
Claim(w) ==
  /\ pc[w] = "claim"
  /\ next' = next + 1
  /\ idx' = [idx EXCEPT ![w] = next]
  /\ \/ /\ next >= TargetCount
        /\ pc' = [pc EXCEPT ![w] = "exited"]
        /\ UNCHANGED slot
     \/ /\ next < TargetCount
        /\ pc' = [pc EXCEPT ![w] = "scan"]
        /\ slot' = [slot EXCEPT ![next] = "partial"]
  /\ UNCHANGED <<main, created, joined, createFailed, joinFailed, poolRc, consumed>>

(* Mutant: the result goes to the slot the cursor points behind by then.   *)
FinishScanAtCursor(w) ==
  /\ pc[w] = "scan"
  /\ \E result \in {"ok", "error"} : slot' = [slot EXCEPT ![next - 1] = result]
  /\ pc' = [pc EXCEPT ![w] = "claim"]
  /\ UNCHANGED <<main, created, joined, createFailed, joinFailed, poolRc, next, idx, consumed>>

(* cytadel_host_scan returns rc, stored in the slot.                       *)
FinishScan(w) ==
  /\ pc[w] = "scan"
  /\ \E result \in {"ok", "error"} : slot' = [slot EXCEPT ![idx[w]] = result]
  /\ pc' = [pc EXCEPT ![w] = "claim"]
  /\ UNCHANGED <<main, created, joined, createFailed, joinFailed, poolRc, next, idx, consumed>>

MainStep == EnterPool \/ CreateThread \/ CreateFails \/ AllCreated \/ JoinThread
              \/ JoinFails \/ ReturnFromPool \/ ConsumeResult \/ FreeResults

Next == MainStep \/ \E w \in Worker : Claim(w) \/ FinishScan(w)

Spec == Init /\ [][Next]_vars

(* Every thread is scheduled and every host scan ends: each of its socket  *)
(* operations has a timeout.                                               *)
Fairness == WF_vars(MainStep) /\ \A w \in Worker : WF_vars(Claim(w) \/ FinishScan(w))

FairSpec == Spec /\ Fairness

----------------------------------------------------------------------------
(* Properties.                                                             *)

(* No two workers ever write into the same slot at a time, and a slot      *)
(* being written is not one the caller has freed, unless a join failed.    *)
SlotOwnership ==
  /\ \A v, w \in Worker : pc[v] = "scan" /\ pc[w] = "scan" /\ idx[v] = idx[w] => v = w
  /\ ~joinFailed => \A w \in Worker : pc[w] = "scan" => slot[idx[w]] = "partial"

(* No target is scanned twice: a slot that holds a result keeps it until   *)
(* the caller frees it.                                                    *)
ScannedOnce ==
  [][~joinFailed => \A i \in Target :
       slot[i] \in {"ok", "error"} => slot'[i] \in {slot[i], "freed"}]_vars

(* When the pool returns after creating at least one thread, every target  *)
(* was scanned, also when a later pthread_create failed; with no thread    *)
(* created every slot is as the caller initialised it.  Either way no      *)
(* thread is left running.                                                 *)
ReturnIsComplete ==
  main = "consume" /\ ~joinFailed =>
    /\ \A w \in Worker : pc[w] \in {"none", "exited"}
    /\ \A i \in Target : i >= consumed =>
         slot[i] \in IF created > 0 THEN {"ok", "error"} ELSE {"untouched"}

(* A pool that reports success has scanned every target.                   *)
SuccessIsComplete ==
  poolRc = 0 /\ main = "consume" => \A i \in Target : i >= consumed => slot[i] \in {"ok", "error"}

(* What main reads after the pool is whole: cytadel_worker_pool_run never  *)
(* returns to a caller that frees what a thread still writes, or that      *)
(* takes an unscanned target for a result, whichever create failed.        *)
PoolIsComplete == ReturnIsComplete /\ SuccessIsComplete

(* The program gets past the pool and frees the results.                   *)
Terminates == <>(main = "done")

=============================================================================
