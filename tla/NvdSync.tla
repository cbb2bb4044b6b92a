------------------------------ MODULE NvdSync ------------------------------
(***************************************************************************)
(* The NVD delta synchronisation of `cytadel-scan sync`: the catch-up loop *)
(* of src/db/nvd_catchup.c, which drives one window of src/db/nvd_sync.c   *)
(* after another, each of which fetches page after page and hands every    *)
(* page to the transactional ingest of src/db/nvd_ingest.c.                *)
(*                                                                         *)
(* Instants are natural numbers (the code stores them as ISO-8601 text and *)
(* compares them after parsing); a CVE record is identified by its number, *)
(* and what the feed says of it by a revision count, 0 meaning "not        *)
(* published".                                                             *)
(***************************************************************************)
EXTENDS Integers, FiniteSets

CONSTANTS
  CVE,          \* the CVE identifiers, numbers in the order the feed lists them
  Malformed,    \* the ones whose record the ingest skips (process_one_cve)
  Proc,         \* the `cytadel-scan sync` processes that may be started
  NoProc,       \* nobody holds the wrapper's lock file
  PageSize,     \* results_per_page
  WindowSpan,   \* CYTADEL_NVD_CATCHUP_WINDOW_DAYS
  BulkSpan,     \* CYTADEL_NVD_CATCHUP_BULK_WINDOW_DAYS
  MaxWindows,   \* CYTADEL_NVD_CATCHUP_MAX_WINDOWS
  MaxPages,     \* CYTADEL_NVD_SYNC_MAX_PAGES
  MaxTime,      \* bound: the last instant of the model's clock
  MaxRev,       \* bound: revisions of one record
  MaxFailures,  \* bound: failed calls and killed processes
  StableFeed    \* whether the feed leaves a window alone while it is paged through

ASSUME NvdAssumption ==
  /\ CVE \subseteq Nat /\ IsFiniteSet(CVE)
  /\ Malformed \subseteq CVE
  /\ NoProc \notin Proc
  /\ PageSize \in Nat \ {0}
  /\ WindowSpan \in Nat \ {0} /\ BulkSpan \in Nat \ {0}
  /\ MaxWindows \in Nat \ {0} /\ MaxPages \in Nat \ {0}
  /\ MaxTime \in Nat /\ MaxRev \in Nat /\ MaxFailures \in Nat
  /\ StableFeed \in BOOLEAN

VARIABLES
  clock,      \* the time of day, at the feed and at the scanner
  rev,        \* rev[c]: the feed's current revision of c
  mod,        \* mod[c]: the lastModified instant of that revision
  db,         \* db[c]: the revision stored in the cves table
  watermark,  \* sync_state.last_mod_watermark of feed 'nvd'
  lock,       \* the holder of the wrapper's lock file
  pc,         \* pc[p]: where process p is
  now,        \* now[p]: its now_iso8601
  cursor,     \* cursor[p]: the start of its current window
  span,       \* span[p]: its window_days
  windows,    \* windows[p]: its windows_completed
  windowEnd,  \* windowEnd[p]: end_date of its current window
  startIndex, \* startIndex[p]: start_index_l
  pages,      \* pages[p]: the page counter of the window
  page,       \* page[p][c]: the revision of c in the fetched body, 0 if absent
  isLast,     \* isLast[p]: is_last for that body
  outcome,    \* outcome[p]: what cytadel_nvd_catchup returned
  failures    \* failed calls and kills so far

feed    == <<clock, rev, mod>>
store   == <<db, watermark>>
bounds  == <<now, cursor, span, windows>>
paging  == <<windowEnd, startIndex, pages, page, isLast>>
vars    == <<feed, store, lock, pc, bounds, paging, outcome, failures>>

Time        == 0..MaxTime
NoWatermark == -1   \* last_mod_watermark IS NULL
EpochStart  == 0    \* CYTADEL_NVD_EPOCH_START: no record is older

TypeOK ==
  /\ clock \in Nat
  /\ rev \in [CVE -> Nat] /\ mod \in [CVE -> Nat] /\ db \in [CVE -> Nat]
  /\ watermark \in Nat \cup {NoWatermark}
  /\ lock \in Proc \cup {NoProc}
  /\ pc \in [Proc -> {"idle", "read", "loop", "fetch", "ingest", "feeds"}]
  /\ now \in [Proc -> Nat] /\ cursor \in [Proc -> Nat] /\ span \in [Proc -> Nat]
  /\ windows \in [Proc -> Nat] /\ windowEnd \in [Proc -> Nat]
  /\ startIndex \in [Proc -> Nat] /\ pages \in [Proc -> Nat]
  /\ page \in [Proc -> [CVE -> Nat]] /\ isLast \in [Proc -> BOOLEAN]
  /\ outcome \in [Proc -> {"none", "ok", "error"}]
  /\ failures \in Nat

NoPage == [c \in CVE |-> 0]

Init ==
  /\ clock = 0
  /\ rev = NoPage /\ mod = NoPage /\ db = NoPage
  /\ watermark = NoWatermark
  /\ lock = NoProc
  /\ pc = [p \in Proc |-> "idle"]
  /\ now = [p \in Proc |-> 0] /\ cursor = [p \in Proc |-> 0]
  /\ span = [p \in Proc |-> 0] /\ windows = [p \in Proc |-> 0]
  /\ windowEnd = [p \in Proc |-> 0] /\ startIndex = [p \in Proc |-> 0]
  /\ pages = [p \in Proc |-> 0]
  /\ page = [p \in Proc |-> NoPage] /\ isLast = [p \in Proc |-> FALSE]
  /\ outcome = [p \in Proc |-> "none"]
  /\ failures = 0

----------------------------------------------------------------------------
(* The NVD service: records are published and revised at any time.         *)

(* The records a query for lastMod dates lo..hi lists, both ends included. *)
Listed(lo, hi) == {c \in CVE : rev[c] > 0 /\ lo <= mod[c] /\ mod[c] <= hi}

(* The position of c in the listing w.                                     *)
Rank(c, w) == Cardinality({d \in w : d < c})

(* The records of listing w from startIndex i, PageSize of them at most.   *)
Slice(w, i) == {c \in w : i <= Rank(c, w) /\ Rank(c, w) < i + PageSize}

(* Process p has fetched some pages of its window and not yet the last.    *)
MidWindow(p) == \/ pc[p] = "fetch" /\ startIndex[p] > 0
                \/ pc[p] = "ingest" /\ ~isLast[p]

Tick ==
  /\ clock < MaxTime
  /\ clock' = clock + 1
  /\ UNCHANGED <<rev, mod, store, lock, pc, bounds, paging, outcome, failures>>

Publish(c) ==
  /\ rev[c] < MaxRev
  /\ StableFeed => \A p \in Proc : ~MidWindow(p)
  /\ rev' = [rev EXCEPT ![c] = @ + 1]
  /\ mod' = [mod EXCEPT ![c] = clock]
  /\ UNCHANGED <<clock, store, lock, pc, bounds, paging, outcome, failures>>

----------------------------------------------------------------------------
(* A run of the program: lock, catch-up loop, window loop, page ingest.    *)

(* Mutant: the wrapper starts a sync without taking the lock.              *)
LockFreeNoFlock == TRUE

(* flock -n in the cron wrapper, or the single instance of a systemd unit. *)
LockFree == lock = NoProc

(* cytadel_sync_cmd_run up to cytadel_nvd_catchup: `now` is the wall clock *)
(* or an operator's --now, taken here not to lie in the future.            *)
StartSync(p, t) ==
  /\ pc[p] = "idle"
  /\ LockFree
  /\ t <= clock
  /\ lock' = p
  /\ pc' = [pc EXCEPT ![p] = "read"]
  /\ now' = [now EXCEPT ![p] = t]
  /\ UNCHANGED <<feed, store, cursor, span, windows, paging, outcome, failures>>

(* Mutant: the NULL watermark of a first run is used as an instant.        *)
ReadWatermarkNoNull(p) ==
  /\ pc[p] = "read"
  /\ pc' = [pc EXCEPT ![p] = "loop"]
  /\ cursor' = [cursor EXCEPT ![p] = watermark]
  /\ span' = [span EXCEPT ![p] = WindowSpan]
  /\ UNCHANGED <<feed, store, lock, now, windows, paging, outcome, failures>>

(* read_watermark and the choice between bulk load and routine catch-up.   *)
ReadWatermark(p) ==
  /\ pc[p] = "read"
  /\ pc' = [pc EXCEPT ![p] = "loop"]
  /\ \/ /\ watermark = NoWatermark
        /\ cursor' = [cursor EXCEPT ![p] = EpochStart]
        /\ span' = [span EXCEPT ![p] = BulkSpan]
     \/ /\ watermark # NoWatermark
        /\ cursor' = [cursor EXCEPT ![p] = watermark]
        /\ span' = [span EXCEPT ![p] = WindowSpan]
  /\ UNCHANGED <<feed, store, lock, now, windows, paging, outcome, failures>>

(* cytadel_nvd_catchup returns; KEV and EPSS run next whatever it said.    *)
Return(p, result) ==
  /\ pc' = [pc EXCEPT ![p] = "feeds"]
  /\ outcome' = [outcome EXCEPT ![p] = result]

(* Mutant: the last, shorter window is taken to be done already.           *)
CaughtUpEarly(p) ==
  /\ pc[p] = "loop"
  /\ cursor[p] + span[p] > now[p]
  /\ Return(p, "ok")
  /\ UNCHANGED <<feed, store, lock, bounds, paging, failures>>

CaughtUp(p) ==
  /\ pc[p] = "loop"
  /\ cursor[p] >= now[p]
  /\ Return(p, "ok")
  /\ UNCHANGED <<feed, store, lock, bounds, paging, failures>>

TooManyWindows(p) ==
  /\ pc[p] = "loop"
  /\ cursor[p] < now[p]
  /\ windows[p] >= MaxWindows
  /\ Return(p, "error")
  /\ UNCHANGED <<feed, store, lock, bounds, paging, failures>>

EndOfWindow(p) == IF cursor[p] + span[p] < now[p] THEN cursor[p] + span[p] ELSE now[p]

StartWindow(p) ==
  /\ pc[p] = "loop"
  /\ cursor[p] < now[p]
  /\ windows[p] < MaxWindows
  /\ pc' = [pc EXCEPT ![p] = "fetch"]
  /\ windowEnd' = [windowEnd EXCEPT ![p] = EndOfWindow(p)]
  /\ startIndex' = [startIndex EXCEPT ![p] = 0]
  /\ pages' = [pages EXCEPT ![p] = 0]
  /\ UNCHANGED <<feed, store, lock, bounds, page, isLast, outcome, failures>>

(* Mutant: off by one, the page before the last one passes for the last.   *)
IsLastPageTooSoon(i, total) == total = 0 \/ i + PageSize + 1 >= total

(* is_last: no result at all, or the page reaches the last of them.        *)
IsLastPage(i, total) == total = 0 \/ i + PageSize >= total

FetchPage(p) ==
  LET w == Listed(cursor[p], windowEnd[p])
  IN  /\ pc[p] = "fetch"
      /\ pages[p] < MaxPages
      /\ pc' = [pc EXCEPT ![p] = "ingest"]
      /\ page' = [page EXCEPT ![p] =
                    [c \in CVE |-> IF c \in Slice(w, startIndex[p]) THEN rev[c] ELSE 0]]
      /\ isLast' = [isLast EXCEPT ![p] = IsLastPage(startIndex[p], Cardinality(w))]
      /\ UNCHANGED <<feed, store, lock, bounds, windowEnd, startIndex, pages,
                     outcome, failures>>

PageCapReached(p) ==
  /\ pc[p] = "fetch"
  /\ pages[p] >= MaxPages
  /\ Return(p, "error")
  /\ UNCHANGED <<feed, store, lock, bounds, paging, failures>>

(* The upserts of one page: a malformed record is skipped, no other is.    *)
Upsert(p) == [c \in CVE |-> IF page[p][c] > 0 /\ c \notin Malformed
                            THEN page[p][c] ELSE db[c]]

(* Mutant: the PARTIAL update moves the watermark too.                     *)
NewWatermarkEveryPage(p) == windowEnd[p]

(* The sync_state update of the page's transaction: COMPLETE or PARTIAL.   *)
NewWatermark(p) == IF isLast[p] THEN windowEnd[p] ELSE watermark

(* cytadel_nvd_ingest_page commits, and the two loops advance.             *)
IngestPage(p) ==
  /\ pc[p] = "ingest"
  /\ db' = Upsert(p)
  /\ watermark' = NewWatermark(p)
  /\ \/ /\ isLast[p]
        /\ pc' = [pc EXCEPT ![p] = "loop"]
        /\ cursor' = [cursor EXCEPT ![p] = windowEnd[p]]
        /\ windows' = [windows EXCEPT ![p] = @ + 1]
        /\ UNCHANGED <<startIndex, pages>>
     \/ /\ ~isLast[p]
        /\ pc' = [pc EXCEPT ![p] = "fetch"]
        /\ startIndex' = [startIndex EXCEPT ![p] = @ + PageSize]
        /\ pages' = [pages EXCEPT ![p] = @ + 1]
        /\ UNCHANGED <<cursor, windows>>
  /\ page' = [page EXCEPT ![p] = NoPage]
  /\ isLast' = [isLast EXCEPT ![p] = FALSE]
  /\ UNCHANGED <<feed, lock, now, span, windowEnd, outcome, failures>>

(* read_watermark, the fetch (all its retries), totalResults or the page's *)
(* transaction failed: nothing of the page is kept, the catch-up stops.    *)
CallFails(p) ==
  /\ pc[p] \in {"read", "fetch", "ingest"}
  /\ failures < MaxFailures
  /\ failures' = failures + 1
  /\ Return(p, "error")
  /\ UNCHANGED <<feed, store, lock, bounds, paging>>

(* Mutant: a lock file that exists is a lock, and a killed run leaves it.  *)
ExitKeepsLock(p) ==
  /\ pc' = [pc EXCEPT ![p] = "idle"]
  /\ now' = [now EXCEPT ![p] = 0] /\ cursor' = [cursor EXCEPT ![p] = 0]
  /\ span' = [span EXCEPT ![p] = 0] /\ windows' = [windows EXCEPT ![p] = 0]
  /\ windowEnd' = [windowEnd EXCEPT ![p] = 0]
  /\ startIndex' = [startIndex EXCEPT ![p] = 0]
  /\ pages' = [pages EXCEPT ![p] = 0]
  /\ page' = [page EXCEPT ![p] = NoPage]
  /\ isLast' = [isLast EXCEPT ![p] = FALSE]
  /\ outcome' = [outcome EXCEPT ![p] = "none"]
  /\ UNCHANGED lock

(* The process is gone: the kernel drops its lock and its memory, SQLite a *)
(* transaction it had open.                                                *)
Exit(p) ==
  /\ pc' = [pc EXCEPT ![p] = "idle"]
  /\ lock' = IF lock = p THEN NoProc ELSE lock
  /\ now' = [now EXCEPT ![p] = 0] /\ cursor' = [cursor EXCEPT ![p] = 0]
  /\ span' = [span EXCEPT ![p] = 0] /\ windows' = [windows EXCEPT ![p] = 0]
  /\ windowEnd' = [windowEnd EXCEPT ![p] = 0]
  /\ startIndex' = [startIndex EXCEPT ![p] = 0]
  /\ pages' = [pages EXCEPT ![p] = 0]
  /\ page' = [page EXCEPT ![p] = NoPage]
  /\ isLast' = [isLast EXCEPT ![p] = FALSE]
  /\ outcome' = [outcome EXCEPT ![p] = "none"]

FinishSync(p) ==
  /\ pc[p] = "feeds"
  /\ Exit(p)
  /\ UNCHANGED <<feed, store, failures>>

Kill(p) ==
  /\ pc[p] # "idle"
  /\ failures < MaxFailures
  /\ failures' = failures + 1
  /\ Exit(p)
  /\ UNCHANGED <<feed, store>>

Step(p) ==
  \/ ReadWatermark(p) \/ CaughtUp(p) \/ TooManyWindows(p) \/ StartWindow(p)
  \/ FetchPage(p) \/ PageCapReached(p) \/ IngestPage(p) \/ FinishSync(p)

Next ==
  \/ Tick
  \/ \E c \in CVE : Publish(c)
  \/ \E p \in Proc, t \in Time : StartSync(p, t)
  \/ \E p \in Proc : Step(p) \/ CallFails(p) \/ Kill(p)

Spec == Init /\ [][Next]_vars

(* Time passes, the timer is not locked out for ever by runs somebody else *)
(* starts, and a process that is not killed keeps running.                 *)
Fairness ==
  /\ WF_vars(Tick)
  /\ SF_vars(\E p \in Proc : StartSync(p, clock))
  /\ \A p \in Proc : WF_vars(Step(p))

FairSpec == Spec /\ Fairness
----------------------------------------------------------------------------
(* Properties.                                                             *)

(* Whatever crashed or failed, every well-formed record last modified      *)
(* before the stored watermark is in the database in its current revision: *)
(* the next run, which only asks for records modified since, misses none   *)
(* ("never skipping data", nvd_sync.h).                                    *)
WatermarkCovers ==
  \A c \in CVE \ Malformed :
    rev[c] > 0 /\ mod[c] < watermark => db[c] = rev[c]

(* A catch-up that returned OK left a watermark at its `now` or later (a   *)
(* `now` at the epoch asks for nothing).                                   *)
OkMeansCaughtUp ==
  \A p \in Proc : outcome[p] = "ok" /\ now[p] > EpochStart => watermark >= now[p]

(* No page ever replaces a stored record by an older revision of it: the   *)
(* upsert is unconditional, so this rests on the order of fetch and commit.*)
NoStaleOverwrite == [][\A c \in CVE : db'[c] >= db[c]]_vars

(* The watermark never moves back: no run undoes the progress of another,  *)
(* although the COMPLETE update stores its window's end unconditionally.   *)
WatermarkNeverRegresses == [][watermark' >= watermark]_vars

(* What one run stored no other undoes, neither a record nor the progress, *)
(* with two runs, failures and kills.                                      *)
OnlyAdvances == NoStaleOverwrite /\ WatermarkNeverRegresses

(* As long as calls do not fail for ever, every revision the feed ever     *)
(* shows is stored, or a newer one is (those of the model's last instant   *)
(* apart: no later instant exists to ask for them).                        *)
EventuallyStored ==
  \A c \in CVE \ Malformed, r \in 1..MaxRev :
    (rev[c] = r /\ mod[c] < MaxTime) ~> (db[c] >= r)

(* The synchronisation implements a mirror with an exact watermark.        *)
Mirror == INSTANCE CveMirror
MirrorSpec == Mirror!Spec
============================================================================
