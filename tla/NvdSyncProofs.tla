--------------------------- MODULE NvdSyncProofs ---------------------------
(***************************************************************************)
(* Proofs about NvdSync, for every set of records and processes, every     *)
(* page size, window length and cap: the watermark covers the corpus, no   *)
(* page overwrites a newer revision, and the synchronisation implements    *)
(* CveMirror.  All need the feed to leave a window alone while it is paged *)
(* through (StableFeed).  The last part is about the calendar of the       *)
(* watermark and the windows.                                              *)
(***************************************************************************)
EXTENDS NvdSync, CalendarCalls, FiniteSetTheorems, SequenceTheorems, WellFoundedInduction, TLAPS

(* A running process holds the lock, so there is at most one.              *)
LockInv == \A p \in Proc : pc[p] # "idle" => lock = p

(* Nothing is dated in the future, nothing stored is newer than the feed.  *)
PastInv == /\ \A c \in CVE : mod[c] <= clock /\ db[c] <= rev[c]
           /\ watermark <= clock
           /\ \A p \in Proc : now[p] <= clock

(* A run's window starts at the watermark and ends no later than its now.  *)
WindowInv ==
  \A p \in Proc :
    /\ pc[p] \in {"loop", "fetch", "ingest"} =>
         cursor[p] = IF watermark = NoWatermark THEN EpochStart ELSE watermark
    /\ pc[p] \in {"loop", "fetch", "ingest"} => span[p] > 0
    /\ pc[p] \in {"fetch", "ingest"} => cursor[p] < windowEnd[p] /\ windowEnd[p] <= now[p]

(* A fetched body is no older than the stored rows it will replace.        *)
BodyInv ==
  \A p \in Proc, c \in CVE :
    pc[p] = "ingest" /\ page[p][c] > 0 => db[c] <= page[p][c] /\ page[p][c] <= rev[c]

(* Record c is current once the body of p is ingested.                     *)
Settled(p, c) == page[p][c] = rev[c] \/ (page[p][c] = 0 /\ db[c] = rev[c])

(* The window of p and the position of c in it.                            *)
Window(p) == Listed(cursor[p], windowEnd[p])
Pos(p, c) == Rank(c, Window(p))

(* The positions of the window already paged through are current; when the *)
(* last page is in hand, all records dated before the window's end are.    *)
FetchInv ==
  \A p \in Proc : \A c \in CVE \ Malformed :
    pc[p] = "fetch" /\ c \in Window(p) /\ Pos(p, c) < startIndex[p] => db[c] = rev[c]

IngestInv ==
  \A p \in Proc : \A c \in CVE \ Malformed :
    pc[p] = "ingest" /\ ~isLast[p] /\ c \in Window(p) /\ Pos(p, c) < startIndex[p] + PageSize
      => Settled(p, c)

LastInv ==
  \A p \in Proc : \A c \in CVE \ Malformed :
    pc[p] = "ingest" /\ isLast[p] /\ rev[c] > 0 /\ cursor[p] <= mod[c] /\ mod[c] < windowEnd[p]
      => Settled(p, c)

(* The inductive invariant: the safety part, and the part that pages need. *)
RunInv  == TypeOK /\ LockInv /\ PastInv /\ WindowInv /\ BodyInv
PageInv == FetchInv /\ IngestInv /\ LastInv
IInv    == RunInv /\ PageInv /\ WatermarkCovers

----------------------------------------------------------------------------
(* A listed record has a position below the listing's length.              *)
LEMMA RankBelowTotal ==
  ASSUME NEW w, w \subseteq Nat, IsFiniteSet(w), NEW c \in w
  PROVE  /\ Rank(c, w) \in Nat
         /\ Cardinality(w) \in Nat
         /\ Rank(c, w) < Cardinality(w)
<1> DEFINE below == {d \in w : d < c}
<1>1. below \subseteq w /\ below # w
  <2>1. c \notin below
    BY c \in Nat
  <2> QED  BY <2>1
<1>2. /\ IsFiniteSet(below)
      /\ Cardinality(below) <= Cardinality(w)
      /\ Cardinality(below) # Cardinality(w)
  BY <1>1, FS_Subset
<1>3. Cardinality(below) \in Nat /\ Cardinality(w) \in Nat
  BY <1>2, FS_CardinalityType
<1> HIDE DEF below
<1>4. Cardinality(below) < Cardinality(w)
  BY <1>2, <1>3
<1> QED  BY <1>3, <1>4 DEF Rank, below

(* A listing is a finite set of numbers.                                   *)
LEMMA ListedFinite ==
  ASSUME NEW lo, NEW hi
  PROVE  Listed(lo, hi) \subseteq Nat /\ IsFiniteSet(Listed(lo, hi))
BY NvdAssumption, FS_Subset DEF Listed

(* Every step of the synchronisation keeps its state well typed.           *)
LEMMA TypeStep == TypeOK /\ [Next]_vars => TypeOK'
<1> SUFFICES ASSUME TypeOK, [Next]_vars PROVE TypeOK'
  OBVIOUS
<1> USE NvdAssumption DEF TypeOK, feed, store, bounds, paging
<1>1. CASE Tick
  BY <1>1 DEF Tick
<1>2. ASSUME NEW c \in CVE, Publish(c) PROVE TypeOK'
  BY <1>2 DEF Publish
<1>3. ASSUME NEW p \in Proc, NEW t \in Time, StartSync(p, t) PROVE TypeOK'
  BY <1>3 DEF StartSync, Time
<1>4. ASSUME NEW p \in Proc PROVE Step(p) \/ CallFails(p) \/ Kill(p) => TypeOK'
  <2> SUFFICES ASSUME Step(p) \/ CallFails(p) \/ Kill(p) PROVE TypeOK'
    OBVIOUS
  <2>1. CASE ReadWatermark(p)
    <3>1. PICK x \in Nat, y \in Nat : cursor' = [cursor EXCEPT ![p] = x] /\ span' = [span EXCEPT ![p] = y]
      BY <2>1 DEF ReadWatermark, EpochStart
    <3> QED  BY <2>1, <3>1 DEF ReadWatermark
  <2>2. CASE CaughtUp(p) \/ TooManyWindows(p) \/ PageCapReached(p) \/ CallFails(p)
    <3>1. PICK r \in {"ok", "error"} : Return(p, r)
      BY <2>2 DEF CaughtUp, TooManyWindows, PageCapReached, CallFails
    <3>2. UNCHANGED <<feed, store, lock, bounds, paging>> /\ failures' \in Nat
      BY <2>2 DEF CaughtUp, TooManyWindows, PageCapReached, CallFails
    <3> QED  BY <3>1, <3>2 DEF Return
  <2>3. CASE StartWindow(p)
    <3>1. EndOfWindow(p) \in Nat
      BY DEF EndOfWindow
    <3> QED  BY <2>3, <3>1 DEF StartWindow
  <2>4. CASE FetchPage(p)
    <3> DEFINE body == [c \in CVE |-> IF c \in Slice(Listed(cursor[p], windowEnd[p]), startIndex[p])
                                       THEN rev[c] ELSE 0]
               last == IsLastPage(startIndex[p], Cardinality(Listed(cursor[p], windowEnd[p])))
    <3>1. body \in [CVE -> Nat] /\ last \in BOOLEAN
      BY DEF IsLastPage
    <3>2. page' = [page EXCEPT ![p] = body] /\ isLast' = [isLast EXCEPT ![p] = last]
      BY <2>4 DEF FetchPage
    <3> HIDE DEF body, last
    <3> QED  BY <2>4, <3>1, <3>2 DEF FetchPage
  <2>5. CASE IngestPage(p)
    <3>1. Upsert(p) \in [CVE -> Nat]
      BY DEF Upsert
    <3>2. NewWatermark(p) \in Nat \cup {NoWatermark}
      BY DEF NewWatermark
    <3>3. NoPage \in [CVE -> Nat]
      BY DEF NoPage
    <3>4. /\ db' \in [CVE -> Nat] /\ watermark' \in Nat \cup {NoWatermark}
          /\ page' \in [Proc -> [CVE -> Nat]] /\ isLast' \in [Proc -> BOOLEAN]
      BY <2>5, <3>1, <3>2, <3>3 DEF IngestPage
    <3>5. /\ pc' \in [Proc -> {"idle", "read", "loop", "fetch", "ingest", "feeds"}]
          /\ cursor' \in [Proc -> Nat] /\ windows' \in [Proc -> Nat]
          /\ startIndex' \in [Proc -> Nat] /\ pages' \in [Proc -> Nat]
      <4>1. CASE isLast[p]
        <5>1. /\ pc' = [pc EXCEPT ![p] = "loop"]
              /\ cursor' = [cursor EXCEPT ![p] = windowEnd[p]]
              /\ windows' = [windows EXCEPT ![p] = @ + 1]
              /\ UNCHANGED <<startIndex, pages>>
          BY <2>5, <4>1, Zenon DEF IngestPage
        <5> QED  BY <5>1
      <4>2. CASE ~isLast[p]
        <5>1. /\ pc' = [pc EXCEPT ![p] = "fetch"]
              /\ startIndex' = [startIndex EXCEPT ![p] = @ + PageSize]
              /\ pages' = [pages EXCEPT ![p] = @ + 1]
              /\ UNCHANGED <<cursor, windows>>
          BY <2>5, <4>2, Zenon DEF IngestPage
        <5> QED  BY <5>1
      <4> QED  BY <4>1, <4>2
    <3> QED  BY <2>5, <3>4, <3>5 DEF IngestPage
  <2>6. CASE FinishSync(p) \/ Kill(p)
    <3>1. Exit(p) /\ UNCHANGED <<feed, store>> /\ failures' \in Nat
      BY <2>6 DEF FinishSync, Kill
    <3>2. NoPage \in [CVE -> Nat]
      BY DEF NoPage
    <3> QED  BY <3>1, <3>2 DEF Exit
  <2> QED  BY <2>1, <2>2, <2>3, <2>4, <2>5, <2>6 DEF Step
<1>5. CASE UNCHANGED vars
  BY <1>5 DEF vars
<1> QED  BY <1>1, <1>2, <1>3, <1>4, <1>5 DEF Next

(* What the commit of a page does, by whether it was the window's last.    *)
LEMMA IngestCases ==
  ASSUME NEW p \in Proc, IngestPage(p)
  PROVE  /\ pc[p] = "ingest" /\ db' = Upsert(p)
         /\ page' = [page EXCEPT ![p] = NoPage]
         /\ UNCHANGED <<clock, rev, mod, lock, now, span, windowEnd, outcome, failures>>
         /\ \/ /\ isLast[p] /\ pc' = [pc EXCEPT ![p] = "loop"]
               /\ cursor' = [cursor EXCEPT ![p] = windowEnd[p]]
               /\ watermark' = windowEnd[p] /\ UNCHANGED startIndex
            \/ /\ ~isLast[p] /\ pc' = [pc EXCEPT ![p] = "fetch"]
               /\ startIndex' = [startIndex EXCEPT ![p] = @ + PageSize]
               /\ UNCHANGED <<cursor, watermark>>
<1>1. CASE isLast[p]
  BY <1>1, Zenon DEF IngestPage, NewWatermark, feed
<1>2. CASE ~isLast[p]
  BY <1>2, Zenon DEF IngestPage, NewWatermark, feed
<1> QED  BY <1>1, <1>2

(* Only the lock's holder runs.                                            *)
LEMMA OnlyOneRuns ==
  ASSUME TypeOK, LockInv, NEW p \in Proc, pc[p] # "idle", NEW q \in Proc, q # p
  PROVE  pc[q] = "idle"
BY DEF LockInv

(* Every step keeps the lock, the run's local variables and the            *)
(* watermark related as RunInv says.                                       *)
LEMMA RunStep == RunInv /\ [Next]_vars => RunInv'
<1> SUFFICES ASSUME RunInv, [Next]_vars PROVE RunInv'
  OBVIOUS
<1> USE NvdAssumption DEF RunInv, TypeOK, feed, store, bounds, paging
<1>0. TypeOK'
  BY TypeStep
<1>1. CASE Tick
  BY <1>0, <1>1 DEF Tick, LockInv, PastInv, WindowInv, BodyInv
<1>2. ASSUME NEW c \in CVE, Publish(c) PROVE RunInv'
  BY <1>0, <1>2 DEF Publish, LockInv, PastInv, WindowInv, BodyInv
<1>3. ASSUME NEW p \in Proc, NEW t \in Time, StartSync(p, t) PROVE RunInv'
  <2>1. \A q \in Proc : pc[q] = "idle"
    BY <1>3 DEF StartSync, LockFree, LockInv
  <2> QED  BY <1>0, <1>3, <2>1 DEF StartSync, Time, LockInv, PastInv, WindowInv, BodyInv
<1>4. ASSUME NEW p \in Proc, Step(p) \/ CallFails(p) \/ Kill(p) PROVE RunInv'
  <2>0. pc[p] # "idle" /\ \A q \in Proc : q # p => pc[q] = "idle"
    <3>1. pc[p] # "idle"
      BY <1>4 DEF Step, ReadWatermark, CaughtUp, TooManyWindows, StartWindow, FetchPage,
                 PageCapReached, IngestPage, FinishSync, CallFails, Kill
    <3> QED  BY <3>1, OnlyOneRuns
  <2>1. CASE ReadWatermark(p)
    BY <1>0, <2>0, <2>1 DEF ReadWatermark, LockInv, PastInv, WindowInv, BodyInv
  <2>2. CASE CaughtUp(p) \/ TooManyWindows(p) \/ PageCapReached(p) \/ CallFails(p)
    <3>1. pc' = [pc EXCEPT ![p] = "feeds"] /\ UNCHANGED <<feed, store, lock, bounds, paging>>
      BY <2>2 DEF CaughtUp, TooManyWindows, PageCapReached, CallFails, Return
    <3> QED  BY <1>0, <2>0, <3>1 DEF LockInv, PastInv, WindowInv, BodyInv
  <2>3. CASE StartWindow(p)
    <3>1. EndOfWindow(p) \in Nat /\ (cursor[p] < now[p] /\ span[p] > 0 =>
            cursor[p] < EndOfWindow(p) /\ EndOfWindow(p) <= now[p])
      BY DEF EndOfWindow
    <3> QED  BY <1>0, <2>0, <2>3, <3>1 DEF StartWindow, LockInv, PastInv, WindowInv, BodyInv
  <2>4. CASE FetchPage(p)
    <3>1. /\ pc[p] = "fetch" /\ pc' = [pc EXCEPT ![p] = "ingest"]
          /\ \A c \in CVE : page'[p][c] > 0 => page'[p][c] = rev[c]
          /\ UNCHANGED <<feed, store, lock, bounds, windowEnd>>
      BY <2>4 DEF FetchPage
    <3> QED  BY <1>0, <2>0, <3>1 DEF LockInv, PastInv, WindowInv, BodyInv
  <2>5. CASE IngestPage(p)
    <3>1. \A c \in CVE : db'[c] <= rev[c]
      <4>1. pc[p] = "ingest" /\ \A c \in CVE : db'[c] = Upsert(p)[c]
        BY <2>5, IngestCases
      <4>2. \A c \in CVE : Upsert(p)[c] = db[c] \/ (page[p][c] > 0 /\ Upsert(p)[c] = page[p][c])
        BY DEF Upsert
      <4> QED  BY <4>1, <4>2 DEF BodyInv, PastInv
    <3>2. LockInv' /\ BodyInv'
      <4>1. \A q \in Proc : pc'[q] # "ingest" /\ (pc'[q] # "idle" => q = p)
        BY <2>0, <2>5, IngestCases
      <4>2. lock' = p
        BY <2>0, <2>5, IngestCases DEF LockInv
      <4> QED  BY <4>1, <4>2 DEF LockInv, BodyInv
    <3>3. PastInv'
      BY <1>0, <2>5, <3>1, IngestCases DEF PastInv, WindowInv
    <3>4. WindowInv'
      BY <1>0, <2>0, <2>5, IngestCases DEF WindowInv, NoWatermark
    <3> QED  BY <1>0, <3>2, <3>3, <3>4
  <2>6. CASE FinishSync(p) \/ Kill(p)
    <3>1. Exit(p) /\ UNCHANGED <<feed, store>>
      BY <2>6 DEF FinishSync, Kill
    <3> QED  BY <1>0, <2>0, <3>1 DEF Exit, LockInv, PastInv, WindowInv, BodyInv
  <2> QED  BY <1>4, <2>1, <2>2, <2>3, <2>4, <2>5, <2>6 DEF Step
<1>5. CASE UNCHANGED vars
  BY <1>0, <1>5 DEF vars, LockInv, PastInv, WindowInv, BodyInv
<1> QED  BY <1>1, <1>2, <1>3, <1>4, <1>5 DEF Next

(* A step that leaves the feed and a window's bounds alone leaves the      *)
(* window and the positions in it alone.                                   *)
LEMMA WindowUnchanged ==
  ASSUME NEW p \in Proc, NEW c, UNCHANGED <<rev, mod>>,
         cursor'[p] = cursor[p], windowEnd'[p] = windowEnd[p]
  PROVE  Window(p)' = Window(p) /\ Pos(p, c)' = Pos(p, c)
BY DEF Window, Pos, Listed, Rank

(* Positions are numbers, below the window's length.                       *)
PosOK == \A p \in Proc : \A c \in Window(p) :
           /\ Pos(p, c) \in Nat /\ Cardinality(Window(p)) \in Nat
           /\ Pos(p, c) < Cardinality(Window(p))

(* Positions in a window's listing are numbers below its length.           *)
LEMMA PosType == PosOK
<1> SUFFICES ASSUME NEW p \in Proc, NEW c \in Window(p)
             PROVE  /\ Pos(p, c) \in Nat /\ Cardinality(Window(p)) \in Nat
                    /\ Pos(p, c) < Cardinality(Window(p))
  BY DEF PosOK
<1>1. Window(p) \subseteq Nat /\ IsFiniteSet(Window(p))
  BY ListedFinite DEF Window
<1> QED  BY <1>1, RankBelowTotal DEF Pos

(* Where nothing is paged through, there is nothing to say about pages.    *)
LEMMA NoPaging ==
  ASSUME \A p \in Proc : pc[p] \notin {"fetch", "ingest"}
  PROVE  PageInv
BY DEF PageInv, FetchInv, IngestInv, LastInv

(* Every step of a stable feed and of the processes keeps the account of   *)
(* the pages: what was fetched, what was stored, what is left to fetch.    *)
LEMMA PageStep ==
  ASSUME StableFeed, IInv, [Next]_vars, RunInv'
  PROVE  PageInv' /\ WatermarkCovers'
<1> USE NvdAssumption DEF IInv, RunInv, TypeOK, feed, store, bounds, paging
<1>0. PosOK /\ PosOK'
  BY PosType, PTL
<1>1. ASSUME \A p \in Proc : pc'[p] \notin {"fetch", "ingest"}, UNCHANGED <<rev, mod, db, watermark>>
      PROVE  PageInv' /\ WatermarkCovers'
  BY <1>1, NoPaging DEF PageInv, FetchInv, IngestInv, LastInv, WatermarkCovers
<1>2. CASE Tick \/ UNCHANGED vars
  <2>1. UNCHANGED <<rev, mod, db, watermark, pc, cursor, windowEnd, startIndex, page, isLast>>
    BY <1>2 DEF Tick, vars
  <2>2. \A p \in Proc : Window(p)' = Window(p) /\ \A c : Pos(p, c)' = Pos(p, c)
    BY <2>1, WindowUnchanged
  <2> QED  BY <2>1, <2>2 DEF PageInv, FetchInv, IngestInv, LastInv, WatermarkCovers, Settled
<1>3. ASSUME NEW k \in CVE, Publish(k) PROVE PageInv' /\ WatermarkCovers'
  <2>1. /\ \A p \in Proc : ~MidWindow(p)
        /\ mod' = [mod EXCEPT ![k] = clock] /\ rev' = [rev EXCEPT ![k] = @ + 1]
        /\ UNCHANGED <<db, watermark, pc, cursor, windowEnd, startIndex, page, isLast, now>>
    BY <1>3 DEF Publish
  <2>2. FetchInv'
    <3>1. ASSUME NEW p \in Proc, pc[p] = "fetch", NEW c \in Window(p)'
          PROVE  ~(Pos(p, c)' < startIndex[p])
      <4>1. startIndex[p] = 0
        BY <2>1, <3>1 DEF MidWindow
      <4>2. Pos(p, c)' \in Nat
        BY <1>0, <3>1 DEF PosOK
      <4> QED  BY <4>1, <4>2
    <3> QED  BY <2>1, <3>1 DEF FetchInv
  <2>3. IngestInv'
    BY <2>1 DEF IngestInv, MidWindow
  <2>4. LastInv'
    BY <2>1 DEF LastInv, PageInv, Settled, WindowInv, PastInv
  <2>5. WatermarkCovers'
    BY <2>1 DEF WatermarkCovers, PastInv
  <2> QED  BY <2>2, <2>3, <2>4, <2>5 DEF PageInv
<1>4. ASSUME NEW p \in Proc, NEW t \in Time, StartSync(p, t) PROVE PageInv' /\ WatermarkCovers'
  <2>1. \A q \in Proc : pc[q] = "idle"
    BY <1>4 DEF StartSync, LockFree, LockInv
  <2> QED  BY <1>1, <1>4, <2>1 DEF StartSync
<1>5. ASSUME NEW p \in Proc, Step(p) \/ CallFails(p) \/ Kill(p) PROVE PageInv' /\ WatermarkCovers'
  <2>0. pc[p] # "idle" /\ \A q \in Proc : q # p => pc[q] = "idle"
    <3>1. pc[p] # "idle"
      BY <1>5 DEF Step, ReadWatermark, CaughtUp, TooManyWindows, StartWindow, FetchPage,
                 PageCapReached, IngestPage, FinishSync, CallFails, Kill
    <3> QED  BY <3>1, OnlyOneRuns
  <2>1. CASE ReadWatermark(p) \/ CaughtUp(p) \/ TooManyWindows(p) \/ PageCapReached(p)
             \/ CallFails(p) \/ FinishSync(p) \/ Kill(p)
    <3>1. /\ \E s \in {"loop", "feeds", "idle"} : pc' = [pc EXCEPT ![p] = s]
          /\ UNCHANGED <<rev, mod, db, watermark>>
      BY <2>1 DEF ReadWatermark, CaughtUp, TooManyWindows, PageCapReached, CallFails, FinishSync,
                 Kill, Return, Exit
    <3> QED  BY <1>1, <2>0, <3>1
  <2>2. CASE StartWindow(p)
    <3>1. /\ pc' = [pc EXCEPT ![p] = "fetch"] /\ startIndex' = [startIndex EXCEPT ![p] = 0]
          /\ UNCHANGED <<rev, mod, db, watermark>>
      BY <2>2 DEF StartWindow
    <3>2. FetchInv'
      BY <1>0, <2>0, <3>1 DEF FetchInv, PosOK
    <3> QED  BY <2>0, <3>1, <3>2 DEF PageInv, IngestInv, LastInv, WatermarkCovers
  <2>3. CASE FetchPage(p)
    <3>1. /\ pc[p] = "fetch" /\ pc' = [pc EXCEPT ![p] = "ingest"]
          /\ page' = [page EXCEPT ![p] = [c \in CVE |-> IF c \in Slice(Window(p), startIndex[p])
                                                         THEN rev[c] ELSE 0]]
          /\ isLast' = [isLast EXCEPT ![p] = IsLastPage(startIndex[p], Cardinality(Window(p)))]
          /\ UNCHANGED <<rev, mod, db, watermark, cursor, windowEnd, startIndex>>
      BY <2>3 DEF FetchPage, Window
    <3>2. ASSUME NEW c \in CVE \ Malformed, c \in Window(p), Pos(p, c) < startIndex[p] + PageSize
          PROVE  Settled(p, c)'
      <4>1. Pos(p, c) \in Nat
        BY <1>0, <3>2 DEF PosOK
      <4>2. c \in Slice(Window(p), startIndex[p]) <=> startIndex[p] <= Pos(p, c)
        BY <3>2 DEF Slice, Pos
      <4>3. CASE startIndex[p] <= Pos(p, c)
        BY <3>1, <4>2, <4>3 DEF Settled
      <4>4. CASE Pos(p, c) < startIndex[p]
        <5>1. db[c] = rev[c]
          BY <3>1, <3>2, <4>4 DEF PageInv, FetchInv
        <5> QED  BY <3>1, <4>1, <4>2, <4>4, <5>1 DEF Settled
      <4> QED  BY <4>1, <4>3, <4>4
    <3>3. Window(p)' = Window(p) /\ \A c : Pos(p, c)' = Pos(p, c)
      BY <3>1, WindowUnchanged
    <3>4. \A q \in Proc : pc'[q] \in {"fetch", "ingest"} => q = p /\ pc'[q] = "ingest"
      BY <2>0, <3>1
    <3>5. FetchInv' /\ IngestInv'
      BY <3>1, <3>2, <3>3, <3>4 DEF FetchInv, IngestInv
    <3>6. LastInv'
      <4>1. SUFFICES ASSUME NEW c \in CVE \ Malformed, isLast'[p], rev[c] > 0,
                            cursor[p] <= mod[c], mod[c] < windowEnd[p]
                     PROVE  Settled(p, c)'
        BY <3>1, <3>4 DEF LastInv
      <4>2. c \in Window(p)
        BY <4>1 DEF Window, Listed
      <4>3. IsLastPage(startIndex[p], Cardinality(Window(p)))
        BY <3>1, <4>1, Zenon
      <4>4. Pos(p, c) < startIndex[p] + PageSize
        BY <1>0, <4>2, <4>3 DEF PosOK, IsLastPage
      <4> QED  BY <3>2, <4>2, <4>4
    <3> QED  BY <3>1, <3>5, <3>6 DEF PageInv, WatermarkCovers
  <2>4. CASE IngestPage(p)
    <3>1. \A c \in CVE \ Malformed : (rev[c] > 0 /\ Settled(p, c)) \/ db[c] = rev[c] => db'[c] = rev[c]
      BY <2>4, IngestCases DEF Upsert, Settled, BodyInv
    <3>2. \A q \in Proc : pc'[q] \in {"fetch", "ingest"} => q = p /\ pc'[q] = "fetch"
      BY <2>0, <2>4, IngestCases
    <3>3. CASE isLast[p]
      <4>1. pc' = [pc EXCEPT ![p] = "loop"] /\ watermark' = windowEnd[p] /\ UNCHANGED <<rev, mod>>
        BY <2>4, <3>3, IngestCases, Zenon
      <4>2. PageInv'
        BY <2>0, <4>1 DEF PageInv, FetchInv, IngestInv, LastInv
      <4>3. ASSUME NEW c \in CVE \ Malformed, rev[c] > 0, mod[c] < windowEnd[p] PROVE db'[c] = rev[c]
        <5>1. pc[p] = "ingest"
          BY <2>4, IngestCases
        <5>2. CASE cursor[p] <= mod[c]
          BY <3>1, <3>3, <4>3, <5>1, <5>2 DEF PageInv, LastInv
        <5>3. CASE mod[c] < cursor[p]
          BY <3>1, <4>3, <5>1, <5>3 DEF WindowInv, WatermarkCovers, EpochStart
        <5> QED  BY <5>2, <5>3
      <4> QED  BY <4>1, <4>2, <4>3 DEF WatermarkCovers
    <3>4. CASE ~isLast[p]
      <4>1. /\ pc[p] = "ingest" /\ startIndex' = [startIndex EXCEPT ![p] = @ + PageSize]
            /\ UNCHANGED <<rev, mod, cursor, windowEnd, watermark>>
        BY <2>4, <3>4, IngestCases, Zenon
      <4>2. Window(p)' = Window(p) /\ \A c : Pos(p, c)' = Pos(p, c)
        BY <4>1, WindowUnchanged
      <4>3. ASSUME NEW c \in CVE \ Malformed, c \in Window(p), Pos(p, c) < startIndex[p] + PageSize
            PROVE  db'[c] = rev[c]
        <5>1. rev[c] > 0
          BY <4>3 DEF Window, Listed
        <5> QED  BY <3>1, <3>4, <4>1, <4>3, <5>1 DEF PageInv, IngestInv
      <4>4. FetchInv'
        BY <3>2, <4>1, <4>2, <4>3 DEF FetchInv
      <4>5. IngestInv' /\ LastInv'
        BY <3>2 DEF IngestInv, LastInv
      <4>6. WatermarkCovers'
        BY <3>1, <4>1 DEF WatermarkCovers
      <4> QED  BY <4>4, <4>5, <4>6 DEF PageInv
    <3> QED  BY <3>3, <3>4
  <2> QED  BY <1>5, <2>1, <2>2, <2>3, <2>4 DEF Step
<1> QED  BY <1>2, <1>3, <1>4, <1>5 DEF Next

(* A new database satisfies the inductive invariant.                       *)
LEMMA InitIInv == Init => IInv
<1> SUFFICES ASSUME Init PROVE IInv
  OBVIOUS
<1>1. TypeOK
  BY NvdAssumption DEF Init, TypeOK, NoPage
<1>2. LockInv /\ PastInv /\ WindowInv /\ BodyInv /\ WatermarkCovers
  BY DEF Init, NoPage, NoWatermark, LockInv, PastInv, WindowInv, BodyInv, WatermarkCovers
<1>3. PageInv
  BY NoPaging DEF Init
<1> QED  BY <1>1, <1>2, <1>3 DEF IInv, RunInv

(* The state of the synchronisation is always well typed.                  *)
THEOREM TypeCorrect == Spec => []TypeOK
<1>1. Init => TypeOK
  BY InitIInv DEF IInv, RunInv
<1> QED  BY <1>1, TypeStep, PTL DEF Spec

(* The inductive invariant: with a feed that leaves the windows alone the  *)
(* stored pages, the cursor and the watermark always agree.                *)
THEOREM Invariance ==
  ASSUME StableFeed
  PROVE  Spec => []IInv
<1>1. IInv /\ [Next]_vars => IInv'
  BY RunStep, PageStep DEF IInv
<1> QED  BY <1>1, InitIInv, PTL DEF Spec

(* Whatever fails or is killed, every well-formed record dated before the  *)
(* stored watermark is in the database in its current revision.            *)
THEOREM Coverage ==
  ASSUME StableFeed
  PROVE  Spec => []WatermarkCovers
<1>1. IInv => WatermarkCovers
  BY DEF IInv
<1> QED  BY <1>1, Invariance, PTL

(* What a step may do to the store: bring records nearer to the feed, and  *)
(* advance the watermark to an instant before which the store is exact.    *)
LEMMA StoreStep ==
  ASSUME RunInv, WatermarkCovers', [Next]_vars
  PROVE  /\ \A c \in CVE : db[c] <= db'[c] /\ (db'[c] = db[c] \/ db'[c] <= rev[c])
         /\ \/ UNCHANGED <<db, watermark>>
            \/ UNCHANGED <<clock, rev, mod>> /\ Mirror!Mirror
         /\ watermark <= watermark'
<1> USE NvdAssumption DEF RunInv, TypeOK, feed, store, bounds, paging
<1>1. ASSUME NEW p \in Proc, IngestPage(p)
      PROVE  /\ \A c \in CVE : db[c] <= db'[c] /\ (db'[c] = db[c] \/ db'[c] <= rev[c])
             /\ UNCHANGED <<clock, rev, mod>> /\ watermark <= watermark'
             /\ watermark' # watermark => watermark' > watermark /\ watermark' <= clock
  <2>1. \A c \in CVE : db[c] <= db'[c] /\ (db'[c] = db[c] \/ db'[c] <= rev[c])
    BY <1>1, IngestCases DEF Upsert, BodyInv
  <2>2. watermark' = watermark \/ watermark' = windowEnd[p]
    BY <1>1, IngestCases, Zenon
  <2>3. watermark < windowEnd[p] /\ windowEnd[p] <= clock
    BY <1>1, IngestCases DEF WindowInv, PastInv, NoWatermark, EpochStart
  <2> QED  BY <1>1, <2>1, <2>2, <2>3, IngestCases DEF NoWatermark
<1>2. ASSUME NEW p \in Proc, IngestPage(p) PROVE Mirror!Mirror
  <2>1. Mirror!Copied
    BY <1>1, <1>2 DEF Mirror!Copied
  <2>2. Mirror!ExactBefore(watermark')
    BY <1>1, <1>2 DEF Mirror!ExactBefore, WatermarkCovers
  <2> QED  BY <1>1, <1>2, <2>1, <2>2 DEF Mirror!Mirror
<1>3. ASSUME ~\E p \in Proc : IngestPage(p) PROVE UNCHANGED <<db, watermark>>
  BY <1>3 DEF Next, Step, Tick, Publish, StartSync, ReadWatermark, CaughtUp, TooManyWindows,
             StartWindow, FetchPage, PageCapReached, FinishSync, CallFails, Kill, Exit, vars
<1>4. CASE \E p \in Proc : IngestPage(p)
  BY <1>1, <1>2, <1>4
<1>5. CASE ~\E p \in Proc : IngestPage(p)
  BY <1>3, <1>5 DEF NoWatermark
<1> QED  BY <1>4, <1>5

(* No page ever replaces a stored record by an older revision of it.       *)
THEOREM NoStalePage ==
  ASSUME StableFeed
  PROVE  Spec => NoStaleOverwrite
<1>1. IInv /\ IInv' /\ [Next]_vars => [\A c \in CVE : db'[c] >= db[c]]_vars
  <2> SUFFICES ASSUME IInv, IInv', [Next]_vars PROVE \A c \in CVE : db'[c] >= db[c]
    OBVIOUS
  <2> QED  BY StoreStep DEF IInv, RunInv, TypeOK
<1> QED  BY <1>1, Invariance, PTL DEF Spec, NoStaleOverwrite

(* The watermark never moves back, whichever process advances it.          *)
THEOREM WatermarkMonotone ==
  ASSUME StableFeed
  PROVE  Spec => WatermarkNeverRegresses
<1>1. IInv /\ IInv' /\ [Next]_vars => [watermark' >= watermark]_vars
  <2> SUFFICES ASSUME IInv, IInv', [Next]_vars PROVE watermark' >= watermark
    OBVIOUS
  <2> QED  BY StoreStep DEF IInv, RunInv, TypeOK, NoWatermark
<1> QED  BY <1>1, Invariance, PTL DEF Spec, WatermarkNeverRegresses

(* Neither a record nor the progress of one run is undone by another:      *)
(* cytadel_nvd_ingest_page under the wrapper's lock only advances.         *)
THEOREM StoreOnlyAdvances ==
  ASSUME StableFeed
  PROVE  Spec => OnlyAdvances
BY NoStalePage, WatermarkMonotone DEF OnlyAdvances

(* A result is held only between the catch-up's return and the exit.       *)
OutcomeInv == \A p \in Proc : outcome[p] = "ok" => pc[p] = "feeds"

(* A catch-up returns OK only with the watermark at its `now` or later.    *)
THEOREM OkIsCaughtUp ==
  ASSUME StableFeed
  PROVE  Spec => []OkMeansCaughtUp
<1>1. Init => OutcomeInv /\ OkMeansCaughtUp
  BY DEF Init, OutcomeInv, OkMeansCaughtUp
<1>2. ASSUME IInv, IInv', [Next]_vars, OutcomeInv, OkMeansCaughtUp
      PROVE  OutcomeInv' /\ OkMeansCaughtUp'
  <2> SUFFICES ASSUME NEW p \in Proc, outcome'[p] = "ok"
               PROVE  pc'[p] = "feeds" /\ (now'[p] > EpochStart => watermark' >= now'[p])
    BY DEF OutcomeInv, OkMeansCaughtUp
  <2> USE <1>2, NvdAssumption DEF IInv, RunInv, TypeOK, feed, store, bounds, paging
  <2>1. watermark <= watermark'
    BY StoreStep
  <2>2. CASE CaughtUp(p)
    <3>1. cursor[p] >= now[p] /\ pc[p] = "loop" /\ now' = now /\ pc'[p] = "feeds"
      BY <2>2 DEF CaughtUp, Return
    <3> QED  BY <2>1, <3>1 DEF WindowInv, NoWatermark, EpochStart
  <2>3. CASE ~CaughtUp(p)
    <3>1. outcome[p] = "ok" /\ (pc[p] = "feeds" => pc'[p] = "feeds" /\ now'[p] = now[p])
      BY <2>3 DEF Next, Step, Tick, Publish, StartSync, ReadWatermark, CaughtUp, TooManyWindows,
             StartWindow, FetchPage, PageCapReached, IngestPage, FinishSync, CallFails, Kill,
             Exit, Return, vars
    <3> QED  BY <2>1, <3>1 DEF OutcomeInv, OkMeansCaughtUp, EpochStart, NoWatermark
  <2> QED  BY <2>2, <2>3
<1> QED  BY <1>1, <1>2, Invariance, PTL DEF Spec

(* The synchronisation, with its windows, pages, locks and failures,       *)
(* implements a mirror whose watermark is exact.                           *)
THEOREM Refinement ==
  ASSUME StableFeed
  PROVE  Spec => MirrorSpec
<1>1. Init => Mirror!Init
  BY DEF Init, Mirror!Init, NoPage, NoWatermark
<1>2. IInv /\ IInv' /\ [Next]_vars => [Mirror!Next]_(Mirror!vars)
  <2> SUFFICES ASSUME IInv, IInv', [Next]_vars PROVE [Mirror!Next]_(Mirror!vars)
    OBVIOUS
  <2>1. UNCHANGED <<db, watermark>> \/ Mirror!Mirror
    BY StoreStep DEF IInv
  <2>2. CASE UNCHANGED <<db, watermark>>
    <3>1. \/ Tick \/ \E c \in CVE : Publish(c)
          \/ UNCHANGED <<clock, rev, mod>>
      BY DEF Next, Step, StartSync, ReadWatermark, CaughtUp, TooManyWindows,
             StartWindow, FetchPage, PageCapReached, IngestPage, FinishSync, CallFails, Kill,
             Exit, Return, vars, feed
    <3> QED  BY <2>2, <3>1 DEF Tick, Publish, Mirror!Next, Mirror!Tick, Mirror!Publish, Mirror!vars
  <2> QED  BY <2>1, <2>2 DEF Mirror!Next
<1> QED  BY <1>1, <1>2, Invariance, PTL DEF Spec, MirrorSpec, Mirror!Spec

----------------------------------------------------------------------------
(***************************************************************************)
(* The calendar that cuts the windows (CivilTime), for every day.          *)
(***************************************************************************)
(* The days before the March that begins a year, counted from year 0.     *)
YearStart(y) == 365 * y + y \div 4 - y \div 100 + y \div 400

(* The year of a month counted from March, and the day of that year. *)
MarchYear(y, m) == IF m <= 2 THEN y - 1 ELSE y
MarchMonth(m) == IF m <= 2 THEN m + 9 ELSE m - 3
DayOfYear(m, d) == (153 * MarchMonth(m) + 2) \div 5 + d - 1

(* days_from_civil counts the days before the year and those in it.        *)
LEMMA DaysFromCivilIs ==
  ASSUME NEW y \in Int, NEW m \in 1 .. 12, NEW d \in Int
  PROVE  DaysFromCivil(y, m, d) = YearStart(MarchYear(y, m)) + DayOfYear(m, d) - 719468
<1> DEFINE yy  == IF m <= 2 THEN y - 1 ELSE y
           era == CDiv(IF yy >= 0 THEN yy ELSE yy - 399, 400)
           yoe == yy - era * 400
           mm  == m + (IF m > 2 THEN -3 ELSE 9)
<1>1. yy \in Int
  BY SMT
<1>2. era = yy \div 400
  BY <1>1, SMT DEF CDiv
<1> HIDE DEF yy, era
<1>3. yoe \in 0 .. 399 /\ era \in Int /\ yy = 400 * era + yoe
  BY <1>1, <1>2, SMT
<1> HIDE DEF yoe
<1>4. CDiv(yoe, 4) = yoe \div 4 /\ CDiv(yoe, 100) = yoe \div 100
  BY <1>3, SMT DEF CDiv
<1>5. CDiv(153 * mm + 2, 5) = (153 * mm + 2) \div 5 /\ mm = MarchMonth(m) /\ mm \in 0 .. 11
  BY SMT DEF CDiv, MarchMonth
<1>6. DaysFromCivil(y, m, d)
        = era * 146097 + (yoe * 365 + CDiv(yoe, 4) - CDiv(yoe, 100)
                            + (CDiv(153 * mm + 2, 5) + d - 1)) - 719468
  BY SMT DEF DaysFromCivil, yy, era, yoe
<1>7. YearStart(yy) = era * 146097 + yoe * 365 + yoe \div 4 - yoe \div 100
  BY <1>3, SMT DEF YearStart
<1>8. MarchYear(y, m) = yy
  BY SMT DEF MarchYear, yy
<1> HIDE DEF mm
<1> QED BY <1>1, <1>3, <1>4, <1>5, <1>6, <1>7, <1>8, SMT DEF DayOfYear

(* civil_from_days finds the year of a day: the corrections of its estimate *)
(* cancel the leap days, the last day of a leap year included.             *)
LEMMA CivilFromDaysIs ==
  ASSUME NEW y \in Int, NEW doy \in 0 .. 365, doy = 365 => IsLeap(y + 1)
  PROVE  CivilFromDays(YearStart(y) + doy - 719468) = DateInYear(y, doy)
<1>0. PICK e \in Int, c \in 0 .. 3, q \in 0 .. 24, r \in 0 .. 3 : y = 400 * e + 100 * c + 4 * q + r
  <2> DEFINE e == y \div 400
             c == (y % 400) \div 100
             q == (y % 100) \div 4
             r == y % 4
  <2>1. e \in Int /\ c \in 0 .. 3 /\ q \in 0 .. 24 /\ r \in 0 .. 3
    BY SMT
  <2>2. y = 400 * e + 100 * c + 4 * q + r
    BY SMT
  <2> QED BY <2>1, <2>2, SMT
<1>a. doy = 365 => r = 3 /\ (q = 24 => c = 3)
  BY <1>0, SMT DEF IsLeap
<1> DEFINE yoe == 100 * c + 4 * q + r
           doe == 36524 * c + 1461 * q + 365 * r + doy
           z   == 146097 * e + doe
<1>1. doe \in Nat /\ doe <= 146096
  <2>1. CASE doy = 365 /\ q = 24
    BY <1>a, <2>1, SMT
  <2>2. CASE doy = 365 /\ q < 24
    BY <1>a, <2>2, SMT
  <2>3. CASE doy < 365
    BY <2>3, SMT
  <2> QED BY <2>1, <2>2, <2>3, SMT
<1>2. YearStart(y) + doy - 719468 = z - 719468
  <2>1. y \div 400 = e
    BY <1>0, SMT
  <2>2. y \div 100 = 4 * e + c
    BY <1>0, SMT
  <2>3. y \div 4 = 100 * e + 25 * c + q
    BY <1>0, SMT
  <2> QED BY <1>0, <2>1, <2>2, <2>3, SMT DEF YearStart
<1>3. CivilFromDays(z - 719468) = DateInEra(e, doe)
  <2> HIDE DEF doe
  <2>1. CDiv(IF z >= 0 THEN z ELSE z - 146096, 146097) = e
    BY <1>1, SMT DEF CDiv
  <2>2. z - 719468 + 719468 = z /\ z - e * 146097 = doe
    BY <1>1, SMT
  <2> HIDE DEF z
  <2> QED BY <2>1, <2>2, SMT DEF CivilFromDays
<1>4. DateInEra(e, doe) = DateInYear(yoe + e * 400, doy)
  <2>1. /\ doe - doe \div 1460 + doe \div 36524 - doe \div 146096 \in Nat
        /\ (doe - doe \div 1460 + doe \div 36524 - doe \div 146096) \div 365 = yoe
    BY <1>a, SMT
  <2>2. CDiv(yoe, 4) = 25 * c + q /\ CDiv(yoe, 100) = c
    BY SMT DEF CDiv
  <2>3. doe - (365 * yoe + CDiv(yoe, 4) - CDiv(yoe, 100)) = doy
    BY <2>2, SMT
  <2> HIDE DEF doe, yoe
  <2>4. /\ CDiv(doe, 1460) = doe \div 1460 /\ CDiv(doe, 36524) = doe \div 36524
        /\ CDiv(doe, 146096) = doe \div 146096
    BY <1>1, SMT DEF CDiv
  <2>5. CDiv(doe - CDiv(doe, 1460) + CDiv(doe, 36524) - CDiv(doe, 146096), 365) = yoe
    BY <2>1, <2>4, SMT DEF CDiv
  <2> QED BY <2>3, <2>5, SMT DEF DateInEra
<1> QED BY <1>0, <1>2, <1>3, <1>4, SMT

(* The dates of the calendar.                                              *)
Dates == {c \in [y : Int, m : 1 .. 12, d : 1 .. 31] : c.d <= MonthLength(c.y, c.m)}

(* Within a year, the day gives back its month and its number, month by    *)
(* month.                                                                  *)
LEMMA DayOfYearIs ==
  ASSUME NEW y \in Int, NEW m \in 1 .. 12, NEW d \in 1 .. 31, d <= MonthLength(y, m)
  PROVE  /\ DayOfYear(m, d) \in 0 .. 365
         /\ DayOfYear(m, d) = 365 => IsLeap(MarchYear(y, m) + 1)
         /\ DateInYear(MarchYear(y, m), DayOfYear(m, d)) = [y |-> y, m |-> m, d |-> d]
<1>1. m \in {1, 2, 3, 4, 5, 6, 7, 8, 9, 10, 11, 12}
  BY SMT
<1>2. DayOfYear(m, d) \in 0 .. 365 /\ (DayOfYear(m, d) = 365 => IsLeap(MarchYear(y, m) + 1))
  BY <1>1, SMT DEF DayOfYear, MarchMonth, MarchYear, MonthLength
<1>3. CDiv(5 * DayOfYear(m, d) + 2, 153) = MarchMonth(m)
  BY <1>1, SMT DEF DayOfYear, MarchMonth, MonthLength, CDiv
<1>4. MarchMonth(m) \in 0 .. 11 /\ MarchMonth(m) + (IF MarchMonth(m) < 10 THEN 3 ELSE -9) = m
  BY SMT DEF MarchMonth
<1>5. MarchYear(y, m) + (IF m <= 2 THEN 1 ELSE 0) = y
  BY SMT DEF MarchYear
<1>6. DayOfYear(m, d) - CDiv(153 * MarchMonth(m) + 2, 5) + 1 = d
  BY <1>4, SMT DEF DayOfYear, CDiv
<1>7. DateInYear(MarchYear(y, m), DayOfYear(m, d)) = [y |-> y, m |-> m, d |-> d]
  BY <1>3, <1>4, <1>5, <1>6, SMT DEF DateInYear
<1> QED BY <1>2, <1>7

(* A date of the calendar survives the way to its number and back.         *)
LEMMA DateOfDay ==
  ASSUME NEW y \in Int, NEW m \in 1 .. 12, NEW d \in 1 .. 31, d <= MonthLength(y, m)
  PROVE  CivilFromDays(DaysFromCivil(y, m, d)) = [y |-> y, m |-> m, d |-> d]
<1>1. MarchYear(y, m) \in Int
  BY SMT DEF MarchYear
<1>2. DaysFromCivil(y, m, d) = YearStart(MarchYear(y, m)) + DayOfYear(m, d) - 719468
  BY DaysFromCivilIs, SMT
<1>3. CivilFromDays(YearStart(MarchYear(y, m)) + DayOfYear(m, d) - 719468)
        = DateInYear(MarchYear(y, m), DayOfYear(m, d))
  <2> DEFINE yy  == MarchYear(y, m)
             doy == DayOfYear(m, d)
  <2>1. yy \in Int /\ doy \in 0 .. 365 /\ (doy = 365 => IsLeap(yy + 1))
    BY <1>1, DayOfYearIs, Zenon
  <2> HIDE DEF yy, doy
  <2>2. CivilFromDays(YearStart(yy) + doy - 719468) = DateInYear(yy, doy)
    BY <2>1, CivilFromDaysIs, SMTT(30)
  <2> QED BY <2>2, SMT DEF yy, doy
<1>4. DateInYear(MarchYear(y, m), DayOfYear(m, d)) = [y |-> y, m |-> m, d |-> d]
  BY DayOfYearIs, Zenon
<1> QED BY <1>2, <1>3, <1>4, SMT

(* The first days of the next month continue the numbers of a month. *)
LEMMA NextMonth ==
  ASSUME NEW y \in Int, NEW m \in 1 .. 12, NEW d \in 1 .. 3
  PROVE  DaysFromCivil(y, m, MonthLength(y, m) + d)
           = IF m = 12 THEN DaysFromCivil(y + 1, 1, d) ELSE DaysFromCivil(y, m + 1, d)
<1> DEFINE over == MonthLength(y, m) + d
<1>1. m \in {1, 2, 3, 4, 5, 6, 7, 8, 9, 10, 11, 12}
  BY SMT
<1>2. over \in Int
  BY SMT DEF MonthLength
<1>3. m \notin {2, 12} => /\ MarchYear(y, m) = MarchYear(y, m + 1)
                         /\ DayOfYear(m, over) = DayOfYear(m + 1, d)
  BY <1>1, SMT DEF MarchYear, DayOfYear, MarchMonth, MonthLength
<1>4. m = 12 => MarchYear(y, m) = MarchYear(y + 1, 1) /\ DayOfYear(m, over) = DayOfYear(1, d)
  BY SMT DEF MarchYear, DayOfYear, MarchMonth, MonthLength
<1>5. m = 2 => YearStart(MarchYear(y, m)) + DayOfYear(m, over)
                 = YearStart(MarchYear(y, 3)) + DayOfYear(3, d)
  <2> SUFFICES ASSUME m = 2
               PROVE  YearStart(MarchYear(y, 2)) + DayOfYear(2, over)
                        = YearStart(MarchYear(y, 3)) + DayOfYear(3, d)
    OBVIOUS
  <2>1. /\ MarchYear(y, 2) = y - 1 /\ MarchYear(y, 3) = y
        /\ DayOfYear(2, over) = 337 + over - 1 /\ DayOfYear(3, d) = d - 1
    BY <1>2, SMT DEF MarchYear, DayOfYear, MarchMonth
  <2>2. /\ y \div 4 = (y - 1) \div 4 + (IF y % 4 = 0 THEN 1 ELSE 0)
        /\ y \div 100 = (y - 1) \div 100 + (IF y % 100 = 0 THEN 1 ELSE 0)
        /\ y \div 400 = (y - 1) \div 400 + (IF y % 400 = 0 THEN 1 ELSE 0)
        /\ y % 100 = 0 => y % 4 = 0
        /\ y % 400 = 0 => y % 100 = 0
    BY SMT
  <2>3. YearStart(y) = YearStart(y - 1) + 365 + (IF IsLeap(y) THEN 1 ELSE 0)
    BY <2>2, SMT DEF YearStart, IsLeap
  <2>4. YearStart(y - 1) \in Int
    BY SMT DEF YearStart
  <2> QED BY <2>1, <2>3, <2>4, SMT DEF MonthLength
<1> HIDE DEF over
<1>6. DaysFromCivil(y, m, over) = YearStart(MarchYear(y, m)) + DayOfYear(m, over) - 719468
  BY <1>2, DaysFromCivilIs, SMT
<1>7. CASE m = 12
  <2>1. y + 1 \in Int /\ 1 \in 1 .. 12 /\ d \in Int
    BY SMT
  <2>2. DaysFromCivil(y + 1, 1, d) = YearStart(MarchYear(y + 1, 1)) + DayOfYear(1, d) - 719468
    BY <2>1, DaysFromCivilIs, SMT
  <2> QED BY <1>4, <1>6, <1>7, <2>2, SMT DEF over
<1>8. CASE m = 2
  <2>1. 3 \in 1 .. 12 /\ d \in Int /\ m + 1 = 3 /\ m # 12
    BY <1>8, SMT
  <2>2. DaysFromCivil(y, 3, d) = YearStart(MarchYear(y, 3)) + DayOfYear(3, d) - 719468
    BY <2>1, DaysFromCivilIs, SMT
  <2>3. DaysFromCivil(y, m, over) = DaysFromCivil(y, 3, d)
    <3>1. YearStart(MarchYear(y, m)) \in Int /\ YearStart(MarchYear(y, 3)) \in Int
      BY SMT DEF YearStart, MarchYear
    <3>2. DayOfYear(m, over) \in Int /\ DayOfYear(3, d) \in Int
      BY <1>2, SMT DEF DayOfYear, MarchMonth
    <3>3. YearStart(MarchYear(y, m)) + DayOfYear(m, over)
            = YearStart(MarchYear(y, 3)) + DayOfYear(3, d)
      BY <1>5, <1>8, Zenon
    <3> QED BY <1>6, <2>2, <3>1, <3>2, <3>3, SMT
  <2> QED BY <2>1, <2>3, SMT DEF over
<1>9. CASE m \notin {2, 12}
  BY <1>3, <1>6, <1>9, DaysFromCivilIs, SMT DEF over
<1> QED BY <1>7, <1>8, <1>9

(* A day of a month that is too short for it is a day of the next month.   *)
LEMMA ValidDates ==
  ASSUME NEW y \in Int, NEW m \in 1 .. 12, NEW d \in 1 .. 31
  PROVE  IsValidYmd(y, m, d) <=> d <= MonthLength(y, m)
<1>1. ASSUME d <= MonthLength(y, m) PROVE IsValidYmd(y, m, d)
  BY <1>1, DateOfDay, Zenon DEF IsValidYmd
<1>2. ASSUME ~(d <= MonthLength(y, m)) PROVE ~IsValidYmd(y, m, d)
  <2> DEFINE e == d - MonthLength(y, m)
  <2>1. e \in 1 .. 3 /\ MonthLength(y, m) + e = d
    BY <1>2, SMT DEF MonthLength
  <2> HIDE DEF e
  <2>3. DaysFromCivil(y, m, d)
          = IF m = 12 THEN DaysFromCivil(y + 1, 1, e) ELSE DaysFromCivil(y, m + 1, e)
    BY <2>1, NextMonth, Zenon
  <2>4. CASE m = 12
    <3>1. y + 1 \in Int /\ 1 \in 1 .. 12 /\ e \in 1 .. 31 /\ e <= MonthLength(y + 1, 1)
      BY <2>1, SMT DEF MonthLength
    <3>2. CivilFromDays(DaysFromCivil(y + 1, 1, e)) = [y |-> y + 1, m |-> 1, d |-> e]
      BY <3>1, DateOfDay, Zenon
    <3> QED BY <2>3, <2>4, <3>2, SMT DEF IsValidYmd
  <2>5. CASE m # 12
    <3>1. m + 1 \in 1 .. 12 /\ e \in 1 .. 31 /\ e <= MonthLength(y, m + 1)
      BY <2>1, <2>5, SMT DEF MonthLength
    <3>2. CivilFromDays(DaysFromCivil(y, m + 1, e)) = [y |-> y, m |-> m + 1, d |-> e]
      BY <3>1, DateOfDay, Zenon
    <3> QED BY <2>3, <2>5, <3>2, SMT DEF IsValidYmd
  <2> QED BY <2>4, <2>5
<1> QED BY <1>1, <1>2

(* The day numbers of a month count up.                                    *)
LEMMA NextNumber ==
  ASSUME NEW x \in Int, NEW n \in 1 .. 12, NEW k \in Int
  PROVE  DaysFromCivil(x, n, k + 1) = DaysFromCivil(x, n, k) + 1
<1>1. YearStart(MarchYear(x, n)) \in Int
  BY SMT DEF MarchYear, YearStart
<1>2. DayOfYear(n, k + 1) = DayOfYear(n, k) + 1 /\ DayOfYear(n, k) \in Int
  BY SMT DEF DayOfYear, MarchMonth
<1>3. DaysFromCivil(x, n, k) = YearStart(MarchYear(x, n)) + DayOfYear(n, k) - 719468
  BY DaysFromCivilIs, SMT
<1>4. DaysFromCivil(x, n, k + 1) = YearStart(MarchYear(x, n)) + DayOfYear(n, k + 1) - 719468
  <2> DEFINE l == k + 1
  <2>1. l \in Int
    BY SMT
  <2> HIDE DEF l
  <2>2. DaysFromCivil(x, n, l) = YearStart(MarchYear(x, n)) + DayOfYear(n, l) - 719468
    BY <2>1, DaysFromCivilIs, SMT
  <2> QED BY <2>2, SMT DEF l
<1> QED BY <1>1, <1>2, <1>3, <1>4, SMT

(* The day after a date has the next number.                               *)
LEMMA NextDay ==
  ASSUME NEW c \in Dates
  PROVE  /\ DayAfter(c) \in Dates
         /\ DaysFromCivil(DayAfter(c).y, DayAfter(c).m, DayAfter(c).d)
              = DaysFromCivil(c.y, c.m, c.d) + 1
<1>1. PICK y \in Int, m \in 1 .. 12, d \in 1 .. 31 :
         c = [y |-> y, m |-> m, d |-> d] /\ d <= MonthLength(y, m)
  BY SMTT(30) DEF Dates
<1>2. MonthLength(y, m) \in 28 .. 31 /\ (m = 12 => MonthLength(y, m) = 31)
  BY SMT DEF MonthLength
<1>3. \A k \in Int : DaysFromCivil(y, m, k + 1) = DaysFromCivil(y, m, k) + 1
  BY NextNumber
<1>4. CASE d < MonthLength(y, m)
  <2>1. DayAfter(c) = [y |-> y, m |-> m, d |-> d + 1]
    BY <1>1, <1>4, SMT DEF DayAfter
  <2>2. d \in 1 .. 30
    BY <1>2, <1>4, SMT
  <2> QED BY <1>1, <1>2, <1>3, <1>4, <2>1, <2>2, SMT DEF Dates
<1>5. CASE d = MonthLength(y, m)
  <2>1. DaysFromCivil(y, m, d) + 1
          = IF m = 12 THEN DaysFromCivil(y + 1, 1, 1) ELSE DaysFromCivil(y, m + 1, 1)
    <3>1. 1 \in 1 .. 3 /\ d \in Int
      BY SMT
    <3>2. DaysFromCivil(y, m, MonthLength(y, m) + 1)
            = IF m = 12 THEN DaysFromCivil(y + 1, 1, 1) ELSE DaysFromCivil(y, m + 1, 1)
      BY <3>1, NextMonth, Zenon
    <3> QED BY <1>3, <1>5, <3>1, <3>2, SMT
  <2>2. DayAfter(c) = IF m = 12 THEN [y |-> y + 1, m |-> 1, d |-> 1]
                      ELSE [y |-> y, m |-> m + 1, d |-> 1]
    <3>1. CASE m = 12
      BY <1>1, <1>2, <1>5, <3>1, SMT DEF DayAfter
    <3>2. CASE m < 12
      BY <1>1, <1>2, <1>5, <3>2, SMT DEF DayAfter
    <3> QED BY <3>1, <3>2, SMT
  <2>3. MonthLength(y + 1, 1) >= 1 /\ (m < 12 => MonthLength(y, m + 1) >= 1)
    BY SMT DEF MonthLength
  <2> QED BY <1>1, <2>1, <2>2, <2>3, SMT DEF Dates
<1> QED BY <1>1, <1>2, <1>4, <1>5, SMT

(* A set of numbers has a least one, the induction of what follows.        *)
LEMMA Least ==
  ASSUME NEW S \in SUBSET Nat, S # {}
  PROVE  \E x \in S : \A y \in S : x <= y
<1>1. IsWellFoundedOn(OpToRel(<, Nat), Nat)
  BY NatLessThanWellFounded
<1>2. PICK x \in S : \A y \in S : ~(<<y, x>> \in OpToRel(<, Nat))
  BY <1>1, WFMin
<1>3. \A y \in S : ~(y < x)
  BY <1>2 DEF OpToRel
<1> QED  BY <1>3

(* The values of a recursive function over 0 .. n, and that there are some. *)
Runs(T, z, step, n) ==
  {g \in [0 .. n -> T] : g[0] = z /\ \A k \in 1 .. n : g[k] = step[k][g[k - 1]]}

(* By the least length for which there is none.                             *)
LEMMA RunExists ==
  ASSUME NEW T, NEW z \in T, NEW step, NEW N \in Nat,
         \A k \in 1 .. N, x \in T : step[k][x] \in T
  PROVE  \E g : g \in Runs(T, z, step, N)
<1> DEFINE S == {k \in 0 .. N : Runs(T, z, step, k) = {}}
<1> SUFFICES ASSUME S # {} PROVE FALSE
  OBVIOUS
<1>0. S \in SUBSET Nat
  OBVIOUS
<1>1. PICK m \in S : \A y \in S : m <= y
  <2> HIDE DEF S
  <2> QED BY <1>0, Least
<1>2. m # 0
  <2>1. [k \in 0 .. 0 |-> z] \in Runs(T, z, step, 0)
    BY DEF Runs
  <2> QED  BY <2>1
<1>3. PICK g : g \in Runs(T, z, step, m - 1)
  BY <1>1, <1>2
<1>4. /\ g \in [0 .. m - 1 -> T] /\ g[0] = z
      /\ \A k \in 1 .. m - 1 : g[k] = step[k][g[k - 1]]
  BY <1>3 DEF Runs
<1> DEFINE h == [k \in 0 .. m |-> IF k = m THEN step[m][g[m - 1]] ELSE g[k]]
<1>5. h \in [0 .. m -> T] /\ h[0] = z
  BY <1>2, <1>4
<1>6. ASSUME NEW k \in 1 .. m PROVE h[k] = step[k][h[k - 1]]
  <2>1. CASE k = m
    BY <1>2, <1>4, <2>1
  <2>2. CASE k # m
    BY <1>2, <1>4, <2>2
  <2> QED  BY <2>1, <2>2
<1>7. h \in Runs(T, z, step, m)
  BY <1>5, <1>6 DEF Runs
<1> QED  BY <1>1, <1>7

(* The milliseconds of a fraction are its first three digits.              *)
LEMMA MillisIs ==
  ASSUME NEW frac \in Seq(0 .. 9), Len(frac) \in 1 .. 9
  PROVE  Millis(frac) = 100 * frac[1] + (IF Len(frac) >= 2 THEN 10 * frac[2] ELSE 0)
                                      + (IF Len(frac) >= 3 THEN frac[3] ELSE 0)
<1> DEFINE Digits(v) == v = [n \in 0 .. Len(frac) |-> IF n = 0 THEN 0 ELSE v[n - 1] * 10 + frac[n]]
           val == CHOOSE v : Digits(v)
<1>1. Digits(val)
  <2> DEFINE step == [k \in 1 .. Len(frac) |-> [x \in Nat |-> x * 10 + frac[k]]]
  <2>1. PICK g : g \in Runs(Nat, 0, step, Len(frac))
    <3>1. \A k \in 1 .. Len(frac), x \in Nat : step[k][x] \in Nat
      OBVIOUS
    <3>2. Len(frac) \in Nat /\ 0 \in Nat
      OBVIOUS
    <3> HIDE DEF step
    <3> QED BY <3>1, <3>2, RunExists
  <2>2. g \in [0 .. Len(frac) -> Nat] /\ g[0] = 0
    BY <2>1 DEF Runs
  <2>3. ASSUME NEW k \in 1 .. Len(frac) PROVE g[k] = g[k - 1] * 10 + frac[k]
    <3>1. g[k] = step[k][g[k - 1]]
      BY <2>1 DEF Runs
    <3>2. g[k - 1] \in Nat
      BY <2>2
    <3> QED BY <3>1, <3>2
  <2>4. Digits(g)
    BY <2>2, <2>3
  <2> QED BY <2>4
<1>2. Millis(frac) = IF Len(frac) >= 3 THEN val[Len(frac)] \div (10 ^ (Len(frac) - 3))
                     ELSE val[Len(frac)] * 10 ^ (3 - Len(frac))
  BY DEF Millis
<1> HIDE DEF val
<1>3. val[0] = 0 /\ \A n \in 1 .. Len(frac) : val[n] = val[n - 1] * 10 + frac[n]
  BY <1>1
<1>4. \A n \in 1 .. Len(frac) : frac[n] \in 0 .. 9
  OBVIOUS
<1>a. \A n \in 1 .. Len(frac) : frac[n] \in Int /\ 0 <= frac[n] /\ frac[n] <= 9
  BY <1>4
<1>5. val[1] = frac[1]
  BY <1>3, <1>4
<1>6. Len(frac) >= 2 => val[2] = 10 * frac[1] + frac[2]
  BY <1>3, <1>4, <1>5
<1>7. ASSUME Len(frac) >= 3 PROVE val[3] = 100 * frac[1] + 10 * frac[2] + frac[3]
  <2>1. 3 \in 1 .. Len(frac) /\ 2 \in 1 .. Len(frac) /\ 1 \in 1 .. Len(frac)
    BY <1>7
  <2>2. val[3] = val[2] * 10 + frac[3]
    BY <1>3, <2>1
  <2>3. frac[1] \in Int /\ frac[2] \in Int /\ frac[3] \in Int
    BY <1>a, <2>1
  <2>4. val[2] = 10 * frac[1] + frac[2]
    BY <1>6, <1>7
  <2> QED BY <2>2, <2>3, <2>4
<1>8. CASE Len(frac) = 1
  BY <1>2, <1>4, <1>5, <1>8
<1>9. CASE Len(frac) = 2
  <2>1. 10 ^ (3 - Len(frac)) = 10
    BY <1>9
  <2>2. Millis(frac) = val[2] * 10
    BY <1>2, <1>9, <2>1
  <2>3. frac[1] \in Int /\ frac[2] \in Int
    BY <1>a, <1>9
  <2> QED BY <1>6, <1>9, <2>2, <2>3
<1>10. CASE Len(frac) >= 3
  <2> DEFINE w == 100 * frac[1] + 10 * frac[2] + frac[3]
  <2>1. w \in Nat
    <3>1. 1 \in 1 .. Len(frac) /\ 2 \in 1 .. Len(frac) /\ 3 \in 1 .. Len(frac)
      BY <1>10, SMT
    <3>2. /\ frac[1] \in Int /\ 0 <= frac[1] /\ frac[2] \in Int /\ 0 <= frac[2]
          /\ frac[3] \in Int /\ 0 <= frac[3]
      BY <1>a, <3>1, Zenon
    <3> QED BY <3>2, SMTT(30)
  <2> HIDE DEF w
  <2>3. val[3] \in w .. w + 0
    BY <1>7, <1>10, <2>1 DEF w
  <2>4. ASSUME Len(frac) >= 4 PROVE val[4] \in 10 * w .. 10 * w + 9
    <3>1. 4 \in 1 .. Len(frac) /\ 4 - 1 = 3
      BY <2>4, SMT
    <3>2. val[4] = val[3] * 10 + frac[4] /\ frac[4] \in Int /\ 0 <= frac[4] /\ frac[4] <= 9
      BY <1>3, <1>a, <3>1
    <3> QED BY <2>1, <2>4, <2>3, <3>2, SMT
  <2>5. ASSUME Len(frac) >= 5 PROVE val[5] \in 100 * w .. 100 * w + 99
    <3>1. 5 \in 1 .. Len(frac) /\ 5 - 1 = 4
      BY <2>5, SMT
    <3>2. val[5] = val[4] * 10 + frac[5] /\ frac[5] \in Int /\ 0 <= frac[5] /\ frac[5] <= 9
      BY <1>3, <1>a, <3>1
    <3> QED BY <2>1, <2>5, <2>4, <3>2, SMT
  <2>6. ASSUME Len(frac) >= 6 PROVE val[6] \in 1000 * w .. 1000 * w + 999
    <3>1. 6 \in 1 .. Len(frac) /\ 6 - 1 = 5
      BY <2>6, SMT
    <3>2. val[6] = val[5] * 10 + frac[6] /\ frac[6] \in Int /\ 0 <= frac[6] /\ frac[6] <= 9
      BY <1>3, <1>a, <3>1
    <3> QED BY <2>1, <2>6, <2>5, <3>2, SMT
  <2>7. ASSUME Len(frac) >= 7 PROVE val[7] \in 10000 * w .. 10000 * w + 9999
    <3>1. 7 \in 1 .. Len(frac) /\ 7 - 1 = 6
      BY <2>7, SMT
    <3>2. val[7] = val[6] * 10 + frac[7] /\ frac[7] \in Int /\ 0 <= frac[7] /\ frac[7] <= 9
      BY <1>3, <1>a, <3>1
    <3> QED BY <2>1, <2>7, <2>6, <3>2, SMT
  <2>8. ASSUME Len(frac) >= 8 PROVE val[8] \in 100000 * w .. 100000 * w + 99999
    <3>1. 8 \in 1 .. Len(frac) /\ 8 - 1 = 7
      BY <2>8, SMT
    <3>2. val[8] = val[7] * 10 + frac[8] /\ frac[8] \in Int /\ 0 <= frac[8] /\ frac[8] <= 9
      BY <1>3, <1>a, <3>1
    <3> QED BY <2>1, <2>8, <2>7, <3>2, SMT
  <2>9. ASSUME Len(frac) >= 9 PROVE val[9] \in 1000000 * w .. 1000000 * w + 999999
    <3>1. 9 \in 1 .. Len(frac) /\ 9 - 1 = 8
      BY <2>9, SMT
    <3>2. val[9] = val[8] * 10 + frac[9] /\ frac[9] \in Int /\ 0 <= frac[9] /\ frac[9] <= 9
      BY <1>3, <1>a, <3>1
    <3> QED BY <2>1, <2>9, <2>8, <3>2, SMT
  <2>10. CASE Len(frac) = 3
    <3>1. Millis(frac) = w
      BY <1>2, <2>1, <2>3, <2>10, SMT
    <3> QED BY <1>10, <3>1 DEF w
  <2>11. CASE Len(frac) = 4
    <3>1. 10 ^ (Len(frac) - 3) = 10
      BY <2>11, SMT
    <3>2. Millis(frac) = val[4] \div 10
      BY <1>2, <2>11, <3>1, SMT
    <3>3. Millis(frac) = w
      BY <2>1, <2>4, <2>11, <3>2, SMT
    <3> QED BY <1>10, <3>3 DEF w
  <2>12. CASE Len(frac) = 5
    <3>1. 10 ^ (Len(frac) - 3) = 100
      BY <2>12, SMT
    <3>2. Millis(frac) = val[5] \div 100
      BY <1>2, <2>12, <3>1, SMT
    <3>3. Millis(frac) = w
      BY <2>1, <2>5, <2>12, <3>2, SMT
    <3> QED BY <1>10, <3>3 DEF w
  <2>13. CASE Len(frac) = 6
    <3>1. 10 ^ (Len(frac) - 3) = 1000
      BY <2>13, SMT
    <3>2. Millis(frac) = val[6] \div 1000
      BY <1>2, <2>13, <3>1, SMT
    <3>3. Millis(frac) = w
      BY <2>1, <2>6, <2>13, <3>2, SMT
    <3> QED BY <1>10, <3>3 DEF w
  <2>14. CASE Len(frac) = 7
    <3>1. 10 ^ (Len(frac) - 3) = 10000
      BY <2>14, SMT
    <3>2. Millis(frac) = val[7] \div 10000
      BY <1>2, <2>14, <3>1, SMT
    <3>3. Millis(frac) = w
      BY <2>1, <2>7, <2>14, <3>2, SMT
    <3> QED BY <1>10, <3>3 DEF w
  <2>15. CASE Len(frac) = 8
    <3>1. 10 ^ (Len(frac) - 3) = 100000
      BY <2>15, SMT
    <3>2. Millis(frac) = val[8] \div 100000
      BY <1>2, <2>15, <3>1, SMT
    <3>3. Millis(frac) = w
      BY <2>1, <2>8, <2>15, <3>2, SMT
    <3> QED BY <1>10, <3>3 DEF w
  <2>16. CASE Len(frac) = 9
    <3>1. 10 ^ (Len(frac) - 3) = 1000000
      BY <2>16, SMT
    <3>2. Millis(frac) = val[9] \div 1000000
      BY <1>2, <2>16, <3>1, SMT
    <3>3. Millis(frac) = w
      BY <2>1, <2>9, <2>16, <3>2, SMT
    <3> QED BY <1>10, <3>3 DEF w
  <2> QED BY <1>10, <2>10, <2>11, <2>12, <2>13, <2>14, <2>15, <2>16
<1>11. \A n \in 1 .. 9 : n = 1 \/ n = 2 \/ n >= 3
  OBVIOUS
<1>12. Len(frac) = 1 \/ Len(frac) = 2 \/ Len(frac) >= 3
  BY <1>11, Zenon
<1> QED BY <1>8, <1>9, <1>10, <1>12

(* Zeros that end a fraction may be left out; finer digits may follow.     *)
LEMMA MillisOfCut ==
  ASSUME NEW s \in Seq(0 .. 9), Len(s) = 3, NEW n \in 1 .. 3, n < 2 => s[2] = 0, n < 3 => s[3] = 0
  PROVE  /\ Len(SubSeq(s, 1, n)) \in 1 .. 9
         /\ Millis(SubSeq(s, 1, n)) = 100 * s[1] + 10 * s[2] + s[3]
<1> DEFINE t == SubSeq(s, 1, n)
<1>1. s[1] \in 0 .. 9 /\ s[2] \in 0 .. 9 /\ s[3] \in 0 .. 9 /\ \A i \in 1 .. n : s[i] \in 0 .. 9
  <2>1. \A i \in 1 .. 3 : s[i] \in 0 .. 9
    BY ElementOfSeq, Zenon
  <2>2. 1 \in 1 .. 3 /\ 2 \in 1 .. 3 /\ 3 \in 1 .. 3 /\ \A i \in 1 .. n : i \in 1 .. 3
    OBVIOUS
  <2> QED BY <2>1, <2>2, Zenon
<1>2. t \in Seq(0 .. 9) /\ Len(t) = n /\ \A i \in 1 .. n : t[i] = s[i]
  <2>1. 1 \in Int /\ n \in Int /\ 1 <= n /\ n - 1 + 1 = n /\ \A i \in 1 .. n : 1 + i - 1 = i
    OBVIOUS
  <2>2. /\ SubSeq(s, 1, n) \in Seq(0 .. 9)
        /\ Len(SubSeq(s, 1, n)) = IF 1 <= n THEN n - 1 + 1 ELSE 0
        /\ \A i \in 1 .. n - 1 + 1 : SubSeq(s, 1, n)[i] = s[1 + i - 1]
    BY <1>1, <2>1, SubSeqProperties, SMT
  <2> QED BY <2>1, <2>2
<1> HIDE DEF t
<1>3. Len(t) \in 1 .. 9
  BY <1>2
<1>4. Millis(t) = 100 * t[1] + (IF n >= 2 THEN 10 * t[2] ELSE 0) + (IF n >= 3 THEN t[3] ELSE 0)
  BY <1>2, <1>3, MillisIs, Zenon
<1>5. Millis(t) = 100 * s[1] + 10 * s[2] + s[3]
  <2>1. CASE n = 1
    BY <1>1, <1>2, <1>4, <2>1
  <2>2. CASE n = 2
    BY <1>1, <1>2, <1>4, <2>2
  <2>3. CASE n = 3
    BY <1>1, <1>2, <1>4, <2>3
  <2> QED BY <2>1, <2>2, <2>3
<1> QED BY <1>3, <1>5 DEF t

(* Digits after the third do not change the milliseconds.                   *)
LEMMA MillisOfFiner ==
  ASSUME NEW s \in Seq(0 .. 9), Len(s) = 3, NEW digits \in Seq(0 .. 9), Len(digits) \in 1 .. 6
  PROVE  /\ Len(s \o digits) \in 1 .. 9
         /\ Millis(s \o digits) = 100 * s[1] + 10 * s[2] + s[3]
<1> DEFINE t == s \o digits
<1>2. /\ t \in Seq(0 .. 9) /\ Len(t) = Len(s) + Len(digits)
      /\ \A i \in 1 .. Len(s) + Len(digits) : t[i] = IF i <= Len(s) THEN s[i] ELSE digits[i - Len(s)]
  BY ConcatProperties, Zenon
<1> HIDE DEF t
<1>3. \A k \in 1 .. 6 : /\ 3 + k \in 1 .. 9 /\ 3 + k >= 3 /\ 3 + k >= 2
                        /\ \A i \in 1 .. 3 : i \in 1 .. 3 + k /\ i <= 3
  OBVIOUS
<1>4. Len(t) \in 1 .. 9 /\ Len(t) >= 3 /\ Len(t) >= 2
  <2>1. Len(t) = 3 + Len(digits)
    BY <1>2
  <2> QED BY <1>3, <2>1, Zenon
<1>5. t[1] = s[1] /\ t[2] = s[2] /\ t[3] = s[3]
  BY <1>2, <1>3
<1>6. Millis(t) = 100 * t[1] + 10 * t[2] + t[3]
  BY <1>2, <1>4, MillisIs, Zenon
<1> QED BY <1>4, <1>5, <1>6 DEF t

(* A millisecond of a day, and a fraction that spells its part below a     *)
(* second.                                                                 *)
OfDay(ms) == ms \in Int /\ 0 <= ms /\ ms < 86400000
Spells(frac, ms) == Len(frac) \in 1 .. 9 /\ Millis(frac) = (ms % 1000)

(* What format_instant writes, parse_instant reads, with any spelling of    *)
(* the fraction.                                                           *)
LEMMA ParsesBack ==
  ASSUME NEW c \in Dates, NEW ms, OfDay(ms), NEW frac, Spells(frac, ms)
  PROVE  LET inst == [days |-> DaysFromCivil(c.y, c.m, c.d), ms |-> ms]
         IN  ParseInstant([FormatInstant(inst) EXCEPT !.frac = frac]) = inst
<1> DEFINE days == DaysFromCivil(c.y, c.m, c.d)
           inst == [days |-> days, ms |-> ms]
           hh == ms \div 3600000
           mm == (ms \div 60000) % 60
           ss == (ms \div 1000) % 60
           ts == [y |-> c.y, m |-> c.m, d |-> c.d, ends |-> "fraction",
                  hh |-> hh, mm |-> mm, ss |-> ss, frac |-> frac]
<1>1. /\ c.y \in Int /\ c.m \in 1 .. 12 /\ c.d \in 1 .. 31 /\ c.d <= MonthLength(c.y, c.m)
      /\ c = [y |-> c.y, m |-> c.m, d |-> c.d]
  BY SMT DEF Dates
<1>2. CivilFromDays(days) = c /\ IsValidYmd(c.y, c.m, c.d)
  <2>1. CivilFromDays(DaysFromCivil(c.y, c.m, c.d)) = [y |-> c.y, m |-> c.m, d |-> c.d]
    BY <1>1, DateOfDay, Zenon
  <2>2. IsValidYmd(c.y, c.m, c.d) <=> c.d <= MonthLength(c.y, c.m)
    BY <1>1, ValidDates, SMT
  <2> QED BY <1>1, <2>1, <2>2, SMT
<1>3. hh \in 0 .. 23 /\ mm \in 0 .. 59 /\ ss \in 0 .. 59
  BY SMT DEF OfDay
<1>4. ((hh * 60 + mm) * 60 + ss) * 1000 + (ms % 1000) = ms
  BY SMT DEF OfDay
<1> HIDE DEF days, hh, mm, ss
<1>5. [FormatInstant(inst) EXCEPT !.frac = frac] = ts
  BY <1>2, SMT DEF FormatInstant, hh, mm, ss
<1>6. ts.ends # "date" /\ ts.ends = "fraction" /\ ~(ts.hh > 23 \/ ts.mm > 59 \/ ts.ss > 59)
  BY <1>3, SMT
<1>7. ParseInstant(ts) = [days |-> days, ms |-> ((hh * 60 + mm) * 60 + ss) * 1000 + Millis(frac)]
  BY <1>2, <1>6, SMT DEF ParseInstant, days, Spells
<1>8. ParseInstant(ts) = inst
  BY <1>4, <1>7, SMT DEF Spells
<1> HIDE DEF ts
<1> QED BY <1>5, <1>8, SMT DEF days

(* A walk starts on a date of the calendar, at its number.                 *)
LEMMA FirstDayIs ==
  ASSUME NEW y \in Int
  PROVE  DaysBefore(y) = DaysFromCivil(y, 1, 1) /\ [y |-> y, m |-> 1, d |-> 1] \in Dates
<1>1. 1 \in 1 .. 12 /\ 1 \in Int /\ 1 \in 1 .. 31
  BY SMT
<1>2. DaysFromCivil(y, 1, 1) = YearStart(MarchYear(y, 1)) + DayOfYear(1, 1) - 719468
  BY <1>1, DaysFromCivilIs, SMT
<1>3. MarchYear(y, 1) = y - 1 /\ DayOfYear(1, 1) = 306
  BY SMT DEF MarchYear, DayOfYear, MarchMonth
<1>4. /\ (y + 3) \div 4 = (y - 1) \div 4 + 1
      /\ (y + 99) \div 100 = (y - 1) \div 100 + 1
      /\ (y + 399) \div 400 = (y - 1) \div 400 + 1
  BY SMT
<1>5. DaysBefore(y) = YearStart(y - 1) + 306 - 719468
  BY <1>4, SMT DEF DaysBefore, YearStart
<1>6. DaysBefore(y) = DaysFromCivil(y, 1, 1)
  BY <1>2, <1>3, <1>5, SMT
<1>7. [y |-> y, m |-> 1, d |-> 1] \in Dates
  BY SMT DEF Dates, MonthLength
<1> QED BY <1>6, <1>7

(* The inductive invariant of the walk: the number is that of the date.    *)
WalkInv ==
  call.op = "day" =>
    /\ call \in [op : {"day"}, days : Int, ms : Moments, left : Int]
    /\ result.date \in Dates
    /\ call.days = DaysFromCivil(result.date.y, result.date.m, result.date.d)
    /\ result = Stamp(result.date, call.days, call.ms)

(* Day numbers are integers.                                               *)
LEMMA DaysAreInt ==
  ASSUME NEW c \in Dates PROVE DaysFromCivil(c.y, c.m, c.d) \in Int
<1>1. c.y \in Int /\ c.m \in 1 .. 12 /\ c.d \in Int
  BY SMT DEF Dates
<1>2. DaysFromCivil(c.y, c.m, c.d) = YearStart(MarchYear(c.y, c.m)) + DayOfYear(c.m, c.d) - 719468
  BY <1>1, DaysFromCivilIs, SMT
<1>3. YearStart(MarchYear(c.y, c.m)) \in Int /\ DayOfYear(c.m, c.d) \in Int
  BY <1>1, SMT DEF YearStart, MarchYear, DayOfYear, MarchMonth
<1> QED BY <1>2, <1>3, SMT

(* The walk over the days keeps to the calendar.                           *)
LEMMA WalkInvariant == CalendarSpec => []WalkInv
<1> USE CalendarAssumption
<1>1. CallInit => WalkInv
  BY DEF CallInit, Idle, WalkInv
<1>2. ASSUME WalkInv, StartWalk PROVE WalkInv'
  <2>1. PICK y \in FirstDays, ms \in Moments :
          /\ call' = [op |-> "day", days |-> DaysBefore(y), ms |-> ms, left |-> WalkDays]
          /\ result' = Stamp([y |-> y, m |-> 1, d |-> 1], DaysBefore(y), ms)
    BY <1>2 DEF StartWalk, Called
  <2> DEFINE c == [y |-> y, m |-> 1, d |-> 1]
  <2>2. y \in Int
    OBVIOUS
  <2>3. c \in Dates /\ DaysBefore(y) = DaysFromCivil(c.y, c.m, c.d) /\ DaysBefore(y) \in Int
    BY <2>2, FirstDayIs, DaysAreInt
  <2>4. result'.date = c
    BY <2>1 DEF Stamp
  <2> HIDE DEF c
  <2> QED BY <2>1, <2>3, <2>4 DEF WalkInv, c
<1>3. ASSUME WalkInv, WalkDay PROVE WalkInv'
  <2> DEFINE c == result.date
             a == DayAfter(c)
  <2>1. /\ call \in [op : {"day"}, days : Int, ms : Moments, left : Int]
        /\ c \in Dates /\ call.days = DaysFromCivil(c.y, c.m, c.d)
    BY <1>3 DEF WalkInv, WalkDay
  <2>2. call' = [op |-> "day", days |-> call.days + 1, ms |-> call.ms, left |-> call.left - 1]
    BY <1>3, <2>1 DEF WalkDay, AddDays
  <2>3. result' = Stamp(a, call.days + 1, call.ms)
    <3>1. result' = Stamp(a, call'.days, call.ms)
      BY <1>3, Zenon DEF WalkDay
    <3>2. call'.days = call.days + 1
      BY <2>2
    <3> HIDE DEF a
    <3> QED BY <3>1, <3>2, Zenon
  <2>4. a \in Dates /\ DaysFromCivil(a.y, a.m, a.d) = call.days + 1
    BY <2>1, NextDay
  <2>5. result'.date = a
    BY <2>3 DEF Stamp
  <2> HIDE DEF a, c
  <2> QED BY <2>1, <2>2, <2>3, <2>4, <2>5 DEF WalkInv
<1>4. ASSUME WalkInv, WalkEnds PROVE WalkInv'
  BY <1>4 DEF WalkEnds, Called, Idle, WalkInv
<1>5. ASSUME WalkInv, UNCHANGED <<call, result>> PROVE WalkInv'
  BY <1>5 DEF WalkInv
<1>6. ASSUME call'.op # "day" PROVE WalkInv'
  BY <1>6 DEF WalkInv
<1>7. WalkInv /\ [CalendarNext \/ call'.op # "day"]_<<call, result>> => WalkInv'
  BY <1>2, <1>3, <1>4, <1>5, <1>6 DEF CalendarNext
<1> QED BY <1>1, <1>7, PTL DEF CalendarSpec

(* format_instant refuses what is not a time of a day.                     *)
LEMMA FormatsOfDay ==
  ASSUME NEW i, Formats(i) PROVE 0 <= i.ms /\ i.ms < 86400000
BY PTL DEF Formats

(* The calendar of nvd_catchup.c is exact for every year and every day     *)
(* after it, not only the walked ones: days_from_civil, civil_from_days    *)
(* and is_valid_ymd agree with the Gregorian calendar, and a watermark     *)
(* that is written and read back is the same instant.                      *)
THEOREM CalendarHolds == CalendarSpec => []InstantsAreExact
<1>1. ASSUME WalkInv PROVE CalendarIsExact
  <2> SUFFICES ASSUME call.op = "day" PROVE CalendarIsExact
    BY DEF CalendarIsExact
  <2> DEFINE c == result.date
  <2>1. /\ c \in Dates /\ call.days = DaysFromCivil(c.y, c.m, c.d)
        /\ result = Stamp(c, call.days, call.ms)
    BY <1>1 DEF WalkInv
  <2>2. /\ c.y \in Int /\ c.m \in 1 .. 12 /\ c.d \in 1 .. 31 /\ c.d <= MonthLength(c.y, c.m)
        /\ c = [y |-> c.y, m |-> c.m, d |-> c.d]
    BY <2>1, SMT DEF Dates
  <2>3. result.days = call.days /\ result.civil = CivilFromDays(call.days)
    <3> HIDE DEF c
    <3>1. Stamp(c, call.days, call.ms).days = DaysFromCivil(c.y, c.m, c.d)
          /\ Stamp(c, call.days, call.ms).civil = CivilFromDays(call.days)
      BY DEF Stamp
    <3> QED BY <2>1, <3>1, Zenon
  <2>4. CivilFromDays(call.days) = c
    BY <2>1, <2>2, DateOfDay, Zenon
  <2>5. \A d \in 1 .. 31 : IsValidYmd(c.y, c.m, d) <=> d <= MonthLength(c.y, c.m)
    BY <2>2, ValidDates, Zenon
  <2> QED BY <2>3, <2>4, <2>5 DEF CalendarIsExact
<1>2. ASSUME WalkInv PROVE TimestampRoundTrips
  <2> DEFINE inst == [days |-> call.days, ms |-> call.ms]
             Cut(n) == [result.stamp EXCEPT !.frac = SubSeq(@, 1, n)]
             Finer(digits) == [result.stamp EXCEPT !.frac = @ \o digits]
             c == result.date
  <2> SUFFICES ASSUME call.op = "day", Formats(inst)
               PROVE  /\ \A n \in 1 .. 3 : (\A k \in n + 1 .. 3 : result.stamp.frac[k] = 0)
                                            => ParseInstant(Cut(n)) = inst
                      /\ \A digits \in {<<0>>, <<9, 9>>, <<9, 9, 9, 9, 9, 9>>} :
                           ParseInstant(Finer(digits)) = inst
    BY DEF TimestampRoundTrips
  <2>1. /\ call \in [op : {"day"}, days : Int, ms : Moments, left : Int]
        /\ c \in Dates /\ call.days = DaysFromCivil(c.y, c.m, c.d)
        /\ result = Stamp(c, call.days, call.ms)
    BY <1>2 DEF WalkInv
  <2> DEFINE ms == call.ms % 1000
             digits3 == <<ms \div 100, (ms \div 10) % 10, ms % 10>>
  <2>2. OfDay(call.ms)
    <3>1. call.ms \in Int /\ inst.ms = call.ms
      BY <2>1, CalendarAssumption
    <3> HIDE DEF inst
    <3>2. 0 <= inst.ms /\ inst.ms < 86400000
      BY FormatsOfDay, SMTT(30)
    <3> QED BY <3>1, <3>2, SMT DEF OfDay
  <2>3. result.stamp = FormatInstant(inst)
    <3> HIDE DEF c
    <3>1. Stamp(c, call.days, call.ms).stamp = FormatInstant(inst)
      BY DEF Stamp
    <3> QED BY <2>1, <3>1, Zenon
  <2>4. result.stamp.frac = digits3
    <3>1. inst.ms = call.ms
      OBVIOUS
    <3> HIDE DEF inst
    <3>2. FormatInstant(inst).frac = digits3
      BY <3>1 DEF FormatInstant
    <3> HIDE DEF digits3
    <3> QED BY <2>3, <3>2, Zenon
  <2>5. ms \in 0 .. 999
    BY <2>2, SMT DEF OfDay
  <2> HIDE DEF ms
  <2> DEFINE f1 == ms \div 100
             f2 == (ms \div 10) % 10
             f3 == ms % 10
  <2>6. f1 \in 0 .. 9 /\ f2 \in 0 .. 9 /\ f3 \in 0 .. 9 /\ 100 * f1 + 10 * f2 + f3 = ms
    BY <2>5, SMT
  <2>7. ASSUME NEW frac, Spells(frac, call.ms)
        PROVE  ParseInstant([FormatInstant(inst) EXCEPT !.frac = frac]) = inst
    <3> HIDE DEF c
    <3> QED BY <2>1, <2>2, <2>7, ParsesBack, Zenon
  <2> DEFINE s == <<f1, f2, f3>>
  <2> HIDE DEF f1, f2, f3
  <2>a. /\ s \in Seq(0 .. 9) /\ Len(s) = 3 /\ s[1] = f1 /\ s[2] = f2 /\ s[3] = f3
        /\ 100 * s[1] + 10 * s[2] + s[3] = ms
    BY <2>6
  <2>b. result.stamp.frac = s
    BY <2>4, Zenon DEF f1, f2, f3
  <2> HIDE DEF s
  <2>8. ASSUME NEW n \in 1 .. 3, \A k \in n + 1 .. 3 : result.stamp.frac[k] = 0
        PROVE  ParseInstant(Cut(n)) = inst
    <3>1. Spells(SubSeq(s, 1, n), call.ms)
      <4>1. (n < 2 => s[2] = 0) /\ (n < 3 => s[3] = 0)
        <5>1. (n < 2 => 2 \in n + 1 .. 3) /\ (n < 3 => 3 \in n + 1 .. 3)
          OBVIOUS
        <5> QED BY <2>8, <2>b, <5>1, Zenon
      <4>2. /\ Len(SubSeq(s, 1, n)) \in 1 .. 9
            /\ Millis(SubSeq(s, 1, n)) = 100 * s[1] + 10 * s[2] + s[3]
        BY <2>a, <4>1, MillisOfCut
      <4> QED BY <2>a, <4>2, ZenonT(40) DEF Spells, ms
    <3>2. Cut(n) = [FormatInstant(inst) EXCEPT !.frac = SubSeq(s, 1, n)]
      BY <2>3, <2>b, Zenon
    <3> QED BY <2>7, <3>1, <3>2, Zenon
  <2> DEFINE tails == {<<0>>, <<9, 9>>, <<9, 9, 9, 9, 9, 9>>}
  <2>9. ASSUME NEW digits \in tails
        PROVE  ParseInstant(Finer(digits)) = inst
    <3>1. digits \in Seq(0 .. 9) /\ Len(digits) \in 1 .. 6
      <4>1. CASE digits = <<0>>
        BY <4>1
      <4>2. CASE digits = <<9, 9>>
        BY <4>2
      <4>3. CASE digits = <<9, 9, 9, 9, 9, 9>>
        BY <4>3
      <4> QED BY <4>1, <4>2, <4>3
    <3>2. Spells(s \o digits, call.ms)
      <4>1. /\ Len(s \o digits) \in 1 .. 9
            /\ Millis(s \o digits) = 100 * s[1] + 10 * s[2] + s[3]
        BY <2>a, <3>1, MillisOfFiner
      <4> QED BY <2>a, <4>1, ZenonT(40) DEF Spells, ms
    <3>3. Finer(digits) = [FormatInstant(inst) EXCEPT !.frac = s \o digits]
      BY <2>3, <2>b, Zenon
    <3> QED BY <2>7, <3>2, <3>3, Zenon
  <2> QED BY <2>8, <2>9
<1> QED BY <1>1, <1>2, WalkInvariant, PTL DEF InstantsAreExact

============================================================================
