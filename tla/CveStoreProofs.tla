--------------------------- MODULE CveStoreProofs ---------------------------
(***************************************************************************)
(* Proofs about CveStore: types, the foreign keys and placeholders, that   *)
(* no writer turns a row back, and that a pull that reports success over a *)
(* listing that only grows has stored all of it; and about VersionCalls,   *)
(* what the stored rows are used for: the order of versions and the        *)
(* verdict per CVE.                                                        *)
(***************************************************************************)
EXTENDS CveStore, VersionCalls, FiniteSetTheorems, SequenceTheorems, WellFoundedInduction, TLAPS

(***************************************************************************)
(* The listing.  A CVE's position is a number below the total, and it only *)
(* moves back while the listing grows.                                     *)
(***************************************************************************)

(* The cardinality of a subset of a finite set is a number.                *)
LEMMA Sizes ==
  ASSUME NEW S, S \subseteq CVE
  PROVE  IsFiniteSet(S) /\ Cardinality(S) \in Nat
BY StoreAssumption, FS_Subset, FS_CardinalityType

(* A smaller set has no more elements.                                     *)
LEMMA SizesGrow ==
  ASSUME NEW T, T \subseteq CVE, NEW S, S \subseteq T
  PROVE  Cardinality(S) <= Cardinality(T)
BY Sizes, FS_Subset

(* The position of a listed CVE is below the total.                        *)
LEMMA RankBelowTotal ==
  ASSUME scored \subseteq CVE, NEW c \in scored
  PROVE  Rank(c) \in Nat /\ Rank(c) < Cardinality(scored)
<1> DEFINE S == {d \in scored : d < c}
<1>1. c \in Nat
  BY StoreAssumption
<1>2. S \subseteq scored \ {c}
  BY <1>1
<1>3. IsFiniteSet(scored) /\ Cardinality(scored) \in Nat
  BY Sizes
<1>4. Cardinality(scored \ {c}) = Cardinality(scored) - 1
  BY <1>3, FS_RemoveElement
<1>5. Cardinality(S) <= Cardinality(scored \ {c})
  BY <1>2, SizesGrow
<1>6. Cardinality(S) \in Nat
  BY Sizes
<1>7. Rank(c) = Cardinality(S)
  BY DEF Rank
<1> QED BY <1>3, <1>4, <1>5, <1>6, <1>7

(* When CVEs are added to the listing, the position of a CVE grows.        *)
LEMMA RankGrows ==
  ASSUME scored' \subseteq CVE, scored \subseteq scored', NEW c \in CVE
  PROVE  Rank(c) \in Nat /\ Rank(c)' \in Nat /\ Rank(c) <= Rank(c)'
<1>1. {d \in scored : d < c} \subseteq {d \in scored' : d < c}
  OBVIOUS
<1>2. Cardinality({d \in scored : d < c}) <= Cardinality({d \in scored' : d < c})
  BY <1>1, SizesGrow
<1>3. Cardinality({d \in scored : d < c}) \in Nat /\ Cardinality({d \in scored' : d < c}) \in Nat
  BY Sizes
<1> QED BY <1>2, <1>3 DEF Rank

----------------------------------------------------------------------------
(***************************************************************************)
(* Types.                                                                  *)
(***************************************************************************)

(* What does not change keeps its type.                                    *)
LEMMA TypeFrame ==
  ASSUME TypeOK
  PROVE  /\ UNCHANGED feeds => FeedsOK'
         /\ UNCHANGED tables => TablesOK'
         /\ UNCHANGED sync => SyncOK'
         /\ UNCHANGED find => FindOK'
         /\ UNCHANGED history => HistoryOK'
<1>1. UNCHANGED feeds => FeedsOK'
  BY DEF TypeOK, FeedsOK, feeds
<1>2. UNCHANGED tables => TablesOK'
  BY DEF TypeOK, TablesOK, tables, cves
<1>3. UNCHANGED sync => SyncOK'
  BY DEF TypeOK, SyncOK, sync, pull
<1>4. UNCHANGED find => FindOK'
  BY DEF TypeOK, FindOK
<1>5. UNCHANGED history => HistoryOK'
  BY DEF TypeOK, HistoryOK, history, losses
<1> QED BY <1>1, <1>2, <1>3, <1>4, <1>5

(* Each statement keeps the types of the tables it writes.                 *)
LEMMA PlaceholderTypes ==
  ASSUME TypeOK, NEW S, Placeholder(S)
  PROVE  /\ source' \in [CVE -> {"none", "placeholder", "nvd"}]
         /\ published' \in [CVE -> {"none", "ingestion", "nvd"}]
         /\ stored' = stored /\ matches' = matches
BY DEF TypeOK, TablesOK, Placeholder

LossesOK == skipped \in [{"kev", "epss"} -> SUBSET CVE] /\ orphans \subseteq CVE

(* The counters of the sync are numbers within their bounds.               *)
LEMMA Counters ==
  ASSUME TypeOK
  PROVE  /\ failures \in 0..MaxFailures /\ pages \in 0..MaxPages /\ count \in 0..PageSize
         /\ offset \in Nat
BY Zenon DEF TypeOK, SyncOK

(* The end of the sync keeps the sync's types.                             *)
LEMMA EndSyncTypes ==
  ASSUME TypeOK, EndSync, ok' \in [{"kev", "epss"} -> BOOLEAN], failures' \in 0..MaxFailures
  PROVE  SyncOK'
<1>1. body' \in [CVE -> Nat]
  BY DEF EndSync, Nothing
<1>2. 0 \in 0..PageSize /\ 0 \in 0..MaxPages /\ FALSE \in BOOLEAN
  BY StoreAssumption
<1> QED BY <1>1, <1>2 DEF EndSync, SyncOK

(* The beginning of a pull keeps the types of the sync and the history.    *)
LEMMA BeginPullTypes ==
  ASSUME TypeOK, BeginPull, ok' \in [{"kev", "epss"} -> BOOLEAN], failures' \in 0..MaxFailures,
         LossesOK'
  PROVE  SyncOK' /\ HistoryOK'
<1>1. body' \in [CVE -> Nat]
  BY DEF BeginPull, Nothing
<1>2. 0 \in 0..MaxPages
  BY StoreAssumption
<1>3. SyncOK'
  BY <1>1, <1>2 DEF BeginPull, SyncOK, TypeOK
<1>4. HistoryOK'
  BY DEF BeginPull, HistoryOK, LossesOK, FeedsOK, TypeOK
<1> QED BY <1>3, <1>4

(* Skipping records keeps the types of what it counts.                     *)
LEMMA SkipTypes ==
  ASSUME TypeOK, NEW f \in {"kev", "epss"}, NEW gone \in SUBSET Records, NEW late \in SUBSET gone,
         Skip(f, gone, late)
  PROVE  LossesOK' /\ failures' \in 0..MaxFailures
<1>1. gone \subseteq CVE /\ late \subseteq CVE
  BY DEF Records
<1>2. LossesOK'
  BY <1>1 DEF Skip, LossesOK, TypeOK, HistoryOK
<1>3. failures' \in 0..MaxFailures
  BY Counters, StoreAssumption DEF Skip
<1> QED BY <1>2, <1>3

(* Type correctness is inductive.                                          *)
LEMMA TypeStep ==
  ASSUME TypeOK, Next
  PROVE  TypeOK'
<1> USE StoreAssumption
<1>1. ASSUME NEW c \in Catalogued, Revise(c)
      PROVE  TypeOK'
  BY <1>1, TypeFrame DEF TypeOK, FeedsOK, Revise
<1>2. ASSUME NEW c \in Catalogued, List(c)
      PROVE  TypeOK'
  BY <1>2, TypeFrame DEF TypeOK, FeedsOK, List
<1>3. ASSUME NEW c \in CVE, Score(c)
      PROVE  TypeOK'
  BY <1>3, TypeFrame DEF TypeOK, FeedsOK, Score
<1>4. ASSUME NEW c \in CVE, Unscore(c)
      PROVE  TypeOK'
  BY <1>4, TypeFrame DEF TypeOK, FeedsOK, HistoryOK, Unscore, losses
<1>5. CASE NextDay
  BY <1>5, TypeFrame DEF TypeOK, FeedsOK, NextDay
<1>6. CASE StartSync
  <2>1. SyncOK'
    BY <1>6 DEF TypeOK, SyncOK, StartSync, pull
  <2>2. HistoryOK'
    BY <1>6 DEF TypeOK, FeedsOK, HistoryOK, StartSync, NoLoss
  <2> QED BY <1>6, <2>1, <2>2, TypeFrame DEF TypeOK, StartSync
<1>7. ASSUME NEW S \in SUBSET CVE, FetchNvdPage(S)
      PROVE  TypeOK'
  <2>1. SyncOK'
    BY <1>7 DEF TypeOK, FeedsOK, SyncOK, FetchNvdPage, pull
  <2> QED BY <1>7, <2>1, TypeFrame DEF TypeOK, FetchNvdPage
<1>8. CASE IngestNvdPage
  <2>1. SyncOK'
    BY <1>8 DEF TypeOK, SyncOK, IngestNvdPage, Nothing, pull
  <2>2. TablesOK'
    <3>1. UpsertCves(Records) /\ kev' = kev /\ epss' = epss /\ results' = results
      BY <1>8 DEF IngestNvdPage
    <3>2. \A c \in CVE : body[c] \in Nat
      BY DEF TypeOK, SyncOK
    <3>3. matches' \in [CVE -> SUBSET Nat]
      BY <3>1, <3>2 DEF TypeOK, TablesOK, UpsertCves
    <3>4. /\ source' \in [CVE -> {"none", "placeholder", "nvd"}]
          /\ published' \in [CVE -> {"none", "ingestion", "nvd"}]
          /\ stored' \in [CVE -> Nat]
      BY <3>1, <3>2 DEF TypeOK, TablesOK, UpsertCves
    <3> QED BY <3>1, <3>3, <3>4 DEF TypeOK, TablesOK
  <2>3. HistoryOK'
    BY <1>8 DEF TypeOK, HistoryOK, IngestNvdPage
  <2> QED BY <1>8, <2>1, <2>2, <2>3, TypeFrame DEF TypeOK, IngestNvdPage
<1>9. CASE NvdReturns \/ FetchKev
  <2>1. SyncOK'
    <3>1. body' \in [CVE -> Nat]
      <4>1. body' = Nothing \/ body' = cat
        BY <1>9 DEF NvdReturns, FetchKev
      <4> QED BY <4>1 DEF TypeOK, FeedsOK, Nothing
    <3>2. pc' \in {"kev", "kev_body"} /\ UNCHANGED <<offset, count, isLast, pages, ok, failures>>
      BY <1>9 DEF NvdReturns, FetchKev, pull
    <3> QED BY <3>1, <3>2 DEF TypeOK, SyncOK
  <2> QED BY <1>9, <2>1, TypeFrame DEF TypeOK, NvdReturns, FetchKev
<1>10. ASSUME NEW gone \in SUBSET Records, NEW late \in SUBSET gone, IngestKev(gone, late)
       PROVE  TypeOK'
  <2>1. LossesOK' /\ failures' \in 0..MaxFailures
    BY <1>10, SkipTypes DEF IngestKev
  <2>2. ok' \in [{"kev", "epss"} -> BOOLEAN]
    <3>1. ok' = [ok EXCEPT !["kev"] = TRUE]
      BY <1>10 DEF IngestKev
    <3> QED BY <3>1, Zenon DEF TypeOK, SyncOK
  <2>3. SyncOK' /\ HistoryOK'
    BY <1>10, <2>1, <2>2, BeginPullTypes DEF IngestKev
  <2>4. kev' \in [CVE -> Nat] /\ epss' = epss /\ results' = results /\ UNCHANGED <<feeds, find>>
    BY <1>10 DEF TypeOK, SyncOK, TablesOK, IngestKev
  <2>5. TablesOK'
    <3>1. Placeholder((Records \ gone) \cup late)
      BY <1>10 DEF IngestKev
    <3> QED BY <2>4, <3>1, PlaceholderTypes DEF TypeOK, TablesOK
  <2> QED BY <2>3, <2>4, <2>5, TypeFrame DEF TypeOK
<1>17. CASE KevFails
  <2>1. ok' = ok /\ failures < MaxFailures /\ failures' = failures + 1
    BY <1>17 DEF KevFails
  <2>2. ok' \in [{"kev", "epss"} -> BOOLEAN]
    BY <2>1, Zenon DEF TypeOK, SyncOK
  <2>3. failures' \in 0..MaxFailures
    BY <2>1, Counters
  <2>4. LossesOK'
    BY <1>17 DEF KevFails, losses, LossesOK, TypeOK, HistoryOK
  <2>5. SyncOK' /\ HistoryOK'
    BY <1>17, <2>2, <2>3, <2>4, BeginPullTypes DEF KevFails
  <2> QED BY <1>17, <2>5, TypeFrame DEF TypeOK, KevFails
<1>11. ASSUME NEW n \in 0..PageSize, FetchEpssPage(n)
       PROVE  TypeOK'
  <2>1. SyncOK'
    <3>1. /\ pc' = "epss_body" /\ pages' = pages /\ pages < MaxPages /\ count' = n
          /\ offset' = offset /\ ok' = ok /\ failures' = failures
      BY <1>11 DEF FetchEpssPage
    <3>2. isLast' \in BOOLEAN
      <4>1. isLast' = (offset + n >= Cardinality(scored))
        BY <1>11 DEF FetchEpssPage
      <4>2. (offset + n >= Cardinality(scored)) \in BOOLEAN
        OBVIOUS
      <4> QED BY <4>1, <4>2, Zenon
    <3>3. body' \in [CVE -> Nat]
      BY <1>11 DEF TypeOK, FeedsOK, FetchEpssPage
    <3> QED BY <3>1, <3>2, <3>3 DEF TypeOK, SyncOK
  <2>2. UNCHANGED <<feeds, tables, find, history>>
    BY <1>11 DEF FetchEpssPage
  <2> QED BY <2>1, <2>2, TypeFrame DEF TypeOK
<1>12. ASSUME NEW gone \in SUBSET Records, NEW late \in SUBSET gone, IngestEpssPage(gone, late)
       PROVE  TypeOK'
  <2>1. SyncOK'
    <3>1. failures' \in 0..MaxFailures /\ pages < MaxPages
      BY <1>12, SkipTypes DEF TypeOK, SyncOK, IngestEpssPage
    <3>2. CASE isLast
      BY <1>12, <3>1, <3>2, EndSyncTypes DEF TypeOK, SyncOK, IngestEpssPage
    <3>3. CASE ~isLast
      <4>1. Advance /\ ok' = ok
        BY <1>12, <3>3 DEF IngestEpssPage
      <4>2. body' \in [CVE -> Nat] /\ offset' \in Nat /\ pages' \in 0..MaxPages
        <5>1. body' = Nothing /\ offset' = offset + count /\ pages' = pages + 1
          BY <4>1 DEF Advance
        <5>2. offset \in Nat /\ count \in Nat /\ pages \in Nat
          BY Counters
        <5> QED BY <3>1, <5>1, <5>2 DEF Nothing
      <4> QED BY <3>1, <4>1, <4>2 DEF Advance, TypeOK, SyncOK
    <3> QED BY <3>2, <3>3
  <2>2. epss' \in [CVE -> Nat] /\ kev' = kev /\ results' = results
    BY <1>12 DEF TypeOK, SyncOK, TablesOK, IngestEpssPage
  <2>3. Placeholder((Records \ gone) \cup late) /\ UNCHANGED <<feeds, find>>
    BY <1>12 DEF IngestEpssPage
  <2>4. TablesOK'
    BY <2>2, <2>3, PlaceholderTypes DEF TypeOK, TablesOK
  <2>5. LossesOK' /\ UNCHANGED <<catThen, dayThen, listed>>
    BY <1>12, SkipTypes DEF IngestEpssPage
  <2>6. HistoryOK'
    BY <2>5 DEF TypeOK, HistoryOK, LossesOK
  <2> QED BY <2>1, <2>3, <2>4, <2>6, TypeFrame DEF TypeOK
<1>13. CASE PageCapReached \/ EpssFails \/ Kill
  <2>1. SyncOK'
    <3>1. ok' \in [{"kev", "epss"} -> BOOLEAN] /\ failures' \in 0..MaxFailures
      <4>1. /\ ok' = ok
            /\ failures' = failures \/ (failures < MaxFailures /\ failures' = failures + 1)
        BY <1>13 DEF PageCapReached, EpssFails, Kill
      <4>2. ok' \in [{"kev", "epss"} -> BOOLEAN]
        BY <4>1, Zenon DEF TypeOK, SyncOK
      <4> QED BY <4>1, <4>2, Counters
    <3> QED BY <1>13, <3>1, EndSyncTypes DEF PageCapReached, EpssFails, Kill
  <2> QED BY <1>13, <2>1, TypeFrame DEF TypeOK, PageCapReached, EpssFails, Kill
<1>14. ASSUME NEW c \in Named, BeginFinding(c)
       PROVE  TypeOK'
  <2>2. find' = [NoFind EXCEPT !.pc = "kev", !.cve = c]
    BY <1>14 DEF BeginFinding
  <2>1. c \in CVE
    BY StoreAssumption
  <2>3. FindOK'
    BY <2>1, <2>2 DEF FindOK, Finding, NoFind
  <2> QED BY <1>14, <2>3, TypeFrame DEF TypeOK, BeginFinding
<1>15. CASE LookupKev \/ LookupEpss
  <2>1. FindOK'
    <3>1. CASE LookupKev
      <4>1. PICK b \in BOOLEAN : b = (kev[find.cve] > 0)
        <5>1. (kev[find.cve] > 0) \in BOOLEAN
          OBVIOUS
        <5> QED BY <5>1, Zenon
      <4>2. find' = [find EXCEPT !.pc = "epss", !.kev = b]
        BY <3>1, <4>1 DEF LookupKev
      <4> QED BY <3>1, <4>1, <4>2 DEF TypeOK, FindOK, Finding, LookupKev
    <3>2. CASE LookupEpss
      BY <3>2 DEF TypeOK, TablesOK, FindOK, Finding, LookupEpss
    <3> QED BY <1>15, <3>1, <3>2
  <2> QED BY <1>15, <2>1, TypeFrame DEF TypeOK, LookupKev, LookupEpss
<1>16. CASE InsertFinding \/ FindingFails
  <2>1. FindOK'
    <3>1. find' = NoFind
      BY <1>16 DEF InsertFinding, FindingFails
    <3>2. NoFind \in Finding /\ NoFind.pc = "idle"
      BY DEF Finding, NoFind
    <3> QED BY <3>1, <3>2 DEF FindOK
  <2>2. TablesOK'
    <3>1. CASE InsertFinding
      BY <3>1, PlaceholderTypes DEF TypeOK, TablesOK, FindOK, InsertFinding, Referable
    <3> QED BY <1>16, <3>1, TypeFrame DEF FindingFails
  <2>3. HistoryOK'
    BY <1>16 DEF TypeOK, HistoryOK, InsertFinding, FindingFails, history, losses
  <2> QED BY <1>16, <2>1, <2>2, <2>3, TypeFrame DEF TypeOK, InsertFinding, FindingFails
<1> QED BY <1>1, <1>2, <1>3, <1>4, <1>5, <1>6, <1>7, <1>8, <1>9, <1>10, <1>11, <1>12, <1>13,
           <1>14, <1>15, <1>16, <1>17 DEF Next, Feed, Sync, Scan

----------------------------------------------------------------------------
(***************************************************************************)
(* What the statements do to one CVE.                                      *)
(***************************************************************************)

(* The placeholder INSERT leaves a row that is there alone, and after it   *)
(* every CVE it was executed for can be referred to.                       *)
LEMMA PlaceholderEffect ==
  ASSUME TypeOK, NEW S, Placeholder(S)
  PROVE  /\ \A c \in CVE : source'[c] = IF c \in S /\ source[c] = "none" THEN "placeholder"
                                       ELSE source[c]
         /\ stored' = stored /\ matches' = matches
         /\ S \subseteq CVE => Referable(S) = S
<1>1. \A c \in CVE : source'[c] = IF c \in S /\ source[c] = "none" THEN "placeholder" ELSE source[c]
  BY DEF Placeholder
<1>2. S \subseteq CVE => Referable(S) = S
  BY <1>1 DEF Referable
<1> QED BY <1>1, <1>2 DEF Placeholder

(* A page of NVD records.                                                  *)
LEMMA IngestNvdEffect ==
  ASSUME TypeOK, IngestNvdPage
  PROVE  /\ \A c \in CVE \ Records : /\ source'[c] = source[c] /\ stored'[c] = stored[c]
                                    /\ matches'[c] = matches[c]
         /\ \A c \in Records : /\ source'[c] = "nvd" /\ stored'[c] = body[c]
                              /\ matches'[c] = matches[c] \cup {body[c]}
         /\ kev' = kev /\ epss' = epss /\ results' = results /\ orphans' = orphans \ Records
BY DEF IngestNvdPage, UpsertCves, Records

(* The KEV catalog: the entries it gets through are in kev afterwards.     *)
LEMMA IngestKevEffect ==
  ASSUME TypeOK, NEW gone \in SUBSET Records, NEW late \in SUBSET gone, IngestKev(gone, late)
  PROVE  /\ \A c \in CVE : source'[c] = IF c \in (Records \ gone) \cup late /\ source[c] = "none"
                                       THEN "placeholder" ELSE source[c]
         /\ stored' = stored /\ matches' = matches /\ epss' = epss /\ results' = results
         /\ \A c \in CVE : kev'[c] = IF c \in Records \ gone THEN body[c] ELSE kev[c]
         /\ orphans' = (orphans \ (Records \ gone)) \cup {c \in late : source[c] = "none"}
<1> DEFINE S == (Records \ gone) \cup late
<1>1. Placeholder(S) /\ S \subseteq CVE /\ Records \ gone \subseteq S
  BY DEF IngestKev, Records
<1>2. Referable(Records \ gone) = Records \ gone
  <2>1. Referable(S) = S
    BY <1>1, PlaceholderEffect
  <2> QED BY <1>1, <2>1 DEF Referable
<1> QED BY <1>1, <1>2, PlaceholderEffect DEF IngestKev, Skip

(* A page of EPSS scores: those it gets through are in epss afterwards.    *)
LEMMA IngestEpssEffect ==
  ASSUME TypeOK, NEW gone \in SUBSET Records, NEW late \in SUBSET gone, IngestEpssPage(gone, late)
  PROVE  /\ \A c \in CVE : source'[c] = IF c \in (Records \ gone) \cup late /\ source[c] = "none"
                                       THEN "placeholder" ELSE source[c]
         /\ stored' = stored /\ matches' = matches /\ kev' = kev /\ results' = results
         /\ \A c \in CVE : epss'[c] = IF c \in Records \ gone THEN body[c] ELSE epss[c]
         /\ orphans' = (orphans \ (Records \ gone)) \cup {c \in late : source[c] = "none"}
<1> DEFINE S == (Records \ gone) \cup late
<1>1. Placeholder(S) /\ S \subseteq CVE /\ Records \ gone \subseteq S
  BY DEF IngestEpssPage, Records
<1>2. Referable(Records \ gone) = Records \ gone
  <2>1. Referable(S) = S
    BY <1>1, PlaceholderEffect
  <2> QED BY <1>1, <2>1 DEF Referable
<1> QED BY <1>1, <1>2, PlaceholderEffect DEF IngestEpssPage, Skip

(* A finding: its CVE has a row afterwards.                                *)
LEMMA InsertFindingEffect ==
  ASSUME TypeOK, InsertFinding
  PROVE  /\ \A c \in CVE : source'[c] = IF c = find.cve /\ source[c] = "none" THEN "placeholder"
                                       ELSE source[c]
         /\ stored' = stored /\ matches' = matches /\ kev' = kev /\ epss' = epss
         /\ results' = results \cup {find.cve} /\ orphans' = orphans \ {find.cve}
<1>1. Placeholder({find.cve}) /\ find.cve \in CVE
  BY DEF InsertFinding, TypeOK, FindOK
<1>2. Referable({find.cve}) = {find.cve}
  BY <1>1, PlaceholderEffect
<1> QED BY <1>1, <1>2, PlaceholderEffect DEF InsertFinding

(* No other step writes to the tables.                                     *)
LEMMA Writers ==
  ASSUME Next
  PROVE  \/ UNCHANGED <<tables, orphans>> \/ IngestNvdPage \/ InsertFinding
         \/ \E gone \in SUBSET Records : \E late \in SUBSET gone :
              IngestKev(gone, late) \/ IngestEpssPage(gone, late)
BY DEF Next, Feed, Sync, Scan, Revise, List, Score, Unscore, NextDay, StartSync, FetchNvdPage,
       NvdReturns, FetchKev, KevFails, FetchEpssPage, PageCapReached, EpssFails, Kill,
       BeginFinding, LookupKev, LookupEpss, FindingFails, history, losses

----------------------------------------------------------------------------
(***************************************************************************)
(* Rows and the rows that refer to them.                                   *)
(***************************************************************************)

(* Both invariants of the cves table are inductive.                        *)
LEMMA RowsStep ==
  ASSUME TypeOK, PlaceholderIsReferenced, MatchRowsKept, [Next]_vars
  PROVE  PlaceholderIsReferenced' /\ MatchRowsKept'
<1> USE DEF PlaceholderIsReferenced, MatchRowsKept
<1>1. CASE UNCHANGED <<tables, orphans>>
  BY <1>1 DEF tables, cves
<1>2. CASE IngestNvdPage
  <2>1. \A c \in Records : body[c] > 0 /\ c \in CVE
    BY DEF Records
  <2> QED BY <1>2, <2>1, IngestNvdEffect DEF TypeOK, TablesOK
<1>3. ASSUME NEW gone \in SUBSET Records, NEW late \in SUBSET gone, IngestKev(gone, late)
      PROVE  PlaceholderIsReferenced' /\ MatchRowsKept'
  <2>1. \A c \in Records : body[c] > 0
    BY DEF Records
  <2>2. MatchRowsKept'
    BY <1>3, IngestKevEffect
  <2>3. ASSUME NEW c \in CVE
        PROVE  (source'[c] # "none")
                 = (stored'[c] > 0 \/ kev'[c] > 0 \/ epss'[c] > 0 \/ c \in results' \/ c \in orphans')
    <3>1. CASE c \in Records \ gone
      BY <1>3, <2>1, <3>1, IngestKevEffect
    <3>2. CASE c \in late
      BY <1>3, <3>2, IngestKevEffect
    <3>3. CASE c \notin Records \ gone /\ c \notin late
      BY <1>3, <3>3, IngestKevEffect
    <3> QED BY <3>1, <3>2, <3>3
  <2> QED BY <2>2, <2>3
<1>4. ASSUME NEW gone \in SUBSET Records, NEW late \in SUBSET gone, IngestEpssPage(gone, late)
      PROVE  PlaceholderIsReferenced' /\ MatchRowsKept'
  <2>1. \A c \in Records : body[c] > 0
    BY DEF Records
  <2>2. MatchRowsKept'
    BY <1>4, IngestEpssEffect
  <2>3. ASSUME NEW c \in CVE
        PROVE  (source'[c] # "none")
                 = (stored'[c] > 0 \/ kev'[c] > 0 \/ epss'[c] > 0 \/ c \in results' \/ c \in orphans')
    <3>1. CASE c \in Records \ gone
      BY <1>4, <2>1, <3>1, IngestEpssEffect
    <3>2. CASE c \in late
      BY <1>4, <3>2, IngestEpssEffect
    <3>3. CASE c \notin Records \ gone /\ c \notin late
      BY <1>4, <3>3, IngestEpssEffect
    <3> QED BY <3>1, <3>2, <3>3
  <2> QED BY <2>2, <2>3
<1>5. CASE InsertFinding
  BY <1>5, InsertFindingEffect DEF TypeOK, TablesOK
<1>6. CASE UNCHANGED vars
  BY <1>6, <1>1 DEF vars, history, losses
<1> QED BY <1>1, <1>2, <1>3, <1>4, <1>5, <1>6, Writers

----------------------------------------------------------------------------
(***************************************************************************)
(* Ages.  The tables are not ahead of the feeds, and a fetched document is *)
(* between what the tables have and what the feeds say.                    *)
(***************************************************************************)

NotAhead == \A c \in CVE : stored[c] <= rev[c] /\ kev[c] <= cat[c] /\ epss[c] <= day

BeforeNow == 1 <= dayThen /\ dayThen <= day /\ \A c \in CVE : catThen[c] <= cat[c]

BodyIsNews ==
  /\ pc = "nvd_body" => \A c \in CVE : body[c] = 0 \/ (stored[c] <= body[c] /\ body[c] <= rev[c])
  /\ pc = "kev_body" =>
       \A c \in CVE : kev[c] <= body[c] /\ body[c] <= cat[c] /\ catThen[c] <= body[c]
  /\ pc = "epss_body" =>
       \A c \in CVE :
         body[c] = 0 \/ (epss[c] <= body[c] /\ body[c] <= day /\ dayThen <= body[c])

KevWhole == ok["kev"] => \A c \in CVE \ (Malformed \cup skipped["kev"]) : kev[c] >= catThen[c]

Fresh == NotAhead /\ BeforeNow /\ BodyIsNews /\ KevWhole

(* The ages are numbers.                                                   *)
LEMMA Ages ==
  ASSUME TypeOK
  PROVE  /\ \A c \in CVE : /\ rev[c] \in Nat /\ cat[c] \in Nat /\ stored[c] \in Nat
                          /\ kev[c] \in Nat /\ epss[c] \in Nat /\ body[c] \in Nat
                          /\ catThen[c] \in Nat
         /\ day \in Nat /\ day >= 1 /\ dayThen \in Nat
<1>1. body \in [CVE -> Nat]
  BY Zenon DEF TypeOK, SyncOK
<1> QED BY <1>1 DEF TypeOK, FeedsOK, TablesOK, HistoryOK

(* Steps of the feeds keep the ages.                                       *)
LEMMA FreshFeed ==
  ASSUME TypeOK, TypeOK', Fresh, Feed
  PROVE  Fresh'
<1> DEFINE Later == /\ \A c \in CVE : rev[c] <= rev'[c] /\ cat[c] <= cat'[c]
                    /\ day <= day'
<1>1. Later
  <2>1. ASSUME NEW c \in Catalogued, Revise(c) PROVE Later
    BY <2>1 DEF Revise, TypeOK, FeedsOK
  <2>4. ASSUME NEW c \in Catalogued, List(c) PROVE Later
    BY <2>4 DEF List, TypeOK, FeedsOK
  <2>2. ASSUME NEW c \in CVE, Score(c) \/ Unscore(c) PROVE Later
    BY <2>2, Ages DEF Score, Unscore
  <2>3. CASE NextDay
    BY <2>3 DEF NextDay, TypeOK, FeedsOK
  <2> QED BY <2>1, <2>2, <2>3, <2>4 DEF Feed
<1>2. /\ stored' = stored /\ kev' = kev /\ epss' = epss /\ pc' = pc /\ body' = body /\ ok' = ok
      /\ UNCHANGED <<catThen, dayThen, skipped>>
  BY DEF Feed, Revise, List, Score, Unscore, NextDay, tables, cves, sync, history, losses
<1>3. /\ \A c \in CVE : rev'[c] \in Nat /\ cat'[c] \in Nat
      /\ day' \in Nat
  BY DEF TypeOK, FeedsOK
<1>4. NotAhead' /\ BeforeNow'
  BY <1>1, <1>2, <1>3, Ages DEF Fresh, NotAhead, BeforeNow
<1>5. BodyIsNews'
  BY <1>1, <1>2, <1>3, Ages DEF Fresh, BodyIsNews
<1>6. KevWhole'
  BY <1>2 DEF Fresh, KevWhole
<1> QED BY <1>4, <1>5, <1>6 DEF Fresh

(* Steps of the sync keep the ages.                                        *)
LEMMA FreshSync ==
  ASSUME TypeOK, TypeOK', Fresh, Sync
  PROVE  Fresh'
<1> DEFINE Same == UNCHANGED <<rev, cat, day, stored, kev, epss>>
<1>1. CASE StartSync
  <2>1. /\ Same /\ pc' = "nvd" /\ ok'["kev"] = FALSE
        /\ catThen' = cat /\ dayThen' = dayThen
    BY <1>1 DEF StartSync, feeds, tables, cves, TypeOK, HistoryOK
  <2> QED BY <2>1, Ages DEF Fresh, NotAhead, BeforeNow, BodyIsNews, KevWhole
<1>2. ASSUME NEW S \in SUBSET CVE, FetchNvdPage(S)
      PROVE  Fresh'
  <2>1. /\ Same /\ pc' = "nvd_body" /\ ok' = ok /\ UNCHANGED <<catThen, dayThen, skipped>>
        /\ \A c \in CVE : body'[c] = 0 \/ body'[c] = rev[c]
    BY <1>2 DEF FetchNvdPage, feeds, tables, cves, history, losses
  <2> QED BY <2>1, Ages DEF Fresh, NotAhead, BeforeNow, BodyIsNews, KevWhole
<1>3. CASE IngestNvdPage
  <2>1. /\ UNCHANGED <<rev, cat, day>> /\ pc = "nvd_body" /\ pc' = "nvd" /\ ok' = ok /\ UNCHANGED <<catThen, dayThen, skipped>>
    BY <1>3 DEF IngestNvdPage, feeds, history, losses
  <2>2. \A c \in CVE : stored'[c] <= rev[c]
    BY <1>3, <2>1, IngestNvdEffect, Ages DEF Fresh, NotAhead, BodyIsNews, Records
  <2>3. kev' = kev /\ epss' = epss
    BY <1>3, IngestNvdEffect
  <2> QED BY <2>1, <2>2, <2>3 DEF Fresh, NotAhead, BeforeNow, BodyIsNews, KevWhole
<1>4. CASE NvdReturns
  <2>1. Same /\ pc' = "kev" /\ ok' = ok /\ UNCHANGED <<catThen, dayThen, skipped>>
    BY <1>4 DEF NvdReturns, feeds, tables, cves, history, losses
  <2> QED BY <2>1 DEF Fresh, NotAhead, BeforeNow, BodyIsNews, KevWhole
<1>5. CASE FetchKev
  <2>1. Same /\ pc' = "kev_body" /\ body' = cat /\ ok' = ok /\ UNCHANGED <<catThen, dayThen, skipped>>
    BY <1>5 DEF FetchKev, feeds, tables, cves, history, losses
  <2> QED BY <2>1, Ages DEF Fresh, NotAhead, BeforeNow, BodyIsNews, KevWhole
<1>6. ASSUME NEW gone \in SUBSET Records, NEW late \in SUBSET gone, IngestKev(gone, late)
      PROVE  Fresh'
  <2>1. /\ UNCHANGED <<rev, cat, day>> /\ pc = "kev_body" /\ pc' = "epss"
        /\ catThen' = catThen /\ dayThen' = day
        /\ skipped'["kev"] = skipped["kev"] \cup gone
    BY <1>6 DEF IngestKev, Skip, BeginPull, feeds, TypeOK, HistoryOK
  <2>2. stored' = stored /\ epss' = epss
    BY <1>6, IngestKevEffect
  <2>3. \A c \in CVE : kev'[c] <= cat[c]
    BY <1>6, <2>1, IngestKevEffect, Ages DEF Fresh, NotAhead, BodyIsNews
  <2>4. \A c \in CVE \ (Malformed \cup skipped'["kev"]) : kev'[c] >= catThen[c]
    BY <1>6, <2>1, IngestKevEffect, Ages DEF Fresh, BodyIsNews, Records
  <2> QED BY <2>1, <2>2, <2>3, <2>4, Ages DEF Fresh, NotAhead, BeforeNow, BodyIsNews, KevWhole
<1>7. CASE KevFails
  <2>1. /\ Same /\ pc' = "epss" /\ ok' = ok /\ catThen' = catThen /\ dayThen' = day
        /\ skipped' = skipped
    BY <1>7 DEF KevFails, BeginPull, feeds, tables, cves, TypeOK, HistoryOK, losses
  <2> QED BY <2>1, Ages DEF Fresh, NotAhead, BeforeNow, BodyIsNews, KevWhole
<1>8. ASSUME NEW n \in 0..PageSize, FetchEpssPage(n)
      PROVE  Fresh'
  <2>1. /\ Same /\ pc' = "epss_body" /\ ok' = ok /\ UNCHANGED <<catThen, dayThen, skipped>>
        /\ \A c \in CVE : body'[c] = 0 \/ body'[c] = day
    BY <1>8 DEF FetchEpssPage, feeds, tables, cves, history, losses
  <2> QED BY <2>1, Ages DEF Fresh, NotAhead, BeforeNow, BodyIsNews, KevWhole
<1>9. ASSUME NEW gone \in SUBSET Records, NEW late \in SUBSET gone, IngestEpssPage(gone, late)
      PROVE  Fresh'
  <2>1. /\ UNCHANGED <<rev, cat, day>> /\ pc = "epss_body" /\ pc' \in {"idle", "epss"}
        /\ UNCHANGED <<catThen, dayThen>> /\ skipped'["kev"] = skipped["kev"]
        /\ ok'["kev"] = ok["kev"]
    BY <1>9 DEF IngestEpssPage, Skip, EndSync, Advance, feeds, TypeOK, SyncOK, HistoryOK
  <2>2. stored' = stored /\ kev' = kev
    BY <1>9, IngestEpssEffect
  <2>3. \A c \in CVE : epss'[c] <= day
    <3>1. \A c \in CVE : epss'[c] = body[c] \/ epss'[c] = epss[c]
      BY <1>9, IngestEpssEffect
    <3>2. \A c \in CVE : body[c] <= day /\ epss[c] <= day
      BY <2>1, Ages DEF Fresh, NotAhead, BodyIsNews
    <3> QED BY <3>1, <3>2
  <2> QED BY <2>1, <2>2, <2>3 DEF Fresh, NotAhead, BeforeNow, BodyIsNews, KevWhole
<1>10. CASE PageCapReached \/ EpssFails \/ Kill
  <2>1. Same /\ pc' = "idle" /\ ok' = ok /\ UNCHANGED <<catThen, dayThen, skipped>>
    BY <1>10 DEF PageCapReached, EpssFails, Kill, EndSync, feeds, tables, cves, history, losses
  <2> QED BY <2>1 DEF Fresh, NotAhead, BeforeNow, BodyIsNews, KevWhole
<1> QED BY <1>1, <1>2, <1>3, <1>4, <1>5, <1>6, <1>7, <1>8, <1>9, <1>10 DEF Sync

(* Steps of a finding keep the ages: they write placeholders and results.  *)
LEMMA FreshScan ==
  ASSUME TypeOK, Fresh, Scan \/ UNCHANGED vars
  PROVE  Fresh'
<1>1. UNCHANGED <<rev, cat, day, pc, body, ok, catThen, dayThen, skipped>>
  BY DEF Scan, BeginFinding, LookupKev, LookupEpss, InsertFinding, FindingFails, feeds, sync,
         history, losses, vars
<1>2. stored' = stored /\ kev' = kev /\ epss' = epss
  <2>1. CASE InsertFinding
    BY <2>1, InsertFindingEffect
  <2> QED BY <2>1 DEF Scan, BeginFinding, LookupKev, LookupEpss, FindingFails, tables, cves, vars
<1> QED BY <1>1, <1>2 DEF Fresh, NotAhead, BeforeNow, BodyIsNews, KevWhole

----------------------------------------------------------------------------
(***************************************************************************)
(* The pull.  While the listing only grows, positions only move back, so   *)
(* what is before the offset stays fetched; the last page ends at or after *)
(* the total, and no position is there.                                    *)
(***************************************************************************)

StillListed == pc \in {"epss", "epss_body"} => listed \subseteq scored

PrefixStored ==
  pc = "epss" => \A c \in listed \ (Malformed \cup skipped["epss"]) : Rank(c) < offset => epss[c] >= dayThen

PageStored ==
  pc = "epss_body" =>
    \A c \in listed \ (Malformed \cup skipped["epss"]) :
      isLast \/ Rank(c) < offset + count => epss[c] >= dayThen \/ body[c] >= dayThen

EpssWhole == ok["epss"] => pc = "idle" /\ \A c \in listed \ (Malformed \cup skipped["epss"]) : epss[c] >= dayThen

Pull == StillListed /\ PrefixStored /\ PageStored /\ EpssWhole

(* Steps of the feeds: the listing grows under a pull, or there is none.   *)
LEMMA PullFeed ==
  ASSUME TypeOK, TypeOK', Pull, Feed, ~LiveListing
  PROVE  Pull'
<1>1. UNCHANGED <<pc, epss, offset, count, isLast, body, ok, dayThen, skipped>>
  BY DEF Feed, Revise, List, Score, Unscore, NextDay, tables, sync, pull, history, losses
<1>2. /\ listed' \subseteq listed /\ listed \subseteq CVE
      /\ pc \in {"epss", "epss_body"} => listed' = listed /\ scored \subseteq scored'
  BY DEF Feed, Revise, List, Score, Unscore, NextDay, history, TypeOK, HistoryOK
<1>3. scored' \subseteq CVE
  BY DEF TypeOK, FeedsOK
<1>4. pc \in {"epss", "epss_body"} =>
        \A c \in CVE : Rank(c) \in Nat /\ Rank(c)' \in Nat /\ Rank(c) <= Rank(c)'
  BY <1>2, <1>3, RankGrows
<1>5. offset \in Nat /\ count \in Nat
  BY Counters
<1>6. StillListed'
  BY <1>1, <1>2 DEF Pull, StillListed
<1>7. PrefixStored'
  BY <1>1, <1>2, <1>4, <1>5 DEF Pull, PrefixStored
<1>8. PageStored'
  BY <1>1, <1>2, <1>4, <1>5 DEF Pull, PageStored
<1>9. EpssWhole'
  BY <1>1, <1>2 DEF Pull, EpssWhole
<1> QED BY <1>6, <1>7, <1>8, <1>9 DEF Pull

(* Steps that leave the sync, the listing, the scores and the history.     *)
LEMMA PullFrame ==
  ASSUME Pull, UNCHANGED <<pc, listed, scored, epss, dayThen, isLast, offset, count, body, ok, skipped>>
  PROVE  Pull'
BY DEF Pull, StillListed, PrefixStored, PageStored, EpssWhole, Rank

(* Steps of the sync.                                                      *)
LEMMA PullSync ==
  ASSUME TypeOK, TypeOK', Fresh, Pull, Sync
  PROVE  Pull'
<1> USE DEF Pull
<1>1. CASE StartSync
  <2>1. pc' = "nvd" /\ ok'["epss"] = FALSE
    BY <1>1 DEF StartSync
  <2> QED BY <2>1 DEF StillListed, PrefixStored, PageStored, EpssWhole
<1>2. ASSUME NEW S \in SUBSET CVE, FetchNvdPage(S) \/ IngestNvdPage \/ NvdReturns \/ FetchKev
      PROVE  Pull'
  <2>1. pc \notin {"idle"} /\ pc' \in {"nvd", "nvd_body", "kev", "kev_body"} /\ ok' = ok
    BY <1>2 DEF FetchNvdPage, IngestNvdPage, NvdReturns, FetchKev
  <2> QED BY <2>1 DEF StillListed, PrefixStored, PageStored, EpssWhole
<1>3. ASSUME NEW gone \in SUBSET Records, NEW late \in SUBSET gone, IngestKev(gone, late) \/ KevFails
      PROVE  Pull'
  <2>1. /\ pc # "idle" /\ pc' = "epss" /\ offset' = 0 /\ listed' = scored /\ scored' = scored
        /\ ok'["epss"] = ok["epss"]
    BY <1>3 DEF IngestKev, KevFails, BeginPull, feeds, TypeOK, SyncOK
  <2>2. \A c \in CVE : Rank(c)' \in Nat
    BY <2>1, RankGrows DEF TypeOK, FeedsOK
  <2>3. listed' \subseteq CVE
    BY DEF TypeOK, HistoryOK
  <2>4. PrefixStored'
    BY <2>1, <2>2, <2>3 DEF PrefixStored
  <2> QED BY <2>1, <2>4 DEF StillListed, PageStored, EpssWhole
<1>4. ASSUME NEW n \in 0..PageSize, FetchEpssPage(n)
      PROVE  Pull'
  <2>1. /\ pc = "epss" /\ pc' = "epss_body" /\ count' = n
        /\ UNCHANGED <<listed, scored, epss, dayThen, offset, ok, skipped>>
        /\ isLast' = (offset + n >= Cardinality(scored))
        /\ \A c \in CVE : c \in scored /\ offset <= Rank(c) /\ Rank(c) < offset + n => body'[c] = day
    BY <1>4 DEF FetchEpssPage, feeds, tables, history, losses
  <2>2. dayThen <= day
    BY DEF Fresh, BeforeNow
  <2>3. ASSUME NEW c \in listed \ (Malformed \cup skipped["epss"]), isLast' \/ Rank(c) < offset + n
        PROVE  epss[c] >= dayThen \/ body'[c] >= dayThen
    <3>1. c \in scored /\ c \in CVE
      BY <2>1 DEF StillListed, TypeOK, HistoryOK
    <3>2. Rank(c) \in Nat /\ Rank(c) < Cardinality(scored) /\ Cardinality(scored) \in Nat
      BY <3>1, RankBelowTotal, Sizes DEF TypeOK, FeedsOK
    <3>3. offset \in Nat /\ n \in Nat /\ dayThen \in Nat /\ day \in Nat
      BY Counters, Ages, StoreAssumption
    <3>4. Rank(c) < offset + n
      <4>1. isLast' => offset + n >= Cardinality(scored)
        BY <2>1, Zenon
      <4> QED BY <2>3, <3>2, <3>3, <4>1
    <3>5. CASE Rank(c) < offset
      BY <2>1, <3>5 DEF PrefixStored
    <3>6. CASE offset <= Rank(c)
      BY <2>1, <2>2, <3>1, <3>3, <3>4, <3>6
    <3> QED BY <3>2, <3>3, <3>5, <3>6
  <2>4. PageStored'
    BY <2>1, <2>3 DEF PageStored, Rank
  <2> QED BY <2>1, <2>4 DEF StillListed, PrefixStored, EpssWhole
<1>5. ASSUME NEW gone \in SUBSET Records, NEW late \in SUBSET gone, IngestEpssPage(gone, late)
      PROVE  Pull'
  <2>1. /\ pc = "epss_body" /\ UNCHANGED <<listed, scored, dayThen>>
        /\ skipped'["epss"] = skipped["epss"] \cup gone
        /\ listed \subseteq CVE
        /\ isLast => pc' = "idle"
        /\ ~isLast => pc' = "epss" /\ offset' = offset + count /\ ok' = ok
    BY <1>5 DEF IngestEpssPage, Skip, EndSync, Advance, feeds, TypeOK, HistoryOK
  <2>2. ASSUME NEW c \in listed \ (Malformed \cup skipped'["epss"]), isLast \/ Rank(c) < offset + count
        PROVE  epss'[c] >= dayThen
    <3>1. epss[c] >= dayThen \/ body[c] >= dayThen
      BY <2>1, <2>2 DEF PageStored
    <3>2. c \in CVE /\ body[c] \in Nat /\ epss[c] \in Nat /\ dayThen \in Nat /\ dayThen >= 1
      BY <2>1, Ages DEF Fresh, BeforeNow
    <3>3. epss'[c] = IF c \in Records THEN body[c] ELSE epss[c]
      BY <1>5, <2>1, <2>2, <3>2, IngestEpssEffect
    <3>4. c \in Records <=> body[c] > 0
      BY <3>2 DEF Records
    <3>5. body[c] > 0 => body[c] >= dayThen
      BY <2>1, <3>2 DEF Fresh, BodyIsNews
    <3> QED BY <3>1, <3>2, <3>3, <3>4, <3>5
  <2>3. CASE isLast
    BY <2>1, <2>2, <2>3 DEF StillListed, PrefixStored, PageStored, EpssWhole
  <2>4. CASE ~isLast
    <3>1. PrefixStored'
      BY <2>1, <2>2, <2>4 DEF PrefixStored, Rank
    <3> QED BY <2>1, <2>4, <3>1 DEF StillListed, PageStored, EpssWhole
  <2> QED BY <2>3, <2>4
<1>6. CASE PageCapReached \/ EpssFails \/ Kill
  <2>1. pc # "idle" /\ pc' = "idle" /\ ok' = ok
    BY <1>6 DEF PageCapReached, EpssFails, Kill, EndSync
  <2> QED BY <2>1 DEF StillListed, PrefixStored, PageStored, EpssWhole
<1> QED BY <1>1, <1>2, <1>3, <1>4, <1>5, <1>6 DEF Sync

(* Steps of a finding.                                                     *)
LEMMA PullScan ==
  ASSUME Pull, Scan \/ UNCHANGED vars
  PROVE  Pull'
<1>1. UNCHANGED <<pc, listed, scored, epss, dayThen, isLast, offset, count, body, ok, skipped>>
  BY DEF Scan, BeginFinding, LookupKev, LookupEpss, InsertFinding, FindingFails, feeds, sync, pull,
         tables, history, losses, vars
<1> QED BY <1>1, PullFrame

----------------------------------------------------------------------------
(***************************************************************************)
(* The theorems.                                                           *)
(***************************************************************************)

(* Every variable keeps its type, whatever the feeds, the sync and the     *)
(* scan do: in particular the page counter stays within the page cap.      *)
THEOREM TypeCorrect == Spec => []TypeOK
<1>1. Init => TypeOK
  <2> SUFFICES ASSUME Init PROVE TypeOK
    OBVIOUS
  <2>1. FeedsOK /\ HistoryOK
    BY DEF Init, FeedsOK, HistoryOK, Nothing, NoLoss
  <2>2. TablesOK
    BY DEF Init, TablesOK, Nothing
  <2>3. SyncOK
    <3>1. ok \in [{"kev", "epss"} -> BOOLEAN]
      BY Zenon DEF Init
    <3>2. isLast \in BOOLEAN /\ body \in [CVE -> Nat]
      BY DEF Init, Nothing
    <3>3. 0 \in 0..PageSize /\ 0 \in 0..MaxPages /\ 0 \in 0..MaxFailures
      BY StoreAssumption
    <3> QED BY <3>1, <3>2, <3>3 DEF Init, SyncOK
  <2>4. FindOK
    BY DEF Init, FindOK, Finding, NoFind
  <2> QED BY <2>1, <2>2, <2>3, <2>4 DEF TypeOK
<1>2. TypeOK /\ [Next]_vars => TypeOK'
  <2>1. TypeOK /\ UNCHANGED vars => TypeOK'
    BY TypeFrame DEF TypeOK, vars
  <2> QED BY <2>1, TypeStep
<1> QED BY <1>1, <1>2, PTL DEF Spec

(* kev, epss and scan_results name rows of cves, every placeholder is      *)
(* named by one of them or memory ran out just after it was inserted, and  *)
(* a row that NVD filled has its match rows.                               *)
THEOREM RowsCorrect == Spec => []RowsFit
<1>1. Init => PlaceholderIsReferenced /\ MatchRowsKept
  BY DEF Init, PlaceholderIsReferenced, MatchRowsKept, Nothing
<1>2. TypeOK /\ PlaceholderIsReferenced /\ MatchRowsKept /\ [Next]_vars
        => PlaceholderIsReferenced' /\ MatchRowsKept'
  BY RowsStep
<1> QED BY <1>1, <1>2, TypeCorrect, PTL DEF Spec, RowsFit

(* The tables are never ahead of the feeds.                                *)
LEMMA AlwaysFresh == Spec => []Fresh
<1>1. Init => Fresh
  BY DEF Init, Fresh, NotAhead, BeforeNow, BodyIsNews, KevWhole, Nothing
<1>2. TypeOK /\ TypeOK' /\ Fresh /\ [Next]_vars => Fresh'
  BY FreshFeed, FreshSync, FreshScan DEF Next
<1> QED BY <1>1, <1>2, TypeCorrect, PTL DEF Spec

(* No writer turns a row back: a CVE that NVD filled stays filled, and     *)
(* revisions, catalog entries and scores are never replaced by older ones. *)
THEOREM RowsOnlyAdvance == Spec => NoDowngrade
<1> DEFINE Forward ==
      \A c \in CVE :
        /\ source[c] = "nvd" => source'[c] = "nvd"
        /\ stored'[c] >= stored[c] /\ kev'[c] >= kev[c] /\ epss'[c] >= epss[c]
<1>1. ASSUME TypeOK, Fresh, [Next]_vars
      PROVE  Forward
  <2>1. CASE UNCHANGED <<tables, orphans>>
    BY <1>1, <2>1, Ages DEF tables, cves
  <2>2. CASE IngestNvdPage
    <3>1. pc = "nvd_body"
      BY <2>2 DEF IngestNvdPage
    <3>2. \A c \in Records : c \in CVE /\ body[c] > 0
      BY DEF Records
    <3> QED BY <1>1, <2>2, <3>1, <3>2, IngestNvdEffect, Ages DEF Fresh, BodyIsNews
  <2>3. ASSUME NEW gone \in SUBSET Records, NEW late \in SUBSET gone, IngestKev(gone, late)
        PROVE  Forward
    <3>1. pc = "kev_body"
      BY <2>3 DEF IngestKev
    <3> QED BY <1>1, <2>3, <3>1, IngestKevEffect, Ages DEF Fresh, BodyIsNews
  <2>4. ASSUME NEW gone \in SUBSET Records, NEW late \in SUBSET gone, IngestEpssPage(gone, late)
        PROVE  Forward
    <3>1. pc = "epss_body"
      BY <2>4 DEF IngestEpssPage
    <3>2. \A c \in Records : body[c] > 0
      BY DEF Records
    <3>3. /\ UNCHANGED <<stored, kev>> /\ \A c \in CVE : source[c] = "nvd" => source'[c] = "nvd"
          /\ \A c \in CVE : epss'[c] = IF c \in Records \ gone THEN body[c] ELSE epss[c]
      BY <1>1, <2>4, IngestEpssEffect
    <3>4. \A c \in CVE : c \in Records => body[c] >= epss[c]
      BY <1>1, <3>1, <3>2, Ages DEF Fresh, BodyIsNews, NotAhead
    <3> QED BY <1>1, <3>3, <3>4, Ages
  <2>5. CASE InsertFinding
    BY <1>1, <2>5, InsertFindingEffect, Ages
  <2>6. CASE UNCHANGED vars
    BY <2>1, <2>6 DEF vars, history, losses
  <2> QED BY <1>1, <2>1, <2>2, <2>3, <2>4, <2>5, <2>6, Writers
<1>2. TypeOK /\ Fresh /\ [Next]_vars => [Forward]_vars
  BY <1>1
<1> QED BY <1>2, TypeCorrect, AlwaysFresh, PTL DEF Spec, NoDowngrade

(* When a sync reports a feed as refreshed, the well-formed records of     *)
(* that feed are in the database, but for those the run counts as skipped, *)
(* for every page size, every cap the server applies and every growth of   *)
(* the listing under the pull; CVEs that leave the listing during a pull   *)
(* are excluded.                                                           *)
THEOREM RefreshedIsComplete == ~LiveListing => (Spec => []RunIsComplete)
<1> SUFFICES ASSUME ~LiveListing PROVE Spec => []RunIsComplete
  OBVIOUS
<1>1. Init => Pull
  BY DEF Init, Pull, StillListed, PrefixStored, PageStored, EpssWhole
<1>2. TypeOK /\ TypeOK' /\ Fresh /\ Pull /\ [Next]_vars => Pull'
  BY PullFeed, PullSync, PullScan DEF Next
<1>3. Fresh /\ Pull => RunIsComplete
  BY DEF Fresh, KevWhole, Pull, EpssWhole, RunIsComplete
<1> QED BY <1>1, <1>2, <1>3, TypeCorrect, AlwaysFresh, PTL DEF Spec
----------------------------------------------------------------------------
(***************************************************************************)
(* The order of versions.  A position of a version says something, its end *)
(* included, and the answer is what the first position that is not equal   *)
(* says: positions mirror and chain, so versions do.                       *)
(***************************************************************************)
(* The tokens of a version: digit runs, and words with a place.            *)
OneTok == [text : STRING, attached : BOOLEAN]
Toks == {a \in Seq(OneTok) :
           \A i \in DOMAIN a : \/ IsNumber(a[i].text)
                               \/ \E j \in DOMAIN WordOrder : WordOrder[j] = a[i].text}

(* What counts of the token at a position, and of the end of a version.    *)
Syms == [class : {"number", "pre", "release", "word", "end"}, key : Int, loud : BOOLEAN]
ClassOf(x) == IF IsNumber(x) THEN "number"
              ELSE IF x \in Prerelease THEN "pre"
              ELSE IF x \in ReleaseEquivalent THEN "release" ELSE "word"
KeyOf(x) == IF IsNumber(x) THEN Number[x] ELSE Place(x)
End == [class |-> "end", key |-> 0, loud |-> FALSE]
Sym(a, i) == IF i \in DOMAIN a
               THEN [class |-> ClassOf(a[i].text), key |-> KeyOf(a[i].text),
                     loud |-> a[i].attached /\ ~AmbiguousLetter(a, i)]
               ELSE End

(* A token against the end of the other version, and two positions.        *)
Alone(s) == CASE s.class = "number"  -> IF s.key = 0 THEN "equal" ELSE "greater"
              [] s.class = "pre"     -> "less"
              [] s.class = "word"    -> IF s.loud THEN "greater" ELSE Undecidable
              [] OTHER               -> "equal"
Both(s, t) ==
  CASE s.class = "end"                                      -> Mirror(Alone(t))
    [] s.class # "end" /\ t.class = "end"                   -> Alone(s)
    [] {s.class, t.class} = {"pre", "release"}              ->
         IF s.class = "pre" THEN "less" ELSE "greater"
    [] s.class = t.class /\ s.class = "release"             -> "equal"
    [] s.class = t.class /\ s.class \in {"number", "pre", "word"} -> SignOf(s.key, t.key)
    [] OTHER                                                -> Undecidable

(* Reversing two positions mirrors what they say, and positions chain.     *)
LEMMA BothMirror ==
  ASSUME NEW s \in Syms, NEW t \in Syms,
         s.class = "number" => s.key >= 0, t.class = "number" => t.key >= 0
  PROVE  Both(s, t) \in Order \cup {Undecidable} /\ Both(t, s) = Mirror(Both(s, t))
BY SMT DEF Syms, Both, Alone, Mirror, SignOf, Order, Undecidable

(* At one position, at most and at most make at most, or the two ends       *)
(* cannot be compared.                                                      *)
LEMMA BothTransitive ==
  ASSUME NEW s \in Syms, NEW t \in Syms, NEW u \in Syms,
         s.class = "number" => s.key >= 0, t.class = "number" => t.key >= 0,
         u.class = "number" => u.key >= 0,
         AtMost(Both(s, t)), AtMost(Both(t, u))
  PROVE  Both(s, u) \in {Undecidable, IF Both(s, t) = "equal" /\ Both(t, u) = "equal"
                                      THEN "equal" ELSE "less"}
BY SMT DEF Syms, Both, Alone, Mirror, SignOf, Undecidable, AtMost

Pos == Nat \ {0}
Verdicts(a, b) == [i \in Pos |-> Both(Sym(a, i), Sym(b, i))]

(* The first position that is not equal decides.                           *)
FirstOf(F, v) ==
  \/ v = "equal" /\ \A i \in Pos : F[i] = "equal"
  \/ \E i \in Pos : F[i] = v /\ v # "equal" /\ \A j \in 1 .. i - 1 : F[j] = "equal"

(* A token spells a number or a word with a place, never both.             *)
LEMMA TokIs ==
  ASSUME NEW a \in Toks, NEW i \in DOMAIN a
  PROVE  /\ a[i].text \in STRING /\ a[i].attached \in BOOLEAN
         /\ KeyOf(a[i].text) \in Int /\ (IsNumber(a[i].text) => Number[a[i].text] \in Nat)
         /\ (a[i].text \in Prerelease \cup ReleaseEquivalent => ~IsNumber(a[i].text))
         /\ a[i].text \in ReleaseEquivalent => a[i].text \notin Prerelease
<1>1. a[i].text \in STRING /\ a[i].attached \in BOOLEAN
  <2>1. a \in Seq(OneTok) /\ i \in 1 .. Len(a)
    BY DEF Toks
  <2>2. a[i] \in OneTok
    BY <2>1
  <2> QED  BY <2>2 DEF OneTok
<1>2. ~IsNumber(a[i].text) => Place(a[i].text) \in Int
  <2>1. DOMAIN WordOrder = 1 .. Len(WordOrder) /\ Len(WordOrder) \in Nat
    BY VersionAssumption
  <2>2. ~IsNumber(a[i].text) => Place(a[i].text) \in DOMAIN WordOrder
    BY Zenon DEF Toks, Place
  <2> QED  BY <2>1, <2>2
<1>3. IsNumber(a[i].text) => Number[a[i].text] \in Nat
  BY VersionAssumption DEF IsNumber
<1>4. a[i].text \in Prerelease \cup ReleaseEquivalent => ~IsNumber(a[i].text)
  BY VersionAssumption DEF IsNumber
<1>5. a[i].text \in ReleaseEquivalent => a[i].text \notin Prerelease
  BY DEF ReleaseEquivalent, Prerelease
<1> QED  BY <1>1, <1>2, <1>3, <1>4, <1>5 DEF KeyOf

(* Every position of a version says something.                             *)
LEMMA SymType ==
  ASSUME NEW a \in Toks, NEW i \in Pos
  PROVE  Sym(a, i) \in Syms /\ (Sym(a, i).class = "number" => Sym(a, i).key >= 0)
<1>1. CASE i \notin DOMAIN a
  BY <1>1 DEF Sym, End, Syms
<1>2. CASE i \in DOMAIN a
  <2>1. ClassOf(a[i].text) \in {"number", "pre", "release", "word"}
        /\ (ClassOf(a[i].text) = "number" <=> IsNumber(a[i].text))
    BY DEF ClassOf
  <2> QED  BY <1>2, <2>1, TokIs DEF Sym, Syms, KeyOf
<1> QED  BY <1>1, <1>2

(* What a token says alone is what ResidualVerdict reads from it.          *)
LEMMA AloneIs ==
  ASSUME NEW a \in Toks, NEW k \in DOMAIN a
  PROVE  /\ Neutral(a[k]) <=> Alone(Sym(a, k)) = "equal"
         /\ ~Neutral(a[k]) =>
              Alone(Sym(a, k)) =
                (IF IsNumber(a[k].text) THEN "greater"
                 ELSE IF a[k].text \in Prerelease THEN "less"
                 ELSE IF ~a[k].attached \/ AmbiguousLetter(a, k) THEN Undecidable
                 ELSE "greater")
<1> DEFINE x == a[k].text
<1>1. Sym(a, k).class = ClassOf(x) /\ Sym(a, k).key = KeyOf(x)
      /\ Sym(a, k).loud = (a[k].attached /\ ~AmbiguousLetter(a, k))
  BY DEF Sym
<1>2. ClassOf(x) \in {"number", "pre", "release", "word"}
      /\ (ClassOf(x) = "number" <=> IsNumber(x))
      /\ (ClassOf(x) = "pre" <=> x \in Prerelease)
      /\ (ClassOf(x) = "release" <=> x \in ReleaseEquivalent)
  BY TokIs DEF ClassOf
<1>3. Neutral(a[k]) <=> ((IsNumber(x) /\ KeyOf(x) = 0) \/ x \in ReleaseEquivalent)
  BY DEF Neutral, KeyOf
<1> HIDE DEF x
<1>8. ReleaseEquivalent \cap Prerelease = {}
  BY DEF ReleaseEquivalent, Prerelease
<1>4. CASE IsNumber(x)
  <2>1. x \notin ReleaseEquivalent /\ x \notin Prerelease /\ ClassOf(x) = "number"
    BY <1>2, <1>4
  <2>2. Alone(Sym(a, k)) = IF KeyOf(x) = 0 THEN "equal" ELSE "greater"
    BY <1>1, <2>1 DEF Alone
  <2>3. Neutral(a[k]) <=> KeyOf(x) = 0
    BY <1>3, <1>4, <2>1
  <2>4. IsNumber(a[k].text)
    BY <1>4 DEF x
  <2> QED  BY <2>2, <2>3, <2>4
<1>5. CASE x \in ReleaseEquivalent
  <2>1. ~IsNumber(x) /\ ClassOf(x) = "release"
    BY <1>2, <1>5
  <2> QED  BY <1>1, <1>3, <1>5, <2>1 DEF Alone
<1>6. CASE x \in Prerelease
  <2>1. ~IsNumber(x) /\ ClassOf(x) = "pre" /\ x \notin ReleaseEquivalent
    BY <1>2, <1>6
  <2>2. Alone(Sym(a, k)) = "less"
    BY <1>1, <2>1 DEF Alone
  <2> QED  BY <1>3, <1>6, <2>1, <2>2 DEF x
<1>7. CASE ClassOf(x) = "word"
  BY <1>1, <1>2, <1>3, <1>7, TokIs DEF x, Alone, Undecidable
<1> QED  BY <1>2, <1>4, <1>5, <1>6, <1>7

(* The class of a text and the rank the code gives it.                     *)
LEMMA ClassIs ==
  ASSUME NEW x
  PROVE  /\ IsNumber(x) => ClassOf(x) = "number" /\ KeyOf(x) = Number[x]
         /\ ~IsNumber(x) => /\ ClassOf(x) = (IF KeywordRank(x) = 0 THEN "pre"
                                             ELSE IF KeywordRank(x) = 1 THEN "release" ELSE "word")
                            /\ KeyOf(x) = Place(x) /\ KeywordRank(x) \in {0, 1, 2}
<1>1. /\ x \in Prerelease => KeywordRank(x) = 0
      /\ x \notin Prerelease /\ x \in ReleaseEquivalent => KeywordRank(x) = 1
      /\ x \notin Prerelease /\ x \notin ReleaseEquivalent => KeywordRank(x) = 2
  BY DEF KeywordRank
<1> QED  BY <1>1 DEF ClassOf, KeyOf

(* TokenVerdict compares what the two positions say.                       *)
LEMMA TokenIsBoth ==
  ASSUME NEW a \in Toks, NEW b \in Toks, NEW i \in DOMAIN a, i \in DOMAIN b
  PROVE  TokenVerdict(a[i], b[i]) = Both(Sym(a, i), Sym(b, i))
<1> DEFINE x == a[i].text
           y == b[i].text
<1>1. /\ Sym(a, i).class = ClassOf(x) /\ Sym(a, i).key = KeyOf(x)
      /\ Sym(b, i).class = ClassOf(y) /\ Sym(b, i).key = KeyOf(y)
  BY DEF Sym
<1>3. TokenVerdict(a[i], b[i]) =
        IF IsNumber(x)
          THEN IF IsNumber(y) THEN SignOf(Number[x], Number[y]) ELSE Undecidable
          ELSE IF IsNumber(y) THEN Undecidable ELSE WordVerdict(x, y)
  BY DEF TokenVerdict
<1> HIDE DEF x, y
<1>4. CASE IsNumber(x) /\ ~IsNumber(y)
  <2>1. ClassOf(x) = "number" /\ ClassOf(y) \in {"pre", "release", "word"}
    BY <1>4, ClassIs
  <2>2. Both(Sym(a, i), Sym(b, i)) = Undecidable
    BY <1>1, <2>1 DEF Both, Undecidable
  <2>3. TokenVerdict(a[i], b[i]) = Undecidable
    BY <1>3, <1>4
  <2> QED  BY <2>2, <2>3
<1>5. CASE IsNumber(x) /\ IsNumber(y)
  BY <1>1, <1>3, <1>5, ClassIs DEF Both
<1>6. CASE ~IsNumber(x) /\ IsNumber(y)
  BY <1>1, <1>3, <1>6, ClassIs DEF Both, Undecidable
<1>7. CASE ~IsNumber(x) /\ ~IsNumber(y)
  BY <1>1, <1>3, <1>7, ClassIs DEF Both, Undecidable, WordVerdict, SignOf
<1> QED  BY <1>4, <1>5, <1>6, <1>7

(* A nonempty set of naturals has a least element.                         *)
LEMMA LeastOf ==
  ASSUME NEW S \in SUBSET Nat, S # {}
  PROVE  \E x \in S : \A y \in S : x <= y
<1>1. IsWellFoundedOn(OpToRel(<, Nat), Nat)
  BY NatLessThanWellFounded
<1>2. PICK x \in S : \A y \in S : ~(<<y, x>> \in OpToRel(<, Nat))
  BY <1>1, WFMin
<1>3. \A y \in S : ~(y < x)
  BY <1>2 DEF OpToRel
<1> QED  BY <1>3

(* The rest of one version against the end of the other.                   *)
LEMMA ResidualIs ==
  ASSUME NEW a \in Toks, NEW from \in Pos
  PROVE  \/ /\ ResidualVerdict(a, from) = "equal"
            /\ \A k \in Pos : from <= k => Alone(Sym(a, k)) = "equal"
         \/ \E k \in Pos : /\ from <= k /\ ResidualVerdict(a, from) = Alone(Sym(a, k))
                           /\ Alone(Sym(a, k)) # "equal"
                           /\ \A j \in from .. k - 1 : Alone(Sym(a, j)) = "equal"
<1> DEFINE telling == {k \in from .. Len(a) : ~Neutral(a[k])}
           least == CHOOSE i \in telling : \A j \in telling : i <= j
<1>0. DOMAIN a = 1 .. Len(a) /\ Len(a) \in Nat /\ from \in Nat /\ from >= 1
  BY DEF Toks, Pos
<1>1. \A k \in Pos : k \notin DOMAIN a => Alone(Sym(a, k)) = "equal"
  BY DEF Alone, Sym, End
<1>2. \A k \in Pos : from <= k /\ k \notin telling => Alone(Sym(a, k)) = "equal"
  <2> SUFFICES ASSUME NEW k \in Pos, from <= k, k \notin telling, k \in DOMAIN a
               PROVE  Alone(Sym(a, k)) = "equal"
    BY <1>1
  <2>1. Neutral(a[k])
    BY <1>0
  <2> QED  BY <2>1, AloneIs
<1>3. CASE telling = {}
  <2>1. ResidualVerdict(a, from) = "equal"
    BY <1>3 DEF ResidualVerdict
  <2>2. \A k \in Pos : from <= k => Alone(Sym(a, k)) = "equal"
    BY <1>2, <1>3
  <2> QED  BY <2>1, <2>2
<1>4. CASE telling # {}
  <2>1. least \in telling /\ \A j \in telling : least <= j
    <3>1. telling \in SUBSET Nat
      BY <1>0
    <3> HIDE DEF telling
    <3>2. \E x \in telling : \A y \in telling : x <= y
      BY <1>4, <3>1, LeastOf
    <3> QED  BY <3>2
  <2>2. ResidualVerdict(a, from) =
          (IF telling = {} THEN "equal"
           ELSE IF IsNumber(a[least].text) THEN "greater"
           ELSE IF a[least].text \in Prerelease THEN "less"
           ELSE IF ~a[least].attached \/ AmbiguousLetter(a, least) THEN Undecidable
           ELSE "greater")
    BY DEF ResidualVerdict
  <2>3. least \in DOMAIN a /\ least \in Pos /\ from <= least /\ ~Neutral(a[least])
    BY <1>0, <2>1 DEF Pos
  <2> HIDE DEF telling
  <2>4. \A j \in from .. least - 1 : j \in Pos /\ from <= j /\ j \notin telling
    <3> HIDE DEF least
    <3> QED  BY <1>0, <2>1, <2>3 DEF Pos
  <2> HIDE DEF least
  <2>5. ResidualVerdict(a, from) = Alone(Sym(a, least)) /\ Alone(Sym(a, least)) # "equal"
    BY <1>4, <2>2, <2>3, AloneIs
  <2>6. \A j \in from .. least - 1 : Alone(Sym(a, j)) = "equal"
    BY <1>2, <2>4
  <2> QED  BY <2>3, <2>5, <2>6
<1> QED  BY <1>3, <1>4

(* Against the end, a token speaks alone.                                  *)
LEMMA EndIs ==
  ASSUME NEW s \in Syms
  PROVE  Both(s, End) = Alone(s) /\ Both(End, s) = Mirror(Alone(s))
BY DEF Both, End, Alone, Mirror, Syms

(* Only equality is its own mirror among the decided answers.              *)
LEMMA MirrorIs ==
  ASSUME NEW v
  PROVE  Mirror(v) = "equal" <=> v = "equal"
BY DEF Mirror

(* CompareTokens answers with the first position that is not equal.        *)
LEMMA CompareTokensIs ==
  ASSUME NEW a \in Toks, NEW b \in Toks
  PROVE  FirstOf(Verdicts(a, b), CompareTokens(a, b))
<1> DEFINE telling == {i \in 1 .. (Len(a) + 1) :
                          i \in DOMAIN a /\ i \in DOMAIN b => TokenVerdict(a[i], b[i]) # "equal"}
           i == CHOOSE k \in telling : \A j \in telling : k <= j
           F == Verdicts(a, b)
<1>0. /\ DOMAIN a = 1 .. Len(a) /\ Len(a) \in Nat
      /\ DOMAIN b = 1 .. Len(b) /\ Len(b) \in Nat
  BY DEF Toks
<1>1. i \in telling /\ \A j \in telling : i <= j
  <2>1. telling \in SUBSET Nat /\ Len(a) + 1 \in telling
    BY <1>0
  <2> HIDE DEF telling
  <2>2. \E x \in telling : \A y \in telling : x <= y
    BY <2>1, LeastOf
  <2> QED  BY <2>2
<1>2. CompareTokens(a, b) =
        IF i \in DOMAIN a
          THEN IF i \in DOMAIN b THEN TokenVerdict(a[i], b[i]) ELSE ResidualVerdict(a, i)
          ELSE IF i \in DOMAIN b THEN Mirror(ResidualVerdict(b, i)) ELSE "equal"
  BY DEF CompareTokens
<1> HIDE DEF i
<1>3. i \in Pos /\ i <= Len(a) + 1
  BY <1>0, <1>1 DEF Pos
<1>4. \A j \in 1 .. i - 1 : F[j] = "equal"
  <2> SUFFICES ASSUME NEW j \in 1 .. i - 1 PROVE F[j] = "equal"
    OBVIOUS
  <2>1. j \in Pos /\ j \in 1 .. (Len(a) + 1) /\ ~(i <= j)
    BY <1>0, <1>3 DEF Pos
  <2>2. j \notin telling
    BY <1>1, <2>1
  <2>3. j \in DOMAIN a /\ j \in DOMAIN b /\ TokenVerdict(a[j], b[j]) = "equal"
    BY <2>1, <2>2
  <2> QED  BY <2>1, <2>3, TokenIsBoth DEF Verdicts
<1>5. \A k \in Pos : F[k] = Both(Sym(a, k), Sym(b, k))
  BY DEF Verdicts
<1>6. CASE i \in DOMAIN a /\ i \in DOMAIN b
  <2>1. TokenVerdict(a[i], b[i]) # "equal"
    BY <1>1, <1>6
  <2>2. CompareTokens(a, b) = F[i]
    BY <1>2, <1>3, <1>5, <1>6, TokenIsBoth
  <2> QED  BY <1>2, <1>3, <1>4, <1>6, <2>1, <2>2 DEF FirstOf
<1> HIDE DEF telling
<1>7. CASE i \in DOMAIN a /\ i \notin DOMAIN b
  <2>1. \A k \in Pos : i <= k => F[k] = Alone(Sym(a, k))
    <3> SUFFICES ASSUME NEW k \in Pos, i <= k PROVE F[k] = Alone(Sym(a, k))
      OBVIOUS
    <3>1. k \notin DOMAIN b
      BY <1>0, <1>3, <1>7 DEF Pos
    <3>2. Sym(b, k) = End
      BY <3>1 DEF Sym
    <3> QED  BY <1>5, <3>2, SymType, EndIs
  <2>2. CompareTokens(a, b) = ResidualVerdict(a, i)
    BY <1>2, <1>7
  <2> HIDE DEF F
  <2>3. CASE ResidualVerdict(a, i) = "equal"
             /\ \A k \in Pos : i <= k => Alone(Sym(a, k)) = "equal"
    <3>1. \A k \in Pos : i <= k \/ k \in 1 .. i - 1
      BY <1>3 DEF Pos
    <3> QED  BY <1>4, <2>1, <2>2, <2>3, <3>1 DEF FirstOf, F
  <2>4. ASSUME NEW k \in Pos, i <= k, ResidualVerdict(a, i) = Alone(Sym(a, k)),
               Alone(Sym(a, k)) # "equal", \A j \in i .. k - 1 : Alone(Sym(a, j)) = "equal"
        PROVE  FirstOf(F, CompareTokens(a, b))
    <3>1. \A j \in 1 .. k - 1 : j \in Pos /\ (j \in 1 .. i - 1 \/ (i <= j /\ j \in i .. k - 1))
      BY <1>3 DEF Pos
    <3>2. \A j \in 1 .. k - 1 : F[j] = "equal"
      BY <1>4, <2>1, <2>4, <3>1
    <3> QED  BY <2>1, <2>2, <2>4, <3>2 DEF FirstOf
  <2> QED  BY <1>3, <2>3, <2>4, ResidualIs DEF F
<1>8. CASE i \notin DOMAIN a /\ i \in DOMAIN b
  <2>1. \A k \in Pos : i <= k => F[k] = Mirror(Alone(Sym(b, k)))
    <3> SUFFICES ASSUME NEW k \in Pos, i <= k PROVE F[k] = Mirror(Alone(Sym(b, k)))
      OBVIOUS
    <3>1. k \notin DOMAIN a
      BY <1>0, <1>3, <1>8 DEF Pos
    <3>2. Sym(a, k) = End
      BY <3>1 DEF Sym
    <3> QED  BY <1>5, <3>2, SymType, EndIs
  <2>2. CompareTokens(a, b) = Mirror(ResidualVerdict(b, i))
    BY <1>2, <1>8
  <2> HIDE DEF F
  <2>3. CASE ResidualVerdict(b, i) = "equal"
             /\ \A k \in Pos : i <= k => Alone(Sym(b, k)) = "equal"
    <3>1. \A k \in Pos : i <= k \/ k \in 1 .. i - 1
      BY <1>3 DEF Pos
    <3> QED  BY <1>4, <2>1, <2>2, <2>3, <3>1, MirrorIs DEF FirstOf, F
  <2>4. ASSUME NEW k \in Pos, i <= k, ResidualVerdict(b, i) = Alone(Sym(b, k)),
               Alone(Sym(b, k)) # "equal", \A j \in i .. k - 1 : Alone(Sym(b, j)) = "equal"
        PROVE  FirstOf(F, CompareTokens(a, b))
    <3>1. \A j \in 1 .. k - 1 : j \in Pos /\ (j \in 1 .. i - 1 \/ (i <= j /\ j \in i .. k - 1))
      BY <1>3 DEF Pos
    <3>2. \A j \in 1 .. k - 1 : F[j] = "equal"
      BY <1>4, <2>1, <2>4, <3>1, MirrorIs
    <3> QED  BY <2>1, <2>2, <2>4, <3>2, MirrorIs DEF FirstOf
  <2> QED  BY <1>3, <2>3, <2>4, ResidualIs DEF F
<1>9. CASE i \notin DOMAIN a /\ i \notin DOMAIN b
  <2>1. \A k \in Pos : i <= k => F[k] = "equal"
    <3> SUFFICES ASSUME NEW k \in Pos, i <= k PROVE F[k] = "equal"
      OBVIOUS
    <3>1. k \notin DOMAIN a /\ k \notin DOMAIN b
      BY <1>0, <1>3, <1>9 DEF Pos
    <3>2. Sym(a, k) = End /\ Sym(b, k) = End
      BY <3>1 DEF Sym
    <3> QED  BY <1>5, <3>2 DEF Both, End, Alone, Mirror
  <2>2. CompareTokens(a, b) = "equal"
    BY <1>2, <1>9
  <2>3. \A k \in Pos : i <= k \/ k \in 1 .. i - 1
    BY <1>3 DEF Pos
  <2> QED  BY <1>4, <2>1, <2>2, <2>3 DEF FirstOf
<1> QED  BY <1>6, <1>7, <1>8, <1>9

(* First differences of mirrored positions mirror each other.              *)
LEMMA FirstMirror ==
  ASSUME NEW F, NEW G, \A i \in Pos : G[i] = Mirror(F[i]), NEW v, NEW w,
         FirstOf(F, v), FirstOf(G, w)
  PROVE  w = Mirror(v)
<1>1. CASE v = "equal" /\ \A i \in Pos : F[i] = "equal"
  <2>1. \A i \in Pos : G[i] = "equal"
    BY <1>1, MirrorIs
  <2> QED  BY <1>1, <2>1, MirrorIs DEF FirstOf
<1>2. ASSUME NEW i \in Pos, F[i] = v, v # "equal", \A j \in 1 .. i - 1 : F[j] = "equal"
      PROVE  w = Mirror(v)
  <2>1. G[i] = Mirror(v) /\ G[i] # "equal"
    BY <1>2, MirrorIs
  <2>2. PICK k \in Pos : G[k] = w /\ w # "equal" /\ \A j \in 1 .. k - 1 : G[j] = "equal"
    BY <2>1 DEF FirstOf
  <2>3. ~(i < k)
    BY <2>1, <2>2 DEF Pos
  <2>4. ~(k < i)
    <3>1. k < i => F[k] = "equal" /\ G[k] = Mirror(F[k])
      BY <1>2 DEF Pos
    <3> QED  BY <2>2, <3>1, MirrorIs
  <2>5. k = i
    BY <2>3, <2>4 DEF Pos
  <2> QED  BY <2>1, <2>2, <2>5
<1> QED  BY <1>1, <1>2 DEF FirstOf

(* What two comparisons in a row say of the two ends.                      *)
Chained(u, v) == IF u = "equal" /\ v = "equal" THEN "equal" ELSE "less"

(* First differences of chained positions chain.                           *)
LEMMA FirstTransitive ==
  ASSUME NEW F, NEW G, NEW H, NEW u, NEW v, NEW w,
         \A i \in Pos : AtMost(F[i]) /\ AtMost(G[i]) => H[i] \in {Undecidable, Chained(F[i], G[i])},
         FirstOf(F, u), FirstOf(G, v), FirstOf(H, w), AtMost(u), AtMost(v), w # Undecidable
  PROVE  w = Chained(u, v)
<1> DEFINE D == {i \in Pos : F[i] # "equal" \/ G[i] # "equal"}
<1>0. Undecidable # "equal" /\ Undecidable # "less"
  BY DEF Undecidable
<1>1. \A i \in Pos : i \notin D => H[i] \in {Undecidable, "equal"}
  BY DEF AtMost, Chained
<1>2. CASE D = {}
  <2>1. u = "equal" /\ v = "equal"
    BY <1>2 DEF FirstOf
  <2>2. \A i \in Pos : H[i] \in {Undecidable, "equal"}
    BY <1>1, <1>2
  <2> QED  BY <2>1, <2>2 DEF FirstOf, Chained
<1>3. CASE D # {}
  <2>0. D \in SUBSET Nat
    BY DEF Pos
  <2>1. PICK m \in D : \A y \in D : m <= y
    <3> HIDE DEF D
    <3> QED  BY <1>3, <2>0, LeastOf
  <2>2. m \in Pos /\ \A j \in 1 .. m - 1 : j \in Pos /\ j \notin D
    BY <2>1 DEF Pos
  <2>3. /\ F[m] # "equal" => u = F[m]
        /\ G[m] # "equal" => v = G[m]
    <3>1. F[m] # "equal" => u = F[m]
      <4> SUFFICES ASSUME F[m] # "equal" PROVE u = F[m]
        OBVIOUS
      <4>1. PICK k \in Pos : F[k] = u /\ u # "equal" /\ \A j \in 1 .. k - 1 : F[j] = "equal"
        BY <2>2 DEF FirstOf
      <4>2. k \in D
        BY <4>1
      <4>3. m <= k /\ ~(m < k)
        BY <2>1, <2>2, <4>1, <4>2 DEF Pos
      <4> QED  BY <2>2, <4>1, <4>3 DEF Pos
    <3>2. G[m] # "equal" => v = G[m]
      <4> SUFFICES ASSUME G[m] # "equal" PROVE v = G[m]
        OBVIOUS
      <4>1. PICK k \in Pos : G[k] = v /\ v # "equal" /\ \A j \in 1 .. k - 1 : G[j] = "equal"
        BY <2>2 DEF FirstOf
      <4>2. k \in D
        BY <4>1
      <4>3. m <= k /\ ~(m < k)
        BY <2>1, <2>2, <4>1, <4>2 DEF Pos
      <4> QED  BY <2>2, <4>1, <4>3 DEF Pos
    <3> QED  BY <3>1, <3>2
  <2>4. AtMost(F[m]) /\ AtMost(G[m])
    BY <2>3 DEF AtMost
  <2>5. H[m] \in {Undecidable, "less"}
    BY <2>1, <2>2, <2>4 DEF Chained
  <2>6. Chained(u, v) = "less"
    BY <2>1, <2>3 DEF Chained
  <2>7. PICK k \in Pos : H[k] = w /\ w # "equal" /\ \A j \in 1 .. k - 1 : H[j] = "equal"
    BY <1>0, <2>2, <2>5 DEF FirstOf
  <2>8. ~(m < k)
    BY <1>0, <2>2, <2>5, <2>7 DEF Pos
  <2>9. ~(k < m)
    <3>1. k < m => k \in 1 .. m - 1
      BY <2>2 DEF Pos
    <3> QED  BY <1>1, <2>2, <2>7, <3>1
  <2>10. k = m
    BY <2>2, <2>8, <2>9 DEF Pos
  <2> QED  BY <2>5, <2>6, <2>7, <2>10
<1> QED  BY <1>2, <1>3

(* CompareTokens is antisymmetric.                                         *)
LEMMA TokensMirror ==
  ASSUME NEW a \in Toks, NEW b \in Toks
  PROVE  CompareTokens(b, a) = Mirror(CompareTokens(a, b))
<1>1. \A i \in Pos : Verdicts(b, a)[i] = Mirror(Verdicts(a, b)[i])
  BY SymType, BothMirror DEF Verdicts
<1> QED  BY <1>1, CompareTokensIs, FirstMirror

(* Decided answers of CompareTokens chain.                                 *)
LEMMA TokensTransitive ==
  ASSUME NEW a \in Toks, NEW b \in Toks, NEW c \in Toks,
         AtMost(CompareTokens(a, b)), AtMost(CompareTokens(b, c)),
         CompareTokens(a, c) # Undecidable
  PROVE  CompareTokens(a, c) = Chained(CompareTokens(a, b), CompareTokens(b, c))
<1>1. \A i \in Pos : AtMost(Verdicts(a, b)[i]) /\ AtMost(Verdicts(b, c)[i]) =>
        Verdicts(a, c)[i] \in {Undecidable, Chained(Verdicts(a, b)[i], Verdicts(b, c)[i])}
  <2> SUFFICES ASSUME NEW i \in Pos, AtMost(Both(Sym(a, i), Sym(b, i))),
                      AtMost(Both(Sym(b, i), Sym(c, i)))
               PROVE  Both(Sym(a, i), Sym(c, i)) \in
                        {Undecidable, Chained(Both(Sym(a, i), Sym(b, i)), Both(Sym(b, i), Sym(c, i)))}
    BY DEF Verdicts
  <2> QED  BY SymType, BothTransitive DEF Chained
<1> HIDE DEF Verdicts
<1> QED  BY <1>1, CompareTokensIs, FirstTransitive

UpTo(at, b) == {j \in at : j <= b}

(* A set of k positions or more has a k-th one.                            *)
LEMMA NthExists ==
  ASSUME NEW N \in Nat, NEW at, at \subseteq 1 .. N, NEW k \in 1 .. Cardinality(at)
  PROVE  \E i \in at : Cardinality({j \in at : j < i}) = k - 1
<1> DEFINE S == {b \in Nat : Cardinality(UpTo(at, b)) >= k}
<1>0. IsFiniteSet(at) /\ Cardinality(at) \in Nat /\ k \in Nat /\ k >= 1
  <2>1. IsFiniteSet(1 .. N)
    BY FS_Interval
  <2>2. IsFiniteSet(at)
    BY <2>1, FS_Subset
  <2>3. Cardinality(at) \in Nat
    BY <2>2, FS_CardinalityType
  <2> QED  BY <2>2, <2>3
<1>a. \A j \in at : j \in Int /\ 1 <= j /\ j <= N
  OBVIOUS
<1>1. \A b \in Nat : IsFiniteSet(UpTo(at, b)) /\ Cardinality(UpTo(at, b)) \in Nat
  <2> TAKE b \in Nat
  <2>1. UpTo(at, b) \subseteq at
    BY DEF UpTo
  <2>2. IsFiniteSet(UpTo(at, b))
    BY <1>0, <2>1, FS_Subset
  <2> QED  BY <2>2, FS_CardinalityType
<1>2. N \in S
  <2>1. UpTo(at, N) = at
    BY <1>a DEF UpTo
  <2> QED  BY <1>0, <2>1
<1>3. PICK b \in S : \A y \in S : b <= y
  <2>1. S \in SUBSET Nat
    OBVIOUS
  <2> HIDE DEF S
  <2> QED  BY <1>2, <2>1, LeastOf
<1>4. b # 0
  <2>0. \A j \in at : ~(j <= 0)
    BY <1>a
  <2>1. UpTo(at, 0) = {}
    BY <2>0, Zenon DEF UpTo
  <2>2. Cardinality(UpTo(at, 0)) = 0
    BY <2>1, FS_EmptySet
  <2> QED  BY <1>0, <1>3, <2>2
<1>5. b \in Nat /\ b - 1 \in Nat /\ b - 1 \notin S /\ Cardinality(UpTo(at, b)) >= k
  BY <1>3, <1>4
<1>6. Cardinality(UpTo(at, b - 1)) < k
  BY <1>0, <1>1, <1>5
<1> HIDE DEF S
<1>b. /\ \A j \in at : (j <= b - 1 <=> j < b) /\ (j <= b <=> j <= b - 1 \/ j = b)
      /\ ~(b <= b - 1) /\ b <= b
  BY <1>a, <1>5
<1>7. b \in at
  <2> SUFFICES ASSUME b \notin at PROVE FALSE
    OBVIOUS
  <2>1. UpTo(at, b) = UpTo(at, b - 1)
    BY <1>b, Zenon DEF UpTo
  <2> QED  BY <1>0, <1>1, <1>5, <1>6, <2>1
<1>8. UpTo(at, b) = UpTo(at, b - 1) \cup {b} /\ b \notin UpTo(at, b - 1)
  BY <1>b, <1>7, Zenon DEF UpTo
<1>9. Cardinality(UpTo(at, b)) = Cardinality(UpTo(at, b - 1)) + 1
  BY <1>1, <1>5, <1>8, FS_AddElement
<1>10. UpTo(at, b - 1) = {j \in at : j < b}
  BY <1>b, Zenon DEF UpTo
<1>11. Cardinality(UpTo(at, b - 1)) = k - 1
  BY <1>0, <1>1, <1>5, <1>6, <1>9
<1> QED  BY <1>7, <1>10, <1>11

(* A text without the bytes that are refused.                              *)
Clean(s) == s \in Seq(STRING) /\ \A i \in DOMAIN s : Lexeme(s[i]) /\ s[i] \notin Refused

(* A part of a text is a text, with the same lexemes.                      *)
LEMMA CleanPart ==
  ASSUME NEW s, Clean(s), NEW m \in Pos, NEW n \in Nat, m <= n + 1, n <= Len(s)
  PROVE  /\ Clean(SubSeq(s, m, n))
         /\ DOMAIN SubSeq(s, m, n) = 1 .. (n - m + 1)
         /\ \A i \in 1 .. (n - m + 1) : SubSeq(s, m, n)[i] = s[m + i - 1]
<1>1. s \in Seq(STRING) /\ m \in 1 .. Len(s) + 1 /\ n \in m - 1 .. Len(s)
  BY DEF Clean, Pos
<1>3. \A i \in m .. n : i \in DOMAIN s /\ s[i] \in STRING
  BY <1>1 DEF Pos
<1>4. /\ SubSeq(s, m, n) \in Seq(STRING)
      /\ Len(SubSeq(s, m, n)) = (IF m <= n THEN n - m + 1 ELSE 0)
      /\ \A i \in 1 .. (n - m + 1) : SubSeq(s, m, n)[i] = s[m + i - 1]
  BY <1>3, SubSeqProperties DEF Pos
<1>5. Len(SubSeq(s, m, n)) = n - m + 1
  BY <1>4 DEF Pos
<1>6. DOMAIN SubSeq(s, m, n) = 1 .. (n - m + 1)
  BY <1>4, <1>5
<1>7. \A i \in 1 .. (n - m + 1) : m + i - 1 \in DOMAIN s
  BY <1>1 DEF Pos
<1> QED  BY <1>4, <1>6, <1>7 DEF Clean

(* So is its tail.                                                         *)
LEMMA CleanTail ==
  ASSUME NEW s, Clean(s), s # <<>>
  PROVE  Clean(Tail(s))
<1>1. s \in Seq(STRING) /\ Len(s) \in Nat /\ DOMAIN s = 1 .. Len(s)
  BY DEF Clean
<1>2. /\ Tail(s) \in Seq(STRING) /\ Len(Tail(s)) = Len(s) - 1
      /\ \A i \in 1 .. Len(Tail(s)) : Tail(s)[i] = s[i + 1]
  BY <1>1, HeadTailProperties
<1>3. DOMAIN Tail(s) = 1 .. Len(Tail(s))
  BY <1>2
<1>4. \A i \in 1 .. Len(Tail(s)) : i + 1 \in DOMAIN s
  BY <1>1, <1>2
<1> QED  BY <1>2, <1>3, <1>4 DEF Clean

(* Where the tokens of a text are.                                         *)
At(s) == {i \in DOMAIN s : s[i] \notin Delims}
NthAt(s, k) == CHOOSE i \in At(s) : Cardinality({j \in At(s) : j < i}) = k - 1

(* Tokens takes its k-th token from the k-th position.                     *)
LEMMA TokensAre ==
  ASSUME NEW s, Clean(s)
  PROVE  /\ Cardinality(At(s)) \in Nat
         /\ Tokens(s) = [k \in 1 .. Cardinality(At(s)) |->
                           [text     |-> s[NthAt(s, k)],
                            attached |-> NthAt(s, k) = 1 \/ s[NthAt(s, k) - 1] \notin Delims]]
         /\ \A k \in 1 .. Cardinality(At(s)) :
              NthAt(s, k) \in At(s) /\ Cardinality({j \in At(s) : j < NthAt(s, k)}) = k - 1
<1>1. s \in Seq(STRING) /\ Len(s) \in Nat /\ DOMAIN s = 1 .. Len(s)
  BY DEF Clean
<1>2. At(s) \subseteq 1 .. Len(s)
  BY <1>1 DEF At
<1>3. IsFiniteSet(At(s))
  <2>1. IsFiniteSet(1 .. Len(s))
    BY <1>1, FS_Interval
  <2> QED  BY <1>2, <2>1, FS_Subset
<1>4. Cardinality(At(s)) \in Nat
  BY <1>3, FS_CardinalityType
<1>5. \A k \in 1 .. Cardinality(At(s)) :
        \E i \in At(s) : Cardinality({j \in At(s) : j < i}) = k - 1
  BY <1>1, <1>2, NthExists
<1>6. \A k \in 1 .. Cardinality(At(s)) :
        NthAt(s, k) \in At(s) /\ Cardinality({j \in At(s) : j < NthAt(s, k)}) = k - 1
  BY <1>5, Zenon DEF NthAt
<1>7. Tokens(s) = [k \in 1 .. Cardinality(At(s)) |->
                           [text     |-> s[NthAt(s, k)],
                            attached |-> NthAt(s, k) = 1 \/ s[NthAt(s, k) - 1] \notin Delims]]
  BY Zenon DEF Tokens, NthAt, At
<1> QED  BY <1>4, <1>6, <1>7

(* Without build metadata, what is tokenized are numbers and words.        *)
LEMMA TokensType ==
  ASSUME NEW s, Clean(s), \A i \in DOMAIN s : s[i] # "+"
  PROVE  Tokens(s) \in Toks
<1>1. \A k \in 1 .. Cardinality(At(s)) :
        LET t == [text     |-> s[NthAt(s, k)],
                  attached |-> NthAt(s, k) = 1 \/ s[NthAt(s, k) - 1] \notin Delims]
        IN  t \in OneTok /\ (IsNumber(t.text) \/ \E j \in DOMAIN WordOrder : WordOrder[j] = t.text)
  <2> TAKE k \in 1 .. Cardinality(At(s))
  <2>1. NthAt(s, k) \in DOMAIN s /\ s[NthAt(s, k)] \notin Delims
    BY TokensAre DEF At
  <2>2. s[NthAt(s, k)] \in STRING
    BY <2>1 DEF Clean
  <2>3. \/ IsNumber(s[NthAt(s, k)]) \/ \E j \in DOMAIN WordOrder : WordOrder[j] = s[NthAt(s, k)]
    BY <2>1 DEF Clean, Lexeme
  <2> QED  BY <2>2, <2>3 DEF OneTok
<1>2. Cardinality(At(s)) \in Nat
      /\ Tokens(s) = [k \in 1 .. Cardinality(At(s)) |->
                           [text     |-> s[NthAt(s, k)],
                            attached |-> NthAt(s, k) = 1 \/ s[NthAt(s, k) - 1] \notin Delims]]
  BY TokensAre
<1>3. /\ DOMAIN Tokens(s) = 1 .. Cardinality(At(s))
      /\ \A k \in DOMAIN Tokens(s) : /\ Tokens(s)[k] \in OneTok
                                     /\ \/ IsNumber(Tokens(s)[k].text)
                                        \/ \E j \in DOMAIN WordOrder : WordOrder[j] = Tokens(s)[k].text
  BY <1>1, <1>2
<1>4. Tokens(s) \in Seq(OneTok)
  <2>1. Tokens(s) \in [1 .. Cardinality(At(s)) -> OneTok]
    BY <1>2, <1>3
  <2> QED  BY <1>2, <2>1, SeqDef
<1> QED  BY <1>3, <1>4 DEF Toks

(* Every text that is not refused has an epoch and tokens.                 *)
LEMMA VersionType ==
  ASSUME NEW s, IsText(s), ~IsRefused(s)
  PROVE  Version(s).epoch \in Nat /\ Version(s).toks \in Toks
<1> DEFINE p == StripV(s)
           q == Rest(p)
<1>1. Clean(s)
  BY DEF Clean, IsText, IsRefused
<1>2. Clean(p)
  <2>1. Len(s) >= 2 => s # <<>>
    BY <1>1 DEF Clean
  <2> QED  BY <1>1, <2>1, CleanTail DEF StripV
<1> HIDE DEF p
<1>3. Epoch(p) \in Nat
  BY VersionAssumption DEF Epoch, HasEpoch, IsNumber
<1>4. Clean(q)
  <2>1. HasEpoch(p) => Clean(SubSeq(p, 3, Len(p)))
    <3> SUFFICES ASSUME HasEpoch(p) PROVE Clean(SubSeq(p, 3, Len(p)))
      OBVIOUS
    <3>1. Len(p) \in Nat /\ 3 \in Pos /\ 3 <= Len(p) + 1 /\ Len(p) <= Len(p)
      BY <1>2 DEF HasEpoch, Clean, Pos
    <3> QED  BY <1>2, <3>1, CleanPart
  <2> QED  BY <1>2, <2>1 DEF Rest
<1> HIDE DEF q
<1>5. Clean(WithoutBuild(q)) /\ \A i \in DOMAIN WithoutBuild(q) : WithoutBuild(q)[i] # "+"
  <2> DEFINE plus == {i \in DOMAIN q : q[i] = "+"}
             first == CHOOSE i \in plus : \A j \in plus : i <= j
  <2>0. DOMAIN q = 1 .. Len(q) /\ Len(q) \in Nat
    BY <1>4 DEF Clean
  <2>1. CASE plus = {}
    <3>1. WithoutBuild(q) = q
      BY <2>1 DEF WithoutBuild
    <3> QED  BY <1>4, <2>1, <3>1
  <2>2. CASE plus # {}
    <3>1. WithoutBuild(q) = SubSeq(q, 1, first - 1)
      BY <2>2 DEF WithoutBuild
    <3>2. first \in plus /\ \A j \in plus : first <= j
      <4>1. plus \in SUBSET Nat
        BY <2>0
      <4> HIDE DEF plus
      <4>2. \E x \in plus : \A y \in plus : x <= y
        BY <2>2, <4>1, LeastOf
      <4> QED  BY <4>2
    <3> HIDE DEF first
    <3>3. first \in 1 .. Len(q) /\ \A j \in 1 .. first - 1 : q[j] # "+"
      BY <2>0, <3>2
    <3>4. 1 \in Pos /\ first - 1 \in Nat /\ 1 <= (first - 1) + 1 /\ first - 1 <= Len(q)
      BY <2>0, <3>3 DEF Pos
    <3>5. /\ Clean(SubSeq(q, 1, first - 1))
          /\ DOMAIN SubSeq(q, 1, first - 1) = 1 .. ((first - 1) - 1 + 1)
          /\ \A i \in 1 .. ((first - 1) - 1 + 1) : SubSeq(q, 1, first - 1)[i] = q[1 + i - 1]
      BY <1>4, <3>4, CleanPart
    <3>6. \A i \in 1 .. ((first - 1) - 1 + 1) : 1 + i - 1 = i /\ i \in 1 .. first - 1
      BY <3>3
    <3> QED  BY <3>1, <3>3, <3>5, <3>6
  <2> QED  BY <2>1, <2>2
<1>6. Tokens(WithoutBuild(q)) \in Toks
  BY <1>5, TokensType
<1>7. Version(s) = [epoch |-> Epoch(p), toks |-> Tokens(WithoutBuild(q))]
  BY DEF Version, p, q
<1> QED  BY <1>3, <1>6, <1>7

(* cytadel_version_compare is antisymmetric.                               *)
LEMMA CompareMirrors ==
  ASSUME NEW s, NEW t, IsText(s), IsText(t)
  PROVE  Compare(t, s) = Mirror(Compare(s, t))
<1>1. CASE IsRefused(s) \/ IsRefused(t)
  BY <1>1 DEF Compare, Mirror, Undecidable
<1>2. CASE ~IsRefused(s) /\ ~IsRefused(t)
  <2> DEFINE u == Version(s)
             v == Version(t)
  <2>1. u.epoch \in Nat /\ v.epoch \in Nat /\ u.toks \in Toks /\ v.toks \in Toks
    BY <1>2, VersionType
  <2>2. Compare(s, t) = CompareVersions(u, v) /\ Compare(t, s) = CompareVersions(v, u)
    BY <1>2 DEF Compare
  <2>3. CompareTokens(v.toks, u.toks) = Mirror(CompareTokens(u.toks, v.toks))
    BY <2>1, TokensMirror
  <2>4. Mirror(Undecidable) = Undecidable
    BY DEF Mirror, Undecidable
  <2>5. SignOf(v.epoch, u.epoch) = Mirror(SignOf(u.epoch, v.epoch))
    BY <2>1 DEF SignOf, Mirror
  <2> HIDE DEF u, v
  <2> QED  BY <2>2, <2>3, <2>4, <2>5 DEF CompareVersions
<1> QED  BY <1>1, <1>2

(* Decided answers of cytadel_version_compare chain.                       *)
LEMMA CompareTransitive ==
  ASSUME NEW s, NEW t, NEW r, IsText(s), IsText(t), IsText(r),
         AtMost(Compare(s, t)), AtMost(Compare(t, r)), Compare(s, r) # Undecidable
  PROVE  Compare(s, r) = Chained(Compare(s, t), Compare(t, r))
<1> DEFINE u == Version(s)
           v == Version(t)
           w == Version(r)
<1>0. ~AtMost(Undecidable)
  BY DEF AtMost, Undecidable
<1>1. ~IsRefused(s) /\ ~IsRefused(t) /\ ~IsRefused(r)
  BY <1>0 DEF Compare
<1>2. /\ u.epoch \in Nat /\ v.epoch \in Nat /\ w.epoch \in Nat
      /\ u.toks \in Toks /\ v.toks \in Toks /\ w.toks \in Toks
  BY <1>1, VersionType
<1>3. /\ Compare(s, t) = CompareVersions(u, v) /\ Compare(t, r) = CompareVersions(v, w)
      /\ Compare(s, r) = CompareVersions(u, w)
  BY <1>1 DEF Compare
<1> HIDE DEF u, v, w
<1>4. u.toks # <<>> /\ v.toks # <<>> /\ w.toks # <<>>
  BY <1>0, <1>3 DEF CompareVersions
<1>5. CASE u.epoch = v.epoch /\ v.epoch = w.epoch
  <2>1. /\ Compare(s, t) = CompareTokens(u.toks, v.toks)
        /\ Compare(t, r) = CompareTokens(v.toks, w.toks)
        /\ Compare(s, r) = CompareTokens(u.toks, w.toks)
    BY <1>3, <1>4, <1>5 DEF CompareVersions
  <2> QED  BY <1>2, <2>1, TokensTransitive
<1>6. CASE u.epoch # v.epoch \/ v.epoch # w.epoch
  <2>1. /\ u.epoch # v.epoch => u.epoch < v.epoch /\ Compare(s, t) = "less"
        /\ v.epoch # w.epoch => v.epoch < w.epoch /\ Compare(t, r) = "less"
    BY <1>2, <1>3, <1>4 DEF CompareVersions, SignOf, AtMost
  <2>2. u.epoch < w.epoch
    BY <1>2, <1>6, <2>1
  <2>3. Compare(s, r) = "less"
    BY <1>2, <1>3, <1>4, <2>2 DEF CompareVersions, SignOf
  <2> QED  BY <1>6, <2>1, <2>3 DEF Chained
<1> QED  BY <1>5, <1>6

OddsTo(K) == {2 * k - 1 : k \in 1 .. K}

(* There are K odd numbers up to 2K - 1.                                   *)
LEMMA Odds ==
  ASSUME NEW K \in Nat
  PROVE  IsFiniteSet(OddsTo(K)) /\ Cardinality(OddsTo(K)) = K
<1> DEFINE f == [k \in 1 .. K |-> 2 * k - 1]
<1>1. IsFiniteSet(1 .. K) /\ Cardinality(1 .. K) = K
  BY FS_Interval
<1>2. f \in [1 .. K -> OddsTo(K)]
  BY DEF OddsTo
<1>3. \A x, y \in 1 .. K : f[x] = f[y] => x = y
  OBVIOUS
<1>4. \A t \in OddsTo(K) : \E x \in 1 .. K : f[x] = t
  BY DEF OddsTo
<1>5. DOMAIN f = 1 .. K
  OBVIOUS
<1> HIDE DEF f
<1>6. f \in Bijection(1 .. K, OddsTo(K))
  BY <1>2, <1>3, <1>4, <1>5 DEF Bijection, Injection, Surjection, IsInjective
<1>7. ExistsBijection(1 .. K, OddsTo(K))
  BY <1>6 DEF ExistsBijection
<1> QED  BY <1>1, <1>7, FS_Bijection

(* The tokens of dotted numbers are those numbers, in order.               *)
LEMMA ReleaseTokens ==
  ASSUME NEW s, IsText(s), IsRelease(s)
  PROVE  /\ ~IsRefused(s) /\ Version(s).epoch = 0
         /\ Version(s).toks \in Toks /\ Version(s).toks # <<>>
         /\ \E n \in Pos : /\ Len(s) = 2 * n - 1
                           /\ DOMAIN Version(s).toks = 1 .. n
                           /\ \A k \in 1 .. n : /\ IsNumber(s[2 * k - 1])
                                                /\ Version(s).toks[k].text = s[2 * k - 1]
<1>0. s \in Seq(STRING) /\ Len(s) \in Nat /\ DOMAIN s = 1 .. Len(s) /\ Len(s) # 0
  BY DEF IsText, IsRelease
<1>1. PICK n \in Pos : Len(s) = 2 * n - 1
  <2>1. Len(s) % 2 = 1
    BY DEF IsRelease
  <2>2. (Len(s) + 1) \div 2 \in Pos /\ Len(s) = 2 * ((Len(s) + 1) \div 2) - 1
    BY <1>0, <2>1 DEF Pos
  <2> QED  BY <2>2
<1>2. /\ \A k \in 1 .. n : 2 * k - 1 \in DOMAIN s /\ IsNumber(s[2 * k - 1])
      /\ \A i \in DOMAIN s : i \in OddsTo(n) \/ s[i] = "."
  <2>1. \A k \in 1 .. n : 2 * k - 1 \in DOMAIN s /\ (2 * k - 1) % 2 = 1
    BY <1>0, <1>1 DEF Pos
  <2>2. \A i \in DOMAIN s : i % 2 = 1 => (i + 1) \div 2 \in 1 .. n /\ i = 2 * ((i + 1) \div 2) - 1
    <3> SUFFICES ASSUME NEW i \in 1 .. 2 * n - 1, i % 2 = 1
                 PROVE  (i + 1) \div 2 \in 1 .. n /\ i = 2 * ((i + 1) \div 2) - 1
      BY <1>0, <1>1
    <3> DEFINE h == (i + 1) \div 2
    <3>1. i \in Int /\ 1 <= i /\ i <= 2 * n - 1 /\ n \in Int
      BY DEF Pos
    <3>2. h \in Int /\ i = 2 * h - 1
      BY <3>1
    <3> HIDE DEF h
    <3>3. h \in 1 .. n
      BY <3>1, <3>2
    <3> QED  BY <3>2, <3>3 DEF h
  <2>3. \A i \in DOMAIN s : i % 2 = 1 => i \in OddsTo(n)
    BY <2>2 DEF OddsTo
  <2>4. \A i \in DOMAIN s : IF i % 2 = 1 THEN IsNumber(s[i]) ELSE s[i] = "."
    BY DEF IsRelease
  <2> QED  BY <2>1, <2>3, <2>4
<1>3. \A i \in DOMAIN s : IsNumber(s[i]) \/ s[i] = "."
  BY <1>2 DEF OddsTo
<1>4. \A x : IsNumber(x) => x \notin Delims /\ x \notin Refused /\ x # "+" /\ x # "v"
  BY VersionAssumption DEF IsNumber
<1>5. \A i \in DOMAIN s : /\ s[i] \notin Refused /\ s[i] # "+" /\ s[i] # "v"
                          /\ s[i] \in Delims <=> ~IsNumber(s[i])
  BY <1>3, <1>4 DEF Refused, Delims
<1>6. ~IsRefused(s)
  BY <1>5 DEF IsRefused
<1>7. Clean(s)
  BY <1>5 DEF Clean, IsText
<1>8. StripV(s) = s
  <2>1. 1 \in DOMAIN s
    BY <1>0
  <2>2. s[1] # "v"
    BY <1>5, <2>1
  <2> QED  BY <2>2 DEF StripV
<1>9. ~HasEpoch(s)
  <2> SUFFICES ASSUME Len(s) >= 2, s[2] = ":" PROVE FALSE
    BY DEF HasEpoch
  <2>1. 2 \in DOMAIN s /\ 2 % 2 = 0
    BY <1>0
  <2>2. s[2] = "."
    BY <2>1 DEF IsRelease
  <2> QED  BY <2>2
<1>10. WithoutBuild(s) = s
  BY <1>5 DEF WithoutBuild
<1>11. Version(s) = [epoch |-> 0, toks |-> Tokens(s)]
  BY <1>8, <1>9, <1>10 DEF Version, Epoch, Rest
<1>12. At(s) = OddsTo(n)
  <2>1. \A x : x \in OddsTo(n) => x \in DOMAIN s /\ IsNumber(s[x])
    BY <1>2 DEF OddsTo
  <2> QED  BY <1>2, <1>4, <2>1 DEF At, Delims
<1>13. Cardinality(At(s)) = n
  BY <1>12, Odds DEF Pos
<1>14. \A k \in 1 .. n : NthAt(s, k) = 2 * k - 1
  <2> SUFFICES ASSUME NEW k \in 1 .. n PROVE NthAt(s, k) = 2 * k - 1
    OBVIOUS
  <2>1. NthAt(s, k) \in OddsTo(n) /\ Cardinality({j \in At(s) : j < NthAt(s, k)}) = k - 1
    BY <1>7, <1>12, <1>13, TokensAre
  <2>2. PICK m \in 1 .. n : NthAt(s, k) = 2 * m - 1
    BY <2>1 DEF OddsTo
  <2>3. {j \in At(s) : j < NthAt(s, k)} = OddsTo(m - 1)
    <3>1. \A x : x \in OddsTo(m - 1) => x \in OddsTo(n) /\ x < 2 * m - 1
      <4> SUFFICES ASSUME NEW i \in 1 .. m - 1
                   PROVE  2 * i - 1 \in OddsTo(n) /\ 2 * i - 1 < 2 * m - 1
        BY DEF OddsTo
      <4>1. i \in 1 .. n /\ 2 * i - 1 < 2 * m - 1
        BY DEF Pos
      <4> QED  BY <4>1 DEF OddsTo
    <3>2. \A x \in OddsTo(n) : x < 2 * m - 1 => x \in OddsTo(m - 1)
      <4> SUFFICES ASSUME NEW i \in 1 .. n, 2 * i - 1 < 2 * m - 1
                   PROVE  2 * i - 1 \in OddsTo(m - 1)
        BY DEF OddsTo
      <4>1. i \in 1 .. m - 1
        BY DEF Pos
      <4> QED  BY <4>1 DEF OddsTo
    <3> QED  BY <1>12, <2>2, <3>1, <3>2
  <2>4. Cardinality(OddsTo(m - 1)) = m - 1
    BY Odds
  <2>5. m - 1 = k - 1
    BY <2>1, <2>3, <2>4
  <2>6. m = k
    BY <2>5
  <2> QED  BY <2>2, <2>6
<1>15. /\ DOMAIN Tokens(s) = 1 .. n
       /\ \A k \in 1 .. n : Tokens(s)[k].text = s[2 * k - 1]
  BY <1>7, <1>13, <1>14, TokensAre
<1>16. Tokens(s) \in Toks
  BY <1>5, <1>7, TokensType
<1>17. Tokens(s) # <<>>
  BY <1>15 DEF Pos
<1> QED  BY <1>1, <1>2, <1>6, <1>11, <1>15, <1>16, <1>17

(* A position of dotted numbers says its field, 0 beyond the last.         *)
LEMMA ReleaseSym ==
  ASSUME NEW s, IsText(s), IsRelease(s), NEW k \in Pos
  PROVE  /\ Field(s, k) \in Nat /\ (k > Len(s) => Field(s, k) = 0)
         /\ \/ /\ Sym(Version(s).toks, k).class = "number"
               /\ Sym(Version(s).toks, k).key = Field(s, k)
            \/ Sym(Version(s).toks, k) = End /\ Field(s, k) = 0
<1>1. PICK n \in Pos : /\ Len(s) = 2 * n - 1
                       /\ DOMAIN Version(s).toks = 1 .. n
                       /\ \A i \in 1 .. n : /\ IsNumber(s[2 * i - 1])
                                            /\ Version(s).toks[i].text = s[2 * i - 1]
  BY ReleaseTokens
<1>2. CASE k \in 1 .. n
  <2>1. Field(s, k) = Number[s[2 * k - 1]] /\ ~(k > Len(s))
    BY <1>1, <1>2 DEF Field, Pos
  <2>2. IsNumber(s[2 * k - 1]) /\ Version(s).toks[k].text = s[2 * k - 1]
    BY <1>1, <1>2
  <2>3. Number[s[2 * k - 1]] \in Nat
    BY <2>2, VersionAssumption DEF IsNumber
  <2>4. /\ Sym(Version(s).toks, k).class = "number"
        /\ Sym(Version(s).toks, k).key = Number[s[2 * k - 1]]
    BY <1>1, <1>2, <2>2, ClassIs DEF Sym
  <2> QED  BY <2>1, <2>3, <2>4
<1>3. CASE k \notin 1 .. n
  <2>1. Field(s, k) = 0
    BY <1>1, <1>3 DEF Field, Pos
  <2>2. Sym(Version(s).toks, k) = End
    BY <1>1, <1>3 DEF Sym
  <2> QED  BY <2>1, <2>2
<1> QED  BY <1>2, <1>3

(* Dotted numbers are compared field by field.                             *)
LEMMA ReleaseCompare ==
  ASSUME NEW s, NEW t, IsText(s), IsText(t), IsRelease(s), IsRelease(t)
  PROVE  Compare(s, t) = IF ReleaseBefore(s, t) THEN "less"
                         ELSE IF ReleaseBefore(t, s) THEN "greater" ELSE "equal"
<1> DEFINE a == Version(s).toks
           b == Version(t).toks
<1>1. a \in Toks /\ b \in Toks
  BY ReleaseTokens
<1>2. Compare(s, t) = CompareTokens(a, b)
  BY ReleaseTokens DEF Compare, CompareVersions
<1>3. \A k \in Pos : Verdicts(a, b)[k] = SignOf(Field(s, k), Field(t, k))
  <2> SUFFICES ASSUME NEW k \in Pos
               PROVE  Both(Sym(a, k), Sym(b, k)) = SignOf(Field(s, k), Field(t, k))
    BY DEF Verdicts
  <2>1. /\ Field(s, k) \in Nat /\ Field(t, k) \in Nat
        /\ \/ (Sym(a, k).class = "number" /\ Sym(a, k).key = Field(s, k))
           \/ (Sym(a, k) = End /\ Field(s, k) = 0)
        /\ \/ (Sym(b, k).class = "number" /\ Sym(b, k).key = Field(t, k))
           \/ (Sym(b, k) = End /\ Field(t, k) = 0)
    BY ReleaseSym
  <2> HIDE DEF a, b
  <2> QED  BY <2>1 DEF Both, Alone, Mirror, SignOf, End
<1>4. FirstOf(Verdicts(a, b), Compare(s, t))
  BY <1>1, <1>2, CompareTokensIs
<1>5. Len(s) \in Nat /\ Len(t) \in Nat
  BY DEF IsText
<1>6. \A k \in Pos : Field(s, k) \in Nat /\ Field(t, k) \in Nat
                     /\ (k > Len(s) + Len(t) => Field(s, k) = 0 /\ Field(t, k) = 0)
  BY <1>5, ReleaseSym DEF Pos
<1>7. \A n \in 1 .. Len(s) + Len(t) : n \in Pos /\ \A m \in 1 .. n - 1 : m \in Pos
  BY <1>5 DEF Pos
<1>8. CASE Compare(s, t) = "equal" /\ \A k \in Pos : Verdicts(a, b)[k] = "equal"
  <2>1. \A k \in Pos : Field(s, k) = Field(t, k)
    BY <1>3, <1>6, <1>8 DEF SignOf
  <2>2. ~ReleaseBefore(s, t) /\ ~ReleaseBefore(t, s)
    BY <1>5, <1>6, <1>7, <2>1 DEF ReleaseBefore
  <2> QED  BY <1>8, <2>2
<1>9. ASSUME NEW i \in Pos, Verdicts(a, b)[i] = Compare(s, t), Compare(s, t) # "equal",
             \A j \in 1 .. i - 1 : Verdicts(a, b)[j] = "equal"
      PROVE  Compare(s, t) = IF ReleaseBefore(s, t) THEN "less"
                             ELSE IF ReleaseBefore(t, s) THEN "greater" ELSE "equal"
  <2>1. \A j \in 1 .. i - 1 : j \in Pos /\ Field(s, j) = Field(t, j)
    <3>1. \A j \in 1 .. i - 1 : j \in Pos
      BY DEF Pos
    <3> QED  BY <1>3, <1>6, <1>9, <3>1 DEF SignOf
  <2>2. Compare(s, t) = SignOf(Field(s, i), Field(t, i)) /\ Field(s, i) # Field(t, i)
    BY <1>3, <1>6, <1>9 DEF SignOf
  <2>3. i \in 1 .. Len(s) + Len(t)
    BY <1>5, <1>6, <2>2 DEF Pos
  <2>4. Field(s, i) \in Nat /\ Field(t, i) \in Nat
    BY <1>6
  <2>5. \A n \in 1 .. Len(s) + Len(t) :
          (n # i => n \in 1 .. i - 1 \/ i \in 1 .. n - 1)
    BY <2>3, <1>5
  <2>6. CASE Field(s, i) < Field(t, i)
    <3>1. ReleaseBefore(s, t)
      BY <2>1, <2>3, <2>6 DEF ReleaseBefore
    <3> QED  BY <2>2, <2>6, <3>1 DEF SignOf
  <2>7. CASE Field(t, i) < Field(s, i)
    <3>1. ReleaseBefore(t, s)
      <4>1. i \in 1 .. Len(t) + Len(s)
        BY <1>5, <2>3
      <4> QED  BY <2>1, <2>7, <4>1 DEF ReleaseBefore
    <3>2. ~ReleaseBefore(s, t)
      <4> SUFFICES ASSUME NEW n \in 1 .. Len(s) + Len(t), Field(s, n) < Field(t, n),
                          \A m \in 1 .. n - 1 : Field(s, m) = Field(t, m)
                   PROVE  FALSE
        BY DEF ReleaseBefore
      <4>1. n # i
        BY <2>4, <2>7
      <4>2. n \notin 1 .. i - 1
        BY <1>6, <1>7, <2>1
      <4>3. i \notin 1 .. n - 1
        BY <2>2
      <4> QED  BY <2>5, <4>1, <4>2, <4>3
    <3>3. SignOf(Field(s, i), Field(t, i)) = "greater"
      BY <2>4, <2>7 DEF SignOf
    <3> QED  BY <2>2, <3>1, <3>2, <3>3
  <2> QED  BY <2>2, <2>4, <2>6, <2>7
<1> QED  BY <1>4, <1>8, <1>9 DEF FirstOf

(* What is known of the calls and of their results.                        *)
VersionInv ==
  /\ call.op = "compare" =>
       /\ IsText(call.a) /\ IsText(call.b) /\ IsText(call.c)
       /\ result.ab = Compare(call.a, call.b) /\ result.ba = Compare(call.b, call.a)
       /\ result.bc = Compare(call.b, call.c) /\ result.ac = Compare(call.a, call.c)
  /\ call.op = "match" =>
       /\ \E n \in 0 .. MaxRows : call.rows \in [1 .. n -> Rows]
       /\ Sorted(call.rows) /\ call.detected \in Versions
       /\ result = MatchCandidates(call.rows, call.detected)

(* Calls have the arguments and the results the functions give.            *)
LEMMA VersionInvariant == VersionSpec => []VersionInv
<1>1. CallInit => VersionInv
  BY DEF CallInit, Idle, VersionInv
<1>2. VersionInv /\ [VersionNext \/ call'.op \notin {"compare", "match"}]_<<call, result>> => VersionInv'
  <2> SUFFICES ASSUME VersionInv, [VersionNext \/ call'.op \notin {"compare", "match"}]_<<call, result>>
               PROVE  VersionInv'
    OBVIOUS
  <2>1. CASE CompareThree
    <3>1. PICK a \in Versions, b \in Versions, c \in Versions :
            Called([op |-> "compare", a |-> a, b |-> b, c |-> c],
                   [ab |-> Compare(a, b), ba |-> Compare(b, a),
                    bc |-> Compare(b, c), ac |-> Compare(a, c)])
      BY <2>1 DEF CompareThree
    <3>2. IsText(a) /\ IsText(b) /\ IsText(c)
      BY VersionCallsAssumption
    <3> QED  BY <3>1, <3>2 DEF VersionInv, Called
  <2>2. CASE MatchProduct
    <3>1. PICK rows \in SeqsUpTo(Rows, MaxRows), detected \in Versions :
            /\ Sorted(rows)
            /\ Called([op |-> "match", rows |-> rows, detected |-> detected],
                      MatchCandidates(rows, detected))
      BY <2>2 DEF MatchProduct
    <3>2. \E n \in 0 .. MaxRows : rows \in [1 .. n -> Rows]
      BY DEF SeqsUpTo
    <3> QED  BY <3>1, <3>2 DEF VersionInv, Called
  <2>3. CASE call'.op \notin {"compare", "match"}
    BY <2>3 DEF VersionInv
  <2>4. CASE UNCHANGED <<call, result>>
    BY <2>4 DEF VersionInv
  <2> QED  BY <2>1, <2>2, <2>3, <2>4 DEF VersionNext
<1> QED  BY <1>1, <1>2, PTL DEF VersionSpec

(* cytadel_version_compare: reversed arguments mirror the answer, decided   *)
(* comparisons chain, and dotted numbers are ordered field by field, for    *)
(* texts of any length over any numbers and words.                          *)
THEOREM VersionOrderHolds == VersionSpec => []VersionOrderIsSound
<1>1. VersionInv => ComparisonIsCoherent
  <2> SUFFICES ASSUME VersionInv, call.op = "compare"
               PROVE  ComparisonIsCoherent
    BY DEF ComparisonIsCoherent
  <2>1. /\ IsText(call.a) /\ IsText(call.b) /\ IsText(call.c)
        /\ result.ab = Compare(call.a, call.b) /\ result.ba = Compare(call.b, call.a)
        /\ result.bc = Compare(call.b, call.c) /\ result.ac = Compare(call.a, call.c)
    BY DEF VersionInv
  <2>2. result.ba = Mirror(result.ab)
    BY <2>1, CompareMirrors
  <2>3. AtMost(result.ab) /\ AtMost(result.bc) /\ result.ac # Undecidable
          => result.ac = Chained(result.ab, result.bc)
    BY <2>1, CompareTransitive
  <2> QED  BY <2>2, <2>3 DEF ComparisonIsCoherent, Chained
<1>2. VersionInv => ReleasesAreOrdered
  BY ReleaseCompare DEF VersionInv, ReleasesAreOrdered
<1> QED  BY <1>1, <1>2, VersionInvariant, PTL DEF VersionOrderIsSound

----------------------------------------------------------------------------
(***************************************************************************)
(* The verdicts on the rows of a product: the group that is open, and the  *)
(* matches written before it, are those of the rows walked so far.         *)
(***************************************************************************)
(* The rows of a product: the walk's group, and the matches it wrote.      *)
Outcomes == {"match", "no_match", Undecidable}
Groups   == [cve : Nat, seen : SUBSET Outcomes, malformed : Nat]
Match    == [cve : Nat, verdict : {"confirmed", "undetermined", "not_affected", "none"}]
Walks    == [group : Groups, matches : Seq(Match), malformed : Nat]

StepRow(w, row, detected) == IF row.cve \in Oversized THEN w ELSE NextRow(w, row, detected)
Written(w) == IF FinalizeVerdict(w.group.seen) = "none" THEN w.matches
              ELSE Append(w.matches, [cve |-> w.group.cve, verdict |-> FinalizeVerdict(w.group.seen)])

(* Flushing closes the group and writes its verdict.                       *)
LEMMA FlushIs ==
  ASSUME NEW w \in Walks
  PROVE  /\ FlushVerdict(w) \in Walks
         /\ FlushVerdict(w).group = NoGroup /\ FlushVerdict(w).matches = Written(w)
<1>1. Written(w) \in Seq(Match)
  <2>0. FinalizeVerdict(w.group.seen) \in {"confirmed", "undetermined", "not_affected", "none"}
    BY DEF FinalizeVerdict
  <2>1. [cve |-> w.group.cve, verdict |-> FinalizeVerdict(w.group.seen)] \in Match
    BY <2>0 DEF Match, Walks, Groups
  <2>2. w.matches \in Seq(Match)
    BY DEF Walks
  <2> QED  BY <2>1, <2>2 DEF Written
<1>2. NoGroup \in Groups
  BY DEF NoGroup, Groups
<1>3. w.malformed \in Nat /\ w.group \in Groups
  BY DEF Walks
<1>4. w.group.malformed \in Nat
  BY <1>3 DEF Groups
<1>5. FlushVerdict(w) = [group |-> NoGroup, matches |-> Written(w),
                         malformed |-> w.malformed + w.group.malformed]
  BY DEF FlushVerdict, Written
<1> QED  BY <1>1, <1>2, <1>3, <1>4, <1>5 DEF Walks

(* A row has one of four outcomes.                                         *)
LEMMA OutcomeIs ==
  ASSUME NEW row, NEW detected
  PROVE  Evaluate(row, detected) \in Outcomes \cup {"malformed"}
BY DEF Evaluate, EvaluateRangeRow, EvaluateExactRow, Outcomes

(* A row opens or joins its group, closing the one before.                 *)
LEMMA NextRowIs ==
  ASSUME NEW w \in Walks, NEW row, row.cve \in Nat, NEW detected
  PROVE  LET new == NextRow(w, row, detected)
             apart == w.group.cve \notin {0, row.cve}
         IN  /\ new \in Walks
             /\ new.group.cve = row.cve
             /\ new.group.seen = (IF apart THEN {} ELSE w.group.seen)
                                   \cup ({Evaluate(row, detected)} \ {"malformed"})
             /\ new.matches = IF apart THEN Written(w) ELSE w.matches
<1> DEFINE apart == w.group.cve \notin {0, row.cve}
           open == IF apart THEN FlushVerdict(w) ELSE w
           e == Evaluate(row, detected)
<1>1. /\ open \in Walks /\ open.matches = (IF apart THEN Written(w) ELSE w.matches)
      /\ open.group.seen = (IF apart THEN {} ELSE w.group.seen)
  BY FlushIs DEF NoGroup
<1>2. NextRow(w, row, detected) =
        [open EXCEPT !.group = Accumulate([open.group EXCEPT !.cve = row.cve], e)]
  BY DEF NextRow
<1>3. e \in Outcomes \cup {"malformed"}
  BY OutcomeIs
<1> HIDE DEF open, e
<1> DEFINE g == [open.group EXCEPT !.cve = row.cve]
<1>4. open.group \in Groups
  BY <1>1 DEF Walks
<1>5. g \in Groups /\ g.cve = row.cve /\ g.seen = open.group.seen
  BY <1>4 DEF Groups
<1> HIDE DEF g
<1>6. /\ Accumulate(g, e) \in Groups /\ Accumulate(g, e).cve = row.cve
      /\ Accumulate(g, e).seen = open.group.seen \cup ({e} \ {"malformed"})
  <2>1. CASE e = "malformed"
    <3>1. Accumulate(g, e) = [g EXCEPT !.malformed = g.malformed + 1]
      BY <2>1 DEF Accumulate
    <3>2. g.malformed + 1 \in Nat
      BY <1>5 DEF Groups
    <3> QED  BY <1>5, <2>1, <3>1, <3>2 DEF Groups
  <2>2. CASE e # "malformed"
    <3>1. Accumulate(g, e) = [g EXCEPT !.seen = g.seen \cup {e}]
      BY <2>2 DEF Accumulate
    <3>2. g.seen \cup {e} \in SUBSET Outcomes
      BY <1>3, <1>5, <2>2 DEF Groups
    <3> QED  BY <1>5, <2>2, <3>1, <3>2 DEF Groups
  <2> QED  BY <2>1, <2>2
<1>7. NextRow(w, row, detected) = [open EXCEPT !.group = Accumulate(g, e)]
  BY <1>2 DEF g
<1>8. NextRow(w, row, detected) \in Walks
      /\ NextRow(w, row, detected).group = Accumulate(g, e)
      /\ NextRow(w, row, detected).matches = open.matches
  <2> HIDE DEF apart
  <2> QED  BY <1>1, <1>6, <1>7 DEF Walks
<1> QED  BY <1>1, <1>6, <1>8 DEF e

(* A row of the CVE matched, and the CVE is written as confirmed.          *)
Hit(rows, detected, c, n) ==
  \E i \in 1 .. n : rows[i].cve = c /\ Evaluate(rows[i], detected) = "match"
Confirmed(written, c) ==
  \E i \in DOMAIN written : written[i] = [cve |-> c, verdict |-> "confirmed"]
Increasing(written) ==
  \A i, j \in DOMAIN written : i < j => written[i].cve < written[j].cve
Under(written, c) == \A i \in DOMAIN written : written[i].cve < c
Cves == {c \in Nat : c # 0 /\ c \notin Oversized}

(* After n rows.                                                           *)
RowsInv(rows, detected, n, w) ==
  /\ w \in Walks
  /\ w.group.cve = 0 => w.group.seen = {} /\ w.matches = <<>>
                        /\ \A i \in 1 .. n : rows[i].cve \in Oversized
  /\ w.group.cve # 0 =>
       /\ w.group.cve \in Cves
       /\ \E i \in 1 .. n : rows[i].cve = w.group.cve
       /\ \A i \in 1 .. n : rows[i].cve \notin Oversized => rows[i].cve <= w.group.cve
       /\ "match" \in w.group.seen <=> Hit(rows, detected, w.group.cve, n)
       /\ Under(w.matches, w.group.cve)
  /\ Increasing(w.matches)
  /\ \A c \in Cves : c # w.group.cve => (Confirmed(w.matches, c) <=> Hit(rows, detected, c, n))

(* Writing a group's verdict adds that of its CVE alone.                   *)
LEMMA WrittenIs ==
  ASSUME NEW w \in Walks, Increasing(w.matches), Under(w.matches, w.group.cve)
  PROVE  /\ Increasing(Written(w))
         /\ \A d \in Nat : w.group.cve < d => Under(Written(w), d)
         /\ \A c : c # w.group.cve => (Confirmed(Written(w), c) <=> Confirmed(w.matches, c))
         /\ Confirmed(Written(w), w.group.cve) <=> "match" \in w.group.seen
<1> DEFINE g == w.group.cve
           v == FinalizeVerdict(w.group.seen)
           m == w.matches
           new == [cve |-> g, verdict |-> v]
<1>1. m \in Seq(Match) /\ g \in Nat /\ Len(m) \in Nat /\ DOMAIN m = 1 .. Len(m)
  <2>1. m \in Seq(Match) /\ g \in Nat
    BY DEF Walks, Groups
  <2> QED  BY <2>1
<1>2. v = "confirmed" <=> "match" \in w.group.seen
  BY DEF FinalizeVerdict
<1>3. \A i \in DOMAIN m : m[i].cve \in Nat /\ m[i].cve < g
  <2>1. \A i \in 1 .. Len(m) : m[i] \in Match
    BY <1>1
  <2> QED  BY <1>1, <2>1 DEF Under, Match
<1>4. ~Confirmed(m, g)
  <2> SUFFICES ASSUME NEW i \in DOMAIN m, m[i] = [cve |-> g, verdict |-> "confirmed"] PROVE FALSE
    BY DEF Confirmed
  <2>1. m[i].cve = g
    OBVIOUS
  <2> QED  BY <1>1, <1>3, <2>1
<1>5. CASE v = "none"
  <2>1. Written(w) = m
    BY <1>5 DEF Written
  <2>2. \A d \in Nat : g < d => Under(m, d)
    BY <1>1, <1>3 DEF Under
  <2> QED  BY <1>2, <1>4, <1>5, <2>1, <2>2
<1>6. CASE v # "none"
  <2>1. Written(w) = Append(m, new)
    BY <1>6 DEF Written
  <2>2. /\ DOMAIN Append(m, new) = 1 .. Len(m) + 1
        /\ \A i \in 1 .. Len(m) : Append(m, new)[i] = m[i]
        /\ Append(m, new)[Len(m) + 1] = new
    <3> HIDE DEF new, m
    <3>1. /\ Len(Append(m, new)) = Len(m) + 1
          /\ \A i \in 1 .. Len(m) : Append(m, new)[i] = m[i]
          /\ Append(m, new)[Len(m) + 1] = new
          /\ Append(m, new) \in Seq(Match \cup {new})
      <4>1. m \in Seq(Match \cup {new}) /\ new \in Match \cup {new}
        BY <1>1
      <4> QED  BY <4>1, AppendProperties
    <3>2. DOMAIN Append(m, new) = 1 .. Len(Append(m, new))
      BY <3>1
    <3> QED  BY <3>1, <3>2
  <2>3. new.cve = g /\ (new = [cve |-> g, verdict |-> "confirmed"] <=> v = "confirmed")
        /\ \A c : new = [cve |-> c, verdict |-> "confirmed"] => c = g
    OBVIOUS
  <2> DEFINE a == Append(m, new)
  <2> HIDE DEF new, m, v, g, a
  <2>4. \A i \in 1 .. Len(m) + 1 : i \in 1 .. Len(m) \/ i = Len(m) + 1
    BY <1>1
  <2>5. DOMAIN a = 1 .. Len(m) + 1 /\ (\A i \in 1 .. Len(m) : a[i] = m[i]) /\ a[Len(m) + 1] = new
    BY <2>2 DEF a
  <2>6. Increasing(a)
    <3> SUFFICES ASSUME NEW i \in 1 .. Len(m) + 1, NEW j \in 1 .. Len(m) + 1, i < j
                 PROVE  a[i].cve < a[j].cve
      BY <2>5 DEF Increasing
    <3>1. i \in 1 .. Len(m)
      BY <1>1
    <3>2. CASE j \in 1 .. Len(m)
      <4>1. m[i].cve < m[j].cve
        BY <1>1, <3>1, <3>2 DEF Increasing, m
      <4> QED  BY <2>5, <3>1, <3>2, <4>1
    <3>3. CASE j = Len(m) + 1
      BY <1>1, <1>3, <2>3, <2>5, <3>1, <3>3
    <3> QED  BY <2>4, <3>2, <3>3
  <2>7. \A d \in Nat : g < d => Under(a, d)
    <3> SUFFICES ASSUME NEW d \in Nat, g < d, NEW i \in 1 .. Len(m) + 1
                 PROVE  a[i].cve < d
      BY <2>5 DEF Under
    <3> QED  BY <1>1, <1>3, <2>3, <2>4, <2>5
  <2>8. \A c : c # g => (Confirmed(a, c) <=> Confirmed(m, c))
    <3> SUFFICES ASSUME NEW c, c # g PROVE Confirmed(a, c) <=> Confirmed(m, c)
      OBVIOUS
    <3>1. Confirmed(m, c) => Confirmed(a, c)
      <4>1. \A i \in 1 .. Len(m) : i \in 1 .. Len(m) + 1
        BY <1>1
      <4> QED  BY <1>1, <2>5, <4>1 DEF Confirmed
    <3>2. Confirmed(a, c) => Confirmed(m, c)
      BY <1>1, <2>3, <2>4, <2>5 DEF Confirmed
    <3> QED  BY <3>1, <3>2
  <2>9. Confirmed(a, g) <=> v = "confirmed"
    <3>1. v = "confirmed" => Confirmed(a, g)
      <4>1. Len(m) + 1 \in 1 .. Len(m) + 1
        BY <1>1
      <4> QED  BY <2>3, <2>5, <4>1 DEF Confirmed
    <3>2. Confirmed(a, g) => v = "confirmed"
      <4> SUFFICES ASSUME NEW i \in 1 .. Len(m) + 1, a[i] = [cve |-> g, verdict |-> "confirmed"]
                   PROVE  v = "confirmed"
        BY <2>5 DEF Confirmed
      <4>1. i = Len(m) + 1
        BY <1>1, <1>4, <2>4, <2>5 DEF Confirmed
      <4> QED  BY <2>3, <2>5, <4>1
    <3> QED  BY <3>1, <3>2
  <2>10. Written(w) = a
    BY <2>1 DEF a
  <2> QED  BY <1>2, <2>6, <2>7, <2>8, <2>9, <2>10 DEF g, m
<1> QED  BY <1>5, <1>6

(* One more row keeps the invariant of the walk.                           *)
LEMMA RowStep ==
  ASSUME NEW rows, NEW detected, NEW n \in Nat, NEW w, RowsInv(rows, detected, n, w),
         \A i \in 1 .. n + 1 : rows[i].cve \in Nat \ {0},
         \A i \in 1 .. n : rows[i].cve <= rows[n + 1].cve
  PROVE  RowsInv(rows, detected, n + 1, StepRow(w, rows[n + 1], detected))
<1> DEFINE r == rows[n + 1]
           new == StepRow(w, r, detected)
           k == n + 1
<1>0. /\ w \in Walks /\ n + 1 \in 1 .. n + 1 /\ r.cve \in Nat /\ r.cve # 0
      /\ \A i \in 1 .. n : i \in 1 .. n + 1
      /\ \A i \in 1 .. n + 1 : i \in 1 .. n \/ i = n + 1
      /\ w.group.cve \in Nat
  <2>1. w \in Walks
    BY DEF RowsInv
  <2> QED  BY <2>1 DEF Walks, Groups
<1>1. \A c : Hit(rows, detected, c, n + 1) <=>
               (Hit(rows, detected, c, n) \/ (r.cve = c /\ Evaluate(r, detected) = "match"))
  BY <1>0 DEF Hit
<1>2. CASE r.cve \in Oversized
  <2>1. new = w
    BY <1>2 DEF StepRow
  <2>2. \A c \in Cves : Hit(rows, detected, c, n + 1) <=> Hit(rows, detected, c, n)
    BY <1>1, <1>2 DEF Cves
  <2> HIDE DEF new
  <2>3. w.group.cve = 0 => \A i \in 1 .. n + 1 : rows[i].cve \in Oversized
    BY <1>0, <1>2 DEF RowsInv
  <2>4. w.group.cve # 0 =>
          /\ \E i \in 1 .. n + 1 : rows[i].cve = w.group.cve
          /\ \A i \in 1 .. n + 1 : rows[i].cve \notin Oversized => rows[i].cve <= w.group.cve
    BY <1>0, <1>2 DEF RowsInv
  <2> QED  BY <2>1, <2>2, <2>3, <2>4 DEF RowsInv, new
<1>3. CASE r.cve \notin Oversized
  <2> DEFINE apart == w.group.cve \notin {0, r.cve}
             e == Evaluate(r, detected)
  <2>1. new = NextRow(w, r, detected)
    BY <1>3 DEF StepRow
  <2>2. /\ new \in Walks /\ new.group.cve = r.cve
        /\ new.group.seen = (IF apart THEN {} ELSE w.group.seen) \cup ({e} \ {"malformed"})
        /\ new.matches = IF apart THEN Written(w) ELSE w.matches
    BY <1>0, <2>1, NextRowIs
  <2>3. r.cve \in Cves
    BY <1>0, <1>3 DEF Cves
  <2>4. \A i \in 1 .. n + 1 : rows[i].cve \notin Oversized => rows[i].cve <= r.cve
    BY <1>0
  <2>5. \E i \in 1 .. n + 1 : rows[i].cve = r.cve
    BY <1>0
  <2>6. \A c \in Cves : c # r.cve => (Hit(rows, detected, c, n + 1) <=> Hit(rows, detected, c, n))
    BY <1>1
  <2> HIDE DEF new, r, e
  <2>7. CASE w.group.cve = 0
    <3>1. new.matches = <<>> /\ new.group.seen = {e} \ {"malformed"} /\ w.matches = <<>>
      BY <2>2, <2>7 DEF RowsInv
    <3>2. ~Hit(rows, detected, r.cve, n)
      BY <1>3, <2>7 DEF RowsInv, Hit
    <3>3. "match" \in new.group.seen <=> Hit(rows, detected, r.cve, n + 1)
      BY <1>1, <3>1, <3>2 DEF e
    <3>4. \A c \in Cves : c # r.cve => (Confirmed(new.matches, c) <=> Hit(rows, detected, c, n + 1))
      <4>1. \A c \in Cves : c # 0
        BY DEF Cves
      <4> QED  BY <2>6, <2>7, <3>1, <4>1 DEF RowsInv
    <3>5. Under(new.matches, r.cve) /\ Increasing(new.matches)
      BY <3>1 DEF Under, Increasing
    <3> QED  BY <1>0, <2>2, <2>3, <2>4, <2>5, <3>3, <3>4, <3>5 DEF RowsInv, new, r
  <2>8. CASE w.group.cve # 0 /\ w.group.cve = r.cve
    <3>1. new.matches = w.matches /\ new.group.seen = w.group.seen \cup ({e} \ {"malformed"})
      BY <2>2, <2>8
    <3>2. "match" \in w.group.seen <=> Hit(rows, detected, r.cve, n)
      BY <2>8 DEF RowsInv
    <3>3. "match" \in new.group.seen <=> Hit(rows, detected, r.cve, n + 1)
      BY <1>1, <3>1, <3>2 DEF e
    <3>4. \A c \in Cves : c # r.cve => (Confirmed(new.matches, c) <=> Hit(rows, detected, c, n + 1))
      BY <2>6, <2>8, <3>1 DEF RowsInv
    <3>5. Under(new.matches, r.cve) /\ Increasing(new.matches)
      BY <2>8, <3>1 DEF RowsInv
    <3> QED  BY <1>0, <2>2, <2>3, <2>4, <2>5, <3>3, <3>4, <3>5 DEF RowsInv, new, r
  <2>9. CASE apart
    <3>1. new.matches = Written(w) /\ new.group.seen = {e} \ {"malformed"}
      BY <2>2, <2>9
    <3>2. /\ w.group.cve # 0 /\ w.group.cve \in Cves /\ Under(w.matches, w.group.cve)
          /\ Increasing(w.matches)
          /\ "match" \in w.group.seen <=> Hit(rows, detected, w.group.cve, n)
      BY <2>9 DEF RowsInv
    <3>3. w.group.cve < r.cve
      <4>1. PICK i \in 1 .. n : rows[i].cve = w.group.cve
        BY <3>2 DEF RowsInv
      <4>2. w.group.cve <= r.cve
        BY <4>1 DEF r
      <4> QED  BY <1>0, <2>9, <4>2
    <3>4. ~Hit(rows, detected, r.cve, n)
      <4> SUFFICES ASSUME NEW i \in 1 .. n, rows[i].cve = r.cve PROVE FALSE
        BY DEF Hit
      <4>1. r.cve <= w.group.cve
        BY <1>3, <3>2 DEF RowsInv
      <4> QED  BY <1>0, <3>3, <4>1
    <3>5. "match" \in new.group.seen <=> Hit(rows, detected, r.cve, n + 1)
      BY <1>1, <3>1, <3>4 DEF e
    <3>6. /\ Increasing(Written(w)) /\ Under(Written(w), r.cve)
          /\ \A c : c # w.group.cve => (Confirmed(Written(w), c) <=> Confirmed(w.matches, c))
          /\ Confirmed(Written(w), w.group.cve) <=> "match" \in w.group.seen
      BY <1>0, <3>2, <3>3, WrittenIs
    <3>7. \A c \in Cves : c # r.cve => (Confirmed(new.matches, c) <=> Hit(rows, detected, c, n + 1))
      <4> SUFFICES ASSUME NEW c \in Cves, c # r.cve
                   PROVE  Confirmed(Written(w), c) <=> Hit(rows, detected, c, n)
        BY <2>6, <3>1
      <4>1. CASE c = w.group.cve
        BY <3>2, <3>6, <4>1
      <4>2. CASE c # w.group.cve
        BY <3>6, <4>2 DEF RowsInv
      <4> QED  BY <4>1, <4>2
    <3> QED  BY <1>0, <2>2, <2>3, <2>4, <2>5, <3>1, <3>5, <3>6, <3>7 DEF RowsInv, new, r
  <2> QED  BY <2>7, <2>8, <2>9
<1> QED  BY <1>2, <1>3

(* The values of a recursive function over 0 .. n, and that there are some. *)
Runs(T, z, step, n) ==
  {g \in [0 .. n -> T] : g[0] = z /\ \A k \in 1 .. n : g[k] = step[k][g[k - 1]]}

(* By the least length for which there is none.                             *)
LEMMA RunExists ==
  ASSUME NEW T, NEW z \in T, NEW step, NEW N \in Nat,
         \A k \in 1 .. N, x \in T : step[k][x] \in T
  PROVE  \E g : g \in Runs(T, z, step, N)
<1> DEFINE S == {k \in 0 .. N : Runs(T, z, step, k) = {}}
<1> SUFFICES ASSUME S # {} PROVE FALSE
  OBVIOUS
<1>0. S \in SUBSET Nat
  OBVIOUS
<1>1. PICK m \in S : \A y \in S : m <= y
  <2> HIDE DEF S
  <2> QED BY <1>0, LeastOf
<1>2. m # 0
  <2>1. [k \in 0 .. 0 |-> z] \in Runs(T, z, step, 0)
    BY DEF Runs
  <2> QED  BY <2>1
<1>3. PICK g : g \in Runs(T, z, step, m - 1)
  BY <1>1, <1>2
<1>4. /\ g \in [0 .. m - 1 -> T] /\ g[0] = z
      /\ \A k \in 1 .. m - 1 : g[k] = step[k][g[k - 1]]
  BY <1>3 DEF Runs
<1> DEFINE h == [k \in 0 .. m |-> IF k = m THEN step[m][g[m - 1]] ELSE g[k]]
<1>5. h \in [0 .. m -> T] /\ h[0] = z
  BY <1>2, <1>4
<1>6. ASSUME NEW k \in 1 .. m PROVE h[k] = step[k][h[k - 1]]
  <2>1. CASE k = m
    BY <1>2, <1>4, <2>1
  <2>2. CASE k # m
    BY <1>2, <1>4, <2>2
  <2> QED  BY <2>1, <2>2
<1>7. h \in Runs(T, z, step, m)
  BY <1>5, <1>6 DEF Runs
<1> QED  BY <1>1, <1>7


(* The matches of the whole walk, by induction on the rows.                *)
LEMMA MatchesAre ==
  ASSUME NEW N \in Nat, NEW rows \in [1 .. N -> Rows], NEW detected, Sorted(rows)
  PROVE  LET m == MatchCandidates(rows, detected).matches
         IN  Increasing(m) /\ \A c \in Cves : Confirmed(m, c) <=> Hit(rows, detected, c, N)
<1>1. Len(rows) = N /\ DOMAIN rows = 1 .. N
  <2>1. rows \in Seq(Rows)
    BY SeqDef
  <2> QED  BY <2>1
<1>2. \A i \in 1 .. N : rows[i] \in Rows /\ rows[i].cve \in Nat \ {0}
  BY VersionCallsAssumption
<1> DEFINE z == [group |-> NoGroup, matches |-> <<>>, malformed |-> 0]
           Walk(v) == v = [n \in 0 .. Len(rows) |->
                             IF n = 0 THEN z
                             ELSE IF rows[n].cve \in Oversized THEN v[n - 1]
                             ELSE NextRow(v[n - 1], rows[n], detected)]
           walk == CHOOSE v : Walk(v)
<1>3. z \in Walks
  BY DEF Walks, Groups, NoGroup
<1>4. Walk(walk)
  <2> DEFINE step == [k \in 1 .. N |-> [x \in Walks |-> StepRow(x, rows[k], detected)]]
  <2>1. PICK g : g \in Runs(Walks, z, step, N)
    <3>1. \A k \in 1 .. N, x \in Walks : step[k][x] \in Walks
      <4> SUFFICES ASSUME NEW k \in 1 .. N, NEW x \in Walks
                   PROVE  StepRow(x, rows[k], detected) \in Walks
        OBVIOUS
      <4>1. rows[k].cve \in Nat
        BY <1>2
      <4> QED  BY <4>1, NextRowIs DEF StepRow
    <3> HIDE DEF step, z
    <3> QED  BY <1>3, <3>1, RunExists
  <2>2. g \in [0 .. N -> Walks] /\ g[0] = z
    BY <2>1 DEF Runs
  <2>3. ASSUME NEW k \in 1 .. N PROVE g[k] = StepRow(g[k - 1], rows[k], detected)
    <3>1. g[k] = step[k][g[k - 1]]
      BY <2>1 DEF Runs
    <3>2. g[k - 1] \in Walks
      BY <2>2
    <3> QED  BY <3>1, <3>2
  <2> HIDE DEF z, step
  <2>4. g = [n \in 0 .. N |-> IF n = 0 THEN z ELSE IF rows[n].cve \in Oversized THEN g[n - 1]
                              ELSE NextRow(g[n - 1], rows[n], detected)]
    BY <2>2, <2>3 DEF StepRow
  <2>5. Walk(g)
    BY <1>1, <2>4 DEF z
  <2> QED  BY <2>5
<1>5. MatchCandidates(rows, detected) =
        IF walk[Len(rows)].group.cve = 0 THEN walk[Len(rows)] ELSE FlushVerdict(walk[Len(rows)])
  BY DEF MatchCandidates
<1> HIDE DEF walk
<1>6. walk[0] = z /\ \A n \in 0 .. N - 1 : walk[n + 1] = StepRow(walk[n], rows[n + 1], detected)
  <2>1. walk = [n \in 0 .. N |-> IF n = 0 THEN z ELSE IF rows[n].cve \in Oversized THEN walk[n - 1]
                                 ELSE NextRow(walk[n - 1], rows[n], detected)]
    BY <1>1, <1>4
  <2> HIDE DEF z
  <2> QED  BY <2>1 DEF StepRow
<1>7. RowsInv(rows, detected, 0, walk[0])
  <2>1. /\ walk[0].group.cve = 0 /\ walk[0].group.seen = {} /\ walk[0].matches = <<>>
        /\ walk[0] \in Walks
    BY <1>3, <1>6 DEF NoGroup
  <2>2. \A c : ~Confirmed(<<>>, c) /\ ~Hit(rows, detected, c, 0)
    BY DEF Confirmed, Hit
  <2>3. Increasing(<<>>)
    BY DEF Increasing
  <2> HIDE DEF z
  <2> QED  BY <2>1, <2>2, <2>3 DEF RowsInv
<1>8. \A n \in 0 .. N : RowsInv(rows, detected, n, walk[n])
  <2> DEFINE S == {n \in 0 .. N : ~RowsInv(rows, detected, n, walk[n])}
  <2> SUFFICES ASSUME S # {} PROVE FALSE
    OBVIOUS
  <2>1. S \in SUBSET Nat
    OBVIOUS
  <2>2. PICK m \in S : \A y \in S : m <= y
    <3> HIDE DEF S
    <3> QED  BY <2>1, LeastOf
  <2>3. m \in 1 .. N /\ m - 1 \in 0 .. N - 1 /\ m - 1 \in Nat /\ m - 1 \notin S
    BY <1>7, <2>2
  <2>4. RowsInv(rows, detected, m - 1, walk[m - 1])
    BY <2>3
  <2>5. /\ \A i \in 1 .. (m - 1) + 1 : rows[i].cve \in Nat \ {0}
        /\ \A i \in 1 .. m - 1 : rows[i].cve <= rows[(m - 1) + 1].cve
    BY <1>1, <1>2, <2>3 DEF Sorted
  <2>6. RowsInv(rows, detected, (m - 1) + 1, StepRow(walk[m - 1], rows[(m - 1) + 1], detected))
    BY <2>3, <2>4, <2>5, RowStep
  <2>7. (m - 1) + 1 = m
    BY <2>3
  <2>8. walk[(m - 1) + 1] = StepRow(walk[m - 1], rows[(m - 1) + 1], detected)
    BY <1>6, <2>3
  <2> QED  BY <2>2, <2>6, <2>7, <2>8
<1> DEFINE done == walk[N]
<1>9. RowsInv(rows, detected, N, done)
  BY <1>8
<1>10. MatchCandidates(rows, detected) = IF done.group.cve = 0 THEN done ELSE FlushVerdict(done)
  BY <1>1, <1>5
<1> HIDE DEF done
<1>11. CASE done.group.cve = 0
  <2>1. \A c \in Cves : c # 0
    BY DEF Cves
  <2> QED  BY <1>9, <1>10, <1>11, <2>1 DEF RowsInv
<1>12. CASE done.group.cve # 0
  <2>1. MatchCandidates(rows, detected).matches = Written(done)
    BY <1>9, <1>10, <1>12, FlushIs DEF RowsInv
  <2>2. /\ Increasing(Written(done))
        /\ \A c : c # done.group.cve => (Confirmed(Written(done), c) <=> Confirmed(done.matches, c))
        /\ Confirmed(Written(done), done.group.cve) <=> "match" \in done.group.seen
    BY <1>9, <1>12, WrittenIs DEF RowsInv
  <2>3. \A c \in Cves : Confirmed(Written(done), c) <=> Hit(rows, detected, c, N)
    <3> SUFFICES ASSUME NEW c \in Cves
                 PROVE  Confirmed(Written(done), c) <=> Hit(rows, detected, c, N)
      OBVIOUS
    <3>1. CASE c = done.group.cve
      BY <1>9, <1>12, <2>2, <3>1 DEF RowsInv
    <3>2. CASE c # done.group.cve
      BY <1>9, <2>2, <3>2 DEF RowsInv
    <3> QED  BY <3>1, <3>2
  <2> QED  BY <2>1, <2>2, <2>3
<1> QED  BY <1>11, <1>12

(* A bound of dotted numbers accepts a release as its interval does.       *)
LEMMA BoundIs ==
  ASSUME NEW d, NEW b, IsText(d), IsText(b), IsRelease(d), IsRelease(b), NEW kind \in Kinds
  PROVE  /\ BoundVerdict(kind, Compare(d, b)) \in {"pass", "fail"}
         /\ BoundVerdict(kind, Compare(d, b)) = "pass" <=>
              \/ kind = "start_including" /\ ~ReleaseBefore(d, b)
              \/ kind = "start_excluding" /\ ReleaseBefore(b, d)
              \/ kind = "end_including"   /\ ~ReleaseBefore(b, d)
              \/ kind = "end_excluding"   /\ ReleaseBefore(d, b)
<1>1. /\ Compare(d, b) \in {"less", "greater", "equal"}
      /\ Compare(d, b) = "less" <=> ReleaseBefore(d, b)
  <2>1. Compare(d, b) = IF ReleaseBefore(d, b) THEN "less"
                        ELSE IF ReleaseBefore(b, d) THEN "greater" ELSE "equal"
    BY ReleaseCompare
  <2> QED  BY <2>1 DEF ReleaseBefore
<1>2. Compare(b, d) = "less" <=> ReleaseBefore(b, d)
  <2>1. Compare(b, d) = IF ReleaseBefore(b, d) THEN "less"
                        ELSE IF ReleaseBefore(d, b) THEN "greater" ELSE "equal"
    BY ReleaseCompare
  <2> QED  BY <2>1 DEF ReleaseBefore
<1>3. Compare(b, d) = "less" <=> Compare(d, b) = "greater"
  <2>1. Compare(b, d) = Mirror(Compare(d, b))
    BY CompareMirrors
  <2> QED  BY <1>1, <2>1 DEF Mirror
<1>4. Compare(d, b) # Undecidable
  BY <1>1 DEF Undecidable
<1>5. CASE kind = "start_including"
  BY <1>1, <1>2, <1>3, <1>4, <1>5 DEF BoundVerdict
<1>6. CASE kind = "start_excluding"
  BY <1>1, <1>2, <1>3, <1>4, <1>6 DEF BoundVerdict
<1>7. CASE kind = "end_including"
  BY <1>1, <1>2, <1>3, <1>4, <1>7 DEF BoundVerdict
<1>8. CASE kind = "end_excluding"
  BY <1>1, <1>2, <1>3, <1>4, <1>8 DEF BoundVerdict
<1> QED  BY <1>5, <1>6, <1>7, <1>8 DEF Kinds

(* A readable row matches a release exactly when it affects it.            *)
LEMMA EvaluateIs ==
  ASSUME NEW row \in Rows, NEW d, IsText(d), IsRelease(d), Readable(row)
  PROVE  Evaluate(row, d) = "match" <=> Affects(row, d)
<1>0. /\ row.vulnerable \in BOOLEAN /\ IsText(row.version)
      /\ \A k \in Kinds : IsText(row.bounds[k])
  BY VersionCallsAssumption
<1>1. CASE ~row.vulnerable
  BY <1>1 DEF Evaluate, Affects
<1>2. CASE row.vulnerable /\ row.version \in {<<>>, <<"*">>}
  <2> DEFINE set == {k \in Kinds : row.bounds[k] # <<>>}
             verdicts == {BoundVerdict(k, Compare(d, row.bounds[k])) : k \in set}
             passes(k) == BoundVerdict(k, Compare(d, row.bounds[k])) = "pass"
  <2>1. \A k \in set : IsText(row.bounds[k]) /\ IsRelease(row.bounds[k])
    BY <1>0 DEF Readable
  <2>2. \A k \in set : ~SentinelOnly(row.bounds[k])
    <3> SUFFICES ASSUME NEW k \in set, SentinelOnly(row.bounds[k]) PROVE FALSE
      OBVIOUS
    <3> DEFINE b == row.bounds[k]
    <3>1. b \in Seq(STRING) /\ b # <<>> /\ IsRelease(b)
      BY <2>1 DEF IsText
    <3> HIDE DEF b
    <3>2. 1 \in DOMAIN b /\ 1 % 2 = 1
      BY <3>1
    <3>3. IsNumber(b[1])
      BY <3>1, <3>2 DEF IsRelease
    <3>4. b[1] \notin {"*", "-"}
      BY <3>3, VersionAssumption DEF IsNumber, Delims
    <3> QED  BY <3>2, <3>4 DEF SentinelOnly, b
  <2>3. \A k \in set : BoundVerdict(k, Compare(d, row.bounds[k])) \in {"pass", "fail"}
    BY <2>1, BoundIs
  <2>4. Evaluate(row, d) = EvaluateRangeRow(row, d)
    BY <1>2 DEF Evaluate
  <2>5. EvaluateRangeRow(row, d) =
          IF set = {} \/ \E k \in set : SentinelOnly(row.bounds[k]) THEN "malformed"
          ELSE IF "fail" \in verdicts      THEN "no_match"
          ELSE IF Undecidable \in verdicts THEN Undecidable
          ELSE "match"
    BY DEF EvaluateRangeRow
  <2>6. /\ "fail" \in verdicts <=> \E k \in set : ~passes(k)
        /\ Undecidable \notin verdicts
    BY <2>3 DEF Undecidable
  <2>7. Evaluate(row, d) = "match" <=> set # {} /\ \A k \in set : passes(k)
    <3> HIDE DEF set, verdicts, passes
    <3> QED  BY <2>2, <2>4, <2>5, <2>6
  <2>8. (\A k \in set : passes(k)) <=> InInterval(row, d)
    <3>4. ASSUME "start_including" \in set
          PROVE  passes("start_including") <=> ~ReleaseBefore(d, row.bounds["start_including"])
      BY <2>1, <3>4, BoundIs
    <3>5. ASSUME "start_excluding" \in set
          PROVE  passes("start_excluding") <=> ReleaseBefore(row.bounds["start_excluding"], d)
      BY <2>1, <3>5, BoundIs
    <3>6. ASSUME "end_including" \in set
          PROVE  passes("end_including") <=> ~ReleaseBefore(row.bounds["end_including"], d)
      BY <2>1, <3>6, BoundIs
    <3>7. ASSUME "end_excluding" \in set
          PROVE  passes("end_excluding") <=> ReleaseBefore(d, row.bounds["end_excluding"])
      BY <2>1, <3>7, BoundIs
    <3>2. \A k \in Kinds : k \in set <=> row.bounds[k] # <<>>
      OBVIOUS
    <3>3. \A k \in set : k \in Kinds
      OBVIOUS
    <3> HIDE DEF set, passes
    <3> QED  BY <3>2, <3>3, <3>4, <3>5, <3>6, <3>7 DEF InInterval, Kinds
  <2>9. set # {} <=> \E k \in Kinds : row.bounds[k] # <<>>
    OBVIOUS
  <2> HIDE DEF set, verdicts, passes
  <2> QED  BY <1>2, <2>7, <2>8, <2>9 DEF Affects
<1>3. CASE row.vulnerable /\ row.version \notin {<<>>, <<"*">>}
  <2>1. IsRelease(row.version)
    BY <1>3 DEF Readable
  <2>2. Evaluate(row, d) = "match" <=> Compare(d, row.version) = "equal"
    BY <1>3 DEF Evaluate, EvaluateExactRow, Undecidable
  <2>3. Compare(d, row.version) =
          IF ReleaseBefore(d, row.version) THEN "less"
          ELSE IF ReleaseBefore(row.version, d) THEN "greater" ELSE "equal"
    BY <1>0, <2>1, ReleaseCompare
  <2> QED  BY <1>3, <2>2, <2>3 DEF Affects, ReleaseBefore
<1> QED  BY <1>0, <1>1, <1>2, <1>3

(* The walk over the candidate rows writes each CVE's own verdict, whatever *)
(* the rows, their number and the ids that are skipped.                     *)
THEOREM VerdictHolds == VersionSpec => []VerdictIsPerCve
<1>1. VersionInv => VerdictIsPerCve
  <2> SUFFICES ASSUME VersionInv, call.op = "match", IsRelease(call.detected)
               PROVE  VerdictIsPerCve
    BY DEF VerdictIsPerCve
  <2> DEFINE rows == call.rows
             d == call.detected
             m == result.matches
  <2>1. PICK N \in 0 .. MaxRows : rows \in [1 .. N -> Rows]
    BY DEF VersionInv
  <2>2. Sorted(rows) /\ d \in Versions /\ result = MatchCandidates(rows, d)
    BY DEF VersionInv
  <2>3. N \in Nat /\ IsText(d)
    BY <2>2, VersionCallsAssumption
  <2>4. Increasing(m) /\ \A c \in Cves : Confirmed(m, c) <=> Hit(rows, d, c, N)
    BY <2>1, <2>2, <2>3, MatchesAre
  <2>5. ASSUME NEW c \in {row.cve : row \in Rows} \ Oversized,
               \A i \in {i \in DOMAIN rows : rows[i].cve = c} : Readable(rows[i])
        PROVE  Confirmed(m, c) <=> \E i \in {i \in DOMAIN rows : rows[i].cve = c} : Affects(rows[i], d)
    <3>1. c \in Cves
      <4>1. PICK row \in Rows : c = row.cve
        BY <2>5
      <4>2. c \in Nat \ {0}
        BY <4>1, VersionCallsAssumption
      <4> QED  BY <4>2, <2>5 DEF Cves
    <3>2. DOMAIN rows = 1 .. N /\ \A i \in 1 .. N : rows[i] \in Rows
      BY <2>1
    <3>3. \A i \in 1 .. N : rows[i].cve = c => (Evaluate(rows[i], d) = "match" <=> Affects(rows[i], d))
      BY <2>3, <2>5, <3>2, EvaluateIs
    <3> HIDE DEF rows, d, m
    <3>4. Hit(rows, d, c, N) <=> \E i \in {i \in DOMAIN rows : rows[i].cve = c} : Affects(rows[i], d)
      BY <3>2, <3>3 DEF Hit
    <3> QED  BY <2>4, <3>1, <3>4
  <2>6. \A i, j \in DOMAIN m : i < j => m[i].cve < m[j].cve
    BY <2>4 DEF Increasing
  <2> QED  BY <2>5, <2>6, Zenon DEF VerdictIsPerCve, Confirmed
<1> QED  BY <1>1, VersionInvariant, PTL

=============================================================================
