------------------------------ MODULE CveStore ------------------------------
(***************************************************************************)
(* The tables that three feeds and the scans share.  A run of              *)
(* `cytadel-scan sync` (src/cli/sync_cmd.c) ingests pages of NVD records,  *)
(* then the KEV catalog (kev_sync.c, kev_ingest.c), then the pages of the  *)
(* EPSS listing (epss_sync.c, epss_ingest.c); a scan stores findings that  *)
(* name a CVE (scan_persist.c).  kev, epss and scan_results refer to cves, *)
(* so a writer that names a CVE first inserts a placeholder row for it.    *)
(*                                                                         *)
(* One sync runs at a time (the wrapper's lock; NvdSync has the lock, the  *)
(* windows and the watermark).  What a feed says of a CVE is a number: the *)
(* NVD revision, the KEV edition (its columns that an upsert refreshes),   *)
(* the day of the EPSS score; 0 is "nothing".  A revision's match rows are *)
(* one thing: rows of it that NVD's ingest refuses one by one are not told *)
(* apart.                                                                  *)
(***************************************************************************)
EXTENDS Integers, FiniteSets

CONSTANTS
  CVE,         \* CVE identifiers, numbers in the order of the EPSS listing
  Malformed,   \* the ones whose records every feed's ingest skips
  Catalogued,  \* the ones that NVD publishes and KEV may list
  Named,       \* the ones that findings of a scan name
  PageSize,    \* limit of an EPSS request
  MaxPages,    \* CYTADEL_EPSS_SYNC_MAX_PAGES
  MaxRev,      \* bound: NVD revisions of one CVE
  MaxEdition,  \* bound: KEV editions of one CVE
  MaxDay,      \* bound: days of EPSS scores
  MaxFailures, \* bound: failed calls, killed runs and documents with skipped records
  LiveListing  \* TRUE: CVEs may leave the EPSS listing while it is pulled

ASSUME StoreAssumption ==
  /\ CVE \subseteq Nat \ {0} /\ IsFiniteSet(CVE)
  /\ Malformed \subseteq CVE /\ Catalogued \subseteq CVE
  /\ Named \subseteq CVE \ Malformed
  /\ PageSize \in Nat \ {0} /\ MaxPages \in Nat \ {0}
  /\ MaxRev \in Nat /\ MaxEdition \in Nat /\ MaxDay \in Nat \ {0} /\ MaxFailures \in Nat
  /\ LiveListing \in BOOLEAN

VARIABLES
  \* the feeds
  rev,        \* rev[c]: NVD's current revision
  cat,        \* cat[c]: edition of c in the KEV catalog
  scored,     \* the CVEs in the EPSS listing
  day,        \* the day of the EPSS scores
  \* the database
  source,     \* source[c]: cves.source, "none" where there is no row
  published,  \* published[c]: where cves.published comes from
  stored,     \* stored[c]: NVD revision in the other columns of the cves row
  matches,    \* matches[c]: revisions that have rows in cve_cpe_matches
  kev,        \* kev[c]: edition in the kev row
  epss,       \* epss[c]: day of the score in the epss row
  results,    \* the CVEs named by rows of scan_results
  \* the sync
  pc,         \* where cytadel_sync_cmd_run is
  body,       \* body[c]: what the fetched document says of c
  offset,     \* offset of the EPSS pull
  count,      \* data_count of the fetched page
  isLast,     \* is_last of the fetched page
  pages,      \* page counter of the EPSS pull
  ok,         \* ok[f]: kev_ok and epss_ok, and the status of their sync_state
  failures,
  \* the scan
  find,       \* the finding that cytadel_scan_persist_finding is storing
  \* history, for the properties only
  catThen,    \* the catalog when the sync began
  dayThen,    \* the day when the pull began
  listed,     \* in the EPSS listing since the pull began, without a gap
  skipped,    \* skipped[f]: well-formed records of feed f that this run left out
  orphans     \* left out after their placeholder was inserted, and nothing refers to it

feeds == <<rev, cat, scored, day>>
cves  == <<source, published, stored, matches>>
pull  == <<offset, count, isLast, pages>>
sync  == <<pc, body, pull, ok, failures>>
tables == <<cves, kev, epss, results>>
losses  == <<skipped, orphans>>
history == <<catThen, dayThen, listed, losses>>
vars  == <<feeds, tables, sync, find, history>>

Nothing == [c \in CVE |-> 0]
NoLoss  == [f \in {"kev", "epss"} |-> {}]
NoFind  == [pc |-> "idle", cve |-> 0, kev |-> FALSE, epss |-> 0]

Finding ==
  [pc : {"idle", "kev", "epss", "insert"}, cve : CVE \cup {0}, kev : BOOLEAN, epss : Nat]

FeedsOK ==
  /\ rev \in [CVE -> Nat] /\ cat \in [CVE -> Nat]
  /\ scored \subseteq CVE /\ day \in Nat \ {0}

TablesOK ==
  /\ source \in [CVE -> {"none", "placeholder", "nvd"}]
  /\ published \in [CVE -> {"none", "ingestion", "nvd"}]
  /\ stored \in [CVE -> Nat] /\ matches \in [CVE -> SUBSET Nat]
  /\ kev \in [CVE -> Nat] /\ epss \in [CVE -> Nat] /\ results \subseteq CVE

SyncOK ==
  /\ pc \in {"idle", "nvd", "nvd_body", "kev", "kev_body", "epss", "epss_body"}
  /\ body \in [CVE -> Nat]
  /\ offset \in Nat /\ count \in 0..PageSize /\ isLast \in BOOLEAN
  /\ pages \in 0..MaxPages /\ (pc = "epss_body" => pages < MaxPages)
  /\ ok \in [{"kev", "epss"} -> BOOLEAN]
  /\ failures \in 0..MaxFailures

FindOK == find \in Finding /\ (find.pc # "idle" => find.cve \in CVE)

HistoryOK ==
  /\ catThen \in [CVE -> Nat] /\ dayThen \in Nat /\ listed \subseteq CVE
  /\ skipped \in [{"kev", "epss"} -> SUBSET CVE] /\ orphans \subseteq CVE

(* The types of the feeds, the tables, the sync, the finding, the history. *)
TypeOK == FeedsOK /\ TablesOK /\ SyncOK /\ FindOK /\ HistoryOK

Init ==
  /\ rev = Nothing /\ cat = Nothing /\ scored = {} /\ day = 1
  /\ source = [c \in CVE |-> "none"] /\ published = [c \in CVE |-> "none"]
  /\ stored = Nothing /\ matches = [c \in CVE |-> {}]
  /\ kev = Nothing /\ epss = Nothing /\ results = {}
  /\ pc = "idle" /\ body = Nothing
  /\ offset = 0 /\ count = 0 /\ isLast = FALSE /\ pages = 0
  /\ ok = [f \in {"kev", "epss"} |-> FALSE]
  /\ failures = 0
  /\ find = NoFind
  /\ catThen = Nothing /\ dayThen = 1 /\ listed = {}
  /\ skipped = NoLoss /\ orphans = {}

----------------------------------------------------------------------------
(* The feeds.                                                              *)

(* NVD revises a record; the KEV catalog lists a CVE or edits its entry.   *)
Revise(c) ==
  /\ rev[c] < MaxRev
  /\ rev' = [rev EXCEPT ![c] = @ + 1]
  /\ UNCHANGED <<cat, scored, day, tables, sync, find, history>>

List(c) ==
  /\ cat[c] < MaxEdition
  /\ cat' = [cat EXCEPT ![c] = @ + 1]
  /\ UNCHANGED <<rev, scored, day, tables, sync, find, history>>

(* EPSS scores a CVE, stops scoring one, and scores all of them every day. *)
Score(c) ==
  /\ c \notin scored
  /\ scored' = scored \cup {c}
  /\ UNCHANGED <<rev, cat, day, tables, sync, find, history>>

Unscore(c) ==
  /\ c \in scored
  /\ LiveListing \/ pc \notin {"epss", "epss_body"}
  /\ scored' = scored \ {c}
  /\ listed' = listed \ {c}
  /\ UNCHANGED <<rev, cat, day, tables, sync, find, catThen, dayThen, losses>>

NextDay ==
  /\ day < MaxDay
  /\ day' = day + 1
  /\ UNCHANGED <<rev, cat, scored, tables, sync, find, history>>

(* The position of c in the EPSS listing.                                  *)
Rank(c) == Cardinality({d \in scored : d < c})

----------------------------------------------------------------------------
(* Statements, each executed for the CVEs of a set S.                      *)

(* Mutant: INSERT OR REPLACE, which deletes the row that is there.         *)
PlaceholderReplaces(S) ==
  /\ source' = [c \in CVE |-> IF c \in S THEN "placeholder" ELSE source[c]]
  /\ published' = [c \in CVE |-> IF c \in S THEN "ingestion" ELSE published[c]]
  /\ stored' = [c \in CVE |-> IF c \in S THEN 0 ELSE stored[c]]
  /\ matches' = [c \in CVE |-> IF c \in S THEN {} ELSE matches[c]]

(* The placeholder INSERT: ON CONFLICT (cve_id) DO NOTHING.                *)
Placeholder(S) ==
  LET New(c) == c \in S /\ source[c] = "none"
  IN  /\ source' = [c \in CVE |-> IF New(c) THEN "placeholder" ELSE source[c]]
      /\ published' = [c \in CVE |-> IF New(c) THEN "ingestion" ELSE published[c]]
      /\ UNCHANGED <<stored, matches>>

(* The foreign key: what refers to a CVE without a row is rejected, and    *)
(* the record or the finding is skipped.                                   *)
Referable(S) == {c \in S : source'[c] # "none"}

(* The records of the fetched document that pass the field checks.         *)
Records == {c \in CVE \ Malformed : body[c] > 0}

----------------------------------------------------------------------------
(* A sync: NVD, then KEV, then EPSS, each whatever the others returned.    *)

StartSync ==
  /\ pc = "idle"
  /\ pc' = "nvd"
  /\ ok' = [f \in {"kev", "epss"} |-> FALSE]
  /\ catThen' = cat
  /\ skipped' = NoLoss
  /\ UNCHANGED <<feeds, tables, body, pull, failures, find, dayThen, listed, orphans>>

(* A page of NVD records: S is what its window and position select.        *)
FetchNvdPage(S) ==
  /\ pc = "nvd"
  /\ pc' = "nvd_body"
  /\ body' = [c \in CVE |-> IF c \in S THEN rev[c] ELSE 0]
  /\ UNCHANGED <<feeds, tables, pull, ok, failures, find, history>>

(* process_one_cve: on a conflict the upsert sets every column but         *)
(* published; the revision's match rows join the ones that are there.      *)
UpsertCves(S) ==
  /\ source' = [c \in CVE |-> IF c \in S THEN "nvd" ELSE source[c]]
  /\ published' = [c \in CVE |-> IF c \in S /\ source[c] = "none" THEN "nvd" ELSE published[c]]
  /\ stored' = [c \in CVE |-> IF c \in S THEN body[c] ELSE stored[c]]
  /\ matches' = [c \in CVE |-> IF c \in S THEN matches[c] \cup {body[c]} ELSE matches[c]]

IngestNvdPage ==
  /\ pc = "nvd_body"
  /\ pc' = "nvd"
  /\ UpsertCves(Records)
  /\ body' = Nothing
  /\ orphans' = orphans \ Records
  /\ UNCHANGED <<feeds, kev, epss, results, pull, ok, failures, find, catThen, dayThen, listed, skipped>>

(* cytadel_nvd_catchup returns, between two pages or because one failed.   *)
NvdReturns ==
  /\ pc \in {"nvd", "nvd_body"}
  /\ pc' = "kev"
  /\ body' = Nothing
  /\ UNCHANGED <<feeds, tables, pull, ok, failures, find, history>>

FetchKev ==
  /\ pc = "kev"
  /\ pc' = "kev_body"
  /\ body' = cat
  /\ UNCHANGED <<feeds, tables, pull, ok, failures, find, history>>

(* cytadel_epss_sync begins.                                               *)
BeginPull ==
  /\ pc' = "epss"
  /\ offset' = 0 /\ pages' = 0
  /\ body' = Nothing
  /\ dayThen' = day
  /\ listed' = scored
  /\ UNCHANGED <<count, isLast, catThen>>

(* An ingest leaves records out and still ends well: those beyond the cap  *)
(* on the entries of a document, and those it has no memory to bind,       *)
(* before their placeholder was inserted or after it (late).               *)
Skip(f, gone, late) ==
  /\ \/ gone = {} /\ failures' = failures
     \/ gone # {} /\ failures < MaxFailures /\ failures' = failures + 1
  /\ skipped' = [skipped EXCEPT ![f] = @ \cup gone]
  /\ orphans' = (orphans \ (Records \ gone)) \cup {c \in late : source[c] = "none"}

(* cytadel_kev_ingest: one transaction, placeholders before kev rows.      *)
IngestKev(gone, late) ==
  /\ pc = "kev_body"
  /\ Skip("kev", gone, late)
  /\ Placeholder((Records \ gone) \cup late)
  /\ kev' = [c \in CVE |-> IF c \in Referable(Records \ gone) THEN body[c] ELSE kev[c]]
  /\ ok' = [ok EXCEPT !["kev"] = TRUE]
  /\ BeginPull
  /\ UNCHANGED <<feeds, epss, results, find>>

(* The fetch failed, or the document was rejected or rolled back.          *)
KevFails ==
  /\ pc \in {"kev", "kev_body"}
  /\ failures < MaxFailures
  /\ failures' = failures + 1
  /\ BeginPull
  /\ UNCHANGED <<feeds, tables, ok, find, losses>>

(* The run is over for EPSS, and with it the sync.                         *)
EndSync ==
  /\ pc' = "idle"
  /\ body' = Nothing
  /\ offset' = 0 /\ count' = 0 /\ isLast' = FALSE /\ pages' = 0

(* Mutant: the loop has no page cap.                                       *)
FetchEpssPageNoCap(n) ==
  LET total == Cardinality(scored)
      page  == {c \in scored : offset <= Rank(c) /\ Rank(c) < offset + n}
  IN  /\ pc = "epss"
      /\ n = 0 \/ offset + n <= total
      /\ n > 0 \/ offset >= total
      /\ pc' = "epss_body"
      /\ count' = n
      /\ isLast' = (offset + n >= total)
      /\ body' = [c \in CVE |-> IF c \in page THEN day ELSE 0]
      /\ UNCHANGED <<feeds, tables, offset, pages, ok, failures, find, history>>

(* The answer to a request at the current offset has n records, the limit  *)
(* or what the server caps it to, and the listing's total.                 *)
FetchEpssPage(n) ==
  LET total == Cardinality(scored)
      page  == {c \in scored : offset <= Rank(c) /\ Rank(c) < offset + n}
  IN  /\ pc = "epss"
      /\ pages < MaxPages
      /\ n = 0 \/ offset + n <= total
      /\ n > 0 \/ offset >= total
      /\ pc' = "epss_body"
      /\ count' = n
      /\ isLast' = (offset + n >= total)
      /\ body' = [c \in CVE |-> IF c \in page THEN day ELSE 0]
      /\ UNCHANGED <<feeds, tables, offset, pages, ok, failures, find, history>>

(* Mutant: the cursor advances by what was asked for.                      *)
AdvanceByLimit ==
  /\ pc' = "epss"
  /\ offset' = offset + PageSize /\ pages' = pages + 1
  /\ body' = Nothing
  /\ count' = 0 /\ UNCHANGED isLast

(* The cursor advances by the records that were returned.                  *)
Advance ==
  /\ pc' = "epss"
  /\ offset' = offset + count /\ pages' = pages + 1
  /\ body' = Nothing
  /\ count' = 0 /\ UNCHANGED isLast

(* cytadel_epss_ingest: one transaction per page; the last one ends it.    *)
IngestEpssPage(gone, late) ==
  /\ pc = "epss_body"
  /\ Skip("epss", gone, late)
  /\ Placeholder((Records \ gone) \cup late)
  /\ epss' = [c \in CVE |-> IF c \in Referable(Records \ gone) THEN body[c] ELSE epss[c]]
  /\ UNCHANGED <<feeds, kev, results, find, catThen, dayThen, listed>>
  /\ \/ isLast /\ ok' = [ok EXCEPT !["epss"] = TRUE] /\ EndSync
     \/ ~isLast /\ Advance /\ UNCHANGED ok

(* The page cap stops the pull.                                            *)
PageCapReached ==
  /\ pc = "epss" /\ pages = MaxPages
  /\ EndSync
  /\ UNCHANGED <<feeds, tables, ok, failures, find, history>>

(* A page could not be fetched, was empty before the total was reached, or *)
(* was rejected or rolled back: the pull is abandoned.                     *)
EpssFails ==
  /\ pc \in {"epss", "epss_body"}
  /\ failures < MaxFailures
  /\ failures' = failures + 1
  /\ EndSync
  /\ UNCHANGED <<feeds, tables, ok, find, history>>

(* The sync is killed: what it committed stays.                            *)
Kill ==
  /\ pc # "idle"
  /\ failures < MaxFailures
  /\ failures' = failures + 1
  /\ EndSync
  /\ UNCHANGED <<feeds, tables, ok, find, history>>

----------------------------------------------------------------------------
(* cytadel_scan_persist_finding for a finding with a well-formed CVE: two  *)
(* reads outside a transaction, then a transaction.                        *)

BeginFinding(c) ==
  /\ find.pc = "idle"
  /\ find' = [NoFind EXCEPT !.pc = "kev", !.cve = c]
  /\ UNCHANGED <<feeds, tables, sync, history>>

LookupKev ==
  /\ find.pc = "kev"
  /\ find' = [find EXCEPT !.pc = "epss", !.kev = kev[find.cve] > 0]
  /\ UNCHANGED <<feeds, tables, sync, history>>

LookupEpss ==
  /\ find.pc = "epss"
  /\ find' = [find EXCEPT !.pc = "insert", !.epss = epss[find.cve]]
  /\ UNCHANGED <<feeds, tables, sync, history>>

InsertFinding ==
  /\ find.pc = "insert"
  /\ Placeholder({find.cve})
  /\ results' = results \cup Referable({find.cve})
  /\ find' = NoFind
  /\ orphans' = orphans \ {find.cve}
  /\ UNCHANGED <<feeds, kev, epss, sync, catThen, dayThen, listed, skipped>>

(* Mutant: the placeholder is committed by itself.                         *)
FindingFailsNoRollback ==
  /\ find.pc # "idle"
  /\ find' = NoFind
  /\ Placeholder({find.cve})
  /\ UNCHANGED <<feeds, kev, epss, results, sync, history>>

(* A lookup fails, the row is rejected or the scan dies: all rolled back.  *)
FindingFails ==
  /\ find.pc # "idle"
  /\ find' = NoFind
  /\ UNCHANGED <<feeds, tables, sync, history>>

----------------------------------------------------------------------------
Feed ==
  \/ \E c \in Catalogued : Revise(c) \/ List(c)
  \/ \E c \in CVE : Score(c) \/ Unscore(c)
  \/ NextDay

Sync ==
  \/ StartSync
  \/ \E S \in SUBSET CVE : FetchNvdPage(S)
  \/ IngestNvdPage \/ NvdReturns
  \/ FetchKev \/ KevFails
  \/ \E n \in 0..PageSize : FetchEpssPage(n)
  \/ \E gone \in SUBSET Records : \E late \in SUBSET gone :
       IngestKev(gone, late) \/ IngestEpssPage(gone, late)
  \/ PageCapReached \/ EpssFails \/ Kill

Scan ==
  \/ \E c \in Named : BeginFinding(c)
  \/ LookupKev \/ LookupEpss \/ InsertFinding \/ FindingFails

Next == Feed \/ Sync \/ Scan

Spec == Init /\ [][Next]_vars

----------------------------------------------------------------------------
(* Properties.                                                             *)

(* kev_ok and epss_ok mean what the sync prints: every well-formed entry   *)
(* of the catalog is in kev, and every score of the listing is in epss,    *)
(* not older than the run, but for the records the run counts as skipped;  *)
(* although the server caps pages, the listing grows under the pull, and   *)
(* NVD may not have a row for the CVE.                                     *)
RunIsComplete ==
  /\ ok["kev"] => \A c \in CVE \ (Malformed \cup skipped["kev"]) : kev[c] >= catThen[c]
  /\ ok["epss"] /\ pc = "idle" =>
       \A c \in listed \ (Malformed \cup skipped["epss"]) : epss[c] >= dayThen

(* kev, epss and scan_results name CVEs that have a row, and a placeholder *)
(* is there because one of them names it, or memory ran out just after it: *)
(* a rejected finding leaves none behind (scan_persist.h, "either both ... *)
(* land together, or neither").                                            *)
PlaceholderIsReferenced ==
  \A c \in CVE :
    (source[c] # "none")
      = (stored[c] > 0 \/ kev[c] > 0 \/ epss[c] > 0 \/ c \in results \/ c \in orphans)

(* A row that NVD filled keeps its revision's match rows, which is what    *)
(* detection reads, whoever inserted the row and whatever came later.      *)
MatchRowsKept == \A c \in CVE : source[c] = "nvd" => stored[c] \in matches[c]

(* The rows of the four writers fit together after every transaction of    *)
(* any of them, in every order.                                            *)
RowsFit == PlaceholderIsReferenced /\ MatchRowsKept

(* No writer turns a CVE row back: not a placeholder for a CVE that NVD    *)
(* has filled, not a score or an entry replaced by an older one.           *)
NoDowngrade ==
  [][\A c \in CVE : /\ source[c] = "nvd" => source'[c] = "nvd"
                    /\ stored'[c] >= stored[c] /\ kev'[c] >= kev[c] /\ epss'[c] >= epss[c]]_vars
=============================================================================
