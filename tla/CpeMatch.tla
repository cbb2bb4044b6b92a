------------------------------- MODULE CpeMatch -------------------------------
(***************************************************************************)
(* Does a CVE apply to a detected version?  cytadel_cpe_match_evaluate     *)
(* (src/match/cpe_match.c) for one cve_cpe_matches row, and the walk over  *)
(* the candidate rows of a product in src/db/scan_persist.c, which groups  *)
(* them by CVE and writes one match per CVE.                               *)
(***************************************************************************)
EXTENDS VersionCompare

CONSTANT
    Oversized     \* the CVE ids that are empty or longer than the code stores

Kinds == {"start_including", "start_excluding", "end_including", "end_excluding"}

BoundVerdict(kind, cmp) ==
    LET accepted == CASE kind = "start_including" -> {"greater", "equal"}
                      [] kind = "start_excluding" -> {"greater"}
                      [] kind = "end_including"   -> {"less", "equal"}
                      [] kind = "end_excluding"   -> {"less"}
    IN  IF cmp = Undecidable THEN Undecidable
        ELSE IF cmp \in accepted THEN "pass" ELSE "fail"

(* A bound of nothing but '*' and '-' is a data error, not a version. *)
SentinelOnly(bound) == \A i \in DOMAIN bound : bound[i] \in {"*", "-"}

EvaluateRangeRow(row, detected) ==
    LET set      == {k \in Kinds : row.bounds[k] # <<>>}
        verdicts == {BoundVerdict(k, Compare(detected, row.bounds[k])) : k \in set}
    IN  IF set = {} \/ \E k \in set : SentinelOnly(row.bounds[k]) THEN "malformed"
        ELSE IF "fail" \in verdicts      THEN "no_match"
        ELSE IF Undecidable \in verdicts THEN Undecidable
        ELSE "match"

EvaluateExactRow(row, detected) ==
    CASE Compare(detected, row.version) = "equal"     -> "match"
      [] Compare(detected, row.version) = Undecidable -> Undecidable
      [] OTHER                                        -> "no_match"

Evaluate(row, detected) ==
    IF ~row.vulnerable THEN "no_match"
    ELSE IF row.version \in {<<>>, <<"*">>} THEN EvaluateRangeRow(row, detected)
    ELSE EvaluateExactRow(row, detected)

-----------------------------------------------------------------------------
(* The candidate rows, ordered by CVE; a CVE id is its place in that order, *)
(* from 1 on.  A group holds the outcomes seen and the number of malformed  *)
(* rows; 0 is the CVE of no group.                                          *)

NoGroup == [cve |-> 0, seen |-> {}, malformed |-> 0]

Accumulate(group, outcome) ==
    IF outcome = "malformed" THEN [group EXCEPT !.malformed = @ + 1]
    ELSE [group EXCEPT !.seen = @ \cup {outcome}]

FinalizeVerdict(seen) ==
    IF "match" \in seen          THEN "confirmed"
    ELSE IF Undecidable \in seen THEN "undetermined"
    ELSE IF "no_match" \in seen  THEN "not_affected"
    ELSE "none"
(* Mutant: the outcomes of a group are not reset for the next one. *)
FlushVerdictKeepsSeen(walk) ==
    LET verdict == FinalizeVerdict(walk.group.seen)
        written == IF verdict = "none" THEN walk.matches
                   ELSE Append(walk.matches, [cve |-> walk.group.cve, verdict |-> verdict])
    IN  [group     |-> [walk.group EXCEPT !.malformed = 0],
         matches   |-> written,
         malformed |-> walk.malformed + walk.group.malformed]

(* A group with malformed rows only leaves no match. *)
FlushVerdict(walk) ==
    LET verdict == FinalizeVerdict(walk.group.seen)
        written == IF verdict = "none" THEN walk.matches
                   ELSE Append(walk.matches, [cve |-> walk.group.cve, verdict |-> verdict])
    IN  [group     |-> NoGroup,
         matches   |-> written,
         malformed |-> walk.malformed + walk.group.malformed]

NextRow(walk, row, detected) ==
    LET open == IF walk.group.cve \notin {0, row.cve} THEN FlushVerdict(walk) ELSE walk
    IN  [open EXCEPT !.group = Accumulate([@ EXCEPT !.cve = row.cve], Evaluate(row, detected))]

MatchCandidates(rows, detected) ==
    LET walk[n \in 0 .. Len(rows)] ==
            IF n = 0 THEN [group |-> NoGroup, matches |-> <<>>, malformed |-> 0]
            ELSE IF rows[n].cve \in Oversized THEN walk[n - 1]
            ELSE NextRow(walk[n - 1], rows[n], detected)
        done == walk[Len(rows)]
    IN  IF done.group.cve = 0 THEN done ELSE FlushVerdict(done)

=============================================================================
