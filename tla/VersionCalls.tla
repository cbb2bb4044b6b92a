----------------------------- MODULE VersionCalls -----------------------------
(***************************************************************************)
(* The version comparison and the verdicts on a product's candidate rows,  *)
(* called with any versions and rows and compared with the order of dotted *)
(* numbers.                                                                *)
(***************************************************************************)
EXTENDS CpeMatch, Calls

CONSTANTS
    Versions,        \* version texts that are compared
    Rows,            \* cve_cpe_matches rows
    MaxRows          \* rows of one product (bound of the model)

(* Every lexeme is a digit run, a word with a place in the order, or a byte *)
(* the code looks at.                                                       *)
Lexeme(x) == \/ IsNumber(x) \/ x \in Delims \cup Refused \cup {"+"}
             \/ \E i \in DOMAIN WordOrder : WordOrder[i] = x
IsText(s) == s \in Seq(STRING) /\ \A i \in DOMAIN s : Lexeme(s[i])

ASSUME VersionCallsAssumption ==
    /\ \A v \in Versions : IsText(v)
    /\ \A row \in Rows :
          /\ row.cve \in Nat \ {0} /\ row.vulnerable \in BOOLEAN /\ IsText(row.version)
          /\ \A k \in Kinds : IsText(row.bounds[k])
    /\ MaxRows \in Nat

(* Three versions, compared with each other. *)
CompareThree ==
    /\ call = Idle
    /\ \E a, b, c \in Versions :
           Called([op |-> "compare", a |-> a, b |-> b, c |-> c],
                  [ab |-> Compare(a, b), ba |-> Compare(b, a),
                   bc |-> Compare(b, c), ac |-> Compare(a, c)])

(* The candidate rows come ordered by CVE (ORDER BY cve_id, id). *)
Sorted(rows) == \A i, j \in DOMAIN rows : i <= j => rows[i].cve <= rows[j].cve

MatchProduct ==
    /\ call = Idle
    /\ \E rows \in {r \in SeqsUpTo(Rows, MaxRows) : Sorted(r)}, detected \in Versions :
           Called([op |-> "match", rows |-> rows, detected |-> detected],
                  MatchCandidates(rows, detected))

VersionNext == CompareThree \/ MatchProduct

(* Whatever else is called, versions and rows are called this way. *)
VersionSpec ==
    CallInit /\ [][VersionNext \/ call'.op \notin {"compare", "match"}]_<<call, result>>

-----------------------------------------------------------------------------
AtMost(v) == v \in {"less", "equal"}

(* cytadel_version_compare orders versions: a comparison and its reverse    *)
(* mirror each other, and no chain of decided comparisons contradicts the   *)
(* one of its two ends (a cycle would make a range confirm and exclude the  *)
(* same version).                                                           *)
ComparisonIsCoherent ==
    call.op = "compare" =>
        /\ result.ba = Mirror(result.ab)
        /\ (AtMost(result.ab) /\ AtMost(result.bc) /\ result.ac # Undecidable)
             => result.ac = (IF result.ab = "equal" /\ result.bc = "equal"
                             THEN "equal" ELSE "less")

(* The numbers of a version, without the algorithm: the n-th dotted number, *)
(* 0 beyond the last one.                                                   *)
IsRelease(s) ==
    /\ s # <<>>
    /\ \A i \in DOMAIN s : IF i % 2 = 1 THEN IsNumber(s[i]) ELSE s[i] = "."
    /\ Len(s) % 2 = 1
Field(s, n) == IF 2 * n - 1 <= Len(s) THEN Number[s[2 * n - 1]] ELSE 0
ReleaseBefore(s, t) ==
    \E n \in 1 .. Len(s) + Len(t) :
        Field(s, n) < Field(t, n) /\ \A m \in 1 .. n - 1 : Field(s, m) = Field(t, m)

(* Dotted numbers are ordered field by field, a missing field being 0:      *)
(* "2.4" and "2.4.0" are the same version.                                  *)
ReleasesAreOrdered ==
    call.op = "compare" /\ IsRelease(call.a) /\ IsRelease(call.b) =>
        result.ab = IF ReleaseBefore(call.a, call.b) THEN "less"
                    ELSE IF ReleaseBefore(call.b, call.a) THEN "greater" ELSE "equal"

(* cytadel_version_compare is an order that agrees with the one of the       *)
(* dotted numbers, whatever words, letters and epochs the versions have.    *)
VersionOrderIsSound == ComparisonIsCoherent /\ ReleasesAreOrdered

(* What a row of dotted numbers says of a detected release, as an interval. *)
InInterval(row, v) ==
    /\ row.bounds["start_including"] # <<>> => ~ReleaseBefore(v, row.bounds["start_including"])
    /\ row.bounds["start_excluding"] # <<>> => ReleaseBefore(row.bounds["start_excluding"], v)
    /\ row.bounds["end_including"] # <<>> => ~ReleaseBefore(row.bounds["end_including"], v)
    /\ row.bounds["end_excluding"] # <<>> => ReleaseBefore(v, row.bounds["end_excluding"])
Affects(row, v) ==
    /\ row.vulnerable
    /\ IF row.version \in {<<>>, <<"*">>}
         THEN (\E k \in Kinds : row.bounds[k] # <<>>) /\ InInterval(row, v)
         ELSE ~ReleaseBefore(v, row.version) /\ ~ReleaseBefore(row.version, v)
Readable(row) ==
    /\ \A k \in Kinds : row.bounds[k] = <<>> \/ IsRelease(row.bounds[k])
    /\ row.version \in {<<>>, <<"*">>} \/ IsRelease(row.version)

(* The walk over a product's rows writes at most one match per CVE, in the  *)
(* order of the CVEs, and a CVE whose rows are all readable is confirmed    *)
(* exactly when one of ITS rows affects the version: nothing of one CVE's   *)
(* rows reaches the next CVE's verdict.                                     *)
VerdictIsPerCve ==
    call.op = "match" /\ IsRelease(call.detected) =>
        LET rowsOf(cve) == {i \in DOMAIN call.rows : call.rows[i].cve = cve}
        IN  /\ \A i, j \in DOMAIN result.matches :
                  i < j => result.matches[i].cve < result.matches[j].cve
            /\ \A cve \in {row.cve : row \in Rows} \ Oversized :
                  (\A i \in rowsOf(cve) : Readable(call.rows[i])) =>
                      ((\E i \in DOMAIN result.matches :
                            result.matches[i] = [cve |-> cve, verdict |-> "confirmed"])
                         <=> \E i \in rowsOf(cve) : Affects(call.rows[i], call.detected))

=============================================================================
