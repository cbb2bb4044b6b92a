---------------------------- MODULE VersionCompare ----------------------------
(***************************************************************************)
(* cytadel_version_compare (src/match/version_compare.c): the order of two *)
(* version strings, or UNDECIDABLE.  A version string is the sequence of   *)
(* its lexemes: a maximal run of digits, a maximal run of letters, or one  *)
(* of the bytes the code looks at (a delimiter, ':', '+', '*', or a byte   *)
(* it refuses).  What a lexeme spells is a string; Number gives the value  *)
(* of a digit run (leading zeros do not count, any length) and WordOrder   *)
(* the case-insensitive order of the letter runs.                          *)
(***************************************************************************)
EXTENDS Integers, Sequences, FiniteSets

CONSTANTS
    Number,       \* value of each digit run: a function from lexemes to Nat
    WordOrder     \* the letter runs, in the order of cytadel_alpha_cmp_ci

Order == {"less", "equal", "greater"}
Undecidable == "undecidable"

Delims == {".", "-", "_"}
Refused == {"nul", "del", "utf8"}
IsNumber(x) == x \in DOMAIN Number
Place(w) == CHOOSE i \in DOMAIN WordOrder : WordOrder[i] = w

Prerelease == {"alpha", "beta", "rc", "pre", "preview", "dev", "devel",
               "snapshot", "nightly", "test", "unstable", "alfa", "milestone"}
ReleaseEquivalent == {"ga", "final", "release", "stable"}
KeywordRank(w) == IF w \in Prerelease THEN 0 ELSE IF w \in ReleaseEquivalent THEN 1 ELSE 2

ASSUME VersionAssumption ==
    /\ \A d \in DOMAIN Number : Number[d] \in Nat
    /\ WordOrder \in Seq(STRING)
    /\ \A w \in 1 .. Len(WordOrder) : WordOrder[w] \notin DOMAIN Number
    /\ DOMAIN Number \cap (Delims \cup Refused \cup {"+", "*", "v"}) = {}
    /\ DOMAIN Number \cap (Prerelease \cup ReleaseEquivalent) = {}

SignOf(x, y) == IF x < y THEN "less" ELSE IF x > y THEN "greater" ELSE "equal"
Mirror(v) == CASE v = "less" -> "greater" [] v = "greater" -> "less" [] OTHER -> v

-----------------------------------------------------------------------------
(* From the text to the tokens *)

StripV(s) == IF Len(s) >= 2 /\ s[1] = "v" /\ IsNumber(s[2]) THEN Tail(s) ELSE s

HasEpoch(s) == Len(s) >= 2 /\ IsNumber(s[1]) /\ s[2] = ":"
Epoch(s) == IF HasEpoch(s) THEN Number[s[1]] ELSE 0
Rest(s) == IF HasEpoch(s) THEN SubSeq(s, 3, Len(s)) ELSE s

(* Build metadata, from the first '+' on, is not compared. *)
WithoutBuild(s) ==
    LET plus == {i \in DOMAIN s : s[i] = "+"}
    IN  IF plus = {} THEN s
        ELSE SubSeq(s, 1, (CHOOSE i \in plus : \A j \in plus : i <= j) - 1)

(* A token is attached when no delimiter was skipped to reach it. *)
Tokens(s) ==
    LET at == {i \in DOMAIN s : s[i] \notin Delims}
        Nth(k) == CHOOSE i \in at : Cardinality({j \in at : j < i}) = k - 1
    IN  [k \in 1 .. Cardinality(at) |->
            [text     |-> s[Nth(k)],
             attached |-> Nth(k) = 1 \/ s[Nth(k) - 1] \notin Delims]]

-----------------------------------------------------------------------------
(* What the tokens of one side say when the other side has ended *)
Neutral(t) == \/ IsNumber(t.text) /\ Number[t.text] = 0
              \/ t.text \in ReleaseEquivalent

AmbiguousLetter(toks, k) ==
    /\ toks[k].text \in {"a", "b", "c"}
    /\ k < Len(toks)
    /\ toks[k + 1].attached
    /\ IsNumber(toks[k + 1].text)

ResidualVerdict(toks, from) ==
    LET telling == {k \in from .. Len(toks) : ~Neutral(toks[k])}
        k == CHOOSE i \in telling : \A j \in telling : i <= j
    IN  IF telling = {}                    THEN "equal"
        ELSE IF IsNumber(toks[k].text)     THEN "greater"
        ELSE IF toks[k].text \in Prerelease THEN "less"
        ELSE IF ~toks[k].attached \/ AmbiguousLetter(toks, k) THEN Undecidable
        ELSE "greater"
(* Mutant: keywords are ordered like any other words. *)
WordVerdictLexical(v, w) == SignOf(Place(v), Place(w))

(* Two tokens at the same position *)
WordVerdict(v, w) ==
    IF KeywordRank(v) # KeywordRank(w)
      THEN IF 2 \in {KeywordRank(v), KeywordRank(w)} THEN Undecidable
           ELSE SignOf(KeywordRank(v), KeywordRank(w))
      ELSE IF KeywordRank(v) = 1 THEN "equal" ELSE SignOf(Place(v), Place(w))

TokenVerdict(s, t) ==
    IF IsNumber(s.text)
      THEN IF IsNumber(t.text) THEN SignOf(Number[s.text], Number[t.text]) ELSE Undecidable
      ELSE IF IsNumber(t.text) THEN Undecidable ELSE WordVerdict(s.text, t.text)

(* The first position that tells the two apart decides. *)
CompareTokens(a, b) ==
    LET telling == {i \in 1 .. (Len(a) + 1) :
                      i \in DOMAIN a /\ i \in DOMAIN b => TokenVerdict(a[i], b[i]) # "equal"}
        i == CHOOSE k \in telling : \A j \in telling : k <= j
    IN  IF i \in DOMAIN a
          THEN IF i \in DOMAIN b THEN TokenVerdict(a[i], b[i]) ELSE ResidualVerdict(a, i)
          ELSE IF i \in DOMAIN b THEN Mirror(ResidualVerdict(b, i)) ELSE "equal"

Version(s) ==
    [epoch |-> Epoch(StripV(s)), toks |-> Tokens(WithoutBuild(Rest(StripV(s))))]

CompareVersions(u, v) ==
    IF u.toks = <<>> \/ v.toks = <<>> THEN Undecidable
    ELSE IF u.epoch # v.epoch THEN SignOf(u.epoch, v.epoch)
    ELSE CompareTokens(u.toks, v.toks)

IsRefused(s) == \E i \in DOMAIN s : s[i] \in Refused

Compare(s, t) ==
    IF IsRefused(s) \/ IsRefused(t) THEN Undecidable
    ELSE CompareVersions(Version(s), Version(t))

=============================================================================
