------------------------------ MODULE TextCodec ------------------------------
(***************************************************************************)
(* How a text is written into a report (src/report/escape.c).              *)
(***************************************************************************)
EXTENDS Integers, Sequences

CONSTANTS
    SizeMax,      \* the largest size_t
    FirstCap      \* the first capacity of a report buffer, 64

ASSUME TextCodecAssumption ==
    {SizeMax, FirstCap} \subseteq Nat \ {0} /\ FirstCap <= SizeMax

-----------------------------------------------------------------------------
(* Report texts are sequences of characters.  The characters that matter    *)
(* are named by what they are; any other stands for itself.                 *)

(* What the loops of the escapers append, one piece for each character. *)
Joined(pieces) ==
    LET out[k \in 0 .. Len(pieces)] == IF k = 0 THEN <<>> ELSE out[k - 1] \o pieces[k]
    IN  out[Len(pieces)]

(* buf_reserve: room for extra bytes and the final NUL, by doubling; 0 when *)
(* the sum would not fit in a size_t.  SizeMax turns are more than the loop *)
(* takes.                                                                   *)
Doubled(c, need) ==
    IF c >= need THEN c ELSE IF c > SizeMax \div 2 THEN need ELSE 2 * c
Grown(cap, need) ==
    LET grown[k \in 0 .. SizeMax] ==
            IF k = 0 THEN (IF cap = 0 THEN FirstCap ELSE cap) ELSE Doubled(grown[k - 1], need)
    IN  grown[SizeMax]
(* Without memory the buffer stays as it is, and the append fails as well.  *)
Reserve(len, cap, extra, granted) ==
    CASE len > SizeMax - 1                              -> 0
      [] len <= SizeMax - 1 /\ extra > SizeMax - (len + 1) -> 0
      [] OTHER -> IF len + 1 + extra <= cap THEN cap
                  ELSE IF granted THEN Grown(cap, len + 1 + extra) ELSE 0

HtmlEscapeOne(c, escapeQuotes) ==
    CASE c = "&"                     -> <<"&", "amp", "semi">>
      [] c = "<"                     -> <<"&", "lt", "semi">>
      [] c = ">"                     -> <<"&", "gt", "semi">>
      [] c = "quote" /\ escapeQuotes -> <<"&", "quot", "semi">>
      [] c = "apos" /\ escapeQuotes  -> <<"&", "#39", "semi">>
      [] OTHER                       -> <<c>>

EscapeHtml(text, escapeQuotes) ==
    Joined([i \in 1 .. Len(text) |-> HtmlEscapeOne(text[i], escapeQuotes)])

JsonEscapeOne(c) ==
    CASE c = "quote"     -> <<"backslash", "quote">>
      [] c = "backslash" -> <<"backslash", "backslash">>
      [] c = "newline"   -> <<"backslash", "n">>
      [] c = "tab"       -> <<"backslash", "t">>
      [] c = "control"   -> <<"backslash", "u0001">>
      [] OTHER           -> <<c>>

EscapeJson(text) == Joined([i \in 1 .. Len(text) |-> JsonEscapeOne(text[i])])

(* A link: tabs and newlines are dropped anywhere, blanks at both ends; a   *)
(* text with another control character, with another scheme than http and   *)
(* https, or without a scheme but with a host ("//" or "/\") is replaced by *)
(* "#".  A run of letters is one character here ("s" after "http" makes     *)
(* "https", in any case of its letters).                                    *)
IsAlpha(c) == c \in {"http", "s", "x"}
IsSchemeChar(c) == IsAlpha(c) \/ c \in {"digit", "+", "-", "."}

IsSafeUrlChar(c) == IsSchemeChar(c) \/ c \in {":", "/", "#", "?", "%"}

TrimBlanks(text) ==
    LET solid == {i \in DOMAIN text : text[i] # "blank"}
    IN  IF solid = {} THEN <<>>
        ELSE SubSeq(text, CHOOSE i \in solid : \A j \in solid : i <= j,
                          CHOOSE i \in solid : \A j \in solid : i >= j)

WithoutBreaks(text) ==
    Joined([i \in 1 .. Len(text) |->
              IF text[i] \in {"tab", "newline"} THEN <<>> ELSE <<text[i]>>])

CleanUrl(text) == TrimBlanks(WithoutBreaks(text))

(* Mutant: only letters are taken for characters of a scheme. *)
SchemeRunOfLetters(clean) ==
    LET other == {i \in DOMAIN clean : ~IsAlpha(clean[i])}
    IN  IF other = {} THEN Len(clean) ELSE (CHOOSE i \in other : \A j \in other : i <= j) - 1

(* How far the scan for a scheme goes: nowhere without a letter in front,   *)
(* else to the first character that no scheme has.                          *)
SchemeRun(clean) ==
    LET other == {i \in DOMAIN clean : ~IsSchemeChar(clean[i])}
    IN  IF clean = <<>> THEN 0
        ELSE IF ~IsAlpha(clean[1]) THEN 0
        ELSE IF other = {} THEN Len(clean)
        ELSE (CHOOSE i \in other : \A j \in other : i <= j) - 1

HasScheme(clean) == /\ SchemeRun(clean) \in 1 .. Len(clean) - 1
                    /\ clean[SchemeRun(clean) + 1] = ":"

UrlAllowed(clean) ==
    IF HasScheme(clean)
      THEN SubSeq(clean, 1, SchemeRun(clean)) \in {<<"http">>, <<"http", "s">>}
      ELSE ~(Len(clean) >= 2 /\ clean[1] = "/" /\ clean[2] \in {"/", "backslash"})

PercentEncode(clean) ==
    Joined([i \in 1 .. Len(clean) |->
              IF IsSafeUrlChar(clean[i]) THEN <<clean[i]>> ELSE <<"%", "hex">>])

EscapeUrl(text) ==
    CASE text = <<>> -> <<>>
      [] text # <<>> /\ \E i \in DOMAIN text : text[i] = "control" -> <<"#">>
      [] OTHER -> IF UrlAllowed(CleanUrl(text)) THEN PercentEncode(CleanUrl(text)) ELSE <<"#">>

=============================================================================
