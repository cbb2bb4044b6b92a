------------------------------ MODULE ReportCalls ------------------------------
(***************************************************************************)
(* The escapers of the reports and their buffer, called with any text and  *)
(* compared with what a reader makes of their output.                      *)
(***************************************************************************)
EXTENDS TextCodec, Calls

CONSTANTS
    HtmlChars, UrlChars,
    MaxText          \* characters of a text (bound of the model)

ASSUME ReportCallsAssumption == MaxText \in Nat

Escape ==
    /\ call = Idle
    /\ \E text \in SeqsUpTo(HtmlChars, MaxText) :
           Called([op |-> "escape", text |-> text],
                  [body |-> EscapeHtml(text, FALSE), attr |-> EscapeHtml(text, TRUE),
                   json |-> EscapeJson(text)])

EscapeLink ==
    /\ call = Idle
    /\ \E text \in SeqsUpTo(UrlChars, MaxText) :
           Called([op |-> "link", text |-> text], EscapeUrl(text))

ReserveRoom ==
    /\ call = Idle
    /\ \E cap \in 0 .. SizeMax, extra \in 0 .. SizeMax, granted \in BOOLEAN :
       \E len \in 0 .. cap :
           /\ cap = 0 \/ len < cap
           /\ Called([op |-> "reserve", len |-> len, cap |-> cap, extra |-> extra,
                      granted |-> granted],
                     Reserve(len, cap, extra, granted))

ReportNext == Escape \/ EscapeLink \/ ReserveRoom

(* Whatever else is called, reports are escaped this way. *)
ReportSpec ==
    CallInit /\ [][ReportNext \/ call'.op \notin {"escape", "link", "reserve"}]_<<call, result>>

-----------------------------------------------------------------------------
(* What a reader of the escaped text makes of it.  A code gives characters  *)
(* a spelling that starts with its mark; the reader replaces each spelling  *)
(* by its character and takes any other character but the mark for itself.  *)
HtmlCode ==
    [mark |-> "&",
     spell |-> [c \in {"&", "<", ">", "quote", "apos"} |->
                  CASE c = "&"     -> <<"&", "amp", "semi">>
                    [] c = "<"     -> <<"&", "lt", "semi">>
                    [] c = ">"     -> <<"&", "gt", "semi">>
                    [] c = "quote" -> <<"&", "quot", "semi">>
                    [] c = "apos"  -> <<"&", "#39", "semi">>]]
JsonCode ==
    [mark |-> "backslash",
     spell |-> [c \in {"quote", "backslash", "newline", "tab", "control"} |->
                  CASE c = "quote"     -> <<"backslash", "quote">>
                    [] c = "backslash" -> <<"backslash", "backslash">>
                    [] c = "newline"   -> <<"backslash", "n">>
                    [] c = "tab"       -> <<"backslash", "t">>
                    [] c = "control"   -> <<"backslash", "u0001">>]]

(* The characters whose spelling is found at place i. *)
Spelled(code, s, i) ==
    {c \in DOMAIN code.spell :
        /\ i + Len(code.spell[c]) <= Len(s) + 1
        /\ \A j \in 1 .. Len(code.spell[c]) : s[i + j - 1] = code.spell[c][j]}

(* The character read at place i, and the place where the next one starts. *)
ReadAt(code, s, i) ==
    IF s[i] # code.mark THEN [char |-> s[i], next |-> i + 1]
    ELSE IF Spelled(code, s, i) = {} THEN [char |-> "broken", next |-> i + 1]
    ELSE LET c == CHOOSE c \in Spelled(code, s, i) : TRUE
         IN  [char |-> c, next |-> i + Len(code.spell[c])]

(* The reader gets through s with the characters of text, one by one.       *)
Decodes(code, s, text) ==
    LET at[k \in 0 .. Len(text)] == IF k = 0 THEN 1 ELSE ReadAt(code, s, at[k - 1]).next
    IN  /\ at[Len(text)] = Len(s) + 1
        /\ \A k \in 1 .. Len(text) :
              at[k - 1] <= Len(s) /\ ReadAt(code, s, at[k - 1]).char = text[k]

Lacks(s, chars) == \A i \in DOMAIN s : s[i] \notin chars

(* A report shows the text that was found, whatever it contains: what a     *)
(* reader decodes is the input, and no character of it can end the element, *)
(* the attribute or the string it is written into.                          *)
EscapedTextIsKept ==
    call.op = "escape" =>
        /\ Decodes(HtmlCode, result.body, call.text) /\ Lacks(result.body, {"<", ">"})
        /\ Decodes(HtmlCode, result.attr, call.text)
        /\ Lacks(result.attr, {"<", ">", "quote", "apos"})
        /\ Decodes(JsonCode, result.json, call.text)
        /\ Lacks(result.json, {"newline", "tab", "control"})
        /\ \A i \in DOMAIN result.json :
             result.json[i] = "quote" => i > 1 /\ result.json[i - 1] = "backslash"

(* What a browser takes for the scheme of a link, by the grammar of        *)
(* RFC 3986: a letter, then letters, digits, "+", "-" and ".", up to a ":". *)
SchemeGrammar == [first |-> {"http", "s", "x"},
                  rest  |-> {"http", "s", "x", "digit", "+", "-", "."}]
SchemesOf(url) ==
    {n \in 1 .. Len(url) - 1 :
        /\ url[1] \in SchemeGrammar.first
        /\ \A i \in 1 .. n : url[i] \in SchemeGrammar.rest
        /\ url[n + 1] = ":"}

(* Every scheme the link has is http or https, and it does not start with a *)
(* host of its own, a backslash being a slash to a browser.                 *)
LeadsToTheWeb(url) ==
    /\ \A n \in SchemesOf(url) : SubSeq(url, 1, n) \in {<<"http">>, <<"http", "s">>}
    /\ ~(Len(url) >= 2 /\ {url[1], url[2]} \subseteq {"/", "backslash"})

(* Characters a browser skips or trims, and those that end an attribute.    *)
SkippedByBrowser == {"tab", "newline", "blank", "control"}
EndsAttribute == {"quote", "apos", "&", "<", ">"}
PlainUrlChars == SchemeGrammar.rest \cup {":", "/", "#", "?"}

(* A link in a report has the scheme http or https, or it has none and      *)
(* starts with no host of its own, as a browser reads it: no character of   *)
(* it is skipped, so no other scheme appears when some are taken out.  A    *)
(* link that is like this already, and plain, is written as it is.          *)
LinkStaysHttp ==
    call.op = "link" =>
        /\ Lacks(result, SkippedByBrowser \cup EndsAttribute)
        /\ LeadsToTheWeb(result)
        /\ LeadsToTheWeb(call.text) /\ (\A i \in DOMAIN call.text : call.text[i] \in PlainUrlChars)
             => result = call.text

(* A buffer that was reserved holds what is appended and the final NUL; the *)
(* request fails only when the size does not fit in a size_t, never because *)
(* it wrapped, or when there is no memory to grow.                          *)
RoomIsEnough ==
    call.op = "reserve" =>
        LET need == call.len + 1 + call.extra
        IN  /\ result # 0 => result \in need .. SizeMax
            /\ result = 0 => need > SizeMax \/ (~call.granted /\ need > call.cap)

(* What a report says is what was found: escaped, linked and stored whole   *)
(* (escape.c).                                                              *)
ReportIsFaithful == EscapedTextIsKept /\ LinkStaysHttp /\ RoomIsEnough

=============================================================================
