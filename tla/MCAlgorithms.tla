----------------------------- MODULE MCAlgorithms -----------------------------
EXTENDS Algorithms

NumberDef == [d \in {"0", "00", "1", "2"} |-> CASE d = "1" -> 1 [] d = "2" -> 2 [] OTHER -> 0]

WordOrderDef == <<"*", ":", "a", "alpha", "final", "foo", "ga", "rc", "v">>

(* Releases, pre-releases, releases by name, letters and words attached to  *)
(* a number or on their own, an epoch, build metadata, and texts without a  *)
(* component.                                                               *)
VersionsDef ==
    {<<"1">>, <<"1", ".", "0">>, <<"1", ".", "00">>, <<"1", ".", "1">>, <<"1", ".", "0", ".", "2">>,
     <<"2">>, <<"v", "1">>, <<"1", "rc">>, <<"1", ".", "rc">>, <<"1", ".", "0", ".", "rc">>,
     <<"1", "-", "alpha">>, <<"1", ".", "ga">>, <<"1", "final">>, <<"1", ".", "ga", ".", "rc">>,
     <<"1", ".", "ga", "1">>, <<"1", "foo">>, <<"1", "_", "foo">>, <<"1", "a">>, <<"1", "a", "1">>,
     <<"1", ":", "1">>, <<"1", ":">>, <<"1", "+", "foo">>, <<".", ".">>, <<"1", ".", "utf8">>}

NoBounds == [k \in {"start_including", "start_excluding", "end_including", "end_excluding"} |-> <<>>]
Row(cve, version, bounds, vulnerable) ==
    [cve |-> cve, version |-> version, bounds |-> bounds, vulnerable |-> vulnerable]

RowsDef ==
    UNION {{Row(cve, <<"1", ".", "0">>, NoBounds, TRUE),
            Row(cve, <<"*">>, NoBounds, TRUE),
            Row(cve, <<"*">>, [NoBounds EXCEPT !["start_including"] = <<"1", ".", "1">>,
                                               !["end_excluding"] = <<"2">>], TRUE),
            Row(cve, <<>>, [NoBounds EXCEPT !["start_excluding"] = <<"1">>,
                                            !["end_including"] = <<"1", ".", "rc">>], TRUE),
            Row(cve, <<"*">>, [NoBounds EXCEPT !["end_including"] = <<"1", ".", "0", ".", "2">>], FALSE),
            Row(cve, <<"*">>, [NoBounds EXCEPT !["end_including"] = <<"-">>], TRUE)}
           : cve \in {1, 3}}
      \cup {Row(2, <<"1">>, NoBounds, TRUE)}

Tok(kind, host, addr, prefix, answers) ==
    [kind |-> kind, host |-> host, addr |-> addr, prefix |-> prefix, answers |-> answers]
Inet(a) == [family |-> "inet", addr |-> a]
Inet6 == [family |-> "inet6", addr |-> 0]

SpecTokensDef ==
    {Tok("ip", 5, 5, 0, <<>>), Tok("name", 100, 0, 0, <<Inet6, Inet(5), Inet(6)>>),
     Tok("name", 101, 0, 0, <<Inet6>>), Tok("cidr", 0, 5, 3, <<>>), Tok("cidr", 0, 3, 0, <<>>),
     Tok("cidr", 0, 5, 5, <<>>), Tok("blank", 0, 0, 0, <<>>), Tok("long", 0, 0, 0, <<>>),
     Tok("multi", 0, 0, 0, <<>>)}

(* A line of a token that is too long need not be too long itself, and a    *)
(* comment may be.                                                          *)
FileLinesDef ==
    {[len |-> LineMax - 1, tok |-> tok] : tok \in SpecTokensDef}
      \cup {[len |-> LineMax, tok |-> Tok("blank", 0, 0, 0, <<>>)]}

FaultsDef ==
    {[NoFault EXCEPT !.tooLong = TRUE], [NoFault EXCEPT !.opens = FALSE],
     [NoFault EXCEPT !.delivers = 0], [NoFault EXCEPT !.delivers = 1],
     [NoFault EXCEPT !.denied.lines = {0}], [NoFault EXCEPT !.denied.targets = {0}],
     [NoFault EXCEPT !.denied.targets = {2, 3}], [NoFault EXCEPT !.denied.dedup = TRUE]}

PortTok(kind, first, last) == [kind |-> kind, start |-> first, end |-> last]
PortTokensDef ==
    {PortTok("malformed", 0, 0)}
      \cup {PortTok("range", r[1], r[2]) : r \in {<<0, 3>>, <<1, 1>>, <<7, 9>>, <<8, 16>>,
                                                  <<9, 7>>, <<16, 16>>, <<2, 17>>}}

LeadBytesDef == {0, 65, 127, 128, 191, 192, 193, 194, 223, 224, 225, 236, 237, 238, 239,
                 240, 241, 243, 244, 245, 255}
OtherBytesDef == {0, 128, 143, 144, 159, 160, 191, 194}

KeyCharsDef == {"slash", "ok", "other"}
HtmlCharsDef == {"&", "<", ">", "quote", "apos", "backslash", "newline", "control", "lt", "semi"}
UrlCharsDef == {"http", "s", "x", "digit", "-", ":", "/", "backslash", "tab", "blank", "control", "&"}

=============================================================================
