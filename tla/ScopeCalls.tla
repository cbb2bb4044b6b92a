------------------------------ MODULE ScopeCalls ------------------------------
(***************************************************************************)
(* The parses of the targets and of the ports of a scan, called with any   *)
(* tokens and compared with the addresses and the ports the tokens name.   *)
(***************************************************************************)
EXTENDS Targets, Calls, FiniteSets

CONSTANTS
    SpecTokens,      \* tokens of a target spec and of a targets file
    FileLines,       \* lines of a targets file
    Faults,          \* what can go wrong during one parse
    FaultyTokens,    \* tokens of a spec whose parse goes wrong (bound of the model)
    PortTokens       \* tokens of a port spec

(* Nothing goes wrong: the file opens, every line is delivered, and there   *)
(* is memory.                                                               *)
NoFault == [tooLong |-> FALSE, opens |-> TRUE, delivers |-> MaxLines + 1,
            denied |-> [lines |-> {}, targets |-> {}, dedup |-> FALSE]]

ASSUME ScopeCallsAssumption ==
    /\ \A tok \in SpecTokens :
          /\ tok.kind \in {"ip", "cidr", "name", "blank", "long", "multi"}
          /\ tok.addr \in 0 .. Word32 - 1 /\ tok.prefix \in Nat
          /\ tok.answers \in Seq([family : {"inet", "inet6"}, addr : 0 .. Word32 - 1])
    /\ FileLines \subseteq [len : Nat, tok : SpecTokens]
    /\ \A fault \in Faults :
          /\ fault.tooLong \in BOOLEAN /\ fault.opens \in BOOLEAN /\ fault.delivers \in Nat
          /\ fault.denied.dedup \in BOOLEAN
    /\ FaultyTokens \in Nat
    /\ \A tok \in PortTokens :
          tok.kind \in {"malformed", "range"} /\ tok.start \in Nat /\ tok.end \in Nat

(* No spec is no text, so it has no token. *)
ParseTargets ==
    /\ call = Idle
    /\ \E toks \in SeqsUpTo(SpecTokens, MaxTokens + 1), lines \in SeqsUpTo(FileLines, MaxLines + 1),
          fault \in Faults \cup {NoFault}, hasFile \in BOOLEAN :
           /\ fault = NoFault \/ Len(toks) <= FaultyTokens
           /\ lines # <<>> => hasFile
           /\ LET spec == [toks |-> toks, tooLong |-> fault.tooLong]
                  file == [opens |-> fault.opens, lines |-> lines,
                           delivered |-> Len(FirstFew(lines, fault.delivers))]
              IN  Called([op |-> "targets", spec |-> spec, file |-> file, hasFile |-> hasFile,
                          denied |-> fault.denied],
                         TargetListParse(spec, toks # <<>>, file, hasFile, fault.denied))

ParsePorts ==
    /\ call = Idle
    /\ \E toks \in SeqsUpTo(PortTokens, MaxPortTokens + 1) \ {<<>>}, tooLong, denied \in BOOLEAN :
           Called([op |-> "ports", toks |-> toks, tooLong |-> tooLong, denied |-> denied],
                  PortRangeParse([toks |-> toks, tooLong |-> tooLong], denied))

ScopeNext == ParseTargets \/ ParsePorts

(* Whatever else is called, targets and ports are parsed this way. *)
ScopeSpec == CallInit /\ [][ScopeNext \/ call'.op \notin {"targets", "ports"}]_<<call, result>>

-----------------------------------------------------------------------------
(* The addresses a token stands for, by the definition of a prefix. *)
Block(tok) == {x \in 0 .. Word32 - 1 :
                 x \div Power[AddressBits - tok.prefix] = tok.addr \div Power[AddressBits - tok.prefix]}
Denotes(tok) ==
    IF tok.kind = "cidr" /\ tok.prefix <= AddressBits THEN Block(tok)
    ELSE IF tok.kind = "ip" THEN {tok.addr}
    ELSE IF tok.kind = "name"
      THEN {tok.answers[i].addr : i \in {i \in DOMAIN tok.answers :
                                            /\ tok.answers[i].family = "inet"
                                            /\ \A j \in 1 .. i - 1 : tok.answers[j].family # "inet"}}
    ELSE {}

(* The tokens that were read, in the order they are given: those of the    *)
(* spec, and the lines the file delivered.  Blank lines are not meant.      *)
FromSpec == call.spec.toks
FromFile == [i \in 1 .. call.file.delivered |-> call.file.lines[i].tok]
Given == FromSpec \o FromFile
Meant == {k \in DOMAIN Given : k <= Len(FromSpec) \/ Given[k].kind # "blank"}

(* How many addresses the first k tokens name, each token counted in full.  *)
Named ==
    LET sum[k \in 0 .. Len(Given)] ==
            IF k = 0 THEN 0
            ELSE sum[k - 1] + (IF k \in Meant THEN Cardinality(Denotes(Given[k])) ELSE 0)
    IN  sum

(* A target list that is accepted is the whole of what was read, which is   *)
(* the whole of what the operator named unless reading the file broke off   *)
(* (targets_file.c takes that for the end of the file): every address of    *)
(* every token, each address once, under the first name given for it, never *)
(* more than MaxTargets.  A token that names no address is never passed     *)
(* over.                                                                    *)
TargetListIsExact ==
    call.op = "targets" /\ result.status = "ok" =>
        /\ {result.items[i].ip : i \in DOMAIN result.items}
             = UNION {Denotes(Given[k]) : k \in Meant}
        /\ \A i, j \in DOMAIN result.items : result.items[i].ip = result.items[j].ip => i = j
        /\ \A k \in Meant : Denotes(Given[k]) # {}
        /\ Len(result.items) \in 1 .. MaxTargets
        /\ \A i \in DOMAIN result.items, k \in Meant :
             /\ result.items[i].ip \in Denotes(Given[k])
             /\ \A l \in Meant : l < k => result.items[i].ip \notin Denotes(Given[l])
             => Given[k].kind = "cidr" \/ result.items[i].host = Given[k].host

(* A list that is refused has a reason: nothing named, a token that names   *)
(* no address, a spec or a line too long, too many tokens, lines or         *)
(* addresses, a file that cannot be opened, or no memory.                   *)
TargetRefusalHasReason ==
    call.op = "targets" /\ result.status # "ok" =>
        LET file == call.file  denied == call.denied
        IN  \/ Meant = {} \/ \E k \in Meant : Denotes(Given[k]) = {}
            \/ call.spec.tooLong \/ Len(FromSpec) > MaxTokens
            \/ call.hasFile /\ ~file.opens
            \/ \E i \in 1 .. file.delivered : file.lines[i].len >= LineMax
            \/ Cardinality({k \in Meant : k > Len(FromSpec)}) > MaxLines
            \/ Named[Len(Given)] > MaxTargets
            \/ denied.lines # {} \/ denied.targets # {} \/ denied.dedup

(* A port list that is accepted is the union of its ranges, ascending; one  *)
(* that is refused has a token that is no range of ports, too many tokens   *)
(* or bytes, or no memory.                                                  *)
IsPortRange(tok) == tok.kind = "range" /\ 1 <= tok.start /\ tok.start <= tok.end /\ tok.end <= MaxPort
PortListIsExact ==
    call.op = "ports" =>
        IF result.status = "ok"
          THEN /\ \A i \in 1 .. Len(result.items) - 1 : result.items[i] < result.items[i + 1]
               /\ {result.items[i] : i \in DOMAIN result.items}
                    = {v \in 1 .. MaxPort : \E k \in DOMAIN call.toks :
                           v \in call.toks[k].start .. call.toks[k].end}
               /\ \A k \in DOMAIN call.toks : IsPortRange(call.toks[k])
          ELSE \/ \E k \in DOMAIN call.toks : ~IsPortRange(call.toks[k])
               \/ Len(call.toks) > MaxPortTokens \/ call.tooLong \/ call.denied

(* What is scanned is what was read of what was asked for, no host or port  *)
(* more or less, and a scan is refused only for a reason                    *)
(* (cytadel_target_list_parse and cytadel_port_range_parse).                *)
ScopeIsExact == TargetListIsExact /\ TargetRefusalHasReason /\ PortListIsExact

=============================================================================
