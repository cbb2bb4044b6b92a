------------------------------- MODULE Targets -------------------------------
(***************************************************************************)
(* What is scanned: CIDR blocks (src/net/cidr.c), single targets           *)
(* (target.c), the --targets-file (targets_file.c), the target list        *)
(* (target_list.c) and the port list (port_range.c).                       *)
(*                                                                         *)
(* A token is the record of what its text says: an IPv4 literal, a CIDR    *)
(* block (its prefix text may be out of range), a name with what the       *)
(* resolver answers, or a text that is refused: nothing left after the     *)
(* trim ("blank"), too long ("long"), blanks inside ("multi").  Addresses  *)
(* have AddressBits bits (32 in the code).                                 *)
(*                                                                         *)
(* What the machine refuses is an argument too: denied.lines and           *)
(* denied.targets are the lengths at which a list of lines or of targets   *)
(* gets no memory for one more, denied.dedup says that the last pass gets  *)
(* none.                                                                   *)
(***************************************************************************)
EXTENDS Integers, Sequences, FiniteSets

CONSTANTS
    AddressBits,     \* 32
    MaxTargets,      \* CYTADEL_MAX_TARGETS
    FirstTargets,    \* the first capacity of the array of targets, 64
    MaxTokens,       \* CYTADEL_TARGET_LIST_SPEC_MAX_TOKENS
    MaxLines,        \* CYTADEL_TARGETS_FILE_MAX_LINES
    LineMax,         \* CYTADEL_TARGETS_FILE_LINE_MAX
    MaxPort,         \* CYTADEL_PORT_MAX
    MaxPortTokens    \* CYTADEL_PORT_SPEC_MAX_TOKENS

ASSUME TargetsAssumption ==
    {AddressBits, MaxTargets, FirstTargets, MaxTokens, MaxLines, LineMax, MaxPort, MaxPortTokens}
        \subseteq Nat \ {0}

FirstFew(s, n) == SubSeq(s, 1, IF n < Len(s) THEN n ELSE Len(s))

(* What a parse has come to: the list so far, or why it failed. *)
Listed(items) == [status |-> "ok", items |-> items]
Failed(why) == [status |-> why, items |-> <<>>]

(* qsort of a set by a strict order, a set of pairs *)
InOrder(S, before) ==
    [k \in 1 .. Cardinality(S) |->
        CHOOSE i \in S : Cardinality({j \in S : <<j, i>> \in before}) = k - 1]

Ascending(S) == InOrder(S, {p \in S \X S : p[1] < p[2]})

-----------------------------------------------------------------------------
(* Words of AddressBits bits *)

(* Power[n] = 2 ^ n *)
Power == LET power[n \in 0 .. AddressBits] == IF n = 0 THEN 1 ELSE 2 * power[n - 1]
         IN  power
Word32 == Power[AddressBits]
Bit(x, k) == (x \div Power[k]) % 2

BitAnd(x, y) ==
    LET low[k \in 0 .. AddressBits] ==
            IF k = 0 THEN 0
            ELSE low[k - 1] + Power[k - 1] * (Bit(x, k - 1) * Bit(y, k - 1))
    IN  low[AddressBits]

BitOr(x, y) ==
    LET low[k \in 0 .. AddressBits] ==
            IF k = 0 THEN 0
            ELSE low[k - 1]
                   + Power[k - 1] * (IF Bit(x, k - 1) + Bit(y, k - 1) = 0 THEN 0 ELSE 1)
    IN  low[AddressBits]

-----------------------------------------------------------------------------
(* CIDR blocks *)
(* Mutant: prefix 0 is not special, and the shift by the width shifts by 0. *)
MaskShifted(prefix) ==
    ((Word32 - 1) * Power[(AddressBits - prefix) % AddressBits]) % Word32

(* A shift by the full width is undefined in C, hence the case of prefix 0. *)
Mask(prefix) ==
    IF prefix = 0 THEN 0 ELSE ((Word32 - 1) * Power[AddressBits - prefix]) % Word32

CidrParse(tok) ==
    IF tok.prefix \notin 0 .. AddressBits
      THEN [ok |-> FALSE, network |-> 0, prefix |-> 0]
      ELSE [ok |-> TRUE, network |-> BitAnd(tok.addr, Mask(tok.prefix)), prefix |-> tok.prefix]

HostCount(cidr) == Power[AddressBits - cidr.prefix]

NthAddress(cidr, n) == BitOr(cidr.network, n)

-----------------------------------------------------------------------------
(* One target *)

(* cytadel_target_parse: a literal, or the first IPv4 answer of the resolver. *)
TargetParse(tok) ==
    LET v4 == {i \in DOMAIN tok.answers : tok.answers[i].family = "inet"}
    IN  IF tok.kind = "multi" THEN [status |-> "invalid", ip |-> 0]
        ELSE IF tok.kind = "ip" THEN [status |-> "ok", ip |-> tok.addr]
        ELSE IF v4 = {} THEN [status |-> "resolve", ip |-> 0]
        ELSE [status |-> "ok",
              ip |-> tok.answers[CHOOSE i \in v4 : \A j \in v4 : i <= j].addr]

-----------------------------------------------------------------------------
(* The target list; acc is the list so far and the number of its targets *)

NewTarget(host, ip) == [host |-> host, ip |-> ip]

(* cytadel_target_dynarray_push: the array doubles when it is full. *)
IsFull(n) == n = 0 \/ \E k \in 0 .. AddressBits : n = FirstTargets * Power[k]
CannotPush(from, to, denied) == \E n \in from .. to : IsFull(n) /\ n \in denied.targets

ExpandCidr(tok, acc, denied) ==
    LET cidr  == CidrParse(tok)
        count == Len(acc.items)
        hosts == [n \in 1 .. HostCount(cidr) |->
                    NewTarget(NthAddress(cidr, n - 1), NthAddress(cidr, n - 1))]
    IN  IF ~cidr.ok THEN Failed("invalid")
        ELSE IF count + HostCount(cidr) > MaxTargets THEN Failed("too_many")
        ELSE IF CannotPush(count, count + HostCount(cidr) - 1, denied) THEN Failed("alloc")
        ELSE Listed(acc.items \o hosts)

ExpandTarget(tok, acc, denied) ==
    LET target == TargetParse(tok)
    IN  IF Len(acc.items) + 1 > MaxTargets THEN Failed("too_many")
        ELSE IF target.status # "ok" THEN Failed(target.status)
        ELSE IF CannotPush(Len(acc.items), Len(acc.items), denied) THEN Failed("alloc")
        ELSE Listed(Append(acc.items, NewTarget(tok.host, target.ip)))

ExpandToken(acc, tok, denied) ==
    IF acc.status # "ok" THEN acc
    ELSE IF tok.kind \in {"blank", "long"} THEN Failed("invalid")
    ELSE IF tok.kind = "cidr" THEN ExpandCidr(tok, acc, denied)
    ELSE ExpandTarget(tok, acc, denied)

ExpandAll(toks, acc, denied) ==
    LET done[k \in 0 .. Len(toks)] ==
            IF k = 0 THEN acc ELSE ExpandToken(done[k - 1], toks[k], denied)
    IN  done[Len(toks)]

(* A spec of too many bytes is refused first.  The tokens beyond MaxTokens  *)
(* are not reached; the first of them fails.                                *)
ExpandSpec(spec, acc, denied) ==
    LET done == ExpandAll(FirstFew(spec.toks, MaxTokens), acc, denied)
    IN  IF spec.tooLong THEN Failed("invalid")
        ELSE IF done.status = "ok" /\ Len(spec.toks) > MaxTokens THEN Failed("invalid")
        ELSE done

(* Blank and comment lines are skipped, and only the lines kept are         *)
(* counted; each of them is copied.                                         *)
ReadLine(acc, line, denied) ==
    IF acc.status # "ok" THEN acc
    ELSE IF line.len >= LineMax THEN Failed("line_too_long")
    ELSE IF line.tok.kind = "blank" THEN acc
    ELSE IF Len(acc.items) >= MaxLines THEN Failed("too_many_lines")
    ELSE IF Len(acc.items) \in denied.lines THEN Failed("alloc")
    ELSE Listed(Append(acc.items, line.tok))

Nothing == Listed(<<>>)

(* fgets has no line any more after file.delivered lines: at the end of the *)
(* file, or because the read failed.  The code does not tell them apart.    *)
ReadTargetsFile(file, denied) ==
    LET read[k \in 0 .. file.delivered] ==
            IF k = 0 THEN Nothing ELSE ReadLine(read[k - 1], file.lines[k], denied)
    IN  IF file.opens THEN read[file.delivered] ELSE Failed("open")

(* The keys sorted by address, then by position: the first key of each run  *)
(* of one address marks the position kept, and the list is closed up.       *)
Dedup(items) ==
    LET place == DOMAIN items
        keys == InOrder(place, {p \in place \X place :
                                  \/ items[p[1]].ip < items[p[2]].ip
                                  \/ items[p[1]].ip = items[p[2]].ip /\ p[1] < p[2]})
        keep == {keys[k] : k \in {k \in DOMAIN keys :
                    k = 1 \/ items[keys[k]].ip # items[keys[k - 1]].ip}}
        kept == Ascending(keep)
    IN  [k \in DOMAIN kept |-> items[kept[k]]]

TargetListParse(spec, hasSpec, file, hasFile, denied) ==
    LET fromSpec == IF hasSpec THEN ExpandSpec(spec, Nothing, denied) ELSE Nothing
        lines    == ReadTargetsFile(file, denied)
        whole    == IF fromSpec.status # "ok" \/ ~hasFile THEN fromSpec
                    ELSE IF lines.status # "ok" THEN Failed("file")
                    ELSE ExpandAll(lines.items, fromSpec, denied)
    IN  IF ~hasSpec /\ ~hasFile THEN Failed("empty")
        ELSE IF whole.status # "ok" THEN whole
        ELSE IF whole.items = <<>> THEN Failed("empty")
        ELSE IF Len(whole.items) > 1 /\ denied.dedup THEN Failed("alloc")
        ELSE Listed(Dedup(whole.items))

-----------------------------------------------------------------------------
(* The port list.  A port token is malformed, or the two numbers it names;  *)
(* the bitmap is the set of its <<byte, bit>> pairs that are 1.             *)

PortBit(v) == <<v \div 8, v % 8>>
PortToken(acc, tok) ==
    IF acc.status # "ok" THEN acc
    ELSE IF tok.kind = "malformed" THEN [status |-> "malformed", bits |-> {}]
    ELSE IF ~({tok.start, tok.end} \subseteq 1 .. MaxPort)
      THEN [status |-> "out_of_bounds", bits |-> {}]
    ELSE IF tok.start > tok.end THEN [status |-> "malformed", bits |-> {}]
    ELSE [status |-> "ok", bits |-> acc.bits \cup {PortBit(v) : v \in tok.start .. tok.end}]

SetPorts(toks) ==
    LET set[k \in 0 .. Len(toks)] ==
            IF k = 0 THEN [status |-> "ok", bits |-> {}] ELSE PortToken(set[k - 1], toks[k])
    IN  set[Len(toks)]

PortRangeParse(spec, denied) ==
    LET done  == SetPorts(FirstFew(spec.toks, MaxPortTokens))
        ports == {v \in 1 .. MaxPort : PortBit(v) \in done.bits}
    IN  IF spec.tooLong THEN Failed("malformed")
        ELSE IF done.status # "ok" THEN Failed(done.status)
        ELSE IF Len(spec.toks) > MaxPortTokens THEN Failed("too_many")
        ELSE IF ports = {} THEN Failed("empty")
        ELSE IF denied THEN Failed("alloc")
        ELSE Listed(Ascending(ports))

=============================================================================
