------------------------------ MODULE HostScan ------------------------------
(***************************************************************************)
(* One host from the plugin directory to its findings: main loads the      *)
(* registry, cytadel_host_scan creates the knowledge base, asks whether    *)
(* the host is up, scans its ports, detects the service of every open one  *)
(* and runs the plugins over what was written.                             *)
(*                                                                         *)
(* Every answer of the network is a choice, and so is what a plugin does:  *)
(* up to MaxOps calls of set_kb_item or report_vuln, then a return or an   *)
(* error (the runtime hook and the socket timeouts end a run() that does   *)
(* not return by itself).  A call the API rejects changes nothing and is   *)
(* left out.                                                               *)
(***************************************************************************)
EXTENDS KbTable, PluginRegistry, ServiceDetect

CONSTANTS
    Scenarios,      \* the command line, the plugins directory, the port list
                    \* (no port twice) and how many allocations may fail
    Answers,        \* what an open port may answer to the probes of detection
    Writable,       \* keys that plugins set
    MaxOps,         \* calls of one plugin invocation that change state
    KbValue         \* the values a set accepts

OptSet ==
    [explicit : BOOLEAN, present : BOOLEAN, skip : BOOLEAN, named : BOOLEAN, failures : Nat]

\* The plugin files there are.
Files == UNION {Range(s.dir) : s \in Scenarios}

PortState == {"open", "closed", "filtered"}

\* What a step may write: the text "bytes" is one the knowledge base refuses.
KbWrites == Key \X (KbValue \union {"bytes"})

PortNumber == 1..65535

IsScenario(s) ==
    /\ s.opts \in OptSet /\ s.dir \in Seq(Files) /\ s.ports \in Seq(PortNumber)
    /\ \A i, j \in DOMAIN s.ports : s.ports[i] = s.ports[j] => i = j

ASSUME ScenarioAssumption == (\A s \in Scenarios : IsScenario(s)) /\ MaxOps \in Nat

IsSequence(s) == s \in Seq(Range(s))

\* A plugin lists its dependencies and its required keys.
ASSUME FileAssumption == \A f \in Files : IsSequence(f.deps) /\ IsSequence(f.keys)

\* The keys the scanner and its plugins write are valid ones.
ASSUME KeyAssumption ==
    /\ {<<"Host/ip">>, <<"Host/hostname">>, <<"Scan/start_time">>, <<"Host/state">>} \subseteq Key
    /\ \A s \in Scenarios : \A i \in DOMAIN s.ports :
         /\ <<"Ports", s.ports[i]>> \in Key /\ TlsEnabledKey(s.ports[i]) \in Key
         /\ \A a \in Answers : DetectPort(s.ports[i], a) \in Seq(KbWrites)
    /\ Writable \subseteq Key
    /\ {"text", "true", "up", "down"} \union PortState \subseteq KbValue
    /\ NotFound \notin KbValue

VARIABLES
    opts,           \* explicit: --plugins-dir given; skip: --skip-discovery;
                    \* named: the target is not an IPv4 literal; present: the
                    \* plugins directory exists; failures: allocations that may
                    \* fail
    host,           \* pc, up, the port list, the states found, the next index
    kb,
    todo,           \* writes that the current step has still to make
    disp,           \* the scheduler: turn, keys whose port is still to do, bound
                    \* port, calls
    findings,       \* the script_ids that reported, in order
    hist            \* the ports each plugin was offered and the keys plugins wrote
                    \* (no part of the code)

vars == <<reg, oom, opts, host, kb, todo, disp, findings, hist>>

NoPort == 0

TcpPingPorts == 3

Init ==
    /\ \E s \in Scenarios :
         /\ opts = s.opts
         /\ RegInit(s.dir)
         /\ host = [pc |-> "main", up |-> FALSE, ports |-> s.ports, states |-> <<>>, next |-> 1]
    /\ oom = 0
    /\ kb = Create
    /\ todo = <<>>
    /\ disp = [turn |-> 1, ports |-> {}, bound |-> NoPort, ops |-> 0]
    /\ findings = <<>>
    /\ hist = [offered |-> {}, wrote |-> {}]

-----------------------------------------------------------------------------
(* main: the registry is loaded once, before any host is scanned. *)

LoadsPlugins == opts.explicit \/ opts.present

Load ==
    /\ host.pc = "main" /\ LoadsPlugins /\ RegNext(opts.failures)
    /\ UNCHANGED <<opts, host, kb, todo, disp, findings, hist>>

LoadSettled == ~LoadsPlugins \/ reg.pc \in {"loaded", "refused", "unavailable"}

\* A directory given by --plugins-dir must load; the default one may not.
AbortMain ==
    /\ host.pc = "main" /\ opts.explicit
    /\ reg.pc \in {"refused", "unavailable"}
    /\ host' = [host EXCEPT !.pc = "aborted"]
    /\ UNCHANGED <<reg, oom, opts, kb, todo, disp, findings, hist>>

Plugins == IF LoadsPlugins /\ reg.pc = "loaded" THEN reg.headers ELSE <<>>

\* What a failed load built is freed and the registry is NULL.
StartScan ==
    /\ host.pc = "main" /\ LoadSettled
    /\ opts.explicit => reg.pc = "loaded"
    /\ reg' = [reg EXCEPT !.dir = <<>>, !.headers = Plugins, !.degree = <<>>, !.order = <<>>,
                          !.pc = IF LoadsPlugins THEN @ ELSE "unavailable"]
    /\ host' = [host EXCEPT !.pc = "create"]
    /\ UNCHANGED <<oom, opts, kb, todo, disp, findings, hist>>

-----------------------------------------------------------------------------
(* cytadel_host_scan.  A write that fails is not noticed. *)

Write(k, v) == <<<<k, v>>>>

CreateKb ==
    /\ host.pc = "create"
    /\ kb' = Create
    /\ todo' = Write(<<"Host/ip">>, "text")
               \o (IF opts.named THEN Write(<<"Host/hostname">>, "text") ELSE <<>>)
               \o Write(<<"Scan/start_time">>, "text")
    /\ host' = [host EXCEPT !.pc = "discover"]
    /\ UNCHANGED <<reg, oom, opts, disp, findings, hist>>

\* No memory for the knowledge base, or later for the port results.
HostScanFails ==
    /\ host.pc \in {"create", "scan"} /\ todo = <<>> /\ host.states = <<>>
    /\ oom < opts.failures
    /\ oom' = oom + 1
    /\ host' = [host EXCEPT !.pc = "failed"]
    /\ UNCHANGED <<reg, opts, kb, todo, disp, findings, hist>>

\* The key is there, or the entry and, when the table is full, the larger
\* bucket array can be allocated.  Text the knowledge base does not take is
\* rejected before that.
KbWrite ==
    /\ todo # <<>>
    /\ todo' = Tail(todo)
    /\ LET k == Head(todo)[1]
           v == Head(todo)[2]
       IN  \/ /\ v \in KbValue
              /\ kb' = Set(kb, k, v, TRUE)
              /\ UNCHANGED oom
           \/ /\ v \in KbValue /\ ~Present(kb, k) /\ NeedsGrowth(kb) /\ oom < opts.failures
              /\ kb' = Set(kb, k, v, FALSE)
              /\ oom' = oom + 1
           \/ /\ v \in KbValue /\ oom < opts.failures
              /\ oom' = oom + 1
              /\ UNCHANGED kb
           \/ /\ v \notin KbValue
              /\ UNCHANGED <<kb, oom>>
    /\ UNCHANGED <<reg, opts, host, disp, findings, hist>>

HostState(up) ==
    /\ host' = [host EXCEPT !.pc = IF up THEN "scan" ELSE "done", !.up = up, !.next = 1]
    /\ todo' = Write(<<"Host/state">>, IF up THEN "up" ELSE "down")

SkipDiscovery ==
    /\ host.pc = "discover" /\ todo = <<>> /\ opts.skip
    /\ HostState(TRUE)
    /\ UNCHANGED <<reg, oom, opts, kb, disp, findings, hist>>

\* A raw socket, an echo request, and a reply from the host or none in time.
IcmpEchoProbe ==
    /\ host.pc = "discover" /\ todo = <<>> /\ ~opts.skip
    /\ \E up \in BOOLEAN : HostState(up)
    /\ UNCHANGED <<reg, oom, opts, kb, disp, findings, hist>>

\* No raw socket, at the first test or when the probe opens its own.
FallBackToTcpPing ==
    /\ host.pc = "discover" /\ todo = <<>> /\ ~opts.skip
    /\ host' = [host EXCEPT !.pc = "ping"]
    /\ UNCHANGED <<reg, oom, opts, kb, todo, disp, findings, hist>>

\* A port that answers, even with a refusal, shows that the host is up.
TcpPing ==
    /\ host.pc = "ping"
    /\ \E s \in PortState :
         IF s \in {"open", "closed"} THEN HostState(TRUE)
         ELSE IF host.next = TcpPingPorts THEN HostState(FALSE)
         ELSE host' = [host EXCEPT !.next = @ + 1] /\ UNCHANGED todo
    /\ UNCHANGED <<reg, oom, opts, kb, disp, findings, hist>>

ProbePort ==
    /\ host.pc = "scan" /\ todo = <<>>
    /\ Len(host.states) < Len(host.ports)
    /\ \E s \in PortState : host' = [host EXCEPT !.states = Append(@, s)]
    /\ UNCHANGED <<reg, oom, opts, kb, todo, disp, findings, hist>>

PortsScanned ==
    /\ host.pc = "scan" /\ todo = <<>>
    /\ Len(host.states) = Len(host.ports)
    /\ host' = [host EXCEPT !.pc = "detect", !.next = 1]
    /\ todo' = [i \in DOMAIN host.ports |-> <<<<"Ports", host.ports[i]>>, host.states[i]>>]
    /\ UNCHANGED <<reg, oom, opts, kb, disp, findings, hist>>

DetectService ==
    /\ host.pc = "detect" /\ todo = <<>>
    /\ host.next <= Len(host.ports)
    /\ IF host.states[host.next] = "open"
       THEN \E a \in Answers : todo' = DetectPort(host.ports[host.next], a)
       ELSE UNCHANGED todo
    /\ host' = [host EXCEPT !.next = @ + 1]
    /\ UNCHANGED <<reg, oom, opts, kb, disp, findings, hist>>

PortsDetected ==
    /\ host.pc = "detect" /\ todo = <<>>
    /\ host.next > Len(host.ports)
    /\ host' = [host EXCEPT !.pc = "plugins"]
    /\ UNCHANGED <<reg, oom, opts, kb, todo, disp, findings, hist>>

-----------------------------------------------------------------------------
(* The scheduler: the plugins have their turns in registry order. *)

CurrentPlugin == Plugins[disp.turn]

GatesSatisfied(h) ==
    \A i \in DOMAIN h.keys : Wildcard(h.keys[i]) \/ Present(kb, h.keys[i])

WildcardServices(h) == {h.keys[i][2] : i \in {j \in DOMAIN h.keys : Wildcard(h.keys[j])}}

IsServiceKey(k, svc) == k[1] = "Services" /\ k[2] = svc /\ k[3] \in PortNumber

\* One port per matching key: two spellings of a port are two entries.
CollectPorts(svc) == {k \in KeysOf(kb) : IsServiceKey(k, svc)}

\* The ports are sorted before the first one is taken.
LowestPorts(ks) == {k \in ks : \A j \in ks : k[3] <= j[3]}

\* The result callback; host scans pass none, so a status reaches nobody.
Offered(port) ==
    hist' = [hist EXCEPT !.offered = @ \union {<<CurrentPlugin.id, port>>}]

NextTurn == [disp EXCEPT !.turn = @ + 1, !.ports = {}, !.bound = NoPort, !.ops = 0]

ExactTurn ==
    /\ host.pc = "plugins" /\ disp.turn <= Len(Plugins)
    /\ WildcardServices(CurrentPlugin) = {}
    /\ IF GatesSatisfied(CurrentPlugin)
       THEN /\ host' = [host EXCEPT !.pc = "run"]
            /\ disp' = [disp EXCEPT !.bound = NoPort, !.ops = 0]
            /\ UNCHANGED hist
       ELSE disp' = NextTurn /\ Offered(NoPort) /\ UNCHANGED host
    /\ UNCHANGED <<reg, oom, opts, kb, todo, findings>>

\* The ports are collected once; a port whose slot cannot be allocated is
\* dropped without a word.
WildcardTurn ==
    /\ host.pc = "plugins" /\ disp.turn <= Len(Plugins)
    /\ \E svc \in WildcardServices(CurrentPlugin) : \E lost \in SUBSET CollectPorts(svc) :
         LET ports == CollectPorts(svc) \ lost
         IN  /\ oom' = oom + Cardinality(lost) /\ oom' <= opts.failures
             /\ \/ /\ ports = {}
                   /\ disp' = NextTurn /\ Offered(NoPort) /\ UNCHANGED host
                \/ /\ ports # {}
                   /\ disp' = [disp EXCEPT !.ports = ports]
                   /\ host' = [host EXCEPT !.pc = "ports"]
                   /\ UNCHANGED hist
    /\ UNCHANGED <<reg, opts, kb, todo, findings>>

\* The other required keys are looked up again for every port.
WildcardPort ==
    /\ host.pc = "ports"
    /\ \E k \in LowestPorts(disp.ports) :
         IF GatesSatisfied(CurrentPlugin)
         THEN /\ host' = [host EXCEPT !.pc = "run"]
              /\ disp' = [disp EXCEPT !.bound = k[3], !.ports = @ \ {k}, !.ops = 0]
              /\ UNCHANGED hist
         ELSE /\ disp' = [disp EXCEPT !.ports = @ \ {k}]
              /\ Offered(k[3])
              /\ UNCHANGED host
    /\ UNCHANGED <<reg, oom, opts, kb, todo, findings>>

(* Mutant: a turn that goes back to the collection after every port. *)
WildcardTurnEndsAgain ==
    /\ host.pc = "ports" /\ disp.ports = {}
    /\ host' = [host EXCEPT !.pc = "plugins"]
    /\ disp' = [disp EXCEPT !.ports = {}, !.bound = NoPort, !.ops = 0]
    /\ UNCHANGED <<reg, oom, opts, kb, todo, findings, hist>>

WildcardTurnEnds ==
    /\ host.pc = "ports" /\ disp.ports = {}
    /\ host' = [host EXCEPT !.pc = "plugins"]
    /\ disp' = NextTurn
    /\ UNCHANGED <<reg, oom, opts, kb, todo, findings, hist>>

PluginsDone ==
    /\ host.pc = "plugins" /\ disp.turn > Len(Plugins)
    /\ host' = [host EXCEPT !.pc = "done"]
    /\ UNCHANGED <<reg, oom, opts, kb, todo, disp, findings, hist>>

-----------------------------------------------------------------------------
(* One invocation of run(). *)

SetKbItem ==
    /\ host.pc = "run" /\ disp.ops < MaxOps
    /\ \E k \in Writable :
         /\ \/ kb' = Set(kb, k, "text", TRUE) /\ UNCHANGED oom
            \/ /\ ~Present(kb, k) /\ NeedsGrowth(kb) /\ oom < opts.failures
               /\ kb' = Set(kb, k, "text", FALSE)
               /\ oom' = oom + 1
         /\ hist' = [hist EXCEPT !.wrote = @ \union {<<CurrentPlugin.id, k>>}]
    /\ disp' = [disp EXCEPT !.ops = @ + 1]
    /\ UNCHANGED <<reg, opts, host, todo, findings>>

\* A finding that the list has no room to grow for is lost; the plugin is
\* not told.
ReportVuln ==
    /\ host.pc = "run" /\ disp.ops < MaxOps
    /\ \/ /\ findings' = Append(findings, CurrentPlugin.id)
          /\ UNCHANGED oom
       \/ /\ oom < opts.failures
          /\ oom' = oom + 1
          /\ UNCHANGED findings
    /\ disp' = [disp EXCEPT !.ops = @ + 1]
    /\ UNCHANGED <<reg, opts, host, kb, todo, hist>>

\* run() returned, raised an error, or was stopped: what it wrote and reported
\* stays in every case.
InvokeReturns ==
    /\ host.pc = "run"
    /\ Offered(disp.bound)
    /\ IF WildcardServices(CurrentPlugin) = {}
       THEN host' = [host EXCEPT !.pc = "plugins"] /\ disp' = NextTurn
       ELSE /\ host' = [host EXCEPT !.pc = "ports"]
            /\ disp' = [disp EXCEPT !.bound = NoPort, !.ops = 0]
    /\ UNCHANGED <<reg, oom, opts, kb, todo, findings>>

Finished ==
    /\ host.pc \in {"done", "failed", "aborted"} /\ todo = <<>>
    /\ UNCHANGED vars

Next ==
    \/ Load
    \/ AbortMain
    \/ StartScan
    \/ CreateKb
    \/ HostScanFails
    \/ KbWrite
    \/ SkipDiscovery
    \/ IcmpEchoProbe
    \/ FallBackToTcpPing
    \/ TcpPing
    \/ ProbePort
    \/ PortsScanned
    \/ DetectService
    \/ PortsDetected
    \/ ExactTurn
    \/ WildcardTurn
    \/ WildcardPort
    \/ WildcardTurnEnds
    \/ PluginsDone
    \/ SetKbItem
    \/ ReportVuln
    \/ InvokeReturns
    \/ Finished

Spec == Init /\ [][Next]_vars

\* Every step of a scan is bounded by a timeout or by the data it walks.
FairSpec == Spec /\ WF_vars(Next)

-----------------------------------------------------------------------------
RegSet ==
    [pc : {"open", "register", "check", "sort", "loaded", "refused", "unavailable"},
     dir : Seq(Files), headers : Seq({Header(f) : f \in Files}),
     degree : Seq(Nat), order : Seq(Nat)]

HostSet ==
    [pc : {"main", "aborted", "create", "discover", "ping", "scan", "detect", "plugins", "ports",
           "run", "done", "failed"},
     up : BOOLEAN, ports : {s.ports : s \in Scenarios}, states : Seq(PortState), next : Nat \ {0}]

KbSet == Seq(SUBSET [key : Key, value : KbValue])

DispSet ==
    [turn : Nat \ {0}, ports : SUBSET {k \in Key : IsServiceKey(k, k[2])},
     bound : PortNumber \union {NoPort}, ops : 0..MaxOps]

Ids == {f.id : f \in Files}

HistSet ==
    [offered : SUBSET (Ids \X (PortNumber \union {NoPort})), wrote : SUBSET (Ids \X Key)]

TypeOK ==
    /\ reg \in RegSet
    /\ opts \in OptSet /\ oom \in 0..opts.failures
    /\ host \in HostSet /\ kb \in KbSet /\ todo \in Seq(KbWrites) /\ disp \in DispSet
    /\ findings \in Seq(Ids) /\ hist \in HistSet

\* The registry refuses a directory exactly when no order runs every
\* dependency first, and a loaded registry is such an order: the in-degrees,
\* paid down once for every mention, end at zero for plugins that can run and
\* for no others (depgraph.c's toposort, with duplicate, missing and circular
\* dependencies, and plugins that others need skipped at registration).
LoadIsExact ==
    /\ host.pc = "main" /\ reg.pc = "refused" => ~Orderable(reg.headers)
    /\ reg.pc = "loaded" => LegalOrder(reg.headers)

\* What detection says of a port is consistent when the plugins start: the
\* https token goes with a handshake that succeeded and with nothing else, a
\* port has a second token only over TLS, and no fact is about a port that
\* was not open (service_detect.c's two paths and their fallback).
TokensFollowTls ==
    host.pc = "plugins" /\ disp.turn = 1 /\ oom = 0 =>
        \A i \in DOMAIN host.ports :
            LET p == host.ports[i]
                Tokens == {k \in Key : k[1] = "Services" /\ k[3] = p /\ Present(kb, k)}
                Facts == {k \in Key : Len(k) = 2 /\ k[1] # "Ports" /\ k[2] = p /\ Present(kb, k)}
                secure == Get(kb, TlsEnabledKey(p)) = "true"
            IN  /\ ServiceKey("https", p) \in Tokens <=> secure
                /\ Cardinality(Tokens) <= IF secure THEN 2 ELSE 1
                /\ Tokens \union Facts # {} => host.states[i] = "open"

\* A plugin that asks for a service is offered every port of it that
\* detection found or that one of its dependencies wrote, whatever plugins
\* ran or failed in between and however the table grew: the order of the
\* registry, the table walk and the wildcard match have to agree
\* (scheduler.c collects the ports once, when the turn of the plugin comes).
EveryServiceIsOffered ==
    host.pc = "done" /\ host.up /\ oom = 0 =>
        \A t \in DOMAIN Plugins : \A svc \in WildcardServices(Plugins[t]) :
            LET q == Plugins[t]
                Deps == {q.deps[d] : d \in DOMAIN q.deps}
                Writers(k) == {w[1] : w \in {x \in hist.wrote : x[2] = k}}
            IN  \A k \in Key :
                    /\ IsServiceKey(k, svc) /\ Present(kb, k)
                    /\ Writers(k) = {} \/ Writers(k) \intersect Deps # {}
                    => <<q.id, k[3]>> \in hist.offered

\* The map a user of the knowledge base sees.
Map == INSTANCE KbMap WITH Key <- Key, Value <- KbValue, NotFound <- NotFound,
                           map <- [k \in Key |-> Get(kb, k)]

\* The chained table implements a map: a set changes its key and no other,
\* and no key that was set gets lost to a lookup, through every growth and
\* every failed allocation, wherever a growth moves the entries of the chains
\* (kb.c's grow_if_needed and insert_new).
KbIsMap == Map!MapSpec

\* Every scan of a host ends: no probe, plugin or write waits for ever.
HostScanEnds == <>(host.pc \in {"done", "failed", "aborted"} /\ todo = <<>>)

=============================================================================
