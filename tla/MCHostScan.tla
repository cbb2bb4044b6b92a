----------------------------- MODULE MCHostScan -----------------------------
(* Bounds for model checking HostScan: up to three plugins, one or two ports. *)
EXTENDS HostScan

Ports == {22, 161, 443, 993}

MCKey ==
    {<<"Host/ip">>, <<"Host/hostname">>, <<"Scan/start_time">>, <<"Host/state">>}
    \union ({"Ports", "TLS/enabled", "TLS/session", "TLS/cert", "HTTP/status", "HTTP/server",
             "HTTP/title", "CPE", "Banner", "SSH/version", "SSH/protocol", "FTP/banner"} \X Ports)
    \union ({"Services"} \X {"https", "www", "ssh", "ftp", "imap", "snmp"} \X Ports \X {0})
    \union {<<"Services", "ssh", 22, 1>>, <<"Services", "ssh", 70000, 0>>}

\* Collisions on purpose: keys about a port hash to the port, others to 1.
MCHash == [k \in MCKey |-> IF Len(k) = 1 THEN 1 ELSE IF Len(k) = 2 THEN k[2] ELSE k[3]]

MCKbValue == {"text", "int", "true", "false", "open", "closed", "filtered", "up", "down"}

MCWritable == {<<"Services", "ssh", 443, 0>>, <<"Services", "ssh", 22, 1>>,
               <<"Services", "ssh", 70000, 0>>}

Text == [utf8 |-> TRUE, product |-> TRUE]
Raw == [utf8 |-> FALSE, product |-> TRUE]

MCAnswers ==
    {[tls |-> t, http |-> NoAnswer, banner |-> b] :
        t \in {"none", "anonymous"},
        b \in {NoAnswer, [kind |-> "ssh", line |-> Raw], [kind |-> "ftp", line |-> Text],
               [kind |-> "other", line |-> NoText]}}
    \union
    {[tls |-> t, http |-> [status |-> TRUE, server |-> s, title |-> NoText], banner |-> NoAnswer] :
        t \in {"none", "cert"}, s \in {Raw, Text}}
    \union
    {[tls |-> "none", http |-> [status |-> FALSE, server |-> NoText, title |-> NoText],
      banner |-> NoAnswer]}

Ssh == <<"Services/*", "ssh">>

File(id, deps, keys) ==
    [loads |-> TRUE, registers |-> 1, run |-> TRUE, id |-> id, deps |-> deps, keys |-> keys]

Broken(f) == [f EXCEPT !.loads = FALSE]

Writer == File(2, <<>>, <<<<"Host/ip">>>>)

\* The plugin that asks for a service comes before the one that writes it.
Consumer(deps) == <<File(1, deps, <<Ssh, <<"Host/state">>>>), Writer>>

\* Every graph of three plugins with at most one dependency each, named once
\* or twice, and plugins that register nothing.
Graphs ==
    {<<File(1, a, k), File(2, b, k), File(3, c, k)>> :
        a, b, c \in {<<>>, <<1>>, <<2>>, <<3, 3>>}, k \in {<<<<"FTP/banner", 161>>>>}}
    \union {<<File(1, <<2>>, <<>>), Broken(Writer)>>, <<>>,
            <<Writer, File(2, <<3>>, <<>>), File(1, <<2>>, <<Ssh, Ssh>>)>>}

Opts(explicit, present, skip, failures) ==
    [explicit |-> explicit, present |-> present, skip |-> skip, named |-> ~skip,
     failures |-> failures]

MCScenarios ==
    [opts : {Opts(FALSE, TRUE, TRUE, 0)}, dir : Graphs, ports : {<<161>>}]
    \union [opts : {Opts(FALSE, TRUE, TRUE, 0)}, dir : {Consumer(<<>>), Consumer(<<2>>)},
            ports : {<<22, 993>>, <<443>>}]
    \union [opts : {Opts(TRUE, TRUE, FALSE, 1)},
            dir : {Consumer(<<2, 2>>), <<File(1, <<2>>, <<>>), Broken(Writer)>>},
            ports : {<<22>>}]
    \union [opts : {Opts(FALSE, FALSE, FALSE, 1)}, dir : {<<>>}, ports : {<<443>>}]
=============================================================================
