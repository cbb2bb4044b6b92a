--------------------------- MODULE ServiceDetect ---------------------------
(***************************************************************************)
(* What service detection writes about one open port, as the sequence of   *)
(* knowledge base writes that follows from what the port answered.  A      *)
(* write is a pair of a key and a value; the value "bytes" stands for text *)
(* that is not valid UTF-8 or holds a NUL, which the knowledge base        *)
(* refuses.  The fourteen TLS facts are two keys here, the two of the      *)
(* session and the ones of the certificate.                                *)
(*                                                                         *)
(* An answer is [tls |-> "none" (connect or handshake fails), "anonymous"  *)
(* or "cert", http |-> NoAnswer or what the response holds, banner |->     *)
(* NoAnswer or what the first bytes are].  A text is NoText or             *)
(* [utf8 |-> BOOLEAN, product |-> BOOLEAN]: product when it carries a      *)
(* marker of cpe_map.c and a version behind it.                            *)
(***************************************************************************)
EXTENDS Naturals, Sequences

CONSTANTS NoAnswer, NoText

TlsCandidatePort == {443, 8443, 465, 636, 990, 992, 993, 995}

HttpPort == {80, 81, 443, 8000, 8080, 8443, 8888}

WellKnownToken ==
    {<<21, "ftp">>, <<22, "ssh">>, <<23, "telnet">>, <<25, "smtp">>, <<53, "dns">>,
     <<80, "www">>, <<110, "pop3">>, <<143, "imap">>, <<161, "snmp">>, <<443, "https">>,
     <<445, "smb">>, <<465, "smtp">>, <<587, "smtp">>, <<993, "imap">>, <<995, "pop3">>,
     <<3306, "mysql">>, <<3389, "rdp">>, <<5432, "postgresql">>, <<6379, "redis">>,
     <<8000, "www">>, <<8080, "www">>, <<8443, "https">>, <<8888, "www">>}

\* Services/<token>/<port>; the last component counts leading zeros, which
\* only a plugin can write.
ServiceKey(token, port) == <<"Services", token, port, 0>>

TokenWrite(token, port) == <<<<ServiceKey(token, port), "int">>>>

WellKnownWrites(port) ==
    IF \E t \in WellKnownToken : t[1] = port
    THEN TokenWrite((CHOOSE t \in WellKnownToken : t[1] = port)[2], port)
    ELSE <<>>

TextWrite(key, text) == <<<<key, IF text.utf8 THEN "text" ELSE "bytes">>>>

\* cpe_map_and_write reads the raw bytes, whether or not they are UTF-8.
CpeWrites(port, text) ==
    IF text.product THEN <<<<<<"CPE", port>>, "text">>>> ELSE <<>>

\* A response that is not HTTP, or empty, still gets the www token.
HttpWrites(port, http) ==
    (IF http.status THEN <<<<<<"HTTP/status", port>>, "int">>>> ELSE <<>>)
    \o (IF http.server = NoText THEN <<>>
        ELSE TextWrite(<<"HTTP/server", port>>, http.server) \o CpeWrites(port, http.server))
    \o (IF http.title = NoText THEN <<>> ELSE TextWrite(<<"HTTP/title", port>>, http.title))
    \o TokenWrite("www", port)

SessionWrites(port, tls) ==
    <<<<<<"TLS/session", port>>, "text">>>>
    \o (IF tls = "cert" THEN <<<<<<"TLS/cert", port>>, "text">>>> ELSE <<>>)

TlsEnabledKey(port) == <<"TLS/enabled", port>>

\* Connect, handshake and the certificate policy, which accepts all.
TlsConnects(a) == a.tls # "none"

\* The connection stands and the GET was sent; the response may be empty.
HttpProbe(a) == a.http # NoAnswer

\* At least one byte arrived in time.
BannerGrab(a) == a.banner # NoAnswer

TlsWrites(port, a) ==
    <<<<TlsEnabledKey(port), "true">>>>
    \o SessionWrites(port, a.tls)
    \o TokenWrite("https", port)
    \o (IF port \notin HttpPort THEN WellKnownWrites(port)
        ELSE IF HttpProbe(a) THEN HttpWrites(port, a.http) ELSE <<>>)

\* kind "ssh" is an identification string with a protocol and a software part;
\* bytes that are not UTF-8 are in the software part.
SshWrites(port, banner) ==
    TextWrite(<<"SSH/version", port>>, banner.line)
    \o <<<<<<"SSH/protocol", port>>, "text">>>>
    \o TokenWrite("ssh", port)
    \o CpeWrites(port, banner.line)

FtpWrites(port, banner) ==
    TextWrite(<<"FTP/banner", port>>, banner.line)
    \o TokenWrite("ftp", port)
    \o CpeWrites(port, banner.line)

LooksLikeFtp(port, banner) == port = 21 \/ banner.kind = "ftp"

BannerWrites(port, banner) ==
    (IF banner.line = NoText THEN <<>> ELSE TextWrite(<<"Banner", port>>, banner.line))
    \o (IF banner.kind = "ssh" /\ banner.line # NoText THEN SshWrites(port, banner)
        ELSE IF LooksLikeFtp(port, banner) /\ banner.line # NoText THEN FtpWrites(port, banner)
        ELSE WellKnownWrites(port))

(* Mutant: a failed handshake on a TLS port whose fallback trusts the port number. *)
PlaintextWritesByPort(port, a) ==
    IF port \in HttpPort
    THEN IF HttpProbe(a) THEN HttpWrites(port, a.http) ELSE WellKnownWrites(port)
    ELSE IF BannerGrab(a) THEN BannerWrites(port, a.banner) ELSE WellKnownWrites(port)

PlaintextWrites(port, a) ==
    IF port \in HttpPort
    THEN IF HttpProbe(a) THEN HttpWrites(port, a.http) ELSE <<>>
    ELSE IF BannerGrab(a) THEN BannerWrites(port, a.banner) ELSE WellKnownWrites(port)

DetectPort(port, a) ==
    IF port \notin TlsCandidatePort THEN PlaintextWrites(port, a)
    ELSE IF TlsConnects(a) THEN TlsWrites(port, a)
    ELSE <<<<TlsEnabledKey(port), "false">>>> \o PlaintextWrites(port, a)

=============================================================================
