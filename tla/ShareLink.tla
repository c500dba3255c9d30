------------------------------ MODULE ShareLink ------------------------------
(***************************************************************************)
(* xray.Build for a share link: the outbound that vless, vmess, trojan and *)
(* shadowsocks make of its parts, and what Xray does with it.  Strings are *)
(* values, Absent what is not given; a port that is not given is NoPort.    *)
(* No port is negative: a URL cannot have one, and Xray refuses it like one *)
(* that is too big.                                                        *)
(***************************************************************************)
EXTENDS Integers

CONSTANTS
    Hosts,          \* addresses a link may give
    IPv6Hosts,      \* those of them that are IPv6 addresses
    LinkPorts,      \* ports a link may give
    Names           \* names of servers and of gRPC services

Absent == ""
NoPort == -1
MaxPort == 65535

ASSUME LinkAssumption == LinkPorts \subseteq Nat /\ Absent \notin Hosts

Schemes == {"vless", "vmess", "trojan", "ss"}

\* The parts of a link.  The form is where the credentials are: in front of the
\* host, in a Base64 payload, in one that has a "/" in it, in one with the
\* address inside (the old form of ss), or nowhere.
ShareLinks ==
    {l \in [scheme : Schemes,
            form : {"user", "payload", "slash", "whole", "none"},
            host : Hosts, port : LinkPorts \cup {NoPort},
            network : {Absent, "ws", "grpc"}, service : Names \cup {Absent},
            security : {Absent, "none", "tls", "reality", "TLS"},
            tls : {Absent, "0", "1"},   \* a parameter "tls", as old links have it
            sni : Names \cup {Absent}, insecure : BOOLEAN,
            pin : {Absent, "pcs", "pinnedPeerCertSha256"}] :  \* the name it goes by
        /\ l.scheme \in {"vless", "trojan"} => l.form \in {"user", "none"}
        /\ l.scheme = "vmess" =>
              /\ l.form \in {"payload", "slash"} /\ l.tls = Absent /\ ~l.insecure
              /\ l.pin # "pinnedPeerCertSha256"
        /\ l.form = "whole" => l.scheme = "ss"
        /\ l.form = "slash" => l.scheme = "vmess"
        /\ l.scheme = "ss" =>
              /\ l.network = Absent /\ l.service = Absent /\ l.security = Absent
              /\ l.tls = Absent /\ l.sni = Absent /\ ~l.insecure /\ l.pin = Absent}

\* queryOr, queryDefault
Or(value, fallback) == IF value = Absent THEN fallback ELSE value

-----------------------------------------------------------------------------
(* The server.                                                             *)

\* portOf
BadPort(l) == l.port # NoPort /\ l.port \notin 1..MaxPort

\* number() has no range; what is too much is refused by Xray.
Port(l) == IF l.port = NoPort THEN 443 ELSE l.port

\* decodeURLPayload takes what is behind a "/" for the payload.
PayloadCut(l) == l.form = "slash"

\* parseSS wants the credentials of a payload encoded once more.
NoCredentials(l) == l.form \in {"whole", "none"}

Refused(l) ==
    PayloadCut(l) \/ NoCredentials(l) \/ (l.scheme # "vmess" /\ BadPort(l))

\* url.URL.Hostname takes the last group of a VMess address for a port.
Hostname(l) == IF l.scheme = "vmess" /\ l.host \in IPv6Hosts THEN "cut" ELSE l.host

-----------------------------------------------------------------------------
(* streamSettings.                                                         *)

\* Bug: links that say "tls" the old way are taken for plain ones.
NewParameterOnly(l) == l.security
Security(l) ==
    IF l.security = Absent /\ l.tls # Absent THEN "tls" ELSE l.security

ServerName(l) == Or(l.sni, Hostname(l))

\* The settings of the transport security are those of exactly "tls" and
\* "reality"; ss has no stream.  A VMess payload has no field for the service.
Secured(l) == IF l.scheme = "ss" \/ Security(l) = "none" THEN Absent ELSE Security(l)
Outbound(l) ==
    [protocol   |-> l.scheme,
     address    |-> l.host,
     port       |-> Port(l),
     network    |-> Or(l.network, "tcp"),
     service    |-> IF l.network = "grpc" /\ l.scheme # "vmess" THEN l.service
                    ELSE Absent,
     security   |-> Secured(l),
     serverName |-> IF Secured(l) \in {"tls", "reality"} THEN ServerName(l)
                    ELSE Absent,
     pinned     |-> Secured(l) = "tls" /\ l.pin # Absent,
     insecure   |-> Secured(l) = "tls" /\ l.insecure]

\* metadataFrom: what the result says of the outbound.
Metadata(l) ==
    [protocol  |-> l.scheme,
     transport |-> IF l.scheme = "ss" THEN Absent ELSE Outbound(l).network,
     security  |-> IF l.scheme = "ss" THEN Absent ELSE Outbound(l).security]

-----------------------------------------------------------------------------
(* Xray-core: it reads the names of securities in any case, and verifies a *)
(* server by the name in the settings, or else by the address.             *)

Lower(security) == IF security = "TLS" THEN "tls" ELSE security

XrayRefuses(o) == o.port > MaxPort

\* The connection of the probes: where to, and protected how.
Connection(o) ==
    [address  |-> o.address, port |-> o.port, security |-> Lower(o.security),
     verifies |-> IF Lower(o.security) = Absent \/ o.insecure THEN Absent
                  ELSE Or(o.serverName, o.address),
     pinned   |-> o.pinned]

-----------------------------------------------------------------------------
(* What a link says, in the words of those who write links.               *)

IsTested(l) == ~Refused(l) /\ ~XrayRefuses(Outbound(l))

SaysTLS(l) == l.security \in {"tls", "TLS"} \/ (l.security = Absent /\ l.tls = "1")
SaysReality(l) == l.security = "reality"
SaysPlain(l) == l.security = "none"

\* The server, and 443 if no port is given.
ServerKept(l, c) ==
    /\ c.address = l.host
    /\ l.port # NoPort => c.port = l.port
    /\ l.port = NoPort => c.port = 443

\* The security by its name; and only who asks for it is not verified.
SecurityKept(l, c) ==
    /\ SaysTLS(l) => c.security = "tls"
    /\ SaysReality(l) => c.security = "reality"
    /\ SaysPlain(l) => c.security = Absent
    /\ c.security # Absent /\ ~l.insecure => c.verifies # Absent

\* The name and the pin of a link that spells its security in small letters, as
\* the links' own documents do.
IdentityKept(l, c) ==
    l.security # "TLS" =>
        /\ (SaysTLS(l) \/ SaysReality(l)) /\ l.sni # Absent /\ ~l.insecure
               => c.verifies = l.sni
        /\ SaysTLS(l) /\ l.pin # Absent => c.pinned

\* The result names the security the connection has.
ReportedRight(l, c) == Lower(Metadata(l).security) = c.security

LinkKept(l) ==
    IsTested(l) => LET c == Connection(Outbound(l)) IN
        ServerKept(l, c) /\ SecurityKept(l, c) /\ IdentityKept(l, c) /\ ReportedRight(l, c)

-----------------------------------------------------------------------------
(* Expectations the code does not meet (README).                           *)

\* A link that says all it has to is tested.
GoodLinkIsTested(l) ==
    l.form # "none" /\ (l.port = NoPort \/ l.port \in 1..MaxPort) => IsTested(l)

\* A VMess link over gRPC keeps its service.
ServiceKept(l) ==
    IsTested(l) /\ l.network = "grpc" => Outbound(l).service = l.service

\* A link that says nothing of its security has what its scheme implies, TLS for
\* trojan; and "tls=0" says that there is none.
ImpliedSecurity(l) ==
    IsTested(l) /\ l.security = Absent /\ l.tls # "1" =>
        Connection(Outbound(l)).security = IF l.scheme = "trojan" /\ l.tls = Absent
                                           THEN "tls" ELSE Absent

\* However the security is spelled, its pin is kept.
PinKept(l) ==
    IsTested(l) /\ SaysTLS(l) /\ l.pin # Absent => Connection(Outbound(l)).pinned

\* However the security is spelled, the server is verified by the name the link
\* gives, and by its address if it gives none.
NameKept(l) ==
    IsTested(l) /\ (SaysTLS(l) \/ SaysReality(l)) /\ ~l.insecure =>
        Connection(Outbound(l)).verifies = Or(l.sni, l.host)
=============================================================================
