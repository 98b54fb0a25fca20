----------------------------- MODULE MCFrontDoor ------------------------------
(***************************************************************************)
(* Bytes have 3 bits, an IPv4 address 1 byte and an IPv6 address 2, so a   *)
(* prefix ends inside a byte, on a byte boundary and at the full width.    *)
(***************************************************************************)
EXTENDS FrontDoor

MCSignature == <<CRLF, CRLF, 9>>
MCWidth == [f \in {4, 6} |-> IF f = 4 THEN 1 ELSE 2]
MCMappedPrefix == <<7>>

V4(a) == Ip(4, <<a>>)
V6(a, b) == Ip(6, <<a, b>>)
Net(ip, n) == [base |-> ip, prefix_len |-> n]

MCLists ==
    {<<>>, <<Blank, Net(V4(5), 2)>>, <<Net(V6(6, 4), 4)>>,
     <<Net(V4(4), 4)>>, <<BadAddress>>, <<Net(V4(6), NoPrefix), Net(V6(2, 2), 3)>>}

Sources == {V4(4), V4(6), V6(7, 5), V6(6, 2), V6(6, 6), V6(2, 5)}

HeaderOf(ver, cmd, family, len, block) ==
    [sig |-> TRUE, ver |-> ver, cmd |-> cmd, family |-> family, len |-> len,
     block |-> block]

MCHeaders ==
    {NoHeader,
     HeaderOf(2, CMD_PROXY, AF_TCP4, 4, <<3, 4, 5, 6>>),
     HeaderOf(2, CMD_PROXY, AF_TCP6, 7, <<4, 3, 5, 5, 6, 6, 9>>),
     HeaderOf(2, CMD_LOCAL, AF_TCP4, 0, <<>>),
     HeaderOf(2, CMD_LOCAL, AF_TCP4, 4, <<3, 4, 5, 6>>),
     HeaderOf(2, CMD_PROXY, 49, 2, <<4, 5>>),
     HeaderOf(2, CMD_PROXY, AF_TCP4, 3, <<4, 5, 6>>),
     HeaderOf(1, CMD_PROXY, AF_TCP4, 4, <<4, 4, 5, 6>>),
     HeaderOf(2, 3, AF_TCP4, 4, <<4, 4, 5, 6>>),
     HeaderOf(2, CMD_PROXY, AF_TCP4, 8, <<4, 4, 5, 6, 6, 6, 6, 6>>)}

Targeted(i) == FirstTarget + i
Req(i, headers) == <<Method, Targeted(i), CRLF>> \o headers \o Terminator

HelloCert == FirstHello
MCHandshake == [t \in FirstHello..(FirstHello + 4) |->
    CASE t = FirstHello     -> [leaf |-> "x509", key |-> "ann", signed |-> TRUE]
      [] t = FirstHello + 1 -> [leaf |-> "x509", key |-> "bob", signed |-> TRUE]
      [] t = FirstHello + 2 -> [leaf |-> "x509", key |-> "ann", signed |-> FALSE]
      [] t = FirstHello + 3 -> [leaf |-> "garbled", key |-> "ann", signed |-> TRUE]
      [] t = FirstHello + 4 -> [leaf |-> "absent", key |-> "ann", signed |-> TRUE]]

MCPathOf == [i \in -FirstTarget..3 |->
    CASE i = 1 -> "/stats.json" [] i = 2 -> "/stun.json" [] OTHER -> "/"]

MCHeads ==
    {Req(1, <<ConnectionUpgrade, CRLF, UpgradeWebsocket>>),
     Req(1, <<HostRelay, CRLF, ConnectionUpgrade>>),
     Req(1, <<ConnectionUpgrade, CRLF, ConnectionOther>>),
     Req(2, <<HostRelay, CRLF, HostStun>>),
     <<Method, CRLF, CRLF>>,
     Req(1, <<OtherHeader, CRLF, OtherHeader, CRLF, OtherHeader>>)}

Client(h, hello, head, body, ip) ==
    [header |-> h, hello |-> hello, head |-> head, body |-> body, ip |-> ip]

\* Every header with an upgrade, every head without one, and the two mixed
\* with every kind of TLS handshake.
MCClients ==
    {Client(h, hello, Req(1, <<ConnectionUpgrade, CRLF, UpgradeWebsocket>>), <<4>>, ip) :
        h \in MCHeaders, hello \in {<<>>, <<HelloCert>>}, ip \in Sources}
    \cup
    {Client(h, hello, head, <<>>, V4(4)) :
        h \in {NoHeader, HeaderOf(2, CMD_PROXY, AF_TCP4, 4, <<3, 4, 5, 6>>)},
        hello \in {<<>>} \cup {<<t>> : t \in DOMAIN MCHandshake}, head \in MCHeads}
==============================================================================
