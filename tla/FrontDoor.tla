------------------------------ MODULE FrontDoor -------------------------------
(***************************************************************************)
(* The life of one accepted socket from accept to the relay wire or to an  *)
(* HTTP answer: src/server.rs (run, resolve_source, the peek at the top of *)
(* handle_connection), src/proxy_protocol.rs, src/tls.rs, src/http_serve.rs*)
(* and the two HTTP surfaces of src/dashboard.rs.                          *)
(*                                                                         *)
(* The client is a structured request that is encoded onto the socket as   *)
(* bytes; the relay sees the bytes only, in pieces of any size.  The       *)
(* properties compare what the pipeline made of the bytes with what the    *)
(* client meant.                                                           *)
(***************************************************************************)
EXTENDS ProxyProtocol, HttpHead, Routes, Tls

CONSTANTS
    Clients,     \* [header, hello, head, body, ip]: what a client sends
    Lists,       \* the trusted_proxies lists an operator may configure
    MaxChunk,    \* the largest piece a read returns
    PathOf       \* the path a target names

\* A client's bytes taken apart: the PROXY header if they begin with one, the
\* TLS handshake if one follows, and the rest up to the first empty line.  A
\* header that breaks off is a client that hangs up.
IsClient(c) ==
    LET stream == c.hello \o c.head \o c.body IN
    /\ c.header \in [sig : BOOLEAN, ver : 0..15, cmd : 0..15, family : Nat, len : Nat,
                     block : Seq(Nat)]
    /\ c.header.len = Len(c.header.block)
    /\ ~c.header.sig /\ Len(Signature) <= Len(stream) =>
          SubSeq(stream, 1, Len(Signature)) # Signature
    /\ \/ c.hello = <<>> /\ (c.head # <<>> => c.head[1] \notin DOMAIN Handshake)
       \/ \E t \in DOMAIN Handshake : c.hello = <<t>>
    /\ c.head \in Seq(Nat) /\ c.body \in Seq(Nat)
    /\ \A n \in 1..(Len(c.head) - 1) : ~EndsWithTerminator(SubSeq(c.head, 1, n))
    /\ c.body # <<>> => EndsWithTerminator(c.head)
    /\ IsIp(c.ip)

\* An entry of a list is an address, with a prefix length or none, or is bad.
IsEntry(e) == CidrOK(e) => IsIp(e.base) /\ e.prefix_len \in Nat \cup {NoPrefix}

\* The PROXY signature opens with an empty line (CRLF CRLF), and a TLS
\* handshake is no text.
ASSUME FrontAssumption ==
    /\ MaxChunk \in Nat \ {0}
    /\ Len(Signature) >= 2 /\ SubSeq(Signature, 1, 2) = Terminator
    /\ \A t \in DOMAIN Handshake : t \in Nat /\ t >= FirstHello
    /\ \A c \in Clients : IsClient(c)
    /\ \A list \in Lists : \A e \in Entries(list) : IsEntry(e)

VARIABLES
    tls,         \* is the listener's mTLS acceptor configured
    trusted,     \* config.trusted_proxies, parsed
    port,        \* "wire" or "plain": the listener that accepted
    client,      \* the client of this connection
    gone,        \* has the client hung up
    taken,       \* bytes read off the socket
    pc,          \* where the connection's task is
    buf,         \* the buffer the task is filling
    proxied,     \* PrefixedStream over the socket
    peeked,      \* Prefixed over the (decrypted) stream
    source,      \* the address everything downstream uses
    verified,    \* verified_peer_id: the identity mTLS derived
    upper,       \* bytes PrefixedStream has handed up
    replayed,    \* bytes Prefixed has handed to the WebSocket handshake
    answer       \* the HTTP response, if one was written

vars == <<tls, trusted, port, client, gone, taken, pc, buf, proxied, peeked,
          source, verified, upper, replayed, answer>>

config == <<tls, trusted>>
request == <<port, client>>

NoAnswer == Response(0, "none", "none")

(***************************************************************************)
(* What the client puts on the socket.                                     *)
(***************************************************************************)
NoHeader == [sig |-> FALSE, ver |-> 0, cmd |-> 0, family |-> 0, len |-> 0,
             block |-> <<>>]

HeaderBytes(h) ==
    IF h.sig
    THEN Signature \o <<16 * h.ver + h.cmd, h.family, h.len>> \o h.block
    ELSE <<>>

Socket == HeaderBytes(client.header) \o client.hello \o client.head \o client.body

Unread == SubSeq(Socket, taken + 1, Len(Socket))
Readable == IF gone THEN 0 ELSE Len(Unread)

-----------------------------------------------------------------------------
Init ==
    /\ tls \in BOOLEAN
    /\ \E list \in Lists : ListOK(list) /\ trusted = ParseList(list)
    /\ port = "wire"
    /\ client \in Clients
    /\ gone = FALSE
    /\ taken = 0
    /\ pc = "listening"
    /\ buf = <<>>
    /\ proxied = Replay(<<>>)
    /\ peeked = Replay(<<>>)
    /\ source = client.ip
    /\ verified = Anonymous
    /\ upper = <<>>
    /\ replayed = <<>>
    /\ answer = NoAnswer

AfterResolve == IF tls THEN "tls" ELSE "admission"

\* A connection's task starts from nothing, so one client, again and again on
\* either port, stands for any sequence of clients.
Started(listener, stage) ==
    /\ pc \in {"listening", "closed"}
    /\ port' = listener
    /\ pc' = stage
    /\ gone' = FALSE
    /\ taken' = 0
    /\ buf' = <<>>
    /\ proxied' = Replay(<<>>)
    /\ peeked' = Replay(<<>>)
    /\ source' = client.ip
    /\ verified' = Anonymous
    /\ upper' = <<>>
    /\ replayed' = <<>>
    /\ answer' = NoAnswer
    /\ UNCHANGED <<config, client>>

\* run: the task resolves the source first, and reads nothing for that from a
\* source it does not trust.
AcceptWire ==
    Started("wire", IF Trusts(trusted, client.ip) THEN "proxy_fixed" ELSE AfterResolve)

\* run_redirect: straight to the request head.
AcceptPlain == Started("plain", "head")

Close ==
    /\ pc' = "closed"
    /\ buf' = <<>>

(***************************************************************************)
(* read_source_addr, under PROXY_HEADER_TIMEOUT.                           *)
(***************************************************************************)
Min2(a, b) == IF a < b THEN a ELSE b

\* read_exact takes what has arrived, never more than it still lacks.
Piece(lacking) ==
    {SubSeq(Unread, 1, n) : n \in 1..Min2(Readable, Min2(lacking, MaxChunk))}

\* The header is consumed; the socket carries on with nothing to replay.
Consumed(header, block) ==
    LET src == ParseAddressBlock(header, block)
    IN  /\ source' = IF src.declared THEN src.ip ELSE client.ip
        /\ proxied' = Replay(<<>>)
        /\ pc' = AfterResolve
        /\ buf' = <<>>

ReadFixed ==
    /\ pc = "proxy_fixed"
    /\ \E piece \in Piece(V2_FIXED_LEN - Len(buf)) :
        LET fixed == buf \o piece
            header == ParseFixed(fixed)
        IN  /\ taken' = taken + Len(piece)
            /\ \/ /\ Len(fixed) < V2_FIXED_LEN
                  /\ buf' = fixed
                  /\ UNCHANGED <<pc, proxied, source>>
               \/ /\ Len(fixed) = V2_FIXED_LEN
                  /\ header.kind # "ok"
                  /\ proxied' = Replay(fixed)
                  /\ pc' = AfterResolve
                  /\ buf' = <<>>
                  /\ UNCHANGED source
               \/ /\ Len(fixed) = V2_FIXED_LEN
                  /\ header.kind = "ok"
                  /\ IF header.len = 0
                     THEN Consumed(header, <<>>)
                     ELSE /\ pc' = "proxy_block"
                          /\ buf' = fixed
                          /\ UNCHANGED <<proxied, source>>
    /\ UNCHANGED <<config, request, gone, peeked, verified, upper, replayed, answer>>

ReadBlock ==
    /\ pc = "proxy_block"
    /\ LET header == ParseFixed(SubSeq(buf, 1, V2_FIXED_LEN))
           have == SubSeq(buf, V2_FIXED_LEN + 1, Len(buf))
       IN  \E piece \in Piece(header.len - Len(have)) :
            /\ taken' = taken + Len(piece)
            /\ IF Len(have \o piece) < header.len
               THEN /\ buf' = buf \o piece
                    /\ UNCHANGED <<pc, proxied, source>>
               ELSE Consumed(header, have \o piece)
    /\ UNCHANGED <<config, request, gone, peeked, verified, upper, replayed, answer>>

\* PROXY_HEADER_TIMEOUT bounds the whole read.
ProxyTimeout ==
    /\ pc \in {"proxy_fixed", "proxy_block"}
    /\ Close
    /\ UNCHANGED <<config, request, gone, taken, proxied, peeked, source,
                   verified, upper, replayed, answer>>

(***************************************************************************)
(* Reads above the PrefixedStream: its prefix first, then the socket.      *)
(***************************************************************************)

\* PrefixedStream::poll_read into a buffer of n bytes.
ProxiedRead(n, bytes) ==
    /\ \/ /\ Pending(proxied) # <<>>
          /\ bytes = FromPrefix(proxied, n)
          /\ proxied' = Advance(proxied, bytes)
          /\ UNCHANGED taken
       \/ /\ Pending(proxied) = <<>>
          /\ bytes \in Piece(n)
          /\ taken' = taken + Len(bytes)
          /\ UNCHANGED proxied
    /\ upper' = upper \o bytes

Pieces(n) == Piece(n) \cup {FromPrefix(proxied, n)} \cup {FromPrefix(peeked, n)}

\* TlsAcceptor::accept: client authentication is mandatory and the leaf must
\* parse; anything that is no TLS handshake fails it too.
TlsAccept ==
    /\ pc = "tls"
    /\ \E bytes \in Pieces(1) :
        /\ bytes # <<>>
        /\ ProxiedRead(1, bytes)
        /\ IF TlsAccepts(bytes[1])
           THEN pc' = "admission" /\ verified' = ExtractClientPeerId(bytes[1])
           ELSE pc' = "closed" /\ UNCHANGED verified
    /\ UNCHANGED <<config, request, gone, buf, peeked, source, replayed, answer>>

\* The ban list and the caps, by the resolved source (Relay, AbusePolicy).
Admit ==
    /\ pc = "admission"
    /\ pc' \in {"head", "closed"}
    /\ UNCHANGED <<config, request, gone, taken, buf, proxied, peeked, source,
                   verified, upper, replayed, answer>>

\* Mutant: the plain listener serves the live surfaces.
HeadDoneServesPlain(bytes) ==
    LET head == ParseRequestHead(bytes)
    IN  \/ ~head.ok /\ Close /\ UNCHANGED <<peeked, answer>>
        \/ /\ head.ok /\ Close
           /\ answer' = ServeHttp(head.host, PathOf[head.target])
           /\ UNCHANGED peeked

\* A complete head: an error, an HTTP answer, or the WebSocket handshake over
\* the same bytes.
HeadDone(bytes) ==
    LET head == ParseRequestHead(bytes)
        path == PathOf[head.target]
    IN  \/ /\ ~head.ok
           /\ Close
           /\ UNCHANGED <<peeked, answer>>
        \/ /\ head.ok
           /\ port = "plain" \/ ~head.upgrade
           /\ answer' = IF port = "plain" THEN DecideRedirect(head.host, path)
                                          ELSE ServeHttp(head.host, path)
           /\ Close
           /\ UNCHANGED peeked
        \/ /\ head.ok /\ port = "wire" /\ head.upgrade
           /\ pc' = "handshake"
           /\ peeked' = Replay(bytes)
           /\ buf' = <<>>
           /\ UNCHANGED answer

\* read_request_head: one byte at a time, the terminator before the cap.
ReadHead ==
    /\ pc = "head"
    /\ \E byte \in Pieces(1) :
        /\ byte # <<>>
        /\ ProxiedRead(1, byte)
        /\ LET now == buf \o byte
           IN  \/ EndsWithTerminator(now) /\ HeadDone(now)
               \/ /\ ~EndsWithTerminator(now)
                  /\ HeadFull(now)
                  /\ Close
                  /\ UNCHANGED <<peeked, answer>>
               \/ /\ ~EndsWithTerminator(now)
                  /\ ~HeadFull(now)
                  /\ buf' = now
                  /\ UNCHANGED <<pc, peeked, answer>>
    /\ UNCHANGED <<config, request, gone, source, verified, replayed>>

\* Prefixed::poll_read, by the handshake and then by the frame reader.
WsRead ==
    /\ pc \in {"handshake", "relay"}
    /\ \E n \in 1..MaxChunk : \E bytes \in Pieces(n) :
        /\ bytes # <<>>
        /\ \/ /\ Pending(peeked) # <<>>
              /\ bytes = FromPrefix(peeked, n)
              /\ peeked' = Advance(peeked, bytes)
              /\ UNCHANGED <<proxied, taken, upper>>
           \/ /\ Pending(peeked) = <<>>
              /\ ProxiedRead(n, bytes)
              /\ UNCHANGED peeked
        /\ replayed' = replayed \o bytes
        /\ pc' = IF Len(replayed') >= Len(peeked.prefix) THEN "relay" ELSE pc
    /\ UNCHANGED <<config, request, gone, buf, source, verified, answer>>

\* accept_async_with_config fails: the head is no handshake it accepts.
WsRefused ==
    /\ pc = "handshake"
    /\ Close
    /\ UNCHANGED <<config, request, gone, taken, proxied, peeked, source,
                   verified, upper, replayed, answer>>

\* Mutant: the deadline is armed by the first frame.
RegisterTimeoutAfterFrame ==
    /\ pc = "relay"
    /\ Len(replayed) > Len(peeked.prefix)
    /\ Close
    /\ UNCHANGED <<config, request, gone, taken, proxied, peeked, source,
                   verified, upper, replayed, answer>>

\* The read loop's deadline: register_timeout before a registration.
RegisterTimeout ==
    /\ pc = "relay"
    /\ Close
    /\ UNCHANGED <<config, request, gone, taken, proxied, peeked, source,
                   verified, upper, replayed, answer>>

\* The client hangs up; what the relay has not read is lost.
Hangup ==
    /\ pc \notin {"listening", "closed"}
    /\ ~gone
    /\ gone' = TRUE
    /\ UNCHANGED <<config, request, taken, pc, buf, proxied, peeked, source,
                   verified, upper, replayed, answer>>

\* End of stream ends the task, once the replayed bytes are used up.
Eof ==
    /\ gone
    /\ pc \notin {"listening", "closed", "admission"}
    /\ Pending(proxied) = <<>> /\ Pending(peeked) = <<>>
    /\ Close
    /\ UNCHANGED <<config, request, gone, taken, proxied, peeked, source,
                   verified, upper, replayed, answer>>

Next ==
    \/ AcceptWire
    \/ AcceptPlain
    \/ ReadFixed
    \/ ReadBlock
    \/ ProxyTimeout
    \/ TlsAccept
    \/ Admit
    \/ ReadHead
    \/ WsRead
    \/ WsRefused
    \/ RegisterTimeout
    \/ Hangup
    \/ Eof

\* The relay's own steps happen: its two timeouts fire, its checks are made,
\* an end of stream is seen.  A client need never send another byte.
Fairness ==
    /\ WF_vars(ProxyTimeout)
    /\ WF_vars(RegisterTimeout)
    /\ WF_vars(Admit)
    /\ WF_vars(Eof)

Spec == Init /\ [][Next]_vars /\ Fairness
-----------------------------------------------------------------------------

FromTrusted == port = "wire" /\ \E c \in trusted : AgreesOnBits(c, client.ip)

Resolved == pc \in {"tls", "admission", "head", "handshake", "relay"}

\* A header the relay must take off the stream: the one a trusted proxy sent,
\* in a version, with a command and of a length it reads.
Consumable(h) ==
    /\ FromTrusted
    /\ h.sig /\ h.ver = 2 /\ h.cmd \in {CMD_PROXY, CMD_LOCAL} /\ h.len <= MaxBlock

Meant == IF Consumable(client.header)
         THEN client.hello \o client.head \o client.body
         ELSE Socket

MeantAboveTls == IF tls THEN Tail(Meant) ELSE Meant

\* A trusted proxy sent a header the relay cannot parse.
Unparseable == FromTrusted /\ client.header.sig /\ ~Consumable(client.header)

\* However the bytes arrive and however they are split, the layer above the
\* PROXY header reader is handed, still owed, or can still read exactly the
\* bytes the client meant for it: nothing lost, repeated or reordered; and
\* the WebSocket handshake sees the peeked head again, in front of the rest.
\* A trusted proxy's header is taken off whole, anybody else's bytes all stay;
\* a trusted proxy's unparseable header is left to HeaderNeverFatal.
BytesIntact ==
    ~Unparseable =>
        /\ Resolved => upper \o Pending(proxied) \o Unread = Meant
        /\ pc \in {"handshake", "relay"} =>
            replayed \o Pending(peeked) \o Pending(proxied) \o Unread = MeantAboveTls

\* What follows the header is a request the relay would serve.
Servable ==
    /\ tls => client.hello # <<>> /\ TlsAccepts(client.hello[1])
    /\ ~tls => client.hello = <<>>
    /\ ParseRequestHead(client.head).ok /\ Len(client.head) <= MaxHead

\* An unparseable header from a trusted proxy does not fail the connection:
\* neither the TLS handshake nor the reading of the request head ends it
\* unanswered when what follows the header can be served (SPEC.md: it "MUST
\* leave the observed source address as the socket address rather than failing
\* the connection").
HeaderNeverFatal ==
    [][Unparseable /\ Servable /\ ~gone /\ pc \in {"tls", "head"} /\ pc' = "closed"
          => answer' # NoAnswer]_vars

\* The address a header declares counts only when a trusted proxy sent it, by
\* the leading bits of its own address and no others, and the header names a
\* TCP client in full; otherwise the socket address stays.
SourceSound ==
    LET h == client.header
        w == Width[FamilyOf(h.family)]
        declares == /\ Consumable(h) /\ h.cmd = CMD_PROXY
                    /\ h.family \in {AF_TCP4, AF_TCP6} /\ h.len >= 2 * w + 2
    IN  Resolved =>
          source = IF declares THEN Ip(FamilyOf(h.family), SubSeq(h.block, 1, w))
                   ELSE client.ip

\* An HTTP answer is the one the client's own request calls for: read off the
\* bytes after the PROXY header and the TLS handshake, the last Host line
\* deciding the vhost, plain HTTP giving nothing but the STUN documents, and
\* no head beyond MAX_HEAD_BYTES being answered.
AnswerMatchesRequest ==
    answer # NoAnswer =>
        LET head == ParseRequestHead(client.head)
            path == PathOf[head.target]
        IN  /\ head.ok /\ Len(client.head) <= MaxHead
            /\ \/ port = "plain" /\ answer = DecideRedirect(head.host, path)
               \/ /\ port = "wire" /\ ~head.upgrade
                  /\ answer = ServeHttp(head.host, path)
            /\ port = "plain" => answer.body \notin LivePaths

\* Behind mTLS nobody reaches the head reader or the wire except under the
\* identity of a certificate it sent on this very connection and whose key it
\* holds; on a plain listener nobody has an identity.
VerifiedBehindTls ==
    port = "wire" /\ pc \in {"admission", "head", "handshake", "relay"} =>
        IF tls
        THEN \E i \in DOMAIN Socket :
                /\ Socket[i] \in DOMAIN Handshake
                /\ Handshake[Socket[i]].signed
                /\ verified = Handshake[Socket[i]].key
        ELSE verified = Anonymous

\* Nobody who falls silent keeps the task: a trusted proxy that sends nothing,
\* or half a header, leaves the header reader (PROXY_HEADER_TIMEOUT), and a
\* client that completes the WebSocket handshake is dropped (register_timeout
\* around the frame read).  The head, the TLS handshake and the WebSocket
\* handshake are awaited without a deadline, so nothing of the kind holds for
\* the stages between.
SilentClientReaped ==
    /\ pc \in {"proxy_fixed", "proxy_block"} ~> pc \notin {"proxy_fixed", "proxy_block"}
    /\ pc = "relay" ~> pc = "closed"
=============================================================================
