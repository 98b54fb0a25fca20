------------------------------- MODULE HttpHead -------------------------------
(***************************************************************************)
(* src/http_serve.rs: the request head the relay peeks before it decides   *)
(* between the dashboard and the wire, and the replay of bytes already     *)
(* read.  A head is a sequence of tokens; CRLF ends a line and the head    *)
(* ends at an empty line, that is at two CRLFs in a row.  The request line *)
(* is a method and a target token, a header line is one token.             *)
(***************************************************************************)
EXTENDS Integers, Sequences, FiniteSets

CONSTANT MaxHead          \* MAX_HEAD_BYTES, in tokens

ASSUME HeadAssumption == MaxHead \in Nat \ {0}

CRLF == 0
NotUtf8 == 1              \* a byte that makes the head non-UTF-8
FirstHello == 40          \* TLS handshakes, which are no text either
Method == 2
Space == 3                \* an empty word where a method or target belongs

ConnectionUpgrade == 10   \* Connection: keep-alive, Upgrade
ConnectionOther == 11     \* Connection: close
UpgradeWebsocket == 12
UpgradeOther == 13        \* Upgrade: h2c
HostStun == 14            \* Host: stun.<domain>
HostRelay == 15           \* Host: any other
OtherHeader == 16

\* Targets, as an index into the sequence of the paths they name.
FirstTarget == 20

Terminator == <<CRLF, CRLF>>

EndsWithTerminator(buf) ==
    Len(buf) >= 2 /\ SubSeq(buf, Len(buf) - 1, Len(buf)) = Terminator

\* MAX_HEAD_BYTES without a terminator: the connection is dropped.
HeadFull(buf) == Len(buf) >= MaxHead

\* The lines of the head, as the indices at which a header line stands.
FirstCrlf(buf) == CHOOSE i \in DOMAIN buf :
    buf[i] = CRLF /\ \A j \in 1..(i - 1) : buf[j] # CRLF

HeaderAt(buf, tokens) ==
    {i \in (FirstCrlf(buf) + 1)..(Len(buf) - 2) : buf[i] \in tokens}

LastOf(S) == CHOOSE i \in S : \A j \in S : j <= i

\* A later Connection, Upgrade or Host line overwrites an earlier one.
LastIs(buf, tokens, token) ==
    LET at == HeaderAt(buf, tokens)
    IN  at # {} /\ buf[LastOf(at)] = token

ParseError == [ok |-> FALSE, target |-> 0, host |-> "none", upgrade |-> FALSE]

\* parse_request_head
ParseRequestHead(buf) ==
    IF \/ \E i \in DOMAIN buf : buf[i] = NotUtf8 \/ buf[i] >= FirstHello
       \/ FirstCrlf(buf) < 3
       \/ buf[1] = Space
       \/ buf[2] = Space
    THEN ParseError
    ELSE [ok |-> TRUE,
          target |-> buf[2] - FirstTarget,
          host |-> CASE LastIs(buf, {HostStun, HostRelay}, HostStun) -> "stun"
                     [] LastIs(buf, {HostStun, HostRelay}, HostRelay) -> "relay"
                     [] OTHER -> "none",
          upgrade |->
            /\ LastIs(buf, {ConnectionUpgrade, ConnectionOther}, ConnectionUpgrade)
            /\ LastIs(buf, {UpgradeWebsocket, UpgradeOther}, UpgradeWebsocket)]

(***************************************************************************)
(* Prefixed and PrefixedStream: bytes already read, served before any byte *)
(* of the stream below.                                                    *)
(***************************************************************************)

\* Mutant: the bytes already read are not put back.
ReplayNothing(prefix) == [prefix |-> <<>>, pos |-> 0]

Replay(prefix) == [prefix |-> prefix, pos |-> 0]

Pending(stream) == SubSeq(stream.prefix, stream.pos + 1, Len(stream.prefix))

\* What poll_read puts into a buffer of n bytes while a prefix is pending.
FromPrefix(stream, n) ==
    SubSeq(Pending(stream), 1, IF Len(Pending(stream)) < n
                               THEN Len(Pending(stream)) ELSE n)

Advance(stream, bytes) == [stream EXCEPT !.pos = @ + Len(bytes)]
==============================================================================
