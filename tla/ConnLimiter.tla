----------------------------- MODULE ConnLimiter ------------------------------
(***************************************************************************)
(* The task-local limiter of one connection (src/limits.rs, ByteBucket and *)
(* PerConnLimiter): a message budget and a byte budget per one-second      *)
(* window and a ceiling on the bytes of the whole connection.  A frame     *)
(* beyond any of them ends the connection.  `frames` is a history: every   *)
(* frame the limiter was asked about.  The wall clock may be set back.     *)
(***************************************************************************)
EXTENDS TokenBucket, Clock, Sequences

CONSTANTS
    ConnLimits,    \* the [msgs, bytes, total] limits to configure, 0 disables
    FrameLens,     \* lengths of a frame
    MaxFrames      \* bound on the frames of a connection

ASSUME ConnAssumption ==
    /\ \A l \in ConnLimits : l.msgs \in Nat /\ l.bytes \in Nat /\ l.total \in Nat
    /\ FrameLens \subseteq Nat
    /\ MaxFrames \in Nat

VARIABLES
    limits,    \* the limits of the RelayServerConfig
    conn,      \* PerConnLimiter: [msgs, bytes, relayed_total]
    serving,   \* no frame has been answered with Disconnect
    frames     \* history: the frames so far, [second, len]

connVars == <<limits, conn, serving, frames>>

\* ByteBucket
NewByteBucket(capacity, at) == [remaining |-> capacity, window |-> Window(at)]

Remaining(b, capacity, at) == IF b.window = Window(at) THEN b.remaining ELSE capacity

\* Mutant: the last byte of the budget cannot be spent.
BytesFitStrictly(b, capacity, cost, at) == Remaining(b, capacity, at) > cost

BytesFit(b, capacity, cost, at) == Remaining(b, capacity, at) >= cost

\* ByteBucket::try_spend: the bucket afterwards; it succeeds when BytesFit.
SpendBytes(b, capacity, cost, at) ==
    [remaining |-> Remaining(b, capacity, at)
                     - (IF BytesFit(b, capacity, cost, at) THEN cost ELSE 0),
     window |-> Window(at)]

\* PerConnLimiter::new, when the connection starts.
ConnInit ==
    /\ limits \in ConnLimits
    /\ conn = [msgs |-> NewBucket(limits.msgs, now),
               bytes |-> NewByteBucket(limits.bytes, now),
               relayed_total |-> 0]
    /\ serving = TRUE
    /\ frames = <<>>

\* PerConnLimiter::admit, each check made only where the earlier ones passed.
MessageFits == limits.msgs = 0 \/ Available(conn.msgs, limits.msgs, now) > 0
FrameFits(len) == limits.bytes = 0 \/ BytesFit(conn.bytes, limits.bytes, len, now)
TotalFits(len) == limits.total = 0 \/ conn.relayed_total + len <= limits.total

SpendMessage ==
    IF limits.msgs = 0 THEN conn.msgs ELSE TrySpend(conn.msgs, limits.msgs, now)
SpendFrame(len) ==
    IF limits.bytes = 0 THEN conn.bytes
    ELSE SpendBytes(conn.bytes, limits.bytes, len, now)

Admit(len) ==
    \/ /\ ~MessageFits
       /\ conn' = [conn EXCEPT !.msgs = SpendMessage]
       /\ serving' = FALSE
    \/ /\ MessageFits /\ ~FrameFits(len)
       /\ conn' = [conn EXCEPT !.msgs = SpendMessage, !.bytes = SpendFrame(len)]
       /\ serving' = FALSE
    \/ /\ MessageFits /\ FrameFits(len)
       /\ conn' = [msgs |-> SpendMessage, bytes |-> SpendFrame(len),
                   relayed_total |-> conn.relayed_total + len]
       /\ serving' = TotalFits(len)

\* handle_connection: a frame arrives; Disconnect breaks the loop.
InboundFrame(len) ==
    /\ serving
    /\ Len(frames) < MaxFrames
    /\ Admit(len)
    /\ frames' = Append(frames, [second |-> Window(now), len |-> len])
    /\ UNCHANGED <<limits, now>>

ConnNext ==
    \/ \E len \in FrameLens : InboundFrame(len)
    \/ (Advances \/ SetBack) /\ UNCHANGED connVars

-------------------------------------------------------------------------------

\* Mapping of a set of frames, in order of arrival, to their bytes.
BytesIn(I) == FoldFunctionOnSet(+, 0, [i \in DOMAIN frames |-> frames[i].len], I)

\* The frames that came with frame i without a change of the second between.
\* A new connection's budgets are those of the second it started in, which a
\* clock set back can bring round again.
SameSpell(i) ==
    {j \in 1..i : \A k \in j..i : frames[k].second = frames[i].second}

\* The first i frames stay within every configured limit.
WithinLimits(i) ==
    /\ limits.msgs # 0 => \A j \in 1..i : Cardinality(SameSpell(j)) <= limits.msgs
    /\ limits.bytes # 0 => \A j \in 1..i : BytesIn(SameSpell(j)) <= limits.bytes
    /\ limits.total # 0 => BytesIn(1..i) <= limits.total

\* The limiter decides exactly by the three limits over the frames seen since
\* the connection began: nobody is disconnected who kept to them, nobody goes
\* on who broke one, in whatever way seconds roll over or the clock is set
\* back, and a limit of 0 limits nothing.
AdmitIsExact == serving <=> WithinLimits(Len(frames))

\* The unsigned budgets never go below zero nor above their capacity.
ConnTypeOK ==
    /\ limits \in ConnLimits
    /\ serving \in BOOLEAN
    /\ conn.msgs.tokens \in 0..limits.msgs
    /\ conn.bytes.remaining \in 0..limits.bytes
    /\ conn.relayed_total \in Nat
    /\ Len(frames) <= MaxFrames
===============================================================================
