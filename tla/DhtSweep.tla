------------------------------- MODULE DhtSweep --------------------------------
(***************************************************************************)
(* The background sweep behind /dht (src/server.rs, dht_sweep and the      *)
(* DhtRecords intercept of handle_connection).  The sweep asks every       *)
(* registered node, waits DHT_ANSWER_WINDOW, takes the answers under their *)
(* lock, builds the view and stores it under another lock; answers arrive  *)
(* at any time from any session that registered.                           *)
(***************************************************************************)
EXTENDS DhtView

CONSTANTS
    Nodes,         \* nodes with an open connection
    Answers,       \* what a node may answer
    MaxAnswers     \* bound on the answers of a behaviour

ASSUME SweepAssumption ==
    /\ MaxAnswers \in Nat
    /\ \A a \in Answers : /\ a.records \in Seq([key : Nat, providers : Nat])
                         /\ a.truncated \in BOOLEAN

VARIABLES
    enrolled,      \* nodes in the registry
    session,       \* nodes whose session.peer_id is set
    dht_answers,   \* RelayState.dht_answers
    sweep,         \* where dht_sweep is
    batch,         \* the answers mem::take took, while a view is built
    dht_view,      \* RelayState.dht_view
    accepted,      \* history: answers pushed
    behind,        \* history: the answers behind the stored view
    reported       \* history: the answers behind all stored views

sweepVars == <<enrolled, session, dht_answers, sweep, batch, dht_view,
               accepted, behind, reported>>

SweepInit ==
    /\ enrolled = {} /\ session = {}
    /\ dht_answers = <<>> /\ batch = <<>>
    /\ sweep = "ticking"
    /\ dht_view = BuildDhtView(<<>>)
    /\ accepted = 0
    /\ behind = <<>>
    /\ reported = 0

Join(n) ==
    /\ n \notin session
    /\ enrolled' = enrolled \cup {n} /\ session' = session \cup {n}
    /\ UNCHANGED <<dht_answers, sweep, batch, dht_view, accepted, behind, reported>>

Leave(n) ==
    /\ n \in session
    /\ enrolled' = enrolled \ {n} /\ session' = session \ {n}
    /\ UNCHANGED <<dht_answers, sweep, batch, dht_view, accepted, behind, reported>>

\* sweep_once removes a quiet node; its session goes on.
Prune(n) ==
    /\ n \in enrolled
    /\ enrolled' = enrolled \ {n}
    /\ UNCHANGED <<session, dht_answers, sweep, batch, dht_view, accepted, behind, reported>>

\* The tick: all_senders under the registry lock, then a try_send to each.
\* It is lost where the queue is full, and a node need not answer it, so it
\* decides nothing about what arrives.
Ask ==
    /\ sweep = "ticking"
    /\ sweep' = "waiting"
    /\ UNCHANGED <<enrolled, session, dht_answers, batch, dht_view, accepted, behind, reported>>

\* PeerAnswer, with the node that sent it.
PeerAnswer(n, a) == [from |-> n, records |-> a.records, truncated |-> a.truncated]

\* A DhtRecords frame, asked for or not, in time or not, once or again.
Answer(n, a) ==
    /\ accepted < MaxAnswers
    /\ IF n \in session
       THEN dht_answers' = Append(dht_answers, PeerAnswer(n, a)) /\ accepted' = accepted + 1
       ELSE UNCHANGED <<dht_answers, accepted>>
    /\ UNCHANGED <<enrolled, session, sweep, batch, dht_view, behind, reported>>

\* The window is over: mem::take under the answers' lock.
Take ==
    /\ sweep = "waiting"
    /\ batch' = dht_answers
    /\ dht_answers' = <<>>
    /\ sweep' = "building"
    /\ UNCHANGED <<enrolled, session, dht_view, accepted, behind, reported>>

\* Mutant: the answers are cleared only once the view is stored.
StoreViewThenClear ==
    /\ sweep = "building"
    /\ dht_view' = BuildDhtView(batch)
    /\ behind' = batch
    /\ reported' = reported + Len(batch)
    /\ batch' = <<>>
    /\ dht_answers' = <<>>
    /\ sweep' = "ticking"
    /\ UNCHANGED <<enrolled, session, accepted>>

\* build_dht_view, then the store under the view's lock.
StoreView ==
    /\ sweep = "building"
    /\ dht_view' = BuildDhtView(batch)
    /\ behind' = batch
    /\ reported' = reported + Len(batch)
    /\ batch' = <<>>
    /\ sweep' = "ticking"
    /\ UNCHANGED <<enrolled, session, dht_answers, accepted>>

SweepStep == Ask \/ Take \/ StoreView

SweepNext ==
    \/ \E n \in Nodes : Join(n) \/ Leave(n) \/ Prune(n)
    \/ \E n \in Nodes, a \in Answers : Answer(n, a)
    \/ SweepStep

-------------------------------------------------------------------------------

\* The stored view is the view of the answers taken for it: every key with its
\* largest provider count, in order and within the published bound, and never
\* called complete when a node or the bound cut something off.  When no node
\* reports twice, a key is published with the number of nodes that named it,
\* and none better corroborated is left out.
ViewIsTheUnion == IsViewOf(dht_view, behind)

\* No answer is lost or counted in two views: those accepted are waiting, in
\* the batch being built, or were reported once, also when they arrive while
\* the view is being built.
AnswersConserved == accepted = Len(dht_answers) + Len(batch) + reported
===============================================================================
