---------------------------- MODULE StunLimiter -----------------------------
(***************************************************************************)
(* The STUN reflector's response budget (src/stun.rs, StunRateLimiter): a  *)
(* bucket per source and one for all, peeked at first and spent only when  *)
(* both permit.  One task receives, decides and answers, so a Binding      *)
(* Request is one action; other datagrams change nothing.  `answered` and  *)
(* `heard` are histories: the responses sent to each source in each        *)
(* one-second window, and the sources heard in each window.                *)
(***************************************************************************)
EXTENDS TokenBucket, Clock

CONSTANTS
    Sources,          \* canonical source addresses
    PerIpCapacity,    \* stun_per_ip_responses_per_sec, 0 disables
    GlobalCapacity    \* stun_global_responses_per_sec, 0 disables

ASSUME StunAssumption ==
    /\ IsFiniteSet(Sources)
    /\ PerIpCapacity \in Nat /\ GlobalCapacity \in Nat

VARIABLES
    per_ip,     \* StunRateLimiter.per_ip
    global,     \* StunRateLimiter.global
    answered,   \* history: responses by source and window
    heard       \* history: sources by window

Windows == 0..Window(MaxTime)

AtLeastOne(capacity) == IF capacity = 0 THEN 1 ELSE capacity

\* StunRateLimiter::new
StunInit ==
    /\ now = 0
    /\ per_ip = [s \in {} |-> 0]
    /\ global = NewBucket(AtLeastOne(GlobalCapacity), 0)
    /\ answered = [s \in Sources |-> [w \in Windows |-> 0]]
    /\ heard = [w \in Windows |-> {}]

\* bucket_for: the maps that hold a bucket for s; none is made when the
\* per-source budget is disabled.
BucketFor(s) ==
    IF PerIpCapacity = 0 THEN {per_ip}
    ELSE {IF s \in DOMAIN map THEN map
          ELSE Put(map, s, NewBucket(AtLeastOne(PerIpCapacity), now)) :
              map \in MakeRoom(per_ip, s)}

SourcePermits(map, s) == PerIpCapacity = 0 \/ Available(map[s], PerIpCapacity, now) > 0
GlobalPermits == GlobalCapacity = 0 \/ Available(global, GlobalCapacity, now) > 0

\* Commit a token of the per-source, or of the global, budget.
SpendSource(map, s) ==
    IF PerIpCapacity = 0 THEN map
    ELSE [map EXCEPT ![s] = TrySpend(@, PerIpCapacity, now)]
SpendGlobal ==
    IF GlobalCapacity = 0 THEN global ELSE TrySpend(global, GlobalCapacity, now)

\* Mutant: the source's token is spent before the global budget is asked.
AllowSpendsFirst(s, map) ==
    \/ /\ ~SourcePermits(map, s)
       /\ per_ip' = [map EXCEPT ![s].last_seen = now]
       /\ UNCHANGED <<global, answered>>
    \/ /\ SourcePermits(map, s) /\ ~GlobalPermits
       /\ per_ip' = SpendSource(map, s)
       /\ UNCHANGED <<global, answered>>
    \/ /\ SourcePermits(map, s) /\ GlobalPermits
       /\ per_ip' = SpendSource(map, s)
       /\ global' = SpendGlobal
       /\ answered' = [answered EXCEPT ![s][Window(now)] = @ + 1]

\* allow, on the map bucket_for returned: refused by the source's budget
\* (which touches the bucket), refused by the global one, or answered.
Allow(s, map) ==
    \/ /\ ~SourcePermits(map, s)
       /\ per_ip' = [map EXCEPT ![s].last_seen = now]
       /\ UNCHANGED <<global, answered>>
    \/ /\ SourcePermits(map, s) /\ ~GlobalPermits
       /\ per_ip' = map
       /\ UNCHANGED <<global, answered>>
    \/ /\ SourcePermits(map, s) /\ GlobalPermits
       /\ per_ip' = SpendSource(map, s)
       /\ global' = SpendGlobal
       /\ answered' = [answered EXCEPT ![s][Window(now)] = @ + 1]

\* run: a Binding Request arrives from s.
BindingRequest(s) ==
    /\ \E map \in BucketFor(s) : Allow(s, map)
    /\ heard' = [heard EXCEPT ![Window(now)] = @ \cup {s}]
    /\ UNCHANGED now

StunNext ==
    \/ Advances /\ UNCHANGED <<per_ip, global, answered, heard>>
    \/ \E s \in Sources : BindingRequest(s)

-----------------------------------------------------------------------------

SourceBucket == [tokens : 0..PerIpCapacity, window : Nat, last_seen : Nat]

\* The limiter's state has its type, and the map of sources stays within
\* MAX_TRACKED_IPS.
StunTypeOK ==
    /\ now \in Nat
    /\ DOMAIN per_ip \subseteq Sources
    /\ per_ip \in [DOMAIN per_ip -> SourceBucket]
    /\ Cardinality(DOMAIN per_ip) <= MaxTracked
    /\ global \in [tokens : 0..AtLeastOne(GlobalCapacity), window : Nat, last_seen : Nat]
    /\ answered \in [Sources -> [Windows -> Nat]]
    /\ heard \in [Windows -> SUBSET Sources]

\* The responses sent in window w, to anybody.
AnsweredIn(w) == FoldFunction(+, 0, [s \in Sources |-> answered[s][w]])

\* The relay never reflects more than the global budget in a one-second
\* window, however many sources the requests claim to come from, nor more
\* than the per-source budget towards one source in a window in which fewer
\* than MAX_TRACKED_IPS other sources are heard: only that many can push the
\* source's bucket out of the map.
ReflectionBounded ==
    /\ GlobalCapacity # 0 => \A w \in Windows : AnsweredIn(w) <= GlobalCapacity
    /\ PerIpCapacity # 0 =>
          \A s \in Sources, w \in Windows :
              Cardinality(heard[w] \ {s}) < MaxTracked => answered[s][w] <= PerIpCapacity

\* A token is spent only on a response: a request one budget refuses costs
\* the other nothing.
OnlyAnswersSpend ==
    /\ GlobalCapacity # 0 => GlobalCapacity - global.tokens = AnsweredIn(global.window)
    /\ \A s \in DOMAIN per_ip :
        PerIpCapacity - per_ip[s].tokens <= answered[s][per_ip[s].window]
=============================================================================
