---------------------------- MODULE AbuseHistory ----------------------------
(***************************************************************************)
(* AbusePolicy with a record of the calls made to it, to state what the    *)
(* limits promise about a whole sequence of calls.                         *)
(***************************************************************************)
EXTENDS AbusePolicy, Sequences

CONSTANTS MaxCalls, MaxHits   \* bounds on the recorded calls

VARIABLES
    calls,   \* the calls of allow_registration, with what they answered
    hits     \* the calls of record_strike

abuseVars == <<policyVars, calls, hits>>

AbuseInit == PolicyInit /\ calls = <<>> /\ hits = <<>>

Register(k, at, ok) ==
    /\ Len(calls) < MaxCalls
    /\ AllowRegistration(k, at, ok)
    /\ calls' = Append(calls, [key |-> k, at |-> at, ok |-> ok,
                               fresh |-> k \notin DOMAIN reg_buckets])
    /\ UNCHANGED hits

Strike(k, at) ==
    /\ Len(hits) < MaxHits
    /\ RecordStrike(k, at)
    /\ hits' = Append(hits, [key |-> k, at |-> at])
    /\ UNCHANGED calls

\* The rate and the ban list share no state, so each has its own behaviours.
RateNext ==
    \/ \E k \in Keys, at \in Readings, b \in BOOLEAN :
         \/ Register(k, at, b)
         \/ IsBanned(k, at, b) /\ UNCHANGED <<calls, hits>>
    \/ PolicyTick /\ UNCHANGED <<calls, hits>>

BansNext ==
    \/ \E k \in Keys, at \in Readings :
         \/ \E b \in BOOLEAN : IsBanned(k, at, b) /\ UNCHANGED <<calls, hits>>
         \/ Strike(k, at)
    \/ PolicyTick /\ UNCHANGED <<calls, hits>>

-----------------------------------------------------------------------------

CallsOf(k) == {i \in DOMAIN calls : calls[i].key = k}
Earlier(k, i) == {j \in CallsOf(k) : j < i}
Last(S) == CHOOSE i \in S : \A j \in S : j <= i

\* Call i found a full bucket: the source was not tracked, or its previous
\* call fell into another one-second window.
Refilled(k, i) ==
    \/ calls[i].fresh
    \/ Window(calls[Last(Earlier(k, i))].at) # Window(calls[i].at)

\* A source is let through at most RegRate times for each window it moves
\* to and each time it had been forgotten, whatever the other sources do and
\* however late its callers are.
RateHolds ==
    \A k \in Keys :
        Cardinality({i \in CallsOf(k) : calls[i].ok})
            <= RegRate * Cardinality({i \in CallsOf(k) : Refilled(k, i)})

\* Only the sources seen longest ago are forgotten (and so given a fresh
\* budget): none that is untracked called later than one that is tracked, up
\* to the lag of their callers.
RecentTracked ==
    \A j, k \in Keys :
        (/\ CallsOf(j) # {} /\ j \notin DOMAIN reg_buckets
         /\ k \in DOMAIN reg_buckets)
            => calls[Last(CallsOf(j))].at <= calls[Last(CallsOf(k))].at + MaxLag

\* The strikes of k whose callers read a time between first and last.
StrikesIn(k, first, last) ==
    {i \in DOMAIN hits : hits[i].key = k /\ hits[i].at \in first..last}

\* Nobody is banned for strikes spread over more than the strike window: at
\* least BanThreshold strikes of the source lie within one window (up to the
\* lag of their callers) before each ban.  And a source that has reached the
\* threshold is never left merely tracked.
BanJustified ==
    /\ \A k \in DOMAIN bans :
          LET struck == bans[k] - BanDuration IN
          Cardinality(StrikesIn(k, struck - StrikeWindow - MaxLag, struck + MaxLag))
              >= BanThreshold
    /\ \A k \in DOMAIN strikes : strikes[k].count \in 1..(BanThreshold - 1)
=============================================================================
