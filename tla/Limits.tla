-------------------------------- MODULE Limits --------------------------------
(***************************************************************************)
(* The limiters of src/limits.rs and src/stun.rs side by side.  They share *)
(* the clock, the bucket and the LRU bound, and a disconnection by the     *)
(* connection's limiter is a strike for the policy; otherwise no state, so *)
(* a behaviour exercises one of them: `subject` says which.                *)
(***************************************************************************)
EXTENDS AbuseHistory, StunLimiter, ConnLimiter

VARIABLE subject

vars == <<subject, abuseVars, per_ip, global, answered, heard, connVars>>

Init ==
    /\ AbuseInit /\ StunInit /\ ConnInit
    /\ subject \in {"rate", "bans", "stun", "conn"}
    /\ subject # "conn" => limits = CHOOSE l \in ConnLimits : TRUE

policyState == <<reg_buckets, strikes, bans, calls, hits>>

\* handle_connection: the source whose frame is answered with Disconnect also
\* gets a strike.
ConnStep ==
    /\ ConnNext
    /\ IF serving /\ ~serving' /\ BanThreshold # 0
       THEN \E k \in Keys : Strike(k, now)
       ELSE UNCHANGED policyState

Others(exercised) ==
    /\ exercised = "stun" => UNCHANGED policyState
    /\ exercised # "stun" => UNCHANGED <<per_ip, global, answered, heard>>
    /\ exercised # "conn" => UNCHANGED connVars

Next ==
    /\ UNCHANGED subject
    /\ \/ subject = "rate" /\ RateNext /\ Others("rate")
       \/ subject = "bans" /\ BansNext /\ Others("bans")
       \/ subject = "stun" /\ StunNext /\ Others("stun")
       \/ subject = "conn" /\ ConnStep /\ Others("conn")

Spec == Init /\ [][Next]_vars

-------------------------------------------------------------------------------

\* Every limiter's state has its type: no unsigned budget goes below zero or
\* above its capacity, and no stream of distinct sources grows a per-source
\* map beyond MAX_TRACKED_IPS, though each insertion only makes room for
\* itself.
LimitsTypeOK == PolicyTypeOK /\ MapsBounded /\ StunTypeOK /\ ConnTypeOK
===============================================================================
