---------------------------- MODULE AbusePolicy -----------------------------
(***************************************************************************)
(* The clock-dependent half of AbusePolicy (src/limits.rs): the per-source *)
(* registration rate, the strikes and the ban list.  Its counted half (the *)
(* connection and registration slots) is part of Relay.tla.                *)
(*                                                                         *)
(* Each method runs under one hold of the policy's mutex, so each is one   *)
(* action.  A strike may come from any source at any time: whatever limit  *)
(* the source tripped, the strike is recorded in a critical section of its *)
(* own after the refusal.                                                  *)
(*                                                                         *)
(* A caller reads the wall clock before it acquires the mutex, so the time *)
(* `at` a method works with can lie behind that of a call served earlier:  *)
(* by the time the caller was held up, or by as much as the clock was set  *)
(* back.  MaxLag bounds that distance.                                     *)
(***************************************************************************)
EXTENDS TokenBucket, Clock

CONSTANTS
    Keys,            \* source keys (ip_key)
    RegRate,         \* registrations_per_ip_per_sec, 0 disables
    BanThreshold,    \* ban_threshold, 0 disables
    BanDuration,     \* ban_duration_ms
    StrikeWindow,    \* ban_strike_window_ms
    MaxLag           \* bound on how old the reading of a call can be

ASSUME PolicyAssumption ==
    /\ IsFiniteSet(Keys)
    /\ RegRate \in Nat /\ BanThreshold \in Nat
    /\ BanDuration \in Nat \ {0} /\ StrikeWindow \in Nat \ {0}  \* validate
    /\ MaxLag \in Nat

VARIABLES
    reg_buckets,  \* AbuseState.reg_buckets
    strikes,      \* AbuseState.strikes
    bans          \* AbuseState.bans: when each ban lapses

policyVars == <<now, reg_buckets, strikes, bans>>

\* The clock readings a call served now can have made.
Readings == {t \in 0..now : now - t <= MaxLag}

EmptyMap == [k \in {} |-> 0]

PolicyInit ==
    /\ now = 0
    /\ reg_buckets = EmptyMap
    /\ strikes = EmptyMap
    /\ bans = EmptyMap

\* allow_registration, where the rate is not disabled.
AllowRegistration(k, at, ok) ==
    /\ RegRate # 0
    /\ \E map \in MakeRoom(reg_buckets, k) :
         LET b == IF k \in DOMAIN map THEN map[k] ELSE NewBucket(RegRate, at) IN
         /\ ok = (Available(b, RegRate, at) > 0)
         /\ reg_buckets' = Put(map, k, TrySpend(b, RegRate, at))
    /\ UNCHANGED <<now, strikes, bans>>

\* is_banned: the answer, and the lazy removal of a lapsed ban.  (With the
\* ban list disabled there are no bans.)
IsBanned(k, at, banned) ==
    /\ banned = (k \in DOMAIN bans /\ at < bans[k])
    /\ bans' = IF banned THEN bans ELSE Drop(bans, k)
    /\ UNCHANGED <<now, reg_buckets, strikes>>

\* Mutant: an elapsed strike window keeps its count.
StruckNeverReset(map, k, at) ==
    LET r == IF k \in DOMAIN map THEN map[k]
             ELSE [count |-> 0, window_start |-> at, last_seen |-> at]
    IN  [count |-> r.count + 1, window_start |-> r.window_start, last_seen |-> at]

\* record_strike: the record of k with one more strike.  A record whose
\* window has elapsed starts over (saturating_sub: not when `at` is earlier).
Struck(map, k, at) ==
    LET r == IF k \in DOMAIN map THEN map[k]
             ELSE [count |-> 0, window_start |-> at, last_seen |-> at]
        elapsed == at - r.window_start > StrikeWindow
    IN  [count |-> IF elapsed THEN 1 ELSE r.count + 1,
         window_start |-> IF elapsed THEN at ELSE r.window_start,
         last_seen |-> at]

\* Mutant: the ban that lasts longest is evicted.
MakeBanRoomLast(k) ==
    IF Full(bans, k)
    THEN {Drop(bans, v) : v \in {v \in DOMAIN bans : \A j \in DOMAIN bans : bans[v] >= bans[j]}}
    ELSE {bans}

\* evict_soonest_ban: the ban maps that can be left.
MakeBanRoom(k) ==
    IF Full(bans, k)
    THEN {Drop(bans, v) : v \in {v \in DOMAIN bans : \A j \in DOMAIN bans : bans[v] <= bans[j]}}
    ELSE {bans}

\* record_strike, where the ban list is not disabled.
RecordStrike(k, at) ==
    /\ BanThreshold # 0
    /\ \E map \in MakeRoom(strikes, k) :
         IF Struck(map, k, at).count >= BanThreshold
         THEN /\ strikes' = Drop(map, k)
              /\ \E room \in MakeBanRoom(k) : bans' = Put(room, k, at + BanDuration)
         ELSE /\ strikes' = Put(map, k, Struck(map, k, at))
              /\ UNCHANGED bans
    /\ UNCHANGED <<now, reg_buckets>>

PolicyTick == Advances /\ UNCHANGED <<reg_buckets, strikes, bans>>

PolicyNext ==
    \/ \E k \in Keys : \E at \in Readings :
         \/ \E b \in BOOLEAN : AllowRegistration(k, at, b) \/ IsBanned(k, at, b)
         \/ RecordStrike(k, at)
    \/ PolicyTick

PolicySpec == PolicyInit /\ [][PolicyNext]_policyVars

-----------------------------------------------------------------------------
(* Properties of the policy's state *)

Bucket == [tokens : 0..RegRate, window : Nat, last_seen : Nat]
StrikeRecord == [count : Nat, window_start : Nat, last_seen : Nat]

\* Every map holds records of its type under source keys; a bucket never
\* holds more than its capacity nor, being unsigned, less than nothing.
PolicyTypeOK ==
    /\ now \in Nat
    /\ DOMAIN reg_buckets \subseteq Keys /\ reg_buckets \in [DOMAIN reg_buckets -> Bucket]
    /\ DOMAIN strikes \subseteq Keys /\ strikes \in [DOMAIN strikes -> StrikeRecord]
    /\ DOMAIN bans \subseteq Keys /\ bans \in [DOMAIN bans -> Nat]

\* No stream of distinct sources grows the limiter's own state: every per-IP
\* map stays within MAX_TRACKED_IPS, though each insertion only makes room
\* for itself.
MapsBounded ==
    /\ Cardinality(DOMAIN reg_buckets) <= MaxTracked
    /\ Cardinality(DOMAIN strikes) <= MaxTracked
    /\ Cardinality(DOMAIN bans) <= MaxTracked

\* A ban that has not lapsed goes only to make room in a full map, and then
\* no other ban was closer to lapsing; a new ban of the same source takes off
\* at most what its caller's reading of the clock was late.
BansKept ==
    [][\A k \in DOMAIN bans :
          \/ k \in DOMAIN bans' /\ bans'[k] >= bans[k] - MaxLag
          \/ now >= bans[k]
          \/ /\ Cardinality(DOMAIN bans) >= MaxTracked
             /\ \A j \in DOMAIN bans : bans[k] <= bans[j]]_policyVars
=============================================================================
