-------------------------------- MODULE Clock ---------------------------------
(* The wall clock (now_ms) the limiters read, in ticks. *)
EXTENDS Naturals

CONSTANT MaxTime   \* bound on the clock

ASSUME ClockAssumption == MaxTime \in Nat

VARIABLE now

Advances == now < MaxTime /\ now' = now + 1

\* The host's clock is set back.
SetBack == now' \in 0..(now - 1)
===============================================================================
