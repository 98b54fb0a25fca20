------------------------------- MODULE MCLimits -------------------------------
(* A small instance of Limits for TLC. *)
EXTENDS Limits, TLC

\* Each limit alone, all of them, and none.
MCConnLimits ==
    {[msgs |-> 2, bytes |-> 0, total |-> 0], [msgs |-> 0, bytes |-> 2, total |-> 0],
     [msgs |-> 0, bytes |-> 0, total |-> 5], [msgs |-> 2, bytes |-> 3, total |-> 5],
     [msgs |-> 0, bytes |-> 0, total |-> 0]}

Symmetry == Permutations(Keys)
===============================================================================
