---------------------------- MODULE MCTokenGate -----------------------------
(* Instances of TokenGate for TLC: two threads, one rotation.                *)
EXTENDS TokenGate, TLC

CONSTANTS t1, t2, k1, k2

ThreadSymmetry == Permutations(Thread) \cup Permutations(Key)
=============================================================================
