------------------------------ MODULE MCOrders ------------------------------
(* Instances of Orders for TLC: the three seeded orders and an unknown id.   *)
EXTENDS Orders, TLC

CONSTANTS t1, t2, t3, o1, o2, o3, o4

MCSeed == <<o1, o2, o3>>

ThreadSymmetry == Permutations(Thread)
=============================================================================
