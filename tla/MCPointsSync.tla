---------------------------- MODULE MCPointsSync ----------------------------
(* Small instances of PointsSync. *)
EXTENDS PointsSync, TLC

CONSTANTS u1, u2, w1, w2

UserWorkerSymmetry == Permutations(Workers) \cup Permutations(Users)
=============================================================================
