----------------------------- MODULE MCGrpcServer -----------------------------
(* GrpcServer for TLC.  RPCs and session ids are only told apart by equality, *)
(* so the safety runs may permute them.                                       *)
EXTENDS GrpcServer, TLC

Symmetry == Permutations(Calls) \cup Permutations(SessionIds)
===============================================================================
