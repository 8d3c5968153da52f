------------------------------ MODULE MCConsole ------------------------------
(* Console for TLC.                                                        *)
EXTENDS Console, TLC

OperationSymmetry == Permutations(Operation)
=============================================================================
