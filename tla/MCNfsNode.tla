------------------------------ MODULE MCNfsNode ------------------------------
(* Instance of NfsNode for TLC.                                             *)
EXTENDS NfsNode

CONSTANTS p1, t1, t2, t3
=============================================================================
