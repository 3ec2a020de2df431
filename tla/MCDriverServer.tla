---------------------------- MODULE MCDriverServer ----------------------------
(* Instance of DriverServer for TLC.                                        *)
EXTENDS DriverServer

CONSTANTS c1, c2
=============================================================================
