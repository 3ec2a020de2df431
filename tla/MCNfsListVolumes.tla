--------------------------- MODULE MCNfsListVolumes ---------------------------
(* Instance of NfsListVolumes for TLC.                                     *)
EXTENDS NfsListVolumes

CONSTANTS v1, v2

Faults(reject, lost, abandon, delayed) ==
  [reject |-> reject, lost |-> lost, abandon |-> abandon, late |-> delayed, upgrade |-> 1]

OneOfEach == Faults(1, 1, 1, 1)
=============================================================================
