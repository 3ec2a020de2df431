-------------------------- MODULE MCIscsiController --------------------------
(* Instances of IscsiController for TLC.                                    *)
EXTENDS IscsiController

CONSTANT v1

\* The ids are prefixes of themselves only.
NoPrefixes == {<<v, v>> : v \in Volumes}

Faults(reject, lost, abandon, delayed) ==
  [reject |-> reject, lost |-> lost, abandon |-> abandon, late |-> delayed]

ManyFaults == Faults(3, 2, 2, 1)
OneLost    == Faults(0, 1, 0, 0)
=============================================================================
