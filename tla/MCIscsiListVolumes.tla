-------------------------- MODULE MCIscsiListVolumes --------------------------
(* Instance of IscsiListVolumes for TLC.                                    *)
EXTENDS IscsiListVolumes, TLC

CONSTANTS v1, v2

\* The ids are prefixes of themselves only.
NoPrefixes == {<<v, v>> : v \in Volumes}

OneRetry == [reject |-> 1, lost |-> 1, abandon |-> 0, late |-> 0]

\* The volumes are interchangeable.
VolumeSymmetry == Permutations(Volumes)
=============================================================================
