----------------------------- MODULE MCIscsiNode -----------------------------
(* Instances of IscsiNode for TLC.                                          *)
EXTENDS IscsiNode, TLC

CONSTANTS p1, p2, p3, t1, t2, t3

\* Paths are interchangeable, and so are threads.
NodeSymmetry == Permutations(Paths) \cup Permutations(Threads)
=============================================================================
