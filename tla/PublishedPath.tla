---------------------------- MODULE PublishedPath ----------------------------
(***************************************************************************)
(* What a node plugin promises kubelet, whatever the protocol: a target    *)
(* path is mounted in NodePublishVolume only, stays mounted until          *)
(* NodeUnpublishVolume, and is not mounted any more when that succeeds,    *)
(* however often either was retried.  IscsiNode and NfsNode implement it   *)
(* until kubelet gives up on a handler.                                    *)
(***************************************************************************)
CONSTANT Paths

VARIABLES
  want,      \* what kubelet believes of each path
  mounted    \* the paths at which the volume is mounted

vars == <<want, mounted>>

Init ==
  /\ want = [p \in Paths |-> "none"]
  /\ mounted = {}

Enter(p, belief) ==
  /\ want' = [want EXCEPT ![p] = belief]
  /\ UNCHANGED mounted

Publish(p)       == want[p] \in {"none", "failed", "uncertain"} /\ Enter(p, "publishing")
Published(p)     == want[p] = "publishing" /\ p \in mounted /\ Enter(p, "published")
PublishFailed(p) == want[p] = "publishing" /\ \E b \in {"failed", "uncertain"} : Enter(p, b)
Unpublish(p)     == want[p] \in {"published", "uncertain", "unpublishing"} /\ Enter(p, "unpublishing")
Unpublished(p)   == want[p] = "unpublishing" /\ p \notin mounted /\ Enter(p, "done")

Mount(p) ==
  /\ want[p] = "publishing"
  /\ mounted' = mounted \cup {p}
  /\ UNCHANGED want

Unmount(p) ==
  /\ want[p] = "unpublishing"
  /\ mounted' = mounted \ {p}
  /\ UNCHANGED want

Next ==
  \E p \in Paths :
    \/ Publish(p) \/ Mount(p) \/ Published(p) \/ PublishFailed(p)
    \/ Unpublish(p) \/ Unmount(p) \/ Unpublished(p)

Spec == Init /\ [][Next]_vars
=============================================================================
