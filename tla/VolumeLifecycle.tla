--------------------------- MODULE VolumeLifecycle ---------------------------
(***************************************************************************)
(* What a controller promises the provisioner, whatever the protocol: a    *)
(* volume is usable from the success of CreateVolume until DeleteVolume    *)
(* begins, and leaves nothing behind on TrueNAS once DeleteVolume has      *)
(* succeeded, however often either was retried.  IscsiController and       *)
(* NfsController implement it.                                             *)
(***************************************************************************)
CONSTANT Volumes

VARIABLES
  phase,     \* what the provisioner knows of each volume
  backing    \* how much of it is on TrueNAS

vars == <<phase, backing>>

Phases   == {"absent", "creating", "failed", "bound", "deleting", "gone"}
Backings == {"none", "partial", "whole"}

Init ==
  /\ phase = [v \in Volumes |-> "absent"]
  /\ backing = [v \in Volumes |-> "none"]

Enter(v, newPhase) ==
  /\ phase' = [phase EXCEPT ![v] = newPhase]
  /\ UNCHANGED backing

Create(v)       == phase[v] \in {"absent", "creating", "failed"} /\ Enter(v, "creating")
CreateFailed(v) == phase[v] = "creating" /\ Enter(v, "failed")
Created(v)      == phase[v] = "creating" /\ backing[v] = "whole" /\ Enter(v, "bound")
Delete(v)       == phase[v] \in {"bound", "deleting"} /\ Enter(v, "deleting")
Deleted(v)      == phase[v] = "deleting" /\ backing[v] = "none" /\ Enter(v, "gone")

\* While it is created a volume comes and, when an attempt is undone, goes.
Build(v) ==
  /\ phase[v] = "creating"
  /\ \E b \in Backings : backing' = [backing EXCEPT ![v] = b]
  /\ UNCHANGED phase

\* While it is deleted it only goes.
Dismantle(v) ==
  /\ phase[v] = "deleting"
  /\ \E b \in {"none", "partial"} :
       /\ b = "partial" => backing[v] # "none"
       /\ backing' = [backing EXCEPT ![v] = b]
  /\ UNCHANGED phase

Next ==
  \E v \in Volumes :
    \/ Create(v) \/ CreateFailed(v) \/ Created(v) \/ Build(v)
    \/ Delete(v) \/ Deleted(v) \/ Dismantle(v)

Spec == Init /\ [][Next]_vars
=============================================================================
