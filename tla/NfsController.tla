---------------------------- MODULE NfsController ----------------------------
(***************************************************************************)
(* nfsCreateVolume and nfsDeleteVolume (pkg/driver/nfs.go), one REST call  *)
(* per step, with the part of TrueNAS they drive: datasets, found by name, *)
(* and NFS shares, found by the mountpoint of their dataset.  Unlike the   *)
(* iSCSI handlers they undo nothing; a failed CreateVolume is completed by *)
(* the provisioner's retry.                                                *)
(*                                                                         *)
(* TrueNAS changed the shares API without a version: up to 22.12.4.1 a     *)
(* share has a list `paths', afterwards a string `path'; a request in the  *)
(* other form, or for a path that cannot be shared, is answered with 422.  *)
(*                                                                         *)
(* An operator whose comment begins with "Variant" is a plausible mistake  *)
(* in the operator that follows; it is not part of the specification.      *)
(***************************************************************************)
EXTENDS Integers, Sequences

FaultKinds == {"reject", "lost", "abandon", "late", "upgrade"}

CONSTANTS
  Volumes,      \* CSI volume ids ("nfs-" + the requested name)
  MaxFaults,    \* how many faults of each kind a behaviour may have
  MaxTotal      \* and altogether

ASSUME MaxFaultsAssumption == MaxFaults \in [FaultKinds -> Nat]
ASSUME MaxTotalAssumption == MaxTotal \in Nat

VARIABLES
  datasets,     \* the volumes that have a dataset
  shares,       \* the volumes whose mountpoint is shared
  field,        \* the form of the shares API: "path" or "paths"
  handler,      \* the handler of each volume's outstanding RPC
  phase,        \* what the provisioner knows of each volume
  late,         \* requests of abandoned handlers that TrueNAS has yet to execute
  used          \* the faults so far

nas  == <<datasets, shares, field>>
vars == <<datasets, shares, field, handler, phase, late, used>>

Phases == {"absent", "creating", "failed", "bound", "deleting", "gone"}

Calls  == {"createDataset", "createShare", "createShareLegacy", "deleteDataset"}
Idle   == [rpc |-> "idle", pc |-> "reply"]

CreateSteps == {"findDataset", "createDataset", "findShare", "createShare", "createShareLegacy"}
DeleteSteps == {"findDataset", "deleteDataset"}
Answers     == {"reply", "error"}

HandlerType ==
  {Idle} \cup [rpc : {"create"}, pc : CreateSteps \cup Answers]
         \cup [rpc : {"delete"}, pc : DeleteSteps \cup Answers]
RequestType == [call : Calls, vol : Volumes]

-----------------------------------------------------------------------------
(***************************************************************************)
(* TrueNAS.                                                                *)
(***************************************************************************)
\* createShare sends `path', createShareLegacy sends `paths'.
Accepted(r) ==
  CASE r.call = "createDataset"     -> r.vol \notin datasets
    [] r.call = "createShare"       -> field = "path" /\ r.vol \in datasets \ shares
    [] r.call = "createShareLegacy" -> field = "paths" /\ r.vol \in datasets \ shares
    [] r.call = "deleteDataset"     -> r.vol \in datasets

\* "Deleting the dataset will remove the NFS share" (nfs.go:184).
Execute(r) ==
  /\ datasets' = CASE r.call = "createDataset" -> datasets \cup {r.vol}
                   [] r.call = "deleteDataset" -> datasets \ {r.vol}
                   [] r.call \in {"createShare", "createShareLegacy"} -> datasets
  /\ shares' = CASE r.call = "deleteDataset" -> shares \ {r.vol}
                 [] r.call \in {"createShare", "createShareLegacy"} -> shares \cup {r.vol}
                 [] r.call = "createDataset" -> shares
  /\ UNCHANGED field

\* A share as it is listed; NoMountpoint stands for the empty string.
NoMountpoint == "none"
ASSUME NoMountpointAssumption == NoMountpoint \notin Volumes

Share(v) == [ path  |-> IF field = "path" THEN v ELSE NoMountpoint,
              paths |-> IF field = "path" THEN <<>> ELSE <<v>> ]

-----------------------------------------------------------------------------
(***************************************************************************)
(* The lookups.                                                            *)
(***************************************************************************)
FindDataset(v) == v \in datasets

\* Variant: the old form is not looked at.
NormaliseNewShares(share) == share.path
NormaliseNFSShareMountpaths(share) ==
  IF share.path # NoMountpoint THEN share.path
  ELSE IF share.paths # <<>> THEN share.paths[1] ELSE NoMountpoint

\* Variant: the path is not compared.
FindAnyNFSShare(v) == shares # {}
FindNFSShare(v) == \E s \in shares : NormaliseNFSShareMountpaths(Share(s)) = v

-----------------------------------------------------------------------------
Init ==
  /\ datasets = {} /\ shares = {} /\ field \in {"path", "paths"}
  /\ handler = [v \in Volumes |-> Idle]
  /\ phase = [v \in Volumes |-> "absent"]
  /\ late = {}
  /\ used = [f \in FaultKinds |-> 0]

At(v, pc)   == handler[v].rpc # "idle" /\ handler[v].pc = pc
InCall(v)   == handler[v].rpc # "idle" /\ handler[v].pc \in Calls
Request(v)  == [call |-> handler[v].pc, vol |-> v]
Goto(v, pc) == handler' = [handler EXCEPT ![v].pc = pc]

Start(v, rpc, newPhase) ==
  /\ handler[v].rpc = "idle"
  /\ handler' = [handler EXCEPT ![v] = [rpc |-> rpc, pc |-> "findDataset"]]
  /\ phase' = [phase EXCEPT ![v] = newPhase]
  /\ UNCHANGED <<nas, late, used>>

\* The provisioner: CreateVolume for a new claim, and again until it succeeds.
CreateVolume(v) == phase[v] = "absent" /\ Start(v, "create", "creating")
RetryCreateVolume(v) == phase[v] \in {"creating", "failed"} /\ Start(v, "create", "creating")

\* DeleteVolume once the claim of a bound volume is deleted, likewise.
DeleteVolume(v) == phase[v] = "bound" /\ Start(v, "delete", "deleting")
RetryDeleteVolume(v) == phase[v] = "deleting" /\ Start(v, "delete", "deleting")

\* Variants: a dataset that exists is taken for a volume that is complete,
AfterLookupComplete(rpc, found) ==
  CASE rpc = "create" -> IF found THEN "reply" ELSE "createDataset"
    [] rpc = "delete" -> IF found THEN "deleteDataset" ELSE "reply"
\* deleting what does not exist is an error,
AfterLookupStrict(rpc, found) ==
  CASE rpc = "create" -> IF found THEN "findShare" ELSE "createDataset"
    [] rpc = "delete" -> IF found THEN "deleteDataset" ELSE "error"
\* delete goes for the share of a dataset that exists.
AfterLookupShareFirst(rpc, found) ==
  CASE rpc = "create" -> IF found THEN "findShare" ELSE "createDataset"
    [] rpc = "delete" -> IF found THEN "findShare" ELSE "reply"
\* Create makes a dataset that is missing, delete deletes one that exists.
AfterLookup(rpc, found) ==
  CASE rpc = "create" -> IF found THEN "findShare" ELSE "createDataset"
    [] rpc = "delete" -> IF found THEN "deleteDataset" ELSE "reply"

LookForDataset(v) ==
  /\ At(v, "findDataset")
  /\ Goto(v, AfterLookup(handler[v].rpc, FindDataset(v)))
  /\ UNCHANGED <<nas, phase, late, used>>

LookForShare(v) ==
  /\ At(v, "findShare")
  /\ Goto(v, IF FindNFSShare(v) THEN "reply" ELSE "createShare")
  /\ UNCHANGED <<nas, phase, late, used>>

\* After a dataset is made its share is looked for; the other calls are the last.
Call(v) ==
  /\ InCall(v)
  /\ Accepted(Request(v))
  /\ Execute(Request(v))
  /\ Goto(v, IF At(v, "createDataset") THEN "findShare" ELSE "reply")
  /\ UNCHANGED <<phase, late, used>>

\* 422 makes create try the older form of the request.
AfterRefusal(pc) == IF pc = "createShare" THEN "createShareLegacy" ELSE "error"

Refused(v) ==
  /\ InCall(v)
  /\ ~Accepted(Request(v))
  /\ Goto(v, AfterRefusal(handler[v].pc))
  /\ UNCHANGED <<nas, phase, late, used>>

Finish(v, newPhase) ==
  /\ phase' = [phase EXCEPT ![v] = newPhase]
  /\ handler' = [handler EXCEPT ![v] = Idle]
  /\ UNCHANGED <<nas, late, used>>

Reply(v) == At(v, "reply") /\ Finish(v, IF handler[v].rpc = "create" THEN "bound" ELSE "gone")
ReplyError(v) == At(v, "error") /\ Finish(v, IF handler[v].rpc = "create" THEN "failed" ELSE "deleting")

-----------------------------------------------------------------------------
(***************************************************************************)
(* Faults, as many as MaxFaults and MaxTotal allow.                        *)
(***************************************************************************)
Fault(f) ==
  /\ used[f] < MaxFaults[f]
  /\ used.reject + used.lost + used.abandon + used.late + used.upgrade < MaxTotal
  /\ used' = [used EXCEPT ![f] = @ + 1]

\* A lookup or a call fails without effect, other than with 422.
RejectCall(v) ==
  /\ InCall(v) \/ At(v, "findDataset") \/ At(v, "findShare")
  /\ Fault("reject")
  /\ Goto(v, "error")
  /\ UNCHANGED <<nas, phase, late>>

\* A call takes effect, but the handler gets an error (a broken connection).
LoseReply(v) ==
  /\ InCall(v)
  /\ Accepted(Request(v))
  /\ Fault("lost")
  /\ Execute(Request(v))
  /\ Goto(v, "error")
  /\ UNCHANGED <<phase, late>>

\* The plugin dies, or the sidecar's timeout cancels the handler's context.
Abandon(v) ==
  /\ handler[v].rpc # "idle"
  /\ Fault("abandon")
  /\ handler' = [handler EXCEPT ![v] = Idle]
  /\ \/ UNCHANGED nas
     \/ InCall(v) /\ Accepted(Request(v)) /\ Execute(Request(v))
  /\ UNCHANGED <<phase, late>>

\* As Abandon, with a call in flight that takes effect at some later time, if ever.
AbandonLate(v) ==
  /\ InCall(v)
  /\ Fault("late")
  /\ handler' = [handler EXCEPT ![v] = Idle]
  /\ late' = late \cup {Request(v)}
  /\ UNCHANGED <<nas, phase>>

Deliver(r) ==
  /\ late' = late \ {r}
  /\ IF Accepted(r) THEN Execute(r) ELSE UNCHANGED nas
  /\ UNCHANGED <<handler, phase, used>>

\* The appliance is upgraded across the change of its API while the plugin runs.
Upgrade ==
  /\ field = "paths"
  /\ Fault("upgrade")
  /\ field' = "path"
  /\ UNCHANGED <<datasets, shares, handler, phase, late>>

-----------------------------------------------------------------------------
Handle(v) ==
  \/ LookForDataset(v) \/ LookForShare(v)
  \/ Call(v) \/ Refused(v)
  \/ Reply(v) \/ ReplyError(v)

Provision(v) ==
  \/ CreateVolume(v) \/ RetryCreateVolume(v)
  \/ DeleteVolume(v) \/ RetryDeleteVolume(v)

Disturb(v) == RejectCall(v) \/ LoseReply(v) \/ Abandon(v) \/ AbandonLate(v)

Next ==
  \/ \E v \in Volumes : Provision(v) \/ Handle(v) \/ Disturb(v)
  \/ \E r \in late : Deliver(r)
  \/ Upgrade

Spec == Init /\ [][Next]_vars

\* TrueNAS answers or the sidecar's timeout ends the RPC, and the provisioner's
\* retries do not stop.
FairTo(v) ==
  /\ WF_vars(Handle(v))
  /\ WF_vars(RetryCreateVolume(v))
  /\ WF_vars(RetryDeleteVolume(v))
Fairness == \A v \in Volumes : FairTo(v)

FairSpec == Spec /\ Fairness

\* No fault happens any more, and no late request arrives.
FaultsEnd == <>[][UNCHANGED <<used, late>>]_vars

-----------------------------------------------------------------------------
(***************************************************************************)
(* Properties.                                                             *)
(***************************************************************************)
TypeOK ==
  /\ datasets \subseteq Volumes /\ shares \subseteq datasets
  /\ field \in {"path", "paths"}
  /\ handler \in [Volumes -> HandlerType]
  /\ phase \in [Volumes -> Phases]
  /\ late \subseteq RequestType
  /\ used \in [FaultKinds -> Nat]

(***************************************************************************)
(* The volume that CreateVolume answers with has its dataset, and a share  *)
(* whose path is the mountpoint in the answer, until DeleteVolume begins   *)
(* (nfs.go:163-175); late requests of earlier attempts and an upgrade of   *)
(* the appliance do not change that.                                       *)
(***************************************************************************)
BoundIsShared == \A v \in Volumes : phase[v] = "bound" => v \in datasets /\ v \in shares

(***************************************************************************)
(* Until a request is left behind to be executed late, the handlers        *)
(* implement the lifecycle that the provisioner counts on: a volume is     *)
(* built in CreateVolume only, is whole from its success until             *)
(* DeleteVolume, only shrinks from then on and is gone at the end          *)
(* (nfs.go:68-204).                                                        *)
(***************************************************************************)
Backing(v) ==
  CASE v \in shares   -> "whole"
    [] v \in datasets \ shares -> "partial"
    [] v \notin datasets -> "none"

Lifecycle == INSTANCE VolumeLifecycle WITH backing <- [v \in Volumes |-> Backing(v)]
ImplementsLifecycle ==
  Lifecycle!Init /\ [][used'["late"] = 0 => Lifecycle!Next]_<<phase, [v \in Volumes |-> Backing(v)]>>

(***************************************************************************)
(* Until a request is late, TrueNAS refuses nothing but a share in the     *)
(* form that it does not take: what a handler looked up is still so when   *)
(* it calls, and what an attempt made without hearing of it is found by    *)
(* the next one, in whichever form the appliance lists it, also when an    *)
(* upgrade came between.  A share that was not found could never be made   *)
(* (nfs.go:122-161).                                                       *)
(***************************************************************************)
OtherForm(v) == At(v, IF field = "path" THEN "createShareLegacy" ELSE "createShare")
RefusedForItsForm ==
  used["late"] = 0 => \A v \in Volumes : InCall(v) /\ ~Accepted(Request(v)) => OtherForm(v)

(***************************************************************************)
(* When faults stop, a volume that is being created gets bound and one     *)
(* that is being deleted goes, with either form of the shares API and when *)
(* it changes in the middle of an attempt: the fallback and the lookup of  *)
(* both forms complete what an earlier attempt left (nfs.go:122-161).      *)
(***************************************************************************)
GetsBound(v) == phase[v] \in {"creating", "failed"} ~> phase[v] = "bound"
GetsGone(v)  == phase[v] = "deleting" ~> phase[v] = "gone"
CreateConverges == \A v \in Volumes : GetsBound(v)
DeleteConverges == \A v \in Volumes : GetsGone(v)
Converges == CreateConverges /\ DeleteConverges
=============================================================================
