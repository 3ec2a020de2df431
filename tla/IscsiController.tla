--------------------------- MODULE IscsiController ---------------------------
(***************************************************************************)
(* iscsiCreateVolume and iscsiDeleteVolume (pkg/driver/iscsi.go) as chains *)
(* of REST calls against TrueNasIscsi, one call per step, with handlers of *)
(* different volumes interleaved.  The caller is Kubernetes' external      *)
(* provisioner: it has at most one CreateVolume or DeleteVolume of a       *)
(* volume outstanding, retries a failed one, and cancels one that exceeds  *)
(* the sidecar's timeout, which cancels the handler's context.             *)
(*                                                                         *)
(* An operator whose comment begins with "Variant" is not part of the      *)
(* specification: it is a plausible mistake in the operator that follows,  *)
(* with which some property below must fail (PROJECT.json, "mutants").     *)
(***************************************************************************)
EXTENDS TrueNasIscsi, Sequences

FaultKinds == {"reject", "lost", "abandon", "late"}

CONSTANTS
  Prefixes,     \* <<v, w>> when the id v is a prefix of the id w
  MaxFaults,    \* how many faults of each kind a behaviour may have
  MaxTotal      \* and altogether

ASSUME PrefixesAssumption ==
  /\ Prefixes \subseteq Volumes \X Volumes
  /\ \A v \in Volumes : <<v, v>> \in Prefixes

ASSUME MaxFaultsAssumption == MaxFaults \in [FaultKinds -> Nat]
ASSUME MaxTotalAssumption == MaxTotal \in Nat

\* No volume id is a prefix of another one, as with the provisioner's pvc-<uuid>.
PrefixFree == \A p \in Prefixes : p[1] = p[2]

VARIABLES
  handler,      \* the handler of each volume's outstanding RPC
  phase,        \* what the provisioner knows of each volume
  late,         \* requests of abandoned handlers that TrueNAS has yet to execute
  used          \* the faults so far

vars == <<nas, handler, phase, late, used>>

Phases == {"absent", "creating", "failed", "bound", "deleting", "gone"}

(***************************************************************************)
(* The order in which a handler goes through the kinds of objects.  A      *)
(* rollback undoes the kinds before the one that failed, in creation order.*)
(***************************************************************************)
\* Variant: the target is not mapped.
CreateWithoutMapping == <<"dataset", "extent", "initiator", "target">>
CreateOrder == <<"dataset", "extent", "initiator", "target", "mapping">>

\* Variant: the dataset before the target.
DeleteDatasetFirst == <<"dataset", "target", "initiator">>
\* Variant: the initiator is believed to go with the dataset.
DeleteWithoutInitiator == <<"target", "dataset">>
DeleteOrder == <<"target", "dataset", "initiator">>

Order(rpc) == IF rpc = "delete" THEN DeleteOrder ELSE CreateOrder

(***************************************************************************)
(* A handler is about to `verb' an object of the kind Order(rpc)[step], or *)
(* to answer with "reply" (success) or "error".  `until' is the step that  *)
(* a rollback stops before, `ids' are the handler's variables extentID,    *)
(* initatorID and targetID.                                                *)
(***************************************************************************)
IdsType == [extent : Int, initiator : Int, target : Int]

HandlerType ==
  [ rpc   : {"idle", "create", "rollback", "delete"},
    verb  : {"none", "find", "create", "delete", "reply", "error"},
    step  : Nat \ {0},
    until : Nat,
    ids   : IdsType ]

RequestType ==
  [ verb : {"create", "delete"},
    kind : {"dataset", "extent", "initiator", "target", "mapping"},
    vol  : Volumes,
    ids  : IdsType ]

Idle ==
  [ rpc |-> "idle", verb |-> "none", step |-> 1, until |-> 0,
    ids |-> [extent |-> NoId, initiator |-> NoId, target |-> NoId] ]

Kind(h)    == Order(h.rpc)[h.step]
Request(v) == [verb |-> handler[v].verb, kind |-> Kind(handler[v]), vol |-> v, ids |-> handler[v].ids]
InCall(v)  == handler[v].verb \in {"create", "delete"}

-----------------------------------------------------------------------------
(***************************************************************************)
(* The lookups: list every object of a kind and take one that matches.     *)
(* Each yields the ids the lookup may return (TrueNAS chooses the order of *)
(* its list), NoId for an object that is addressed by name.                *)
(***************************************************************************)

\* Variant: the name is compared without the parent path, so nothing matches.
FindDatasetNever(v) == {}
FindDataset(v) == {NoId : d \in {d \in nas.datasets : d = v}}

FindISCSIExtent(v) == {e.id : e \in {e \in nas.extents : e.vol = v}}

FindISCSIInitiator(v) == {i.id : i \in {i \in nas.initiators : <<v, i.vol>> \in Prefixes}}

\* Variant: the name is not compared.
FindAnyISCSITarget(v) == {t.id : t \in nas.targets}
FindISCSITarget(v) == {t.id : t \in {t \in nas.targets : t.vol = v}}

FindISCSITargetExtent(ids) ==
  {NoId : m \in {m \in nas.mappings : m.target = ids.target /\ m.extent = ids.extent}}

Hits(v) ==
  LET h == handler[v]
  IN CASE Kind(h) = "dataset"   -> FindDataset(v)
       [] Kind(h) = "extent"    -> FindISCSIExtent(v)
       [] Kind(h) = "initiator" -> FindISCSIInitiator(v)
       [] Kind(h) = "target"    -> FindISCSITarget(v)
       [] Kind(h) = "mapping"   -> FindISCSITargetExtent(h.ids)

-----------------------------------------------------------------------------
(***************************************************************************)
(* How a handler goes on after a call.                                     *)
(***************************************************************************)

\* h knows the id of the object of its current kind.
Holding(h, id) ==
  CASE Kind(h) = "extent"    -> [h EXCEPT !.ids.extent = id]
    [] Kind(h) = "initiator" -> [h EXCEPT !.ids.initiator = id]
    [] Kind(h) = "target"    -> [h EXCEPT !.ids.target = id]
    [] Kind(h) \in {"dataset", "mapping"} -> h

\* Variant: there is always another kind.
NextKindEndless(h) == [h EXCEPT !.verb = "find", !.step = @ + 1]
\* h is done with its current kind.
NextKind(h) ==
  IF h.step = Len(Order(h.rpc)) THEN [h EXCEPT !.verb = "reply"]
                                ELSE [h EXCEPT !.verb = "find", !.step = @ + 1]

\* h's next cleanup function is the one of this step.
Cleanup(h, step) ==
  IF step = h.until THEN [h EXCEPT !.verb = "error"]
                    ELSE [h EXCEPT !.verb = "delete", !.step = step]

\* Variant: the cleanup closure starts behind the dataset.
RollbackAfterDataset(h) == Cleanup([h EXCEPT !.rpc = "rollback", !.until = h.step],
                                   IF h.step = 1 THEN 1 ELSE 2)
\* cleanupFunc: every kind before the one that failed.
Rollback(h) == Cleanup([h EXCEPT !.rpc = "rollback", !.until = h.step], 1)

\* Variant: a cleanup function that fails is run again.
FailedAgain(h) ==
  CASE h.rpc = "create"   -> Rollback(h)
    [] h.rpc = "rollback" -> h
    [] h.rpc = "delete"   -> [h EXCEPT !.verb = "error"]
\* h's call returned an error.  A cleanup function only logs it.
Failed(h) ==
  CASE h.rpc = "create"   -> Rollback(h)
    [] h.rpc = "rollback" -> Cleanup(h, h.step + 1)
    [] h.rpc = "delete"   -> [h EXCEPT !.verb = "error"]

\* h's call to create or delete succeeded; a created object has this id.
Succeeded(h, id) ==
  CASE h.rpc = "create"   -> NextKind(Holding(h, id))
    [] h.rpc = "rollback" -> Cleanup(h, h.step + 1)
    [] h.rpc = "delete"   -> NextKind(h)

-----------------------------------------------------------------------------
Init ==
  /\ nas = EmptyNas
  /\ handler = [v \in Volumes |-> Idle]
  /\ phase = [v \in Volumes |-> "absent"]
  /\ late = {}
  /\ used = [f \in FaultKinds |-> 0]

Continue(v, h) == handler' = [handler EXCEPT ![v] = h]

\* CreateVolume first reads the global configuration and the portal; an error there
\* is answered like one of the first lookup, when nothing is there to undo.
Start(v, rpc, newPhase) ==
  /\ handler[v].rpc = "idle"
  /\ phase' = [phase EXCEPT ![v] = newPhase]
  /\ Continue(v, [Idle EXCEPT !.rpc = rpc, !.verb = "find"])
  /\ UNCHANGED <<nas, late, used>>

\* The provisioner: CreateVolume for a new claim, and again until it succeeds.
CreateVolume(v) == phase[v] = "absent" /\ Start(v, "create", "creating")
RetryCreateVolume(v) == phase[v] \in {"creating", "failed"} /\ Start(v, "create", "creating")

\* DeleteVolume once the claim of a bound volume is deleted, likewise.
DeleteVolume(v) == phase[v] = "bound" /\ Start(v, "delete", "deleting")
RetryDeleteVolume(v) == phase[v] = "deleting" /\ Start(v, "delete", "deleting")

\* A lookup finds the object: create goes on to the next kind, delete deletes it.
LookupHit(v) ==
  /\ handler[v].verb = "find"
  /\ \E id \in Hits(v) :
       LET h == Holding(handler[v], id)
       IN Continue(v, IF h.rpc = "create" THEN NextKind(h) ELSE [h EXCEPT !.verb = "delete"])
  /\ UNCHANGED <<nas, phase, late, used>>

\* A lookup finds nothing: create creates it, delete goes on to the next kind.
LookupMiss(v) ==
  /\ handler[v].verb = "find"
  /\ Hits(v) = {}
  /\ LET h == handler[v]
     IN Continue(v, IF h.rpc = "create" THEN [h EXCEPT !.verb = "create"] ELSE NextKind(h))
  /\ UNCHANGED <<nas, phase, late, used>>

\* TrueNAS executes the handler's create or delete call and says so.
Call(v) ==
  /\ InCall(v)
  /\ Accepted(Request(v))
  /\ nas' = After(Request(v))
  /\ Continue(v, Succeeded(handler[v], nas.nextId))
  /\ UNCHANGED <<phase, late, used>>

\* TrueNAS cannot execute it: no such object, a name already taken, device busy.
Refused(v) ==
  /\ InCall(v)
  /\ ~Accepted(Request(v))
  /\ Continue(v, Failed(handler[v]))
  /\ UNCHANGED <<nas, phase, late, used>>

\* The handler's answer reaches the provisioner.
Reply(v) ==
  /\ handler[v].verb = "reply"
  /\ phase' = [phase EXCEPT ![v] = IF handler[v].rpc = "create" THEN "bound" ELSE "gone"]
  /\ Continue(v, Idle)
  /\ UNCHANGED <<nas, late, used>>

\* After an error the provisioner believes that there is no volume, or still one.
ReplyError(v) ==
  /\ handler[v].verb = "error"
  /\ phase' = [phase EXCEPT ![v] = IF handler[v].rpc = "delete" THEN "deleting" ELSE "failed"]
  /\ Continue(v, Idle)
  /\ UNCHANGED <<nas, late, used>>

-----------------------------------------------------------------------------
(***************************************************************************)
(* Faults, as many as MaxFaults and MaxTotal allow.                        *)
(***************************************************************************)
Fault(f) ==
  /\ used[f] < MaxFaults[f]
  /\ used.reject + used.lost + used.abandon + used.late < MaxTotal
  /\ used' = [used EXCEPT ![f] = @ + 1]

\* A lookup or a call fails without effect.
RejectCall(v) ==
  /\ handler[v].verb \in {"find", "create", "delete"}
  /\ Fault("reject")
  /\ Continue(v, Failed(handler[v]))
  /\ UNCHANGED <<nas, phase, late>>

\* A call takes effect, but the handler gets an error (a broken connection).
LoseReply(v) ==
  /\ InCall(v)
  /\ Accepted(Request(v))
  /\ Fault("lost")
  /\ nas' = After(Request(v))
  /\ Continue(v, Failed(handler[v]))
  /\ UNCHANGED <<phase, late>>

\* The plugin dies, or the context is cancelled: the cleanup calls use the same
\* context and fail at once.  A call in flight may or may not have taken effect.
Abandon(v) ==
  /\ handler[v].rpc # "idle"
  /\ Fault("abandon")
  /\ Continue(v, Idle)
  /\ nas' \in {nas} \cup {After(r) : r \in {r \in {Request(v)} : InCall(v) /\ Accepted(r)}}
  /\ UNCHANGED <<phase, late>>

\* As Abandon, with a call in flight that takes effect at some later time, if ever.
AbandonLate(v) ==
  /\ InCall(v)
  /\ Fault("late")
  /\ Continue(v, Idle)
  /\ late' = late \cup {Request(v)}
  /\ UNCHANGED <<nas, phase>>

Deliver(r) ==
  /\ late' = late \ {r}
  /\ nas' = IF Accepted(r) THEN After(r) ELSE nas
  /\ UNCHANGED <<handler, phase, used>>

-----------------------------------------------------------------------------
Handle(v) ==
  \/ LookupHit(v) \/ LookupMiss(v)
  \/ Call(v) \/ Refused(v)
  \/ Reply(v) \/ ReplyError(v)

Provision(v) ==
  \/ CreateVolume(v) \/ RetryCreateVolume(v)
  \/ DeleteVolume(v) \/ RetryDeleteVolume(v)

Disturb(v) == RejectCall(v) \/ LoseReply(v) \/ Abandon(v) \/ AbandonLate(v)

Next ==
  \/ \E v \in Volumes : Provision(v) \/ Handle(v) \/ Disturb(v)
  \/ \E r \in late : Deliver(r)

Spec == Init /\ [][Next]_vars

\* TrueNAS answers or the sidecar's timeout ends the RPC, and the provisioner's
\* retries do not stop.
FairTo(v) ==
  /\ WF_vars(Handle(v))
  /\ WF_vars(RetryCreateVolume(v))
  /\ WF_vars(RetryDeleteVolume(v))
Fairness == \A v \in Volumes : FairTo(v)

FairSpec == Spec /\ Fairness

\* No fault happens any more, and no late request arrives.
FaultsEnd == <>[][UNCHANGED <<used, late>>]_vars

-----------------------------------------------------------------------------
(***************************************************************************)
(* Properties.                                                             *)
(***************************************************************************)
TypeOK ==
  /\ nas \in NasType
  /\ handler \in [Volumes -> HandlerType]
  /\ \A v \in Volumes : handler[v].step <= Len(Order(handler[v].rpc))
  /\ phase \in [Volumes -> Phases]
  /\ late \subseteq RequestType
  /\ used \in [FaultKinds -> Nat]

\* The objects on TrueNAS that belong to v.
OwnExtents(v)    == {e \in nas.extents : e.vol = v}
OwnInitiators(v) == {i \in nas.initiators : i.vol = v}
OwnTargets(v)    == {t \in nas.targets : t.vol = v}
OwnMappings(v)   ==
  {m \in nas.mappings : \/ m.target \in {t.id : t \in OwnTargets(v)}
                        \/ m.extent \in {e.id : e \in OwnExtents(v)}}
Objects(v) ==
  << v \in nas.datasets, OwnExtents(v), OwnInitiators(v), OwnTargets(v), OwnMappings(v) >>

Nothing == << FALSE, {}, {}, {}, {} >>

Served(v) ==
  /\ v \in nas.datasets
  /\ \E t \in nas.targets, e \in nas.extents :
       /\ t.vol = v /\ e.vol = v
       /\ [target |-> t.id, extent |-> e.id, lun |-> 0] \in nas.mappings

(***************************************************************************)
(* The volume that CreateVolume answers with is backed by a dataset, an    *)
(* extent and a target that serves the extent as LUN 0, until DeleteVolume *)
(* begins, whatever the earlier attempts left behind or undid              *)
(* (iscsi.go:332-346), until a request is left behind to be executed late: *)
(* that can break it, see the README.                                      *)
(***************************************************************************)
BoundIsServed == used.late = 0 => \A v \in Volumes : phase[v] = "bound" => Served(v)

(***************************************************************************)
(* When DeleteVolume has succeeded TrueNAS has nothing left of the volume, *)
(* however many attempts made or deleted it (iscsi.go:351-411 deletes one  *)
(* target, one dataset and one initiator and counts on the rest going with *)
(* them), again until a request is late.                                   *)
(***************************************************************************)
GoneLeavesNothing ==
  used.late = 0 => \A v \in Volumes : phase[v] = "gone" => Objects(v) = Nothing

(***************************************************************************)
(* A CreateVolume that fails because one call was rejected has undone all  *)
(* it did before that call (the cleanup functions, iscsi.go:148-301).      *)
(***************************************************************************)
RollbackLeavesNothing ==
  (used.reject <= 1 /\ used.lost + used.abandon + used.late = 0)
    => \A v \in Volumes : phase[v] = "failed" => Objects(v) = Nothing

(***************************************************************************)
(* Every mapping of a target is its only one, so the LUN that the volume   *)
(* context hardwires to 0 (iscsi.go:342) is the one TrueNAS assigns, even  *)
(* after retries, rollbacks and late requests.                             *)
(***************************************************************************)
LunIsZero ==
  /\ \A m \in nas.mappings : m.lun = 0
  /\ \A m, n \in nas.mappings : m.target = n.target => m = n

(***************************************************************************)
(* Until a request is late, the handlers implement the lifecycle that the  *)
(* provisioner counts on: a volume is built in CreateVolume only, is whole *)
(* from its success until DeleteVolume, only shrinks from then on and is   *)
(* gone at the end (iscsi.go:65-411).                                      *)
(***************************************************************************)
Backing(v) ==
  CASE Objects(v) = Nothing -> "none"
    [] Served(v)            -> "whole"
    [] Objects(v) # Nothing /\ ~Served(v) -> "partial"

Lifecycle == INSTANCE VolumeLifecycle WITH backing <- [v \in Volumes |-> Backing(v)]
ImplementsLifecycle ==
  /\ Lifecycle!Init
  /\ [][used'["late"] = 0 => Lifecycle!Next]_<<phase, [v \in Volumes |-> Backing(v)]>>

(***************************************************************************)
(* "Should be done by now" (iscsi.go:332): when CreateVolume answers, the  *)
(* target it made or found serves the volume to the initiator group it     *)
(* made or found.  It fails when a rollback misses the target, see the     *)
(* README.                                                                 *)
(***************************************************************************)
TargetHasInitiator(v) ==
  \A t \in OwnTargets(v) : t.initiator \in {i.id : i \in OwnInitiators(v)}

DoneByNow ==
  \A v \in Volumes :
    handler[v].rpc = "create" /\ handler[v].verb = "reply"
      => Served(v) /\ TargetHasInitiator(v)

(***************************************************************************)
(* DoneByNow holds when handlers are abandoned at any point, the only way  *)
(* a CreateVolume ends without a rollback (iscsi.go:118-330).              *)
(***************************************************************************)
DoneAfterAbandons == used.reject + used.lost + used.late = 0 => DoneByNow

(***************************************************************************)
(* TrueNAS has no reason to refuse a call of CreateVolume or DeleteVolume, *)
(* whatever earlier attempts left and other handlers do between the lookup *)
(* and the call: create makes only what is missing, with ids of objects    *)
(* that are there, and delete takes the target before the dataset, whose   *)
(* zvol it would keep busy (iscsi.go:357, 118-408).  Only the cleanup      *)
(* functions ask for what may be gone, and only until a request is late.   *)
(***************************************************************************)
NeverRefused ==
  used.late = 0 =>
    \A v \in Volumes : handler[v].rpc \in {"create", "delete"} /\ InCall(v) => Accepted(Request(v))

(***************************************************************************)
(* A handler, whichever objects its lookups and its cleanup pick, changes  *)
(* the objects of its own volume only.  Nothing in the REST API guards     *)
(* this: ids are kept across calls, and the lookups match by name, path    *)
(* and, for initiators, the prefix of a comment (iscsi.go:211-213, 392).   *)
(***************************************************************************)
OwnObjectsOnly ==
  [][\A v \in Volumes :
       \/ Objects(v)' = Objects(v)
       \/ handler'[v] # handler[v]
       \/ \E r \in late \ late' : r.vol = v]_vars

(***************************************************************************)
(* An RPC never hangs: whatever the other handlers, earlier attempts and   *)
(* late requests made of TrueNAS, every handler has a next step, the       *)
(* cleanup functions of a rollback included, and a volume without one that *)
(* the provisioner is not through with can be retried (iscsi.go:65-411).   *)
(***************************************************************************)
GoesOn(v) ==
  /\ handler[v].rpc # "idle" => ENABLED <<Handle(v)>>_vars
  /\ handler[v].rpc = "idle" /\ phase[v] \in {"creating", "failed"} => ENABLED <<RetryCreateVolume(v)>>_vars
  /\ handler[v].rpc = "idle" /\ phase[v] = "deleting" => ENABLED <<RetryDeleteVolume(v)>>_vars
NeverHangs == \A v \in Volumes : GoesOn(v)

(***************************************************************************)
(* When faults stop, a volume that is being created gets bound and one     *)
(* that is being deleted goes, from whatever state the failed attempts and *)
(* their rollbacks left: no leftover makes a retry fail for ever (an       *)
(* object that is not found but whose name is taken, a busy device).       *)
(***************************************************************************)
GetsBound(v) == phase[v] \in {"creating", "failed"} ~> phase[v] = "bound"
GetsGone(v)  == phase[v] = "deleting" ~> phase[v] = "gone"
CreateConverges == \A v \in Volumes : GetsBound(v)
DeleteConverges == \A v \in Volumes : GetsGone(v)
Converges == CreateConverges /\ DeleteConverges
=============================================================================
