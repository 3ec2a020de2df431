---------------------------- MODULE TrueNasIscsi ----------------------------
(***************************************************************************)
(* The part of the TrueNAS appliance that the iSCSI controller drives over *)
(* its REST API: zvol datasets, extents, initiator groups, targets and     *)
(* target-extent mappings.  TrueNAS is not in the repository; what is here *)
(* is what pkg/driver/iscsi.go relies on:                                  *)
(*   - a dataset, an extent and a target are found by name or path, so     *)
(*     there is one of each per volume; an initiator group has only a      *)
(*     comment, so nothing makes it unique;                                *)
(*   - deleting a target deletes its mappings (truenas-iscsi-test, "Delete *)
(*     iSCSI Target (deletes extent mapping)");                            *)
(*   - deleting a dataset deletes its extent ("Deleting the dataset leaves *)
(*     only the initiator", iscsi.go:392) and is refused with "device      *)
(*     busy" while a target serves the extent (iscsi.go:357);              *)
(*   - extents are deleted with force, so that goes through while mapped.  *)
(***************************************************************************)
EXTENDS Integers

CONSTANT Volumes        \* CSI volume ids ("iscsi-" + the requested name)

VARIABLE nas            \* the objects stored on the appliance

NoId == -1              \* extentID, initatorID, targetID before they are known

(***************************************************************************)
(* An object carries the volume whose name (path, comment) it was created  *)
(* with.  Object ids are never reused.  lun 0 is the first mapping of a    *)
(* target, 1 stands for every later one.                                   *)
(***************************************************************************)
NasType ==
  [ datasets   : SUBSET Volumes,
    extents    : SUBSET [id : Nat, vol : Volumes],
    initiators : SUBSET [id : Nat, vol : Volumes],
    targets    : SUBSET [id : Nat, vol : Volumes, initiator : Int],
    mappings   : SUBSET [target : Int, extent : Int, lun : {0, 1}],
    nextId     : Nat ]

EmptyNas ==
  [ datasets |-> {}, extents |-> {}, initiators |-> {},
    targets |-> {}, mappings |-> {}, nextId |-> 0 ]

HasId(objects, id) == \E o \in objects : o.id = id

\* The extent of v is served by some target, so its zvol is held open.
Mapped(v) ==
  \E e \in nas.extents, m \in nas.mappings : e.vol = v /\ m.extent = e.id

(***************************************************************************)
(* A request names the object's kind, the volume whose name it uses and    *)
(* the ids the caller holds.                                               *)
(***************************************************************************)
CreateAccepted(r) ==
  CASE r.kind = "dataset"   -> r.vol \notin nas.datasets
    [] r.kind = "extent"    -> /\ r.vol \in nas.datasets
                               /\ \A e \in nas.extents : e.vol # r.vol
    [] r.kind = "initiator" -> TRUE
    [] r.kind = "target"    -> /\ HasId(nas.initiators, r.ids.initiator)
                               /\ \A t \in nas.targets : t.vol # r.vol
    [] r.kind = "mapping"   -> /\ HasId(nas.targets, r.ids.target)
                               /\ HasId(nas.extents, r.ids.extent)
                               /\ \A m \in nas.mappings :
                                    <<m.target, m.extent>> # <<r.ids.target, r.ids.extent>>

AfterCreate(r) ==
  CASE r.kind = "dataset"   -> [nas EXCEPT !.datasets = @ \cup {r.vol}]
    [] r.kind = "extent"    -> [nas EXCEPT !.extents = @ \cup {[id |-> nas.nextId, vol |-> r.vol]},
                                           !.nextId = @ + 1]
    [] r.kind = "initiator" -> [nas EXCEPT !.initiators = @ \cup {[id |-> nas.nextId, vol |-> r.vol]},
                                           !.nextId = @ + 1]
    [] r.kind = "target"    -> [nas EXCEPT !.targets = @ \cup {[id |-> nas.nextId, vol |-> r.vol,
                                                                initiator |-> r.ids.initiator]},
                                           !.nextId = @ + 1]
    [] r.kind = "mapping"   ->
         [nas EXCEPT !.mappings = @ \cup
            {[target |-> r.ids.target, extent |-> r.ids.extent,
              lun |-> IF \E m \in nas.mappings : m.target = r.ids.target THEN 1 ELSE 0]}]

DeleteAccepted(r) ==
  CASE r.kind = "dataset"   -> r.vol \in nas.datasets /\ ~Mapped(r.vol)
    [] r.kind = "extent"    -> HasId(nas.extents, r.ids.extent)
    [] r.kind = "initiator" -> HasId(nas.initiators, r.ids.initiator)
    [] r.kind = "target"    -> HasId(nas.targets, r.ids.target)

AfterDelete(r) ==
  CASE r.kind = "dataset"   -> [nas EXCEPT !.datasets = @ \ {r.vol},
                                           !.extents = {e \in @ : e.vol # r.vol}]
    [] r.kind = "extent"    -> [nas EXCEPT !.extents = {e \in @ : e.id # r.ids.extent},
                                           !.mappings = {m \in @ : m.extent # r.ids.extent}]
    [] r.kind = "initiator" -> [nas EXCEPT !.initiators = {i \in @ : i.id # r.ids.initiator}]
    [] r.kind = "target"    -> [nas EXCEPT !.targets = {t \in @ : t.id # r.ids.target},
                                           !.mappings = {m \in @ : m.target # r.ids.target}]

Accepted(r) == IF r.verb = "create" THEN CreateAccepted(r) ELSE DeleteAccepted(r)
After(r)    == IF r.verb = "create" THEN AfterCreate(r) ELSE AfterDelete(r)
=============================================================================
