--------------------------- MODULE IscsiListVolumes ---------------------------
(***************************************************************************)
(* iscsiListVolumes (pkg/driver/iscsi.go) beside the handlers of           *)
(* IscsiController: four lists, of datasets, extents, mappings and targets,*)
(* read one after the other while volumes come and go, and joined in maps  *)
(* from the key of each list to the dataset.                               *)
(*                                                                         *)
(* An operator whose comment begins with "Variant" is a plausible mistake  *)
(* in the operator that follows; it is not part of the specification.      *)
(***************************************************************************)
EXTENDS IscsiController

VARIABLE list       \* the call of ListVolumes

listVars == <<nas, handler, phase, late, used, list>>

(***************************************************************************)
(* `next' is the list that is read next.  `map' is datasetMap, extentMap   *)
(* or extentTargetMap, whichever the next read needs.  `bound' and         *)
(* `served' are only there for the properties: the volumes that were bound *)
(* when the call began, and served when the mappings were read.            *)
(***************************************************************************)
NotListing == [next |-> "datasets", map |-> << >>, bound |-> {}, served |-> {}]

ListInit == Init /\ list = NotListing

Reading(kind) == list.next = kind /\ UNCHANGED vars

\* The zvol's path, which an extent names, to the dataset.
DatasetMap(datasets) == [v \in datasets |-> v]

ReadDatasets ==
  /\ Reading("datasets")
  /\ list' = [list EXCEPT !.next = "extents", !.map = DatasetMap(nas.datasets),
                          !.bound = {v \in Volumes : phase[v] = "bound"}]

\* Keys are the ids of the extents whose path is a key of the map.
ExtentMap(extents, map) ==
  [id \in {e.id : e \in {e \in extents : e.vol \in DOMAIN map}} |->
     map[(CHOOSE e \in extents : e.id = id).vol]]

ReadExtents ==
  /\ Reading("extents")
  /\ list' = [list EXCEPT !.next = "mappings", !.map = ExtentMap(nas.extents, @)]

\* Keys are the targets; of two mappings of one target the last one listed counts.
ExtentTargetMaps(mappings, map) ==
  LET found == {m \in mappings : m.extent \in DOMAIN map}
  IN {f \in [{m.target : m \in found} -> {map[m.extent] : m \in found}] :
        \A id \in DOMAIN f : \E m \in found : m.target = id /\ f[id] = map[m.extent]}

ReadMappings ==
  /\ Reading("mappings")
  /\ \E f \in ExtentTargetMaps(nas.mappings, list.map) :
       list' = [list EXCEPT !.next = "targets", !.map = f, !.served = {v \in Volumes : Served(v)}]

\* Variant: a target is looked up by its name, which is the dataset's.
EntriesByName(targets, map) == {[volume |-> t.vol, dataset |-> t.vol] : t \in targets}
\* An entry has a target's name and the dataset that its size is taken from.
Entries(targets, map) ==
  {[volume |-> t.vol, dataset |-> map[t.id]] : t \in {t \in targets : t.id \in DOMAIN map}}

Answer == Entries(nas.targets, list.map)

\* The last read; the call answers with Answer.
ReadTargets == Reading("targets") /\ list' = NotListing

\* Any read fails, or the request asked for pages (controller.go:91).
ListFails ==
  /\ list.next # "datasets"
  /\ list' = NotListing
  /\ UNCHANGED vars

ListVolumes ==
  \/ ReadDatasets \/ ReadExtents \/ ReadMappings \/ ReadTargets
  \/ ListFails

ListNext ==
  \/ ListVolumes
  \/ Next /\ UNCHANGED list

ListSpec == ListInit /\ [][ListNext]_listVars

-----------------------------------------------------------------------------
(***************************************************************************)
(* Properties.                                                             *)
(***************************************************************************)

(***************************************************************************)
(* Every listed volume was whole at one moment of the call, although its   *)
(* dataset, extent, mapping and target were read at four, and it is listed *)
(* with the size of its own dataset: no entry is put together from pieces  *)
(* of different times or volumes, whatever is half built, half rolled back *)
(* or half deleted (iscsi.go:493-572).                                     *)
(***************************************************************************)
ListedWasServed ==
  [][ReadTargets =>
       \A entry \in Answer : entry.volume \in list.served /\ entry.dataset = entry.volume]_listVars

(***************************************************************************)
(* A volume that was bound when the call began and still is when it        *)
(* answers is listed, whatever other handlers do in between, until a       *)
(* request is left behind to be executed late (iscsi.go:493-572).          *)
(***************************************************************************)
SteadyIsListed ==
  [][ReadTargets /\ used.late = 0 =>
       \A v \in list.bound : phase[v] = "bound" => \E entry \in Answer : entry.volume = v]_listVars
=============================================================================
