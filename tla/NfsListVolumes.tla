---------------------------- MODULE NfsListVolumes ----------------------------
(***************************************************************************)
(* nfsListVolumes (pkg/driver/nfs.go) beside the handlers of NfsController:*)
(* the list of datasets and the list of shares, read one after the other   *)
(* and joined by mountpoint, in whichever form the shares come.            *)
(*                                                                         *)
(* An operator whose comment begins with "Variant" is a plausible mistake  *)
(* in the operator that follows; it is not part of the specification.      *)
(***************************************************************************)
EXTENDS NfsController

VARIABLE list       \* the call of ListVolumes

listVars == <<datasets, shares, field, handler, phase, late, used, list>>

\* `found' is the domain of mountpointDataset.  `bound' is only there for the
\* properties: the volumes that were bound when the call began.
NotListing == [next |-> "datasets", found |-> {}, bound |-> {}]

ListInit == Init /\ list = NotListing

Reading(kind) == list.next = kind /\ UNCHANGED vars

ReadDatasets ==
  /\ Reading("datasets")
  /\ list' = [next |-> "shares", found |-> datasets, bound |-> {v \in Volumes : phase[v] = "bound"}]

\* Variant: every dataset is taken for a volume.
EntriesUnshared(found) == found
\* The volumes whose mountpoint some share has.
Entries(found) == {v \in found : \E s \in shares : NormaliseNFSShareMountpaths(Share(s)) = v}

Answer == Entries(list.found)

\* The last read; the call answers with Answer.
ReadShares == Reading("shares") /\ list' = NotListing

\* A read fails, or the request asked for pages (controller.go:91).
ListFails ==
  /\ list.next # "datasets"
  /\ list' = NotListing
  /\ UNCHANGED vars

ListVolumes == ReadDatasets \/ ReadShares \/ ListFails

ListNext ==
  \/ ListVolumes
  \/ Next /\ UNCHANGED list

ListSpec == ListInit /\ [][ListNext]_listVars /\ Fairness

-----------------------------------------------------------------------------
(***************************************************************************)
(* Properties.                                                             *)
(***************************************************************************)

(***************************************************************************)
(* Every listed volume is one that CreateVolume has completed, or is about *)
(* to answer with, or that is about to be deleted: a dataset that an       *)
(* attempt left without a share is not listed (nfs.go:299-309).            *)
(***************************************************************************)
ListedIsShared == [][ReadShares => Answer \subseteq datasets \cap shares]_listVars

(***************************************************************************)
(* A volume that was bound when the call began and still is when it        *)
(* answers is listed, whatever other handlers and late requests do, and    *)
(* when an upgrade changes the form of the shares between the two reads    *)
(* (nfs.go:281-335).                                                       *)
(***************************************************************************)
SteadyIsListed ==
  [][ReadShares => \A v \in list.bound : phase[v] = "bound" => v \in Answer]_listVars

(***************************************************************************)
(* The list is right from both sides: nothing that lacks its share is      *)
(* listed, and nothing that was there from beginning to end is left out    *)
(* (nfs.go:281-335).                                                       *)
(***************************************************************************)
ListIsRight == ListedIsShared /\ SteadyIsListed
=============================================================================
