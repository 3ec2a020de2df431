# TLA+ specifications of truenas-scale-csi

truenas-scale-csi is a Kubernetes CSI driver for TrueNAS Scale.  One binary
(`cmd/truenas-csi-plugin`) serves CSI's Identity, Controller and Node services
over gRPC; it runs as a controller plugin beside Kubernetes' external
provisioner, and as a node plugin beside kubelet on every node.  The controller
turns CreateVolume and DeleteVolume into chains of REST calls to TrueNAS, the
node plugin turns NodePublishVolume and NodeUnpublishVolume into iscsiadm and
mount operations.

The driver stores next to nothing about volumes.  Every handler finds out where it is by
looking objects up by name, skips what exists and creates what does not.  What
makes that correct, or not, is what earlier attempts left behind: handlers that
failed half-way, that rolled back, whose context was cancelled, whose requests
took effect though the reply was lost.  The specifications are about this.

Paths without a directory below are in `src/pkg/driver`.

## Inventory

| Component | Source | State | Operations | Hard behaviour | What makes it correct | Module |
|---|---|---|---|---|---|---|
| iSCSI controller | `iscsi.go`, `iscsi_utils.go`, `nfs_utils.go` (FindDataset), `controller.go` | per RPC: extentID, initatorID, targetID, the cleanup closure | CreateVolume: find or create dataset, extent, initiator, target, mapping, with a rollback; DeleteVolume: find and delete target, dataset, initiator | retries on leftovers, rollbacks that fail, lost replies, cancelled contexts, requests executed late, handlers of several volumes | success means the volume is served; deletion leaves nothing; a failed attempt leaves nothing or something that the retry completes; no handler touches another volume | `IscsiController` on `TrueNasIscsi` |
| NFS controller | `nfs.go`, `nfs_utils.go` | per RPC: the mountpoint | CreateVolume: find or create dataset, then share, in two forms of the API; DeleteVolume: find and delete the dataset | as above, no rollback; an API that changed without a version | a bound volume is shared; retries converge under either API | `NfsController` |
| ListVolumes | `iscsi.go:493-572`, `nfs.go:281-335` | per RPC: the maps that join the lists | four (iSCSI) or two (NFS) lists, read one after the other | volumes come and go, and the API changes, between the reads | lists only what was there, with its own size, and everything that was there throughout | `IscsiListVolumes`, `NfsListVolumes` |
| TrueNAS | external (truenas-go-sdk) | datasets, extents, initiators, targets, mappings, shares | REST | executes requests whose caller is gone | - | `TrueNasIscsi`, and inside `NfsController` |
| iSCSI node | `iscsi_node_utils.go`, `iscsi.go`, `node.go` | session, device, mounts, directories, the persisted connector | AttachDisk, DetachDisk | handlers that ignore their context run beside the retry; a count read before the unmount; a crash before the connector is persisted | a published path keeps its device; the last one out logs out | `IscsiNode` on `Kubelet` |
| NFS node | `nfs.go:337-415`, `node.go` | mounts, directories | mount; mount-utils' CleanupMountPoint | the same handlers side by side; mounts whose share is gone | a published path is mounted, an unpublished one is not; retries get through | `NfsNode` on `Kubelet` |
| gRPC server | `driver.go`, `identity.go`, `cmd/truenas-csi-plugin/main.go` | `ready`, the listener and its file, the signal channel, the context | Run, Probe, GracefulStop, signals | a stop while calls are in flight or the server is being set up; what a killed process leaves | ready means serving; a stop cuts no call off and always ends the process | `DriverServer` |
| capacity range | `utils.go`, `controller.go` | none | extractStorage | bounds that are unset, equal, swapped, too small, not whole | the accepted size is in the range and the smallest there | `CapacityRange` |
| requests: argument checks, dispatch, connector, CHAP secrets, ValidateVolumeCapabilities | `controller.go`, `node.go`, `iscsi_node_iscsi.go`, `iscsi.go`, `nfs.go` | none; the volume context is kept by Kubernetes | what CreateVolume puts in the context and what the other RPCs make of it, or of one written by hand | two ends of one context that were written apart; secrets that are incomplete; ports and IPv6 | what one RPC answers the next one understands; no nil connector, no part of a secret | `VolumeRequests` |
| provisioner, kubelet | external | phase of a claim, belief about a path | retry, timeout | give up waiting and retry | - | phases in the controllers' modules, `Kubelet` |
| GetCapacity, NodeGetVolumeStats, capabilities, plugin info | `controller.go`, `node.go`, `identity.go`, `iscsi.go`, `nfs.go` | none | one read each, or a constant | - | - | not modelled |
| iscsiadm wrapper, flags, test programs, chart | `cmd/`, `charts/` | none | I/O | - | - | not modelled |

How they interact: the provisioner calls a controller, which calls TrueNAS; the
volume context in CreateVolume's answer (target, LUN 0, or server and mountpoint)
is what kubelet later hands to the node plugin.  Controllers and nodes share no
memory.  Handlers of one process share only the REST client and, on a node, the
node's mount tables, iSCSI sessions and the connector file of the volume.  The
server's shutdown meets the handlers only through gRPC's GracefulStop.

The hazards that follow from this are listed line by line in PROJECT.json, each
with the properties that would catch it going wrong.

## Modules

    VolumeLifecycle                       PublishedPath             CapacityRange
      ^ implements       ^ implements       ^           ^             ^ EXTENDS
    IscsiController    NfsController      IscsiNode   NfsNode       VolumeRequests
      | EXTENDS  ^ EXTENDS   ^ EXTENDS       \ EXTENDS  /
      v          |           |               Kubelet                DriverServer
    TrueNasIscsi IscsiListVolumes NfsListVolumes

The `MC...` modules are the instances for TLC, the `...Proofs` modules hold the
theorems.  Operators whose comment begins with "Variant" are plausible mistakes
in the operator after them, used to see that the properties notice (PROJECT.json,
`mutants`); no specification uses them.

**TrueNasIscsi** is the appliance as the driver uses it: when a POST or DELETE is
accepted, and what it does.  Names make datasets, extents and targets unique;
initiator groups only have a comment and are not.  Deleting a target deletes its
mappings, deleting a dataset deletes its extent and is refused while a target
serves it (the comments at `iscsi.go:357` and `iscsi.go:392`,
`cmd/truenas-iscsi-test/main.go:94`).  Ids are never reused; a target's first
mapping gets LUN 0.

**IscsiController** keeps for every volume one handler, since the provisioner has
at most one RPC of a volume outstanding.  Both RPCs go through kinds of objects
in an order (`CreateOrder`, `DeleteOrder`); a handler is at a `step` of that order
and about to `find`, `create` or `delete` an object of that kind, or to answer.
So one `LookupHit`, `LookupMiss`, `Call` and `Refused` stands for the five (or
three) similar blocks of the code, and `Kind(handler)` says which.  `Rollback` is
the chain of cleanup closures: dataset, extent, initiator, target, up to the kind
that failed, in that order, found or created, errors logged and ignored.  Faults:
`RejectCall` (an error without effect), `LoseReply` (an effect and an error),
`Abandon` (the plugin dies, or the sidecar's timeout cancels the context, with
which the cleanup calls fail, too), `AbandonLate` and `Deliver` (the call that was
in flight is executed some time later).  The lookups return any match, since
nothing orders TrueNAS' lists.  The two reads at the head of CreateVolume (global
configuration, portal) change nothing and fail like the first lookup.

**NfsController** has the same frame for `nfs.go`, with the shares API in either
form, `Upgrade` from one to the other at any time, the lookup that normalises
both (`NormaliseNFSShareMountpaths`) and the fallback on 422 (`AfterRefusal`).

**IscsiListVolumes** and **NfsListVolumes** add one call of ListVolumes to the
controllers, a step per list that is read; the maps are functions from the key of
the next list to the dataset.  `bound` and `served` in `list` are only there for
the properties.  The answer's sizes are the datasets that they are taken from.

**VolumeLifecycle** is the abstract specification of a controller: built only
while it is being created, whole when it is bound, only shrinking while it is
being deleted, nothing left when gone.  The refinement mapping is `Backing`: what
of the volume is on TrueNAS (`none`, `partial`, `whole`).

**Kubelet** is kubelet for one volume on one node and the handlers its calls start.
A handler is a `thread`; when kubelet stops waiting (`GiveUp`) it loses only its
`live` mark, because no function of the node plugin looks at its context.  Kubelet
publishes a volume for one pod at a time, unmounts for several at once, does not
reuse a target path, and does not unpublish a path whose publish it knows to have
failed.

**IscsiNode** says what those handlers do, each step one library call or file
operation of AttachDisk and DetachDisk.  `cnt` is DetachDisk's local count.  `info`
is the connector file: absent, valid, or `torn` by a crash or a failed write.  A failure
ends the handler, except in the logout and in RemoveAll, whose results are dropped.
**NfsNode** does so for NFS, with the steps inside mount-utils' CleanupMountPoint
(external) one by one, since another handler may come between them.  A mount is
`stale` when its share is gone: stat fails on it, unmounting does not.

**PublishedPath** is what both promise kubelet: a path is mounted in publish only,
until unpublish, and not mounted any more when that succeeds.

**DriverServer** is the process: `main` is where run and Driver.Run are, `watcher`
where the goroutine that stops the server is, `signal` the channel and the context.
The first step after the end is a new start, with the socket's file as the last
process left it.  `cause` is only there for the properties.

**VolumeRequests** follows a request from CreateVolume through the
PersistentVolume, which may also be written by hand, to what NodePublishVolume
hands on.  Strings are reduced to what the code tells apart (`Addresses`, JSON
that parses or not, keys that are missing or empty, a LUN beyond int32).
`CreateVolume` contains **CapacityRange**'s `Extract`, `extractStorage` with GiB a
constant.  Sums and products of sizes do not occur, so 64-bit wrap-around cannot
either.

## Runs

| Run | Question | Instance | Outcome |
|---|---|---|---|
| `iscsi_one_volume` | is what CreateVolume and DeleteVolume promise true whenever they answer success, is no call refused for what was looked up before, does no handler hang, and do retries get there? | one volume; up to 4 faults, among them 3 rejected calls, 2 lost replies, 2 abandons, 1 late request | holds, 324 389 states |
| `iscsi_two_volumes` | do interleaved handlers keep to their own objects, is the LUN 0, and does ListVolumes list what is there? | two volumes and one lister; a rejected call or a lost reply | holds, 2.0 M states |
| `nfs` | is a bound volume shared and listed, is nothing refused but the other form of a share, and do retries get there? | two volumes and one lister; two faults, of any kind or an upgrade | holds, 169 696 states |
| `node_faults` | does a published path keep its device, do the handlers implement `PublishedPath`, and does the last one out log out? | two paths, three handlers; 1 overlap, 1 failure, 2 timeouts, 1 crash | holds, 1.7 M states |
| `nfs_node` | is a published path mounted, is `PublishedPath` implemented, and do retries get through? | one path, three handlers; 2 failures, 2 timeouts, 1 crash, any number of stale mounts | holds, 72 528 states |
| `server` | is Probe right, does a stop cut nothing off, does no goroutine wait in vain, and does a signal always stop it? | two calls; 2 signals, 1 kill, 1 failure, any number of restarts | holds, 6 793 states |
| `requests` | is the size right, and does each RPC understand what the other answers? | sizes around 0, 1 and 16 GiB in thirds of a GiB; all forms of a URL, a portal, a capability; contexts by hand with each key missing, empty or set, and all subsets of a secret of four keys | holds, 331 640 states |
| `iscsi_lost_reply` | is CreateVolume "done by now"? | one lost reply | violated |
| `node_parallel_unmounts` | is a device that DetachDisk calls "in use" in use? | two paths, 1 overlap | violated |
| `node_not_persisted` | is the volume disconnected when its connector cannot be persisted? | one path, 1 failure | violated |
| `node_unreliable` | is unpublish reliable once the connector is persisted? | one path, 1 failure | violated |
| `nfs_url` | does the README's URL yield a server that can be mounted from? | as `requests` | violated |

`nas.nextId` and the sets of late requests grow only with calls, which only a
fault makes a handler repeat for ever: the bounds on faults (`MaxFaults`,
`MaxTotal`, `MaxFails`, `MaxTimeouts`, `MaxCrashes`, `MaxOverlaps`, `MaxSignals`,
`MaxKills`) bound everything.  Why they are enough: in `iscsi_one_volume` one attempt can meet two faults, its
rollback another, and the retry and the DeleteVolume the rest, so leftovers of
leftovers occur.  More than two volumes add nothing, as no step reads objects of
two others.  In `node_faults` three handlers are a publish and an unpublish that
kubelet gave up on, and a third one beside them.  In `nfs_node` one path is enough,
since no step of NfsNode reads another path.  In `server` one of two signals can come
before anyone waits and the other after the first is caught, and a killed process is
followed by one that is stopped during its start.  The sizes of secrets and of
int32 (`LunRange`) are smaller than life; neither is compared with anything else.
The theorems need no bounds.

CHECK_DEADLOCK is off because a claim that has been deleted, a path that has
been unpublished and a request that was answered are not used again, and a server
nobody calls waits: every system here comes to rest.

### What the violations show

- **`iscsi_lost_reply`.** The reply to CreateISCSITarget is lost.  The rollback
  (`iscsi.go:281`) deletes dataset, extent and initiator, but not the target: its
  cleanup function is not in place yet.  The retry makes a new dataset, extent and
  initiator, finds the old target (`iscsi.go:253-264`), maps it and answers
  success; the target's group names an initiator that no longer exists.
- **`node_parallel_unmounts`.** Both unpublishes count two mounts before either
  unmounts (`iscsi_node_utils.go:82`); both end in "iSCSI device is in use" and the
  session stays for good.
- **`node_not_persisted`.** The log line of `iscsi_node_utils.go:60` announces a
  disconnect that the code does not do.
- **`node_unreliable`.** DisconnectVolume fails once after the unmount.  Each retry
  starts at the top and fails at Unmount, as the path is not mounted any more.
- **`nfs_url`.** The README's values have the API at port 1339.  `NewDriver` keeps the
  URL's host with its port (`driver.go:118`), and that is the host CreateVolume
  answers with (`nfs.go:169`), so the node mounts from
  `192.168.69.69:1339:/mnt/...`.

### Limits of the properties that hold

They are in the statements, and each is there because of a behaviour of the code.

- `BoundIsServed`, `GoneLeavesNothing`, `RollbackLeavesNothing`, `DoneAfterAbandons`,
  `NeverRefused`, `ImplementsLifecycle` and iSCSI's `SteadyIsListed` are claimed until a request is
  late.  With one, a DeleteDataset of a cancelled rollback that is executed after
  the retry has found the dataset leaves a bound volume without one, because the
  rollback deletes a dataset even if its attempt only found it (`iscsi.go:148`).  And
  a CreateISCSIInitiator that is executed after the retry made its own leaves two,
  of which DeleteVolume deletes one (`iscsi.go:392-408`).  NFS has no rollback, and
  its `BoundIsShared` and `ListIsRight` hold with late requests, too.
- `RefusedForItsForm` (NFS) is claimed until a request is late, too: a request that is executed
  late may come between the retry's lookup and its own request, which is then refused.
  The next attempt finds what the late one left.
- `NeverRefused` is about the calls of CreateVolume and DeleteVolume, not of the cleanup
  functions: their DeleteISCSIExtent asks for an extent that is gone with its dataset.
- `RollbackLeavesNothing` is claimed for one rejected call; a second one may fail
  the rollback itself, whose errors are only logged.
- `DetachOnlyUnused` and `ImplementsPublishedPath` are claimed until kubelet gives up
  on a handler.  Afterwards an AttachDisk that kubelet forgot may mount between
  DetachDisk's count and its DisconnectVolume, or after the unpublish.
  `PublishedIsServed` then still holds for a volume that one path has ever used.
  `PublishedIsMounted` (NFS) holds in any case.
- `LastOneOutDisconnects` is claimed for unmounts one after the other and without
  failures.  Besides the violations above there is a crash between Connect and
  PersistConnector: without the file DetachDisk assumes that there is no connection
  (`iscsi_node_utils.go:94-97`), and the session stays.
- `LastOneOutDisconnects`, `DetachOnlyUnused`, and `PublishedIsServed` and
  `ImplementsPublishedPath` of `IscsiNode`, like the trace of `node_parallel_unmounts`,
  are about a DetachDisk that counts each mount once (`iscsi_node_utils.go:82`).  The
  chart also mounts the host's root into the plugin's container, with HostToContainer
  propagation (`charts/truenas-scale-csi/templates/node.yaml:124-131`).  If the container
  therefore sees each mount twice, the count never comes to zero: the last one out does
  not log out, and nothing in the code makes up for it.
- `Converges` of `NfsNode` excepts, for the publish, a path whose mount went stale before it was
  answered: IsLikelyNotMountPoint fails on it until kubelet unpublishes (`nfs.go:372`).
- `CreatedIsPublished` claims a usable server for a URL without a port, and a usable
  portal when the first one listens on a name or IPv4 address: the address is joined
  with its port by a colon (`iscsi.go:94`), and `portalMounter` looks for a colon to
  see whether there is a port (`iscsi_node_iscsi.go`).
- A LUN beyond int32 in a context written by hand wraps (`Int32`); no property is about
  that.

One divergence of a comment is visible from `CapacityRange` without a run:
`controller.go:25` says that the default size is used when the requested one "did
not satisfy our requirements"; `extractStorage` answers an error then.

### Fairness

- Controllers: weak fairness of `Handle(v)` (TrueNAS answers, or the sidecar's timeout
  ends the RPC and the handler with it) and of the two retry actions (the provisioner
  retries with back-off for as long as the claim exists).  Faults are bounded and not
  fair, so the convergence properties read: once faults stop, retries get through.
  Nothing says that a user ever deletes a claim: DeleteVolume itself has no fairness.
  `ListSpec` of NFS has the same fairness and none for the call of ListVolumes.
- `IscsiNode`, `NfsNode`: every handler runs on (a goroutine is not stopped by its
  caller), and kubelet repeats NodeUnpublishVolume until it succeeds.  In `NfsNode`
  both calls are repeated, with strong fairness: kubelet serves one publish at a time,
  but waits longer after each failure, so a path whose publish always fails leaves the
  others their turn.
- `DriverServer`: the three goroutines run on, and a call that runs is answered.  New
  calls, signals and restarts have no fairness.

## Proofs

| Theorem | Says | Argument |
|---|---|---|
| `IscsiControllerProofs!TypeCorrect` | `Spec => []TypeOK` | the inductive `TypeInv` adds to `TypeOK` which verbs and steps a handler of each RPC can be at (`Shape`), and that no rollback or deletion asks for a mapping, so `After` is defined wherever it is used |
| `IscsiControllerProofs!LunAlwaysZero` | `Spec => []LunIsZero` | `OwnInv`: ids are unique and below `nextId`, each target and extent is the only one of its volume (`Identified`), a mapping joins a target and an extent of one volume (`Joined`), and what handlers and late requests hold ids of is their own volume's (`Owns`); then a target is mapped to one extent only |
| `IscsiControllerProofs!OthersUntouched` | `PrefixFree /\ Spec => OwnObjectsOnly` | the same invariant: what a call names by id belongs to the caller's volume or is gone |
| `IscsiControllerProofs!BoundAlwaysServed` | `Spec => []BoundIsServed` | `BuildInv`: until a request is late, a CreateVolume at some step has the objects of the earlier steps (`Has`), with the ids it holds, and no other volume's step takes them (`OthersKeep`) |
| `IscsiControllerProofs!ListedAlwaysServed` | `ListSpec => ListedWasServed` | `ListInv`: the ids in the map of a read are known to TrueNAS, and whatever object still has one is that of the dataset it is mapped to (`MapsOwn`), as ids are never given out twice; what got through three joins was served (`MapsServed`), since an extent goes with its dataset (`Backed`) |
| `IscsiControllerProofs!SteadyAlwaysListed` | `ListSpec => SteadyIsListed` | `SteadyInv`: a volume that was bound when the call began and still is has been whole ever since, so each read saw its mapping, its extent and its target, and the joins keep it (`BoundKeeps`, `BoundOnce`) |
| `IscsiControllerProofs!GoneAlwaysEmpty` | `PrefixFree /\ Spec => []GoneLeavesNothing` | `ClearInv` with `AgreeInv`: what a deletion has looked up and not found, or deleted, is not there, since only the volume's own handler builds; with dataset, target and initiator gone nothing else is left |
| `IscsiControllerProofs!LifecycleImplemented` | `PrefixFree /\ Spec => ImplementsLifecycle` | all of the above, and one lemma per sort of step |
| `IscsiControllerProofs!AlwaysDoneByNow` | `PrefixFree /\ Spec => []DoneAfterAbandons` | `LooksInv`: what CreateVolume looked for and did not find is still not there, and the initiator group it holds still is, so TrueNAS never refuses what it makes (`CreateNeverRefused`); then nothing is rolled back while handlers only die, and a target keeps its group (`DoneInv`) |
| `IscsiControllerProofs!RollbackAlwaysComplete` | `PrefixFree /\ Spec => []RollbackLeavesNothing` | `UndoInv`: until the one rejected call, CreateVolume starts from nothing and finds nothing (`BuiltFromNothing`), and what there still is of a volume is what the rollback has yet to come to (`Undone`); no cleanup call is refused for what exists (`RollbackLeaves`) |
| `NfsControllerProofs!TypeCorrect` | `Spec => []TypeOK` | inductive; includes that no share outlives its dataset |
| `NfsControllerProofs!BoundAlwaysShared` | `Spec => []BoundIsShared` | invariant `Inv`: `Serving` (a handler and its volume's phase agree), `Built` (past a step, its object exists), `LateDeletes` (a late deletion is of a volume that is being deleted or gone, so it cannot hit a handler that creates) |
| `NfsControllerProofs!LifecycleImplemented` | `Spec => ImplementsLifecycle` | `Inv` with `Cleared` (no dataset when a deletion is through), which is what late requests break; one lemma per sort of step: what changes only the phase, what changes only TrueNAS, and what changes neither |
| `NfsControllerProofs!ListAlwaysRight` | `ListSpec => ListIsRight` | the volumes that were bound at the start are among the datasets that were read, and bound volumes are shared, in whichever form |
| `KubeletProofs` (lemmas) | what kubelet's side of a node is like | `KubeletInv`: kubelet waits for one handler of a path at most, for nothing beside a publish, and remembers what it waits for (`HandlersInv`, `WaitsInv`); an unpublish that runs, however late, is of a path that will not be published again (`LateInv`); it waits for every handler until it gives up on one (`PunctualInv`) |
| `IscsiNodeProofs!TypeCorrect` | `Spec => []TypeOK` | inductive with `KubeletInv`, `Paths` being finite |
| `IscsiNodeProofs!PublishedAlwaysServed`, `DetachedOnlyUnused` | `Spec => []PublishedIsServed`, `Spec => []DetachOnlyUnused` | `NodeInv`: which steps go with which operation (`StepsInv`), what is mounted or not at a step (`MountedInv`, `UnmountedInv`), a count of one says that no other path is mounted, as only unmounts run beside it (`CountInv`), so nothing is at a disconnect (`DetachInv`); a connector is persisted before anything is mounted (`InfoInv`) |
| `IscsiNodeProofs!PublishedPathImplemented` | `Spec => ImplementsPublishedPath` | `NodeInv`, one lemma per sort of step |
| `IscsiNodeProofs!LastOneAlwaysDisconnects` | `Spec => []LastOneOutDisconnects` | `QuietInv`: without overlaps and faults one handler runs at a time, its count is exact, and the session and the connector are there just as long as a path is mounted or a handler is between |
| `NfsNodeProofs!TypeCorrect`, `PublishedAlwaysMounted`, `PublishedPathImplemented` | the same for NFS | `Inv`: each handler keeps to its own steps (`StepsInv`); a publish that is about to succeed, and one that did, left its path mounted (`MountedInv`), which no unpublish takes by `LateInv`; until kubelet gives up, an unpublish that is about to succeed left its path unmounted (`UnmountedInv`) |
| `DriverServerProofs!TypeCorrect`, `ReadyAlwaysServing`, `NeverFailsByItself`, `StopNeverCuts` | the server's safety properties | `Inv`: where the listener and its file are (`ListenInv`), when the driver is ready (`ReadyInv`), what a stop was caused by (`CauseInv`), and which calls may run when (`CallInv`: none once the server has stopped) |
| `CapacityRangeProofs!AcceptedIsRight` | `Spec => []SizeIsRight` | the size is `Pending` or what `extractStorage` says |
| `VolumeRequestsProofs!RequestIsRight` | the same of `RequestSpec` | `RequestSpec` implements `CapacityRange`'s `Spec` |
| `VolumeRequestsProofs!ConnectorAlwaysWhole`, `CreatedAlwaysConfirmed` | `RequestSpec => []ConnectorIsWhole`, `RequestSpec => []CreatedIsConfirmed` | what is published is what `NodePublishVolume` makes of the volume (`PublishedFromVolume`), and a created volume is what CreateVolume makes of a request that passed its checks (`CreatedVolume`) |
| `VolumeRequestsProofs!CreatedAlwaysPublished` | `RequestSpec => []CreatedIsPublished` | the same two facts, with what each conversion between makes of the address and of LUN 0 |
| `VolumeRequestsProofs!RequestTypeCorrect` | `RequestSpec => []RequestTypeOK` | what a context reads as (`Readable`), and that what is handed on then has its type (`Handed`) |
| `IscsiControllerProofs!AlwaysAccepted` | `PrefixFree /\ Spec => []NeverRefused` | for CreateVolume `LooksInv`, as above; for DeleteVolume `FindsInv`: an object that it found stays until it deletes it, and it comes to the dataset only when no target serves it any more |
| `IscsiControllerProofs!AlwaysConverges` | `PrefixFree /\ FairSpec /\ []GuardsEnable /\ FaultsEnd => Converges` | see Liveness: `RpcEnds`; an attempt that begins when no faults are left is never refused, hence succeeds (`CalmCreates`, `CalmDeletes`) |
| `NfsControllerProofs!AlwaysConverges` | `FairSpec /\ []GuardsEnable /\ FaultsEnd => Converges` | the same, without `PrefixFree`; an API in which no upgrade comes accepts one of the two forms |
| `DriverServerProofs!SignalAlwaysStops` | `FairSpec /\ []GuardsEnable /\ CallsEnd => SignalStops` | one leads-to per place at which a signal may find the process: the main goroutine comes to serve (`MainMoves`), the signal is caught (`SignalCaught`), the stopping goroutine comes to its end (`WatcherGoesOn`, `WatcherEnds`), Serve returns (`ServeReturnsAtLast`) |
| `NfsNodeProofs!AlwaysConverges` | `FairSpec /\ []GuardsEnable /\ FaultsEnd /\ OneAtATime => Converges` | again and again no handler runs (`QuietAgain`), so that strong fairness starts the path's retry; alone, it can only fail when the mount goes stale in between, and then the one after it does not |
| `IscsiControllerProofs!NeverHanging` | `Spec /\ []GuardsEnable => []NeverHangs` | see Liveness: at every step that the type invariant allows, one of the guards listed in `CanHandle` holds, and the step that it guards leads elsewhere, also in the middle of a rollback |
| `NfsControllerProofs!OnlyFormRefused` | `Spec => []RefusedForItsForm` | `LooksInv`: until a request is late only its own handler changes a volume (`OwnSteps`), so what a lookup said is still true at the call (`HandleLooks`); with `Built`, a share is made on a dataset that exists |
| `DriverServerProofs!StopAlwaysGoesOn` | `Spec /\ []GuardsEnable => []StopGoesOn` | `HeardInv`: a signal that the process outlived lies in the channel or was taken from there; with `Inv`, a server that serves has a goroutine that stops it, which waits for running calls only |
| `EveryRpcEnds` of both controllers, `EveryHandlerEnds` of both nodes | `FairSpec /\ []GuardsEnable => \A v : []<>` idle | the rank `Left` |
| `IscsiNodeProofs!NothingFailsByItself` | `Spec => [](Undisturbed => no handler is at an error)` | `SmoothInv`: each unpublish has a mount of its own until it unmounts it (`UnpublishSmooth`), as long as something is mounted the connector is there (`NodeSmooth`), and who unmounts the last mount is alone but for answers (`LastIsAlone`, from `CountInv`), so nobody removes what another one needs |
| `IscsiNodeProofs!UndisturbedUnpublishIsReliable` | `FairSpec /\ []GuardsEnable /\ []Undisturbed => ReliableUnpublish` | `SmoothInv` and `HandlerEnds`: the handler of the first call ends, and not with an error.  The run `node_unreliable` shows that one failure is enough to break it |

The assumptions are those of the modules: GiB and the size of an int32 are
positive, the latter even, bounds on faults are natural numbers, `Prefixes` relates
volume ids reflexively, `Paths` is finite where mounts are counted, `NoPath` is no
path, `NoMountpoint` (the empty string) is no volume, an API URL has a host, a portal
listens on some address, and what a volume written by hand says reads as an address,
a list of them or a number.  `OthersUntouched`, `GoneAlwaysEmpty`, `AlwaysDoneByNow`,
`RollbackAlwaysComplete`, `AlwaysAccepted`, and `IscsiControllerProofs`'
`LifecycleImplemented` and `AlwaysConverges` also assume
`PrefixFree`: no id is a prefix of another, as holds for the provisioner's `pvc-<uuid>`
names.  Without it `FindISCSIInitiator`, which compares the beginning of a comment
(`iscsi.go:211-213`), may take another volume's initiator.

None of the invariants is inductive as it stands.  A bound NFS volume stays shared
only because no late deletion of it is under way, which follows from where late
deletions come from; a second mapping of a target is excluded by what ids the
handlers may hold; a published path keeps its device because of what DetachDisk's
count says while other unmounts wait between the count and the unmount.  The
strengthenings were checked with TLC before they were proved.

### Liveness

The convergence theorems state the liveness properties of the runs from the fairness of
`FairSpec` and from hypotheses that are named formulas.  None of them says that what the
property promises comes about.

| Hypothesis | Of | Says | Why it is not proved |
|---|---|---|---|
| `[]GuardsEnable` | both controllers, both nodes, `DriverServer` | a step whose guard holds, and which changes the state of its handler, is enabled.  The guards are written out, in `CanHandle`, `CanRun`, `CanRetryCreate` and so on: it is what `ENABLED` means of these actions, and nothing about what the program comes to | the prover takes `ENABLED A` for an unknown formula |
| `[]Undisturbed` | `IscsiNode` | no operation fails, kubelet waits and the plugin lives | not to be proved: it is the case that the theorem is about, as one failure is enough to refute `ReliableUnpublish` |
| `FaultsEnd` | both controllers, `NfsNode` | from some time on no fault happens and no late request arrives | follows from the bounds on faults, by an induction over their number, whose statement is temporal |
| `OneAtATime` | `NfsNode` | from some time on at most one handler runs | follows from `FaultsEnd` and from every handler's end (`HandlerEnds`, which is proved), by an induction over the handlers |
| `CallsEnd` | `DriverServer` | once the server stops gracefully, the calls that run end, or the process does | follows from the fairness of `Answer`, by an induction over the calls |

An induction over temporal formulas takes an induction theorem with an operator as its
parameter, which no installed prover instantiates.  The runs check the convergence
properties with none of `GuardsEnable`, `FaultsEnd`, `OneAtATime` and `CallsEnd`, all of
which hold of the runs' instances.

What is proved is the rest, and that is where the code could be wrong.  First, nobody
hangs (`NeverHangs` of `IscsiController`, `StopGoesOn`, and the lemmas `HandlersGoOn` for
NFS): at every step there is a next one whose guard holds
and that leads elsewhere, also after a refusal, in the middle of a rollback, or for an
unpublish whose path another handler has changed; a handler that failed back to the step
it was at would break these proofs.  Second, an RPC ends: `Left`, the number of steps a
handler still has, falls with each of its own steps, lookups, calls and cleanup
functions alike, and no other process or fault makes it rise (`RpcEnds`, `HandlerEnds`).  So after each failure a retry begins.  Third,
an attempt that meets no fault gets through, whatever the earlier ones left: in a
controller no call of it is refused, also after late requests (for NFS the refusal of
one form of a share is followed by the other one), so it never fails (`Trying`,
`Clearing`);
on a node an unpublish by itself fails only if the mount goes stale before it looks
at it, and a mount goes stale once.  Each rank is bounded, so the induction over it is
over a few numbers that the prover takes one by one.

No property of a passing run is only model-checked.  `NeverHangs` (of `IscsiController`) and
`StopGoesOn` are about ENABLED, which the prover cannot look into: their theorems say that
a guard of the right step holds, and take from `GuardsEnable` that such a step is
enabled.  The runs evaluate ENABLED itself, and so check both together.

## Not modelled

- Sizes of volumes: a dataset that exists is taken whatever its size is
  (`iscsi.go:127`); the provisioner repeats a name with the same size.
- A claim that is deleted after CreateVolume failed for good.  The provisioner then
  does not call DeleteVolume, and what the last attempt left stays.
- What the node plugin's container sees of the host's mount table
  (`charts/truenas-scale-csi/templates/node.yaml:131`): each mount is counted once.
- Node reboots, and several nodes: a session belongs to a node, and a volume is
  attached where the access mode allows.
- In `VolumeRequests`: fields that are only checked to be present, mount flags and
  readonly; the interface, the initiator's name and the CHAP flags, which
  `getISCSIInfo` reads but which reach no connector.
- GetCapacity, NodeGetVolumeStats, the capabilities and the plugin's name and version
  are one read each or constant: there is no state and nothing to interleave.
- The iscsiadm wrapper (chroot and exec), flag parsing, the hand-edited test programs
  and the Helm chart.

## Plan

Everything with state of its own is modelled.  What would come next, in this order:

1. The size of a dataset as a second attribute of it, should CreateVolume come to
   compare it with the request's (`iscsi.go:127`).
2. Expansion and snapshots, which the driver does not offer yet, as operations of the
   controllers and of the lifecycle.

The runs stay one per question; smaller questions about the same instance share a
run, as in `nfs`.
