------------------------------ MODULE IscsiNode ------------------------------
(***************************************************************************)
(* NodePublishVolume and NodeUnpublishVolume of one iSCSI volume on one    *)
(* node: AttachDisk and DetachDisk (pkg/driver/iscsi_node_utils.go), one   *)
(* step per system call, iscsiadm or file operation.                       *)
(*                                                                         *)
(* An operator whose comment begins with "Variant" is a plausible mistake  *)
(* in the operator that follows; it is not part of the specification.      *)
(***************************************************************************)
EXTENDS Kubelet, FiniteSets

ASSUME PathsAssumption == IsFiniteSet(Paths)

VARIABLES
  session,  \* the node is logged in to the target
  device,   \* and has the target's LUN as a block device
  mounts,   \* the paths at which the device is mounted
  dirs,     \* the paths that exist
  info,     \* the connector persisted in the iscsi lib config file
  cnt       \* DetachDisk's cnt in each handler, 0 where it is not used any more

node == <<session, device, mounts, dirs, info>>
vars == <<session, device, mounts, dirs, info, cnt, thread, want, used>>

PublishSteps   == {"connect", "isMounted", "mkdir", "persist", "mount"}
UnpublishSteps == {"count", "exists", "load", "unmount", "disconnect", "logout", "removeAll", "removeInfo"}
Errors         == {"error", "notPersisted"}

Init ==
  /\ KubeletInit
  /\ session = FALSE /\ device = FALSE
  /\ mounts = {} /\ dirs = {} /\ info = "none"
  /\ cnt = [t \in Threads |-> 0]

NodePublishVolume(t, p)   == Publish(t, p, "connect") /\ UNCHANGED <<node, cnt>>
NodeUnpublishVolume(t, p) == Unpublish(t, p, "count") /\ UNCHANGED <<node, cnt>>

\* A step of t that leaves the node as it is.
Step(t, from, to) ==
  /\ At(t, from)
  /\ Goto(t, to)
  /\ UNCHANGED <<node, cnt, want, used>>

-----------------------------------------------------------------------------
(***************************************************************************)
(* AttachDisk.                                                             *)
(***************************************************************************)
Connect(t) ==
  /\ At(t, "connect")
  /\ session' = TRUE /\ device' = TRUE
  /\ Goto(t, "isMounted")
  /\ UNCHANGED <<mounts, dirs, info, cnt, want, used>>

\* Variant: the error for a path that does not exist is taken for `mounted'.
IsMountedMissing(t) ==
  Step(t, "isMounted", IF thread[t].path \in mounts \/ thread[t].path \notin dirs THEN "ok" ELSE "mkdir")
\* IsLikelyNotMountPoint: a path that is mounted is published already.
IsMounted(t) == Step(t, "isMounted", IF thread[t].path \in mounts THEN "ok" ELSE "mkdir")

MakeDir(t) ==
  /\ At(t, "mkdir")
  /\ dirs' = dirs \cup {thread[t].path}
  /\ Goto(t, "persist")
  /\ UNCHANGED <<session, device, mounts, info, cnt, want, used>>

Persist(t) ==
  /\ At(t, "persist")
  /\ info' = "valid"
  /\ Goto(t, "mount")
  /\ UNCHANGED <<session, device, mounts, dirs, cnt, want, used>>

\* Mounting needs the device and the directory; one path is not mounted twice.
FormatAndMount(t) ==
  LET p == thread[t].path
      ok == device /\ p \in dirs /\ p \notin mounts
  IN /\ At(t, "mount")
     /\ mounts' = IF ok THEN mounts \cup {p} ELSE mounts
     /\ Goto(t, IF ok THEN "ok" ELSE "error")
     /\ UNCHANGED <<session, device, dirs, info, cnt, want, used>>

-----------------------------------------------------------------------------
(***************************************************************************)
(* DetachDisk.                                                             *)
(***************************************************************************)

\* Variant: only the other mounts are counted.
RefCountOthers(p) == IF p \in mounts THEN Cardinality(mounts) - 1 ELSE -1
\* GetDeviceNameFromMount: how often the device mounted at p is mounted.
RefCount(p) == IF p \in mounts THEN Cardinality(mounts) ELSE 0

CountMounts(t) ==
  /\ At(t, "count")
  /\ cnt' = [cnt EXCEPT ![t] = RefCount(thread[t].path)]
  /\ Goto(t, "exists")
  /\ UNCHANGED <<node, want, used>>

CheckExists(t) == Step(t, "exists", IF thread[t].path \in dirs THEN "load" ELSE "ok")

\* Variant: any failure to read the file is.
LoadInfoLenient(t) == Step(t, "load", IF info = "valid" THEN "unmount" ELSE "ok")
\* GetConnectorFromFile: no file is taken to mean that there is no connection.
LoadInfo(t) ==
  Step(t, "load", CASE info = "valid" -> "unmount"
                    [] info = "none"  -> "ok"
                    [] info = "torn"  -> "error")

\* Variants: cnt is compared before it is decremented, or not at all.
LastMountTooEarly(n) == n = 0
LastMountAlways(n) == TRUE
LastMount(n) == n - 1 = 0

\* umount fails on a path that is not mounted.
Unmount(t) ==
  LET p == thread[t].path
  IN /\ At(t, "unmount")
     /\ mounts' = mounts \ {p}
     /\ Goto(t, CASE p \notin mounts -> "error"
                  [] p \in mounts /\ LastMount(cnt[t]) -> "disconnect"
                  [] p \in mounts /\ ~LastMount(cnt[t]) -> "ok")
     /\ cnt' = [cnt EXCEPT ![t] = 0]
     /\ UNCHANGED <<session, device, dirs, info, want, used>>

DisconnectVolume(t) ==
  /\ At(t, "disconnect")
  /\ device' = FALSE
  /\ Goto(t, "logout")
  /\ UNCHANGED <<session, mounts, dirs, info, cnt, want, used>>

\* Disconnect logs out; were that to fail DetachDisk would not hear of it.
Disconnect(t) ==
  /\ At(t, "logout")
  /\ session' = FALSE /\ device' = FALSE
  /\ Goto(t, "removeAll")
  /\ UNCHANGED <<mounts, dirs, info, cnt, want, used>>

\* RemoveAll deletes what is mounted at the path, too, then fails on it (only logged).
RemoveAll(t) ==
  /\ At(t, "removeAll")
  /\ dirs' = dirs \ ({thread[t].path} \ mounts)
  /\ Goto(t, "removeInfo")
  /\ UNCHANGED <<session, device, mounts, info, cnt, want, used>>

RemoveInfo(t) ==
  /\ At(t, "removeInfo")
  /\ info' = "none"
  /\ Goto(t, IF info = "none" THEN "error" ELSE "ok")
  /\ UNCHANGED <<session, device, mounts, dirs, cnt, want, used>>

-----------------------------------------------------------------------------
(***************************************************************************)
(* Faults.                                                                 *)
(***************************************************************************)
\* An operation fails.  Connect may do so after the login, the config file may be cut
\* off, Disconnect has no result, and that of RemoveAll is only logged.
Fail(t) ==
  /\ CountUse("fails", MaxFails)
  /\ \/ /\ At(t, "connect")
        /\ session' \in {session, TRUE}
        /\ Goto(t, "error")
        /\ UNCHANGED <<device, mounts, dirs, info>>
     \/ /\ At(t, "persist")
        /\ info' \in {info, "torn"}
        /\ Goto(t, "notPersisted")
        /\ UNCHANGED <<session, device, mounts, dirs>>
     \/ At(t, "logout") /\ Goto(t, "removeAll") /\ UNCHANGED node
     \/ At(t, "removeAll") /\ Goto(t, "removeInfo") /\ UNCHANGED node
     \/ /\ \E pc \in {"isMounted", "mkdir", "mount", "count", "exists", "load", "unmount", "disconnect", "removeInfo"} :
             At(t, pc)
        /\ Goto(t, "error")
        /\ UNCHANGED node
  /\ UNCHANGED <<cnt, want>>

Timeout(t) == GiveUp(t) /\ UNCHANGED <<node, cnt>>

\* Session, mounts, directories and the file outlive the plugin.
Crash ==
  /\ Die
  /\ info' \in {info} \cup {"torn" : t \in {t \in Threads : At(t, "persist")}}
  /\ cnt' = [t \in Threads |-> 0]
  /\ UNCHANGED <<session, device, mounts, dirs>>

-----------------------------------------------------------------------------
Return(t) ==
  /\ Answer(t, Errors)
  /\ cnt' = [cnt EXCEPT ![t] = 0]
  /\ UNCHANGED node

Run(t) ==
  \/ Return(t)
  \/ Connect(t) \/ IsMounted(t) \/ MakeDir(t) \/ Persist(t) \/ FormatAndMount(t)
  \/ CountMounts(t) \/ CheckExists(t) \/ LoadInfo(t) \/ Unmount(t)
  \/ DisconnectVolume(t) \/ Disconnect(t) \/ RemoveAll(t) \/ RemoveInfo(t)

Next ==
  \/ \E t \in Threads :
       \/ Run(t) \/ Fail(t) \/ Timeout(t)
       \/ \E p \in Paths : NodePublishVolume(t, p) \/ NodeUnpublishVolume(t, p)
  \/ Crash

Spec == Init /\ [][Next]_vars

\* Every handler runs on, and kubelet retries an unpublish until it succeeds.
RunsOn(t)  == WF_vars(Run(t))
Retried(p) == WF_vars(want[p] = "unpublishing" /\ \E t \in Threads : NodeUnpublishVolume(t, p))
Fairness   == (\A t \in Threads : RunsOn(t)) /\ (\A p \in Paths : Retried(p))

FairSpec == Spec /\ Fairness

-----------------------------------------------------------------------------
(***************************************************************************)
(* Properties.                                                             *)
(***************************************************************************)
TypeOK ==
  /\ session \in BOOLEAN /\ device \in BOOLEAN
  /\ mounts \subseteq dirs /\ dirs \subseteq Paths
  /\ info \in {"none", "torn", "valid"}
  /\ thread \in [Threads -> ThreadType(PublishSteps \cup UnpublishSteps \cup {"ok"} \cup Errors)]
  /\ cnt \in [Threads -> Nat]
  /\ want \in [Paths -> Beliefs]
  /\ used \in UsedType

(***************************************************************************)
(* A path that kubelet believes published has the volume mounted, on a     *)
(* device that is there, while other paths come and go                     *)
(* (iscsi_node_utils.go:107-120: the last one out disconnects).  When      *)
(* kubelet gives up on a handler this holds for a volume with one path.    *)
(***************************************************************************)
OnlyUser(p) == \A q \in Paths : want[q] # "none" => q = p
PublishedIsServed ==
  \A p \in Paths :
    want[p] = "published" /\ (used.timeouts = 0 \/ OnlyUser(p)) => p \in mounts /\ device /\ session

(***************************************************************************)
(* Until kubelet gives up on a handler, the handlers do what kubelet       *)
(* counts on: a path is mounted in publish only, until unpublish, and not  *)
(* any more when that succeeds, although DetachDisk answers success also   *)
(* when it finds no path or no connector (iscsi_node_utils.go:33-130).     *)
(***************************************************************************)
Path == INSTANCE PublishedPath WITH mounted <- mounts
ImplementsPublishedPath ==
  Path!Init /\ [][used'["timeouts"] = 0 => Path!Next]_<<want, mounts>>

(***************************************************************************)
(* The device is not taken away, nor a target path deleted, while any path *)
(* has it mounted: that is what "iSCSI device is in use" is there for      *)
(* (iscsi_node_utils.go:107-111).  It fails when kubelet gives up on a     *)
(* handler, see the README.                                                *)
(***************************************************************************)
DetachOnlyUnused ==
  used.timeouts = 0 =>
    \A t \in Threads : thread[t].pc \in {"disconnect", "logout", "removeAll"} => mounts = {}

(***************************************************************************)
(* When every pod that had the volume is through with it, one after the    *)
(* other, and nothing failed, the node is logged out and keeps no          *)
(* connection info (iscsi_node_utils.go:113-129).                          *)
(***************************************************************************)
AllDetached ==
  /\ \A t \in Threads : thread[t].op = "idle"
  /\ \A p \in Paths : want[p] \in {"none", "done"}
LastOneOutDisconnects ==
  AllDetached /\ used.overlaps + used.fails + used.timeouts + used.crashes = 0
    => ~session /\ ~device /\ info = "none"

(***************************************************************************)
(* "iSCSI device is in use" (iscsi_node_utils.go:109): when DetachDisk     *)
(* leaves the device alone for that reason some path still has it mounted. *)
(***************************************************************************)
InUseIsMounted ==
  [][\A t \in Threads : At(t, "unmount") /\ At(t, "ok")' => mounts' # {}]_vars

(***************************************************************************)
(* "failed to persist connection info, disconnecting volume and failing    *)
(* the publish request" (iscsi_node_utils.go:60): unless another path uses *)
(* it, the volume is disconnected when that publish request answers.       *)
(***************************************************************************)
NotPersistedDisconnects ==
  \A t \in Threads : At(t, "notPersisted") => ~session \/ mounts # {}

(***************************************************************************)
(* "persistence files are required for reliable Unpublish"                 *)
(* (iscsi_node_utils.go:60): with the file, kubelet's retries get there.   *)
(***************************************************************************)
ReliableUnpublish == \A p \in Paths : want[p] = "unpublishing" ~> want[p] = "done"
=============================================================================
