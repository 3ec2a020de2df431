------------------------------- MODULE NfsNode -------------------------------
(***************************************************************************)
(* nfsNodePublishVolume and nfsNodeUnpublishVolume (pkg/driver/nfs.go) for *)
(* one volume on one node, one step per file system or mount operation.    *)
(* mountutils.CleanupMountPoint, which unpublish calls with                *)
(* extensiveMountPointCheck, is in k8s.io/mount-utils: it removes a path   *)
(* that is not mounted, otherwise unmounts it first and looks again.       *)
(* There is no state beside the node's mount table: what a handler finds   *)
(* there is all it knows of earlier attempts.                              *)
(*                                                                         *)
(* An operator whose comment begins with "Variant" is a plausible mistake  *)
(* in the operator that follows; it is not part of the specification.      *)
(***************************************************************************)
EXTENDS Kubelet

VARIABLES
  mounts,   \* the paths at which the share is mounted
  dirs,     \* the paths that exist
  stale     \* mounts whose share the appliance does not serve any more

node == <<mounts, dirs, stale>>
vars == <<mounts, dirs, stale, thread, want, used>>

PublishSteps   == {"isMounted", "mkdir", "mount"}
UnpublishSteps == {"exists", "check", "unmount", "recheck", "remove"}
Errors         == {"error"}

Init == KubeletInit /\ mounts = {} /\ dirs = {} /\ stale = {}

NodePublishVolume(t, p)   == Publish(t, p, "isMounted") /\ UNCHANGED node
NodeUnpublishVolume(t, p) == Unpublish(t, p, "exists") /\ UNCHANGED node

\* Step(t, from, to): a step of t that leaves the node as it is.
Step(t, from, to) ==
  /\ At(t, from)
  /\ Goto(t, to)
  /\ UNCHANGED <<node, want, used>>

-----------------------------------------------------------------------------
(***************************************************************************)
(* Publish.                                                                *)
(***************************************************************************)
\* Variants: a directory that exists was made by an attempt that got through,
AfterIsMountedExists(p) ==
  CASE p \in stale -> "error" [] p \in dirs \ stale -> "ok" [] p \notin dirs -> "mkdir"
\* mount will see for itself whether the path is mounted.
AfterIsMountedIgnored(p) ==
  CASE p \in stale -> "error" [] p \in dirs \ stale -> "mount" [] p \notin dirs -> "mkdir"
\* IsLikelyNotMountPoint cannot read a stale mount.
AfterIsMounted(p) ==
  CASE p \in stale          -> "error"
    [] p \in mounts \ stale -> "ok"
    [] p \in dirs \ mounts  -> "mount"
    [] p \notin dirs        -> "mkdir"

IsMounted(t) == Step(t, "isMounted", AfterIsMounted(thread[t].path))

MakeDir(t) ==
  /\ At(t, "mkdir")
  /\ dirs' = dirs \cup {thread[t].path}
  /\ Goto(t, "mount")
  /\ UNCHANGED <<mounts, stale, want, used>>

\* Mounting needs the directory; the share is not mounted twice at one path.
Mount(t) ==
  LET p == thread[t].path
      ok == p \in dirs \ mounts
  IN /\ At(t, "mount")
     /\ mounts' = IF ok THEN mounts \cup {p} ELSE mounts
     /\ Goto(t, IF ok THEN "ok" ELSE "error")
     /\ UNCHANGED <<dirs, stale, want, used>>

-----------------------------------------------------------------------------
(***************************************************************************)
(* Unpublish: CleanupMountPoint.                                           *)
(***************************************************************************)
\* Variants: a path that is not there is an error, a path that cannot be read is not there.
AfterExistsStrict(p) ==
  CASE p \notin dirs -> "error" [] p \in stale -> "unmount" [] p \in dirs \ stale -> "check"
AfterExistsUnreadable(p) ==
  CASE p \notin dirs -> "ok" [] p \in stale -> "ok" [] p \in dirs \ stale -> "check"
\* A stale mount (IsCorruptedMnt) is unmounted without a further look.
AfterExists(p) ==
  CASE p \notin dirs       -> "ok"
    [] p \in stale         -> "unmount"
    [] p \in dirs \ stale  -> "check"

Exists(t) == Step(t, "exists", AfterExists(thread[t].path))

\* IsNotMountPoint, before and after the unmount.
AfterCheck(p) ==
  CASE p \in stale \/ p \notin dirs -> "error"
    [] p \in mounts \ stale         -> "unmount"
    [] p \in dirs \ mounts          -> "remove"
Check(t) == Step(t, "check", AfterCheck(thread[t].path))
Recheck(t) == Step(t, "recheck", IF thread[t].path \in dirs \ mounts THEN "remove" ELSE "error")

Unmount(t) ==
  LET p == thread[t].path
  IN /\ At(t, "unmount")
     /\ mounts' = mounts \ {p}
     /\ stale' = stale \ {p}
     /\ Goto(t, IF p \in mounts THEN "recheck" ELSE "error")
     /\ UNCHANGED <<dirs, want, used>>

\* Variant: the path goes, whatever was mounted there since the second look.
RemoveUnlooked(t) ==
  /\ At(t, "remove")
  /\ dirs' = dirs \ {thread[t].path}
  /\ Goto(t, "ok")
  /\ UNCHANGED <<mounts, stale, want, used>>
\* os.Remove takes an empty directory that is not a mount point.
Remove(t) ==
  LET p == thread[t].path
      ok == p \in dirs \ mounts
  IN /\ At(t, "remove")
     /\ dirs' = IF ok THEN dirs \ {p} ELSE dirs
     /\ Goto(t, IF ok THEN "ok" ELSE "error")
     /\ UNCHANGED <<mounts, stale, want, used>>

-----------------------------------------------------------------------------
(***************************************************************************)
(* Faults.                                                                 *)
(***************************************************************************)
Fail(t) ==
  /\ CountUse("fails", MaxFails)
  /\ thread[t].op # "idle" /\ thread[t].pc \in PublishSteps \cup UnpublishSteps
  /\ Goto(t, "error")
  /\ UNCHANGED <<node, want>>

Timeout(t) == GiveUp(t) /\ UNCHANGED node
Crash      == Die /\ UNCHANGED node

\* The dataset is deleted, or the appliance restarted without the share.
GoStale(p) ==
  /\ p \in mounts \ stale
  /\ stale' = stale \cup {p}
  /\ UNCHANGED <<mounts, dirs, kubelet>>

-----------------------------------------------------------------------------
Run(t) ==
  \/ Answer(t, Errors) /\ UNCHANGED node
  \/ IsMounted(t) \/ MakeDir(t) \/ Mount(t)
  \/ Exists(t) \/ Check(t) \/ Unmount(t) \/ Recheck(t) \/ Remove(t)

Next ==
  \/ \E t \in Threads :
       \/ Run(t) \/ Fail(t) \/ Timeout(t)
       \/ \E p \in Paths : NodePublishVolume(t, p) \/ NodeUnpublishVolume(t, p)
  \/ \E p \in Paths : GoStale(p)
  \/ Crash

Spec == Init /\ [][Next]_vars

RetryUnpublish(p) == want[p] = "unpublishing" /\ \E t \in Threads : NodeUnpublishVolume(t, p)
RetryPublish(p) == want[p] \in {"failed", "uncertain"} /\ \E t \in Threads : NodePublishVolume(t, p)

\* Every handler runs on.  Kubelet retries what has not succeeded yet, and since it
\* waits longer after each failure, a path whose publish always fails does not keep
\* the others from their turn.
RunsOn(t)   == WF_vars(Run(t))
Retried(p)  == SF_vars(RetryUnpublish(p)) /\ SF_vars(RetryPublish(p))
Fairness    == (\A t \in Threads : RunsOn(t)) /\ (\A p \in Paths : Retried(p))

FairSpec == Spec /\ Fairness

-----------------------------------------------------------------------------
(***************************************************************************)
(* Properties.                                                             *)
(***************************************************************************)
TypeOK ==
  /\ stale \subseteq mounts /\ mounts \subseteq dirs /\ dirs \subseteq Paths
  /\ thread \in [Threads -> ThreadType(PublishSteps \cup UnpublishSteps \cup {"ok"} \cup Errors)]
  /\ want \in [Paths -> Beliefs]
  /\ used \in UsedType

(***************************************************************************)
(* A path that kubelet believes published has the share mounted, even when *)
(* handlers that kubelet gave up on mount, unmount and remove paths beside *)
(* the ones it waits for (nfs.go:372-400).                                 *)
(***************************************************************************)
PublishedIsMounted == \A p \in Paths : want[p] = "published" => p \in mounts

(***************************************************************************)
(* Until kubelet gives up on a handler, whose mount may come after the     *)
(* unpublish, the handlers do what kubelet counts on: mounted in publish   *)
(* only, until unpublish, and not any more when that succeeds              *)
(* (nfs.go:337-415).                                                       *)
(***************************************************************************)
Path == INSTANCE PublishedPath WITH mounted <- mounts
ImplementsPublishedPath ==
  Path!Init /\ [][used'["timeouts"] = 0 => Path!Next]_<<want, mounts>>

(***************************************************************************)
(* When faults stop, an unpublish gets through, also of a mount that went  *)
(* stale, from wherever an earlier attempt, or a publish that kubelet gave *)
(* up on, left the path (nfs.go:407).  And a publish gets through (or the  *)
(* pod is deleted), also when an earlier attempt made the directory or the *)
(* mount and its answer was lost (nfs.go:372-385); only a mount that went  *)
(* stale is in its way.                                                    *)
(***************************************************************************)
GetsUnpublished(p) == want[p] = "unpublishing" ~> want[p] = "done"
GetsPublished(p) ==
  want[p] \in {"publishing", "failed", "uncertain"}
    ~> want[p] \in {"published", "unpublishing"} \/ p \in stale
UnpublishConverges == \A p \in Paths : GetsUnpublished(p)
PublishConverges == \A p \in Paths : GetsPublished(p)
Converges == UnpublishConverges /\ PublishConverges
=============================================================================
