------------------------------- MODULE Kubelet -------------------------------
(***************************************************************************)
(* Kubelet on one node, for one volume, and the handlers its calls start   *)
(* in the node plugin (pkg/driver/node.go).  A handler is a goroutine that *)
(* does not look at its context: when kubelet stops waiting for it, it     *)
(* runs on beside the handler of kubelet's retry.  IscsiNode and NfsNode   *)
(* say what the handlers do.                                               *)
(*                                                                         *)
(* Kubelet mounts the volume for one pod at a time and unmounts it for     *)
(* several at once; a target path belongs to one pod, so once it is        *)
(* unpublished it is not used again.                                       *)
(***************************************************************************)
EXTENDS Integers

CONSTANTS
  Paths,            \* target paths of the pods that use the volume
  NoPath,           \* the path of a handler that is idle
  Threads,          \* handlers that may run at the same time
  MaxOverlaps,      \* how often kubelet may start an unmount beside another,
  MaxFails,         \* how many operations may fail,
  MaxTimeouts,      \* how often kubelet may give up waiting,
  MaxCrashes        \* and how often the node plugin may die

ASSUME NoPathAssumption == NoPath \notin Paths
ASSUME BoundsAssumption == {MaxOverlaps, MaxFails, MaxTimeouts, MaxCrashes} \subseteq Nat

VARIABLES
  thread,   \* the handlers
  want,     \* what kubelet believes of each path
  used      \* overlaps and faults so far

kubelet == <<thread, want, used>>

Beliefs  == {"none", "publishing", "failed", "uncertain", "published", "unpublishing", "done"}
UsedType == [overlaps : Nat, fails : Nat, timeouts : Nat, crashes : Nat]

\* A handler's type, given its steps; live is whether kubelet waits for its answer.
ThreadType(steps) ==
  [op : {"idle", "publish", "unpublish"}, path : Paths \cup {NoPath}, pc : steps, live : BOOLEAN]

Idle == [op |-> "idle", path |-> NoPath, pc |-> "ok", live |-> FALSE]

KubeletInit ==
  /\ thread = [t \in Threads |-> Idle]
  /\ want = [p \in Paths |-> "none"]
  /\ used = [overlaps |-> 0, fails |-> 0, timeouts |-> 0, crashes |-> 0]

At(t, pc) == thread[t].op # "idle" /\ thread[t].pc = pc
Goto(t, pc) == thread' = [thread EXCEPT ![t].pc = pc]

CountUse(kind, max) == used[kind] < max /\ used' = [used EXCEPT ![kind] = @ + 1]

Waiting(ops, paths) == \E t \in Threads : thread[t].live /\ thread[t].op \in ops /\ thread[t].path \in paths

Start(t, op, p, pc) ==
  /\ thread[t].op = "idle"
  /\ thread' = [thread EXCEPT ![t] = [op |-> op, path |-> p, pc |-> pc, live |-> TRUE]]

-----------------------------------------------------------------------------
\* The calls; pc is the first step of the handler.
Publish(t, p, pc) ==
  /\ want[p] \in {"none", "failed", "uncertain"}
  /\ ~Waiting({"publish", "unpublish"}, Paths)
  /\ Start(t, "publish", p, pc)
  /\ want' = [want EXCEPT ![p] = "publishing"]
  /\ UNCHANGED used

\* Kubelet does not unpublish a path whose publish it knows to have failed.
Unpublish(t, p, pc) ==
  /\ want[p] \in {"published", "uncertain", "unpublishing"}
  /\ ~Waiting({"publish"}, Paths)
  /\ ~Waiting({"unpublish"}, {p})
  /\ IF Waiting({"unpublish"}, Paths) THEN CountUse("overlaps", MaxOverlaps) ELSE UNCHANGED used
  /\ Start(t, "unpublish", p, pc)
  /\ want' = [want EXCEPT ![p] = "unpublishing"]

Believed(op, ok) ==
  CASE op = "publish"   -> IF ok THEN "published" ELSE "failed"
    [] op = "unpublish" -> IF ok THEN "done" ELSE "unpublishing"

\* The handler answers with success ("ok") or an error, to kubelet if it still waits.
Answer(t, errors) ==
  LET h == thread[t]
  IN /\ h.op # "idle" /\ h.pc \in {"ok"} \cup errors
     /\ want' = IF h.live THEN [want EXCEPT ![h.path] = Believed(h.op, h.pc = "ok")] ELSE want
     /\ thread' = [thread EXCEPT ![t] = Idle]
     /\ UNCHANGED used

\* Kubelet gives up waiting; the handler does not notice.
GiveUp(t) ==
  /\ thread[t].live
  /\ CountUse("timeouts", MaxTimeouts)
  /\ thread' = [thread EXCEPT ![t].live = FALSE]
  /\ want' = IF thread[t].op = "publish" THEN [want EXCEPT ![thread[t].path] = "uncertain"] ELSE want

\* The plugin dies and is restarted.
Die ==
  /\ \E t \in Threads : thread[t].op # "idle"
  /\ CountUse("crashes", MaxCrashes)
  /\ thread' = [t \in Threads |-> Idle]
  /\ want' = [p \in Paths |-> IF Waiting({"publish"}, {p}) THEN "uncertain" ELSE want[p]]
=============================================================================
