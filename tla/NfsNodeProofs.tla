---------------------------- MODULE NfsNodeProofs ----------------------------
(***************************************************************************)
(* Theorems about NfsNode, for any number of target paths, handlers and    *)
(* faults.                                                                 *)
(***************************************************************************)
EXTENDS NfsNode, KubeletProofs

Steps == PublishSteps \cup UnpublishSteps \cup {"ok"} \cup Errors

(***************************************************************************)
(* The inductive invariant, with KubeletInv.  StepsInv: every handler      *)
(* keeps to its own steps.  MountedInv: a publish that is about to         *)
(* succeed, and one that did, left its path mounted.  UnmountedInv: until  *)
(* kubelet gives up, an unpublish that is about to succeed left its path   *)
(* unmounted.                                                              *)
(***************************************************************************)
StepsInv ==
  \A t \in Threads :
    /\ thread[t].op = "publish" => thread[t].pc \in PublishSteps \cup {"ok"} \cup Errors
    /\ thread[t].op = "unpublish" => thread[t].pc \in UnpublishSteps \cup {"ok"} \cup Errors

MountedInv ==
  /\ PublishedIsMounted
  /\ \A t \in Threads : Publishing(t) /\ thread[t].pc = "ok" => thread[t].path \in mounts

UnmountedInv ==
  used["timeouts"] = 0 =>
    \A t \in Threads : thread[t].op = "unpublish" /\ thread[t].pc = "ok" => thread[t].path \notin mounts

NodeType == stale \subseteq mounts /\ mounts \subseteq dirs /\ dirs \subseteq Paths

Inv == NodeType /\ KubeletType(Steps) /\ KubeletInv /\ StepsInv /\ MountedInv /\ UnmountedInv

LEMMA TypeParts == TypeOK <=> NodeType /\ KubeletType(Steps)
BY DEF TypeOK, NodeType, KubeletType, Steps

LEMMA InvInit == Init => Inv
<1> SUFFICES ASSUME Init PROVE Inv
  OBVIOUS
<1>1. KubeletType(Steps) /\ KubeletInv
  BY KubeletInitInv DEF Init, Steps
<1>2. StepsInv /\ MountedInv /\ UnmountedInv /\ NodeType
  BY DEF Init, KubeletInit, StepsInv, MountedInv, UnmountedInv, PublishedIsMounted, Publishing, Idle, NodeType
<1> QED
  BY <1>1, <1>2 DEF Inv

-----------------------------------------------------------------------------
(***************************************************************************)
(* The handlers' steps.                                                    *)
(***************************************************************************)
\* What every step of a handler does: it stays within its call, mounts the path of a
\* publish or unmounts that of an unpublish, and succeeds when that is done.
Moves(t, pc) ==
  /\ Running(t) /\ Goto(t, pc) /\ pc \in Steps /\ want' = want
  /\ used' \in UsedType /\ used'["timeouts"] = used["timeouts"]
  /\ thread[t].op = "publish" => pc \in PublishSteps \cup {"ok"} \cup Errors
  /\ thread[t].op = "unpublish" => pc \in UnpublishSteps \cup {"ok"} \cup Errors
  /\ NodeType'
  /\ \/ mounts' = mounts
     \/ thread[t].op = "publish" /\ mounts' = mounts \cup {thread[t].path}
     \/ thread[t].op = "unpublish" /\ mounts' = mounts \ {thread[t].path}
  /\ thread[t].op = "publish" /\ pc = "ok" => thread[t].path \in mounts'
  /\ thread[t].op = "unpublish" /\ pc = "ok" => thread[t].path \notin mounts'

LEMMA MoveKeepsInv ==
  ASSUME Inv, NEW t \in Threads, NEW pc, Moves(t, pc)
  PROVE  Inv'
<1>1. /\ KubeletType(Steps)' /\ KubeletInv'
      /\ \A u \in Threads : /\ thread'[u].op = thread[u].op /\ thread'[u].path = thread[u].path
                            /\ thread'[u].live = thread[u].live
                            /\ thread'[u].pc = IF u = t THEN pc ELSE thread[u].pc
  BY GotoEffect DEF Inv, Moves
<1>2. StepsInv'
  BY <1>1 DEF Inv, StepsInv, Moves
<1>3. \A p \in Paths : want[p] \in {"published", "publishing"} /\ p \in mounts => p \in mounts'
  BY DEF Inv, KubeletInv, LateInv, Moves
<1>4. PublishedIsMounted'
  BY <1>3 DEF Inv, MountedInv, PublishedIsMounted, Moves
<1>5. ASSUME NEW u \in Threads, Publishing(u)', thread'[u].pc = "ok"
      PROVE  thread'[u].path \in mounts'
  <2>1. Publishing(u) /\ thread'[u].path = thread[u].path /\ thread[u].path \in Paths
    BY <1>5, <1>1 DEF Publishing, Inv, KubeletInv, HandlersInv, Running
  <2>2. CASE u = t
    BY <2>1, <2>2, <1>5, <1>1 DEF Publishing, Moves
  <2>3. CASE u # t
    BY <2>1, <2>3, <1>5, <1>3, <1>1 DEF Inv, MountedInv, KubeletInv, WaitsInv
  <2> QED
    BY <2>2, <2>3
<1>6. ASSUME used'["timeouts"] = 0, NEW u \in Threads, thread'[u].op = "unpublish", thread'[u].pc = "ok"
      PROVE  thread'[u].path \notin mounts'
  <2>1. CASE u = t
    BY <2>1, <1>6, <1>1 DEF Moves
  <2>2. CASE u # t
    <3>1. thread[u].path \notin mounts
      BY <2>2, <1>6, <1>1 DEF Inv, UnmountedInv, Moves
    <3>2. thread[t].live /\ thread[u].live
      BY <1>6, <1>1 DEF Moves, Inv, KubeletInv, PunctualInv, Running
    <3>3. thread[t].op # "publish"
      BY <2>2, <3>2 DEF Inv, KubeletInv, WaitsInv, Publishing
    <3> QED
      BY <3>1, <3>3, <1>1 DEF Moves
  <2> QED
    BY <2>1, <2>2
<1> QED
  BY <1>1, <1>2, <1>4, <1>5, <1>6 DEF Inv, MountedInv, UnmountedInv, Moves

\* Every step of a handler, up to its answer, is such a step.
LEMMA StepMoves ==
  ASSUME Inv, NEW t \in Threads, Run(t), ~Answer(t, Errors)
  PROVE  \E pc \in Steps : Moves(t, pc)
<1> USE DEF PublishSteps, UnpublishSteps, Errors
<1>0. NodeType /\ used \in UsedType
  BY DEF Inv, KubeletType
<1>1. \A pc : At(t, pc) /\ pc \notin {"ok", "error"} =>
        /\ Running(t) /\ thread[t].path \in Paths
        /\ thread[t].op = IF pc \in PublishSteps THEN "publish" ELSE "unpublish"
  BY DEF At, Running, Inv, KubeletInv, HandlersInv, StepsInv, KubeletType, ThreadType
<1>2. CASE IsMounted(t)
  <2>1. /\ AfterIsMounted(thread[t].path) \in {"error", "ok", "mount", "mkdir"}
        /\ AfterIsMounted(thread[t].path) = "ok" => thread[t].path \in mounts
    BY <1>0, <1>1, <1>2 DEF AfterIsMounted, NodeType, IsMounted, Step
  <2> QED
    BY <1>0, <1>1, <1>2, <2>1 DEF Moves, IsMounted, Step, node, NodeType, Steps
<1>3. CASE MakeDir(t)
  BY <1>0, <1>1, <1>3 DEF Moves, MakeDir, NodeType, Steps
<1>4. CASE Mount(t)
  <2>1. CASE thread[t].path \in dirs \ mounts
    <3>1. Moves(t, "ok")
      BY <1>0, <1>1, <1>4, <2>1 DEF Moves, Mount, NodeType, Steps
    <3> QED
      BY <3>1 DEF Steps
  <2>2. CASE thread[t].path \notin dirs \ mounts
    <3>1. Moves(t, "error")
      BY <1>0, <1>1, <1>4, <2>2 DEF Moves, Mount, NodeType, Steps
    <3> QED
      BY <3>1 DEF Steps
  <2> QED
    BY <2>1, <2>2
<1>5. CASE Exists(t)
  <2>1. /\ AfterExists(thread[t].path) \in {"ok", "unmount", "check"}
        /\ AfterExists(thread[t].path) = "ok" => thread[t].path \notin mounts
    BY <1>0, <1>1, <1>5 DEF AfterExists, NodeType, Exists, Step
  <2> QED
    BY <1>0, <1>1, <1>5, <2>1 DEF Moves, Exists, Step, node, NodeType, Steps
<1>6. CASE Check(t)
  <2>1. AfterCheck(thread[t].path) \in {"error", "unmount", "remove"}
    BY <1>0, <1>1, <1>6 DEF AfterCheck, NodeType, Check, Step
  <2> QED
    BY <1>0, <1>1, <1>6, <2>1 DEF Moves, Check, Step, node, NodeType, Steps
<1>7. CASE Recheck(t)
  BY <1>0, <1>1, <1>7 DEF Moves, Recheck, Step, node, NodeType, Steps
<1>8. CASE Unmount(t)
  <2>1. Moves(t, IF thread[t].path \in mounts THEN "recheck" ELSE "error")
    BY <1>0, <1>1, <1>8 DEF Moves, Unmount, NodeType, Steps
  <2> QED
    BY <2>1 DEF Steps
<1>9. CASE Remove(t)
  <2>1. Moves(t, IF thread[t].path \in dirs \ mounts THEN "ok" ELSE "error")
    BY <1>0, <1>1, <1>9 DEF Moves, Remove, NodeType, Steps
  <2> QED
    BY <2>1 DEF Steps
<1> QED
  BY <1>2, <1>3, <1>4, <1>5, <1>6, <1>7, <1>8, <1>9 DEF Run

LEMMA FailMoves ==
  ASSUME Inv, NEW t \in Threads, Fail(t)
  PROVE  Moves(t, "error")
<1>1. NodeType /\ used' \in UsedType /\ used'["timeouts"] = used["timeouts"]
  BY CountTyped DEF Fail, Inv, KubeletType
<1> QED
  BY <1>1 DEF Moves, Fail, Running, node, NodeType, Steps, Errors

-----------------------------------------------------------------------------
(***************************************************************************)
(* Answers, kubelet's calls, and faults, all of which leave the node.      *)
(***************************************************************************)
LEMMA AnswerKeepsInv ==
  ASSUME Inv, NEW t \in Threads, Answer(t, Errors), UNCHANGED node
  PROVE  Inv'
<1>1. /\ KubeletType(Steps)' /\ KubeletInv' /\ used' = used
      /\ \A u \in Threads : u # t => thread'[u] = thread[u]
      /\ thread'[t].op = "idle"
      /\ \A p \in Paths : want'[p] = "published" =>
           want[p] = "published" \/ (Publishing(t) /\ thread[t].path = p /\ thread[t].pc = "ok")
  <2>1. "ok" \in Steps
    BY DEF Steps
  <2>2. /\ Running(t) => thread[t].op \in {"publish", "unpublish"}
        /\ want \in [Paths -> Beliefs]
    BY DEF Inv, Running, KubeletType, ThreadType
  <2> QED
    BY <2>1, <2>2, AnswerEffect DEF Inv, Idle, Publishing
<1>2. NodeType' /\ mounts' = mounts
  BY DEF node, Inv, NodeType
<1>3. StepsInv' /\ UnmountedInv'
  BY <1>1, <1>2 DEF Inv, StepsInv, UnmountedInv
<1>4. MountedInv'
  BY <1>1, <1>2 DEF Inv, MountedInv, PublishedIsMounted, Publishing
<1> QED
  BY <1>1, <1>2, <1>3, <1>4 DEF Inv

LEMMA PublishKeepsInv ==
  ASSUME Inv, NEW t \in Threads, NEW p \in Paths, NodePublishVolume(t, p)
  PROVE  Inv'
<1>1. /\ KubeletType(Steps)' /\ KubeletInv' /\ used' = used
      /\ \A u \in Threads : u # t => thread'[u] = thread[u]
      /\ thread'[t].op = "publish" /\ thread'[t].pc = "isMounted"
      /\ \A q \in Paths : want'[q] = "published" => want[q] = "published"
  <2>1. "isMounted" \in Steps /\ KubeletType(Steps) /\ KubeletInv
    BY DEF Inv, Steps, PublishSteps
  <2>2. Publish(t, p, "isMounted")
    BY DEF NodePublishVolume
  <2>3. /\ KubeletType(Steps)' /\ KubeletInv' /\ used' = used
        /\ \A u \in Threads : u # t => thread'[u] = thread[u]
        /\ thread'[t] = [op |-> "publish", path |-> p, pc |-> "isMounted", live |-> TRUE]
        /\ want' = [want EXCEPT ![p] = "publishing"]
    BY <2>1, <2>2, PublishEffect
  <2> QED
    BY <2>1, <2>3 DEF KubeletType
<1>2. NodeType' /\ mounts' = mounts
  BY DEF NodePublishVolume, node, Inv, NodeType
<1>3. StepsInv' /\ UnmountedInv'
  BY <1>1, <1>2 DEF Inv, StepsInv, UnmountedInv, PublishSteps
<1>4. MountedInv'
  BY <1>1, <1>2 DEF Inv, MountedInv, PublishedIsMounted, Publishing
<1> QED
  BY <1>1, <1>2, <1>3, <1>4 DEF Inv

LEMMA UnpublishKeepsInv ==
  ASSUME Inv, NEW t \in Threads, NEW p \in Paths, NodeUnpublishVolume(t, p)
  PROVE  Inv'
<1>1. /\ KubeletType(Steps)' /\ KubeletInv' /\ used'["timeouts"] = used["timeouts"]
      /\ \A u \in Threads : u # t => thread'[u] = thread[u]
      /\ thread'[t].op = "unpublish" /\ thread'[t].pc = "exists"
      /\ \A q \in Paths : want'[q] = "published" => want[q] = "published"
  <2>1. "exists" \in Steps /\ KubeletType(Steps) /\ KubeletInv
    BY DEF Inv, Steps, UnpublishSteps
  <2>2. Unpublish(t, p, "exists")
    BY DEF NodeUnpublishVolume
  <2>3. /\ KubeletType(Steps)' /\ KubeletInv' /\ used'["timeouts"] = used["timeouts"]
        /\ \A u \in Threads : u # t => thread'[u] = thread[u]
        /\ thread'[t] = [op |-> "unpublish", path |-> p, pc |-> "exists", live |-> TRUE]
        /\ want' = [want EXCEPT ![p] = "unpublishing"]
    BY <2>1, <2>2, UnpublishEffect
  <2> QED
    BY <2>1, <2>3 DEF KubeletType
<1>2. NodeType' /\ mounts' = mounts
  BY DEF NodeUnpublishVolume, node, Inv, NodeType
<1>3. StepsInv' /\ UnmountedInv'
  BY <1>1, <1>2 DEF Inv, StepsInv, UnmountedInv, UnpublishSteps
<1>4. MountedInv'
  BY <1>1, <1>2 DEF Inv, MountedInv, PublishedIsMounted, Publishing
<1> QED
  BY <1>1, <1>2, <1>3, <1>4 DEF Inv

LEMMA TimeoutKeepsInv ==
  ASSUME Inv, NEW t \in Threads, Timeout(t)
  PROVE  Inv'
<1>1. /\ KubeletType(Steps)' /\ KubeletInv' /\ used'["timeouts"] # 0
      /\ \A u \in Threads : /\ thread'[u].op = thread[u].op /\ thread'[u].path = thread[u].path
                            /\ thread'[u].pc = thread[u].pc /\ (thread'[u].live => thread[u].live)
      /\ \A p \in Paths : want'[p] = "published" => want[p] = "published"
  BY GiveUpEffect DEF Inv, Timeout
<1>2. NodeType' /\ mounts' = mounts
  BY DEF Timeout, node, Inv, NodeType
<1>3. StepsInv' /\ UnmountedInv'
  BY <1>1, <1>2 DEF Inv, StepsInv, UnmountedInv
<1>4. MountedInv'
  BY <1>1, <1>2 DEF Inv, MountedInv, PublishedIsMounted, Publishing
<1> QED
  BY <1>1, <1>2, <1>3, <1>4 DEF Inv

LEMMA CrashKeepsInv ==
  ASSUME Inv, Crash
  PROVE  Inv'
<1>1. /\ KubeletType(Steps)' /\ KubeletInv'
      /\ \A u \in Threads : thread'[u].op = "idle"
      /\ \A p \in Paths : want'[p] = "published" => want[p] = "published"
  <2>1. "ok" \in Steps
    BY DEF Steps
  <2> QED
    BY <2>1, DieEffect DEF Inv, Crash, Idle
<1>2. NodeType' /\ mounts' = mounts
  BY DEF Crash, node, Inv, NodeType
<1>3. StepsInv' /\ UnmountedInv'
  BY <1>1 DEF StepsInv, UnmountedInv
<1>4. MountedInv'
  BY <1>1, <1>2 DEF Inv, MountedInv, PublishedIsMounted, Publishing
<1> QED
  BY <1>1, <1>2, <1>3, <1>4 DEF Inv

\* A step that leaves kubelet and what is mounted alone.
LEMMA QuietKeepsInv ==
  ASSUME Inv, UNCHANGED <<mounts, dirs, thread, want, used>>, stale' \subseteq mounts
  PROVE  Inv'
BY DEF Inv, NodeType, KubeletType, KubeletInv, HandlersInv, WaitsInv, LateInv, PunctualInv, StepsInv, MountedInv,
       UnmountedInv, PublishedIsMounted, Running, Publishing

LEMMA InvStep == Inv /\ [Next]_vars => Inv'
<1> SUFFICES ASSUME Inv, [Next]_vars PROVE Inv'
  OBVIOUS
<1>1. ASSUME NEW t \in Threads, Run(t)
      PROVE  Inv'
  <2>1. CASE Answer(t, Errors)
    <3>1. UNCHANGED node
      BY <1>1, <2>1 DEF Run, Answer, At, IsMounted, MakeDir, Mount, Exists, Check, Recheck, Unmount, Remove, Step, Errors
    <3> QED
      BY <2>1, <3>1, AnswerKeepsInv
  <2>2. CASE ~Answer(t, Errors)
    BY <1>1, <2>2, StepMoves, MoveKeepsInv
  <2> QED
    BY <2>1, <2>2
<1>2. ASSUME NEW t \in Threads, Fail(t)
      PROVE  Inv'
  BY <1>2, FailMoves, MoveKeepsInv
<1>3. ASSUME NEW p \in Paths, GoStale(p)
      PROVE  Inv'
  BY <1>3, QuietKeepsInv DEF GoStale, kubelet, Inv, NodeType
<1>4. CASE UNCHANGED vars
  BY <1>4, QuietKeepsInv DEF vars, Inv, NodeType
<1> QED
  BY <1>1, <1>2, <1>3, <1>4, PublishKeepsInv, UnpublishKeepsInv, TimeoutKeepsInv, CrashKeepsInv DEF Next

LEMMA Invariant == Spec => []Inv
BY InvInit, InvStep, PTL DEF Spec

-----------------------------------------------------------------------------
(***************************************************************************)
(* The state is always as TypeOK says; above all nothing is mounted where  *)
(* there is no directory.                                                  *)
(***************************************************************************)
THEOREM TypeCorrect == Spec => []TypeOK
<1>1. Inv => TypeOK
  BY TypeParts DEF Inv
<1> QED
  BY <1>1, Invariant, PTL

(***************************************************************************)
(* However many handlers run on after kubelet gave up on them, a path that *)
(* kubelet believes published has the share mounted (nfs.go:372-400).      *)
(***************************************************************************)
THEOREM PublishedAlwaysMounted == Spec => []PublishedIsMounted
<1>1. Inv => PublishedIsMounted
  BY DEF Inv, MountedInv
<1> QED
  BY <1>1, Invariant, PTL

-----------------------------------------------------------------------------
(***************************************************************************)
(* Kubelet waits for a handler of every path that it is publishing.        *)
(***************************************************************************)
AwaitedInv ==
  \A p \in Paths : want[p] = "publishing" => \E t \in Threads : Publishing(t) /\ thread[t].path = p

\* A handler that goes on is awaited as before.
LEMMA MoveKeepsAwaited ==
  ASSUME Inv, AwaitedInv, NEW t \in Threads, NEW pc, Moves(t, pc)
  PROVE  AwaitedInv'
<1>1. \A u \in Threads : /\ thread'[u].op = thread[u].op /\ thread'[u].path = thread[u].path
                         /\ thread'[u].live = thread[u].live
  BY GotoEffect DEF Inv, Moves
<1> QED
  BY <1>1 DEF AwaitedInv, Moves, Publishing

LEMMA AnswerKeepsAwaited ==
  ASSUME Inv, AwaitedInv, NEW t \in Threads, Answer(t, Errors)
  PROVE  AwaitedInv'
<1>1. /\ \A u \in Threads : u # t => thread'[u] = thread[u]
      /\ \A p \in Paths : want'[p] = "publishing" =>
           want[p] = "publishing" /\ ~(Publishing(t) /\ thread[t].path = p)
  <2>1. "ok" \in Steps
    BY DEF Steps
  <2>2. /\ Running(t) => thread[t].op \in {"publish", "unpublish"}
        /\ want \in [Paths -> Beliefs]
    BY DEF Inv, Running, KubeletType, ThreadType
  <2> QED
    BY <2>1, <2>2, AnswerEffect DEF Inv, Publishing
<1> QED
  BY <1>1 DEF AwaitedInv, Publishing

\* When kubelet starts a handler it waits for no publish, so nothing else is published.
LEMMA StartKeepsAwaited ==
  ASSUME Inv, AwaitedInv, NEW t \in Threads, NEW p \in Paths,
         NodePublishVolume(t, p) \/ NodeUnpublishVolume(t, p)
  PROVE  AwaitedInv'
<1>0. {"isMounted", "exists"} \subseteq Steps /\ KubeletType(Steps) /\ KubeletInv /\ want \in [Paths -> Beliefs]
  BY DEF Inv, Steps, PublishSteps, UnpublishSteps, KubeletType
<1>1. CASE NodePublishVolume(t, p)
  <2>1. /\ \A u \in Threads : ~thread[u].live
        /\ thread'[t] = [op |-> "publish", path |-> p, pc |-> "isMounted", live |-> TRUE]
        /\ want' = [want EXCEPT ![p] = "publishing"]
    BY <1>0, <1>1, PublishEffect DEF NodePublishVolume
  <2>2. \A q \in Paths : want'[q] = "publishing" => q = p
    BY <1>0, <2>1 DEF AwaitedInv, Publishing
  <2> QED
    BY <2>1, <2>2 DEF AwaitedInv, Publishing
<1>2. CASE NodeUnpublishVolume(t, p)
  <2>1. /\ \A u \in Threads : ~Publishing(u)
        /\ want' = [want EXCEPT ![p] = "unpublishing"]
    BY <1>0, <1>2, UnpublishEffect DEF NodeUnpublishVolume
  <2> QED
    BY <1>0, <2>1 DEF AwaitedInv
<1> QED
  BY <1>1, <1>2

LEMMA TimeoutKeepsAwaited ==
  ASSUME Inv, AwaitedInv, NEW t \in Threads, Timeout(t)
  PROVE  AwaitedInv'
<1>1. /\ \A u \in Threads : /\ thread'[u].op = thread[u].op /\ thread'[u].path = thread[u].path
                            /\ thread'[u].live = (u # t /\ thread[u].live)
      /\ \A p \in Paths : want'[p] # want[p] => want[p] = "publishing" /\ want'[p] = "uncertain"
      /\ thread[t].path \in Paths
  BY GiveUpEffect DEF Inv, Timeout
<1>2. thread[t].op = "publish" => want'[thread[t].path] = "uncertain"
  BY <1>1 DEF Timeout, GiveUp, Inv, KubeletType
<1>3. ASSUME NEW p \in Paths, want'[p] = "publishing"
      PROVE  \E u \in Threads : Publishing(u)' /\ thread'[u].path = p
  <2>1. PICK u \in Threads : Publishing(u) /\ thread[u].path = p
    BY <1>1, <1>3 DEF AwaitedInv
  <2>2. u # t
    BY <1>2, <1>3, <2>1 DEF Publishing
  <2>3. thread'[u].op = "publish" /\ thread'[u].live /\ thread'[u].path = p
    BY <1>1, <2>1, <2>2 DEF Publishing
  <2> QED
    BY <2>3 DEF Publishing
<1> QED
  BY <1>3 DEF AwaitedInv

LEMMA CrashKeepsAwaited ==
  ASSUME Inv, AwaitedInv, Crash
  PROVE  AwaitedInv'
<1>1. \A p \in Paths : want'[p] = IF Waiting({"publish"}, {p}) THEN "uncertain" ELSE want[p]
  BY DEF Crash, Die
<1>2. \A p \in Paths : want[p] = "publishing" => Waiting({"publish"}, {p})
  BY DEF AwaitedInv, Publishing, Waiting
<1> QED
  BY <1>1, <1>2 DEF AwaitedInv

LEMMA AwaitedStep == Inv /\ AwaitedInv /\ [Next]_vars => AwaitedInv'
<1> SUFFICES ASSUME Inv, AwaitedInv, [Next]_vars PROVE AwaitedInv'
  OBVIOUS
<1>1. ASSUME NEW t \in Threads, Run(t) PROVE AwaitedInv'
  BY <1>1, StepMoves, MoveKeepsAwaited, AnswerKeepsAwaited
<1>2. ASSUME NEW t \in Threads, Fail(t) PROVE AwaitedInv'
  BY <1>2, FailMoves, MoveKeepsAwaited
<1>3. CASE (\E p \in Paths : GoStale(p)) \/ UNCHANGED vars
  BY <1>3 DEF GoStale, kubelet, vars, AwaitedInv, Publishing
<1> QED
  BY <1>1, <1>2, <1>3, StartKeepsAwaited, TimeoutKeepsAwaited, CrashKeepsAwaited DEF Next

LEMMA Awaited == Spec => []AwaitedInv
<1>1. Init => AwaitedInv
  BY DEF Init, KubeletInit, AwaitedInv
<1> QED
  BY <1>1, AwaitedStep, Invariant, PTL DEF Spec

-----------------------------------------------------------------------------
(***************************************************************************)
(* Every handler ends.  Left counts the steps that it may still take: each *)
(* step of its own takes one off, a failure leaves the answer only, and    *)
(* nothing else moves it, until it answers or the plugin dies.             *)
(***************************************************************************)
LeftAt ==
  [pc \in Steps |->
    CASE pc = "exists" -> 6
      [] pc = "check" -> 5
      [] pc \in {"unmount", "isMounted"} -> 4
      [] pc \in {"recheck", "mkdir"} -> 3
      [] pc \in {"remove", "mount"} -> 2
      [] pc \in {"ok", "error"} -> 1]
Left(h) == IF h.op = "idle" THEN 0 ELSE LeftAt[h.pc]

LEMMA LeftValues ==
  /\ LeftAt["exists"] = 6 /\ LeftAt["check"] = 5 /\ LeftAt["unmount"] = 4 /\ LeftAt["recheck"] = 3
  /\ LeftAt["remove"] = 2 /\ LeftAt["isMounted"] = 4 /\ LeftAt["mkdir"] = 3 /\ LeftAt["mount"] = 2
  /\ LeftAt["ok"] = 1 /\ LeftAt["error"] = 1
BY DEF LeftAt, Steps, PublishSteps, UnpublishSteps, Errors

LEMMA LeftRange ==
  ASSUME Inv, NEW t \in Threads
  PROVE  Left(thread[t]) \in 0..6 /\ (Left(thread[t]) = 0 <=> ~Running(t))
BY LeftValues DEF Left, Running, Inv, KubeletType, ThreadType, Steps, PublishSteps, UnpublishSteps, Errors

LEMMA RunFalls ==
  ASSUME Inv, NEW t \in Threads, Run(t)
  PROVE  Left(thread'[t]) < Left(thread[t])
<1>1. thread \in [Threads -> ThreadType(Steps)]
  BY DEF Inv, KubeletType
<1>2. ASSUME NEW pc, NEW to, At(t, pc), Goto(t, to)
      PROVE  Left(thread[t]) = LeftAt[pc] /\ Left(thread'[t]) = LeftAt[to]
  BY <1>1, <1>2 DEF At, Goto, Left, ThreadType
<1> USE LeftValues
<1>3. CASE Answer(t, Errors)
  BY <1>1, <1>3 DEF Answer, Left, Idle, Errors
<1>4. CASE IsMounted(t)
  <2>1. AfterIsMounted(thread[t].path) \in {"error", "ok", "mount", "mkdir"}
    BY DEF AfterIsMounted, Inv, NodeType
  <2> QED
    BY <1>2, <1>4, <2>1 DEF IsMounted, Step
<1>5. CASE MakeDir(t) \/ Mount(t)
  BY <1>2, <1>5 DEF MakeDir, Mount
<1>6. CASE Exists(t)
  <2>1. AfterExists(thread[t].path) \in {"ok", "unmount", "check"}
    BY DEF AfterExists
  <2> QED
    BY <1>2, <1>6, <2>1 DEF Exists, Step
<1>7. CASE Check(t)
  <2>1. AfterCheck(thread[t].path) \in {"error", "unmount", "remove"}
    BY DEF AfterCheck, Inv, NodeType
  <2> QED
    BY <1>2, <1>7, <2>1 DEF Check, Step
<1>8. CASE Unmount(t) \/ Recheck(t) \/ Remove(t)
  BY <1>2, <1>8 DEF Unmount, Recheck, Remove, Step
<1> QED
  BY <1>3, <1>4, <1>5, <1>6, <1>7, <1>8 DEF Run

\* No other handler moves it.
LEMMA RunAlone ==
  ASSUME Inv, NEW t \in Threads, NEW u \in Threads, u # t, Run(u) \/ Fail(u)
  PROVE  thread'[t] = thread[t]
<1>1. thread \in [Threads -> ThreadType(Steps)]
  BY DEF Inv, KubeletType
<1>2. (\E pc : Goto(u, pc)) \/ thread' = [thread EXCEPT ![u] = Idle]
  BY DEF Run, Answer, IsMounted, MakeDir, Mount, Exists, Check, Unmount, Recheck, Remove, Step, Fail
<1> QED
  BY <1>1, <1>2 DEF Goto

LEMMA NothingRises ==
  ASSUME Inv, [Next]_vars, NEW t \in Threads, Running(t)
  PROVE  Left(thread'[t]) = Left(thread[t]) \/ Left(thread'[t]) < Left(thread[t])
<1>0. thread \in [Threads -> ThreadType(Steps)] /\ {"isMounted", "exists"} \subseteq Steps
  BY DEF Inv, KubeletType, Steps, PublishSteps, UnpublishSteps
<1>1. ASSUME NEW u \in Threads, u # t, Run(u) \/ Fail(u) PROVE thread'[t] = thread[t]
  BY <1>1, RunAlone
<1>2. CASE Fail(t)
  <2>1. Left(thread'[t]) = 1 /\ Left(thread[t]) \in 2..6
    BY <1>0, <1>2, LeftValues DEF Fail, Goto, Left, ThreadType, PublishSteps, UnpublishSteps
  <2> QED
    BY <2>1
<1>3. ASSUME NEW u \in Threads, Timeout(u) PROVE Left(thread'[t]) = Left(thread[t])
  BY <1>0, <1>3 DEF Timeout, GiveUp, Left, ThreadType
<1>4. ASSUME NEW u \in Threads, NEW p \in Paths, NodePublishVolume(u, p) \/ NodeUnpublishVolume(u, p)
      PROVE  thread'[t] = thread[t]
  BY <1>0, <1>4 DEF NodePublishVolume, NodeUnpublishVolume, Publish, Unpublish, Start, Running
<1>5. CASE Crash
  <2>1. thread'[t] = Idle
    BY <1>5 DEF Crash, Die
  <2> QED
    BY <2>1, LeftRange DEF Left, Idle
<1>6. CASE (\E p \in Paths : GoStale(p)) \/ UNCHANGED vars
  BY <1>6 DEF GoStale, kubelet, vars
<1> QED
  BY <1>1, <1>2, <1>3, <1>4, <1>5, <1>6, RunFalls DEF Next

GoesOn(t) == thread[t].op # "idle" => ENABLED <<Run(t)>>_vars

\* So a handler with n steps left has less at some time.
Falls(t, n) ==
  Spec /\ RunsOn(t) /\ []GoesOn(t) => [](Left(thread[t]) = n => <>(Left(thread[t]) < n))

LEMMA LeftFalls == ASSUME NEW t \in Threads, NEW n \in 1..6 PROVE Falls(t, n)
<1>1. Inv /\ [Next]_vars /\ Left(thread[t]) = n => (Left(thread[t]) = n)' \/ (Left(thread[t]) < n)'
  BY NothingRises, LeftRange
<1>2. Inv /\ <<Run(t)>>_vars /\ Left(thread[t]) = n => (Left(thread[t]) < n)'
  BY RunFalls
<1>3. Inv /\ Left(thread[t]) = n => thread[t].op # "idle"
  BY LeftRange DEF Running
<1> QED
  BY <1>1, <1>2, <1>3, Invariant, PTL DEF Falls, GoesOn, RunsOn, Spec

Ends(t) == Spec /\ RunsOn(t) /\ []GoesOn(t) => []<>(~Running(t))

LEMMA HandlerEnds == ASSUME NEW t \in Threads PROVE Ends(t)
<1>1. Falls(t, 1) /\ Falls(t, 2) /\ Falls(t, 3) /\ Falls(t, 4) /\ Falls(t, 5) /\ Falls(t, 6)
  BY LeftFalls
<1> DEFINE L == Left(thread[t])
<1>2. Inv => /\ L = 1 \/ L = 2 \/ L = 3 \/ L = 4 \/ L = 5 \/ L = 6 \/ ~Running(t)
             /\ L < 1 => ~Running(t)
             /\ L < 2 => L = 1 \/ L < 1
             /\ L < 3 => L = 2 \/ L < 2
             /\ L < 4 => L = 3 \/ L < 3
             /\ L < 5 => L = 4 \/ L < 4
             /\ L < 6 => L = 5 \/ L < 5
  BY LeftRange
<1> QED
  BY <1>1, <1>2, Invariant, PTL DEF Falls, Ends

-----------------------------------------------------------------------------
(***************************************************************************)
(* When the steps are enabled.  A formula CanX holds when a guard of the   *)
(* actions that make up X does, and the step changes the handler.          *)
(* GuardsEnable, that such a step is enabled, is what ENABLED means of     *)
(* these actions; the provers cannot look into ENABLED, so it is a         *)
(* hypothesis.                                                             *)
(***************************************************************************)
Goes(t, from, to) == At(t, from) /\ to # from

CanRun(t) ==
  LET p == thread[t].path
  IN \/ thread[t].op # "idle" /\ thread[t].pc \in {"ok"} \cup Errors
     \/ Goes(t, "isMounted", AfterIsMounted(p))
     \/ Goes(t, "mkdir", "mount")
     \/ Goes(t, "mount", IF p \in dirs \ mounts THEN "ok" ELSE "error")
     \/ Goes(t, "exists", AfterExists(p))
     \/ Goes(t, "check", AfterCheck(p))
     \/ Goes(t, "unmount", IF p \in mounts THEN "recheck" ELSE "error")
     \/ Goes(t, "recheck", IF p \in dirs \ mounts THEN "remove" ELSE "error")
     \/ Goes(t, "remove", IF p \in dirs \ mounts THEN "ok" ELSE "error")

CanStart == \E t \in Threads : thread[t].op = "idle"
CanRetryUnpublish(p) ==
  /\ want[p] = "unpublishing" /\ CanStart
  /\ ~Waiting({"publish"}, Paths) /\ ~Waiting({"unpublish"}, {p})
  /\ Waiting({"unpublish"}, Paths) => used["overlaps"] < MaxOverlaps
CanRetryPublish(p) ==
  want[p] \in {"failed", "uncertain"} /\ CanStart /\ ~Waiting({"publish", "unpublish"}, Paths)

GuardsEnable ==
  /\ \A t \in Threads : CanRun(t) => ENABLED <<Run(t)>>_vars
  /\ \A p \in Paths : /\ CanRetryUnpublish(p) => ENABLED <<RetryUnpublish(p)>>_vars
                      /\ CanRetryPublish(p) => ENABLED <<RetryPublish(p)>>_vars

\* What kubelet believes of a path comes of a handler that it called.
Called == Threads = {} => \A p \in Paths : want[p] = "none"

LEMMA CalledInvariant == Spec => []Called
<1>1. Init => Called
  BY DEF Init, KubeletInit, Called
<1>2. Called /\ [Next]_vars => Called'
  <2> SUFFICES ASSUME Called, [Next]_vars, Threads = {} PROVE want' = want
    BY DEF Called
  <2>1. ~Crash
    BY DEF Crash, Die
  <2> QED
    BY <2>1 DEF Next, GoStale, kubelet, vars
<1> QED
  BY <1>1, <1>2, PTL DEF Spec

\* Whatever a handler finds of its path, it goes on from there.
LEMMA RunGoesOn ==
  ASSUME Inv, NEW t \in Threads, thread[t].op # "idle"
  PROVE  CanRun(t)
<1> DEFINE p == thread[t].path
<1>1. thread[t].pc \in Steps /\ dirs \subseteq Paths /\ mounts \subseteq dirs /\ stale \subseteq mounts
  BY DEF Inv, KubeletType, ThreadType, NodeType
<1>2. AfterIsMounted(p) \in {"error", "ok", "mount", "mkdir"}
  BY <1>1 DEF AfterIsMounted
<1>3. AfterExists(p) \in {"ok", "unmount", "check"}
  BY <1>1 DEF AfterExists
<1>4. AfterCheck(p) \in {"error", "unmount", "remove"}
  BY <1>1 DEF AfterCheck
<1> QED
  BY <1>1, <1>2, <1>3, <1>4 DEF CanRun, Goes, At, Steps, PublishSteps, UnpublishSteps, Errors

\* A handler that has not answered has a next step, and when none runs kubelet can retry.
AllGoOn ==
  /\ \A t \in Threads : GoesOn(t)
  /\ (\A t \in Threads : thread[t].op = "idle") =>
       \A p \in Paths :
         /\ want[p] = "unpublishing" => ENABLED <<RetryUnpublish(p)>>_vars
         /\ want[p] \in {"failed", "uncertain"} => ENABLED <<RetryPublish(p)>>_vars

\* Wherever a handler is, one of the guards holds and the step leads elsewhere.
LEMMA HandlersGoOn == Spec /\ []GuardsEnable => []AllGoOn
<1>1. ASSUME Inv, Called, \A t \in Threads : thread[t].op = "idle", NEW p \in Paths, want[p] # "none"
      PROVE  CanStart /\ \A ops, paths : ~Waiting(ops, paths)
  <2>1. \A t \in Threads : ~thread[t].live
    BY <1>1 DEF Inv, KubeletInv, HandlersInv, Running
  <2> QED
    BY <1>1, <2>1 DEF Called, CanStart, Waiting
<1>2. Inv /\ Called /\ GuardsEnable => AllGoOn
  BY <1>1, RunGoesOn DEF GuardsEnable, AllGoOn, GoesOn, CanRetryUnpublish, CanRetryPublish
<1> QED
  BY <1>2, Invariant, CalledInvariant, PTL

(***************************************************************************)
(* So every publish and unpublish handler ends (nfs.go:372-407), also one  *)
(* that kubelet gave up on, whatever fails and whatever the others do to   *)
(* its path meanwhile.                                                     *)
(***************************************************************************)
THEOREM EveryHandlerEnds ==
  FairSpec /\ []GuardsEnable => \A t \in Threads : []<>(~Running(t))
<1>1. ASSUME NEW t \in Threads PROVE FairSpec /\ []GuardsEnable => []<>(~Running(t))
  <2>1. AllGoOn => GoesOn(t)
    BY DEF AllGoOn, GoesOn
  <2>2. Fairness => RunsOn(t)
    BY DEF Fairness
  <2>3. Ends(t)
    BY HandlerEnds
  <2> QED
    BY <2>1, <2>2, <2>3, HandlersGoOn, PTL DEF FairSpec, Ends
<1> QED
  BY <1>1

-----------------------------------------------------------------------------
(***************************************************************************)
(* When faults stop, unpublish and publish get through.  From then on the  *)
(* handlers that kubelet gave up on end, and kubelet has one at a time.    *)
(* That this follows from HandlerEnds for the finite set of handlers takes *)
(* an induction over temporal formulas, which is out of reach here:        *)
(* OneAtATime is a hypothesis.                                             *)
(***************************************************************************)
Alone == \A t, u \in Threads : Running(t) /\ Running(u) => t = u
Quiet == \A t \in Threads : ~Running(t)

FaultsEnd  == <>[][UNCHANGED used]_vars
OneAtATime == <>[]Alone

\* From now on no fault happens, and no two handlers run.
Calm == [][UNCHANGED used]_vars /\ []Alone

\* Without faults there are kubelet's calls, the handlers' steps, and the appliance.
LEMMA CalmSteps ==
  ASSUME Inv, [Next]_vars, UNCHANGED used
  PROVE  \/ \E t \in Threads : \/ Run(t)
                               \/ \E p \in Paths : NodePublishVolume(t, p) \/ NodeUnpublishVolume(t, p)
         \/ \E p \in Paths : GoStale(p)
         \/ UNCHANGED vars
<1>1. \A t \in Threads : ~Fail(t) /\ ~Timeout(t)
  BY DEF Fail, Timeout, GiveUp, CountUse, Inv, KubeletType, UsedType
<1>2. ~Crash
  BY DEF Crash, Die, CountUse, Inv, KubeletType, UsedType
<1> QED
  BY <1>1, <1>2 DEF Next

\* A handler that runs alone when no other is started beside it: no other step than
\* its own, and no fault, is anything to it.
LEMMA AloneSteps ==
  ASSUME Inv, [Next]_vars, UNCHANGED used, Alone, Alone', NEW t \in Threads, Running(t)
  PROVE  Run(t) \/ (\E p \in Paths : GoStale(p)) \/ UNCHANGED vars
<1>0. thread \in [Threads -> ThreadType(Steps)]
  BY DEF Inv, KubeletType
<1>1. ASSUME NEW u \in Threads, Run(u) PROVE u = t
  <2>1. Running(u)
    BY <1>1 DEF Run, Answer, At, Running, IsMounted, MakeDir, Mount, Exists, Check, Unmount, Recheck, Remove, Step
  <2> QED
    BY <2>1 DEF Alone
<1>2. ASSUME NEW u \in Threads, NEW p \in Paths, NodePublishVolume(u, p) \/ NodeUnpublishVolume(u, p)
      PROVE  FALSE
  <2>1. u # t /\ thread'[t] = thread[t] /\ thread'[u].op \in {"publish", "unpublish"}
    BY <1>0, <1>2 DEF NodePublishVolume, NodeUnpublishVolume, Publish, Unpublish, Start, Running
  <2> QED
    BY <2>1 DEF Alone, Running
<1> QED
  BY <1>1, <1>2, CalmSteps

-----------------------------------------------------------------------------
(***************************************************************************)
(* When a handler that runs alone ends, none runs.                         *)
(***************************************************************************)
ToQuiet(t) == Calm /\ Running(t) => <>Quiet
SomeQuiet  == Calm => <>Quiet

LEMMA EndsQuietly == ASSUME NEW t \in Threads PROVE Spec /\ RunsOn(t) /\ []GoesOn(t) => []ToQuiet(t)
<1>1. Inv /\ [Next]_vars /\ [UNCHANGED used]_vars /\ Alone /\ Alone' /\ Running(t) => Running(t)' \/ Quiet'
  <2> SUFFICES ASSUME Inv, [Next]_vars, [UNCHANGED used]_vars, Alone, Alone', Running(t)
               PROVE  Running(t)' \/ Quiet'
    OBVIOUS
  <2>1. CASE Run(t) /\ ~Answer(t, Errors)
    BY <2>1, StepMoves, GotoEffect DEF Moves, Inv, Running
  <2>2. CASE Answer(t, Errors)
    BY <2>2 DEF Answer, Alone, Quiet, Running, Idle, Inv, KubeletType
  <2>3. CASE (\E p \in Paths : GoStale(p)) \/ UNCHANGED vars
    BY <2>3 DEF GoStale, kubelet, vars, Running
  <2> QED
    BY <2>1, <2>2, <2>3, AloneSteps DEF vars
<1>2. Ends(t)
  BY HandlerEnds
<1> QED
  BY <1>1, <1>2, Invariant, PTL DEF Ends, ToQuiet, Calm, Spec

LEMMA QuietAgain == FairSpec /\ []AllGoOn => []SomeQuiet
<1>1. ASSUME NEW t \in Threads PROVE FairSpec /\ []AllGoOn => []ToQuiet(t)
  <2>1. Fairness => RunsOn(t)
    BY DEF Fairness
  <2>2. AllGoOn => GoesOn(t)
    BY DEF AllGoOn, GoesOn
  <2> QED
    BY <2>1, <2>2, EndsQuietly, PTL DEF FairSpec
<1>2. FairSpec /\ []AllGoOn => \A t \in Threads : []ToQuiet(t)
  BY <1>1
<1>3. (\A t \in Threads : []ToQuiet(t)) => [](\A t \in Threads : ToQuiet(t))
  OBVIOUS
<1>4. (\A t \in Threads : ToQuiet(t)) => (Calm => Quiet \/ <>Quiet)
  BY DEF ToQuiet, Quiet
<1> QED
  BY <1>2, <1>3, <1>4, PTL DEF SomeQuiet

-----------------------------------------------------------------------------
(***************************************************************************)
(* Unpublish.  Rests(p): an unpublish is still to come, and no handler is  *)
(* at the path.  Undoes(t, p): one is, and what it saw of the path is so.  *)
(* Only a mount that goes stale before it looks can make it fail, and that *)
(* the next one does not look at: UndoesStale(t, p) cannot fail.           *)
(***************************************************************************)
Untouched(p) == \A t \in Threads : Running(t) => thread[t].path # p

Rests(p)      == want[p] = "unpublishing" /\ Untouched(p)
RestsStale(p) == Rests(p) /\ p \in stale

Undoes(t, p) ==
  /\ thread[t].op = "unpublish" /\ thread[t].path = p /\ thread[t].live
  /\ want[p] = "unpublishing"
  /\ \/ thread[t].pc \in {"exists", "ok"}
     \/ thread[t].pc = "check" /\ p \in dirs
     \/ thread[t].pc = "unmount" /\ p \in mounts
     \/ thread[t].pc \in {"recheck", "remove"} /\ p \in dirs \ mounts
     \/ thread[t].pc = "error" /\ p \in stale
UndoesStale(t, p) ==
  /\ Undoes(t, p)
  /\ thread[t].pc \notin {"check", "error"}
  /\ thread[t].pc = "exists" => p \in stale

\* The handler's own step takes it on.
LEMMA UndoesGoesOn ==
  ASSUME Inv, Alone, NEW p \in Paths, NEW t \in Threads, Undoes(t, p), Run(t)
  PROVE  /\ Undoes(t, p)' \/ want'[p] = "done" \/ RestsStale(p)'
         /\ UndoesStale(t, p) => UndoesStale(t, p)' \/ want'[p] = "done"
<1>0. /\ thread \in [Threads -> ThreadType(Steps)] /\ want \in [Paths -> Beliefs]
      /\ stale \subseteq mounts /\ mounts \subseteq dirs
  BY DEF Inv, KubeletType, NodeType
<1>1. ASSUME NEW pc, Goto(t, pc)
      PROVE  /\ thread'[t].op = "unpublish" /\ thread'[t].path = p /\ thread'[t].live
             /\ thread'[t].pc = pc
  BY <1>0, <1>1 DEF Goto, Undoes, ThreadType
<1>2. CASE Answer(t, Errors)
  <2>1. /\ UNCHANGED node /\ thread' = [thread EXCEPT ![t] = Idle]
        /\ want' = [want EXCEPT ![p] = IF thread[t].pc = "ok" THEN "done" ELSE "unpublishing"]
        /\ thread[t].pc \in {"ok", "error"}
    BY <1>2 DEF Run, Answer, Believed, Undoes, Errors, At, IsMounted, MakeDir, Mount, Exists, Check, Recheck,
                Unmount, Remove, Step
  <2>2. Untouched(p)'
    BY <1>0, <2>1 DEF Untouched, Alone, Running, Idle, Undoes
  <2>3. thread[t].pc = "ok" => want'[p] = "done"
    BY <1>0, <2>1
  <2>4. thread[t].pc = "error" => RestsStale(p)' /\ ~UndoesStale(t, p)
    BY <1>0, <2>1, <2>2 DEF RestsStale, Rests, Undoes, UndoesStale, node
  <2> QED
    BY <2>1, <2>3, <2>4
<1>3. CASE IsMounted(t) \/ MakeDir(t) \/ Mount(t)
  BY <1>3 DEF IsMounted, MakeDir, Mount, Step, At, Undoes
<1> USE DEF Undoes, UndoesStale
<1>4. CASE Exists(t)
  <2>1. Goto(t, AfterExists(p)) /\ UNCHANGED <<mounts, dirs, stale, want>> /\ thread[t].pc = "exists"
    BY <1>4 DEF Exists, Step, node, At
  <2> QED
    BY <1>0, <1>1, <2>1 DEF AfterExists
<1>5. CASE Check(t)
  <2>1. Goto(t, AfterCheck(p)) /\ UNCHANGED <<mounts, dirs, stale, want>> /\ thread[t].pc = "check"
    BY <1>5 DEF Check, Step, node, At
  <2>2. AfterCheck(p) = IF p \in stale THEN "error" ELSE IF p \in mounts THEN "unmount" ELSE "remove"
    BY <1>0, <2>1 DEF AfterCheck
  <2> QED
    BY <1>0, <1>1, <2>1, <2>2
<1>6. CASE Unmount(t)
  <2>1. /\ Goto(t, "recheck") /\ UNCHANGED <<dirs, want>> /\ mounts' = mounts \ {p}
        /\ p \in dirs
    BY <1>0, <1>6 DEF Unmount, At
  <2> QED
    BY <1>1, <2>1
<1>7. CASE Recheck(t)
  <2>1. Goto(t, "remove") /\ UNCHANGED <<mounts, dirs, want>> /\ p \in dirs \ mounts
    BY <1>7 DEF Recheck, Step, node, At
  <2> QED
    BY <1>1, <2>1
<1>8. CASE Remove(t)
  <2>1. Goto(t, "ok") /\ UNCHANGED want
    BY <1>8 DEF Remove, At
  <2> QED
    BY <1>1, <2>1
<1> QED
  BY <1>2, <1>3, <1>4, <1>5, <1>6, <1>7, <1>8 DEF Run

LEMMA UndoesStep ==
  ASSUME Inv, [Next]_vars, [UNCHANGED used]_vars, Alone, Alone', NEW p \in Paths, NEW t \in Threads, Undoes(t, p)
  PROVE  /\ Undoes(t, p)' \/ want'[p] = "done" \/ RestsStale(p)'
         /\ UndoesStale(t, p) => UndoesStale(t, p)' \/ want'[p] = "done"
<1>1. Running(t) /\ UNCHANGED used
  BY DEF Undoes, Running, vars
<1>2. CASE (\E q \in Paths : GoStale(q)) \/ UNCHANGED vars
  BY <1>2 DEF GoStale, kubelet, vars, Undoes, UndoesStale
<1> QED
  BY <1>1, <1>2, AloneSteps, UndoesGoesOn

\* The start of an unpublish.
LEMMA UnpublishUndoes ==
  ASSUME Inv, NEW p \in Paths, NEW t \in Threads, NodeUnpublishVolume(t, p)
  PROVE  Undoes(t, p)' /\ (p \in stale => UndoesStale(t, p)')
<1>1. /\ UNCHANGED node
      /\ thread' = [thread EXCEPT ![t] = [op |-> "unpublish", path |-> p, pc |-> "exists", live |-> TRUE]]
      /\ want' = [want EXCEPT ![p] = "unpublishing"]
  BY DEF NodeUnpublishVolume, Unpublish, Start
<1> QED
  BY <1>1 DEF Undoes, UndoesStale, node, Inv, KubeletType

Undone(p)      == \E t \in Threads : Undoes(t, p)
UndoneStale(p) == \E t \in Threads : UndoesStale(t, p)

\* A path at which no handler is stays as it is until an unpublish of it starts.
LEMMA RestsStep ==
  ASSUME Inv, [Next]_vars, [UNCHANGED used]_vars, NEW p \in Paths, Rests(p)
  PROVE  /\ Rests(p)' \/ Undone(p)'
         /\ p \in stale => RestsStale(p)' \/ UndoneStale(p)'
<1>0. /\ thread \in [Threads -> ThreadType(Steps)] /\ want \in [Paths -> Beliefs]
      /\ stale \subseteq mounts /\ UNCHANGED used
  BY DEF Inv, KubeletType, NodeType, vars
<1> USE DEF Rests, RestsStale, Untouched
<1>1. ASSUME NEW t \in Threads, Run(t) PROVE RestsStale(p)' \/ (Rests(p)' /\ p \notin stale)
  <2>1. Running(t) /\ thread[t].path # p
    BY <1>1 DEF Run, Answer, At, Running, IsMounted, MakeDir, Mount, Exists, Check, Unmount, Recheck, Remove, Step
  <2>2. want'[p] = want[p] /\ (p \in stale => p \in stale')
    BY <1>0, <1>1, <2>1 DEF Run, Answer, IsMounted, MakeDir, Mount, Exists, Check, Unmount, Recheck, Remove, Step, node
  <2>3. thread'[t] = Idle \/ (\E pc : Goto(t, pc))
    BY <1>0, <1>1 DEF Run, Answer, IsMounted, MakeDir, Mount, Exists, Check, Unmount, Recheck, Remove, Step
  <2>4. thread'[t].op = "idle" \/ thread'[t].path = thread[t].path
    BY <1>0, <2>3 DEF Idle, Goto, ThreadType
  <2>5. \A u \in Threads : u # t => thread'[u] = thread[u]
    BY <1>1, RunAlone
  <2> QED
    BY <2>1, <2>2, <2>4, <2>5 DEF Running
<1>2. ASSUME NEW t \in Threads, NEW q \in Paths, q # p, NodePublishVolume(t, q) \/ NodeUnpublishVolume(t, q)
      PROVE  RestsStale(p)' \/ (Rests(p)' /\ p \notin stale)
  <2>1. /\ UNCHANGED node /\ want'[p] = want[p] /\ thread'[t].path = q
        /\ \A u \in Threads : u # t => thread'[u] = thread[u]
    BY <1>0, <1>2 DEF NodePublishVolume, NodeUnpublishVolume, Publish, Unpublish, Start
  <2> QED
    BY <1>2, <2>1 DEF node, Running
<1>3. ASSUME NEW t \in Threads, NodePublishVolume(t, p) PROVE FALSE
  BY <1>3 DEF NodePublishVolume, Publish
<1>4. ASSUME NEW t \in Threads, NodeUnpublishVolume(t, p) PROVE Undone(p)' /\ (p \in stale => UndoneStale(p)')
  BY <1>4, UnpublishUndoes DEF Undone, UndoneStale
<1>5. ASSUME NEW q \in Paths, GoStale(q) PROVE RestsStale(p)' \/ (Rests(p)' /\ p \notin stale)
  BY <1>5 DEF GoStale, kubelet, Running
<1>6. CASE UNCHANGED vars
  BY <1>6 DEF vars, Running
<1> QED
  BY <1>0, <1>1, <1>2, <1>3, <1>4, <1>5, <1>6, CalmSteps

\* Kubelet keeps to the unpublish until it is done.
LEMMA UnpublishKept ==
  ASSUME Inv, [Next]_vars, NEW p \in Paths, want[p] = "unpublishing"
  PROVE  want'[p] \in {"unpublishing", "done"}
<1>0. KubeletType(Steps) /\ KubeletInv /\ "ok" \in Steps /\ want \in [Paths -> Beliefs]
  BY DEF Inv, KubeletType, Steps
<1>1. ASSUME NEW t \in Threads, Run(t) \/ Fail(t) PROVE want'[p] \in {"unpublishing", "done"}
  <2>1. CASE Answer(t, Errors)
    <3>1. thread[t].op \in {"publish", "unpublish"}
      BY <2>1, <1>0 DEF Answer, KubeletType, ThreadType
    <3> QED
      BY <2>1, <3>1, <1>0, AnswerEffect DEF Publishing
  <2>2. CASE ~Answer(t, Errors)
    BY <1>1, <2>2, StepMoves, FailMoves DEF Moves
  <2> QED
    BY <2>1, <2>2
<1>2. ASSUME NEW t \in Threads, NEW q \in Paths, NodePublishVolume(t, q) \/ NodeUnpublishVolume(t, q)
      PROVE  want'[p] = "unpublishing"
  BY <1>0, <1>2 DEF NodePublishVolume, NodeUnpublishVolume, Publish, Unpublish
<1>3. ASSUME NEW t \in Threads, Timeout(t) PROVE want'[p] = "unpublishing"
  BY <1>0, <1>3, GiveUpEffect DEF Timeout
<1>4. CASE Crash
  BY <1>0, <1>4, DieEffect DEF Crash
<1>5. CASE (\E q \in Paths : GoStale(q)) \/ UNCHANGED vars
  BY <1>5 DEF GoStale, kubelet, vars
<1> QED
  BY <1>1, <1>2, <1>3, <1>4, <1>5 DEF Next

\* A handler that is at the path alone gets the unpublish done, or finds it stale.
UndoesEnds(t, p) == Calm /\ Undoes(t, p) => <>(want[p] = "done" \/ RestsStale(p))
StaleEnds(t, p)  == Calm /\ UndoesStale(t, p) => <>(want[p] = "done")
AllUndone(p) ==
  Calm => /\ Undone(p) => <>(want[p] = "done" \/ RestsStale(p))
          /\ UndoneStale(p) => <>(want[p] = "done")

LEMMA UndoesEnding ==
  ASSUME NEW p \in Paths, NEW t \in Threads
  PROVE  Spec /\ RunsOn(t) /\ []GoesOn(t) => [](UndoesEnds(t, p) /\ StaleEnds(t, p))
<1>1. Inv /\ [Next]_vars /\ [UNCHANGED used]_vars /\ Alone /\ Alone' =>
        /\ Undoes(t, p) => Undoes(t, p)' \/ (want[p] = "done")' \/ RestsStale(p)'
        /\ UndoesStale(t, p) => UndoesStale(t, p)' \/ (want[p] = "done")'
  BY UndoesStep DEF UndoesStale
<1>2. /\ Undoes(t, p) => Running(t)
      /\ UndoesStale(t, p) => Running(t)
  BY DEF Undoes, UndoesStale, Running
<1>3. Ends(t)
  BY HandlerEnds
<1> QED
  BY <1>1, <1>2, <1>3, Invariant, PTL DEF Ends, UndoesEnds, StaleEnds, Calm, Spec

LEMMA UndoneEnding == ASSUME NEW p \in Paths PROVE FairSpec /\ []AllGoOn => []AllUndone(p)
<1>1. ASSUME NEW t \in Threads PROVE FairSpec /\ []AllGoOn => [](UndoesEnds(t, p) /\ StaleEnds(t, p))
  <2>1. Fairness => RunsOn(t)
    BY DEF Fairness
  <2>2. AllGoOn => GoesOn(t)
    BY DEF AllGoOn, GoesOn
  <2> QED
    BY <2>1, <2>2, UndoesEnding, PTL DEF FairSpec
<1>2. FairSpec /\ []AllGoOn => \A t \in Threads : [](UndoesEnds(t, p) /\ StaleEnds(t, p))
  BY <1>1
<1>3. (\A t \in Threads : [](UndoesEnds(t, p) /\ StaleEnds(t, p)))
        => [](\A t \in Threads : UndoesEnds(t, p) /\ StaleEnds(t, p))
  OBVIOUS
<1>4. (\A t \in Threads : UndoesEnds(t, p) /\ StaleEnds(t, p)) => AllUndone(p)
  BY DEF UndoesEnds, StaleEnds, AllUndone, Undone, UndoneStale
<1> QED
  BY <1>2, <1>3, <1>4, PTL

(***************************************************************************)
(* When faults stop, every unpublish gets through (nfs.go:407), for any    *)
(* number of paths and handlers, from wherever earlier attempts left the   *)
(* path and its mount: if every handler that has a next step takes it,     *)
(* kubelet's retries do not stop, and the handlers that it gave up on are  *)
(* over at last.                                                           *)
(***************************************************************************)
THEOREM UnpublishAlwaysConverges ==
  FairSpec /\ []GuardsEnable /\ FaultsEnd /\ OneAtATime => UnpublishConverges
<1>1. ASSUME NEW p \in Paths
      PROVE  FairSpec /\ []AllGoOn /\ FaultsEnd /\ OneAtATime => GetsUnpublished(p)
  <2>1. Inv /\ [Next]_vars => (want[p] = "unpublishing" => (want[p] = "unpublishing")' \/ (want[p] = "done")')
    BY UnpublishKept
  <2>2. Quiet /\ want[p] = "unpublishing" => Rests(p)
    BY DEF Quiet, Rests, Untouched
  <2>3. Inv /\ [Next]_vars /\ [UNCHANGED used]_vars =>
          /\ Rests(p) => Rests(p)' \/ Undone(p)'
          /\ RestsStale(p) => RestsStale(p)' \/ UndoneStale(p)'
    BY RestsStep DEF RestsStale
  <2>4. /\ Rests(p) => want[p] = "unpublishing"
        /\ RestsStale(p) => Rests(p)
    BY DEF Rests, RestsStale
  <2>5. /\ Undone(p) => want[p] = "unpublishing"
        /\ UndoneStale(p) => Undone(p)
    BY DEF Undone, UndoneStale, Undoes, UndoesStale
  <2>6. Inv /\ <<RetryUnpublish(p)>>_vars => ~Rests(p)'
    <3> SUFFICES ASSUME Inv, RetryUnpublish(p) PROVE ~Rests(p)'
      OBVIOUS
    <3>1. PICK t \in Threads : NodeUnpublishVolume(t, p)
      BY DEF RetryUnpublish
    <3> QED
      BY <3>1, UnpublishUndoes DEF Undoes, Rests, Untouched, Running
  <2>7. AllGoOn /\ Quiet /\ want[p] = "unpublishing" => ENABLED <<RetryUnpublish(p)>>_vars
    BY DEF AllGoOn, Quiet, Running
  <2>8. Fairness => Retried(p)
    BY DEF Fairness
  <2>9. FairSpec /\ []AllGoOn => []AllUndone(p)
    BY UndoneEnding
  <2>10. FairSpec /\ []AllGoOn => [](/\ Calm /\ Rests(p) => <>Undone(p)
                                     /\ Calm /\ RestsStale(p) => <>UndoneStale(p))
    BY <2>3, <2>4, <2>6, <2>7, <2>8, QuietAgain, Invariant, PTL
       DEF FairSpec, Spec, Retried, SomeQuiet, Calm
  <2>11. FairSpec /\ []AllGoOn => [](Calm /\ Rests(p) => <>(want[p] = "done"))
    BY <2>9, <2>10, PTL DEF AllUndone, Calm
  <2>12. FairSpec /\ []AllGoOn => [](Calm /\ want[p] = "unpublishing" => <>(want[p] = "done" \/ Rests(p)))
    BY <2>1, <2>2, QuietAgain, Invariant, PTL DEF FairSpec, Spec, SomeQuiet
  <2>13. FairSpec /\ []AllGoOn => [](Calm /\ want[p] = "unpublishing" => <>(want[p] = "done"))
    BY <2>11, <2>12, PTL DEF Calm
  <2> QED
    BY <2>1, <2>13, Invariant, PTL DEF FairSpec, Spec, FaultsEnd, OneAtATime, Calm, GetsUnpublished
<1>2. FairSpec /\ []AllGoOn /\ FaultsEnd /\ OneAtATime => UnpublishConverges
  BY <1>1 DEF UnpublishConverges
<1> QED
  BY <1>2, HandlersGoOn, PTL DEF FairSpec

-----------------------------------------------------------------------------
(***************************************************************************)
(* Publish, in the same way.  Here nothing can make a handler that is      *)
(* alone fail, unless the mount goes stale.                                *)
(***************************************************************************)
Wanted(p)  == want[p] \in {"publishing", "failed", "uncertain"}
Settled(p) == want[p] \in {"published", "unpublishing"} \/ p \in stale

Waits(p) == want[p] \in {"failed", "uncertain"} /\ Untouched(p)

Does(t, p) ==
  /\ thread[t].op = "publish" /\ thread[t].path = p /\ thread[t].live
  /\ want[p] = "publishing" /\ p \notin stale
  /\ \/ thread[t].pc \in {"isMounted", "ok"}
     \/ thread[t].pc = "mkdir" /\ p \notin dirs
     \/ thread[t].pc = "mount" /\ p \in dirs \ mounts

LEMMA DoesGoesOn ==
  ASSUME Inv, NEW p \in Paths, NEW t \in Threads, Does(t, p), Run(t)
  PROVE  Does(t, p)' \/ Settled(p)'
<1>0. /\ thread \in [Threads -> ThreadType(Steps)] /\ want \in [Paths -> Beliefs]
      /\ stale \subseteq mounts /\ mounts \subseteq dirs
  BY DEF Inv, KubeletType, NodeType
<1>1. ASSUME NEW pc, Goto(t, pc)
      PROVE  /\ thread'[t].op = "publish" /\ thread'[t].path = p /\ thread'[t].live
             /\ thread'[t].pc = pc
  BY <1>0, <1>1 DEF Goto, Does, ThreadType
<1>2. CASE Answer(t, Errors)
  <2>1. want' = [want EXCEPT ![p] = "published"]
    BY <1>2 DEF Answer, Believed, Does, Errors
  <2> QED
    BY <1>0, <2>1 DEF Settled
<1>3. CASE Exists(t) \/ Check(t) \/ Unmount(t) \/ Recheck(t) \/ Remove(t)
  BY <1>3 DEF Exists, Check, Unmount, Recheck, Remove, Step, At, Does
<1> USE DEF Does
<1>4. CASE IsMounted(t)
  <2>1. Goto(t, AfterIsMounted(p)) /\ UNCHANGED <<mounts, dirs, stale, want>> /\ thread[t].pc = "isMounted"
    BY <1>4 DEF IsMounted, Step, node, At
  <2>2. AfterIsMounted(p) = IF p \in mounts THEN "ok" ELSE IF p \in dirs THEN "mount" ELSE "mkdir"
    BY <1>0 DEF AfterIsMounted
  <2> QED
    BY <1>1, <2>1, <2>2
<1>5. CASE MakeDir(t)
  <2>1. /\ Goto(t, "mount") /\ UNCHANGED <<mounts, stale, want>> /\ p \in dirs'
        /\ thread[t].pc = "mkdir"
    BY <1>5 DEF MakeDir, At
  <2> QED
    BY <1>0, <1>1, <2>1
<1>6. CASE Mount(t)
  <2>1. Goto(t, "ok") /\ UNCHANGED <<stale, want>>
    BY <1>6 DEF Mount, At
  <2> QED
    BY <1>1, <2>1
<1> QED
  BY <1>2, <1>3, <1>4, <1>5, <1>6 DEF Run

LEMMA DoesStep ==
  ASSUME Inv, [Next]_vars, [UNCHANGED used]_vars, Alone, Alone', NEW p \in Paths, NEW t \in Threads, Does(t, p)
  PROVE  Does(t, p)' \/ Settled(p)'
<1>1. Running(t) /\ UNCHANGED used
  BY DEF Does, Running, vars
<1>2. CASE (\E q \in Paths : GoStale(q)) \/ UNCHANGED vars
  BY <1>2 DEF GoStale, kubelet, vars, Does, Settled
<1> QED
  BY <1>1, <1>2, AloneSteps, DoesGoesOn

\* The start of a publish.
LEMMA PublishDoes ==
  ASSUME Inv, NEW p \in Paths, NEW t \in Threads, NodePublishVolume(t, p)
  PROVE  Does(t, p)' \/ Settled(p)'
<1>1. /\ UNCHANGED node
      /\ thread' = [thread EXCEPT ![t] = [op |-> "publish", path |-> p, pc |-> "isMounted", live |-> TRUE]]
      /\ want' = [want EXCEPT ![p] = "publishing"]
  BY DEF NodePublishVolume, Publish, Start
<1> QED
  BY <1>1 DEF Does, Settled, node, Inv, KubeletType

Done(p) == Settled(p) \/ \E t \in Threads : Does(t, p)

LEMMA WaitsStep ==
  ASSUME Inv, [Next]_vars, [UNCHANGED used]_vars, NEW p \in Paths, Waits(p)
  PROVE  Waits(p)' \/ Done(p)'
<1>0. /\ thread \in [Threads -> ThreadType(Steps)] /\ want \in [Paths -> Beliefs] /\ UNCHANGED used
  BY DEF Inv, KubeletType, vars
<1> USE DEF Waits, Untouched
<1>1. ASSUME NEW t \in Threads, Run(t) PROVE Waits(p)'
  <2>1. Running(t) /\ thread[t].path # p
    BY <1>1 DEF Run, Answer, At, Running, IsMounted, MakeDir, Mount, Exists, Check, Unmount, Recheck, Remove, Step
  <2>2. want'[p] = want[p]
    BY <1>0, <1>1, <2>1 DEF Run, Answer, IsMounted, MakeDir, Mount, Exists, Check, Unmount, Recheck, Remove, Step, node
  <2>3. thread'[t] = Idle \/ (\E pc : Goto(t, pc))
    BY <1>0, <1>1 DEF Run, Answer, IsMounted, MakeDir, Mount, Exists, Check, Unmount, Recheck, Remove, Step
  <2>4. thread'[t].op = "idle" \/ thread'[t].path = thread[t].path
    BY <1>0, <2>3 DEF Idle, Goto, ThreadType
  <2>5. \A u \in Threads : u # t => thread'[u] = thread[u]
    BY <1>1, RunAlone
  <2> QED
    BY <2>1, <2>2, <2>4, <2>5 DEF Running
<1>2. ASSUME NEW t \in Threads, NEW q \in Paths, q # p, NodePublishVolume(t, q) \/ NodeUnpublishVolume(t, q)
      PROVE  Waits(p)'
  <2>1. /\ want'[p] = want[p] /\ thread'[t].path = q
        /\ \A u \in Threads : u # t => thread'[u] = thread[u]
    BY <1>0, <1>2 DEF NodePublishVolume, NodeUnpublishVolume, Publish, Unpublish, Start
  <2> QED
    BY <1>2, <2>1 DEF Running
<1>3. ASSUME NEW t \in Threads, NodePublishVolume(t, p) PROVE Done(p)'
  BY <1>3, PublishDoes DEF Done
<1>4. ASSUME NEW t \in Threads, NodeUnpublishVolume(t, p) PROVE Done(p)'
  BY <1>0, <1>4 DEF NodeUnpublishVolume, Unpublish, Done, Settled
<1>5. ASSUME NEW q \in Paths, GoStale(q) PROVE Waits(p)'
  BY <1>5 DEF GoStale, kubelet, Running
<1>6. CASE UNCHANGED vars
  BY <1>6 DEF vars, Running
<1> QED
  BY <1>0, <1>1, <1>2, <1>3, <1>4, <1>5, <1>6, CalmSteps

\* Kubelet keeps to the publish until it is done or the pod is deleted.
LEMMA PublishKept ==
  ASSUME Inv, [Next]_vars, NEW p \in Paths, Wanted(p)
  PROVE  Wanted(p)' \/ Settled(p)'
<1>0. KubeletType(Steps) /\ KubeletInv /\ "ok" \in Steps /\ want \in [Paths -> Beliefs]
  BY DEF Inv, KubeletType, Steps
<1> USE DEF Wanted, Settled
<1>1. ASSUME NEW t \in Threads, Run(t) \/ Fail(t) PROVE Wanted(p)' \/ Settled(p)'
  <2>1. CASE Answer(t, Errors)
    <3>1. thread[t].op \in {"publish", "unpublish"}
      BY <2>1, <1>0 DEF Answer, KubeletType, ThreadType
    <3> QED
      BY <2>1, <3>1, <1>0, AnswerEffect DEF Publishing
  <2>2. CASE ~Answer(t, Errors)
    BY <1>1, <2>2, StepMoves, FailMoves DEF Moves
  <2> QED
    BY <2>1, <2>2
<1>2. ASSUME NEW t \in Threads, NEW q \in Paths, NodePublishVolume(t, q) \/ NodeUnpublishVolume(t, q)
      PROVE  Wanted(p)' \/ Settled(p)'
  BY <1>0, <1>2 DEF NodePublishVolume, NodeUnpublishVolume, Publish, Unpublish
<1>3. ASSUME NEW t \in Threads, Timeout(t) PROVE Wanted(p)'
  BY <1>0, <1>3, GiveUpEffect DEF Timeout
<1>4. CASE Crash
  BY <1>0, <1>4, DieEffect DEF Crash
<1>5. CASE (\E q \in Paths : GoStale(q)) \/ UNCHANGED vars
  BY <1>5 DEF GoStale, kubelet, vars
<1> QED
  BY <1>1, <1>2, <1>3, <1>4, <1>5 DEF Next

\* A handler that is at the path alone gets the publish done.
DoesEnds(t, p) == Calm /\ Does(t, p) => <>Settled(p)
AllDone(p)     == Calm /\ Done(p) => <>Settled(p)

LEMMA DoneEnding == ASSUME NEW p \in Paths PROVE FairSpec /\ []AllGoOn => []AllDone(p)
<1>1. ASSUME NEW t \in Threads PROVE FairSpec /\ []AllGoOn => []DoesEnds(t, p)
  <2>1. Fairness => RunsOn(t)
    BY DEF Fairness
  <2>2. AllGoOn => GoesOn(t)
    BY DEF AllGoOn, GoesOn
  <2>3. Inv /\ [Next]_vars /\ [UNCHANGED used]_vars /\ Alone /\ Alone' =>
          (Does(t, p) => Does(t, p)' \/ Settled(p)')
    BY DoesStep
  <2>4. Does(t, p) => Running(t)
    BY DEF Does, Running
  <2>5. Ends(t)
    BY HandlerEnds
  <2> QED
    BY <2>1, <2>2, <2>3, <2>4, <2>5, Invariant, PTL DEF Ends, DoesEnds, Calm, FairSpec, Spec
<1>2. FairSpec /\ []AllGoOn => \A t \in Threads : []DoesEnds(t, p)
  BY <1>1
<1>3. (\A t \in Threads : []DoesEnds(t, p)) => [](\A t \in Threads : DoesEnds(t, p))
  OBVIOUS
<1>4. (\A t \in Threads : DoesEnds(t, p)) => (Calm /\ Done(p) => Settled(p) \/ <>Settled(p))
  BY DEF DoesEnds, Done
<1> QED
  BY <1>2, <1>3, <1>4, PTL DEF AllDone

(***************************************************************************)
(* When faults stop, every publish gets through, or its mount goes stale,  *)
(* or its pod is deleted (nfs.go:372-385), under the same hypotheses.      *)
(***************************************************************************)
THEOREM PublishAlwaysConverges ==
  FairSpec /\ []GuardsEnable /\ FaultsEnd /\ OneAtATime => PublishConverges
<1>1. ASSUME NEW p \in Paths
      PROVE  FairSpec /\ []AllGoOn /\ FaultsEnd /\ OneAtATime => GetsPublished(p)
  <2>1. Inv /\ [Next]_vars => (Wanted(p) => Wanted(p)' \/ Settled(p)')
    BY PublishKept
  <2>2. AwaitedInv /\ Quiet /\ Wanted(p) => Waits(p)
    BY DEF AwaitedInv, Quiet, Wanted, Waits, Untouched, Publishing, Running
  <2>3. Inv /\ [Next]_vars /\ [UNCHANGED used]_vars => (Waits(p) => Waits(p)' \/ Done(p)')
    BY WaitsStep
  <2>4. Inv /\ <<RetryPublish(p)>>_vars => Done(p)'
    BY PublishDoes DEF RetryPublish, Done
  <2>5. AllGoOn /\ Quiet /\ Waits(p) => ENABLED <<RetryPublish(p)>>_vars
    BY DEF AllGoOn, Quiet, Running, Waits
  <2>6. Fairness => Retried(p)
    BY DEF Fairness
  <2>7. FairSpec /\ []AllGoOn => []AllDone(p)
    BY DoneEnding
  <2>8. FairSpec /\ []AllGoOn => [](Calm /\ Waits(p) => <>Done(p))
    BY <2>3, <2>4, <2>5, <2>6, QuietAgain, Invariant, PTL DEF FairSpec, Spec, Retried, SomeQuiet, Calm
  <2>9. FairSpec /\ []AllGoOn => [](Calm /\ Wanted(p) => <>Settled(p))
    BY <2>1, <2>2, <2>7, <2>8, QuietAgain, Invariant, Awaited, PTL
       DEF FairSpec, Spec, SomeQuiet, AllDone, Calm
  <2>10. FairSpec /\ []AllGoOn /\ FaultsEnd /\ OneAtATime => (Wanted(p) ~> Settled(p))
    BY <2>1, <2>9, Invariant, PTL DEF FairSpec, Spec, FaultsEnd, OneAtATime, Calm
  <2> QED
    BY <2>10 DEF GetsPublished, Wanted, Settled
<1>2. FairSpec /\ []AllGoOn /\ FaultsEnd /\ OneAtATime => PublishConverges
  BY <1>1 DEF PublishConverges
<1> QED
  BY <1>2, HandlersGoOn, PTL DEF FairSpec

(***************************************************************************)
(* Both together: kubelet's retries get through.                           *)
(***************************************************************************)
THEOREM AlwaysConverges ==
  FairSpec /\ []GuardsEnable /\ FaultsEnd /\ OneAtATime => Converges
BY UnpublishAlwaysConverges, PublishAlwaysConverges DEF Converges

-----------------------------------------------------------------------------
(***************************************************************************)
(* The refinement.  Until kubelet gives up on a handler it waits for every *)
(* one that runs, so it remembers what the handler that mounts or unmounts *)
(* is doing.                                                               *)
(***************************************************************************)
LEMMA PathInit == Init => Path!Init
BY DEF Init, KubeletInit, Path!Init

LEMMA MovePath ==
  ASSUME Inv, NEW t \in Threads, NEW pc, Moves(t, pc), used["timeouts"] = 0
  PROVE  Path!Next \/ UNCHANGED <<want, mounts>>
<1>1. /\ thread[t].path \in Paths /\ want' = want
      /\ thread[t].op = "publish" => want[thread[t].path] = "publishing"
      /\ thread[t].op = "unpublish" => want[thread[t].path] = "unpublishing"
  BY DEF Moves, Inv, KubeletInv, PunctualInv, HandlersInv, WaitsInv, Running, Publishing
<1>2. CASE mounts' = mounts
  BY <1>1, <1>2
<1>3. CASE thread[t].op = "publish" /\ mounts' = mounts \cup {thread[t].path}
  BY <1>1, <1>3 DEF Path!Next, Path!Mount
<1>4. CASE thread[t].op = "unpublish" /\ mounts' = mounts \ {thread[t].path}
  BY <1>1, <1>4 DEF Path!Next, Path!Unmount
<1> QED
  BY <1>2, <1>3, <1>4 DEF Moves

LEMMA AnswerPath ==
  ASSUME Inv, NEW t \in Threads, Answer(t, Errors), UNCHANGED node, used["timeouts"] = 0
  PROVE  Path!Next \/ UNCHANGED <<want, mounts>>
<1> DEFINE p == thread[t].path
<1>1. KubeletType(Steps) /\ KubeletInv /\ "ok" \in Steps /\ want \in [Paths -> Beliefs]
  BY DEF Inv, Steps, KubeletType
<1>2. /\ p \in Paths /\ thread[t].live /\ thread[t].op \in {"publish", "unpublish"}
      /\ Publishing(t) =>
           /\ want[p] = "publishing"
           /\ want' = [want EXCEPT ![p] = IF thread[t].pc = "ok" THEN "published" ELSE "failed"]
      /\ thread[t].op = "unpublish" /\ thread[t].live =>
           /\ want[p] = "unpublishing"
           /\ want' = [want EXCEPT ![p] = IF thread[t].pc = "ok" THEN "done" ELSE "unpublishing"]
  BY <1>1, AnswerEffect DEF KubeletInv, PunctualInv, Running, KubeletType, ThreadType
<1>3. UNCHANGED mounts
  BY DEF node
<1>4. CASE thread[t].op = "publish" /\ thread[t].pc = "ok"
  <2>1. p \in mounts
    BY <1>2, <1>4 DEF Inv, MountedInv, Publishing
  <2>2. Path!Published(p)
    BY <1>2, <1>3, <1>4, <2>1 DEF Path!Published, Path!Enter, Publishing
  <2> QED
    BY <1>2, <2>2 DEF Path!Next
<1>5. CASE thread[t].op = "publish" /\ thread[t].pc # "ok"
  <2>1. Path!PublishFailed(p)
    BY <1>2, <1>3, <1>5 DEF Path!PublishFailed, Path!Enter, Publishing
  <2> QED
    BY <1>2, <2>1 DEF Path!Next
<1>6. CASE thread[t].op = "unpublish" /\ thread[t].pc = "ok"
  <2>1. p \notin mounts
    BY <1>6 DEF Inv, UnmountedInv
  <2>2. Path!Unpublished(p)
    BY <1>2, <1>3, <1>6, <2>1 DEF Path!Unpublished, Path!Enter
  <2> QED
    BY <1>2, <2>2 DEF Path!Next
<1>7. CASE thread[t].op = "unpublish" /\ thread[t].pc # "ok"
  <2>1. want' = want
    BY <1>1, <1>2, <1>7
  <2> QED
    BY <2>1, <1>3
<1> QED
  BY <1>2, <1>4, <1>5, <1>6, <1>7

LEMMA PathStep ==
  Inv /\ [Next]_vars /\ used'["timeouts"] = 0 => Path!Next \/ UNCHANGED <<want, mounts>>
<1> SUFFICES ASSUME Inv, [Next]_vars, used'["timeouts"] = 0
             PROVE  Path!Next \/ UNCHANGED <<want, mounts>>
  OBVIOUS
<1>0. KubeletType(Steps) /\ KubeletInv /\ {"ok", "isMounted", "exists"} \subseteq Steps
  BY DEF Inv, Steps, PublishSteps, UnpublishSteps
<1>1. ASSUME NEW t \in Threads, Run(t)
      PROVE  Path!Next \/ UNCHANGED <<want, mounts>>
  <2>1. CASE Answer(t, Errors)
    <3>1. UNCHANGED node
      BY <1>1, <2>1 DEF Run, Answer, At, IsMounted, MakeDir, Mount, Exists, Check, Recheck, Unmount, Remove, Step, Errors
    <3>2. used["timeouts"] = 0
      BY <2>1 DEF Answer
    <3> QED
      BY <2>1, <3>1, <3>2, AnswerPath
  <2>2. CASE ~Answer(t, Errors)
    <3>1. PICK pc : Moves(t, pc)
      BY <1>1, <2>2, StepMoves
    <3>2. used["timeouts"] = 0
      BY <3>1 DEF Moves
    <3> QED
      BY <3>1, <3>2, MovePath
  <2> QED
    BY <2>1, <2>2
<1>2. ASSUME NEW t \in Threads, Fail(t)
      PROVE  Path!Next \/ UNCHANGED <<want, mounts>>
  <2>1. Moves(t, "error")
    BY <1>2, FailMoves
  <2>2. used["timeouts"] = 0
    BY <2>1 DEF Moves
  <2> QED
    BY <2>1, <2>2, MovePath
<1>3. ASSUME NEW t \in Threads, Timeout(t)
      PROVE  FALSE
  BY <1>0, <1>3, GiveUpEffect DEF Timeout
<1>4. ASSUME NEW t \in Threads, NEW p \in Paths, NodePublishVolume(t, p)
      PROVE  Path!Next
  <2>1. Publish(t, p, "isMounted") /\ UNCHANGED mounts
    BY <1>4 DEF NodePublishVolume, node
  <2>2. Path!Publish(p)
    BY <2>1 DEF Publish, Path!Publish, Path!Enter
  <2> QED
    BY <2>2 DEF Path!Next
<1>5. ASSUME NEW t \in Threads, NEW p \in Paths, NodeUnpublishVolume(t, p)
      PROVE  Path!Next
  <2>1. Unpublish(t, p, "exists") /\ UNCHANGED mounts
    BY <1>5 DEF NodeUnpublishVolume, node
  <2>2. Path!Unpublish(p)
    BY <2>1 DEF Unpublish, Path!Unpublish, Path!Enter
  <2> QED
    BY <2>2 DEF Path!Next
<1>6. CASE Crash
  <2>1. UNCHANGED mounts /\ Die
    BY <1>6 DEF Crash, node
  <2>2. want' = want \/ \E p \in Paths : want[p] = "publishing" /\ want' = [want EXCEPT ![p] = "uncertain"]
    BY <1>0, <2>1, DieEffect
  <2>3. ASSUME NEW p \in Paths, want[p] = "publishing", want' = [want EXCEPT ![p] = "uncertain"]
        PROVE  Path!PublishFailed(p)
    BY <2>1, <2>3 DEF Path!PublishFailed, Path!Enter
  <2> QED
    BY <2>1, <2>2, <2>3 DEF Path!Next
<1>7. CASE (\E p \in Paths : GoStale(p)) \/ UNCHANGED vars
  BY <1>7 DEF GoStale, kubelet, vars
<1> QED
  BY <1>1, <1>2, <1>3, <1>4, <1>5, <1>6, <1>7 DEF Next

(***************************************************************************)
(* Until kubelet gives up on a handler, publish and unpublish do what      *)
(* PublishedPath says kubelet counts on (nfs.go:337-415).                  *)
(***************************************************************************)
THEOREM PublishedPathImplemented == Spec => ImplementsPublishedPath
<1>1. Inv /\ [Next]_vars
        => [used'["timeouts"] = 0 => Path!Next]_<<want, mounts>>
  BY PathStep
<1> QED
  BY <1>1, PathInit, Invariant, PTL DEF Spec, ImplementsPublishedPath
=============================================================================
