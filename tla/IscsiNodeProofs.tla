--------------------------- MODULE IscsiNodeProofs ---------------------------
(***************************************************************************)
(* Theorems about IscsiNode, for any finite set of target paths and any    *)
(* number of handlers and faults.                                          *)
(***************************************************************************)
EXTENDS IscsiNode, KubeletProofs, FiniteSetTheorems

Steps     == PublishSteps \cup UnpublishSteps \cup {"ok"} \cup Errors
Connected == {"isMounted", "mkdir", "persist", "mount"}
Counted   == {"exists", "load", "unmount"}
Detaching == {"disconnect", "logout", "removeAll", "removeInfo"}

Punctual == used["timeouts"] = 0

\* No handler is late, or there is no unpublish yet.
Calm == Punctual \/ \A p \in Paths : want[p] \notin {"unpublishing", "done"}

(***************************************************************************)
(* The inductive invariant, with KubeletInv.  StepsInv: every handler      *)
(* keeps to its own steps.  MountedInv: a publish that is about to         *)
(* succeed, and one that did, left its path mounted.  UnmountedInv: an     *)
(* unpublish that is about to succeed left it unmounted.  CountInv: who    *)
(* counted one mount has the only one, since nothing is mounted while an   *)
(* unpublish runs.  DetachInv: so who detaches the device leaves no mount  *)
(* behind.  InfoInv: there is a file as long as something is mounted.      *)
(* ServedInv: and a device.                                                *)
(***************************************************************************)
NodeType ==
  /\ session \in BOOLEAN /\ device \in BOOLEAN
  /\ mounts \subseteq dirs /\ dirs \subseteq Paths
  /\ info \in {"none", "torn", "valid"}
  /\ cnt \in [Threads -> Nat]

StepsInv ==
  \A t \in Threads :
    /\ thread[t].op = "idle" => thread[t].pc = "ok"
    /\ thread[t].op = "publish" => thread[t].pc \in PublishSteps \cup {"ok"} \cup Errors
    /\ thread[t].op = "unpublish" => thread[t].pc \in UnpublishSteps \cup {"ok"} \cup Errors

MountedInv ==
  /\ \A p \in Paths : want[p] = "published" => p \in mounts
  /\ \A t \in Threads : Publishing(t) /\ thread[t].pc = "ok" => thread[t].path \in mounts

UnmountedInv ==
  Punctual =>
    \A t \in Threads : thread[t].op = "unpublish" /\ thread[t].pc = "ok" => thread[t].path \notin mounts

CountInv ==
  Punctual =>
    \A t \in Threads :
      thread[t].op = "unpublish" /\ thread[t].pc \in Counted /\ cnt[t] = 1 => mounts \subseteq {thread[t].path}

DetachInv ==
  Punctual => \A t \in Threads : thread[t].op = "unpublish" /\ thread[t].pc \in Detaching => mounts = {}

InfoInv ==
  Punctual =>
    /\ mounts # {} => info # "none"
    /\ \A t \in Threads : thread[t].op = "publish" /\ thread[t].pc = "mount" => info # "none"

ServedInv ==
  Calm =>
    /\ mounts # {} => device /\ session
    /\ \A t \in Threads : thread[t].op = "publish" /\ thread[t].pc \in Connected => device /\ session

NodeInv == StepsInv /\ MountedInv /\ UnmountedInv /\ CountInv /\ DetachInv /\ InfoInv /\ ServedInv
Inv     == NodeType /\ KubeletType(Steps) /\ KubeletInv /\ NodeInv

LEMMA TypeParts == TypeOK <=> NodeType /\ KubeletType(Steps)
BY DEF TypeOK, NodeType, KubeletType, Steps

LEMMA InvInit == Init => Inv
<1> SUFFICES ASSUME Init PROVE Inv
  OBVIOUS
<1>1. KubeletType(Steps) /\ KubeletInv
  BY KubeletInitInv DEF Init, Steps
<1>2. NodeInv
  BY DEF Init, KubeletInit, NodeInv, StepsInv, MountedInv, UnmountedInv, CountInv, DetachInv, InfoInv, ServedInv,
         Publishing, Idle
<1>3. NodeType
  BY DEF Init, NodeType
<1> QED
  BY <1>1, <1>2, <1>3 DEF Inv

\* Until kubelet gives up, nothing runs beside a publish, and an unpublish beside others only.
LEMMA NothingBesidePublish ==
  ASSUME KubeletInv, Punctual, NEW t \in Threads, NEW u \in Threads,
         thread[t].op = "publish", Running(u)
  PROVE  u = t
BY DEF KubeletInv, PunctualInv, Punctual, WaitsInv, Running, Publishing

-----------------------------------------------------------------------------
(***************************************************************************)
(* The handlers' steps.                                                    *)
(***************************************************************************)
\* What every step of a handler does to kubelet and the paths,
Moves(t, pc) ==
  /\ Running(t) /\ Goto(t, pc) /\ pc \in Steps /\ want' = want
  /\ used' \in UsedType /\ used'["timeouts"] = used["timeouts"]
  /\ thread[t].op = "publish" => pc \in PublishSteps \cup {"ok"} \cup Errors
  /\ thread[t].op = "unpublish" => pc \in UnpublishSteps \cup {"ok"} \cup Errors
  /\ NodeType'
  /\ \/ mounts' = mounts
     \/ thread[t].op = "publish" /\ mounts' = mounts \cup {thread[t].path} /\ thread[t].pc = "mount"
     \/ thread[t].op = "unpublish" /\ mounts' = mounts \ {thread[t].path}
  /\ \A u \in Threads : u # t => cnt'[u] = cnt[u]

\* to the connection,
Keeps(t) ==
  /\ info' # "none" \/ info = "none" \/ (thread[t].op = "unpublish" /\ thread[t].pc = "removeInfo")
  /\ \/ device /\ session => device' /\ session'
     \/ thread[t].op = "unpublish" /\ thread[t].pc \in Detaching

\* and what it has achieved where it goes.
Achieves(t, pc) ==
  /\ thread[t].op = "publish" =>
       /\ pc = "ok" => thread[t].path \in mounts'
       /\ Punctual /\ pc = "mount" => info' # "none"
       /\ Calm /\ pc \in Connected => device' /\ session'
  /\ thread[t].op = "unpublish" /\ Punctual =>
       /\ pc = "ok" => thread[t].path \notin mounts'
       /\ pc \in Counted /\ cnt'[t] = 1 => mounts' \subseteq {thread[t].path}
       /\ pc \in Detaching => mounts' = {}

LEMMA MoveKeepsInv ==
  ASSUME Inv, NEW t \in Threads, NEW pc, Moves(t, pc), Keeps(t), Achieves(t, pc)
  PROVE  Inv'
<1>1. /\ KubeletType(Steps)' /\ KubeletInv'
      /\ \A u \in Threads : /\ thread'[u].op = thread[u].op /\ thread'[u].path = thread[u].path
                            /\ thread'[u].live = thread[u].live
                            /\ thread'[u].pc = IF u = t THEN pc ELSE thread[u].pc
  BY GotoEffect DEF Inv, Moves
<1>2. Punctual' = Punctual /\ Calm' = Calm /\ NodeType'
  BY DEF Punctual, Calm, Moves
<1>3. \A u \in Threads : Punctual /\ u # t /\ thread[t].op = "publish" => ~Running(u)
  BY NothingBesidePublish DEF Inv
<1>4. \A u \in Threads : Punctual /\ u # t /\ thread[u].op = "publish" => FALSE
  BY NothingBesidePublish DEF Inv, Moves
<1>5. Calm /\ ~Punctual => thread[t].op # "unpublish"
  BY DEF Calm, Inv, KubeletInv, LateInv, HandlersInv, Moves
<1>6. StepsInv'
  BY <1>1 DEF Inv, NodeInv, StepsInv, Moves, Running
<1>7. MountedInv'
  <2>1. \A p \in Paths : want[p] \in {"published", "publishing"} /\ p \in mounts => p \in mounts'
    BY DEF Inv, KubeletInv, LateInv, Moves
  <2>2. \A p \in Paths : want'[p] = "published" => p \in mounts'
    BY <2>1 DEF Inv, NodeInv, MountedInv, Moves
  <2>3. ASSUME NEW u \in Threads, Publishing(u)', thread'[u].pc = "ok"
        PROVE  thread'[u].path \in mounts'
    <3>1. Publishing(u) /\ thread'[u].path = thread[u].path /\ thread[u].path \in Paths
      BY <2>3, <1>1 DEF Publishing, Inv, KubeletInv, HandlersInv, Running
    <3>2. CASE u = t
      BY <3>1, <3>2, <2>3, <1>1 DEF Publishing, Achieves
    <3>3. CASE u # t
      BY <3>1, <3>3, <2>3, <2>1, <1>1 DEF Inv, NodeInv, MountedInv, KubeletInv, WaitsInv
    <3> QED
      BY <3>2, <3>3
  <2> QED
    BY <2>2, <2>3 DEF MountedInv
<1>8. UnmountedInv'
  BY <1>1, <1>2, <1>3 DEF Inv, NodeInv, UnmountedInv, Moves, Achieves, Running
<1>9. CountInv'
  BY <1>1, <1>2, <1>3 DEF Inv, NodeInv, CountInv, Moves, Achieves, Running
<1>10. DetachInv'
  BY <1>1, <1>2, <1>3 DEF Inv, NodeInv, DetachInv, Moves, Achieves, Running
<1>11. InfoInv'
  <2>1. ASSUME Punctual, mounts' # {} PROVE info' # "none"
    <3>1. ~(thread[t].op = "unpublish" /\ thread[t].pc = "removeInfo")
      BY <2>1 DEF Inv, NodeInv, DetachInv, Detaching, Moves
    <3>2. info # "none"
      BY <2>1 DEF Inv, NodeInv, InfoInv, Moves
    <3> QED
      BY <3>1, <3>2 DEF Keeps
  <2>2. ASSUME Punctual, NEW u \in Threads, thread'[u].op = "publish", thread'[u].pc = "mount"
        PROVE  info' # "none"
    BY <2>2, <1>1, <1>4 DEF Achieves
  <2> QED
    BY <2>1, <2>2, <1>2 DEF InfoInv
<1>12. ServedInv'
  <2>1. ASSUME Calm, mounts' # {} PROVE device' /\ session'
    <3>1. ~(thread[t].op = "unpublish" /\ thread[t].pc \in Detaching)
      BY <2>1, <1>5 DEF Inv, NodeInv, DetachInv, Moves
    <3>2. device /\ session
      BY <2>1 DEF Inv, NodeInv, ServedInv, Moves, Connected
    <3> QED
      BY <3>1, <3>2 DEF Keeps
  <2>2. ASSUME Calm, NEW u \in Threads, thread'[u].op = "publish", thread'[u].pc \in Connected
        PROVE  device' /\ session'
    <3>1. CASE u = t
      BY <2>2, <3>1, <1>1 DEF Achieves
    <3>2. CASE u # t
      <4>1. thread[t].op # "unpublish"
        BY <2>2, <3>2, <1>1, <1>4, <1>5
      <4>2. device /\ session
        BY <2>2, <3>2, <1>1 DEF Inv, NodeInv, ServedInv
      <4> QED
        BY <4>1, <4>2 DEF Keeps
    <3> QED
      BY <3>1, <3>2
  <2> QED
    BY <2>1, <2>2, <1>2 DEF ServedInv
<1> QED
  BY <1>1, <1>2, <1>6, <1>7, <1>8, <1>9, <1>10, <1>11, <1>12 DEF Inv, NodeInv

-----------------------------------------------------------------------------
\* A count is a number, and one mount counted is the path's.
LEMMA RefCountType ==
  ASSUME mounts \subseteq Paths, NEW p
  PROVE  RefCount(p) \in Nat /\ (RefCount(p) = 1 => mounts = {p})
<1>1. IsFiniteSet(mounts)
  BY PathsAssumption, FS_Subset
<1>2. Cardinality(mounts) \in Nat
  BY <1>1, FS_CardinalityType
<1>3. ASSUME p \in mounts, Cardinality(mounts) = 1 PROVE mounts = {p}
  BY <1>1, <1>3, FS_Singleton
<1> QED
  BY <1>2, <1>3 DEF RefCount

\* Every step of a handler, up to its answer, is such a step.
LEMMA StepMoves ==
  ASSUME Inv, NEW t \in Threads, Run(t), ~Return(t)
  PROVE  \E pc \in Steps : Moves(t, pc) /\ Keeps(t) /\ Achieves(t, pc)
<1> USE DEF PublishSteps, UnpublishSteps, Errors
<1>0. NodeType /\ used \in UsedType
  BY DEF Inv, KubeletType
<1>1. \A pc : At(t, pc) /\ pc \notin {"ok", "error", "notPersisted"} =>
        /\ Running(t) /\ thread[t].path \in Paths /\ thread[t].pc = pc
        /\ thread[t].op = IF pc \in PublishSteps THEN "publish" ELSE "unpublish"
  BY DEF At, Running, Inv, KubeletInv, HandlersInv, NodeInv, StepsInv, KubeletType, ThreadType
<1>2. CASE Connect(t)
  <2>1. Moves(t, "isMounted") /\ Keeps(t) /\ Achieves(t, "isMounted")
    BY <1>0, <1>1, <1>2 DEF Moves, Keeps, Achieves, Connect, NodeType, Steps
  <2> QED
    BY <2>1 DEF Steps
<1>3. CASE IsMounted(t)
  <2> DEFINE pc == IF thread[t].path \in mounts THEN "ok" ELSE "mkdir"
  <2>1. Calm => device /\ session
    BY <1>1, <1>3 DEF IsMounted, Step, Inv, NodeInv, ServedInv, Connected
  <2>2. Moves(t, pc) /\ Keeps(t)
    BY <1>0, <1>1, <1>3 DEF Moves, Keeps, IsMounted, Step, node, NodeType, Steps
  <2>3. Achieves(t, pc)
    BY <1>1, <1>3, <2>1 DEF Achieves, IsMounted, Step, node
  <2> QED
    BY <2>2, <2>3 DEF Steps
<1>4. CASE MakeDir(t)
  <2>1. Calm => device /\ session
    BY <1>1, <1>4 DEF MakeDir, Inv, NodeInv, ServedInv, Connected
  <2>2. Moves(t, "persist") /\ Keeps(t) /\ Achieves(t, "persist")
    BY <1>0, <1>1, <1>4, <2>1 DEF Moves, Keeps, Achieves, MakeDir, NodeType, Steps
  <2> QED
    BY <2>2 DEF Steps
<1>5. CASE Persist(t)
  <2>1. Calm => device /\ session
    BY <1>1, <1>5 DEF Persist, Inv, NodeInv, ServedInv, Connected
  <2>2. Moves(t, "mount") /\ Keeps(t) /\ Achieves(t, "mount")
    BY <1>0, <1>1, <1>5, <2>1 DEF Moves, Keeps, Achieves, Persist, NodeType, Steps
  <2> QED
    BY <2>2 DEF Steps
<1>6. CASE FormatAndMount(t)
  <2>1. CASE device /\ thread[t].path \in dirs /\ thread[t].path \notin mounts
    <3>1. Moves(t, "ok") /\ Keeps(t) /\ Achieves(t, "ok")
      BY <1>0, <1>1, <1>6, <2>1 DEF Moves, Keeps, Achieves, FormatAndMount, NodeType, Steps, Connected
    <3> QED
      BY <3>1 DEF Steps
  <2>2. CASE ~(device /\ thread[t].path \in dirs /\ thread[t].path \notin mounts)
    <3>1. Moves(t, "error") /\ Keeps(t) /\ Achieves(t, "error")
      BY <1>0, <1>1, <1>6, <2>2 DEF Moves, Keeps, Achieves, FormatAndMount, NodeType, Steps, Connected
    <3> QED
      BY <3>1 DEF Steps
  <2> QED
    BY <2>1, <2>2
<1>7. CASE CountMounts(t)
  <2>1. RefCount(thread[t].path) \in Nat /\ (RefCount(thread[t].path) = 1 => mounts = {thread[t].path})
    BY <1>0, RefCountType DEF NodeType
  <2>2. cnt' \in [Threads -> Nat] /\ cnt'[t] = RefCount(thread[t].path) /\ \A u \in Threads : u # t => cnt'[u] = cnt[u]
    BY <1>0, <1>7, <2>1 DEF CountMounts, NodeType
  <2>3. Moves(t, "exists") /\ Keeps(t) /\ Achieves(t, "exists")
    BY <1>0, <1>1, <1>7, <2>1, <2>2 DEF Moves, Keeps, Achieves, CountMounts, node, NodeType, Steps, Detaching
  <2> QED
    BY <2>3 DEF Steps
<1>8. CASE CheckExists(t)
  <2> DEFINE pc == IF thread[t].path \in dirs THEN "load" ELSE "ok"
  <2>1. Punctual /\ cnt[t] = 1 => mounts \subseteq {thread[t].path}
    BY <1>1, <1>8 DEF CheckExists, Step, Inv, NodeInv, CountInv, Counted
  <2>2. Moves(t, pc) /\ Keeps(t)
    BY <1>0, <1>1, <1>8 DEF Moves, Keeps, CheckExists, Step, node, NodeType, Steps
  <2>3. Achieves(t, pc)
    BY <1>0, <1>1, <1>8, <2>1 DEF Achieves, CheckExists, Step, node, NodeType, Detaching
  <2> QED
    BY <2>2, <2>3 DEF Steps
<1>9. CASE LoadInfo(t)
  <2> DEFINE pc == CASE info = "valid" -> "unmount" [] info = "none" -> "ok" [] info = "torn" -> "error"
  <2>1. Punctual /\ cnt[t] = 1 => mounts \subseteq {thread[t].path}
    BY <1>1, <1>9 DEF LoadInfo, Step, Inv, NodeInv, CountInv, Counted
  <2>2. Punctual /\ info = "none" => mounts = {}
    BY DEF Inv, NodeInv, InfoInv
  <2>3. pc \in {"unmount", "ok", "error"} /\ (pc = "ok" <=> info = "none")
    BY <1>0 DEF NodeType
  <2>4. Goto(t, pc) /\ At(t, "load") /\ UNCHANGED <<node, cnt, want, used>>
    BY <1>9 DEF LoadInfo, Step
  <2>5. Moves(t, pc) /\ Keeps(t)
    BY <1>0, <1>1, <2>3, <2>4 DEF Moves, Keeps, node, NodeType, Steps
  <2>6. Achieves(t, pc)
    <3> HIDE DEF pc
    <3>1. thread[t].op = "unpublish" /\ UNCHANGED <<mounts, cnt>>
      BY <1>1, <2>4 DEF node
    <3> QED
      BY <2>1, <2>2, <2>3, <3>1 DEF Achieves, Detaching
  <2> QED
    BY <2>3, <2>5, <2>6 DEF Steps
<1>10. CASE Unmount(t)
  <2> DEFINE p  == thread[t].path
             pc == CASE p \notin mounts -> "error"
                     [] p \in mounts /\ LastMount(cnt[t]) -> "disconnect"
                     [] p \in mounts /\ ~LastMount(cnt[t]) -> "ok"
  <2>1. Punctual /\ cnt[t] = 1 => mounts \subseteq {p}
    BY <1>1, <1>10 DEF Unmount, Inv, NodeInv, CountInv, Counted
  <2>2. pc \in {"error", "disconnect", "ok"} /\ (pc = "disconnect" => cnt[t] = 1)
    BY <1>0 DEF LastMount, NodeType
  <2>3. /\ Goto(t, pc) /\ At(t, "unmount") /\ mounts' = mounts \ {p}
        /\ cnt' = [cnt EXCEPT ![t] = 0] /\ UNCHANGED <<session, device, dirs, info, want, used>>
    BY <1>10 DEF Unmount
  <2>4. cnt' \in [Threads -> Nat] /\ \A u \in Threads : u # t => cnt'[u] = cnt[u]
    BY <1>0, <2>3 DEF NodeType
  <2>5. Moves(t, pc) /\ Keeps(t)
    BY <1>0, <1>1, <2>2, <2>3, <2>4 DEF Moves, Keeps, NodeType, Steps
  <2>6. Achieves(t, pc)
    BY <1>1, <2>1, <2>2, <2>3 DEF Achieves, Counted, Detaching
  <2> QED
    BY <2>2, <2>5, <2>6 DEF Steps
<1>11. CASE DisconnectVolume(t)
  <2>1. Punctual => mounts = {}
    BY <1>1, <1>11 DEF DisconnectVolume, Inv, NodeInv, DetachInv, Detaching
  <2>2. Moves(t, "logout")
    <3>1. NodeType'
      BY <1>0, <1>11 DEF DisconnectVolume, NodeType
    <3> QED
      BY <1>0, <1>1, <1>11, <3>1 DEF Moves, DisconnectVolume, Steps
  <2>3. Keeps(t) /\ Achieves(t, "logout")
    BY <1>1, <1>11, <2>1 DEF Keeps, Achieves, DisconnectVolume, Counted, Detaching
  <2> QED
    BY <2>2, <2>3 DEF Steps
<1>12. CASE Disconnect(t)
  <2>1. Punctual => mounts = {}
    BY <1>1, <1>12 DEF Disconnect, Inv, NodeInv, DetachInv, Detaching
  <2>2. Moves(t, "removeAll")
    <3>1. NodeType'
      BY <1>0, <1>12 DEF Disconnect, NodeType
    <3> QED
      BY <1>0, <1>1, <1>12, <3>1 DEF Moves, Disconnect, Steps
  <2>3. Keeps(t) /\ Achieves(t, "removeAll")
    BY <1>1, <1>12, <2>1 DEF Keeps, Achieves, Disconnect, Counted, Detaching
  <2> QED
    BY <2>2, <2>3 DEF Steps
<1>13. CASE RemoveAll(t)
  <2>1. Punctual => mounts = {}
    BY <1>1, <1>13 DEF RemoveAll, Inv, NodeInv, DetachInv, Detaching
  <2>2. Moves(t, "removeInfo") /\ Keeps(t) /\ Achieves(t, "removeInfo")
    BY <1>0, <1>1, <1>13, <2>1 DEF Moves, Keeps, Achieves, RemoveAll, NodeType, Steps, Counted, Detaching
  <2> QED
    BY <2>2 DEF Steps
<1>14. CASE RemoveInfo(t)
  <2> DEFINE pc == IF info = "none" THEN "error" ELSE "ok"
  <2>1. Punctual => mounts = {}
    BY <1>1, <1>14 DEF RemoveInfo, Inv, NodeInv, DetachInv, Detaching
  <2>2. Moves(t, pc) /\ Keeps(t)
    BY <1>0, <1>1, <1>14 DEF Moves, Keeps, RemoveInfo, NodeType, Steps
  <2>3. Achieves(t, pc)
    BY <1>1, <1>14, <2>1 DEF Achieves, RemoveInfo, Counted, Detaching
  <2> QED
    BY <2>2, <2>3 DEF Steps
<1> QED
  BY <1>2, <1>3, <1>4, <1>5, <1>6, <1>7, <1>8, <1>9, <1>10, <1>11, <1>12, <1>13, <1>14 DEF Run

\* So is a step that fails.
LEMMA FailMoves ==
  ASSUME Inv, NEW t \in Threads, Fail(t)
  PROVE  \E pc \in Steps : Moves(t, pc) /\ Keeps(t) /\ Achieves(t, pc)
<1> USE DEF Errors
<1>0. NodeType /\ used' \in UsedType /\ used'["timeouts"] = used["timeouts"] /\ UNCHANGED <<cnt, want>>
  BY CountTyped DEF Fail, Inv, KubeletType
<1>1. \A pc : At(t, pc) =>
        /\ Running(t) /\ thread[t].pc = pc
        /\ pc \in {"logout", "removeAll"} => thread[t].op = "unpublish"
        /\ pc \in {"connect", "persist"} => thread[t].op = "publish"
  BY DEF At, Running, Inv, NodeInv, StepsInv, KubeletType, ThreadType, PublishSteps, UnpublishSteps
<1>2. CASE /\ At(t, "connect") /\ session' \in {session, TRUE} /\ Goto(t, "error")
           /\ UNCHANGED <<device, mounts, dirs, info>>
  <2>1. Moves(t, "error")
    BY <1>0, <1>1, <1>2 DEF Moves, NodeType, Steps
  <2>2. session => session'
    BY <1>2
  <2>3. Keeps(t) /\ Achieves(t, "error")
    BY <1>1, <1>2, <2>2 DEF Keeps, Achieves, Connected, Counted, Detaching
  <2> QED
    BY <2>1, <2>3 DEF Steps
<1>3. CASE /\ At(t, "persist") /\ info' \in {info, "torn"} /\ Goto(t, "notPersisted")
           /\ UNCHANGED <<session, device, mounts, dirs>>
  <2>1. Moves(t, "notPersisted") /\ Keeps(t) /\ Achieves(t, "notPersisted")
    BY <1>0, <1>1, <1>3 DEF Moves, Keeps, Achieves, NodeType, Steps, Connected, Counted, Detaching
  <2> QED
    BY <2>1 DEF Steps
<1>4. CASE At(t, "removeAll") /\ Goto(t, "removeInfo") /\ UNCHANGED node
  <2>1. Punctual => mounts = {}
    BY <1>1, <1>4 DEF Inv, NodeInv, DetachInv, Detaching
  <2>2. Moves(t, "removeInfo") /\ Keeps(t) /\ Achieves(t, "removeInfo")
    BY <1>0, <1>1, <1>4, <2>1 DEF Moves, Keeps, Achieves, node, NodeType, Steps, UnpublishSteps, Counted, Detaching
  <2> QED
    BY <2>2 DEF Steps, UnpublishSteps
<1>5. CASE At(t, "logout") /\ Goto(t, "removeAll") /\ UNCHANGED node
  <2>1. Punctual => mounts = {}
    BY <1>1, <1>5 DEF Inv, NodeInv, DetachInv, Detaching
  <2>2. Moves(t, "removeAll") /\ Keeps(t) /\ Achieves(t, "removeAll")
    BY <1>0, <1>1, <1>5, <2>1 DEF Moves, Keeps, Achieves, node, NodeType, Steps, UnpublishSteps, Counted, Detaching
  <2> QED
    BY <2>2 DEF Steps, UnpublishSteps
<1>6. CASE (\E pc : At(t, pc)) /\ Goto(t, "error") /\ UNCHANGED node
  <2>1. Moves(t, "error") /\ Keeps(t) /\ Achieves(t, "error")
    BY <1>0, <1>1, <1>6 DEF Moves, Keeps, Achieves, node, NodeType, Steps, Connected, Counted, Detaching
  <2> QED
    BY <2>1 DEF Steps
<1> QED
  BY <1>2, <1>3, <1>4, <1>5, <1>6 DEF Fail

-----------------------------------------------------------------------------
(***************************************************************************)
(* Answers, kubelet's calls, and faults.                                   *)
(***************************************************************************)
\* What they do: handlers end, start, or are not waited for any more.
Calls ==
  /\ KubeletType(Steps)' /\ KubeletInv' /\ NodeType'
  /\ UNCHANGED <<session, device, mounts>> /\ (info' = "none" => info = "none")
  /\ Punctual' => Punctual
  /\ \A u \in Threads :
       \/ thread'[u].op = "idle" /\ thread'[u].pc = "ok"
       \/ /\ thread'[u].op = thread[u].op /\ thread'[u].path = thread[u].path
          /\ thread'[u].pc = thread[u].pc /\ (thread'[u].live => thread[u].live)
          /\ cnt'[u] = cnt[u]
       \/ thread'[u].op = "publish" /\ thread'[u].pc = "connect"
       \/ thread'[u].op = "unpublish" /\ thread'[u].pc = "count"
  /\ \A p \in Paths : want'[p] = "published" => want[p] = "published" \/ p \in mounts
  /\ \A p \in Paths : want[p] \in {"unpublishing", "done"} => want'[p] \in {"unpublishing", "done"}

LEMMA CallsKeepInv ==
  ASSUME Inv, Calls
  PROVE  Inv'
<1> USE DEF Calls
<1>1. Calm' => Calm
  BY DEF Calm
<1>2. StepsInv'
  BY DEF Inv, NodeInv, StepsInv, PublishSteps, UnpublishSteps
<1>3. MountedInv'
  BY DEF Inv, NodeInv, MountedInv, Publishing
<1>4. UnmountedInv'
  BY DEF Inv, NodeInv, UnmountedInv
<1>5. CountInv'
  BY DEF Inv, NodeInv, CountInv, Counted
<1>6. DetachInv'
  BY DEF Inv, NodeInv, DetachInv, Detaching
<1>7. InfoInv'
  BY DEF Inv, NodeInv, InfoInv
<1>8. ServedInv'
  BY <1>1 DEF Inv, NodeInv, ServedInv, Connected
<1> QED
  BY <1>2, <1>3, <1>4, <1>5, <1>6, <1>7, <1>8 DEF Inv, NodeInv

LEMMA ReturnCalls ==
  ASSUME Inv, NEW t \in Threads, Return(t)
  PROVE  Calls
<1>1. KubeletType(Steps) /\ KubeletInv /\ "ok" \in Steps /\ Answer(t, Errors)
  BY DEF Inv, Steps, Return
<1>2. /\ KubeletType(Steps)' /\ KubeletInv' /\ used' = used
      /\ Running(t) /\ thread[t].path \in Paths
      /\ \A u \in Threads : u # t => thread'[u] = thread[u]
      /\ thread'[t] = Idle
      /\ ~thread[t].live => want' = want
      /\ Publishing(t) =>
           /\ want[thread[t].path] = "publishing"
           /\ want' = [want EXCEPT ![thread[t].path] = IF thread[t].pc = "ok" THEN "published" ELSE "failed"]
      /\ thread[t].op = "unpublish" /\ thread[t].live =>
           /\ want[thread[t].path] = "unpublishing"
           /\ want' = [want EXCEPT ![thread[t].path] = IF thread[t].pc = "ok" THEN "done" ELSE "unpublishing"]
  BY <1>1, AnswerEffect
<1>3. thread[t].op \in {"publish", "unpublish"} /\ want \in [Paths -> Beliefs]
  BY <1>1, <1>2 DEF KubeletType, ThreadType, Running
<1>4. /\ \A p \in Paths : want'[p] = "published" => want[p] = "published" \/ p \in mounts
      /\ \A p \in Paths : want[p] \in {"unpublishing", "done"} => want'[p] \in {"unpublishing", "done"}
  <2>1. CASE ~thread[t].live
    BY <1>2, <2>1
  <2>2. CASE Publishing(t)
    <3>1. thread[t].pc = "ok" => thread[t].path \in mounts
      BY <2>2 DEF Inv, NodeInv, MountedInv
    <3> QED
      BY <1>2, <1>3, <2>2, <3>1
  <2>3. CASE thread[t].op = "unpublish" /\ thread[t].live
    BY <1>2, <1>3, <2>3
  <2> QED
    BY <1>3, <2>1, <2>2, <2>3 DEF Publishing
<1>5. UNCHANGED <<session, device, mounts, info>> /\ cnt' = [cnt EXCEPT ![t] = 0] /\ NodeType'
  BY DEF Return, node, Inv, NodeType
<1>6. \A u \in Threads : u # t => cnt'[u] = cnt[u]
  BY <1>5 DEF Inv, NodeType
<1> QED
  BY <1>2, <1>4, <1>5, <1>6 DEF Calls, Idle, Punctual

LEMMA PublishCalls ==
  ASSUME Inv, NEW t \in Threads, NEW p \in Paths, NodePublishVolume(t, p)
  PROVE  Calls
<1>1. KubeletType(Steps) /\ KubeletInv /\ "connect" \in Steps /\ Publish(t, p, "connect")
  BY DEF Inv, Steps, PublishSteps, NodePublishVolume
<1>2. /\ KubeletType(Steps)' /\ KubeletInv' /\ used' = used
      /\ want[p] \in {"none", "failed", "uncertain"}
      /\ want' = [want EXCEPT ![p] = "publishing"]
      /\ \A u \in Threads : u # t => thread'[u] = thread[u]
      /\ thread'[t] = [op |-> "publish", path |-> p, pc |-> "connect", live |-> TRUE]
  BY <1>1, PublishEffect
<1>3. UNCHANGED <<session, device, mounts, info, cnt>> /\ NodeType'
  BY DEF NodePublishVolume, node, Inv, NodeType
<1>4. want'[p] = "publishing" /\ \A q \in Paths : q # p => want'[q] = want[q]
  BY <1>1, <1>2 DEF KubeletType
<1> QED
  BY <1>2, <1>3, <1>4 DEF Calls, Punctual

LEMMA UnpublishCalls ==
  ASSUME Inv, NEW t \in Threads, NEW p \in Paths, NodeUnpublishVolume(t, p)
  PROVE  Calls
<1>1. KubeletType(Steps) /\ KubeletInv /\ "count" \in Steps /\ Unpublish(t, p, "count")
  BY DEF Inv, Steps, UnpublishSteps, NodeUnpublishVolume
<1>2. /\ KubeletType(Steps)' /\ KubeletInv' /\ used'["timeouts"] = used["timeouts"]
      /\ want' = [want EXCEPT ![p] = "unpublishing"]
      /\ \A u \in Threads : u # t => thread'[u] = thread[u]
      /\ thread'[t] = [op |-> "unpublish", path |-> p, pc |-> "count", live |-> TRUE]
  BY <1>1, UnpublishEffect
<1>3. UNCHANGED <<session, device, mounts, info, cnt>> /\ NodeType'
  BY DEF NodeUnpublishVolume, node, Inv, NodeType
<1>4. want'[p] = "unpublishing" /\ \A q \in Paths : q # p => want'[q] = want[q]
  BY <1>1, <1>2 DEF KubeletType
<1> QED
  BY <1>2, <1>3, <1>4 DEF Calls, Punctual

LEMMA TimeoutCalls ==
  ASSUME Inv, NEW t \in Threads, Timeout(t)
  PROVE  Calls /\ ~Punctual'
<1>1. KubeletType(Steps) /\ KubeletInv /\ GiveUp(t)
  BY DEF Inv, Timeout
<1>2. /\ KubeletType(Steps)' /\ KubeletInv' /\ used'["timeouts"] # 0
      /\ \A u \in Threads : /\ thread'[u].op = thread[u].op /\ thread'[u].path = thread[u].path
                            /\ thread'[u].pc = thread[u].pc
                            /\ thread'[u].live = (u # t /\ thread[u].live)
      /\ \A p \in Paths : want'[p] # want[p] => want[p] = "publishing" /\ want'[p] = "uncertain"
  BY <1>1, GiveUpEffect
<1>3. UNCHANGED <<session, device, mounts, info, cnt>> /\ NodeType'
  BY DEF Timeout, node, Inv, NodeType
<1> QED
  BY <1>2, <1>3 DEF Calls, Punctual

LEMMA CrashCalls ==
  ASSUME Inv, Crash
  PROVE  Calls
<1>1. KubeletType(Steps) /\ KubeletInv /\ "ok" \in Steps /\ Die
  BY DEF Inv, Steps, Crash
<1>2. /\ KubeletType(Steps)' /\ KubeletInv' /\ used'["timeouts"] = used["timeouts"]
      /\ \A u \in Threads : thread'[u] = Idle
      /\ \A p \in Paths : want'[p] # want[p] => want[p] = "publishing" /\ want'[p] = "uncertain"
  BY <1>1, DieEffect
<1>3. UNCHANGED <<session, device, mounts, dirs>> /\ info' \in {info, "torn"} /\ cnt' = [t \in Threads |-> 0]
  BY DEF Crash
<1>4. NodeType'
  BY <1>3 DEF Inv, NodeType
<1> QED
  BY <1>2, <1>3, <1>4 DEF Calls, Idle, Punctual

LEMMA InvStep == Inv /\ [Next]_vars => Inv'
<1> SUFFICES ASSUME Inv, [Next]_vars PROVE Inv'
  OBVIOUS
<1>1. ASSUME NEW t \in Threads, Run(t) \/ Fail(t)
      PROVE  Inv'
  <2>1. CASE Return(t)
    BY <2>1, ReturnCalls, CallsKeepInv
  <2>2. CASE ~Return(t)
    BY <1>1, <2>2, StepMoves, FailMoves, MoveKeepsInv
  <2> QED
    BY <2>1, <2>2
<1>2. ASSUME NEW t \in Threads, Timeout(t)
      PROVE  Inv'
  BY <1>2, TimeoutCalls, CallsKeepInv
<1>3. ASSUME NEW t \in Threads, NEW p \in Paths, NodePublishVolume(t, p) \/ NodeUnpublishVolume(t, p)
      PROVE  Inv'
  BY <1>3, PublishCalls, UnpublishCalls, CallsKeepInv
<1>4. CASE Crash
  BY <1>4, CrashCalls, CallsKeepInv
<1>5. CASE UNCHANGED vars
  <2>1. KubeletType(Steps)' /\ KubeletInv' /\ NodeType'
    BY <1>5 DEF vars, Inv, KubeletType, KubeletInv, HandlersInv, WaitsInv, LateInv, PunctualInv, Running, Publishing,
                NodeType
  <2>2. Calls
    BY <1>5, <2>1 DEF vars, Calls, Punctual
  <2> QED
    BY <2>2, CallsKeepInv
<1> QED
  BY <1>1, <1>2, <1>3, <1>4, <1>5 DEF Next

LEMMA Invariant == Spec => []Inv
BY InvInit, InvStep, PTL DEF Spec

-----------------------------------------------------------------------------
(***************************************************************************)
(* The state is always as TypeOK says; above all nothing is mounted where  *)
(* there is no directory, and a count is a number.                         *)
(***************************************************************************)
THEOREM TypeCorrect == Spec => []TypeOK
<1>1. Inv => TypeOK
  BY TypeParts DEF Inv
<1> QED
  BY <1>1, Invariant, PTL

(***************************************************************************)
(* A path that kubelet believes published has the volume mounted and the   *)
(* device there, for any number of pods that come and go, unless kubelet   *)
(* gave up on a handler and the volume has several paths                   *)
(* (iscsi_node_utils.go:107-120).                                          *)
(***************************************************************************)
THEOREM PublishedAlwaysServed == Spec => []PublishedIsServed
<1>1. ASSUME Inv, NEW p \in Paths, want[p] = "published", used.timeouts = 0 \/ OnlyUser(p)
      PROVE  p \in mounts /\ device /\ session
  <2>1. p \in mounts
    BY <1>1 DEF Inv, NodeInv, MountedInv
  <2>2. Calm
    <3>1. CASE used.timeouts = 0
      BY <3>1 DEF Calm, Punctual
    <3>2. CASE OnlyUser(p)
      BY <1>1, <3>2 DEF Calm, OnlyUser
    <3> QED
      BY <1>1, <3>1, <3>2
  <2> QED
    BY <1>1, <2>1, <2>2 DEF Inv, NodeInv, ServedInv
<1>2. Inv => PublishedIsServed
  BY <1>1 DEF PublishedIsServed
<1> QED
  BY <1>2, Invariant, PTL

(***************************************************************************)
(* Until kubelet gives up on a handler, the count keeps DetachDisk from    *)
(* taking the device away while any path has it mounted                    *)
(* (iscsi_node_utils.go:107-111).                                          *)
(***************************************************************************)
THEOREM DetachedOnlyUnused == Spec => []DetachOnlyUnused
<1>1. ASSUME Inv, used.timeouts = 0, NEW t \in Threads, thread[t].pc \in {"disconnect", "logout", "removeAll"}
      PROVE  mounts = {}
  <2>1. CASE thread[t].op = "idle"
    BY <1>1, <2>1 DEF Inv, NodeInv, StepsInv
  <2>2. CASE thread[t].op # "idle"
    BY <1>1, <2>2 DEF Inv, NodeInv, StepsInv, DetachInv, Detaching, PublishSteps, Errors, Punctual, KubeletType, ThreadType
  <2> QED
    BY <2>1, <2>2
<1>2. Inv => DetachOnlyUnused
  BY <1>1 DEF DetachOnlyUnused
<1> QED
  BY <1>2, Invariant, PTL

-----------------------------------------------------------------------------
(***************************************************************************)
(* The refinement.  Until kubelet gives up on a handler it waits for every *)
(* one that runs, so it remembers what the handler that mounts or unmounts *)
(* is doing.                                                               *)
(***************************************************************************)
LEMMA PathInit == Init => Path!Init
BY DEF Init, KubeletInit, Path!Init

LEMMA MovePath ==
  ASSUME Inv, NEW t \in Threads, NEW pc, Moves(t, pc), Punctual
  PROVE  Path!Next \/ UNCHANGED <<want, mounts>>
<1>1. /\ thread[t].path \in Paths /\ want' = want
      /\ thread[t].op = "publish" => want[thread[t].path] = "publishing"
      /\ thread[t].op = "unpublish" => want[thread[t].path] = "unpublishing"
  BY DEF Moves, Punctual, Inv, KubeletInv, PunctualInv, HandlersInv, WaitsInv, Running, Publishing
<1>2. CASE mounts' = mounts
  BY <1>1, <1>2
<1>3. CASE thread[t].op = "publish" /\ mounts' = mounts \cup {thread[t].path}
  BY <1>1, <1>3 DEF Path!Next, Path!Mount
<1>4. CASE thread[t].op = "unpublish" /\ mounts' = mounts \ {thread[t].path}
  BY <1>1, <1>4 DEF Path!Next, Path!Unmount
<1> QED
  BY <1>2, <1>3, <1>4 DEF Moves

LEMMA ReturnPath ==
  ASSUME Inv, NEW t \in Threads, Return(t), Punctual
  PROVE  Path!Next \/ UNCHANGED <<want, mounts>>
<1> DEFINE p == thread[t].path
<1>1. /\ KubeletType(Steps) /\ KubeletInv /\ "ok" \in Steps /\ want \in [Paths -> Beliefs]
      /\ Answer(t, Errors) /\ UNCHANGED mounts
  BY DEF Inv, Steps, KubeletType, Return, node
<1>2. /\ p \in Paths /\ thread[t].live /\ thread[t].op \in {"publish", "unpublish"}
      /\ Publishing(t) =>
           /\ want[p] = "publishing"
           /\ want' = [want EXCEPT ![p] = IF thread[t].pc = "ok" THEN "published" ELSE "failed"]
      /\ thread[t].op = "unpublish" /\ thread[t].live =>
           /\ want[p] = "unpublishing"
           /\ want' = [want EXCEPT ![p] = IF thread[t].pc = "ok" THEN "done" ELSE "unpublishing"]
  BY <1>1, AnswerEffect DEF KubeletInv, PunctualInv, Punctual, Running, KubeletType, ThreadType
<1>3. CASE thread[t].op = "publish" /\ thread[t].pc = "ok"
  <2>1. p \in mounts
    BY <1>2, <1>3 DEF Inv, NodeInv, MountedInv, Publishing
  <2>2. Path!Published(p)
    BY <1>1, <1>2, <1>3, <2>1 DEF Path!Published, Path!Enter, Publishing
  <2> QED
    BY <1>2, <2>2 DEF Path!Next
<1>4. CASE thread[t].op = "publish" /\ thread[t].pc # "ok"
  <2>1. Path!PublishFailed(p)
    BY <1>1, <1>2, <1>4 DEF Path!PublishFailed, Path!Enter, Publishing
  <2> QED
    BY <1>2, <2>1 DEF Path!Next
<1>5. CASE thread[t].op = "unpublish" /\ thread[t].pc = "ok"
  <2>1. p \notin mounts
    BY <1>5 DEF Inv, NodeInv, UnmountedInv
  <2>2. Path!Unpublished(p)
    BY <1>1, <1>2, <1>5, <2>1 DEF Path!Unpublished, Path!Enter
  <2> QED
    BY <1>2, <2>2 DEF Path!Next
<1>6. CASE thread[t].op = "unpublish" /\ thread[t].pc # "ok"
  <2>1. want' = want
    BY <1>1, <1>2, <1>6
  <2> QED
    BY <1>1, <2>1
<1> QED
  BY <1>2, <1>3, <1>4, <1>5, <1>6

LEMMA PathStep ==
  Inv /\ [Next]_vars /\ used'["timeouts"] = 0 => Path!Next \/ UNCHANGED <<want, mounts>>
<1> SUFFICES ASSUME Inv, [Next]_vars, used'["timeouts"] = 0
             PROVE  Path!Next \/ UNCHANGED <<want, mounts>>
  OBVIOUS
<1>1. ASSUME NEW t \in Threads, Run(t) \/ Fail(t)
      PROVE  Path!Next \/ UNCHANGED <<want, mounts>>
  <2>1. CASE Return(t)
    <3>1. Punctual
      BY <2>1 DEF Return, Answer, Punctual
    <3> QED
      BY <2>1, <3>1, ReturnPath
  <2>2. CASE ~Return(t)
    <3>1. PICK pc : Moves(t, pc)
      BY <1>1, <2>2, StepMoves, FailMoves
    <3>2. Punctual
      BY <3>1 DEF Moves, Punctual
    <3> QED
      BY <3>1, <3>2, MovePath
  <2> QED
    BY <2>1, <2>2
<1>2. ASSUME NEW t \in Threads, Timeout(t)
      PROVE  FALSE
  BY <1>2, TimeoutCalls DEF Punctual
<1>3. ASSUME NEW t \in Threads, NEW p \in Paths, NodePublishVolume(t, p)
      PROVE  Path!Next
  <2>1. Publish(t, p, "connect") /\ UNCHANGED mounts
    BY <1>3 DEF NodePublishVolume, node
  <2>2. Path!Publish(p)
    BY <2>1 DEF Publish, Path!Publish, Path!Enter
  <2> QED
    BY <2>2 DEF Path!Next
<1>4. ASSUME NEW t \in Threads, NEW p \in Paths, NodeUnpublishVolume(t, p)
      PROVE  Path!Next
  <2>1. Unpublish(t, p, "count") /\ UNCHANGED mounts
    BY <1>4 DEF NodeUnpublishVolume, node
  <2>2. Path!Unpublish(p)
    BY <2>1 DEF Unpublish, Path!Unpublish, Path!Enter
  <2> QED
    BY <2>2 DEF Path!Next
<1>5. CASE Crash
  <2>1. UNCHANGED mounts /\ Die /\ KubeletType(Steps) /\ KubeletInv /\ "ok" \in Steps
    BY <1>5 DEF Crash, Inv, Steps
  <2>2. want' = want \/ \E p \in Paths : want[p] = "publishing" /\ want' = [want EXCEPT ![p] = "uncertain"]
    BY <2>1, DieEffect
  <2>3. ASSUME NEW p \in Paths, want[p] = "publishing", want' = [want EXCEPT ![p] = "uncertain"]
        PROVE  Path!PublishFailed(p)
    BY <2>1, <2>3 DEF Path!PublishFailed, Path!Enter
  <2> QED
    BY <2>1, <2>2, <2>3 DEF Path!Next
<1>6. CASE UNCHANGED vars
  BY <1>6 DEF vars
<1> QED
  BY <1>1, <1>2, <1>3, <1>4, <1>5, <1>6 DEF Next

(***************************************************************************)
(* Until kubelet gives up on a handler, publish and unpublish do what      *)
(* PublishedPath says kubelet counts on (iscsi_node_utils.go:33-130).      *)
(***************************************************************************)
THEOREM PublishedPathImplemented == Spec => ImplementsPublishedPath
<1>1. Inv /\ [Next]_vars => [used'["timeouts"] = 0 => Path!Next]_<<want, mounts>>
  BY PathStep
<1> QED
  BY <1>1, PathInit, Invariant, PTL DEF Spec, ImplementsPublishedPath

-----------------------------------------------------------------------------
(***************************************************************************)
(* The last one out.  As long as nothing went wrong there is one handler   *)
(* at a time, so what it found when it counted still holds when it         *)
(* compares the count, and every call succeeds.                            *)
(***************************************************************************)
Quiet == used.overlaps + used.fails + used.timeouts + used.crashes = 0
Clear == ~session /\ ~device /\ info = "none"

PublishQuiet(t) ==
  /\ thread[t].pc \notin Errors
  /\ thread[t].pc \in PublishSteps => thread[t].path \notin mounts
  /\ thread[t].pc \in {"persist", "mount"} => thread[t].path \in dirs
  /\ thread[t].pc = "mount" => info = "valid"

UnpublishQuiet(t) ==
  /\ thread[t].pc \notin Errors
  /\ thread[t].pc \in {"count"} \cup Counted => thread[t].path \in mounts
  /\ thread[t].pc \in Counted /\ mounts = {thread[t].path} => cnt[t] = 1
  /\ thread[t].pc \in Detaching => info = "valid"
  /\ thread[t].pc \in {"removeAll", "removeInfo"} => ~session /\ ~device
  /\ thread[t].pc = "ok" /\ mounts = {} => Clear

InProgress(p, op) == \E t \in Threads : thread[t].op = op /\ thread[t].path = p

HandlersQuiet ==
  /\ \A t, u \in Threads : Running(t) /\ Running(u) => u = t
  /\ \A t \in Threads : thread[t].op = "publish" => PublishQuiet(t)
  /\ \A t \in Threads : thread[t].op = "unpublish" => UnpublishQuiet(t)

BeliefsQuiet ==
  \A p \in Paths :
    /\ want[p] \notin {"failed", "uncertain"}
    /\ want[p] \in {"none", "done"} => p \notin mounts
    /\ want[p] = "unpublishing" => InProgress(p, "unpublish")

NodeQuiet ==
  /\ info # "torn"
  /\ mounts # {} => info = "valid"
  /\ (\A t \in Threads : ~Running(t)) /\ mounts = {} => Clear

QuietInv == Quiet => HandlersQuiet /\ BeliefsQuiet /\ NodeQuiet

\* The counters only grow.
LEMMA QuietBefore ==
  ASSUME Inv, [Next]_vars, Quiet'
  PROVE  Quiet /\ Punctual /\ used' = used
<1> DEFINE Sum(f) == f.overlaps + f.fails + f.timeouts + f.crashes
<1>1. used \in UsedType
  BY DEF Inv, KubeletType
<1>2. ASSUME NEW kind \in {"overlaps", "fails", "timeouts", "crashes"}, NEW max, CountUse(kind, max)
      PROVE  FALSE
  BY <1>1, <1>2 DEF Quiet, CountUse, UsedType
<1>3. used' = used
  <2>1. ASSUME NEW t \in Threads, Run(t) PROVE used' = used
    BY <2>1 DEF Run, Return, Answer, Connect, IsMounted, MakeDir, Persist, FormatAndMount, CountMounts, CheckExists,
                LoadInfo, Unmount, DisconnectVolume, Disconnect, RemoveAll, RemoveInfo, Step
  <2>2. ASSUME NEW t \in Threads, Fail(t) \/ Timeout(t) PROVE FALSE
    BY <2>2, <1>2 DEF Fail, Timeout, GiveUp
  <2>3. ASSUME NEW t \in Threads, NEW p \in Paths, NodePublishVolume(t, p) \/ NodeUnpublishVolume(t, p)
        PROVE  used' = used
    BY <2>3, <1>2 DEF NodePublishVolume, NodeUnpublishVolume, Publish, Unpublish
  <2>4. CASE Crash
    BY <2>4, <1>2 DEF Crash, Die
  <2>5. CASE UNCHANGED vars
    BY <2>5 DEF vars
  <2> QED
    BY <2>1, <2>2, <2>3, <2>4, <2>5 DEF Next
<1>4. Quiet
  BY <1>3 DEF Quiet
<1>5. Punctual
  BY <1>1, <1>4 DEF Quiet, Punctual, UsedType
<1> QED
  BY <1>3, <1>4, <1>5

\* A step of the only handler, if it does its part.
LEMMA MoveKeepsQuiet ==
  ASSUME Inv, HandlersQuiet, BeliefsQuiet, Punctual,
         NEW t \in Threads, NEW pc, Moves(t, pc),
         thread[t].op = "publish" => PublishQuiet(t)',
         thread[t].op = "unpublish" => UnpublishQuiet(t)',
         info' # "torn", mounts' # {} => info' = "valid"
  PROVE  HandlersQuiet' /\ BeliefsQuiet' /\ NodeQuiet'
<1>1. \A u \in Threads : /\ thread'[u].op = thread[u].op /\ thread'[u].path = thread[u].path
                         /\ thread'[u].live = thread[u].live
                         /\ thread'[u].pc = IF u = t THEN pc ELSE thread[u].pc
  BY GotoEffect DEF Inv, Moves
<1>2. Running(t) /\ \A u \in Threads : u # t => ~Running(u)
  BY DEF Moves, HandlersQuiet
<1>3. HandlersQuiet'
  BY <1>1, <1>2 DEF HandlersQuiet, Running
<1>4. \A p \in Paths : want[p] \in {"none", "done"} /\ p \notin mounts => p \notin mounts'
  BY DEF Moves, Inv, KubeletInv, PunctualInv, Punctual, WaitsInv, Running, Publishing
<1>5. BeliefsQuiet'
  BY <1>1, <1>4 DEF BeliefsQuiet, InProgress, Moves
<1>6. NodeQuiet'
  BY <1>1, <1>2 DEF NodeQuiet, Running
<1> QED
  BY <1>3, <1>5, <1>6

LEMMA StepKeepsQuiet ==
  ASSUME Inv, HandlersQuiet, BeliefsQuiet, NodeQuiet, Punctual,
         NEW t \in Threads, Run(t), ~Return(t)
  PROVE  HandlersQuiet' /\ BeliefsQuiet' /\ NodeQuiet'
<1> USE DEF PublishSteps, UnpublishSteps, Errors, Counted, Detaching
<1>0. PICK pc \in Steps : Moves(t, pc)
  BY StepMoves
<1>1. /\ NodeType /\ NodeType' /\ Running(t) /\ thread'[t].pc = pc
      /\ thread'[t].op = thread[t].op /\ thread'[t].path = thread[t].path
  <2>1. /\ thread'[t].op = thread[t].op /\ thread'[t].path = thread[t].path /\ thread'[t].pc = pc
    BY <1>0, GotoEffect DEF Inv, Moves
  <2> QED
    BY <2>1, <1>0 DEF Inv, Moves
<1>2. \A from : At(t, from) /\ from \notin {"ok", "error", "notPersisted"} =>
        thread[t].pc = from /\ thread[t].op = IF from \in PublishSteps THEN "publish" ELSE "unpublish"
  BY DEF At, Inv, NodeInv, StepsInv, KubeletType, ThreadType
<1>3. \A to : Goto(t, to) => pc = to
  BY <1>1 DEF Goto, Inv, KubeletType
<1>4. PublishQuiet(t) \/ thread[t].op # "publish"
  BY DEF HandlersQuiet
<1>5. UnpublishQuiet(t) \/ thread[t].op # "unpublish"
  BY DEF HandlersQuiet
<1> DEFINE Goal == /\ thread[t].op = "publish" => PublishQuiet(t)'
                   /\ thread[t].op = "unpublish" => UnpublishQuiet(t)'
                   /\ info' # "torn" /\ (mounts' # {} => info' = "valid")
<1>6. ASSUME Connect(t) PROVE Goal
  BY <1>1, <1>2, <1>3, <1>4, <1>6 DEF Connect, PublishQuiet, NodeQuiet
<1>7. ASSUME IsMounted(t) PROVE Goal
  BY <1>1, <1>2, <1>3, <1>4, <1>7 DEF IsMounted, Step, node, PublishQuiet, NodeQuiet
<1>8. ASSUME MakeDir(t) PROVE Goal
  BY <1>1, <1>2, <1>3, <1>4, <1>8 DEF MakeDir, PublishQuiet, NodeQuiet
<1>9. ASSUME Persist(t) PROVE Goal
  BY <1>1, <1>2, <1>3, <1>4, <1>9 DEF Persist, PublishQuiet, NodeQuiet
<1>10. ASSUME FormatAndMount(t) PROVE Goal
  <2>1. device
    BY <1>2, <1>10 DEF FormatAndMount, Inv, NodeInv, ServedInv, Calm, Connected
  <2> QED
    BY <1>1, <1>2, <1>3, <1>4, <1>10, <2>1 DEF FormatAndMount, PublishQuiet, NodeQuiet
<1>11. ASSUME CountMounts(t) PROVE Goal
  <2>1. cnt'[t] = RefCount(thread[t].path)
    BY <1>1, <1>11 DEF CountMounts, NodeType
  <2>2. mounts = {thread[t].path} => RefCount(thread[t].path) = 1
    BY FS_Singleton DEF RefCount
  <2> QED
    BY <1>1, <1>2, <1>3, <1>5, <1>11, <2>1, <2>2 DEF CountMounts, node, UnpublishQuiet, NodeQuiet
<1>12. ASSUME CheckExists(t) PROVE Goal
  <2>1. thread[t].path \in dirs
    BY <1>1, <1>2, <1>5, <1>12 DEF CheckExists, Step, UnpublishQuiet, NodeType
  <2> QED
    BY <1>1, <1>2, <1>3, <1>5, <1>12, <2>1 DEF CheckExists, Step, node, UnpublishQuiet, NodeQuiet
<1>13. ASSUME LoadInfo(t) PROVE Goal
  <2>1. info = "valid"
    BY <1>2, <1>5, <1>13 DEF LoadInfo, Step, UnpublishQuiet, NodeQuiet
  <2>2. Goto(t, "unmount") /\ At(t, "load") /\ UNCHANGED <<node, cnt>>
    BY <1>13, <2>1 DEF LoadInfo, Step
  <2> QED
    BY <1>1, <1>2, <1>3, <1>5, <2>1, <2>2 DEF node, UnpublishQuiet, NodeQuiet
<1>14. ASSUME Unmount(t) PROVE Goal
  <2>1. thread[t].path \in mounts /\ (mounts = {thread[t].path} => LastMount(cnt[t])) /\ info = "valid"
    BY <1>1, <1>2, <1>5, <1>14 DEF Unmount, UnpublishQuiet, NodeQuiet, LastMount
  <2>2. Goto(t, IF LastMount(cnt[t]) THEN "disconnect" ELSE "ok") /\ At(t, "unmount")
    BY <1>14, <2>1 DEF Unmount
  <2>3. mounts' = mounts \ {thread[t].path} /\ info' = info
    BY <1>14 DEF Unmount
  <2>4. pc = "ok" => mounts' # {}
    BY <1>3, <2>1, <2>2, <2>3
  <2>5. pc \in {"disconnect", "ok"} /\ thread[t].op = "unpublish"
    BY <1>2, <1>3, <2>2
  <2> QED
    BY <1>1, <2>1, <2>3, <2>4, <2>5 DEF UnpublishQuiet
<1>15. ASSUME DisconnectVolume(t) PROVE Goal
  BY <1>1, <1>2, <1>3, <1>5, <1>15 DEF DisconnectVolume, UnpublishQuiet, NodeQuiet
<1>16. ASSUME Disconnect(t) PROVE Goal
  BY <1>1, <1>2, <1>3, <1>5, <1>16 DEF Disconnect, UnpublishQuiet, NodeQuiet
<1>17. ASSUME RemoveAll(t) PROVE Goal
  BY <1>1, <1>2, <1>3, <1>5, <1>17 DEF RemoveAll, UnpublishQuiet, NodeQuiet
<1>18. ASSUME RemoveInfo(t) PROVE Goal
  <2>1. mounts = {}
    BY <1>2, <1>18 DEF RemoveInfo, Inv, NodeInv, DetachInv
  <2> QED
    BY <1>1, <1>2, <1>3, <1>5, <1>18, <2>1 DEF RemoveInfo, UnpublishQuiet, Clear
<1>19. Goal
  BY <1>6, <1>7, <1>8, <1>9, <1>10, <1>11, <1>12, <1>13, <1>14, <1>15, <1>16, <1>17, <1>18 DEF Run
<1> QED
  BY <1>0, <1>19, MoveKeepsQuiet

LEMMA ReturnKeepsQuiet ==
  ASSUME Inv, HandlersQuiet, BeliefsQuiet, NodeQuiet, Punctual, NEW t \in Threads, Return(t)
  PROVE  HandlersQuiet' /\ BeliefsQuiet' /\ NodeQuiet'
<1> DEFINE p == thread[t].path
<1>1. KubeletType(Steps) /\ KubeletInv /\ "ok" \in Steps /\ Answer(t, Errors) /\ want \in [Paths -> Beliefs]
  BY DEF Inv, Steps, Return, KubeletType
<1>2. /\ p \in Paths /\ Running(t) /\ thread[t].live /\ thread[t].op \in {"publish", "unpublish"}
      /\ \A u \in Threads : u # t => thread'[u] = thread[u]
      /\ thread'[t] = Idle
      /\ Publishing(t) =>
           want' = [want EXCEPT ![p] = IF thread[t].pc = "ok" THEN "published" ELSE "failed"]
      /\ thread[t].op = "unpublish" /\ thread[t].live =>
           want' = [want EXCEPT ![p] = IF thread[t].pc = "ok" THEN "done" ELSE "unpublishing"]
  BY <1>1, AnswerEffect DEF KubeletInv, PunctualInv, Punctual, Running, KubeletType, ThreadType
<1>3. thread[t].pc = "ok"
  BY <1>1, <1>2 DEF Answer, HandlersQuiet, PublishQuiet, UnpublishQuiet
<1>4. want' = [want EXCEPT ![p] = IF thread[t].op = "publish" THEN "published" ELSE "done"]
  BY <1>2, <1>3 DEF Publishing
<1>5. \A u \in Threads : ~Running(u)'
  BY <1>2 DEF HandlersQuiet, Running, Idle
<1>6. UNCHANGED <<session, device, mounts, info>>
  BY DEF Return, node
<1>7. HandlersQuiet'
  BY <1>5 DEF HandlersQuiet, Running
<1>8. \A q \in Paths : q # p => want[q] # "unpublishing"
  BY <1>2 DEF BeliefsQuiet, InProgress, HandlersQuiet, Running
<1>9. BeliefsQuiet'
  <2>1. thread[t].op = "unpublish" => p \notin mounts
    BY <1>3 DEF Inv, NodeInv, UnmountedInv
  <2>2. want'[p] = IF thread[t].op = "publish" THEN "published" ELSE "done"
    BY <1>1, <1>2, <1>4
  <2>3. \A q \in Paths : q # p => want'[q] = want[q]
    BY <1>1, <1>4
  <2> QED
    BY <1>2, <1>6, <1>8, <2>1, <2>2, <2>3 DEF BeliefsQuiet
<1>10. NodeQuiet'
  <2>1. thread[t].op = "publish" => mounts # {}
    BY <1>2, <1>3 DEF Inv, NodeInv, MountedInv, Publishing
  <2>2. thread[t].op = "unpublish" /\ mounts = {} => Clear
    BY <1>3 DEF HandlersQuiet, UnpublishQuiet
  <2> QED
    BY <1>2, <1>6, <2>1, <2>2 DEF NodeQuiet, Clear
<1> QED
  BY <1>7, <1>9, <1>10

LEMMA PublishKeepsQuiet ==
  ASSUME Inv, HandlersQuiet, BeliefsQuiet, NodeQuiet, Punctual,
         NEW t \in Threads, NEW p \in Paths, NodePublishVolume(t, p)
  PROVE  HandlersQuiet' /\ BeliefsQuiet' /\ NodeQuiet'
<1>1. KubeletType(Steps) /\ KubeletInv /\ "connect" \in Steps /\ Publish(t, p, "connect")
  BY DEF Inv, Steps, PublishSteps, NodePublishVolume
<1>2. /\ want[p] \in {"none", "failed", "uncertain"}
      /\ want' = [want EXCEPT ![p] = "publishing"]
      /\ \A u \in Threads : ~thread[u].live
      /\ \A u \in Threads : u # t => thread'[u] = thread[u]
      /\ thread'[t] = [op |-> "publish", path |-> p, pc |-> "connect", live |-> TRUE]
  BY <1>1, PublishEffect
<1>3. UNCHANGED <<session, device, mounts, dirs, info>>
  BY DEF NodePublishVolume, node
<1>4. \A u \in Threads : ~Running(u)
  BY <1>2 DEF Inv, KubeletInv, PunctualInv, Punctual
<1>5. p \notin mounts
  BY <1>2 DEF BeliefsQuiet
<1>6. HandlersQuiet'
  BY <1>2, <1>3, <1>4, <1>5 DEF HandlersQuiet, Running, PublishQuiet, Errors
<1>7. want'[p] = "publishing" /\ \A q \in Paths : q # p => want'[q] = want[q]
  BY <1>1, <1>2 DEF KubeletType
<1>8. \A q \in Paths : want[q] # "unpublishing"
  BY <1>4 DEF BeliefsQuiet, InProgress, Running
<1>9. BeliefsQuiet'
  BY <1>3, <1>7, <1>8 DEF BeliefsQuiet
<1>10. NodeQuiet'
  BY <1>2, <1>3 DEF NodeQuiet, Running
<1> QED
  BY <1>6, <1>9, <1>10

LEMMA UnpublishKeepsQuiet ==
  ASSUME Inv, HandlersQuiet, BeliefsQuiet, NodeQuiet, Punctual, used' = used,
         NEW t \in Threads, NEW p \in Paths, NodeUnpublishVolume(t, p)
  PROVE  HandlersQuiet' /\ BeliefsQuiet' /\ NodeQuiet'
<1>1. KubeletType(Steps) /\ KubeletInv /\ "count" \in Steps /\ Unpublish(t, p, "count")
  BY DEF Inv, Steps, UnpublishSteps, NodeUnpublishVolume
<1>2. /\ want[p] \in {"published", "uncertain", "unpublishing"}
      /\ want' = [want EXCEPT ![p] = "unpublishing"]
      /\ \A u \in Threads : ~Publishing(u)
      /\ \A u \in Threads : u # t => thread'[u] = thread[u]
      /\ thread'[t] = [op |-> "unpublish", path |-> p, pc |-> "count", live |-> TRUE]
  BY <1>1, UnpublishEffect
<1>3. UNCHANGED <<session, device, mounts, dirs, info>>
  BY DEF NodeUnpublishVolume, node
<1>4. ~Waiting({"unpublish"}, Paths)
  <2>1. ~CountUse("overlaps", MaxOverlaps)
    BY <1>1 DEF CountUse, KubeletType, UsedType
  <2> QED
    BY <1>1, <2>1 DEF Unpublish
<1>5. \A u \in Threads : ~Running(u)
  <2>1. \A u \in Threads : Running(u) =>
          thread[u].live /\ thread[u].op \in {"publish", "unpublish"} /\ thread[u].path \in Paths
    BY DEF Inv, KubeletInv, PunctualInv, Punctual, HandlersInv, Running, KubeletType, ThreadType
  <2> QED
    BY <1>2, <1>4, <2>1 DEF Publishing, Waiting
<1>6. \A q \in Paths : want[q] # "unpublishing"
  BY <1>5 DEF BeliefsQuiet, InProgress, Running
<1>7. p \in mounts
  BY <1>2, <1>6 DEF BeliefsQuiet, Inv, NodeInv, MountedInv
<1>8. HandlersQuiet'
  BY <1>2, <1>3, <1>5, <1>7 DEF HandlersQuiet, Running, UnpublishQuiet, Errors, Counted, Detaching
<1>9. want'[p] = "unpublishing" /\ \A q \in Paths : q # p => want'[q] = want[q]
  BY <1>1, <1>2 DEF KubeletType
<1>10. InProgress(p, "unpublish")'
  BY <1>2 DEF InProgress
<1>11. BeliefsQuiet'
  BY <1>3, <1>6, <1>9, <1>10 DEF BeliefsQuiet
<1>12. NodeQuiet'
  BY <1>2, <1>3 DEF NodeQuiet, Running
<1> QED
  BY <1>8, <1>11, <1>12

LEMMA QuietInit == Init => QuietInv
BY DEF Init, KubeletInit, QuietInv, HandlersQuiet, BeliefsQuiet, NodeQuiet, Clear, Running, Idle

LEMMA QuietStep == Inv /\ QuietInv /\ [Next]_vars => QuietInv'
<1> SUFFICES ASSUME Inv, QuietInv, [Next]_vars, Quiet'
             PROVE  HandlersQuiet' /\ BeliefsQuiet' /\ NodeQuiet'
  BY DEF QuietInv
<1>1. Punctual /\ used' = used /\ HandlersQuiet /\ BeliefsQuiet /\ NodeQuiet
  BY QuietBefore DEF QuietInv
<1>2. used \in UsedType
  BY DEF Inv, KubeletType
<1>3. \A kind \in {"overlaps", "fails", "timeouts", "crashes"} : \A max : ~CountUse(kind, max)
  BY <1>1, <1>2 DEF CountUse, UsedType
<1>4. ASSUME NEW t \in Threads, Run(t)
      PROVE  HandlersQuiet' /\ BeliefsQuiet' /\ NodeQuiet'
  BY <1>1, <1>4, StepKeepsQuiet, ReturnKeepsQuiet
<1>5. ASSUME NEW t \in Threads, NEW p \in Paths, NodePublishVolume(t, p) \/ NodeUnpublishVolume(t, p)
      PROVE  HandlersQuiet' /\ BeliefsQuiet' /\ NodeQuiet'
  BY <1>1, <1>5, PublishKeepsQuiet, UnpublishKeepsQuiet
<1>6. ~Crash /\ \A t \in Threads : ~Fail(t) /\ ~Timeout(t)
  BY <1>3 DEF Crash, Die, Fail, Timeout, GiveUp
<1>7. CASE UNCHANGED vars
  BY <1>1, <1>7 DEF vars, node, HandlersQuiet, PublishQuiet, UnpublishQuiet, BeliefsQuiet, InProgress, NodeQuiet, Clear,
                    Running
<1> QED
  BY <1>4, <1>5, <1>6, <1>7 DEF Next

(***************************************************************************)
(* When every pod is through with the volume and nothing went wrong, the   *)
(* node is logged out and keeps no connection info, for any number of      *)
(* pods, one after the other or at the same time                           *)
(* (iscsi_node_utils.go:113-129).                                          *)
(***************************************************************************)
THEOREM LastOneAlwaysDisconnects == Spec => []LastOneOutDisconnects
<1>1. Spec => []QuietInv
  BY QuietInit, QuietStep, Invariant, PTL DEF Spec
<1>2. ASSUME Inv, QuietInv, AllDetached, Quiet
      PROVE  ~session /\ ~device /\ info = "none"
  <2>1. mounts = {}
    BY <1>2 DEF AllDetached, QuietInv, BeliefsQuiet, Inv, NodeType
  <2> QED
    BY <1>2, <2>1 DEF AllDetached, QuietInv, NodeQuiet, Clear, Running
<1>3. Inv /\ QuietInv => LastOneOutDisconnects
  BY <1>2 DEF LastOneOutDisconnects, Quiet
<1> QED
  BY <1>1, <1>3, Invariant, PTL

-----------------------------------------------------------------------------
(***************************************************************************)
(* Nothing fails by itself.  As long as no operation fails, kubelet waits  *)
(* and the plugin lives, unpublishes may overlap: each has a mount of its  *)
(* own until it unmounts it, so who finds the last one gone is alone.      *)
(***************************************************************************)
Undisturbed == used.fails + used.timeouts + used.crashes = 0

UnpublishSmooth(t) ==
  /\ thread[t].pc \notin Errors
  /\ thread[t].pc \in {"count"} \cup Counted => thread[t].path \in mounts
  /\ thread[t].pc \in Detaching => info = "valid"

OthersAnswer(t) == \A u \in Threads : Running(u) /\ u # t => thread[u].pc = "ok"

HandlersSmooth ==
  \A t \in Threads :
    /\ thread[t].op = "publish" => PublishQuiet(t)
    /\ thread[t].op = "unpublish" => UnpublishSmooth(t)
    /\ thread[t].op = "unpublish" /\ thread[t].pc \in Detaching => OthersAnswer(t)

NodeSmooth == info # "torn" /\ (mounts # {} => info = "valid")

SmoothInv == Undisturbed => HandlersSmooth /\ BeliefsQuiet /\ NodeSmooth

\* The counters only grow.
LEMMA UndisturbedBefore ==
  ASSUME Inv, [Next]_vars, Undisturbed'
  PROVE  /\ Undisturbed /\ Punctual /\ ~Crash
         /\ \A t \in Threads : ~Fail(t) /\ ~Timeout(t)
<1>1. used \in UsedType
  BY DEF Inv, KubeletType
<1>2. ASSUME NEW kind \in {"fails", "timeouts", "crashes"}, NEW max, CountUse(kind, max)
      PROVE  FALSE
  BY <1>1, <1>2 DEF Undisturbed, CountUse, UsedType
<1>3. ~Crash /\ \A t \in Threads : ~Fail(t) /\ ~Timeout(t)
  BY <1>2 DEF Crash, Die, Fail, Timeout, GiveUp
<1>4. used' = used \/ \E max : CountUse("overlaps", max)
  <2>1. ASSUME NEW t \in Threads, Run(t) PROVE used' = used
    BY <2>1 DEF Run, Return, Answer, Connect, IsMounted, MakeDir, Persist, FormatAndMount, CountMounts, CheckExists,
                LoadInfo, Unmount, DisconnectVolume, Disconnect, RemoveAll, RemoveInfo, Step
  <2>2. ASSUME NEW t \in Threads, NEW p \in Paths, NodePublishVolume(t, p) \/ NodeUnpublishVolume(t, p)
        PROVE  used' = used \/ CountUse("overlaps", MaxOverlaps)
    BY <2>2 DEF NodePublishVolume, NodeUnpublishVolume, Publish, Unpublish
  <2>3. CASE UNCHANGED vars
    BY <2>3 DEF vars
  <2> QED
    BY <1>3, <2>1, <2>2, <2>3 DEF Next
<1>5. Undisturbed
  BY <1>1, <1>4 DEF Undisturbed, CountUse, UsedType
<1>6. Punctual
  BY <1>1, <1>5 DEF Undisturbed, Punctual, UsedType
<1> QED
  BY <1>3, <1>5, <1>6

\* A step of one handler, if it does its part.
LEMMA MoveKeepsSmooth ==
  ASSUME Inv, HandlersSmooth, BeliefsQuiet, Punctual,
         NEW t \in Threads, NEW pc, Moves(t, pc), thread[t].pc # "ok",
         thread[t].op = "publish" => PublishQuiet(t)',
         thread[t].op = "unpublish" => UnpublishSmooth(t)',
         thread[t].op = "unpublish" /\ pc \in Detaching => OthersAnswer(t),
         NodeSmooth'
  PROVE  HandlersSmooth' /\ BeliefsQuiet' /\ NodeSmooth'
<1>1. \A u \in Threads : /\ thread'[u].op = thread[u].op /\ thread'[u].path = thread[u].path
                         /\ thread'[u].live = thread[u].live
                         /\ thread'[u].pc = IF u = t THEN pc ELSE thread[u].pc
  BY GotoEffect DEF Inv, Moves
<1>2. Running(t) /\ \A u \in Threads : u # t /\ Running(u) => thread[u].op = "unpublish" /\ thread[t].op = "unpublish"
  <2>1. Running(t) /\ \A u \in Threads : Running(u) => thread[u].op \in {"publish", "unpublish"}
    BY DEF Moves, Running, Inv, KubeletType, ThreadType
  <2> QED
    BY <2>1, NothingBesidePublish DEF Inv
<1>3. \A u \in Threads : u # t /\ Running(u) => thread[u].path # thread[t].path
  BY <1>2 DEF Inv, KubeletInv, WaitsInv, PunctualInv, Punctual
<1>4. \A u \in Threads : u # t /\ thread[u].op = "unpublish" => thread[u].pc \notin Detaching
  BY <1>2 DEF HandlersSmooth, OthersAnswer
<1>5. ASSUME NEW u \in Threads, u # t
      PROVE  /\ thread'[u].op # "publish"
             /\ thread'[u].op = "unpublish" => UnpublishSmooth(u)'
             /\ thread'[u].op = "unpublish" => thread'[u].pc \notin Detaching
  <2>1. thread[u].op = "unpublish" /\ thread[u].path \in mounts => thread[u].path \in mounts'
    BY <1>3, <1>5 DEF Moves, Running
  <2>2. thread[u].op = "unpublish" => UnpublishSmooth(u)
    BY DEF HandlersSmooth
  <2>3. thread'[u].op = thread[u].op /\ thread'[u].path = thread[u].path /\ thread'[u].pc = thread[u].pc
    BY <1>1, <1>5
  <2> QED
    BY <1>2, <1>4, <1>5, <2>1, <2>2, <2>3 DEF UnpublishSmooth, Running
<1>6. thread'[t].op = "unpublish" /\ thread'[t].pc \in Detaching => OthersAnswer(t)'
  BY <1>1 DEF OthersAnswer, Running
<1>7. HandlersSmooth'
  BY <1>1, <1>5, <1>6 DEF HandlersSmooth
<1>8. \A p \in Paths : want[p] \in {"none", "done"} /\ p \notin mounts => p \notin mounts'
  BY DEF Moves, Inv, KubeletInv, PunctualInv, Punctual, WaitsInv, Running, Publishing
<1>9. BeliefsQuiet'
  BY <1>1, <1>8 DEF BeliefsQuiet, InProgress, Moves
<1> QED
  BY <1>7, <1>9

\* Who unmounts the last mount is alone.
LEMMA LastIsAlone ==
  ASSUME Inv, HandlersSmooth, Punctual, NEW t \in Threads, At(t, "unmount"), LastMount(cnt[t])
  PROVE  OthersAnswer(t)
<1>1. thread[t].pc = "unmount" /\ thread[t].op = "unpublish" /\ cnt[t] = 1
  BY DEF At, LastMount, Inv, NodeType, NodeInv, StepsInv, KubeletType, ThreadType, PublishSteps, Errors
<1>2. mounts \subseteq {thread[t].path}
  BY <1>1 DEF Inv, NodeInv, CountInv, Counted
<1>3. ASSUME NEW u \in Threads, Running(u), u # t
      PROVE  thread[u].pc = "ok"
  <2>1. thread[u].op = "unpublish" /\ thread[u].pc \in UnpublishSteps \cup {"ok"} \cup Errors
    <3>1. thread[u].op # "publish"
      BY <1>1, <1>3, NothingBesidePublish DEF Inv, Running
    <3> QED
      BY <3>1, <1>3 DEF Running, Inv, KubeletType, ThreadType, NodeInv, StepsInv
  <2>2. thread[u].path # thread[t].path
    BY <1>1, <1>3 DEF Inv, KubeletInv, WaitsInv, PunctualInv, Punctual, Running
  <2>3. UnpublishSmooth(u) /\ thread[u].pc \notin Detaching
    BY <1>1, <1>3, <2>1 DEF HandlersSmooth, OthersAnswer, Running
  <2> QED
    BY <1>2, <2>1, <2>2, <2>3 DEF UnpublishSmooth, UnpublishSteps, Counted, Detaching
<1> QED
  BY <1>3 DEF OthersAnswer

LEMMA StepKeepsSmooth ==
  ASSUME Inv, HandlersSmooth, BeliefsQuiet, NodeSmooth, Punctual,
         NEW t \in Threads, Run(t), ~Return(t)
  PROVE  HandlersSmooth' /\ BeliefsQuiet' /\ NodeSmooth'
<1> USE DEF PublishSteps, UnpublishSteps, Errors, Counted, Detaching
<1>0. PICK pc \in Steps : Moves(t, pc)
  BY StepMoves
<1>1. /\ NodeType /\ NodeType' /\ Running(t) /\ thread'[t].pc = pc
      /\ thread'[t].op = thread[t].op /\ thread'[t].path = thread[t].path
  <2>1. /\ thread'[t].op = thread[t].op /\ thread'[t].path = thread[t].path /\ thread'[t].pc = pc
    BY <1>0, GotoEffect DEF Inv, Moves
  <2> QED
    BY <2>1, <1>0 DEF Inv, Moves
<1>2. \A from : At(t, from) /\ from \notin {"ok", "error", "notPersisted"} =>
        thread[t].pc = from /\ thread[t].op = IF from \in PublishSteps THEN "publish" ELSE "unpublish"
  BY DEF At, Inv, NodeInv, StepsInv, KubeletType, ThreadType
<1>3. \A to : Goto(t, to) => pc = to
  BY <1>1 DEF Goto, Inv, KubeletType
<1>4. PublishQuiet(t) \/ thread[t].op # "publish"
  BY DEF HandlersSmooth
<1>5. UnpublishSmooth(t) \/ thread[t].op # "unpublish"
  BY DEF HandlersSmooth
<1>6. thread[t].op = "unpublish" /\ thread[t].pc \in Detaching => OthersAnswer(t)
  BY DEF HandlersSmooth
<1> DEFINE Goal == /\ thread[t].pc # "ok"
                   /\ thread[t].op = "publish" => PublishQuiet(t)'
                   /\ thread[t].op = "unpublish" => UnpublishSmooth(t)'
                   /\ thread[t].op = "unpublish" /\ pc \in Detaching => OthersAnswer(t)
                   /\ NodeSmooth'
<1>7. ASSUME Connect(t) PROVE Goal
  BY <1>1, <1>2, <1>3, <1>4, <1>7 DEF Connect, PublishQuiet, NodeSmooth
<1>8. ASSUME IsMounted(t) PROVE Goal
  BY <1>1, <1>2, <1>3, <1>4, <1>8 DEF IsMounted, Step, node, PublishQuiet, NodeSmooth
<1>9. ASSUME MakeDir(t) PROVE Goal
  BY <1>1, <1>2, <1>3, <1>4, <1>9 DEF MakeDir, PublishQuiet, NodeSmooth
<1>10. ASSUME Persist(t) PROVE Goal
  BY <1>1, <1>2, <1>3, <1>4, <1>10 DEF Persist, PublishQuiet, NodeSmooth
<1>11. ASSUME FormatAndMount(t) PROVE Goal
  <2>1. device
    BY <1>2, <1>11 DEF FormatAndMount, Inv, NodeInv, ServedInv, Calm, Connected
  <2> QED
    BY <1>1, <1>2, <1>3, <1>4, <1>11, <2>1 DEF FormatAndMount, PublishQuiet, NodeSmooth
<1>12. ASSUME CountMounts(t) PROVE Goal
  BY <1>1, <1>2, <1>3, <1>5, <1>12 DEF CountMounts, node, UnpublishSmooth, NodeSmooth
<1>13. ASSUME CheckExists(t) PROVE Goal
  <2>1. thread[t].path \in dirs
    BY <1>1, <1>2, <1>5, <1>13 DEF CheckExists, Step, UnpublishSmooth, NodeType
  <2> QED
    BY <1>1, <1>2, <1>3, <1>5, <1>13, <2>1 DEF CheckExists, Step, node, UnpublishSmooth, NodeSmooth
<1>14. ASSUME LoadInfo(t) PROVE Goal
  <2>1. info = "valid"
    BY <1>2, <1>5, <1>14 DEF LoadInfo, Step, UnpublishSmooth, NodeSmooth
  <2>2. Goto(t, "unmount") /\ At(t, "load") /\ UNCHANGED <<node, cnt>>
    BY <1>14, <2>1 DEF LoadInfo, Step
  <2> QED
    BY <1>1, <1>2, <1>3, <1>5, <2>1, <2>2 DEF node, UnpublishSmooth, NodeSmooth
<1>15. ASSUME Unmount(t) PROVE Goal
  <2>1. thread[t].path \in mounts /\ info = "valid" /\ thread[t].op = "unpublish" /\ thread[t].pc = "unmount"
    BY <1>1, <1>2, <1>5, <1>15 DEF Unmount, UnpublishSmooth, NodeSmooth
  <2>2. Goto(t, IF LastMount(cnt[t]) THEN "disconnect" ELSE "ok") /\ info' = info /\ At(t, "unmount")
    BY <1>15, <2>1 DEF Unmount
  <2>3. pc \in {"disconnect", "ok"} /\ (pc = "disconnect" => OthersAnswer(t))
    BY <1>3, <2>2, LastIsAlone
  <2> QED
    BY <1>1, <2>1, <2>2, <2>3 DEF UnpublishSmooth, NodeSmooth
<1>16. ASSUME DisconnectVolume(t) PROVE Goal
  BY <1>1, <1>2, <1>3, <1>5, <1>6, <1>16 DEF DisconnectVolume, UnpublishSmooth, NodeSmooth
<1>17. ASSUME Disconnect(t) PROVE Goal
  BY <1>1, <1>2, <1>3, <1>5, <1>6, <1>17 DEF Disconnect, UnpublishSmooth, NodeSmooth
<1>18. ASSUME RemoveAll(t) PROVE Goal
  BY <1>1, <1>2, <1>3, <1>5, <1>6, <1>18 DEF RemoveAll, UnpublishSmooth, NodeSmooth
<1>19. ASSUME RemoveInfo(t) PROVE Goal
  <2>1. mounts = {}
    BY <1>2, <1>19 DEF RemoveInfo, Inv, NodeInv, DetachInv
  <2> QED
    BY <1>1, <1>2, <1>3, <1>5, <1>19, <2>1 DEF RemoveInfo, UnpublishSmooth, NodeSmooth
<1>20. Goal
  BY <1>7, <1>8, <1>9, <1>10, <1>11, <1>12, <1>13, <1>14, <1>15, <1>16, <1>17, <1>18, <1>19 DEF Run
<1> QED
  BY <1>0, <1>20, MoveKeepsSmooth

LEMMA ReturnKeepsSmooth ==
  ASSUME Inv, HandlersSmooth, BeliefsQuiet, NodeSmooth, Punctual, NEW t \in Threads, Return(t)
  PROVE  HandlersSmooth' /\ BeliefsQuiet' /\ NodeSmooth'
<1> DEFINE p == thread[t].path
<1>1. KubeletType(Steps) /\ KubeletInv /\ "ok" \in Steps /\ Answer(t, Errors) /\ want \in [Paths -> Beliefs]
  BY DEF Inv, Steps, Return, KubeletType
<1>2. /\ p \in Paths /\ Running(t) /\ thread[t].live /\ thread[t].op \in {"publish", "unpublish"}
      /\ \A u \in Threads : u # t => thread'[u] = thread[u]
      /\ thread'[t] = Idle
      /\ Publishing(t) =>
           want' = [want EXCEPT ![p] = IF thread[t].pc = "ok" THEN "published" ELSE "failed"]
      /\ thread[t].op = "unpublish" /\ thread[t].live =>
           want' = [want EXCEPT ![p] = IF thread[t].pc = "ok" THEN "done" ELSE "unpublishing"]
  BY <1>1, AnswerEffect DEF KubeletInv, PunctualInv, Punctual, Running, KubeletType, ThreadType
<1>3. thread[t].pc = "ok"
  BY <1>1, <1>2 DEF Answer, HandlersSmooth, PublishQuiet, UnpublishSmooth
<1>4. want' = [want EXCEPT ![p] = IF thread[t].op = "publish" THEN "published" ELSE "done"]
  BY <1>2, <1>3 DEF Publishing
<1>5. UNCHANGED <<mounts, dirs, info>>
  BY DEF Return, node
<1>6. HandlersSmooth'
  <2>1. Idle.op = "idle" /\ \A u \in Threads : thread'[u] = thread[u] \/ thread'[u] = Idle
    BY <1>2 DEF Idle
  <2> QED
    BY <1>5, <2>1 DEF HandlersSmooth, OthersAnswer, PublishQuiet, UnpublishSmooth, Running
<1>7. BeliefsQuiet'
  <2>1. thread[t].op = "unpublish" => p \notin mounts
    BY <1>3 DEF Inv, NodeInv, UnmountedInv
  <2>2. want'[p] = IF thread[t].op = "publish" THEN "published" ELSE "done"
    BY <1>1, <1>2, <1>4
  <2>3. \A q \in Paths : q # p => want'[q] = want[q]
    BY <1>1, <1>4
  <2>4. ASSUME NEW q \in Paths, q # p, want[q] = "unpublishing"
        PROVE  InProgress(q, "unpublish")'
    <3>1. PICK u \in Threads : thread[u].op = "unpublish" /\ thread[u].path = q
      BY <2>4 DEF BeliefsQuiet, InProgress
    <3> QED
      BY <1>2, <2>4, <3>1 DEF InProgress
  <2> QED
    BY <1>2, <1>5, <2>1, <2>2, <2>3, <2>4 DEF BeliefsQuiet
<1> QED
  BY <1>5, <1>6, <1>7 DEF NodeSmooth

LEMMA PublishKeepsSmooth ==
  ASSUME Inv, HandlersSmooth, BeliefsQuiet, NodeSmooth, Punctual,
         NEW t \in Threads, NEW p \in Paths, NodePublishVolume(t, p)
  PROVE  HandlersSmooth' /\ BeliefsQuiet' /\ NodeSmooth'
<1>1. KubeletType(Steps) /\ KubeletInv /\ "connect" \in Steps /\ Publish(t, p, "connect")
  BY DEF Inv, Steps, PublishSteps, NodePublishVolume
<1>2. /\ want[p] \in {"none", "failed", "uncertain"}
      /\ want' = [want EXCEPT ![p] = "publishing"]
      /\ \A u \in Threads : ~thread[u].live
      /\ \A u \in Threads : u # t => thread'[u] = thread[u]
      /\ thread'[t] = [op |-> "publish", path |-> p, pc |-> "connect", live |-> TRUE]
  BY <1>1, PublishEffect
<1>3. UNCHANGED <<mounts, dirs, info>>
  BY DEF NodePublishVolume, node
<1>4. \A u \in Threads : ~Running(u)
  BY <1>2 DEF Inv, KubeletInv, PunctualInv, Punctual
<1>5. p \notin mounts
  BY <1>2 DEF BeliefsQuiet
<1>6. HandlersSmooth'
  BY <1>2, <1>3, <1>4, <1>5 DEF HandlersSmooth, Running, PublishQuiet, Errors
<1>7. want'[p] = "publishing" /\ \A q \in Paths : q # p => want'[q] = want[q]
  BY <1>1, <1>2 DEF KubeletType
<1>8. \A q \in Paths : want[q] # "unpublishing"
  BY <1>4 DEF BeliefsQuiet, InProgress, Running
<1>9. BeliefsQuiet'
  BY <1>3, <1>7, <1>8 DEF BeliefsQuiet
<1> QED
  BY <1>3, <1>6, <1>9 DEF NodeSmooth

LEMMA UnpublishKeepsSmooth ==
  ASSUME Inv, HandlersSmooth, BeliefsQuiet, NodeSmooth, Punctual,
         NEW t \in Threads, NEW p \in Paths, NodeUnpublishVolume(t, p)
  PROVE  HandlersSmooth' /\ BeliefsQuiet' /\ NodeSmooth'
<1>1. KubeletType(Steps) /\ KubeletInv /\ "count" \in Steps /\ Unpublish(t, p, "count")
  BY DEF Inv, Steps, UnpublishSteps, NodeUnpublishVolume
<1>2. /\ want[p] \in {"published", "uncertain", "unpublishing"}
      /\ want' = [want EXCEPT ![p] = "unpublishing"]
      /\ \A u \in Threads : ~Publishing(u)
      /\ \A u \in Threads : u # t => thread'[u] = thread[u]
      /\ thread'[t] = [op |-> "unpublish", path |-> p, pc |-> "count", live |-> TRUE]
  BY <1>1, UnpublishEffect
<1>3. UNCHANGED <<mounts, dirs, info>> /\ thread[t].op = "idle"
  BY <1>1 DEF NodeUnpublishVolume, node, Unpublish, Start
\* Kubelet waits for an unpublish of the path if there is one, so this is the first.
<1>4. want[p] # "unpublishing"
  <2>1. \A u \in Threads : thread[u].op = "unpublish" => thread[u].live
    BY DEF Inv, KubeletInv, PunctualInv, Punctual, Running
  <2>2. ~InProgress(p, "unpublish")
    BY <1>1, <2>1 DEF Unpublish, Waiting, InProgress
  <2> QED
    BY <2>2 DEF BeliefsQuiet
<1>5. p \in mounts
  BY <1>2, <1>4 DEF BeliefsQuiet, Inv, NodeInv, MountedInv
<1>6. \A u \in Threads : thread[u].op = "unpublish" => thread[u].pc \notin Detaching
  BY <1>5 DEF Inv, NodeInv, DetachInv
<1>7. HandlersSmooth'
  <2>1. UnpublishSmooth(t)' /\ thread'[t].op = "unpublish" /\ thread'[t].pc \notin Detaching
    BY <1>2, <1>3, <1>5 DEF UnpublishSmooth, Errors, Counted, Detaching
  <2>2. ASSUME NEW u \in Threads, u # t
        PROVE  /\ thread'[u].op = "publish" => PublishQuiet(u)'
               /\ thread'[u].op = "unpublish" => UnpublishSmooth(u)' /\ thread'[u].pc \notin Detaching
    BY <1>2, <1>3, <1>6, <2>2 DEF HandlersSmooth, PublishQuiet, UnpublishSmooth
  <2> QED
    BY <2>1, <2>2 DEF HandlersSmooth
<1>8. want'[p] = "unpublishing" /\ \A q \in Paths : q # p => want'[q] = want[q]
  BY <1>1, <1>2 DEF KubeletType
<1>9. ASSUME NEW q \in Paths, want'[q] = "unpublishing"
      PROVE  InProgress(q, "unpublish")'
  <2>1. CASE q = p
    BY <1>2, <2>1 DEF InProgress
  <2>2. CASE q # p
    <3>1. PICK u \in Threads : thread[u].op = "unpublish" /\ thread[u].path = q
      BY <1>8, <1>9, <2>2 DEF BeliefsQuiet, InProgress
    <3> QED
      BY <1>2, <1>3, <3>1 DEF InProgress
  <2> QED
    BY <2>1, <2>2
<1>10. BeliefsQuiet'
  BY <1>3, <1>8, <1>9 DEF BeliefsQuiet
<1> QED
  BY <1>3, <1>7, <1>10 DEF NodeSmooth

LEMMA SmoothInit == Init => SmoothInv
BY DEF Init, KubeletInit, SmoothInv, HandlersSmooth, BeliefsQuiet, NodeSmooth, Idle

LEMMA SmoothStep == Inv /\ SmoothInv /\ [Next]_vars => SmoothInv'
<1> SUFFICES ASSUME Inv, SmoothInv, [Next]_vars, Undisturbed'
             PROVE  HandlersSmooth' /\ BeliefsQuiet' /\ NodeSmooth'
  BY DEF SmoothInv
<1>1. /\ Punctual /\ HandlersSmooth /\ BeliefsQuiet /\ NodeSmooth
      /\ ~Crash /\ \A t \in Threads : ~Fail(t) /\ ~Timeout(t)
  BY UndisturbedBefore DEF SmoothInv
<1>2. ASSUME NEW t \in Threads, Run(t)
      PROVE  HandlersSmooth' /\ BeliefsQuiet' /\ NodeSmooth'
  BY <1>1, <1>2, StepKeepsSmooth, ReturnKeepsSmooth
<1>3. ASSUME NEW t \in Threads, NEW p \in Paths, NodePublishVolume(t, p) \/ NodeUnpublishVolume(t, p)
      PROVE  HandlersSmooth' /\ BeliefsQuiet' /\ NodeSmooth'
  BY <1>1, <1>3, PublishKeepsSmooth, UnpublishKeepsSmooth
<1>4. CASE UNCHANGED vars
  BY <1>1, <1>4 DEF vars, node, HandlersSmooth, OthersAnswer, PublishQuiet, UnpublishSmooth, BeliefsQuiet, InProgress,
                    NodeSmooth, Running
<1> QED
  BY <1>1, <1>2, <1>3, <1>4 DEF Next

LEMMA Smooth == Spec => []SmoothInv
BY SmoothInit, SmoothStep, Invariant, PTL DEF Spec

(***************************************************************************)
(* Whatever the order in which the unpublishes of several pods run, no     *)
(* handler comes to answer an error unless an operation failed, kubelet    *)
(* gave up or the plugin died: no connector is missing or torn, no path is *)
(* mounted twice or unmounted twice (iscsi_node_utils.go:33-130).          *)
(***************************************************************************)
THEOREM NothingFailsByItself ==
  Spec => [](Undisturbed => \A t \in Threads : thread[t].pc \notin Errors)
<1>1. Inv /\ SmoothInv => (Undisturbed => \A t \in Threads : thread[t].pc \notin Errors)
  BY DEF SmoothInv, HandlersSmooth, PublishQuiet, UnpublishSmooth, Errors, Inv, KubeletType, ThreadType, NodeInv, StepsInv
<1> QED
  BY <1>1, Invariant, Smooth, PTL

-----------------------------------------------------------------------------
(***************************************************************************)
(* Every handler ends.  Left counts the steps that it may still take: each *)
(* step of its own takes one off or more, a failure too, and nothing else  *)
(* moves it, until it answers or the plugin dies.                          *)
(***************************************************************************)
LeftAt ==
  [pc \in Steps |->
    CASE pc = "count" -> 9
      [] pc = "exists" -> 8
      [] pc = "load" -> 7
      [] pc \in {"unmount", "connect"} -> 6
      [] pc \in {"disconnect", "isMounted"} -> 5
      [] pc \in {"logout", "mkdir"} -> 4
      [] pc \in {"removeAll", "persist"} -> 3
      [] pc \in {"removeInfo", "mount"} -> 2
      [] pc \in {"ok"} \cup Errors -> 1]
Left(h) == IF h.op = "idle" THEN 0 ELSE LeftAt[h.pc]

LEMMA LeftValues ==
  /\ LeftAt["count"] = 9 /\ LeftAt["exists"] = 8 /\ LeftAt["load"] = 7 /\ LeftAt["unmount"] = 6
  /\ LeftAt["disconnect"] = 5 /\ LeftAt["logout"] = 4 /\ LeftAt["removeAll"] = 3 /\ LeftAt["removeInfo"] = 2
  /\ LeftAt["connect"] = 6 /\ LeftAt["isMounted"] = 5 /\ LeftAt["mkdir"] = 4 /\ LeftAt["persist"] = 3
  /\ LeftAt["mount"] = 2 /\ LeftAt["ok"] = 1 /\ LeftAt["error"] = 1 /\ LeftAt["notPersisted"] = 1
BY DEF LeftAt, Steps, PublishSteps, UnpublishSteps, Errors

LEMMA LeftRange ==
  ASSUME Inv, NEW t \in Threads
  PROVE  Left(thread[t]) \in 0..9 /\ (Left(thread[t]) = 0 <=> ~Running(t))
BY LeftValues DEF Left, Running, Inv, KubeletType, ThreadType, Steps, PublishSteps, UnpublishSteps, Errors

LEMMA RunFalls ==
  ASSUME Inv, NEW t \in Threads, Run(t)
  PROVE  Left(thread'[t]) < Left(thread[t])
<1>1. thread \in [Threads -> ThreadType(Steps)]
  BY DEF Inv, KubeletType
<1>2. ASSUME NEW pc, NEW to, At(t, pc), Goto(t, to)
      PROVE  Left(thread[t]) = LeftAt[pc] /\ Left(thread'[t]) = LeftAt[to]
  BY <1>1, <1>2 DEF At, Goto, Left, ThreadType
<1> USE LeftValues
<1>3. CASE Return(t)
  BY <1>1, <1>3 DEF Return, Answer, Left, Idle, Errors
<1>4. CASE Connect(t) \/ IsMounted(t) \/ MakeDir(t) \/ Persist(t)
  BY <1>2, <1>4 DEF Connect, IsMounted, Step, MakeDir, Persist
<1>5. CASE FormatAndMount(t)
  BY <1>2, <1>5 DEF FormatAndMount
<1>6. CASE CountMounts(t) \/ CheckExists(t)
  BY <1>2, <1>6 DEF CountMounts, CheckExists, Step
<1>7. CASE LoadInfo(t)
  <2> DEFINE to == CASE info = "valid" -> "unmount" [] info = "none" -> "ok" [] info = "torn" -> "error"
  <2>1. to \in {"unmount", "ok", "error"} /\ At(t, "load") /\ Goto(t, to)
    BY <1>7 DEF LoadInfo, Step, Inv, NodeType
  <2> HIDE DEF to
  <2> QED
    BY <1>2, <2>1
<1>8. CASE Unmount(t)
  <2> DEFINE p  == thread[t].path
             to == CASE p \notin mounts -> "error"
                     [] p \in mounts /\ LastMount(cnt[t]) -> "disconnect"
                     [] p \in mounts /\ ~LastMount(cnt[t]) -> "ok"
  <2>1. to \in {"error", "disconnect", "ok"} /\ At(t, "unmount") /\ Goto(t, to)
    BY <1>8 DEF Unmount
  <2> HIDE DEF to
  <2> QED
    BY <1>2, <2>1
<1>9. CASE DisconnectVolume(t) \/ Disconnect(t) \/ RemoveAll(t) \/ RemoveInfo(t)
  BY <1>2, <1>9 DEF DisconnectVolume, Disconnect, RemoveAll, RemoveInfo
<1> QED
  BY <1>3, <1>4, <1>5, <1>6, <1>7, <1>8, <1>9 DEF Run

LEMMA FailFalls ==
  ASSUME Inv, NEW t \in Threads, Fail(t)
  PROVE  Left(thread'[t]) < Left(thread[t])
<1>1. thread \in [Threads -> ThreadType(Steps)]
  BY DEF Inv, KubeletType
<1>2. ASSUME NEW pc, NEW to, At(t, pc), Goto(t, to)
      PROVE  Left(thread[t]) = LeftAt[pc] /\ Left(thread'[t]) = LeftAt[to]
  BY <1>1, <1>2 DEF At, Goto, Left, ThreadType
<1> USE LeftValues
<1>3. CASE At(t, "connect") /\ Goto(t, "error")
  BY <1>2, <1>3
<1>4. CASE At(t, "persist") /\ Goto(t, "notPersisted")
  BY <1>2, <1>4
<1>5. CASE (At(t, "logout") /\ Goto(t, "removeAll")) \/ (At(t, "removeAll") /\ Goto(t, "removeInfo"))
  BY <1>2, <1>5
<1>6. ASSUME NEW pc \in {"isMounted", "mkdir", "mount", "count", "exists", "load", "unmount", "disconnect", "removeInfo"},
             At(t, pc), Goto(t, "error")
      PROVE  Left(thread'[t]) < Left(thread[t])
  <2>1. Left(thread[t]) = LeftAt[pc] /\ Left(thread'[t]) = LeftAt["error"]
    BY <1>2, <1>6
  <2>2. LeftAt[pc] \in 2..9
    BY <1>6
  <2> QED
    BY <2>1, <2>2
<1> QED
  BY <1>3, <1>4, <1>5, <1>6 DEF Fail

\* No other handler moves it.
LEMMA RunAlone ==
  ASSUME Inv, NEW t \in Threads, NEW u \in Threads, u # t, Run(u) \/ Fail(u)
  PROVE  thread'[t] = thread[t]
<1>1. thread \in [Threads -> ThreadType(Steps)]
  BY DEF Inv, KubeletType
<1>2. (\E pc : Goto(u, pc)) \/ thread' = [thread EXCEPT ![u] = Idle]
  BY DEF Run, Return, Answer, Connect, IsMounted, MakeDir, Persist, FormatAndMount, CountMounts, CheckExists, LoadInfo,
         Unmount, DisconnectVolume, Disconnect, RemoveAll, RemoveInfo, Step, Fail
<1> QED
  BY <1>1, <1>2 DEF Goto

\* Nor does a call.
LEMMA StartAlone ==
  ASSUME Inv, NEW t \in Threads, Running(t), NEW u \in Threads, NEW p \in Paths,
         NodePublishVolume(u, p) \/ NodeUnpublishVolume(u, p)
  PROVE  thread'[t] = thread[t]
<1>1. thread \in [Threads -> ThreadType(Steps)]
  BY DEF Inv, KubeletType
<1> QED
  BY <1>1 DEF NodePublishVolume, NodeUnpublishVolume, Publish, Unpublish, Start, Running

LEMMA NothingRises ==
  ASSUME Inv, [Next]_vars, NEW t \in Threads, Running(t)
  PROVE  Left(thread'[t]) = Left(thread[t]) \/ Left(thread'[t]) < Left(thread[t])
<1>0. thread \in [Threads -> ThreadType(Steps)]
  BY DEF Inv, KubeletType
<1>1. ASSUME NEW u \in Threads, u # t, Run(u) \/ Fail(u) PROVE thread'[t] = thread[t]
  BY <1>1, RunAlone
<1>2. ASSUME NEW u \in Threads, Timeout(u) PROVE Left(thread'[t]) = Left(thread[t])
  BY <1>0, <1>2 DEF Timeout, GiveUp, Left, ThreadType
<1>3. CASE Crash
  <2>1. thread'[t] = Idle
    BY <1>3 DEF Crash, Die
  <2> QED
    BY <2>1, LeftRange DEF Left, Idle
<1>4. CASE UNCHANGED vars
  BY <1>4 DEF vars
<1> QED
  BY <1>1, <1>2, <1>3, <1>4, RunFalls, FailFalls, StartAlone DEF Next

(***************************************************************************)
(* When the steps are enabled.  CanRun holds when a guard of the actions   *)
(* that make up Run does, and the step changes the handler.  GuardsEnable, *)
(* that such a step is enabled, is what ENABLED means of these actions;    *)
(* the provers cannot look into ENABLED, so it is a hypothesis.            *)
(***************************************************************************)
Goes(t, from, to) == At(t, from) /\ to # from

CanRun(t) ==
  LET p == thread[t].path
  IN \/ thread[t].op # "idle" /\ thread[t].pc \in {"ok"} \cup Errors
     \/ Goes(t, "connect", "isMounted")
     \/ Goes(t, "isMounted", IF p \in mounts THEN "ok" ELSE "mkdir")
     \/ Goes(t, "mkdir", "persist")
     \/ Goes(t, "persist", "mount")
     \/ Goes(t, "mount", IF device /\ p \in dirs /\ p \notin mounts THEN "ok" ELSE "error")
     \/ Goes(t, "count", "exists")
     \/ Goes(t, "exists", IF p \in dirs THEN "load" ELSE "ok")
     \/ Goes(t, "load", CASE info = "valid" -> "unmount" [] info = "none" -> "ok" [] info = "torn" -> "error")
     \/ Goes(t, "unmount", IF p \notin mounts THEN "error" ELSE IF LastMount(cnt[t]) THEN "disconnect" ELSE "ok")
     \/ Goes(t, "disconnect", "logout")
     \/ Goes(t, "logout", "removeAll")
     \/ Goes(t, "removeAll", "removeInfo")
     \/ Goes(t, "removeInfo", IF info = "none" THEN "error" ELSE "ok")

GuardsEnable == \A t \in Threads : CanRun(t) => ENABLED <<Run(t)>>_vars

GoesOn(t) == thread[t].op # "idle" => ENABLED <<Run(t)>>_vars

\* Whatever a handler finds of its path, it goes on from there.
LEMMA RunGoesOn ==
  ASSUME Inv, NEW t \in Threads, thread[t].op # "idle"
  PROVE  CanRun(t)
<1>1. thread[t].pc \in Steps /\ info \in {"none", "torn", "valid"}
  BY DEF Inv, KubeletType, ThreadType, NodeType
<1>2. (CASE info = "valid" -> "unmount" [] info = "none" -> "ok" [] info = "torn" -> "error") # "load"
  BY <1>1
<1> QED
  BY <1>1, <1>2 DEF CanRun, Goes, At, Steps, PublishSteps, UnpublishSteps, Errors

\* So a handler with n steps left has less at some time.
Falls(t, n) ==
  Spec /\ RunsOn(t) /\ []GoesOn(t) => [](Left(thread[t]) = n => <>(Left(thread[t]) < n))

LEMMA LeftFalls == ASSUME NEW t \in Threads, NEW n \in 1..9 PROVE Falls(t, n)
<1>1. Inv /\ [Next]_vars /\ Left(thread[t]) = n => (Left(thread[t]) = n)' \/ (Left(thread[t]) < n)'
  BY NothingRises, LeftRange
<1>2. Inv /\ <<Run(t)>>_vars /\ Left(thread[t]) = n => (Left(thread[t]) < n)'
  BY RunFalls
<1>3. Inv /\ Left(thread[t]) = n => thread[t].op # "idle"
  BY LeftRange DEF Running
<1> QED
  BY <1>1, <1>2, <1>3, Invariant, PTL DEF Falls, GoesOn, RunsOn, Spec

Ends(t) == FairSpec /\ []GuardsEnable => []<>(~Running(t))

LEMMA HandlerEnds == ASSUME NEW t \in Threads PROVE Ends(t)
<1>1. /\ Falls(t, 1) /\ Falls(t, 2) /\ Falls(t, 3) /\ Falls(t, 4) /\ Falls(t, 5)
      /\ Falls(t, 6) /\ Falls(t, 7) /\ Falls(t, 8) /\ Falls(t, 9)
  BY LeftFalls
<1> DEFINE L == Left(thread[t])
<1>2. Inv => /\ L = 1 \/ L = 2 \/ L = 3 \/ L = 4 \/ L = 5 \/ L = 6 \/ L = 7 \/ L = 8 \/ L = 9 \/ ~Running(t)
             /\ L < 1 => ~Running(t)
             /\ L < 2 => L = 1 \/ L < 1
             /\ L < 3 => L = 2 \/ L < 2
             /\ L < 4 => L = 3 \/ L < 3
             /\ L < 5 => L = 4 \/ L < 4
             /\ L < 6 => L = 5 \/ L < 5
             /\ L < 7 => L = 6 \/ L < 6
             /\ L < 8 => L = 7 \/ L < 7
             /\ L < 9 => L = 8 \/ L < 8
  BY LeftRange
<1>3. Inv /\ GuardsEnable => GoesOn(t)
  BY RunGoesOn DEF GuardsEnable, GoesOn
<1>4. Fairness => RunsOn(t)
  BY DEF Fairness
<1> QED
  BY <1>1, <1>2, <1>3, <1>4, Invariant, PTL DEF Falls, Ends, FairSpec

(***************************************************************************)
(* Every AttachDisk and DetachDisk ends, however many run, whatever fails  *)
(* and whatever the others left of the node (iscsi_node_utils.go:33-130).  *)
(***************************************************************************)
THEOREM EveryHandlerEnds ==
  FairSpec /\ []GuardsEnable => \A t \in Threads : []<>(~Running(t))
BY HandlerEnds DEF Ends

-----------------------------------------------------------------------------
(***************************************************************************)
(* Undisturbed, an unpublish is done with its first call.                  *)
(***************************************************************************)
Undoes(t, p) == thread[t].op = "unpublish" /\ thread[t].path = p /\ thread[t].live

LEMMA UndoesStep ==
  ASSUME Inv, SmoothInv, [Next]_vars, Undisturbed', NEW p \in Paths, NEW t \in Threads, Undoes(t, p)
  PROVE  Undoes(t, p)' \/ (want[p] = "done")'
<1>1. Undisturbed /\ ~Crash /\ \A u \in Threads : ~Fail(u) /\ ~Timeout(u)
  BY UndisturbedBefore
<1>2. Running(t)
  BY DEF Undoes, Running
<1>3. CASE Run(t) /\ ~Return(t)
  <2>1. PICK pc \in Steps : Moves(t, pc)
    BY <1>3, StepMoves
  <2>2. thread'[t].op = thread[t].op /\ thread'[t].path = thread[t].path /\ thread'[t].live = thread[t].live
    BY <2>1, GotoEffect DEF Moves, Inv
  <2> QED
    BY <2>2 DEF Undoes
<1>4. CASE Return(t)
  <2>1. thread[t].pc = "ok"
    BY <1>1, <1>4 DEF Return, Answer, SmoothInv, HandlersSmooth, UnpublishSmooth, Undoes
  <2>2. want' = [want EXCEPT ![p] = "done"]
    BY <1>4, <2>1, AnswerEffect DEF Return, Undoes, Inv, Steps
  <2> QED
    BY <2>2 DEF Inv, KubeletType
<1>5. CASE UNCHANGED vars
  BY <1>5 DEF vars, Undoes
<1> QED
  BY <1>1, <1>2, <1>3, <1>4, <1>5, RunAlone, StartAlone DEF Next, Undoes

UndoesEnds(t, p) == Undoes(t, p) => <>(want[p] = "done")
GetsUnpublished(p) == want[p] = "unpublishing" ~> want[p] = "done"

LEMMA UndoesEnding ==
  ASSUME NEW p \in Paths, NEW t \in Threads
  PROVE  FairSpec /\ []GuardsEnable /\ []Undisturbed => []UndoesEnds(t, p)
<1>1. Inv /\ SmoothInv /\ [Next]_vars /\ Undisturbed' /\ Undoes(t, p) => Undoes(t, p)' \/ (want[p] = "done")'
  BY UndoesStep
<1>2. Undoes(t, p) => Running(t)
  BY DEF Undoes, Running
<1>3. Ends(t)
  BY HandlerEnds
<1> QED
  BY <1>1, <1>2, <1>3, Invariant, Smooth, PTL DEF Ends, UndoesEnds, FairSpec, Spec

(***************************************************************************)
(* "persistence files are required for reliable Unpublish"                 *)
(* (iscsi_node_utils.go:60): when no operation fails, kubelet does not     *)
(* give up and the plugin lives, they do make it reliable, for any number  *)
(* of pods that leave at the same time.  The run that refutes              *)
(* ReliableUnpublish needs one of the three.                               *)
(***************************************************************************)
THEOREM UndisturbedUnpublishIsReliable ==
  FairSpec /\ []GuardsEnable /\ []Undisturbed => ReliableUnpublish
<1>1. ASSUME NEW p \in Paths
      PROVE  FairSpec /\ []GuardsEnable /\ []Undisturbed => GetsUnpublished(p)
  <2>1. FairSpec /\ []GuardsEnable /\ []Undisturbed => \A t \in Threads : []UndoesEnds(t, p)
    BY UndoesEnding
  <2>2. (\A t \in Threads : []UndoesEnds(t, p)) => [](\A t \in Threads : UndoesEnds(t, p))
    OBVIOUS
  <2>3. Inv /\ SmoothInv /\ Undisturbed /\ want[p] = "unpublishing" => \E t \in Threads : Undoes(t, p)
    <3> SUFFICES ASSUME Inv, SmoothInv, Undisturbed, want[p] = "unpublishing"
                 PROVE  \E t \in Threads : Undoes(t, p)
      OBVIOUS
    <3>1. Punctual
      BY DEF Undisturbed, Punctual, Inv, KubeletType, UsedType
    <3>2. PICK t \in Threads : thread[t].op = "unpublish" /\ thread[t].path = p
      BY DEF SmoothInv, BeliefsQuiet, InProgress
    <3> QED
      BY <3>1, <3>2 DEF Undoes, Inv, KubeletInv, PunctualInv, Punctual, Running
  <2>4. (\A t \in Threads : UndoesEnds(t, p)) /\ (\E t \in Threads : Undoes(t, p)) => <>(want[p] = "done")
    BY DEF UndoesEnds
  <2> QED
    BY <2>1, <2>2, <2>3, <2>4, Invariant, Smooth, PTL DEF FairSpec, GetsUnpublished
<1> QED
  BY <1>1 DEF ReliableUnpublish, GetsUnpublished
=============================================================================
