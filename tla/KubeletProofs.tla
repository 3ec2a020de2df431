---------------------------- MODULE KubeletProofs ----------------------------
(***************************************************************************)
(* What holds of kubelet and of the handlers that it calls, whatever these *)
(* do: lemmas for the proofs about IscsiNode and NfsNode, for any number   *)
(* of target paths, handlers and faults.                                   *)
(***************************************************************************)
EXTENDS Kubelet, TLAPS

KubeletType(steps) ==
  /\ thread \in [Threads -> ThreadType(steps)]
  /\ want \in [Paths -> Beliefs]
  /\ used \in UsedType

Running(t)    == thread[t].op # "idle"
Publishing(t) == thread[t].op = "publish" /\ thread[t].live

(***************************************************************************)
(* What the handlers that run, also those that kubelet gave up on, know of *)
(* kubelet.  It waits for one handler of a path at most, and for nothing   *)
(* beside a publish; it remembers what it waits for; an unpublish that     *)
(* runs, however late, is of a path that will not be published again; and  *)
(* it waits for every handler until it gives up on one.                    *)
(***************************************************************************)
HandlersInv ==
  \A t \in Threads : IF Running(t) THEN thread[t].path \in Paths ELSE ~thread[t].live

WaitsInv ==
  /\ \A t \in Threads : Publishing(t) => want[thread[t].path] = "publishing"
  /\ \A t \in Threads : thread[t].op = "unpublish" /\ thread[t].live => want[thread[t].path] = "unpublishing"
  /\ \A t, u \in Threads : Publishing(t) /\ thread[u].live => u = t
  /\ \A t, u \in Threads : thread[t].live /\ thread[u].live /\ thread[t].path = thread[u].path => u = t

LateInv ==
  \A t \in Threads : thread[t].op = "unpublish" => want[thread[t].path] \in {"unpublishing", "done"}

PunctualInv == used["timeouts"] = 0 => \A t \in Threads : Running(t) => thread[t].live

KubeletInv == HandlersInv /\ WaitsInv /\ LateInv /\ PunctualInv

LEMMA KubeletInitInv ==
  ASSUME NEW steps, "ok" \in steps, KubeletInit
  PROVE  KubeletType(steps) /\ KubeletInv
<1>1. KubeletType(steps)
  BY DEF KubeletInit, KubeletType, ThreadType, Idle, Beliefs, UsedType
<1>2. KubeletInv
  BY DEF KubeletInit, KubeletInv, HandlersInv, WaitsInv, LateInv, PunctualInv, Running, Publishing, Idle
<1> QED
  BY <1>1, <1>2

LEMMA CountTyped ==
  ASSUME used \in UsedType, NEW kind \in {"overlaps", "fails", "timeouts", "crashes"}, NEW max, CountUse(kind, max)
  PROVE  /\ used' \in UsedType
         /\ used'["timeouts"] = IF kind = "timeouts" THEN used["timeouts"] + 1 ELSE used["timeouts"]
BY DEF UsedType, CountUse

-----------------------------------------------------------------------------
(***************************************************************************)
(* A handler that goes on keeps all this, and the other handlers stay.     *)
(***************************************************************************)
LEMMA GotoEffect ==
  ASSUME NEW steps, KubeletType(steps), KubeletInv,
         NEW t \in Threads, Running(t), NEW pc \in steps, Goto(t, pc),
         want' = want, used' \in UsedType, used'["timeouts"] = used["timeouts"]
  PROVE  /\ KubeletType(steps)' /\ KubeletInv'
         /\ \A u \in Threads : /\ thread'[u].op = thread[u].op /\ thread'[u].path = thread[u].path
                               /\ thread'[u].live = thread[u].live
                               /\ thread'[u].pc = IF u = t THEN pc ELSE thread[u].pc
<1>1. thread' \in [Threads -> ThreadType(steps)]
  BY DEF KubeletType, Goto, ThreadType
<1>2. \A u \in Threads : /\ thread'[u].op = thread[u].op /\ thread'[u].path = thread[u].path
                         /\ thread'[u].live = thread[u].live
                         /\ thread'[u].pc = IF u = t THEN pc ELSE thread[u].pc
  BY DEF KubeletType, Goto, ThreadType
<1>3. KubeletInv'
  BY <1>2 DEF KubeletInv, HandlersInv, WaitsInv, LateInv, PunctualInv, Running, Publishing
<1> QED
  BY <1>1, <1>2, <1>3 DEF KubeletType

-----------------------------------------------------------------------------
(***************************************************************************)
(* Kubelet's calls.                                                        *)
(***************************************************************************)
LEMMA PublishEffect ==
  ASSUME NEW steps, KubeletType(steps), KubeletInv,
         NEW t \in Threads, NEW p \in Paths, NEW pc \in steps, Publish(t, p, pc)
  PROVE  /\ KubeletType(steps)' /\ KubeletInv'
         /\ want[p] \in {"none", "failed", "uncertain"}
         /\ want' = [want EXCEPT ![p] = "publishing"]
         /\ used' = used
         /\ \A u \in Threads : ~thread[u].live
         /\ \A u \in Threads : u # t => thread'[u] = thread[u]
         /\ thread'[t] = [op |-> "publish", path |-> p, pc |-> pc, live |-> TRUE]
<1>1. /\ want[p] \in {"none", "failed", "uncertain"}
      /\ \A u \in Threads : ~thread[u].live
      /\ thread' = [thread EXCEPT ![t] = [op |-> "publish", path |-> p, pc |-> pc, live |-> TRUE]]
      /\ want' = [want EXCEPT ![p] = "publishing"]
      /\ used' = used
  <2>1. \A u \in Threads : thread[u].live => thread[u].op \in {"publish", "unpublish"} /\ thread[u].path \in Paths
    BY DEF KubeletInv, HandlersInv, Running, KubeletType, ThreadType
  <2> QED
    BY <2>1 DEF Publish, Start, Waiting
<1>2. KubeletType(steps)'
  BY <1>1 DEF KubeletType, ThreadType, Beliefs
<1>3. \A u \in Threads : u # t => thread'[u] = thread[u]
  BY <1>1 DEF KubeletType
<1>4. thread'[t] = [op |-> "publish", path |-> p, pc |-> pc, live |-> TRUE]
  BY <1>1 DEF KubeletType
<1>5. want'[p] = "publishing" /\ \A q \in Paths : q # p => want'[q] = want[q]
  BY <1>1 DEF KubeletType
<1>6. HandlersInv' /\ PunctualInv'
  BY <1>1, <1>3, <1>4 DEF KubeletInv, HandlersInv, PunctualInv, Running
<1>7. WaitsInv'
  BY <1>1, <1>3, <1>4, <1>5 DEF WaitsInv, Publishing
<1>8. LateInv'
  BY <1>1, <1>3, <1>4, <1>5 DEF KubeletInv, LateInv, HandlersInv, Running
<1> QED
  BY <1>1, <1>2, <1>3, <1>4, <1>6, <1>7, <1>8 DEF KubeletInv

LEMMA UnpublishEffect ==
  ASSUME NEW steps, KubeletType(steps), KubeletInv,
         NEW t \in Threads, NEW p \in Paths, NEW pc \in steps, Unpublish(t, p, pc)
  PROVE  /\ KubeletType(steps)' /\ KubeletInv'
         /\ want[p] \in {"published", "uncertain", "unpublishing"}
         /\ want' = [want EXCEPT ![p] = "unpublishing"]
         /\ used'["timeouts"] = used["timeouts"]
         /\ \A u \in Threads : ~Publishing(u)
         /\ \A u \in Threads : u # t => thread'[u] = thread[u]
         /\ thread'[t] = [op |-> "unpublish", path |-> p, pc |-> pc, live |-> TRUE]
<1>1. /\ want[p] \in {"published", "uncertain", "unpublishing"}
      /\ \A u \in Threads : ~Publishing(u)
      /\ \A u \in Threads : thread[u].live => thread[u].path # p
      /\ thread' = [thread EXCEPT ![t] = [op |-> "unpublish", path |-> p, pc |-> pc, live |-> TRUE]]
      /\ want' = [want EXCEPT ![p] = "unpublishing"]
  <2>1. \A u \in Threads : thread[u].live => thread[u].op \in {"publish", "unpublish"} /\ thread[u].path \in Paths
    BY DEF KubeletInv, HandlersInv, Running, KubeletType, ThreadType
  <2> QED
    BY <2>1 DEF Unpublish, Start, Waiting, Publishing
<1>2. used' \in UsedType /\ used'["timeouts"] = used["timeouts"]
  BY CountTyped DEF Unpublish, KubeletType
<1>3. KubeletType(steps)'
  BY <1>1, <1>2 DEF KubeletType, ThreadType, Beliefs
<1>4. \A u \in Threads : u # t => thread'[u] = thread[u]
  BY <1>1 DEF KubeletType
<1>5. thread'[t] = [op |-> "unpublish", path |-> p, pc |-> pc, live |-> TRUE]
  BY <1>1 DEF KubeletType
<1>6. want'[p] = "unpublishing" /\ \A q \in Paths : q # p => want'[q] = want[q]
  BY <1>1 DEF KubeletType
<1>7. HandlersInv' /\ PunctualInv'
  BY <1>2, <1>4, <1>5 DEF KubeletInv, HandlersInv, PunctualInv, Running
<1>8. \A u \in Threads : ~Publishing(u)'
  BY <1>1, <1>4, <1>5 DEF Publishing
<1>9. \A u \in Threads : u # t /\ thread[u].op = "unpublish" /\ thread[u].live => thread[u].path \in Paths \ {p}
  BY <1>1 DEF KubeletInv, HandlersInv, Running
<1>10. WaitsInv'
  BY <1>1, <1>4, <1>5, <1>6, <1>8, <1>9 DEF KubeletInv, WaitsInv, Publishing
<1>11. LateInv'
  BY <1>4, <1>5, <1>6 DEF KubeletInv, LateInv, HandlersInv, Running
<1> QED
  BY <1>1, <1>2, <1>3, <1>4, <1>5, <1>7, <1>10, <1>11 DEF KubeletInv

(***************************************************************************)
(* The answer reaches kubelet only if it waits, and then it believes what  *)
(* the answer says of a path that it was publishing or unpublishing.       *)
(***************************************************************************)
LEMMA AnswerEffect ==
  ASSUME NEW steps, KubeletType(steps), KubeletInv, "ok" \in steps,
         NEW t \in Threads, NEW errors, Answer(t, errors)
  PROVE  /\ KubeletType(steps)' /\ KubeletInv'
         /\ Running(t) /\ thread[t].path \in Paths /\ used' = used
         /\ \A u \in Threads : u # t => thread'[u] = thread[u]
         /\ thread'[t] = Idle
         /\ ~thread[t].live => want' = want
         /\ Publishing(t) =>
              /\ want[thread[t].path] = "publishing"
              /\ want' = [want EXCEPT ![thread[t].path] = IF thread[t].pc = "ok" THEN "published" ELSE "failed"]
         /\ thread[t].op = "unpublish" /\ thread[t].live =>
              /\ want[thread[t].path] = "unpublishing"
              /\ want' = [want EXCEPT ![thread[t].path] = IF thread[t].pc = "ok" THEN "done" ELSE "unpublishing"]
<1> DEFINE h == thread[t]
<1>1. /\ Running(t) /\ h.op \in {"publish", "unpublish"} /\ h.path \in Paths
      /\ thread' = [thread EXCEPT ![t] = Idle]
      /\ want' = IF h.live THEN [want EXCEPT ![h.path] = Believed(h.op, h.pc = "ok")] ELSE want
      /\ used' = used
  BY DEF Answer, Running, KubeletInv, HandlersInv, KubeletType, ThreadType
<1>2. Idle \in ThreadType(steps)
  BY DEF Idle, ThreadType
<1>3. Believed(h.op, h.pc = "ok") \in Beliefs
  BY <1>1 DEF Believed, Beliefs
<1>4. KubeletType(steps)'
  BY <1>1, <1>2, <1>3 DEF KubeletType
<1>5. \A u \in Threads : u # t => thread'[u] = thread[u]
  BY <1>1 DEF KubeletType
<1>6. thread'[t] = Idle /\ ~thread'[t].live /\ thread'[t].op = "idle"
  BY <1>1 DEF KubeletType, Idle
<1>7. HandlersInv' /\ PunctualInv'
  BY <1>1, <1>5, <1>6 DEF KubeletInv, HandlersInv, PunctualInv, Running
<1>8. h.live => \A u \in Threads : u # t /\ thread[u].live => thread[u].path \in Paths \ {h.path}
  BY DEF KubeletInv, WaitsInv, HandlersInv, Running
<1>9. \A q \in Paths : q # h.path => want'[q] = want[q]
  BY <1>1 DEF KubeletType
<1>10. WaitsInv'
  <2>1. ASSUME NEW u \in Threads, thread'[u].live
        PROVE  u # t /\ thread'[u] = thread[u] /\ want'[thread[u].path] = want[thread[u].path]
    BY <2>1, <1>1, <1>5, <1>6, <1>8, <1>9
  <2> QED
    BY <2>1 DEF KubeletInv, WaitsInv, Publishing
<1>11. h.live /\ h.op = "unpublish" => want'[h.path] \in {"unpublishing", "done"}
  BY <1>1 DEF Believed, KubeletType
<1>12. LateInv'
  <2>1. ASSUME NEW u \in Threads, u # t, thread[u].op = "unpublish"
        PROVE  want'[thread[u].path] \in {"unpublishing", "done"}
    <3>1. thread[u].path \in Paths /\ want[thread[u].path] \in {"unpublishing", "done"}
      BY <2>1 DEF KubeletInv, LateInv, HandlersInv, Running
    <3>2. CASE thread[u].path # h.path \/ ~h.live
      BY <3>1, <3>2, <1>1, <1>9
    <3>3. CASE thread[u].path = h.path /\ h.live
      <4>1. h.op = "unpublish"
        BY <3>1, <3>3, <1>1 DEF KubeletInv, WaitsInv, Publishing
      <4> QED
        BY <4>1, <3>3, <1>11
    <3> QED
      BY <3>2, <3>3
  <2> QED
    BY <2>1, <1>5, <1>6 DEF LateInv
<1>13. /\ Publishing(t) => want[h.path] = "publishing"
       /\ h.op = "unpublish" /\ h.live => want[h.path] = "unpublishing"
  BY DEF KubeletInv, WaitsInv
<1>14. /\ h.op = "publish" => Believed(h.op, h.pc = "ok") = IF h.pc = "ok" THEN "published" ELSE "failed"
       /\ h.op = "unpublish" => Believed(h.op, h.pc = "ok") = IF h.pc = "ok" THEN "done" ELSE "unpublishing"
  BY DEF Believed
<1>15. KubeletInv'
  BY <1>7, <1>10, <1>12 DEF KubeletInv
<1> QED
  BY <1>1, <1>4, <1>5, <1>6, <1>13, <1>14, <1>15 DEF Publishing

-----------------------------------------------------------------------------
(***************************************************************************)
(* Kubelet gives up, and the plugin dies.                                  *)
(***************************************************************************)
LEMMA GiveUpEffect ==
  ASSUME NEW steps, KubeletType(steps), KubeletInv, NEW t \in Threads, GiveUp(t)
  PROVE  /\ KubeletType(steps)' /\ KubeletInv'
         /\ thread[t].live /\ thread[t].path \in Paths /\ used'["timeouts"] # 0
         /\ \A u \in Threads : /\ thread'[u].op = thread[u].op /\ thread'[u].path = thread[u].path
                               /\ thread'[u].pc = thread[u].pc
                               /\ thread'[u].live = (u # t /\ thread[u].live)
         /\ \A p \in Paths : want'[p] # want[p] => want[p] = "publishing" /\ want'[p] = "uncertain"
<1>1. /\ thread[t].live /\ thread[t].path \in Paths /\ thread[t].op \in {"publish", "unpublish"}
      /\ thread' = [thread EXCEPT ![t].live = FALSE]
      /\ want' = IF thread[t].op = "publish" THEN [want EXCEPT ![thread[t].path] = "uncertain"] ELSE want
  BY DEF GiveUp, KubeletInv, HandlersInv, Running, KubeletType, ThreadType
<1>2. used' \in UsedType /\ used'["timeouts"] # 0
  BY CountTyped DEF GiveUp, KubeletType, UsedType
<1>3. thread' \in [Threads -> ThreadType(steps)]
  BY <1>1 DEF KubeletType, ThreadType
<1>4. want' \in [Paths -> Beliefs]
  BY <1>1 DEF KubeletType, Beliefs
<1>5. KubeletType(steps)'
  BY <1>2, <1>3, <1>4 DEF KubeletType
<1>6. \A u \in Threads : /\ thread'[u].op = thread[u].op /\ thread'[u].path = thread[u].path
                         /\ thread'[u].pc = thread[u].pc
                         /\ thread'[u].live = (u # t /\ thread[u].live)
  BY <1>1 DEF KubeletType, ThreadType
<1>7. HandlersInv' /\ PunctualInv'
  BY <1>2, <1>6 DEF KubeletInv, HandlersInv, PunctualInv, Running
<1>8. \A p \in Paths : want'[p] # want[p] => want[p] = "publishing" /\ want'[p] = "uncertain"
  BY <1>1 DEF KubeletInv, WaitsInv, Publishing, KubeletType
<1>9. \A u \in Threads : thread'[u].live => want'[thread[u].path] = want[thread[u].path]
  BY <1>1, <1>6 DEF KubeletInv, WaitsInv, KubeletType
<1>10. WaitsInv'
  <2>1. \A u \in Threads : thread'[u].live => thread[u].live
    BY <1>6
  <2>2. WaitsInv
    BY DEF KubeletInv
  <2>3. \A u \in Threads : Publishing(u)' => want'[thread'[u].path] = "publishing"
    BY <2>1, <2>2, <1>6, <1>9 DEF WaitsInv, Publishing
  <2>4. \A u \in Threads : thread'[u].op = "unpublish" /\ thread'[u].live => want'[thread'[u].path] = "unpublishing"
    BY <2>1, <2>2, <1>6, <1>9 DEF WaitsInv
  <2>5. \A u, v \in Threads : Publishing(u)' /\ thread'[v].live => v = u
    BY <2>1, <2>2, <1>6 DEF WaitsInv, Publishing
  <2>6. \A u, v \in Threads : thread'[u].live /\ thread'[v].live /\ thread'[u].path = thread'[v].path => v = u
    BY <2>1, <2>2, <1>6 DEF WaitsInv
  <2> QED
    BY <2>3, <2>4, <2>5, <2>6 DEF WaitsInv
<1>11. LateInv'
  BY <1>6, <1>8 DEF KubeletInv, LateInv, HandlersInv, Running
<1> QED
  BY <1>1, <1>2, <1>5, <1>6, <1>7, <1>8, <1>10, <1>11 DEF KubeletInv

LEMMA DieEffect ==
  ASSUME NEW steps, KubeletType(steps), KubeletInv, "ok" \in steps, Die
  PROVE  /\ KubeletType(steps)' /\ KubeletInv'
         /\ used'["timeouts"] = used["timeouts"]
         /\ \A u \in Threads : thread'[u] = Idle
         /\ \A p \in Paths : want'[p] # want[p] => want[p] = "publishing" /\ want'[p] = "uncertain"
         /\ want' = want \/ \E p \in Paths : want[p] = "publishing" /\ want' = [want EXCEPT ![p] = "uncertain"]
<1>1. /\ thread' = [t \in Threads |-> Idle]
      /\ want' = [p \in Paths |-> IF Waiting({"publish"}, {p}) THEN "uncertain" ELSE want[p]]
  BY DEF Die
<1>2. used' \in UsedType /\ used'["timeouts"] = used["timeouts"]
  BY CountTyped DEF Die, KubeletType
<1>3. Idle \in ThreadType(steps) /\ Idle.op = "idle" /\ ~Idle.live
  BY DEF Idle, ThreadType
<1>4. KubeletType(steps)'
  BY <1>1, <1>2, <1>3 DEF KubeletType, Beliefs
<1>5. KubeletInv'
  BY <1>1, <1>3 DEF KubeletInv, HandlersInv, WaitsInv, LateInv, PunctualInv, Running, Publishing
<1>6. \A p \in Paths : Waiting({"publish"}, {p}) => want[p] = "publishing"
  BY DEF Waiting, KubeletInv, WaitsInv, Publishing
<1>7. \A p \in Paths : want'[p] # want[p] => want[p] = "publishing" /\ want'[p] = "uncertain"
  BY <1>1, <1>6
<1>8. CASE \A p \in Paths : ~Waiting({"publish"}, {p})
  <2>1. want' = want
    BY <1>1, <1>8 DEF KubeletType
  <2> QED
    BY <1>1, <1>2, <1>4, <1>5, <1>7, <2>1
<1>9. ASSUME NEW p \in Paths, Waiting({"publish"}, {p})
      PROVE  want' = [want EXCEPT ![p] = "uncertain"]
  <2>1. \A q \in Paths : Waiting({"publish"}, {q}) => q = p
    BY <1>9 DEF Waiting, KubeletInv, WaitsInv, Publishing
  <2> QED
    BY <1>1, <1>9, <2>1 DEF KubeletType
<1> QED
  BY <1>1, <1>2, <1>4, <1>5, <1>6, <1>7, <1>8, <1>9
=============================================================================
