------------------------- MODULE NfsControllerProofs -------------------------
(***************************************************************************)
(* Theorems about NfsController and NfsListVolumes, for any set of volumes *)
(* and any number of faults.                                               *)
(***************************************************************************)
EXTENDS NfsListVolumes, TLAPS

-----------------------------------------------------------------------------
(***************************************************************************)
(* Facts about the operators.                                              *)
(***************************************************************************)

\* Executing a request changes the dataset and the share of its volume only.
LEMMA ExecuteChanges ==
  ASSUME TypeOK, NEW r \in RequestType, Accepted(r), Execute(r)
  PROVE  /\ datasets' \subseteq Volumes /\ shares' \subseteq datasets'
         /\ \A w \in Volumes : w # r.vol => /\ w \in datasets' <=> w \in datasets
                                            /\ w \in shares' <=> w \in shares
         /\ r.call = "deleteDataset" => r.vol \notin datasets'
         /\ r.call # "deleteDataset" => r.vol \in datasets' /\ (r.vol \in shares => r.vol \in shares')
         /\ r.call \in {"createShare", "createShareLegacy"} => r.vol \in shares'
         /\ field' = field
BY DEF TypeOK, RequestType, Calls, Accepted, Execute

\* A handler's request is one, and names the handler's volume and its call.
LEMMA RequestTyped ==
  ASSUME TypeOK, NEW v \in Volumes, InCall(v)
  PROVE  /\ Request(v) \in RequestType
         /\ Request(v).vol = v /\ Request(v).call = handler[v].pc
         /\ handler[v].rpc = "delete" <=> handler[v].pc = "deleteDataset"
         /\ handler[v].rpc \in {"create", "delete"}
BY DEF TypeOK, RequestType, InCall, Request, HandlerType, Idle, Calls, CreateSteps, DeleteSteps, Answers

\* Whichever form the appliance lists its shares in, the share found is v's.
LEMMA FoundIsShared ==
  ASSUME TypeOK, NEW v \in Volumes
  PROVE  FindNFSShare(v) <=> v \in shares
<1>1. ASSUME NEW s \in shares PROVE NormaliseNFSShareMountpaths(Share(s)) = s
  <2>1. s # NoMountpoint
    BY NoMountpointAssumption DEF TypeOK
  <2>2. CASE field = "path"
    BY <2>1, <2>2 DEF NormaliseNFSShareMountpaths, Share
  <2>3. CASE field = "paths"
    BY <2>1, <2>3 DEF NormaliseNFSShareMountpaths, Share
  <2> QED
    BY <2>2, <2>3 DEF TypeOK
<1> QED
  BY <1>1 DEF FindNFSShare

-----------------------------------------------------------------------------
(***************************************************************************)
(* Type correctness.                                                       *)
(***************************************************************************)
LEMMA TypeInit == Init => TypeOK
BY MaxFaultsAssumption DEF Init, TypeOK, HandlerType, Phases

LEMMA TypeStep == TypeOK /\ [Next]_vars => TypeOK'
<1> SUFFICES ASSUME TypeOK, [Next]_vars PROVE TypeOK'
  OBVIOUS
<1> USE DEF TypeOK
<1>1. ASSUME NEW v \in Volumes, Provision(v) PROVE TypeOK'
  BY <1>1 DEF Provision, CreateVolume, RetryCreateVolume, DeleteVolume, RetryDeleteVolume, Start, nas,
              HandlerType, CreateSteps, DeleteSteps, Phases
<1>2. ASSUME NEW v \in Volumes, LookForDataset(v) PROVE TypeOK'
  BY <1>2 DEF LookForDataset, At, Goto, AfterLookup, nas, HandlerType, Idle, CreateSteps, DeleteSteps, Answers
<1>3. ASSUME NEW v \in Volumes, LookForShare(v) PROVE TypeOK'
  BY <1>3 DEF LookForShare, At, Goto, nas, HandlerType, Idle, CreateSteps, DeleteSteps, Answers
<1>4. ASSUME NEW v \in Volumes, Call(v) PROVE TypeOK'
  <2>1. datasets' \subseteq Volumes /\ shares' \subseteq datasets' /\ field' = field
    BY <1>4, ExecuteChanges, RequestTyped DEF Call
  <2> QED
    BY <1>4, <2>1 DEF Call, At, InCall, Goto, HandlerType, Idle, CreateSteps, DeleteSteps, Answers, Calls
<1>5. ASSUME NEW v \in Volumes, Refused(v) PROVE TypeOK'
  BY <1>5 DEF Refused, InCall, AfterRefusal, Goto, nas, HandlerType, Idle, CreateSteps, DeleteSteps, Answers, Calls
<1>6. ASSUME NEW v \in Volumes, Reply(v) \/ ReplyError(v) PROVE TypeOK'
  BY <1>6 DEF Reply, ReplyError, Finish, nas, HandlerType, Phases
<1>7. ASSUME NEW v \in Volumes, RejectCall(v) PROVE TypeOK'
  BY <1>7, MaxFaultsAssumption
     DEF RejectCall, Fault, FaultKinds, At, InCall, Goto, nas, HandlerType, Idle, CreateSteps, DeleteSteps, Answers
<1>8. ASSUME NEW v \in Volumes, LoseReply(v) PROVE TypeOK'
  <2>1. datasets' \subseteq Volumes /\ shares' \subseteq datasets' /\ field' = field
    BY <1>8, ExecuteChanges, RequestTyped DEF LoseReply
  <2> QED
    BY <1>8, <2>1, MaxFaultsAssumption
       DEF LoseReply, Fault, FaultKinds, InCall, Goto, HandlerType, Idle, CreateSteps, DeleteSteps, Answers
<1>9. ASSUME NEW v \in Volumes, Abandon(v) PROVE TypeOK'
  <2>1. datasets' \subseteq Volumes /\ shares' \subseteq datasets' /\ field' = field
    BY <1>9, ExecuteChanges, RequestTyped DEF Abandon, nas
  <2> QED
    BY <1>9, <2>1, MaxFaultsAssumption DEF Abandon, Fault, FaultKinds, HandlerType
<1>10. ASSUME NEW v \in Volumes, AbandonLate(v) PROVE TypeOK'
  BY <1>10, RequestTyped, MaxFaultsAssumption DEF AbandonLate, Fault, FaultKinds, HandlerType, nas
<1>11. ASSUME NEW r \in late, Deliver(r) PROVE TypeOK'
  <2>1. datasets' \subseteq Volumes /\ shares' \subseteq datasets' /\ field' \in {"path", "paths"}
    BY <1>11, ExecuteChanges DEF Deliver, nas
  <2> QED
    BY <1>11, <2>1 DEF Deliver
<1>12. ASSUME Upgrade PROVE TypeOK'
  BY <1>12, MaxFaultsAssumption DEF Upgrade, Fault, FaultKinds
<1>13. ASSUME UNCHANGED vars PROVE TypeOK'
  BY <1>13 DEF vars
<1> QED
  BY <1>1, <1>2, <1>3, <1>4, <1>5, <1>6, <1>7, <1>8, <1>9, <1>10, <1>11, <1>12, <1>13
     DEF Next, Handle, Disturb

(***************************************************************************)
(* The types of the NFS controller's state (nfs.go:68-204), in particular  *)
(* that no handler takes a step of the other RPC and no share outlives its *)
(* dataset.                                                                *)
(***************************************************************************)
THEOREM TypeCorrect == Spec => []TypeOK
BY TypeInit, TypeStep, PTL DEF Spec

-----------------------------------------------------------------------------
(***************************************************************************)
(* The invariant: where a handler is tells what is on TrueNAS.  Only its   *)
(* own handler and late requests change a volume, and a late deletion is   *)
(* left behind by DeleteVolume, after which the volume is not created.     *)
(***************************************************************************)
Serving(v) ==
  /\ handler[v].rpc = "create" => phase[v] = "creating"
  /\ handler[v].rpc = "delete" => phase[v] = "deleting"

Built(v) ==
  /\ handler[v].rpc = "create" =>
       /\ handler[v].pc \in {"findShare", "createShare", "createShareLegacy"} => v \in datasets
       /\ handler[v].pc = "reply" => v \in shares
  /\ phase[v] = "bound" => v \in shares

\* Nothing is there before CreateVolume, nor when DeleteVolume is through.
Cleared(v) ==
  /\ phase[v] \in {"absent", "gone"} => v \notin datasets
  /\ handler[v].rpc = "delete" /\ handler[v].pc = "reply" => v \notin datasets

LateDeletes == \A r \in late : r.call = "deleteDataset" => phase[r.vol] \in {"deleting", "gone"}

Inv ==
  /\ \A v \in Volumes : Serving(v) /\ Built(v)
  /\ LateDeletes
  /\ used["late"] = 0 => late = {} /\ \A v \in Volumes : Cleared(v)

LEMMA InvInit == Init => Inv
BY MaxFaultsAssumption DEF Init, Inv, Serving, Built, Cleared, LateDeletes, Idle, FaultKinds

\* What the invariant says of a volume carries over when nothing of it changes.
Unmoved(w) ==
  /\ handler'[w] = handler[w] /\ phase'[w] = phase[w]
  /\ w \in datasets' <=> w \in datasets
  /\ w \in shares' <=> w \in shares

LEMMA OneVolume ==
  ASSUME TypeOK, Inv, NEW v \in Volumes,
         \A w \in Volumes : w # v => Unmoved(w),
         late' = late, used'["late"] = used["late"],
         phase[v] \in {"deleting", "gone"} => phase'[v] \in {"deleting", "gone"},
         Serving(v)', Built(v)', used["late"] = 0 => Cleared(v)'
  PROVE  Inv'
<1>1. \A w \in Volumes : w # v => Serving(w)' /\ Built(w)'
  BY DEF Unmoved, Inv, Serving, Built
<1>2. used["late"] = 0 => \A w \in Volumes : w # v => Cleared(w)'
  BY DEF Unmoved, Inv, Cleared
<1>3. LateDeletes'
  BY DEF Unmoved, Inv, LateDeletes, TypeOK, RequestType
<1> QED
  BY <1>1, <1>2, <1>3 DEF Inv

\* A handler that is at some step and moves on, TrueNAS being as it was.
LEMMA MovesOn ==
  ASSUME TypeOK, NEW v \in Volumes, NEW pc, Goto(v, pc), UNCHANGED <<nas, phase>>
  PROVE  /\ \A w \in Volumes : w # v => Unmoved(w)
         /\ handler'[v].rpc = handler[v].rpc /\ handler'[v].pc = pc
BY DEF TypeOK, Goto, Unmoved, nas, HandlerType, Idle

LEMMA InvStep == TypeOK /\ Inv /\ [Next]_vars => Inv'
<1> SUFFICES ASSUME TypeOK, Inv, [Next]_vars PROVE Inv'
  OBVIOUS
<1>1. ASSUME NEW v \in Volumes, Provision(v) PROVE Inv'
  <2>1. CASE phase[v] \notin {"bound", "deleting"} /\ Start(v, "create", "creating")
    <3>1. \A w \in Volumes : w # v => Unmoved(w)
      BY <2>1 DEF Start, Unmoved, nas, TypeOK
    <3>2. handler'[v].rpc = "create" /\ handler'[v].pc = "findDataset" /\ phase'[v] = "creating"
      BY <2>1 DEF Start, TypeOK
    <3>3. phase[v] # "gone"
      BY <1>1, <2>1 DEF Provision, CreateVolume, RetryCreateVolume, DeleteVolume, RetryDeleteVolume
    <3>4. Serving(v)' /\ Built(v)' /\ Cleared(v)'
      BY <3>2 DEF Serving, Built, Cleared
    <3> QED
      BY <2>1, <3>1, <3>3, <3>4, OneVolume DEF Start
  <2>2. CASE phase[v] \in {"bound", "deleting"} /\ Start(v, "delete", "deleting")
    <3>1. \A w \in Volumes : w # v => Unmoved(w)
      BY <2>2 DEF Start, Unmoved, nas, TypeOK
    <3>2. handler'[v].rpc = "delete" /\ handler'[v].pc = "findDataset" /\ phase'[v] = "deleting"
      BY <2>2 DEF Start, TypeOK
    <3>3. Serving(v)' /\ Built(v)' /\ Cleared(v)'
      BY <3>2 DEF Serving, Built, Cleared
    <3> QED
      BY <2>2, <3>1, <3>2, <3>3, OneVolume DEF Start
  <2> QED
    BY <1>1, <2>1, <2>2 DEF Provision, CreateVolume, RetryCreateVolume, DeleteVolume, RetryDeleteVolume
<1>2. ASSUME NEW v \in Volumes, LookForDataset(v) PROVE Inv'
  <2>1. Goto(v, AfterLookup(handler[v].rpc, FindDataset(v))) /\ UNCHANGED <<nas, phase, late, used>>
    BY <1>2 DEF LookForDataset
  <2>2. handler'[v].rpc = handler[v].rpc /\ handler'[v].pc = AfterLookup(handler[v].rpc, FindDataset(v))
    BY <2>1, MovesOn
  <2>3. Serving(v)' /\ Built(v)'
    BY <2>1, <2>2 DEF Inv, Serving, Built, AfterLookup, FindDataset, nas
  <2>4. used["late"] = 0 => Cleared(v)'
    BY <2>1, <2>2 DEF Inv, Cleared, AfterLookup, FindDataset, nas
  <2> QED
    BY <2>1, <2>3, <2>4, MovesOn, OneVolume
<1>3. ASSUME NEW v \in Volumes, LookForShare(v) PROVE Inv'
  <2>1. /\ Goto(v, IF FindNFSShare(v) THEN "reply" ELSE "createShare")
        /\ UNCHANGED <<nas, phase, late, used>>
        /\ handler[v].pc = "findShare" /\ handler[v].rpc = "create"
    BY <1>3 DEF LookForShare, At, TypeOK, HandlerType, Idle, DeleteSteps, Answers
  <2>2. handler'[v].rpc = "create" /\ handler'[v].pc = IF FindNFSShare(v) THEN "reply" ELSE "createShare"
    BY <2>1, MovesOn
  <2>3. Serving(v)' /\ Built(v)'
    BY <2>1, <2>2, FoundIsShared DEF Inv, Serving, Built, nas
  <2>4. used["late"] = 0 => Cleared(v)'
    BY <2>1, <2>2 DEF Inv, Cleared, nas
  <2> QED
    BY <2>1, <2>3, <2>4, MovesOn, OneVolume
<1>4. ASSUME NEW v \in Volumes, Call(v) PROVE Inv'
  <2> DEFINE pc == IF At(v, "createDataset") THEN "findShare" ELSE "reply"
  <2>1. InCall(v) /\ Accepted(Request(v)) /\ Execute(Request(v)) /\ Goto(v, pc) /\ UNCHANGED <<phase, late, used>>
    BY <1>4 DEF Call
  <2>2. /\ handler'[v].rpc = handler[v].rpc /\ handler'[v].pc = pc
        /\ \A w \in Volumes : w # v => handler'[w] = handler[w]
    BY <2>1 DEF TypeOK, Goto, HandlerType, Idle
  <2>3. \A w \in Volumes : w # v => Unmoved(w)
    BY <2>1, <2>2, RequestTyped, ExecuteChanges DEF Unmoved
  <2>4. handler[v].pc \in Calls /\ (At(v, "createDataset") <=> handler[v].pc = "createDataset")
    BY <2>1 DEF InCall, At
  <2>5. CASE handler[v].rpc = "create"
    <3>1. Serving(v)' /\ Built(v)'
      BY <2>1, <2>2, <2>4, <2>5, RequestTyped, ExecuteChanges DEF Inv, Serving, Built, Calls
    <3>2. Cleared(v)'
      BY <2>1, <2>2, <2>5 DEF Inv, Serving, Cleared
    <3> QED
      BY <2>1, <2>3, <3>1, <3>2, OneVolume
  <2>6. CASE handler[v].rpc = "delete"
    <3>1. Serving(v)' /\ Built(v)' /\ Cleared(v)'
      BY <2>1, <2>2, <2>4, <2>6, RequestTyped, ExecuteChanges DEF Inv, Serving, Built, Cleared
    <3> QED
      BY <2>1, <2>3, <3>1, OneVolume
  <2> QED
    BY <2>1, <2>5, <2>6, RequestTyped
<1>5. ASSUME NEW v \in Volumes, Refused(v) PROVE Inv'
  <2>1. /\ InCall(v) /\ Goto(v, AfterRefusal(handler[v].pc))
        /\ UNCHANGED <<nas, phase, late, used>>
    BY <1>5 DEF Refused
  <2>2. handler'[v].rpc = handler[v].rpc /\ handler'[v].pc = AfterRefusal(handler[v].pc)
    BY <2>1, MovesOn
  <2>3. Serving(v)' /\ Built(v)'
    BY <2>1, <2>2, RequestTyped DEF Inv, Serving, Built, AfterRefusal, nas
  <2>4. used["late"] = 0 => Cleared(v)'
    BY <2>1, <2>2 DEF Inv, Cleared, AfterRefusal, nas
  <2> QED
    BY <2>1, <2>3, <2>4, MovesOn, OneVolume
<1>6. ASSUME NEW v \in Volumes, Reply(v) \/ ReplyError(v) PROVE Inv'
  <2>1. PICK p \in {"bound", "gone", "failed", "deleting"} :
          /\ Finish(v, p)
          /\ \/ p = "bound" /\ handler[v].rpc = "create" /\ handler[v].pc = "reply"
             \/ p = "gone" /\ handler[v].rpc = "delete" /\ handler[v].pc = "reply"
             \/ p = "failed" /\ handler[v].rpc = "create"
             \/ p = "deleting" /\ handler[v].rpc = "delete"
    BY <1>6 DEF Reply, ReplyError, At, TypeOK, HandlerType, Idle
  <2>2. \A w \in Volumes : w # v => Unmoved(w)
    BY <2>1 DEF Finish, Unmoved, nas, TypeOK
  <2>3. handler'[v].rpc = "idle" /\ phase'[v] = p
    BY <2>1 DEF Finish, TypeOK, Idle
  <2>4. Serving(v)' /\ Built(v)'
    BY <2>1, <2>3 DEF Inv, Serving, Built, Finish, nas
  <2>5. used["late"] = 0 => Cleared(v)'
    BY <2>1, <2>3 DEF Inv, Cleared, Finish, nas
  <2>6. phase[v] \in {"deleting", "gone"} => phase'[v] \in {"deleting", "gone"}
    BY <2>1, <2>3 DEF Inv, Serving
  <2> QED
    BY <2>1, <2>2, <2>4, <2>5, <2>6, OneVolume DEF Finish
<1>7. ASSUME NEW v \in Volumes, RejectCall(v) PROVE Inv'
  <2>1. /\ Goto(v, "error") /\ UNCHANGED <<nas, phase, late>>
        /\ used' = [used EXCEPT !["reject"] = @ + 1]
    BY <1>7 DEF RejectCall, Fault
  <2>2. handler'[v].rpc = handler[v].rpc /\ handler'[v].pc = "error"
    BY <2>1, MovesOn
  <2>3. Serving(v)' /\ Built(v)'
    BY <2>1, <2>2 DEF Inv, Serving, Built, nas
  <2>4. used["late"] = 0 => Cleared(v)'
    BY <2>1, <2>2 DEF Inv, Cleared, nas
  <2>5. used'["late"] = used["late"]
    BY <2>1 DEF TypeOK, FaultKinds
  <2> QED
    BY <2>1, <2>3, <2>4, <2>5, MovesOn, OneVolume
<1>8. ASSUME NEW v \in Volumes, LoseReply(v) PROVE Inv'
  <2>1. /\ InCall(v) /\ Accepted(Request(v)) /\ Execute(Request(v)) /\ Goto(v, "error")
        /\ UNCHANGED <<phase, late>>
        /\ used' = [used EXCEPT !["lost"] = @ + 1]
    BY <1>8 DEF LoseReply, Fault
  <2>2. /\ handler'[v].rpc = handler[v].rpc /\ handler'[v].pc = "error"
        /\ \A w \in Volumes : w # v => handler'[w] = handler[w]
    BY <2>1 DEF TypeOK, Goto, HandlerType, Idle
  <2>3. \A w \in Volumes : w # v => Unmoved(w)
    BY <2>1, <2>2, RequestTyped, ExecuteChanges DEF Unmoved
  <2>4. phase[v] \in {"creating", "deleting"}
    BY <2>1, RequestTyped DEF Inv, Serving
  <2>5. Serving(v)' /\ Built(v)' /\ Cleared(v)'
    BY <2>1, <2>2, <2>4 DEF Inv, Serving, Built, Cleared
  <2>6. used'["late"] = used["late"]
    BY <2>1 DEF TypeOK, FaultKinds
  <2> QED
    BY <2>1, <2>3, <2>5, <2>6, OneVolume
<1>9. ASSUME NEW v \in Volumes, Abandon(v) PROVE Inv'
  <2>1. /\ handler' = [handler EXCEPT ![v] = Idle] /\ UNCHANGED <<phase, late>>
        /\ used' = [used EXCEPT !["abandon"] = @ + 1]
        /\ UNCHANGED nas \/ (InCall(v) /\ Accepted(Request(v)) /\ Execute(Request(v)))
    BY <1>9 DEF Abandon, Fault
  <2>2. handler'[v].rpc = "idle" /\ handler[v].rpc \in {"create", "delete"}
    BY <1>9, <2>1 DEF Abandon, TypeOK, Idle, HandlerType
  <2>3. \A w \in Volumes : w # v => Unmoved(w)
    BY <2>1, RequestTyped, ExecuteChanges DEF Unmoved, TypeOK, nas
  <2>4. phase[v] \in {"creating", "deleting"}
    BY <2>2 DEF Inv, Serving
  <2>5. Serving(v)' /\ Built(v)' /\ Cleared(v)'
    BY <2>1, <2>2, <2>4 DEF Serving, Built, Cleared
  <2>6. used'["late"] = used["late"]
    BY <2>1 DEF TypeOK, FaultKinds
  <2> QED
    BY <2>1, <2>3, <2>5, <2>6, OneVolume
<1>10. ASSUME NEW v \in Volumes, AbandonLate(v) PROVE Inv'
  <2>1. /\ InCall(v) /\ handler' = [handler EXCEPT ![v] = Idle]
        /\ late' = late \cup {Request(v)} /\ UNCHANGED <<nas, phase>>
        /\ used' = [used EXCEPT !["late"] = @ + 1]
    BY <1>10 DEF AbandonLate, Fault
  <2>2. used'["late"] # 0
    BY <2>1 DEF TypeOK, FaultKinds
  <2>3. Request(v).call = "deleteDataset" => phase[v] = "deleting"
    BY <2>1, RequestTyped DEF Inv, Serving
  <2>4. LateDeletes'
    BY <2>1, <2>3, RequestTyped DEF Inv, LateDeletes
  <2>5. \A w \in Volumes : Serving(w)' /\ Built(w)'
    BY <2>1 DEF Inv, Serving, Built, nas, TypeOK, Idle
  <2> QED
    BY <2>2, <2>4, <2>5 DEF Inv
<1>11. ASSUME NEW r \in late, Deliver(r) PROVE Inv'
  <2>1. /\ late' = late \ {r} /\ UNCHANGED <<handler, phase, used>>
        /\ UNCHANGED nas \/ (Accepted(r) /\ Execute(r))
    BY <1>11 DEF Deliver
  <2>2. used["late"] # 0
    BY DEF Inv
  <2>3. \A w \in Volumes : Serving(w)'
    BY <2>1 DEF Inv, Serving
  <2>4. ASSUME NEW w \in Volumes PROVE Built(w)'
    <3>1. r \in RequestType
      BY DEF TypeOK
    <3>2. CASE r.call = "deleteDataset" /\ w = r.vol
      <4>1. phase[w] \in {"deleting", "gone"} /\ handler[w].rpc # "create"
        BY <3>2 DEF Inv, LateDeletes, Serving
      <4> QED
        BY <2>1, <4>1 DEF Built
    <3>3. CASE r.call # "deleteDataset" \/ w # r.vol
      <4>1. (w \in datasets => w \in datasets') /\ (w \in shares => w \in shares')
        BY <2>1, <3>1, <3>3, ExecuteChanges DEF nas, RequestType, TypeOK
      <4> QED
        BY <2>1, <4>1 DEF Inv, Built
    <3> QED
      BY <3>2, <3>3
  <2>5. LateDeletes'
    BY <2>1 DEF Inv, LateDeletes
  <2> QED
    BY <2>1, <2>2, <2>3, <2>4, <2>5 DEF Inv
<1>12. ASSUME Upgrade PROVE Inv'
  <2>1. used'["late"] = used["late"] /\ UNCHANGED <<datasets, shares, handler, phase, late>>
    BY <1>12 DEF Upgrade, Fault, FaultKinds, TypeOK
  <2> QED
    BY <2>1 DEF Inv, Serving, Built, Cleared, LateDeletes
<1>13. ASSUME UNCHANGED vars PROVE Inv'
  BY <1>13 DEF vars, Inv, Serving, Built, Cleared, LateDeletes
<1> QED
  BY <1>1, <1>2, <1>3, <1>4, <1>5, <1>6, <1>7, <1>8, <1>9, <1>10, <1>11, <1>12, <1>13
     DEF Next, Handle, Disturb

LEMMA Invariant == Spec => [](TypeOK /\ Inv)
BY TypeInit, TypeStep, InvInit, InvStep, PTL DEF Spec

(***************************************************************************)
(* A bound volume has its dataset and its share, whatever failed before,   *)
(* whatever requests are still under way and however the appliance lists   *)
(* its shares (nfs.go:163-175).                                            *)
(***************************************************************************)
THEOREM BoundAlwaysShared == Spec => []BoundIsShared
<1>1. TypeOK /\ Inv => BoundIsShared
  BY DEF TypeOK, Inv, Built, BoundIsShared
<1> QED
  BY <1>1, Invariant, PTL

-----------------------------------------------------------------------------
(***************************************************************************)
(* What a handler looked up is still so when it calls.  This is no part of *)
(* Inv: it holds only until a request is late.                             *)
(***************************************************************************)
Looked(v) ==
  /\ At(v, "createDataset") => v \notin datasets
  /\ At(v, "createShare") \/ At(v, "createShareLegacy") => v \notin shares
  /\ At(v, "deleteDataset") => v \in datasets
LooksInv == used["late"] = 0 => \A v \in Volumes : Looked(v)

LEMMA LooksInit == Init => LooksInv
BY DEF Init, LooksInv, Looked, At, Idle

\* Until then only its own handler changes a volume.
LEMMA OwnSteps ==
  ASSUME TypeOK, Inv, [Next]_vars, used'["late"] = 0, NEW v \in Volumes
  PROVE  /\ used["late"] = 0
         /\ Unmoved(v) \/ Provision(v) \/ Handle(v) \/ handler'[v].pc \in Answers
<1>1. ASSUME NEW w \in Volumes, AbandonLate(w) PROVE FALSE
  BY <1>1 DEF AbandonLate, Fault, TypeOK, FaultKinds
<1>2. ASSUME NEW f \in FaultKinds \ {"late"}, Fault(f) PROVE used'["late"] = used["late"]
  BY <1>2 DEF Fault, TypeOK, FaultKinds
<1>3. used["late"] = 0
  <2>1. used'["late"] = used["late"] \/ UNCHANGED used
    BY <1>1, <1>2 DEF Next, Disturb, RejectCall, LoseReply, Abandon, Upgrade, FaultKinds,
                      Provision, CreateVolume, RetryCreateVolume, DeleteVolume, RetryDeleteVolume, Start,
                      Handle, LookForDataset, LookForShare, Call, Refused, Reply, ReplyError, Finish,
                      Deliver, vars
  <2> QED
    BY <2>1
<1>4. \A r \in late : ~Deliver(r)
  BY <1>3 DEF Inv
<1>5. ASSUME NEW w \in Volumes, w # v, Provision(w) \/ (Handle(w) /\ ~Call(w)) \/ RejectCall(w)
      PROVE  Unmoved(v)
  BY <1>5 DEF Provision, CreateVolume, RetryCreateVolume, DeleteVolume, RetryDeleteVolume, Start,
              Handle, LookForDataset, LookForShare, Refused, Reply, ReplyError, Finish, RejectCall,
              Goto, Unmoved, nas, TypeOK
<1>6. ASSUME NEW w \in Volumes, w # v, Call(w) \/ LoseReply(w) \/ Abandon(w) PROVE Unmoved(v)
  <2>1. /\ v \in datasets' <=> v \in datasets
        /\ v \in shares' <=> v \in shares
    BY <1>6, ExecuteChanges, RequestTyped DEF Call, LoseReply, Abandon, nas
  <2> QED
    BY <1>6, <2>1 DEF Call, LoseReply, Abandon, Goto, Unmoved, TypeOK
<1>7. ASSUME RejectCall(v) \/ LoseReply(v) \/ Abandon(v) PROVE handler'[v].pc \in Answers
  <2>1. Goto(v, "error") \/ handler' = [handler EXCEPT ![v] = Idle]
    BY <1>7 DEF RejectCall, LoseReply, Abandon
  <2> QED
    BY <2>1 DEF Goto, Answers, Idle, TypeOK, HandlerType
<1>8. ASSUME Upgrade \/ UNCHANGED vars PROVE Unmoved(v)
  BY <1>8 DEF Upgrade, vars, Unmoved
<1> QED
  BY <1>1, <1>3, <1>4, <1>5, <1>6, <1>7, <1>8 DEF Next, Disturb

LEMMA HandleLooks ==
  ASSUME TypeOK, NEW v \in Volumes, Looked(v), Handle(v)
  PROVE  Looked(v)'
<1>1. CASE LookForDataset(v)
  <2>1. handler'[v].rpc = handler[v].rpc /\ handler'[v].pc = AfterLookup(handler[v].rpc, FindDataset(v))
    BY <1>1, MovesOn DEF LookForDataset
  <2> QED
    BY <1>1, <2>1 DEF LookForDataset, AfterLookup, FindDataset, Looked, At, nas, TypeOK, HandlerType, Idle
<1>2. CASE LookForShare(v)
  <2>1. handler'[v].rpc = handler[v].rpc /\ handler'[v].pc = IF FindNFSShare(v) THEN "reply" ELSE "createShare"
    BY <1>2, MovesOn DEF LookForShare
  <2> QED
    BY <1>2, <2>1, FoundIsShared DEF LookForShare, Looked, At, nas
<1>3. CASE Call(v)
  <2>1. handler'[v].pc \in {"findShare", "reply"}
    BY <1>3 DEF Call, InCall, Goto, TypeOK, HandlerType, Idle
  <2> QED
    BY <2>1 DEF Looked, At
<1>4. CASE Refused(v)
  <2>1. handler'[v].rpc = handler[v].rpc /\ handler'[v].pc = AfterRefusal(handler[v].pc)
    BY <1>4, MovesOn DEF Refused
  <2> QED
    BY <1>4, <2>1 DEF Refused, AfterRefusal, Looked, At, nas
<1>5. CASE Reply(v) \/ ReplyError(v)
  BY <1>5 DEF Reply, ReplyError, Finish, Looked, At, Idle, TypeOK
<1> QED
  BY <1>1, <1>2, <1>3, <1>4, <1>5 DEF Handle

LEMMA LooksStep == TypeOK /\ Inv /\ LooksInv /\ [Next]_vars => LooksInv'
<1> SUFFICES ASSUME TypeOK, Inv, LooksInv, [Next]_vars, used'["late"] = 0, NEW v \in Volumes
             PROVE  Looked(v)'
  BY DEF LooksInv
<1>1. Looked(v)
  BY OwnSteps DEF LooksInv
<1>2. CASE Unmoved(v)
  BY <1>1, <1>2 DEF Unmoved, Looked, At
<1>3. CASE Provision(v)
  BY <1>3 DEF Provision, CreateVolume, RetryCreateVolume, DeleteVolume, RetryDeleteVolume, Start, Looked, At, TypeOK
<1>4. CASE Handle(v)
  BY <1>1, <1>4, HandleLooks
<1>5. CASE handler'[v].pc \in Answers
  BY <1>5 DEF Answers, Looked, At
<1> QED
  BY <1>2, <1>3, <1>4, <1>5, OwnSteps

(***************************************************************************)
(* Until a request is late, TrueNAS refuses a handler nothing but a share  *)
(* in the form that it does not take, also when earlier attempts lost      *)
(* their replies and the appliance was upgraded since (nfs.go:122-161).    *)
(***************************************************************************)
THEOREM OnlyFormRefused == Spec => []RefusedForItsForm
<1>1. ASSUME TypeOK, Inv, NEW v \in Volumes, Looked(v), InCall(v), ~Accepted(Request(v))
      PROVE  OtherForm(v)
  <2>1. handler[v].pc \in Calls /\ \A pc \in Calls : At(v, pc) <=> handler[v].pc = pc
    BY <1>1 DEF InCall, At
  <2>2. Request(v).call = handler[v].pc /\ Request(v).vol = v
    BY DEF Request
  <2>3. handler[v].pc \in {"createShare", "createShareLegacy"} => v \in datasets
    BY <1>1, RequestTyped DEF Inv, Built
  <2> QED
    BY <1>1, <2>1, <2>2, <2>3 DEF Accepted, Looked, OtherForm, At, Calls, TypeOK
<1>2. TypeOK /\ Inv /\ LooksInv => RefusedForItsForm
  BY <1>1 DEF LooksInv, RefusedForItsForm
<1> QED
  BY <1>2, Invariant, LooksInit, LooksStep, PTL DEF Spec

-----------------------------------------------------------------------------
(***************************************************************************)
(* Every RPC ends: each step of a handler, or fault, brings it nearer to   *)
(* its answer.                                                             *)
(***************************************************************************)

\* How many steps a handler has left at most.
LeftAt == [ findDataset |-> 6, createDataset |-> 5, findShare |-> 4, createShare |-> 3,
            createShareLegacy |-> 2, deleteDataset |-> 2, reply |-> 1, error |-> 1 ]
Left(h) == IF h.rpc = "idle" THEN 0 ELSE LeftAt[h.pc]

LEMMA LeftValues ==
  /\ LeftAt["findDataset"] = 6 /\ LeftAt["createDataset"] = 5 /\ LeftAt["findShare"] = 4
  /\ LeftAt["createShare"] = 3 /\ LeftAt["createShareLegacy"] = 2 /\ LeftAt["deleteDataset"] = 2
  /\ LeftAt["reply"] = 1 /\ LeftAt["error"] = 1
BY DEF LeftAt

LEMMA LeftRange ==
  ASSUME TypeOK, NEW v \in Volumes
  PROVE  /\ Left(handler[v]) \in 0..6
         /\ Left(handler[v]) = 0 <=> handler[v].rpc = "idle"
BY LeftValues DEF TypeOK, HandlerType, Idle, Left, CreateSteps, DeleteSteps, Answers

\* A handler's own step takes it on.
LEMMA HandleFalls ==
  ASSUME TypeOK, NEW v \in Volumes, Handle(v)
  PROVE  Left(handler'[v]) < Left(handler[v])
<1>1. ASSUME NEW pc, Goto(v, pc), handler[v].rpc # "idle" PROVE Left(handler'[v]) = LeftAt[pc]
  BY <1>1 DEF TypeOK, Goto, Left, HandlerType, Idle
<1> USE LeftValues DEF Left, At
<1>2. CASE LookForDataset(v)
  BY <1>1, <1>2 DEF LookForDataset, AfterLookup, TypeOK, HandlerType, Idle
<1>3. CASE LookForShare(v)
  BY <1>1, <1>3 DEF LookForShare
<1>4. CASE Call(v)
  BY <1>1, <1>4 DEF Call, InCall, Calls
<1>5. CASE Refused(v)
  BY <1>1, <1>5 DEF Refused, InCall, Calls, AfterRefusal
<1>6. CASE Reply(v) \/ ReplyError(v)
  BY <1>6 DEF Reply, ReplyError, Finish, TypeOK, Idle
<1> QED
  BY <1>2, <1>3, <1>4, <1>5, <1>6 DEF Handle

\* A fault ends it, or leaves only the answer; other steps leave it as it is.
LEMMA NothingRises ==
  ASSUME TypeOK, [Next]_vars, NEW v \in Volumes, handler[v].rpc # "idle"
  PROVE  handler'[v] = handler[v] \/ Left(handler'[v]) < Left(handler[v])
<1>1. ASSUME NEW w \in Volumes, Handle(w) PROVE handler'[v] = handler[v] \/ w = v
  BY <1>1 DEF Handle, LookForDataset, LookForShare, Call, Refused, Reply, ReplyError, Goto, Finish, TypeOK
<1>2. ASSUME NEW w \in Volumes, Provision(w) PROVE handler'[v] = handler[v]
  BY <1>2 DEF Provision, CreateVolume, RetryCreateVolume, DeleteVolume, RetryDeleteVolume, Start, TypeOK
<1>3. ASSUME NEW w \in Volumes, w # v, Disturb(w) PROVE handler'[v] = handler[v]
  BY <1>3 DEF Disturb, RejectCall, LoseReply, Abandon, AbandonLate, Goto, TypeOK
<1>4. CASE Disturb(v)
  <2>1. CASE RejectCall(v) \/ LoseReply(v)
    BY <2>1, LeftValues DEF RejectCall, LoseReply, At, InCall, Calls, Goto, TypeOK, HandlerType, Idle, Left
  <2>2. CASE Abandon(v) \/ AbandonLate(v)
    <3>1. handler'[v] = Idle
      BY <2>2 DEF Abandon, AbandonLate, TypeOK
    <3>2. Left(Idle) = 0
      BY DEF Left, Idle
    <3> QED
      BY <3>1, <3>2, LeftRange
  <2> QED
    BY <1>4, <2>1, <2>2 DEF Disturb
<1>5. ASSUME NEW r \in late, Deliver(r) PROVE handler'[v] = handler[v]
  BY <1>5 DEF Deliver
<1>6. CASE Upgrade \/ UNCHANGED vars
  BY <1>6 DEF Upgrade, vars
<1> QED
  BY <1>1, <1>2, <1>3, <1>4, <1>5, <1>6, HandleFalls DEF Next

\* A handler that has not answered has a next step, and an idle one can be retried.
GoesOn(v) ==
  /\ handler[v].rpc # "idle" => ENABLED <<Handle(v)>>_vars
  /\ handler[v].rpc = "idle" /\ phase[v] \in {"creating", "failed"} => ENABLED <<RetryCreateVolume(v)>>_vars
  /\ handler[v].rpc = "idle" /\ phase[v] = "deleting" => ENABLED <<RetryDeleteVolume(v)>>_vars

\* So a handler with n steps left has less at some time.
Falls(v, n) ==
  Spec /\ WF_vars(Handle(v)) /\ []GoesOn(v) => [](Left(handler[v]) = n => <>(Left(handler[v]) < n))

LEMMA LeftFalls == ASSUME NEW v \in Volumes, NEW n \in 1..6 PROVE Falls(v, n)
<1>1. TypeOK /\ [Next]_vars /\ Left(handler[v]) = n => (Left(handler[v]) = n)' \/ (Left(handler[v]) < n)'
  BY NothingRises, LeftRange
<1>2. TypeOK /\ <<Handle(v)>>_vars /\ Left(handler[v]) = n => (Left(handler[v]) < n)'
  BY HandleFalls
<1>3. TypeOK /\ Left(handler[v]) = n => handler[v].rpc # "idle"
  BY LeftRange
<1> QED
  BY <1>1, <1>2, <1>3, Invariant, PTL DEF Falls, GoesOn, Spec

Ends(v) == Spec /\ WF_vars(Handle(v)) /\ []GoesOn(v) => []<>(handler[v].rpc = "idle")

LEMMA RpcEnds == ASSUME NEW v \in Volumes PROVE Ends(v)
<1>1. Falls(v, 1) /\ Falls(v, 2) /\ Falls(v, 3) /\ Falls(v, 4) /\ Falls(v, 5) /\ Falls(v, 6)
  BY LeftFalls
<1> DEFINE L == Left(handler[v])
<1>2. TypeOK => /\ L = 1 \/ L = 2 \/ L = 3 \/ L = 4 \/ L = 5 \/ L = 6 \/ handler[v].rpc = "idle"
                /\ L < 1 => handler[v].rpc = "idle"
                /\ L < 2 => L = 1 \/ L < 1
                /\ L < 3 => L = 2 \/ L < 2
                /\ L < 4 => L = 3 \/ L < 3
                /\ L < 5 => L = 4 \/ L < 4
                /\ L < 6 => L = 5 \/ L < 5
  BY LeftRange
<1> QED
  BY <1>1, <1>2, Invariant, PTL DEF Falls, Ends

-----------------------------------------------------------------------------
(***************************************************************************)
(* When the steps are enabled.  A formula CanX holds when a guard of the   *)
(* actions that make up X does, and the step changes the handler.          *)
(* GuardsEnable, that such a step is enabled, is what ENABLED means of     *)
(* these actions; the provers cannot look into ENABLED, so it is a         *)
(* hypothesis.                                                             *)
(***************************************************************************)
Continues(v, pc) == pc # handler[v].pc
Begins(v, rpc)   == handler[v].rpc = "idle" /\ rpc # handler[v].rpc

CanHandle(v) ==
  \/ At(v, "findDataset") /\ Continues(v, AfterLookup(handler[v].rpc, FindDataset(v)))
  \/ At(v, "findShare") /\ Continues(v, IF FindNFSShare(v) THEN "reply" ELSE "createShare")
  \/ /\ InCall(v) /\ Accepted(Request(v))
     /\ Continues(v, IF At(v, "createDataset") THEN "findShare" ELSE "reply")
  \/ InCall(v) /\ ~Accepted(Request(v)) /\ Continues(v, AfterRefusal(handler[v].pc))
  \/ (At(v, "reply") \/ At(v, "error")) /\ handler[v] # Idle
CanRetryCreate(v) == phase[v] \in {"creating", "failed"} /\ Begins(v, "create")
CanRetryDelete(v) == phase[v] = "deleting" /\ Begins(v, "delete")

GuardsEnable ==
  \A v \in Volumes :
    /\ CanHandle(v) => ENABLED <<Handle(v)>>_vars
    /\ CanRetryCreate(v) => ENABLED <<RetryCreateVolume(v)>>_vars
    /\ CanRetryDelete(v) => ENABLED <<RetryDeleteVolume(v)>>_vars

AllGoOn == \A v \in Volumes : GoesOn(v)

\* Wherever a handler is, one of the guards holds and the step leads elsewhere.
LEMMA HandlersGoOn == Spec /\ []GuardsEnable => []AllGoOn
<1>1. ASSUME TypeOK, NEW v \in Volumes, handler[v].rpc # "idle" PROVE CanHandle(v)
  <2>1. handler[v].rpc \in {"create", "delete"}
    BY <1>1 DEF TypeOK, HandlerType, Idle
  <2>2. handler[v].pc \in {"findDataset", "findShare"} \cup Calls \cup Answers
    BY <1>1 DEF TypeOK, HandlerType, Idle, CreateSteps, DeleteSteps, Calls
  <2>3. handler[v].pc \in Calls => InCall(v)
    BY <1>1 DEF InCall
  <2> QED
    BY <1>1, <2>1, <2>2, <2>3
       DEF CanHandle, Continues, At, AfterLookup, AfterRefusal, Calls, Answers, Idle
<1>2. TypeOK /\ GuardsEnable => AllGoOn
  BY <1>1 DEF GuardsEnable, AllGoOn, GoesOn, CanRetryCreate, CanRetryDelete, Begins
<1> QED
  BY <1>2, TypeCorrect, PTL

(***************************************************************************)
(* So every CreateVolume and DeleteVolume comes to an end (nfs.go:68-204), *)
(* also one that is refused or loses replies, for ever again: neither the  *)
(* fallback from one form of a request to the other nor the answers of     *)
(* TrueNAS let it go round in circles.                                     *)
(***************************************************************************)
THEOREM EveryRpcEnds ==
  FairSpec /\ []GuardsEnable => \A v \in Volumes : []<>(handler[v].rpc = "idle")
<1>1. ASSUME NEW v \in Volumes PROVE FairSpec /\ []GuardsEnable => []<>(handler[v].rpc = "idle")
  <2>1. AllGoOn => GoesOn(v)
    BY DEF AllGoOn
  <2>2. Fairness => FairTo(v)
    BY DEF Fairness
  <2>3. Ends(v)
    BY RpcEnds
  <2> QED
    BY <2>1, <2>2, <2>3, HandlersGoOn, PTL DEF FairSpec, FairTo, Ends
<1> QED
  BY <1>1

-----------------------------------------------------------------------------
(***************************************************************************)
(* When nothing goes wrong any more, an attempt gets through: what a       *)
(* CreateVolume has not found is not there when it makes it, so TrueNAS    *)
(* refuses nothing but the newer form of a share, and no retry is needed   *)
(* after the next one.                                                     *)
(***************************************************************************)

\* Without faults, a volume moves only by its own handler and by the provisioner.
LEMMA CalmSteps ==
  ASSUME TypeOK, [Next]_vars, UNCHANGED <<used, late>>, NEW v \in Volumes
  PROVE  (Unmoved(v) /\ field' = field) \/ Provision(v) \/ Handle(v)
<1>1. \A f \in FaultKinds : ~Fault(f)
  BY DEF Fault, TypeOK
<1>2. ~Upgrade /\ \A w \in Volumes : ~Disturb(w)
  BY <1>1 DEF FaultKinds, Upgrade, Disturb, RejectCall, LoseReply, Abandon, AbandonLate
<1>3. \A r \in late : ~Deliver(r)
  BY DEF Deliver
<1>4. ASSUME NEW w \in Volumes, w # v, Provision(w) PROVE Unmoved(v) /\ field' = field
  BY <1>4 DEF Provision, CreateVolume, RetryCreateVolume, DeleteVolume, RetryDeleteVolume, Start, Unmoved, nas, TypeOK
<1>5. ASSUME NEW w \in Volumes, w # v, Call(w) PROVE Unmoved(v) /\ field' = field
  <2>1. /\ v \in datasets' <=> v \in datasets
        /\ v \in shares' <=> v \in shares
        /\ field' = field
    BY <1>5, ExecuteChanges, RequestTyped DEF Call
  <2> QED
    BY <1>5, <2>1 DEF Call, Goto, Unmoved, TypeOK
<1>6. ASSUME NEW w \in Volumes, w # v, Handle(w), ~Call(w) PROVE Unmoved(v) /\ field' = field
  BY <1>6 DEF Handle, LookForDataset, LookForShare, Refused, Reply, ReplyError, Goto, Finish, Unmoved, nas, TypeOK
<1>7. CASE UNCHANGED vars
  BY <1>7 DEF vars, Unmoved
<1> QED
  BY <1>2, <1>3, <1>4, <1>5, <1>6, <1>7 DEF Next

\* A CreateVolume that was not disturbed: it makes what is missing.
Trying(v) ==
  /\ handler[v].rpc = "create" /\ handler[v].pc # "error"
  /\ handler[v].pc = "createDataset" => v \notin datasets
  /\ handler[v].pc \in {"createShare", "createShareLegacy"} => v \notin shares
  /\ handler[v].pc = "createShareLegacy" => field = "paths"

\* A DeleteVolume likewise.
Clearing(v) ==
  /\ handler[v].rpc = "delete" /\ handler[v].pc # "error"
  /\ handler[v].pc = "deleteDataset" => v \in datasets

Waits(v, phases) == handler[v].rpc = "idle" /\ phase[v] \in phases

LEMMA UnmovedKeeps ==
  ASSUME NEW v \in Volumes, Unmoved(v), field' = field
  PROVE  /\ Trying(v) => Trying(v)'
         /\ Clearing(v) => Clearing(v)'
         /\ \A phases : Waits(v, phases) => Waits(v, phases)'
BY DEF Unmoved, Trying, Clearing, Waits

LEMMA TryingGoesOn ==
  ASSUME TypeOK, Inv, NEW v \in Volumes, Trying(v), Handle(v)
  PROVE  Trying(v)' \/ (phase[v] = "bound")'
<1>1. /\ handler[v].rpc = "create" /\ v \in Volumes
      /\ \A pc : Goto(v, pc) => handler'[v].rpc = "create" /\ handler'[v].pc = pc
  BY DEF Trying, Goto, TypeOK, HandlerType, Idle
<1>2. CASE LookForDataset(v)
  <2>1. datasets' = datasets /\ handler'[v].rpc = "create"
        /\ handler'[v].pc = IF v \in datasets THEN "findShare" ELSE "createDataset"
    BY <1>1, <1>2 DEF LookForDataset, AfterLookup, FindDataset, nas
  <2> QED
    BY <2>1 DEF Trying
<1>3. CASE LookForShare(v)
  <2>1. shares' = shares /\ handler'[v].rpc = "create"
        /\ handler'[v].pc = IF v \in shares THEN "reply" ELSE "createShare"
    BY <1>1, <1>3, FoundIsShared DEF LookForShare, nas
  <2> QED
    BY <2>1 DEF Trying
<1>4. CASE Call(v)
  BY <1>1, <1>4 DEF Call, Trying
<1>5. CASE Refused(v)
  <2>1. /\ handler[v].pc \in Calls /\ ~Accepted(Request(v)) /\ handler[v].pc # "deleteDataset"
        /\ Request(v).call = handler[v].pc /\ Request(v).vol = v
    BY <1>1, <1>5, RequestTyped DEF Refused, InCall
  <2>2. handler[v].pc \in {"createShare", "createShareLegacy"} => v \in datasets
    BY <1>1 DEF Inv, Built
  <2>3. handler[v].pc = "createShare" /\ field = "paths"
    BY <2>1, <2>2 DEF Trying, Accepted, Calls, TypeOK
  <2>4. handler'[v].rpc = "create" /\ handler'[v].pc = "createShareLegacy" /\ shares' = shares /\ field' = field
    BY <1>1, <1>5, <2>3 DEF Refused, AfterRefusal, nas
  <2> QED
    BY <2>3, <2>4 DEF Trying
<1>6. CASE Reply(v)
  BY <1>1, <1>6 DEF Reply, Finish, TypeOK
<1>7. CASE ReplyError(v)
  BY <1>7 DEF ReplyError, At, Trying
<1> QED
  BY <1>2, <1>3, <1>4, <1>5, <1>6, <1>7 DEF Handle

LEMMA ClearingGoesOn ==
  ASSUME TypeOK, NEW v \in Volumes, Clearing(v), Handle(v)
  PROVE  Clearing(v)' \/ (phase[v] = "gone")'
<1>1. /\ handler[v].rpc = "delete" /\ handler[v].pc \in DeleteSteps \cup Answers
      /\ \A pc : Goto(v, pc) => handler'[v].rpc = "delete" /\ handler'[v].pc = pc
  BY DEF Clearing, Goto, TypeOK, HandlerType, Idle
<1>2. CASE LookForDataset(v)
  <2>1. datasets' = datasets /\ handler'[v].rpc = "delete"
        /\ handler'[v].pc = IF v \in datasets THEN "deleteDataset" ELSE "reply"
    BY <1>1, <1>2 DEF LookForDataset, AfterLookup, FindDataset, nas
  <2> QED
    BY <2>1 DEF Clearing
<1>3. CASE Call(v)
  <2>1. handler[v].pc = "deleteDataset"
    BY <1>1, <1>3 DEF Call, InCall, Calls, DeleteSteps, Answers
  <2> QED
    BY <1>1, <1>3, <2>1 DEF Call, At, Clearing
<1>4. CASE Refused(v)
  <2>1. handler[v].pc = "deleteDataset" /\ ~Accepted(Request(v))
    BY <1>1, <1>4 DEF Refused, InCall, Calls, DeleteSteps, Answers
  <2>2. Request(v).call = "deleteDataset" /\ Request(v).vol = v
    BY <2>1 DEF Request
  <2> QED
    BY <2>1, <2>2 DEF Clearing, Accepted
<1>5. CASE Reply(v)
  BY <1>1, <1>5 DEF Reply, Finish, TypeOK
<1>6. CASE LookForShare(v) \/ ReplyError(v)
  BY <1>1, <1>6 DEF LookForShare, ReplyError, At, Clearing, DeleteSteps, Answers
<1> QED
  BY <1>2, <1>3, <1>4, <1>5, <1>6 DEF Handle

\* A retry of the provisioner begins an attempt.
LEMMA RetryTries ==
  ASSUME TypeOK, NEW v \in Volumes
  PROVE  /\ RetryCreateVolume(v) => Trying(v)'
         /\ RetryDeleteVolume(v) => Clearing(v)'
         /\ Provision(v) /\ phase[v] \in {"creating", "failed"} => Trying(v)'
         /\ Provision(v) /\ phase[v] = "deleting" => Clearing(v)'
         /\ Provision(v) => handler[v].rpc = "idle"
<1>1. ASSUME NEW rpc, NEW p, Start(v, rpc, p)
      PROVE  handler[v].rpc = "idle" /\ handler'[v].rpc = rpc /\ handler'[v].pc = "findDataset"
  BY <1>1 DEF Start, TypeOK
<1> QED
  BY <1>1 DEF Provision, CreateVolume, RetryCreateVolume, DeleteVolume, RetryDeleteVolume, Trying, Clearing

Creates(v) == phase[v] \in {"creating", "failed"}
Deletes(v) == phase[v] = "deleting"

LEMMA PhaseKept ==
  ASSUME TypeOK, Inv, [Next]_vars, NEW v \in Volumes
  PROVE  /\ Creates(v) => Creates(v)' \/ (phase[v] = "bound")'
         /\ Deletes(v) => Deletes(v)' \/ (phase[v] = "gone")'
<1>1. ASSUME NEW w \in Volumes, w # v, Provision(w) \/ Handle(w) PROVE phase'[v] = phase[v]
  BY <1>1 DEF Provision, CreateVolume, RetryCreateVolume, DeleteVolume, RetryDeleteVolume, Start, Handle,
              LookForDataset, LookForShare, Call, Refused, Reply, ReplyError, Finish, TypeOK
<1>2. ASSUME Provision(v)
      PROVE  \/ phase[v] \in {"absent", "creating", "failed"} /\ phase'[v] = "creating"
             \/ phase[v] \in {"bound", "deleting"} /\ phase'[v] = "deleting"
  BY <1>2 DEF Provision, CreateVolume, RetryCreateVolume, DeleteVolume, RetryDeleteVolume, Start, TypeOK
<1>3. ASSUME Handle(v)
      PROVE  \/ phase'[v] = phase[v]
             \/ handler[v].rpc = "create" /\ phase'[v] \in {"bound", "failed"}
             \/ handler[v].rpc = "delete" /\ phase'[v] \in {"gone", "deleting"}
  <2>1. handler[v].rpc \in {"idle", "create", "delete"}
    BY DEF TypeOK, HandlerType, Idle
  <2> QED
    BY <1>3, <2>1 DEF Handle, LookForDataset, LookForShare, Call, Refused, Reply, ReplyError, Finish, At, TypeOK
<1>4. /\ handler[v].rpc = "create" => phase[v] = "creating"
      /\ handler[v].rpc = "delete" => phase[v] = "deleting"
  BY DEF Inv, Serving
<1>5. ASSUME NEW w \in Volumes, Disturb(w) PROVE phase'[v] = phase[v]
  BY <1>5 DEF Disturb, RejectCall, LoseReply, Abandon, AbandonLate
<1>6. ASSUME Upgrade \/ (\E r \in late : Deliver(r)) \/ UNCHANGED vars PROVE phase'[v] = phase[v]
  BY <1>6 DEF Upgrade, Deliver, vars
<1>7. phase'[v] = phase[v] \/ Provision(v) \/ Handle(v)
  BY <1>1, <1>5, <1>6 DEF Next
<1> QED
  BY <1>2, <1>3, <1>4, <1>7 DEF Creates, Deletes

\* Between faults an attempt, once begun, is not disturbed, and only an attempt ends the wait for one.
LEMMA CalmCreates ==
  ASSUME TypeOK, Inv, [Next]_vars, UNCHANGED <<used, late>>, NEW v \in Volumes
  PROVE  /\ Trying(v) => Trying(v)' \/ (phase[v] = "bound")'
         /\ Creates(v) /\ handler[v].rpc = "idle" => (handler[v].rpc = "idle")' \/ Trying(v)'
<1>1. CASE Unmoved(v) /\ field' = field
  BY <1>1, UnmovedKeeps DEF Unmoved
<1>2. CASE Provision(v)
  BY <1>2, RetryTries DEF Trying, Creates
<1>3. CASE Handle(v)
  <2>1. handler[v].rpc # "idle"
    BY <1>3 DEF Handle, LookForDataset, LookForShare, Call, Refused, Reply, ReplyError, At, InCall
  <2> QED
    BY <1>3, <2>1, TryingGoesOn
<1> QED
  BY <1>1, <1>2, <1>3, CalmSteps

LEMMA CalmDeletes ==
  ASSUME TypeOK, [Next]_vars, UNCHANGED <<used, late>>, NEW v \in Volumes
  PROVE  /\ Clearing(v) => Clearing(v)' \/ (phase[v] = "gone")'
         /\ Deletes(v) /\ handler[v].rpc = "idle" => (handler[v].rpc = "idle")' \/ Clearing(v)'
<1>1. CASE Unmoved(v) /\ field' = field
  BY <1>1, UnmovedKeeps DEF Unmoved
<1>2. CASE Provision(v)
  BY <1>2, RetryTries DEF Clearing, Deletes
<1>3. CASE Handle(v)
  <2>1. handler[v].rpc # "idle"
    BY <1>3 DEF Handle, LookForDataset, LookForShare, Call, Refused, Reply, ReplyError, At, InCall
  <2> QED
    BY <1>3, <2>1, ClearingGoesOn
<1> QED
  BY <1>1, <1>2, <1>3, CalmSteps

(***************************************************************************)
(* When faults stop, every volume that is being created gets bound         *)
(* (nfs.go:68-176), for any number of volumes, whatever the faults before  *)
(* left: if every handler that has a next step takes it and the            *)
(* provisioner's retries do not stop.                                      *)
(***************************************************************************)
THEOREM CreateAlwaysConverges == FairSpec /\ []GuardsEnable /\ FaultsEnd => CreateConverges
<1>1. ASSUME NEW v \in Volumes
      PROVE  Spec /\ FairTo(v) /\ []AllGoOn /\ FaultsEnd => GetsBound(v)
  <2>1. AllGoOn => GoesOn(v)
    BY DEF AllGoOn
  <2>2. Ends(v)
    BY RpcEnds
  <2>3. TypeOK /\ Inv /\ [Next]_vars => (Creates(v) => Creates(v)' \/ (phase[v] = "bound")')
    BY PhaseKept
  <2>4. TypeOK /\ Inv /\ [Next]_vars /\ [UNCHANGED <<used, late>>]_vars
          => /\ Trying(v) => Trying(v)' \/ (phase[v] = "bound")'
             /\ Creates(v) /\ handler[v].rpc = "idle" => (handler[v].rpc = "idle")' \/ Trying(v)'
    BY CalmCreates DEF vars
  <2>5. TypeOK /\ <<RetryCreateVolume(v)>>_vars => Trying(v)'
    BY RetryTries
  <2>6. Trying(v) => ~(handler[v].rpc = "idle")
    BY DEF Trying
  <2>7. Creates(v) <=> phase[v] \in {"creating", "failed"}
    BY DEF Creates
  <2> QED
    BY <2>1, <2>2, <2>3, <2>4, <2>5, <2>6, <2>7, Invariant, PTL
       DEF Spec, FairTo, Ends, GoesOn, FaultsEnd, GetsBound
<1>2. FairSpec /\ []AllGoOn /\ FaultsEnd => CreateConverges
  BY <1>1 DEF FairSpec, Fairness, CreateConverges
<1> QED
  BY <1>2, HandlersGoOn, PTL DEF FairSpec

(***************************************************************************)
(* And every volume that is being deleted goes (nfs.go:178-204).           *)
(***************************************************************************)
THEOREM DeleteAlwaysConverges == FairSpec /\ []GuardsEnable /\ FaultsEnd => DeleteConverges
<1>1. ASSUME NEW v \in Volumes
      PROVE  Spec /\ FairTo(v) /\ []AllGoOn /\ FaultsEnd => GetsGone(v)
  <2>1. AllGoOn => GoesOn(v)
    BY DEF AllGoOn
  <2>2. Ends(v)
    BY RpcEnds
  <2>3. TypeOK /\ Inv /\ [Next]_vars => (Deletes(v) => Deletes(v)' \/ (phase[v] = "gone")')
    BY PhaseKept
  <2>4. TypeOK /\ Inv /\ [Next]_vars /\ [UNCHANGED <<used, late>>]_vars
          => /\ Clearing(v) => Clearing(v)' \/ (phase[v] = "gone")'
             /\ Deletes(v) /\ handler[v].rpc = "idle" => (handler[v].rpc = "idle")' \/ Clearing(v)'
    BY CalmDeletes DEF vars
  <2>5. TypeOK /\ <<RetryDeleteVolume(v)>>_vars => Clearing(v)'
    BY RetryTries
  <2>6. Clearing(v) => ~(handler[v].rpc = "idle")
    BY DEF Clearing
  <2>7. Deletes(v) <=> phase[v] = "deleting"
    BY DEF Deletes
  <2> QED
    BY <2>1, <2>2, <2>3, <2>4, <2>5, <2>6, <2>7, Invariant, PTL
       DEF Spec, FairTo, Ends, GoesOn, FaultsEnd, GetsGone
<1>2. FairSpec /\ []AllGoOn /\ FaultsEnd => DeleteConverges
  BY <1>1 DEF FairSpec, Fairness, DeleteConverges
<1> QED
  BY <1>2, HandlersGoOn, PTL DEF FairSpec

(***************************************************************************)
(* Both together: retries get through, whatever is left in their way.      *)
(***************************************************************************)
THEOREM AlwaysConverges == FairSpec /\ []GuardsEnable /\ FaultsEnd => Converges
BY CreateAlwaysConverges, DeleteAlwaysConverges DEF Converges

-----------------------------------------------------------------------------
(***************************************************************************)
(* The handlers implement VolumeLifecycle.                                 *)
(***************************************************************************)
LEMMA LifecycleInit == Init => Lifecycle!Init
BY DEF Init, Lifecycle!Init, Backing

\* A step of the abstract lifecycle, or none, seen through Backing.
Progress == Lifecycle!Next \/ UNCHANGED <<phase, [v \in Volumes |-> Backing(v)]>>

LEMMA NothingBacked ==
  ASSUME datasets' = datasets, shares' = shares, phase' = phase
  PROVE  Progress
BY DEF Progress, Backing

\* What the provisioner learns, TrueNAS being as it was.
LEMMA PhaseProgress ==
  ASSUME TypeOK, NEW v \in Volumes, NEW p, UNCHANGED <<datasets, shares>>,
         phase' = [phase EXCEPT ![v] = p],
         \/ phase[v] \in {"absent", "creating", "failed"} /\ p = "creating"
         \/ phase[v] = "creating" /\ p = "failed"
         \/ phase[v] = "creating" /\ v \in shares /\ p = "bound"
         \/ phase[v] \in {"bound", "deleting"} /\ p = "deleting"
         \/ phase[v] = "deleting" /\ v \notin datasets /\ p = "gone"
  PROVE  Progress
<1>1. UNCHANGED [w \in Volumes |-> Backing(w)]
  BY DEF Backing
<1>2. v \in shares => [w \in Volumes |-> Backing(w)][v] = "whole"
  BY DEF Backing, TypeOK
<1>3. v \notin datasets => [w \in Volumes |-> Backing(w)][v] = "none"
  BY DEF Backing, TypeOK
<1>4. \/ Lifecycle!Create(v) \/ Lifecycle!CreateFailed(v) \/ Lifecycle!Created(v)
      \/ Lifecycle!Delete(v) \/ Lifecycle!Deleted(v)
  BY <1>1, <1>2, <1>3
     DEF Lifecycle!Create, Lifecycle!CreateFailed, Lifecycle!Created, Lifecycle!Delete,
         Lifecycle!Deleted, Lifecycle!Enter
<1> QED
  BY <1>4 DEF Progress, Lifecycle!Next

\* A handler's call builds the volume in CreateVolume and dismantles it in DeleteVolume.
LEMMA CallProgress ==
  ASSUME TypeOK, Inv, NEW v \in Volumes, InCall(v),
         Accepted(Request(v)), Execute(Request(v)), UNCHANGED phase
  PROVE  Progress
<1> DEFINE backing == [w \in Volumes |-> Backing(w)]
<1>1. \A w \in Volumes : w # v => Backing(w)' = Backing(w)
  BY RequestTyped, ExecuteChanges DEF Backing
<1>2. Backing(v)' \in {"none", "partial", "whole"}
  BY DEF Backing
<1>3. backing' = [backing EXCEPT ![v] = Backing(v)']
  BY <1>1
<1>4. CASE handler[v].rpc = "create"
  <2>1. phase[v] = "creating"
    BY <1>4 DEF Inv, Serving
  <2>2. Lifecycle!Build(v)
    BY <1>2, <1>3, <2>1 DEF Lifecycle!Build, Lifecycle!Backings
  <2> QED
    BY <2>2 DEF Progress, Lifecycle!Next
<1>5. CASE handler[v].rpc = "delete"
  <2>1. phase[v] = "deleting"
    BY <1>5 DEF Inv, Serving
  <2>2. v \notin datasets' /\ v \notin shares'
    BY <1>5, RequestTyped, ExecuteChanges
  <2>3. Backing(v)' = "none"
    BY <2>2 DEF Backing
  <2>4. Lifecycle!Dismantle(v)
    BY <1>3, <2>1, <2>3 DEF Lifecycle!Dismantle
  <2> QED
    BY <2>4 DEF Progress, Lifecycle!Next
<1> QED
  BY <1>4, <1>5, RequestTyped

LEMMA LifecycleStep == TypeOK /\ Inv /\ [Next]_vars => (used'["late"] = 0 => Progress)
<1> SUFFICES ASSUME TypeOK, Inv, [Next]_vars, used'["late"] = 0 PROVE Progress
  OBVIOUS
<1>1. ASSUME NEW v \in Volumes, Provision(v) PROVE Progress
  BY <1>1, PhaseProgress
     DEF Provision, CreateVolume, RetryCreateVolume, DeleteVolume, RetryDeleteVolume, Start, nas
<1>2. ASSUME NEW v \in Volumes, LookForDataset(v) \/ LookForShare(v) \/ Refused(v) \/ RejectCall(v)
      PROVE  Progress
  BY <1>2, NothingBacked DEF LookForDataset, LookForShare, Refused, RejectCall, nas
<1>3. ASSUME NEW v \in Volumes, Call(v) \/ LoseReply(v) PROVE Progress
  BY <1>3, CallProgress DEF Call, LoseReply
<1>4. ASSUME NEW v \in Volumes, Reply(v) PROVE Progress
  <2>1. used["late"] = 0
    BY <1>4 DEF Reply, Finish
  <2>2. handler[v].rpc \in {"create", "delete"} /\ handler[v].pc = "reply"
    BY <1>4 DEF Reply, At, TypeOK, HandlerType, Idle
  <2>3. CASE handler[v].rpc = "create"
    <3>1. phase[v] = "creating" /\ v \in shares
      BY <2>2, <2>3 DEF Inv, Serving, Built
    <3> QED
      BY <1>4, <2>3, <3>1, PhaseProgress DEF Reply, Finish, nas
  <2>4. CASE handler[v].rpc = "delete"
    <3>1. phase[v] = "deleting" /\ v \notin datasets
      BY <2>1, <2>2, <2>4 DEF Inv, Serving, Cleared
    <3> QED
      BY <1>4, <2>4, <3>1, PhaseProgress DEF Reply, Finish, nas
  <2> QED
    BY <2>2, <2>3, <2>4
<1>5. ASSUME NEW v \in Volumes, ReplyError(v) PROVE Progress
  <2>1. handler[v].rpc \in {"create", "delete"}
    BY <1>5 DEF ReplyError, At, TypeOK, HandlerType, Idle
  <2>2. CASE handler[v].rpc = "create"
    BY <1>5, <2>2, PhaseProgress DEF ReplyError, Finish, nas, Inv, Serving
  <2>3. CASE handler[v].rpc = "delete"
    BY <1>5, <2>3, PhaseProgress DEF ReplyError, Finish, nas, Inv, Serving
  <2> QED
    BY <2>1, <2>2, <2>3
<1>6. ASSUME NEW v \in Volumes, Abandon(v) PROVE Progress
  BY <1>6, CallProgress, NothingBacked DEF Abandon, nas
<1>7. ASSUME NEW v \in Volumes, AbandonLate(v) PROVE Progress
  BY <1>7, NothingBacked DEF AbandonLate, nas
<1>8. ASSUME NEW r \in late, Deliver(r) PROVE Progress
  BY <1>8 DEF Deliver, Inv
<1>9. ASSUME Upgrade PROVE Progress
  BY <1>9, NothingBacked DEF Upgrade
<1>10. ASSUME UNCHANGED vars PROVE Progress
  BY <1>10, NothingBacked DEF vars
<1> QED
  BY <1>1, <1>2, <1>3, <1>4, <1>5, <1>6, <1>7, <1>8, <1>9, <1>10 DEF Next, Handle, Disturb

(***************************************************************************)
(* Until a request is left behind to be executed late, nfsCreateVolume and *)
(* nfsDeleteVolume (nfs.go:68-204) implement the lifecycle: success is     *)
(* answered only for a volume that is whole, or gone, and in between       *)
(* nothing is built except in CreateVolume.                                *)
(***************************************************************************)
THEOREM LifecycleImplemented == Spec => ImplementsLifecycle
<1>1. TypeOK /\ Inv /\ [Next]_vars
        => [used'["late"] = 0 => Lifecycle!Next]_<<phase, [v \in Volumes |-> Backing(v)]>>
  BY LifecycleStep DEF Progress
<1> QED
  BY <1>1, LifecycleInit, Invariant, PTL DEF Spec, ImplementsLifecycle

-----------------------------------------------------------------------------
(***************************************************************************)
(* ListVolumes.                                                            *)
(***************************************************************************)
\* The controller's part of a step is a step of the controller.
LEMMA ListIsController == ListSpec => Spec
<1>1. [ListNext]_listVars => [Next]_vars
  BY DEF ListNext, ListVolumes, ReadDatasets, ReadShares, Reading, ListFails, listVars, vars
<1> QED
  BY <1>1, PTL DEF ListSpec, ListInit, Spec

\* A volume that was bound when the datasets were read was among them.
ListInv ==
  /\ list.found \subseteq Volumes
  /\ list.bound \subseteq list.found

LEMMA ListInvariant == ListSpec => [](TypeOK /\ BoundIsShared /\ ListInv)
<1>1. ListInit => ListInv
  BY DEF ListInit, NotListing, ListInv
<1>2. TypeOK /\ BoundIsShared /\ ListInv /\ [ListNext]_listVars => ListInv'
  BY DEF ListNext, ListVolumes, ReadDatasets, ReadShares, Reading, ListFails, listVars, NotListing, ListInv,
         TypeOK, BoundIsShared
<1> QED
  BY <1>1, <1>2, ListIsController, TypeCorrect, BoundAlwaysShared, PTL DEF ListSpec

\* The join takes the datasets that are shared now.
LEMMA AnswerIsShared == TypeOK /\ ListInv => Answer = list.found \cap shares
BY FoundIsShared DEF Answer, Entries, FindNFSShare, ListInv

(***************************************************************************)
(* ListVolumes lists nothing that lacks its share or its dataset.          *)
(***************************************************************************)
THEOREM ListedAlwaysShared == ListSpec => ListedIsShared
<1>1. TypeOK /\ ListInv => (ReadShares => Answer \subseteq datasets \cap shares)
  BY AnswerIsShared DEF TypeOK
<1> QED
  BY <1>1, ListInvariant, PTL DEF ListedIsShared

(***************************************************************************)
(* It misses no volume that is bound from beginning to end.                *)
(***************************************************************************)
THEOREM SteadyAlwaysListed == ListSpec => SteadyIsListed
<1>1. TypeOK /\ BoundIsShared /\ ListInv =>
        (ReadShares => \A v \in list.bound : phase[v] = "bound" => v \in Answer)
  BY AnswerIsShared DEF BoundIsShared, ListInv
<1> QED
  BY <1>1, ListInvariant, PTL DEF SteadyIsListed

(***************************************************************************)
(* So the list is right from both sides.                                   *)
(***************************************************************************)
THEOREM ListAlwaysRight == ListSpec => ListIsRight
BY ListedAlwaysShared, SteadyAlwaysListed DEF ListIsRight
=============================================================================
