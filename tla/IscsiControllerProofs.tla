------------------------ MODULE IscsiControllerProofs ------------------------
(***************************************************************************)
(* Theorems about IscsiController and IscsiListVolumes, for any set of     *)
(* volumes and any number of faults.                                       *)
(***************************************************************************)
EXTENDS IscsiListVolumes, TLAPS

(***************************************************************************)
(* The states a handler can be in: which verbs go with which RPC, and that *)
(* a rollback stays before the kind that failed, so it never comes to the  *)
(* mapping, which no request deletes.                                      *)
(***************************************************************************)
Shape(h) ==
  \/ h.rpc = "idle" /\ h.verb = "none" /\ h.step = 1
  \/ h.rpc = "create" /\ h.verb \in {"find", "create", "reply"} /\ h.step \in 1..5
  \/ /\ h.rpc = "rollback" /\ h.verb \in {"delete", "error"}
     /\ h.step \in 1..5 /\ h.until \in 1..5
     /\ h.verb = "delete" => h.step < h.until
  \/ h.rpc = "delete" /\ h.verb \in {"find", "delete", "reply", "error"} /\ h.step \in 1..3

Handlers == {h \in HandlerType : Shape(h)}
Requests == {r \in RequestType : r.verb = "delete" => r.kind # "mapping"}

\* The inductive strengthening of TypeOK.
TypeInv ==
  /\ nas \in NasType
  /\ handler \in [Volumes -> Handlers]
  /\ phase \in [Volumes -> Phases]
  /\ late \subseteq Requests
  /\ used \in [FaultKinds -> Nat]

-----------------------------------------------------------------------------
(***************************************************************************)
(* What the operators that move a handler on return.                       *)
(***************************************************************************)

\* The orders and their lengths, spelled out for the provers.
LEMMA Orders ==
  /\ Len(CreateOrder) = 5 /\ Len(DeleteOrder) = 3
  /\ CreateOrder[1] = "dataset" /\ CreateOrder[2] = "extent" /\ CreateOrder[3] = "initiator"
  /\ CreateOrder[4] = "target" /\ CreateOrder[5] = "mapping"
  /\ DeleteOrder[1] = "target" /\ DeleteOrder[2] = "dataset" /\ DeleteOrder[3] = "initiator"
BY DEF CreateOrder, DeleteOrder

\* A handler's current kind is one of the five, and no mapping when it deletes.
LEMMA KindType ==
  ASSUME NEW h \in Handlers
  PROVE  /\ Kind(h) \in {"dataset", "extent", "initiator", "target", "mapping"}
         /\ h.verb = "delete" => Kind(h) # "mapping"
BY Orders DEF Handlers, HandlerType, Shape, Kind, Order

\* Keeping an id keeps a handler a handler, with the same program counter.
LEMMA HoldingType ==
  ASSUME NEW h \in Handlers, NEW id \in Int
  PROVE  /\ Holding(h, id) \in Handlers
         /\ Holding(h, id).rpc = h.rpc /\ Holding(h, id).verb = h.verb
         /\ Holding(h, id).step = h.step /\ Holding(h, id).until = h.until
<1>1. h \in HandlerType /\ Shape(h)
  BY DEF Handlers
<1>2. Holding(h, id) \in HandlerType
  BY <1>1, KindType DEF HandlerType, IdsType, Holding
<1>3. /\ Holding(h, id).rpc = h.rpc /\ Holding(h, id).verb = h.verb
      /\ Holding(h, id).step = h.step /\ Holding(h, id).until = h.until
  BY <1>1, KindType DEF HandlerType, Holding
<1> QED
  BY <1>1, <1>2, <1>3 DEF Handlers, Shape

LEMMA NextKindType ==
  ASSUME NEW h \in Handlers, h.rpc \in {"create", "delete"}
  PROVE  NextKind(h) \in Handlers
<1>1. h \in HandlerType /\ h.step \in 1..Len(Order(h.rpc))
  BY Orders DEF Handlers, Shape, Order
<1>2. CASE h.step = Len(Order(h.rpc))
  BY <1>1, <1>2, Orders DEF Handlers, HandlerType, Shape, NextKind, Order
<1>3. CASE h.step # Len(Order(h.rpc))
  <2>1. h.step + 1 \in Nat \ {0} /\ h.step + 1 \in 1..Len(Order(h.rpc))
    BY <1>1, <1>3, Orders DEF Order
  <2>2. NextKind(h) = [h EXCEPT !.verb = "find", !.step = h.step + 1]
    BY <1>3 DEF NextKind
  <2>3. NextKind(h) \in HandlerType
    BY <1>1, <2>1, <2>2 DEF HandlerType
  <2>4. NextKind(h).rpc = h.rpc /\ NextKind(h).verb = "find" /\ NextKind(h).step = h.step + 1
    BY <1>1, <2>2 DEF HandlerType
  <2> QED
    BY <2>1, <2>3, <2>4, Orders DEF Handlers, Shape, Order
<1> QED
  BY <1>2, <1>3

LEMMA CleanupType ==
  ASSUME NEW h \in HandlerType, h.rpc = "rollback", h.step \in 1..5, h.until \in 1..5,
         NEW step \in 1..5, step <= h.until
  PROVE  Cleanup(h, step) \in Handlers
<1>1. CASE step = h.until
  <2>1. Cleanup(h, step) = [h EXCEPT !.verb = "error"]
    BY <1>1 DEF Cleanup
  <2> QED
    BY <2>1 DEF Handlers, HandlerType, Shape
<1>2. CASE step # h.until
  <2>1. Cleanup(h, step) = [h EXCEPT !.verb = "delete", !.step = step]
    BY <1>2 DEF Cleanup
  <2>2. step \in Nat \ {0}
    OBVIOUS
  <2>3. Cleanup(h, step) \in HandlerType
    BY <2>1, <2>2 DEF HandlerType
  <2>4. /\ Cleanup(h, step).rpc = "rollback" /\ Cleanup(h, step).verb = "delete"
        /\ Cleanup(h, step).step = step /\ Cleanup(h, step).until = h.until
    BY <2>1 DEF HandlerType
  <2> QED
    BY <1>2, <2>3, <2>4 DEF Handlers, Shape
<1> QED
  BY <1>1, <1>2

LEMMA FailedType ==
  ASSUME NEW h \in Handlers, h.verb \in {"find", "create", "delete"}
  PROVE  Failed(h) \in Handlers
<1>1. CASE h.rpc = "create"
  <2> DEFINE g == [h EXCEPT !.rpc = "rollback", !.until = h.step]
  <2>1. h \in HandlerType /\ h.step \in 1..5 /\ h.step \in Nat
    BY <1>1 DEF Handlers, Shape
  <2>2. g \in HandlerType
    BY <2>1 DEF HandlerType
  <2>3. g.rpc = "rollback" /\ g.step \in 1..5 /\ g.until \in 1..5 /\ 1 <= g.until
    BY <2>1 DEF HandlerType
  <2> HIDE DEF g
  <2>4. Cleanup(g, 1) \in Handlers
    BY <2>2, <2>3, CleanupType
  <2> USE DEF g
  <2> QED
    BY <1>1, <2>4 DEF Failed, Rollback
<1>2. CASE h.rpc = "rollback"
  <2>1. h \in HandlerType /\ h.step \in 1..5 /\ h.until \in 1..5 /\ h.step + 1 \in 1..5 /\ h.step + 1 <= h.until
    BY <1>2 DEF Handlers, HandlerType, Shape
  <2>2. Cleanup(h, h.step + 1) \in Handlers
    BY <1>2, <2>1, CleanupType
  <2> QED
    BY <1>2, <2>2 DEF Failed
<1>3. CASE h.rpc = "delete"
  BY <1>3 DEF Handlers, HandlerType, Shape, Failed
<1> QED
  BY <1>1, <1>2, <1>3 DEF Handlers, Shape

LEMMA SucceededType ==
  ASSUME NEW h \in Handlers, h.verb \in {"create", "delete"}, NEW id \in Int
  PROVE  Succeeded(h, id) \in Handlers
<1>1. CASE h.rpc = "create"
  BY <1>1, HoldingType, NextKindType DEF Succeeded
<1>2. CASE h.rpc = "rollback"
  BY <1>2, FailedType DEF Succeeded, Failed
<1>3. CASE h.rpc = "delete"
  BY <1>3, NextKindType DEF Succeeded
<1> QED
  BY <1>1, <1>2, <1>3 DEF Handlers, Shape

-----------------------------------------------------------------------------
(***************************************************************************)
(* Types of the lookups and of TrueNAS' answers.                           *)
(***************************************************************************)

LEMMA HitsType ==
  ASSUME nas \in NasType, NEW v \in Volumes, handler[v] \in Handlers
  PROVE  Hits(v) \subseteq Int
<1>1. FindDataset(v) \subseteq Int
  BY DEF FindDataset, NoId
<1>2. FindISCSIExtent(v) \subseteq Int
  BY DEF FindISCSIExtent, NasType
<1>3. FindISCSIInitiator(v) \subseteq Int
  <2>1. \A i \in nas.initiators : i.id \in Int
    BY DEF NasType
  <2>2. \A id \in FindISCSIInitiator(v) : \E i \in nas.initiators : id = i.id
    BY DEF FindISCSIInitiator
  <2> QED
    BY <2>1, <2>2
<1>4. FindISCSITarget(v) \subseteq Int
  BY DEF FindISCSITarget, NasType
<1>5. FindISCSITargetExtent(handler[v].ids) \subseteq Int
  BY DEF FindISCSITargetExtent, NoId
<1> QED
  BY <1>1, <1>2, <1>3, <1>4, <1>5, KindType DEF Hits

LEMMA RequestIsRequest ==
  ASSUME NEW v \in Volumes, handler[v] \in Handlers, InCall(v)
  PROVE  Request(v) \in Requests
<1>1. handler[v].ids \in IdsType
  BY DEF Handlers, HandlerType
<1> QED
  BY <1>1, KindType DEF InCall, Request, Requests, RequestType

LEMMA AfterCreateType ==
  ASSUME nas \in NasType, NEW r \in Requests
  PROVE  AfterCreate(r) \in NasType
<1> USE DEF NasType
<1>1. r.vol \in Volumes /\ r.ids \in IdsType
  BY DEF Requests, RequestType
<1>2. nas.nextId \in Nat /\ nas.nextId + 1 \in Nat
  OBVIOUS
<1>3. CASE r.kind = "dataset"
  BY <1>1, <1>3 DEF AfterCreate
<1>4. CASE r.kind = "extent"
  <2> DEFINE new == [id |-> nas.nextId, vol |-> r.vol]
             more == nas.extents \cup {new}
  <2>1. more \in SUBSET [id : Nat, vol : Volumes]
    BY <1>1, <1>2
  <2>2. AfterCreate(r) = [nas EXCEPT !.extents = more, !.nextId = nas.nextId + 1]
    BY <1>4 DEF AfterCreate
  <2> HIDE DEF more
  <2> QED
    BY <1>2, <2>1, <2>2
<1>5. CASE r.kind = "initiator"
  <2> DEFINE new == [id |-> nas.nextId, vol |-> r.vol]
             more == nas.initiators \cup {new}
  <2>1. more \in SUBSET [id : Nat, vol : Volumes]
    BY <1>1, <1>2
  <2>2. AfterCreate(r) = [nas EXCEPT !.initiators = more, !.nextId = nas.nextId + 1]
    BY <1>5 DEF AfterCreate
  <2> HIDE DEF more
  <2> QED
    BY <1>2, <2>1, <2>2
<1>6. CASE r.kind = "target"
  <2> DEFINE new == [id |-> nas.nextId, vol |-> r.vol, initiator |-> r.ids.initiator]
             more == nas.targets \cup {new}
  <2>1. more \in SUBSET [id : Nat, vol : Volumes, initiator : Int]
    BY <1>1, <1>2 DEF IdsType
  <2>2. AfterCreate(r) = [nas EXCEPT !.targets = more, !.nextId = nas.nextId + 1]
    BY <1>6 DEF AfterCreate
  <2> HIDE DEF more
  <2> QED
    BY <1>2, <2>1, <2>2
<1>7. CASE r.kind = "mapping"
  BY <1>1, <1>7 DEF AfterCreate, IdsType
<1>8. r.kind \in {"dataset", "extent", "initiator", "target", "mapping"}
  BY DEF Requests, RequestType
<1> QED
  BY <1>3, <1>4, <1>5, <1>6, <1>7, <1>8

LEMMA AfterDeleteType ==
  ASSUME nas \in NasType, NEW r \in Requests, r.verb = "delete"
  PROVE  AfterDelete(r) \in NasType
<1> USE DEF NasType
<1>1. r.kind \in {"dataset", "extent", "initiator", "target"}
  BY DEF Requests, RequestType
<1>2. CASE r.kind = "dataset"
  BY <1>2 DEF AfterDelete
<1>3. CASE r.kind = "extent"
  BY <1>3 DEF AfterDelete
<1>4. CASE r.kind = "initiator"
  BY <1>4 DEF AfterDelete
<1>5. CASE r.kind = "target"
  BY <1>5 DEF AfterDelete
<1> QED
  BY <1>1, <1>2, <1>3, <1>4, <1>5

LEMMA AfterType ==
  ASSUME nas \in NasType, NEW r \in Requests
  PROVE  After(r) \in NasType
BY AfterCreateType, AfterDeleteType DEF After, Requests, RequestType

-----------------------------------------------------------------------------
(***************************************************************************)
(* Type correctness.                                                       *)
(***************************************************************************)

\* Moving v's handler on to a handler keeps the array of handlers typed.
LEMMA ContinueType ==
  ASSUME handler \in [Volumes -> Handlers], NEW v \in Volumes, NEW h \in Handlers, Continue(v, h)
  PROVE  handler' \in [Volumes -> Handlers]
BY DEF Continue

LEMMA FaultType ==
  ASSUME used \in [FaultKinds -> Nat], NEW f \in FaultKinds, Fault(f)
  PROVE  used' \in [FaultKinds -> Nat]
BY DEF Fault

LEMMA IdleType == Idle \in Handlers
BY DEF Idle, Handlers, HandlerType, IdsType, Shape, NoId

LEMMA StartType ==
  ASSUME TypeInv, NEW v \in Volumes, NEW rpc \in {"create", "delete"}, NEW p \in Phases,
         Start(v, rpc, p)
  PROVE  TypeInv'
<1>1. [Idle EXCEPT !.rpc = rpc, !.verb = "find"] \in Handlers
  <2> DEFINE g == [Idle EXCEPT !.rpc = rpc, !.verb = "find"]
  <2>1. Idle \in HandlerType
    BY IdleType DEF Handlers
  <2>2. /\ Idle.step = 1
        /\ rpc \in {"idle", "create", "rollback", "delete"}
    BY DEF Idle
  <2>3. g.rpc = rpc /\ g.verb = "find" /\ g.step = 1
    BY <2>1, <2>2 DEF HandlerType
  <2>4. g \in HandlerType
    BY <2>1, <2>2 DEF HandlerType
  <2> HIDE DEF g
  <2>5. Shape(g)
    BY <2>3 DEF Shape
  <2> QED
    BY <2>4, <2>5 DEF Handlers, g
<1>2. handler' \in [Volumes -> Handlers]
  BY <1>1, ContinueType DEF TypeInv, Start
<1> QED
  BY <1>2 DEF TypeInv, Start

LEMMA TypeInvInit == Init => TypeInv
<1> SUFFICES ASSUME Init PROVE TypeInv
  OBVIOUS
<1>1. nas \in NasType
  BY DEF Init, EmptyNas, NasType
<1> QED
  BY <1>1, IdleType DEF Init, TypeInv, Phases, FaultKinds

LEMMA TypeInvStep == TypeInv /\ [Next]_vars => TypeInv'
<1> SUFFICES ASSUME TypeInv, [Next]_vars PROVE TypeInv'
  OBVIOUS
<1> USE DEF TypeInv
<1>1. ASSUME NEW v \in Volumes, Provision(v) PROVE TypeInv'
  BY <1>1, StartType
     DEF Provision, CreateVolume, RetryCreateVolume, DeleteVolume, RetryDeleteVolume, Phases
<1>2. ASSUME NEW v \in Volumes, Handle(v) PROVE TypeInv'
  <2> DEFINE h == handler[v]
  <2>1. h \in Handlers /\ h \in HandlerType /\ Shape(h)
    BY DEF Handlers
  <2>2. CASE LookupHit(v)
    <3>1. PICK id \in Hits(v) :
            Continue(v, IF Holding(h, id).rpc = "create" THEN NextKind(Holding(h, id))
                        ELSE [Holding(h, id) EXCEPT !.verb = "delete"])
      BY <2>2 DEF LookupHit
    <3> DEFINE g == Holding(h, id)
    <3>2. g \in Handlers /\ g.rpc = h.rpc /\ g.verb = "find" /\ g.step = h.step
      BY <2>1, <2>2, HitsType, HoldingType DEF LookupHit
    <3> HIDE DEF g
    <3>3. g.rpc = "create" => NextKind(g) \in Handlers
      BY <3>2, NextKindType
    <3>4. g.rpc # "create" => [g EXCEPT !.verb = "delete"] \in Handlers
      BY <3>2 DEF Handlers, HandlerType, Shape
    <3>5. handler' \in [Volumes -> Handlers]
      BY <3>1, <3>3, <3>4, ContinueType DEF g
    <3> QED
      BY <2>2, <3>5 DEF LookupHit
  <2>3. CASE LookupMiss(v)
    <3>1. h.rpc = "create" => [h EXCEPT !.verb = "create"] \in Handlers
      BY <2>1 DEF Handlers, HandlerType, Shape
    <3>2. h.rpc # "create" => NextKind(h) \in Handlers
      BY <2>1, <2>3, NextKindType DEF LookupMiss, Shape
    <3>3. handler' \in [Volumes -> Handlers]
      BY <2>3, <3>1, <3>2, ContinueType DEF LookupMiss
    <3> QED
      BY <2>3, <3>3 DEF LookupMiss
  <2>4. CASE Call(v)
    <3>1. nas' \in NasType
      BY <2>1, <2>4, RequestIsRequest, AfterType DEF Call
    <3>2. nas.nextId \in Int
      BY DEF NasType
    <3>3. handler' \in [Volumes -> Handlers]
      BY <2>1, <2>4, <3>2, SucceededType, ContinueType DEF Call, InCall
    <3> QED
      BY <2>4, <3>1, <3>3 DEF Call
  <2>5. CASE Refused(v)
    <3>1. handler' \in [Volumes -> Handlers]
      BY <2>1, <2>5, FailedType, ContinueType DEF Refused, InCall
    <3> QED
      BY <2>5, <3>1 DEF Refused
  <2>6. CASE Reply(v)
    <3>1. handler' \in [Volumes -> Handlers]
      BY <2>6, IdleType, ContinueType DEF Reply
    <3> QED
      BY <2>6, <3>1 DEF Reply, Phases
  <2>7. CASE ReplyError(v)
    <3>1. handler' \in [Volumes -> Handlers]
      BY <2>7, IdleType, ContinueType DEF ReplyError
    <3> QED
      BY <2>7, <3>1 DEF ReplyError, Phases
  <2> QED
    BY <1>2, <2>2, <2>3, <2>4, <2>5, <2>6, <2>7 DEF Handle
<1>3. ASSUME NEW v \in Volumes, Disturb(v) PROVE TypeInv'
  <2> DEFINE h == handler[v]
  <2>1. h \in Handlers
    OBVIOUS
  <2>2. CASE RejectCall(v)
    <3>1. handler' \in [Volumes -> Handlers]
      BY <2>1, <2>2, FailedType, ContinueType DEF RejectCall
    <3>2. used' \in [FaultKinds -> Nat]
      BY <2>2, FaultType DEF RejectCall, FaultKinds
    <3> QED
      BY <2>2, <3>1, <3>2 DEF RejectCall
  <2>3. CASE LoseReply(v)
    <3>1. handler' \in [Volumes -> Handlers]
      BY <2>1, <2>3, FailedType, ContinueType DEF LoseReply, InCall
    <3>2. used' \in [FaultKinds -> Nat]
      BY <2>3, FaultType DEF LoseReply, FaultKinds
    <3>3. nas' \in NasType
      BY <2>1, <2>3, RequestIsRequest, AfterType DEF LoseReply
    <3> QED
      BY <2>3, <3>1, <3>2, <3>3 DEF LoseReply
  <2>4. CASE Abandon(v)
    <3>1. handler' \in [Volumes -> Handlers]
      BY <2>4, IdleType, ContinueType DEF Abandon
    <3>2. used' \in [FaultKinds -> Nat]
      BY <2>4, FaultType DEF Abandon, FaultKinds
    <3>3. nas' = nas \/ (InCall(v) /\ nas' = After(Request(v)))
      BY <2>4 DEF Abandon
    <3>4. nas' \in NasType
      BY <2>1, <3>3, RequestIsRequest, AfterType
    <3> QED
      BY <2>4, <3>1, <3>2, <3>4 DEF Abandon
  <2>5. CASE AbandonLate(v)
    <3>1. handler' \in [Volumes -> Handlers]
      BY <2>5, IdleType, ContinueType DEF AbandonLate
    <3>2. used' \in [FaultKinds -> Nat]
      BY <2>5, FaultType DEF AbandonLate, FaultKinds
    <3>3. late' \subseteq Requests
      BY <2>1, <2>5, RequestIsRequest DEF AbandonLate
    <3> QED
      BY <2>5, <3>1, <3>2, <3>3 DEF AbandonLate
  <2> QED
    BY <1>3, <2>2, <2>3, <2>4, <2>5 DEF Disturb
<1>4. ASSUME NEW r \in late, Deliver(r) PROVE TypeInv'
  <2>1. nas' \in NasType
    BY <1>4, AfterType DEF Deliver
  <2> QED
    BY <1>4, <2>1 DEF Deliver
<1>5. CASE UNCHANGED vars
  BY <1>5 DEF vars
<1> QED
  BY <1>1, <1>2, <1>3, <1>4, <1>5 DEF Next

LEMMA TypeInvImpliesTypeOK == TypeInv => TypeOK
<1> SUFFICES ASSUME TypeInv PROVE TypeOK
  OBVIOUS
<1>1. \A v \in Volumes : handler[v].step <= Len(Order(handler[v].rpc))
  <2> SUFFICES ASSUME NEW v \in Volumes PROVE handler[v].step <= Len(Order(handler[v].rpc))
    OBVIOUS
  <2>1. handler[v] \in HandlerType /\ Shape(handler[v])
    BY DEF TypeInv, Handlers
  <2>2. CASE handler[v].rpc = "delete"
    <3>1. handler[v].step \in 1..3
      BY <2>1, <2>2 DEF Shape
    <3>2. Len(Order(handler[v].rpc)) = 3
      BY <2>2, Orders DEF Order
    <3> QED
      BY <3>1, <3>2
  <2>3. CASE handler[v].rpc # "delete"
    <3>1. handler[v].step \in 1..5
      BY <2>1, <2>3 DEF Shape
    <3>2. Len(Order(handler[v].rpc)) = 5
      BY <2>3, Orders DEF Order
    <3> QED
      BY <3>1, <3>2
  <2> QED
    BY <2>2, <2>3
<1> QED
  BY <1>1 DEF TypeInv, TypeOK, Handlers, Requests

LEMMA TypeInvariant == Spec => []TypeInv
BY TypeInvInit, TypeInvStep, PTL DEF Spec

(***************************************************************************)
(* Every state of every handler is one iscsi.go can be in, the objects     *)
(* TrueNAS holds are well formed, and no handler runs past its last kind.  *)
(***************************************************************************)
THEOREM TypeCorrect == Spec => []TypeOK
BY TypeInvariant, TypeInvImpliesTypeOK, PTL

-----------------------------------------------------------------------------
(***************************************************************************)
(* Ownership: which volume an object belongs to.                           *)
(***************************************************************************)

\* Ids are below nextId and unique; a volume has one extent and one target.
Identified ==
  /\ \A o \in nas.extents \cup nas.initiators \cup nas.targets : o.id < nas.nextId
  /\ \A i, j \in nas.initiators : i.id = j.id => i = j
  /\ \A e, f \in nas.extents : e.id = f.id \/ e.vol = f.vol => e = f
  /\ \A t, u \in nas.targets : t.id = u.id \/ t.vol = u.vol => t = u

\* A mapping joins, as LUN 0, a target and an extent of one volume.
Joined ==
  \A m \in nas.mappings :
    /\ m.lun = 0
    /\ \E t \in nas.targets, e \in nas.extents :
         t.id = m.target /\ e.id = m.extent /\ t.vol = e.vol

\* Whatever object of the store the ids refer to is v's.
Owns(store, v, ids) ==
  /\ ids.extent < store.nextId /\ ids.initiator < store.nextId /\ ids.target < store.nextId
  /\ \A e \in store.extents : e.id = ids.extent => e.vol = v
  /\ \A t \in store.targets : t.id = ids.target => t.vol = v
  /\ PrefixFree => \A i \in store.initiators : i.id = ids.initiator => i.vol = v

OwnInv ==
  /\ Identified
  /\ Joined
  /\ \A v \in Volumes : Owns(nas, v, handler[v].ids)
  /\ \A r \in late : Owns(nas, r.vol, r.ids)

\* A change of nas in which only objects of v appear or disappear.
ChangeOf(v) ==
  /\ nas.nextId <= nas'.nextId
  /\ \A w \in Volumes \ {v} : w \in nas.datasets <=> w \in nas'.datasets
  /\ \A e \in nas'.extents \ nas.extents : e.vol = v /\ e.id >= nas.nextId
  /\ \A t \in nas'.targets \ nas.targets : t.vol = v /\ t.id >= nas.nextId
  /\ \A i \in nas'.initiators \ nas.initiators : i.vol = v /\ i.id >= nas.nextId
  /\ \A e \in nas.extents \ nas'.extents : e.vol = v
  /\ \A t \in nas.targets \ nas'.targets : t.vol = v
  /\ PrefixFree => \A i \in nas.initiators \ nas'.initiators : i.vol = v
  /\ \A m \in nas'.mappings \ nas.mappings :
       \E t \in nas'.targets : t.id = m.target /\ t.vol = v
  /\ \A m \in nas.mappings \ nas'.mappings :
       \E t \in nas.targets : t.id = m.target /\ t.vol = v

\* Ids that were anybody's before such a change are theirs after it.
LEMMA ChangeKeepsOwns ==
  ASSUME nas \in NasType, nas' \in NasType, NEW v \in Volumes, ChangeOf(v),
         NEW w \in Volumes, NEW ids \in IdsType, Owns(nas, w, ids)
  PROVE  Owns(nas', w, ids)
<1>1. ids.extent < nas'.nextId /\ ids.initiator < nas'.nextId /\ ids.target < nas'.nextId
  BY DEF ChangeOf, Owns, NasType, IdsType
<1>2. ASSUME NEW e \in nas'.extents, e.id = ids.extent PROVE e.vol = w
  BY <1>2 DEF ChangeOf, Owns, NasType, IdsType
<1>3. ASSUME NEW t \in nas'.targets, t.id = ids.target PROVE t.vol = w
  BY <1>3 DEF ChangeOf, Owns, NasType, IdsType
<1>4. ASSUME PrefixFree, NEW i \in nas'.initiators, i.id = ids.initiator PROVE i.vol = w
  BY <1>4 DEF ChangeOf, Owns, NasType, IdsType
<1> QED
  BY <1>1, <1>2, <1>3, <1>4 DEF Owns

\* Such a change leaves the objects of the other volumes as they are.
LEMMA ChangeKeepsObjects ==
  ASSUME nas \in NasType, nas' \in NasType, PrefixFree,
         Identified, Joined, Identified', Joined',
         NEW v \in Volumes, ChangeOf(v), NEW w \in Volumes, w # v
  PROVE  Objects(w)' = Objects(w)
<1>1. (w \in nas'.datasets) = (w \in nas.datasets)
  BY DEF ChangeOf
<1>2. OwnExtents(w)' = OwnExtents(w)
  BY DEF OwnExtents, ChangeOf
<1>3. OwnInitiators(w)' = OwnInitiators(w)
  BY DEF OwnInitiators, ChangeOf
<1>4. OwnTargets(w)' = OwnTargets(w)
  BY DEF OwnTargets, ChangeOf
<1>5. \A m \in nas.mappings :
        m \in OwnMappings(w) <=> \E t \in nas.targets : t.id = m.target /\ t.vol = w
  BY DEF Identified, Joined, OwnMappings, OwnTargets, OwnExtents
<1>6. \A m \in nas'.mappings :
        m \in OwnMappings(w)' <=> \E t \in nas'.targets : t.id = m.target /\ t.vol = w
  BY DEF Identified, Joined, OwnMappings, OwnTargets, OwnExtents
<1>7. OwnMappings(w)' = OwnMappings(w)
  <2>1. OwnMappings(w) \subseteq nas.mappings /\ OwnMappings(w)' \subseteq nas'.mappings
    BY DEF OwnMappings
  <2>2. ASSUME NEW m \in OwnMappings(w) PROVE m \in OwnMappings(w)'
    <3>1. PICK t \in nas.targets : t.id = m.target /\ t.vol = w
      BY <1>5, <2>1
    <3>2. t \in nas'.targets
      BY <3>1 DEF ChangeOf
    <3>3. m \in nas'.mappings
      BY <2>1, <3>1 DEF ChangeOf, Identified
    <3> QED
      BY <1>6, <3>1, <3>2, <3>3
  <2>3. ASSUME NEW m \in OwnMappings(w)' PROVE m \in OwnMappings(w)
    <3>1. PICK t \in nas'.targets : t.id = m.target /\ t.vol = w
      BY <1>6, <2>1
    <3>2. t \in nas.targets
      BY <3>1 DEF ChangeOf
    <3>3. m \in nas.mappings
      BY <2>1, <3>1 DEF ChangeOf, Identified
    <3> QED
      BY <1>5, <3>1, <3>2, <3>3
  <2> QED
    BY <2>2, <2>3
<1> QED
  BY <1>1, <1>2, <1>3, <1>4, <1>7 DEF Objects

(***************************************************************************)
(* An accepted request of a handler that holds ids of its own volume       *)
(* changes only objects of that volume, one case per request.              *)
(***************************************************************************)
LEMMA CreateDatasetEffect ==
  ASSUME nas \in NasType, Identified, Joined,
         NEW r \in Requests, r.verb = "create", r.kind = "dataset",
         Owns(nas, r.vol, r.ids), Accepted(r), nas' = After(r)
  PROVE  ChangeOf(r.vol) /\ Identified' /\ Joined'
<1>1. r.vol \notin nas.datasets
  BY DEF Accepted, CreateAccepted
<1>2. nas.nextId \in Nat /\ r.vol \in Volumes /\ r.ids \in IdsType
  BY DEF NasType, Requests, RequestType
<1>3. /\ nas'.datasets = nas.datasets \cup {r.vol}
      /\ nas'.extents = nas.extents
      /\ nas'.initiators = nas.initiators
      /\ nas'.targets = nas.targets
      /\ nas'.mappings = nas.mappings
      /\ nas'.nextId = nas.nextId
  BY DEF After, AfterCreate, NasType
<1>4. ChangeOf(r.vol)
  BY <1>1, <1>2, <1>3 DEF ChangeOf, Identified, Joined, Owns
<1>5. Identified'
  BY <1>1, <1>2, <1>3 DEF Identified, NasType
<1>6. Joined'
  BY <1>1, <1>2, <1>3 DEF Joined, Identified, Owns
<1> QED
  BY <1>4, <1>5, <1>6

LEMMA CreateExtentEffect ==
  ASSUME nas \in NasType, Identified, Joined,
         NEW r \in Requests, r.verb = "create", r.kind = "extent",
         Owns(nas, r.vol, r.ids), Accepted(r), nas' = After(r)
  PROVE  ChangeOf(r.vol) /\ Identified' /\ Joined'
<1>1. \A e \in nas.extents : e.vol # r.vol
  BY DEF Accepted, CreateAccepted
<1>2. nas.nextId \in Nat /\ r.vol \in Volumes /\ r.ids \in IdsType
  BY DEF NasType, Requests, RequestType
<1>3. /\ nas'.datasets = nas.datasets
      /\ nas'.extents = nas.extents \cup {[id |-> nas.nextId, vol |-> r.vol]}
      /\ nas'.initiators = nas.initiators
      /\ nas'.targets = nas.targets
      /\ nas'.mappings = nas.mappings
      /\ nas'.nextId = nas.nextId + 1
  BY DEF After, AfterCreate, NasType
<1>4. ChangeOf(r.vol)
  BY <1>1, <1>2, <1>3 DEF ChangeOf, Identified, Joined, Owns
<1>5. Identified'
  BY <1>1, <1>2, <1>3 DEF Identified, NasType
<1>6. Joined'
  BY <1>1, <1>2, <1>3 DEF Joined, Identified, Owns
<1> QED
  BY <1>4, <1>5, <1>6

LEMMA CreateInitiatorEffect ==
  ASSUME nas \in NasType, Identified, Joined,
         NEW r \in Requests, r.verb = "create", r.kind = "initiator",
         Owns(nas, r.vol, r.ids), Accepted(r), nas' = After(r)
  PROVE  ChangeOf(r.vol) /\ Identified' /\ Joined'
<1>2. nas.nextId \in Nat /\ r.vol \in Volumes /\ r.ids \in IdsType
  BY DEF NasType, Requests, RequestType
<1>3. /\ nas'.datasets = nas.datasets
      /\ nas'.extents = nas.extents
      /\ nas'.initiators = nas.initiators \cup {[id |-> nas.nextId, vol |-> r.vol]}
      /\ nas'.targets = nas.targets
      /\ nas'.mappings = nas.mappings
      /\ nas'.nextId = nas.nextId + 1
  BY DEF After, AfterCreate, NasType
<1>4. ChangeOf(r.vol)
  BY <1>2, <1>3 DEF ChangeOf, Identified, Joined, Owns
<1>5. Identified'
  BY <1>2, <1>3 DEF Identified, NasType
<1>6. Joined'
  BY <1>2, <1>3 DEF Joined, Identified, Owns
<1> QED
  BY <1>4, <1>5, <1>6

LEMMA CreateTargetEffect ==
  ASSUME nas \in NasType, Identified, Joined,
         NEW r \in Requests, r.verb = "create", r.kind = "target",
         Owns(nas, r.vol, r.ids), Accepted(r), nas' = After(r)
  PROVE  ChangeOf(r.vol) /\ Identified' /\ Joined'
<1>1. \A t \in nas.targets : t.vol # r.vol
  BY DEF Accepted, CreateAccepted
<1>2. nas.nextId \in Nat /\ r.vol \in Volumes /\ r.ids \in IdsType
  BY DEF NasType, Requests, RequestType
<1>3. /\ nas'.datasets = nas.datasets
      /\ nas'.extents = nas.extents
      /\ nas'.initiators = nas.initiators
      /\ nas'.targets = nas.targets \cup
                        {[id |-> nas.nextId, vol |-> r.vol, initiator |-> r.ids.initiator]}
      /\ nas'.mappings = nas.mappings
      /\ nas'.nextId = nas.nextId + 1
  BY DEF After, AfterCreate, NasType
<1>4. ChangeOf(r.vol)
  BY <1>1, <1>2, <1>3 DEF ChangeOf, Identified, Joined, Owns
<1>5. Identified'
  BY <1>1, <1>2, <1>3 DEF Identified, NasType
<1>6. Joined'
  BY <1>1, <1>2, <1>3 DEF Joined, Identified, Owns
<1> QED
  BY <1>4, <1>5, <1>6

LEMMA DeleteDatasetEffect ==
  ASSUME nas \in NasType, Identified, Joined,
         NEW r \in Requests, r.verb = "delete", r.kind = "dataset",
         Owns(nas, r.vol, r.ids), Accepted(r), nas' = After(r)
  PROVE  ChangeOf(r.vol) /\ Identified' /\ Joined'
<1>1. ~Mapped(r.vol)
  BY DEF Accepted, DeleteAccepted
<1>2. nas.nextId \in Nat /\ r.vol \in Volumes /\ r.ids \in IdsType
  BY DEF NasType, Requests, RequestType
<1>3. /\ nas'.datasets = nas.datasets \ {r.vol}
      /\ nas'.extents = {e \in nas.extents : e.vol # r.vol}
      /\ nas'.initiators = nas.initiators
      /\ nas'.targets = nas.targets
      /\ nas'.mappings = nas.mappings
      /\ nas'.nextId = nas.nextId
  BY DEF After, AfterDelete, NasType
<1>4. ChangeOf(r.vol)
  BY <1>1, <1>2, <1>3 DEF ChangeOf, Identified, Joined, Owns
<1>5. Identified'
  BY <1>1, <1>2, <1>3 DEF Identified, NasType
<1>6. Joined'
  BY <1>1, <1>2, <1>3 DEF Joined, Mapped
<1> QED
  BY <1>4, <1>5, <1>6

LEMMA DeleteExtentEffect ==
  ASSUME nas \in NasType, Identified, Joined,
         NEW r \in Requests, r.verb = "delete", r.kind = "extent",
         Owns(nas, r.vol, r.ids), Accepted(r), nas' = After(r)
  PROVE  ChangeOf(r.vol) /\ Identified' /\ Joined'
<1>2. nas.nextId \in Nat /\ r.vol \in Volumes /\ r.ids \in IdsType
  BY DEF NasType, Requests, RequestType
<1>3. /\ nas'.datasets = nas.datasets
      /\ nas'.extents = {e \in nas.extents : e.id # r.ids.extent}
      /\ nas'.initiators = nas.initiators
      /\ nas'.targets = nas.targets
      /\ nas'.mappings = {m \in nas.mappings : m.extent # r.ids.extent}
      /\ nas'.nextId = nas.nextId
  BY DEF After, AfterDelete, NasType
<1>4. ChangeOf(r.vol)
  BY <1>2, <1>3 DEF ChangeOf, Identified, Joined, Owns
<1>5. Identified'
  BY <1>2, <1>3 DEF Identified, NasType
<1>6. Joined'
  BY <1>2, <1>3 DEF Joined, Identified, Owns
<1> QED
  BY <1>4, <1>5, <1>6

LEMMA DeleteInitiatorEffect ==
  ASSUME nas \in NasType, Identified, Joined,
         NEW r \in Requests, r.verb = "delete", r.kind = "initiator",
         Owns(nas, r.vol, r.ids), Accepted(r), nas' = After(r)
  PROVE  ChangeOf(r.vol) /\ Identified' /\ Joined'
<1>2. nas.nextId \in Nat /\ r.vol \in Volumes /\ r.ids \in IdsType
  BY DEF NasType, Requests, RequestType
<1>3. /\ nas'.datasets = nas.datasets
      /\ nas'.extents = nas.extents
      /\ nas'.initiators = {i \in nas.initiators : i.id # r.ids.initiator}
      /\ nas'.targets = nas.targets
      /\ nas'.mappings = nas.mappings
      /\ nas'.nextId = nas.nextId
  BY DEF After, AfterDelete, NasType
<1>4. ChangeOf(r.vol)
  BY <1>2, <1>3 DEF ChangeOf, Identified, Joined, Owns
<1>5. Identified'
  BY <1>2, <1>3 DEF Identified, NasType
<1>6. Joined'
  BY <1>2, <1>3 DEF Joined, Identified, Owns
<1> QED
  BY <1>4, <1>5, <1>6

LEMMA DeleteTargetEffect ==
  ASSUME nas \in NasType, Identified, Joined,
         NEW r \in Requests, r.verb = "delete", r.kind = "target",
         Owns(nas, r.vol, r.ids), Accepted(r), nas' = After(r)
  PROVE  ChangeOf(r.vol) /\ Identified' /\ Joined'
<1>2. nas.nextId \in Nat /\ r.vol \in Volumes /\ r.ids \in IdsType
  BY DEF NasType, Requests, RequestType
<1>3. /\ nas'.datasets = nas.datasets
      /\ nas'.extents = nas.extents
      /\ nas'.initiators = nas.initiators
      /\ nas'.targets = {t \in nas.targets : t.id # r.ids.target}
      /\ nas'.mappings = {m \in nas.mappings : m.target # r.ids.target}
      /\ nas'.nextId = nas.nextId
  BY DEF After, AfterDelete, NasType
<1>4. ChangeOf(r.vol)
  BY <1>2, <1>3 DEF ChangeOf, Identified, Joined, Owns
<1>5. Identified'
  BY <1>2, <1>3 DEF Identified, NasType
<1>6. Joined'
  BY <1>2, <1>3 DEF Joined, Identified, Owns
<1> QED
  BY <1>4, <1>5, <1>6

LEMMA CreateMappingEffect ==
  ASSUME nas \in NasType, Identified, Joined,
         NEW r \in Requests, r.verb = "create", r.kind = "mapping",
         Owns(nas, r.vol, r.ids), Accepted(r), nas' = After(r)
  PROVE  ChangeOf(r.vol) /\ Identified' /\ Joined'
<1> DEFINE lun == IF \E m \in nas.mappings : m.target = r.ids.target THEN 1 ELSE 0
           new == [target |-> r.ids.target, extent |-> r.ids.extent, lun |-> lun]
<1>1. /\ HasId(nas.targets, r.ids.target) /\ HasId(nas.extents, r.ids.extent)
      /\ \A m \in nas.mappings : ~(m.target = r.ids.target /\ m.extent = r.ids.extent)
  BY DEF Accepted, CreateAccepted
<1>2. /\ nas'.datasets = nas.datasets /\ nas'.extents = nas.extents
      /\ nas'.initiators = nas.initiators /\ nas'.targets = nas.targets
      /\ nas'.mappings = nas.mappings \cup {new} /\ nas'.nextId = nas.nextId
  BY DEF After, AfterCreate, NasType
<1>3. PICK t \in nas.targets, e \in nas.extents :
        t.id = r.ids.target /\ e.id = r.ids.extent /\ t.vol = r.vol /\ e.vol = r.vol
  BY <1>1 DEF HasId, Owns
<1>4. \A m \in nas.mappings : m.target # r.ids.target
  <2> SUFFICES ASSUME NEW m \in nas.mappings, m.target = r.ids.target PROVE FALSE
    OBVIOUS
  <2>1. PICK u \in nas.targets, f \in nas.extents :
          u.id = m.target /\ f.id = m.extent /\ u.vol = f.vol
    BY DEF Joined
  <2>2. f = e
    BY <1>3, <2>1 DEF Identified
  <2> QED
    BY <1>1, <1>3, <2>1, <2>2
<1>5. lun = 0 /\ new.lun = 0 /\ new.target = t.id /\ new.extent = e.id
  BY <1>3, <1>4
<1> HIDE DEF new
<1>6. nas.nextId <= nas'.nextId
  BY <1>2 DEF NasType
<1>7. ChangeOf(r.vol)
  BY <1>2, <1>3, <1>5, <1>6 DEF ChangeOf
<1>8. Identified'
  BY <1>2 DEF Identified
<1>9. Joined'
  BY <1>2, <1>3, <1>5 DEF Joined
<1> QED
  BY <1>7, <1>8, <1>9

LEMMA RequestEffect ==
  ASSUME nas \in NasType, Identified, Joined,
         NEW r \in Requests, Owns(nas, r.vol, r.ids), Accepted(r), nas' = After(r)
  PROVE  ChangeOf(r.vol) /\ Identified' /\ Joined'
<1>1. CASE r.verb = "create"
  <2>1. r.kind \in {"dataset", "extent", "initiator", "target", "mapping"}
    BY DEF Requests, RequestType
  <2> QED
    BY <1>1, <2>1, CreateDatasetEffect, CreateExtentEffect, CreateInitiatorEffect,
       CreateTargetEffect, CreateMappingEffect
<1>2. CASE r.verb = "delete"
  <2>1. r.kind \in {"dataset", "extent", "initiator", "target"}
    BY <1>2 DEF Requests, RequestType
  <2> QED
    BY <1>2, <2>1, DeleteDatasetEffect, DeleteExtentEffect, DeleteInitiatorEffect,
       DeleteTargetEffect
<1> QED
  BY <1>1, <1>2 DEF Requests, RequestType

(***************************************************************************)
(* The ids a handler holds after each kind of step.                        *)
(***************************************************************************)
LEMMA CleanupIds ==
  ASSUME NEW h \in HandlerType, NEW step
  PROVE  Cleanup(h, step).ids = h.ids
BY DEF Cleanup, HandlerType

LEMMA NextKindIds ==
  ASSUME NEW h \in HandlerType
  PROVE  NextKind(h).ids = h.ids
BY DEF NextKind, HandlerType

LEMMA FailedIds ==
  ASSUME NEW h \in Handlers, h.verb \in {"find", "create", "delete"}
  PROVE  Failed(h).ids = h.ids
<1> DEFINE g == [h EXCEPT !.rpc = "rollback", !.until = h.step]
<1>1. h \in HandlerType /\ h.rpc \in {"create", "rollback", "delete"}
  BY DEF Handlers, Shape
<1>2. g \in HandlerType /\ g.ids = h.ids
  BY <1>1 DEF HandlerType
<1>3. CASE h.rpc = "create"
  BY <1>2, <1>3, CleanupIds DEF Failed, Rollback
<1>4. CASE h.rpc = "rollback"
  BY <1>1, <1>4, CleanupIds DEF Failed
<1>5. CASE h.rpc = "delete"
  BY <1>1, <1>5 DEF Failed, HandlerType
<1> QED
  BY <1>1, <1>3, <1>4, <1>5

LEMMA SucceededIds ==
  ASSUME NEW h \in Handlers, h.verb \in {"create", "delete"}, NEW id \in Int
  PROVE  Succeeded(h, id).ids = IF h.verb = "create" THEN Holding(h, id).ids ELSE h.ids
<1>1. h \in HandlerType
  BY DEF Handlers
<1>2. CASE h.verb = "create"
  <2>1. h.rpc = "create"
    BY <1>2 DEF Handlers, Shape
  <2>2. Holding(h, id) \in HandlerType
    BY HoldingType DEF Handlers
  <2> QED
    BY <1>2, <2>1, <2>2, NextKindIds DEF Succeeded
<1>3. CASE h.verb = "delete"
  <2>1. h.rpc \in {"rollback", "delete"}
    BY <1>3 DEF Handlers, Shape
  <2> QED
    BY <1>1, <1>3, <2>1, NextKindIds, CleanupIds DEF Succeeded
<1> QED
  BY <1>2, <1>3

\* A lookup returns an object of the handler's own volume.
LEMMA HitsOwned ==
  ASSUME nas \in NasType, Identified, NEW v \in Volumes, handler[v] \in Handlers,
         Owns(nas, v, handler[v].ids), NEW id \in Hits(v)
  PROVE  Owns(nas, v, Holding(handler[v], id).ids)
<1> DEFINE h == handler[v]
<1>1. h \in HandlerType /\ h.ids \in IdsType
  BY DEF Handlers, HandlerType
<1>2. CASE Kind(h) \in {"dataset", "mapping"}
  BY <1>2 DEF Holding
<1>3. CASE Kind(h) = "extent"
  <2>1. PICK e \in nas.extents : e.vol = v /\ id = e.id
    BY <1>3 DEF Hits, FindISCSIExtent
  <2>2. Holding(h, id).ids = [h.ids EXCEPT !.extent = id]
    BY <1>1, <1>3 DEF Holding, HandlerType
  <2> QED
    BY <1>1, <2>1, <2>2 DEF Owns, Identified, IdsType
<1>4. CASE Kind(h) = "initiator"
  <2>1. PICK i \in nas.initiators : <<v, i.vol>> \in Prefixes /\ id = i.id
    BY <1>4 DEF Hits, FindISCSIInitiator
  <2>2. PrefixFree => i.vol = v
    BY <2>1 DEF PrefixFree
  <2>3. Holding(h, id).ids = [h.ids EXCEPT !.initiator = id]
    BY <1>1, <1>4 DEF Holding, HandlerType
  <2> QED
    BY <1>1, <2>1, <2>2, <2>3 DEF Owns, Identified, IdsType
<1>5. CASE Kind(h) = "target"
  <2>1. PICK t \in nas.targets : t.vol = v /\ id = t.id
    BY <1>5 DEF Hits, FindISCSITarget
  <2>2. Holding(h, id).ids = [h.ids EXCEPT !.target = id]
    BY <1>1, <1>5 DEF Holding, HandlerType
  <2> QED
    BY <1>1, <2>1, <2>2 DEF Owns, Identified, IdsType
<1> QED
  BY <1>2, <1>3, <1>4, <1>5, KindType

\* The object that an accepted create made is the handler's own.
LEMMA CreatedOwned ==
  ASSUME nas \in NasType, Identified, NEW h \in Handlers, NEW r \in Requests,
         r.verb = "create", r.kind = Kind(h), r.ids = h.ids, Owns(nas, r.vol, r.ids),
         nas' = After(r)
  PROVE  Owns(nas', r.vol, Holding(h, nas.nextId).ids)
<1> DEFINE ids == Holding(h, nas.nextId).ids
<1>1. h \in HandlerType /\ h.ids \in IdsType
  BY DEF Handlers, HandlerType
<1>2. /\ nas.nextId \in Nat
      /\ \A o \in nas.extents \cup nas.initiators \cup nas.targets : o.id < nas.nextId
  BY DEF NasType, Identified
<1>3. CASE Kind(h) \in {"dataset", "mapping"}
  <2>1. ids = h.ids
    BY <1>3 DEF Holding
  <2>2. /\ nas'.nextId = nas.nextId /\ nas'.extents = nas.extents
        /\ nas'.initiators = nas.initiators /\ nas'.targets = nas.targets
    BY <1>3 DEF After, AfterCreate, NasType
  <2> QED
    BY <2>1, <2>2 DEF Owns
<1>4. CASE Kind(h) = "extent"
  <2>1. ids = [h.ids EXCEPT !.extent = nas.nextId]
    BY <1>1, <1>4 DEF Holding, HandlerType
  <2>2. /\ nas'.nextId = nas.nextId + 1
        /\ nas'.extents = nas.extents \cup {[id |-> nas.nextId, vol |-> r.vol]}
        /\ nas'.initiators = nas.initiators /\ nas'.targets = nas.targets
    BY <1>4 DEF After, AfterCreate, NasType
  <2> QED
    BY <1>1, <1>2, <2>1, <2>2 DEF Owns, IdsType
<1>5. CASE Kind(h) = "initiator"
  <2>1. ids = [h.ids EXCEPT !.initiator = nas.nextId]
    BY <1>1, <1>5 DEF Holding, HandlerType
  <2>2. /\ nas'.nextId = nas.nextId + 1
        /\ nas'.initiators = nas.initiators \cup {[id |-> nas.nextId, vol |-> r.vol]}
        /\ nas'.extents = nas.extents /\ nas'.targets = nas.targets
    BY <1>5 DEF After, AfterCreate, NasType
  <2> QED
    BY <1>1, <1>2, <2>1, <2>2 DEF Owns, IdsType
<1>6. CASE Kind(h) = "target"
  <2>1. ids = [h.ids EXCEPT !.target = nas.nextId]
    BY <1>1, <1>6 DEF Holding, HandlerType
  <2>2. /\ nas'.nextId = nas.nextId + 1
        /\ nas'.targets = nas.targets \cup
             {[id |-> nas.nextId, vol |-> r.vol, initiator |-> r.ids.initiator]}
        /\ nas'.extents = nas.extents /\ nas'.initiators = nas.initiators
    BY <1>6 DEF After, AfterCreate, NasType
  <2> QED
    BY <1>1, <1>2, <2>1, <2>2 DEF Owns, IdsType
<1> QED
  BY <1>3, <1>4, <1>5, <1>6, KindType

(***************************************************************************)
(* The ownership invariant.                                                *)
(***************************************************************************)
LEMMA OwnInvInit == Init => OwnInv
<1> SUFFICES ASSUME Init PROVE OwnInv
  OBVIOUS
<1>1. Identified /\ Joined
  BY DEF Init, EmptyNas, Identified, Joined
<1>2. \A v \in Volumes : Owns(nas, v, handler[v].ids)
  <2>1. \A v \in Volumes : /\ handler[v].ids.extent = NoId
                            /\ handler[v].ids.initiator = NoId
                            /\ handler[v].ids.target = NoId
    BY DEF Init, Idle
  <2>2. nas.nextId = 0 /\ nas.extents = {} /\ nas.initiators = {} /\ nas.targets = {}
    BY DEF Init, EmptyNas
  <2>3. \A v \in Volumes : /\ handler[v].ids.extent < nas.nextId
                            /\ handler[v].ids.initiator < nas.nextId
                            /\ handler[v].ids.target < nas.nextId
    <3>1. NoId < 0
      BY DEF NoId
    <3> QED
      BY <2>1, <2>2, <3>1
  <2> QED
    BY <2>2, <2>3 DEF Owns
<1> QED
  BY <1>1, <1>2 DEF OwnInv, Init

\* What OwnInv' takes once nas has changed, if at all, for v only.
LEMMA OwnInvKept ==
  ASSUME TypeInv, TypeInv', OwnInv, NEW v \in Volumes,
         nas' = nas \/ (ChangeOf(v) /\ Identified' /\ Joined'),
         \A w \in Volumes : handler'[w].ids = handler[w].ids \/ Owns(nas', w, handler'[w].ids),
         \A r \in late' : r \in late \/ \E w \in Volumes : r.vol = w /\ r.ids = handler[w].ids
  PROVE  OwnInv'
<1>1. Identified' /\ Joined'
  BY DEF OwnInv, Identified, Joined
<1>2. ASSUME NEW w \in Volumes, NEW ids \in IdsType, Owns(nas, w, ids) PROVE Owns(nas', w, ids)
  BY <1>2, ChangeKeepsOwns DEF TypeInv
<1>3. \A w \in Volumes : handler[w].ids \in IdsType /\ Owns(nas', w, handler[w].ids)
  BY <1>2 DEF OwnInv, TypeInv, Handlers, HandlerType
<1>4. \A w \in Volumes : Owns(nas', w, handler'[w].ids)
  BY <1>3
<1>5. \A r \in late : Owns(nas', r.vol, r.ids)
  BY <1>2 DEF OwnInv, TypeInv, Requests, RequestType
<1>6. \A r \in late' : Owns(nas', r.vol, r.ids)
  BY <1>3, <1>5
<1> QED
  BY <1>1, <1>4, <1>6 DEF OwnInv

\* A handler whose call has been answered is not the handler it was.
LEMMA MovesOn ==
  ASSUME NEW h \in Handlers, h.verb \in {"create", "delete"}, NEW id \in Int
  PROVE  Succeeded(h, id) # h /\ Failed(h) # h
<1>1. h \in HandlerType /\ h.step \in Nat /\ Holding(h, id) \in HandlerType
  BY HoldingType DEF Handlers, HandlerType
<1>2. \A g \in HandlerType : NextKind(g).verb \in {"find", "reply"}
  BY DEF NextKind, HandlerType
<1>3. \A g \in HandlerType, step \in Nat : Cleanup(g, step).verb = "error" \/ Cleanup(g, step).step = step
  BY DEF Cleanup, HandlerType
<1>4. CASE h.rpc = "create"
  <2> DEFINE g == [h EXCEPT !.rpc = "rollback", !.until = h.step]
  <2>1. Cleanup(g, 1).rpc = "rollback"
    BY <1>1 DEF Cleanup, HandlerType
  <2>2. Failed(h).rpc = "rollback"
    BY <1>4, <2>1 DEF Failed, Rollback
  <2>3. Succeeded(h, id).verb # h.verb
    BY <1>1, <1>2, <1>4 DEF Succeeded
  <2> QED
    BY <1>4, <2>2, <2>3
<1>5. CASE h.rpc = "rollback"
  <2>1. h.verb = "delete" /\ h.step + 1 \in Nat /\ h.step + 1 # h.step
    BY <1>1, <1>5 DEF Handlers, Shape
  <2>2. Cleanup(h, h.step + 1).verb = "error" \/ Cleanup(h, h.step + 1).step = h.step + 1
    BY <1>1, <1>3, <2>1
  <2> QED
    BY <1>5, <2>1, <2>2 DEF Failed, Succeeded
<1>6. CASE h.rpc = "delete"
  <2>1. Failed(h).verb = "error"
    BY <1>1, <1>6 DEF Failed, HandlerType
  <2> QED
    BY <1>1, <1>2, <1>6, <2>1 DEF Succeeded
<1> QED
  BY <1>4, <1>5, <1>6 DEF Handlers, Shape

\* Whose objects a step changes, and that it is a step of that volume.
Moves(v) == handler'[v] # handler[v] \/ \E r \in late \ late' : r.vol = v

LEMMA StepChanges ==
  ASSUME TypeInv, OwnInv, [Next]_vars
  PROVE  \/ nas' = nas
         \/ \E v \in Volumes : ChangeOf(v) /\ Identified' /\ Joined' /\ Moves(v)
<1> USE DEF TypeInv
<1>1. ASSUME NEW v \in Volumes, InCall(v), Accepted(Request(v)), nas' = After(Request(v))
      PROVE  ChangeOf(v) /\ Identified' /\ Joined'
  <2>1. /\ Request(v) \in Requests
        /\ Request(v).vol = v /\ Owns(nas, Request(v).vol, Request(v).ids)
    BY <1>1, RequestIsRequest DEF OwnInv, Request
  <2> QED
    BY <1>1, <2>1, RequestEffect DEF OwnInv
<1>2. ASSUME NEW v \in Volumes, InCall(v), NEW g, Continue(v, g), g # handler[v]
      PROVE  Moves(v)
  BY <1>2 DEF Continue, Moves
<1>3. ASSUME NEW v \in Volumes, Call(v) PROVE ChangeOf(v) /\ Identified' /\ Joined' /\ Moves(v)
  <2>1. nas.nextId \in Int
    BY DEF NasType
  <2> QED
    BY <1>1, <1>2, <1>3, <2>1, MovesOn DEF Call, InCall
<1>4. ASSUME NEW v \in Volumes, LoseReply(v) PROVE ChangeOf(v) /\ Identified' /\ Joined' /\ Moves(v)
  <2>1. Failed(handler[v]) # handler[v]
    BY <1>4, MovesOn DEF LoseReply, InCall
  <2> QED
    BY <1>1, <1>2, <1>4, <2>1 DEF LoseReply
<1>5. ASSUME NEW v \in Volumes, Abandon(v), nas' # nas
      PROVE  ChangeOf(v) /\ Identified' /\ Joined' /\ Moves(v)
  <2>1. InCall(v) /\ Accepted(Request(v)) /\ nas' = After(Request(v))
    BY <1>5 DEF Abandon
  <2>2. Idle # handler[v]
    BY <1>5 DEF Abandon, Idle
  <2> QED
    BY <1>1, <1>2, <1>5, <2>1, <2>2 DEF Abandon
<1>6. ASSUME NEW r \in late, Deliver(r), nas' # nas
      PROVE  r.vol \in Volumes /\ ChangeOf(r.vol) /\ Identified' /\ Joined' /\ Moves(r.vol)
  <2>1. r \in Requests /\ Owns(nas, r.vol, r.ids) /\ Accepted(r) /\ nas' = After(r)
    BY <1>6 DEF OwnInv, Deliver
  <2>2. r.vol \in Volumes /\ Moves(r.vol)
    BY <1>6, <2>1 DEF Deliver, Moves, Requests, RequestType
  <2> QED
    BY <2>1, <2>2, RequestEffect DEF OwnInv
<1>7. ASSUME NEW v \in Volumes, Provision(v) PROVE nas' = nas
  BY <1>7 DEF Provision, CreateVolume, RetryCreateVolume, DeleteVolume, RetryDeleteVolume, Start
<1>8. ASSUME NEW v \in Volumes, Handle(v), ~Call(v) PROVE nas' = nas
  BY <1>8 DEF Handle, LookupHit, LookupMiss, Refused, Reply, ReplyError
<1>9. ASSUME NEW v \in Volumes, RejectCall(v) \/ AbandonLate(v) PROVE nas' = nas
  BY <1>9 DEF RejectCall, AbandonLate
<1>10. CASE Next
  BY <1>3, <1>4, <1>5, <1>6, <1>7, <1>8, <1>9, <1>10 DEF Next, Disturb
<1>11. CASE UNCHANGED vars
  BY <1>11 DEF vars
<1> QED
  BY <1>10, <1>11

\* The ids that the handlers hold after a step are still those of their own objects.
LEMMA StepKeepsHeld ==
  ASSUME TypeInv, OwnInv, [Next]_vars, NEW w \in Volumes
  PROVE  handler'[w].ids = handler[w].ids \/ Owns(nas', w, handler'[w].ids)
<1> USE DEF TypeInv
<1>1. handler[w] \in Handlers /\ handler[w] \in HandlerType /\ Owns(nas, w, handler[w].ids)
  BY DEF OwnInv, Handlers
<1>2. nas.nextId \in Nat /\ nas'.nextId \in Nat /\ nas' \in NasType
  BY TypeInvStep DEF NasType
<1>3. Owns(nas', w, Idle.ids)
  <2>1. Idle.ids = [extent |-> -1, initiator |-> -1, target |-> -1]
    BY DEF Idle, NoId
  <2>2. \A o \in nas'.extents \cup nas'.initiators \cup nas'.targets : o.id \in Nat
    BY <1>2 DEF NasType
  <2> QED
    BY <1>2, <2>1, <2>2 DEF Owns
<1>4. ASSUME NEW v \in Volumes, NEW g, Continue(v, g), g.ids = handler[v].ids \/ g.ids = Idle.ids
      PROVE  handler'[w].ids = handler[w].ids \/ Owns(nas', w, handler'[w].ids)
  BY <1>3, <1>4 DEF Continue
<1>5. ASSUME NEW v \in Volumes, NEW g, Continue(v, g), v # w
      PROVE  handler'[w].ids = handler[w].ids
  BY <1>5 DEF Continue
<1>6. ASSUME NEW v \in Volumes, Provision(v)
      PROVE  handler'[w].ids = handler[w].ids \/ Owns(nas', w, handler'[w].ids)
  <2>1. PICK rpc, p : Start(v, rpc, p)
    BY <1>6 DEF Provision, CreateVolume, RetryCreateVolume, DeleteVolume, RetryDeleteVolume
  <2>2. [Idle EXCEPT !.rpc = rpc, !.verb = "find"].ids = Idle.ids
    BY DEF Idle
  <2> QED
    BY <1>4, <2>1, <2>2 DEF Start
<1>7. ASSUME NEW v \in Volumes, Handle(v)
      PROVE  handler'[w].ids = handler[w].ids \/ Owns(nas', w, handler'[w].ids)
  <2>1. handler[v] \in Handlers /\ handler[v] \in HandlerType
    BY DEF Handlers
  <2>2. CASE LookupHit(v)
    <3>1. PICK id \in Hits(v) :
            Continue(v, IF Holding(handler[v], id).rpc = "create" THEN NextKind(Holding(handler[v], id))
                        ELSE [Holding(handler[v], id) EXCEPT !.verb = "delete"])
      BY <2>2 DEF LookupHit
    <3> DEFINE g == Holding(handler[v], id)
               f == IF g.rpc = "create" THEN NextKind(g) ELSE [g EXCEPT !.verb = "delete"]
    <3>2. g \in HandlerType
      BY <2>1, HitsType, HoldingType DEF Handlers
    <3>3. nas' = nas /\ Continue(v, f)
      BY <2>2, <3>1 DEF LookupHit
    <3>4. Owns(nas, v, g.ids)
      BY <2>1, HitsOwned DEF OwnInv
    <3> HIDE DEF g
    <3>5. f.ids = g.ids
      BY <3>2, NextKindIds DEF HandlerType
    <3> HIDE DEF f
    <3>6. handler'[v] = f
      BY <3>3 DEF Continue
    <3> QED
      BY <1>5, <3>3, <3>4, <3>5, <3>6
  <2>3. CASE LookupMiss(v)
    <3>1. [handler[v] EXCEPT !.verb = "create"].ids = handler[v].ids
          /\ NextKind(handler[v]).ids = handler[v].ids
      BY <2>1, NextKindIds DEF HandlerType
    <3> QED
      BY <1>4, <2>3, <3>1 DEF LookupMiss
  <2>4. CASE Call(v)
    <3> DEFINE g == Succeeded(handler[v], nas.nextId)
    <3>1. Continue(v, g) /\ handler[v].verb \in {"create", "delete"}
      BY <2>4 DEF Call, InCall
    <3>2. CASE handler[v].verb = "create"
      <4>1. g.ids = Holding(handler[v], nas.nextId).ids
        BY <1>2, <2>1, <3>1, <3>2, SucceededIds
      <4>2. Owns(nas', v, Holding(handler[v], nas.nextId).ids)
        <5>1. /\ Request(v) \in Requests /\ Request(v).verb = "create"
              /\ Request(v).kind = Kind(handler[v]) /\ Request(v).ids = handler[v].ids
              /\ Request(v).vol = v
          BY <2>1, <2>4, <3>2, RequestIsRequest DEF Call, Request
        <5> QED
          BY <2>1, <2>4, <5>1, CreatedOwned DEF Call, OwnInv
      <4>3. handler'[v] = g
        BY <3>1 DEF Continue
      <4> HIDE DEF g
      <4> QED
        BY <1>5, <3>1, <4>1, <4>2, <4>3
    <3>3. CASE handler[v].verb = "delete"
      <4>1. g.ids = handler[v].ids
        BY <1>2, <2>1, <3>1, <3>3, SucceededIds
      <4> QED
        BY <1>4, <3>1, <4>1
    <3> QED
      BY <3>1, <3>2, <3>3
  <2>5. CASE Refused(v)
    BY <1>4, <2>1, <2>5, FailedIds DEF Refused, InCall
  <2>6. CASE Reply(v) \/ ReplyError(v)
    BY <1>4, <2>6 DEF Reply, ReplyError
  <2> QED
    BY <1>7, <2>2, <2>3, <2>4, <2>5, <2>6 DEF Handle
<1>8. ASSUME NEW v \in Volumes, Disturb(v)
      PROVE  handler'[w].ids = handler[w].ids \/ Owns(nas', w, handler'[w].ids)
  <2>1. CASE RejectCall(v) \/ LoseReply(v)
    <3>1. Continue(v, Failed(handler[v])) /\ handler[v].verb \in {"find", "create", "delete"}
      BY <2>1 DEF RejectCall, LoseReply, InCall
    <3> QED
      BY <1>4, <3>1, FailedIds
  <2>2. CASE Abandon(v) \/ AbandonLate(v)
    BY <1>4, <2>2 DEF Abandon, AbandonLate
  <2> QED
    BY <1>8, <2>1, <2>2 DEF Disturb
<1>9. ASSUME NEW r \in late, Deliver(r) PROVE handler'[w].ids = handler[w].ids
  BY <1>9 DEF Deliver
<1>10. CASE UNCHANGED vars
  BY <1>10 DEF vars
<1> QED
  BY <1>6, <1>7, <1>8, <1>9, <1>10 DEF Next

\* A request that becomes late holds the ids of its handler.
LEMMA StepKeepsLate ==
  ASSUME TypeInv, [Next]_vars, NEW r \in late'
  PROVE  r \in late \/ \E w \in Volumes : r.vol = w /\ r.ids = handler[w].ids
<1>1. ASSUME NEW v \in Volumes, AbandonLate(v)
      PROVE  r \in late \/ \E w \in Volumes : r.vol = w /\ r.ids = handler[w].ids
  BY <1>1 DEF AbandonLate, Request
<1>2. ASSUME NEW v \in Volumes, Provision(v) PROVE late' = late
  BY <1>2 DEF Provision, CreateVolume, RetryCreateVolume, DeleteVolume, RetryDeleteVolume, Start
<1>3. ASSUME NEW v \in Volumes, Handle(v) PROVE late' = late
  BY <1>3 DEF Handle, LookupHit, LookupMiss, Call, Refused, Reply, ReplyError
<1>4. ASSUME NEW v \in Volumes, RejectCall(v) \/ LoseReply(v) \/ Abandon(v) PROVE late' = late
  BY <1>4 DEF RejectCall, LoseReply, Abandon
<1>5. ASSUME NEW q \in late, Deliver(q) PROVE late' \subseteq late
  BY <1>5 DEF Deliver
<1>6. CASE UNCHANGED vars
  BY <1>6 DEF vars
<1> QED
  BY <1>1, <1>2, <1>3, <1>4, <1>5, <1>6 DEF Next, Disturb

LEMMA OwnInvStep == TypeInv /\ OwnInv /\ [Next]_vars => OwnInv'
<1> SUFFICES ASSUME TypeInv, OwnInv, [Next]_vars PROVE OwnInv'
  OBVIOUS
<1>1. TypeInv'
  BY TypeInvStep
<1>2. CASE Volumes = {}
  <2>1. nas' = nas
    BY <1>2, StepChanges
  <2>2. late = {} /\ late' = {}
    BY <1>1, <1>2 DEF TypeInv, Requests, RequestType
  <2> QED
    BY <1>2, <2>1, <2>2 DEF OwnInv, Identified, Joined
<1>3. CASE Volumes # {}
  <2>1. PICK v \in Volumes : nas' = nas \/ (ChangeOf(v) /\ Identified' /\ Joined')
    BY <1>3, StepChanges
  <2> QED
    BY <1>1, <2>1, OwnInvKept, StepKeepsHeld, StepKeepsLate
<1> QED
  BY <1>2, <1>3

LEMMA OwnInvariant == Spec => []OwnInv
BY OwnInvInit, OwnInvStep, TypeInvariant, PTL DEF Spec

(***************************************************************************)
(* The LUN that the driver hands out without asking TrueNAS, 0, is the     *)
(* only one a target ever has (iscsi.go:342).                              *)
(***************************************************************************)
THEOREM LunAlwaysZero == Spec => []LunIsZero
<1>1. TypeInv /\ OwnInv => LunIsZero
  <2> SUFFICES ASSUME TypeInv, OwnInv PROVE LunIsZero
    OBVIOUS
  <2>1. \A m \in nas.mappings : m = [target |-> m.target, extent |-> m.extent, lun |-> m.lun]
    BY DEF TypeInv, NasType
  <2>2. \A m, n \in nas.mappings : m.target = n.target => m.extent = n.extent /\ m.lun = n.lun
    BY DEF OwnInv, Joined, Identified
  <2>3. \A m, n \in nas.mappings : m.target = n.target => m = n
    BY <2>1, <2>2
  <2> QED
    BY <2>3 DEF LunIsZero, OwnInv, Joined
<1> QED
  BY <1>1, TypeInvariant, OwnInvariant, PTL

(***************************************************************************)
(* When no volume id is a prefix of another one, a handler, and a request  *)
(* an abandoned handler left behind, touch their own volume's objects only.*)
(***************************************************************************)
THEOREM OthersUntouched == ASSUME PrefixFree PROVE Spec => OwnObjectsOnly
<1> DEFINE Step(v) == \/ Objects(v)' = Objects(v)
                      \/ handler'[v] # handler[v]
                      \/ \E r \in late \ late' : r.vol = v
<1>1. TypeInv /\ TypeInv' /\ OwnInv /\ OwnInv' /\ [Next]_vars => [\A v \in Volumes : Step(v)]_vars
  <2> SUFFICES ASSUME TypeInv, TypeInv', OwnInv, OwnInv', [Next]_vars, NEW w \in Volumes PROVE Step(w)
    OBVIOUS
  <2>1. CASE nas' = nas
    BY <2>1 DEF Objects, OwnExtents, OwnInitiators, OwnTargets, OwnMappings
  <2>2. CASE \E v \in Volumes : ChangeOf(v) /\ Identified' /\ Joined' /\ Moves(v)
    <3>1. PICK v \in Volumes : ChangeOf(v) /\ Identified' /\ Joined' /\ Moves(v)
      BY <2>2
    <3>2. CASE w = v
      BY <3>1, <3>2 DEF Moves
    <3>3. CASE w # v
      BY <3>1, <3>3, PrefixFree, ChangeKeepsObjects DEF TypeInv, OwnInv
    <3> QED
      BY <3>2, <3>3
  <2> QED
    BY <2>1, <2>2, StepChanges
<1> QED
  BY <1>1, TypeInvariant, OwnInvariant, PTL DEF Spec, OwnObjectsOnly

-----------------------------------------------------------------------------
(***************************************************************************)
(* What a request does, field by field.                                    *)
(***************************************************************************)
\* Which of the lists that ListVolumes reads a request changes, and how.
LEMMA AfterFields ==
  ASSUME nas \in NasType, NEW r \in Requests
  PROVE  LET is(verb, kind) == r.verb = verb /\ r.kind = kind
         IN /\ is("create", "dataset") => After(r).datasets = nas.datasets \cup {r.vol}
            /\ is("delete", "dataset") => /\ After(r).datasets = nas.datasets \ {r.vol}
                                          /\ After(r).extents = {e \in nas.extents : e.vol # r.vol}
            /\ is("create", "extent") => After(r).extents = nas.extents \cup {[id |-> nas.nextId, vol |-> r.vol]}
            /\ r.kind # "dataset" => After(r).datasets = nas.datasets
            /\ ~is("create", "extent") => After(r).extents \subseteq nas.extents
BY DEF After, AfterCreate, AfterDelete, NasType, Requests, RequestType

\* The appliance changes by one accepted request at a time.
LEMMA StoreStep ==
  ASSUME TypeInv, [Next]_vars
  PROVE  nas' = nas \/ \E r \in Requests : Accepted(r) /\ nas' = After(r)
<1>1. ASSUME NEW v \in Volumes, InCall(v) PROVE Request(v) \in Requests
  BY <1>1, RequestIsRequest DEF TypeInv
<1>2. ASSUME NEW v \in Volumes, Provision(v) PROVE nas' = nas
  BY <1>2 DEF Provision, CreateVolume, RetryCreateVolume, DeleteVolume, RetryDeleteVolume, Start
<1>3. ASSUME NEW v \in Volumes, Handle(v), ~Call(v) PROVE nas' = nas
  BY <1>3 DEF Handle, LookupHit, LookupMiss, Refused, Reply, ReplyError
<1>4. ASSUME NEW v \in Volumes, RejectCall(v) \/ AbandonLate(v) PROVE nas' = nas
  BY <1>4 DEF RejectCall, AbandonLate
<1>5. ASSUME NEW v \in Volumes, Call(v) \/ LoseReply(v) \/ Abandon(v)
      PROVE  nas' = nas \/ (InCall(v) /\ Accepted(Request(v)) /\ nas' = After(Request(v)))
  BY <1>5 DEF Call, LoseReply, Abandon
<1>6. ASSUME NEW r \in late, Deliver(r)
      PROVE  r \in Requests /\ (nas' = nas \/ (Accepted(r) /\ nas' = After(r)))
  BY <1>6 DEF Deliver, TypeInv
<1>7. CASE UNCHANGED vars
  BY <1>7 DEF vars
<1> QED
  BY <1>1, <1>2, <1>3, <1>4, <1>5, <1>6, <1>7 DEF Next, Disturb

\* An extent goes with its dataset.
Backed == \A e \in nas.extents : e.vol \in nas.datasets

LEMMA BackedStep == TypeInv /\ Backed /\ [Next]_vars => Backed'
<1> SUFFICES ASSUME TypeInv, Backed, [Next]_vars PROVE Backed'
  OBVIOUS
<1>1. CASE nas' = nas
  BY <1>1 DEF Backed
<1>2. ASSUME NEW r \in Requests, Accepted(r), nas' = After(r) PROVE Backed'
  <2>1. r.verb = "create" /\ r.kind = "extent" => r.vol \in nas.datasets
    BY <1>2 DEF Accepted, CreateAccepted
  <2>2. r.verb \in {"create", "delete"}
    BY DEF Requests, RequestType
  <2>3. CASE r.verb = "create" /\ r.kind = "extent"
    BY <1>2, <2>1, <2>3, AfterFields DEF Backed, TypeInv
  <2>4. CASE r.verb = "create" /\ r.kind = "dataset"
    BY <1>2, <2>4, AfterFields DEF Backed, TypeInv
  <2>5. CASE r.verb = "delete" /\ r.kind = "dataset"
    BY <1>2, <2>5, AfterFields DEF Backed, TypeInv
  <2>6. CASE r.kind # "dataset" /\ ~(r.verb = "create" /\ r.kind = "extent")
    BY <1>2, <2>6, AfterFields DEF Backed, TypeInv
  <2> QED
    BY <2>2, <2>3, <2>4, <2>5, <2>6
<1> QED
  BY <1>1, <1>2, StoreStep

LEMMA BackedInvariant == Spec => []Backed
<1>1. Init => Backed
  BY DEF Init, EmptyNas, Backed
<1> QED
  BY <1>1, BackedStep, TypeInvariant, PTL DEF Spec

-----------------------------------------------------------------------------
(***************************************************************************)
(* What a CreateVolume has of its volume, up to the step it is at.         *)
(***************************************************************************)
HasExtent(store, v, id) == \E e \in store.extents : e.vol = v /\ e.id = id
HasTarget(store, v, id) == \E t \in store.targets : t.vol = v /\ t.id = id
HasMapping(store, ids)  == [target |-> ids.target, extent |-> ids.extent, lun |-> 0] \in store.mappings

Has(store, v, ids, step) ==
  /\ step >= 2 => v \in store.datasets
  /\ step >= 3 => HasExtent(store, v, ids.extent)
  /\ step >= 5 => HasTarget(store, v, ids.target)

ServedIn(store, v) ==
  /\ v \in store.datasets
  /\ \E t \in store.targets, e \in store.extents :
       t.vol = v /\ e.vol = v /\ [target |-> t.id, extent |-> e.id, lun |-> 0] \in store.mappings

BuiltUp(store, v, h, p) ==
  /\ p = "bound" => h.rpc = "idle" /\ ServedIn(store, v)
  /\ h.rpc = "create" => Has(store, v, h.ids, h.step) /\ (h.verb = "reply" => ServedIn(store, v))

BuildInv ==
  used.late = 0 => late = {} /\ \A v \in Volumes : BuiltUp(nas, v, handler[v], phase[v])

\* Nothing of v goes.
KeepsOf(v) ==
  /\ v \in nas.datasets => v \in nas'.datasets
  /\ \A e \in nas.extents : e.vol = v => e \in nas'.extents
  /\ \A t \in nas.targets : t.vol = v => t \in nas'.targets
  /\ \A m \in nas.mappings : (\E t \in nas.targets : t.id = m.target /\ t.vol = v) => m \in nas'.mappings

LEMMA KeepsBuilt ==
  ASSUME NEW v \in Volumes, KeepsOf(v), NEW h, NEW p, BuiltUp(nas, v, h, p)
  PROVE  BuiltUp(nas', v, h, p)
<1>1. ASSUME NEW ids, NEW step, Has(nas, v, ids, step) PROVE Has(nas', v, ids, step)
  BY <1>1 DEF Has, HasExtent, HasTarget, KeepsOf
<1>2. ASSUME ServedIn(nas, v) PROVE ServedIn(nas', v)
  <2>1. PICK t \in nas.targets, e \in nas.extents :
          t.vol = v /\ e.vol = v /\ [target |-> t.id, extent |-> e.id, lun |-> 0] \in nas.mappings
    BY <1>2 DEF ServedIn
  <2>2. [target |-> t.id, extent |-> e.id, lun |-> 0] \in nas'.mappings
    BY <2>1 DEF KeepsOf
  <2> QED
    BY <1>2, <2>1, <2>2 DEF ServedIn, KeepsOf
<1> QED
  BY <1>1, <1>2 DEF BuiltUp

\* A change to another volume keeps what v has, and so does an object more.
LEMMA OthersKeep ==
  ASSUME Identified, NEW v \in Volumes, NEW u \in Volumes, u # v, ChangeOf(u)
  PROVE  KeepsOf(v)
BY DEF ChangeOf, KeepsOf, Identified

LEMMA CreateKeeps ==
  ASSUME nas \in NasType, NEW r \in Requests, r.verb = "create", nas' = After(r), NEW v \in Volumes
  PROVE  KeepsOf(v)
<1>1. r.kind \in {"dataset", "extent", "initiator", "target", "mapping"}
  BY DEF Requests, RequestType
<1>2. nas.datasets \subseteq nas'.datasets /\ nas.extents \subseteq nas'.extents
  BY <1>1 DEF After, AfterCreate, NasType
<1>3. nas.targets \subseteq nas'.targets /\ nas.mappings \subseteq nas'.mappings
  BY <1>1 DEF After, AfterCreate, NasType
<1> QED
  BY <1>2, <1>3 DEF KeepsOf

\* What the object of h's kind being there, with this id, says.
Got(store, v, h, id) ==
  /\ Kind(h) = "dataset" => v \in store.datasets
  /\ Kind(h) = "extent"  => HasExtent(store, v, id)
  /\ Kind(h) = "target"  => HasTarget(store, v, id)
  /\ Kind(h) = "mapping" => HasMapping(store, h.ids)

LEMMA GotOne ==
  ASSUME NEW store, NEW v \in Volumes, NEW h \in Handlers, h.rpc = "create", NEW id \in Int,
         Has(store, v, h.ids, h.step), Got(store, v, h, id)
  PROVE  BuiltUp(store, v, NextKind(Holding(h, id)), "creating")
<1> DEFINE g == Holding(h, id)
           f == NextKind(g)
<1>1. h \in HandlerType /\ h.ids \in IdsType /\ h.step \in 1..5
  BY DEF Handlers, HandlerType, Shape
<1>2. g \in HandlerType /\ g.rpc = "create" /\ g.step = h.step
  BY HoldingType DEF Handlers
<1>3. Kind(h) = CreateOrder[h.step]
  BY DEF Kind, Order
<1>4. g.ids = CASE Kind(h) = "extent" -> [h.ids EXCEPT !.extent = id]
                [] Kind(h) = "initiator" -> [h.ids EXCEPT !.initiator = id]
                [] Kind(h) = "target" -> [h.ids EXCEPT !.target = id]
                [] Kind(h) \in {"dataset", "mapping"} -> h.ids
  BY <1>1, <1>3, KindType DEF Holding, HandlerType
<1> SUFFICES BuiltUp(store, v, f, "creating")
  OBVIOUS
<1> HIDE DEF g
<1>5. CASE h.step = 5
  <2>1. f = [g EXCEPT !.verb = "reply"]
    BY <1>2, <1>5, Orders DEF NextKind, Order
  <2>2. f.rpc = "create" /\ f.ids = g.ids /\ f.step = 5
    BY <1>2, <1>5, <2>1 DEF HandlerType
  <2>3. Kind(h) = "mapping" /\ g.ids = h.ids
    BY <1>3, <1>4, <1>5, Orders
  <2>4. ServedIn(store, v)
    BY <1>5, <2>3 DEF Got, HasMapping, Has, HasExtent, HasTarget, ServedIn
  <2> HIDE DEF f
  <2> QED
    BY <1>5, <2>2, <2>3, <2>4 DEF BuiltUp
<1>6. CASE h.step # 5
  <2>1. f = [g EXCEPT !.verb = "find", !.step = h.step + 1]
    BY <1>2, <1>6, Orders DEF NextKind, Order
  <2>2. f.rpc = "create" /\ f.ids = g.ids /\ f.step = h.step + 1 /\ f.verb = "find"
    BY <1>2, <2>1 DEF HandlerType
  <2>3. Has(store, v, g.ids, h.step + 1)
    <3>1. CASE h.step = 1
      BY <1>3, <3>1, Orders DEF Got, Has
    <3>2. CASE h.step = 2
      <4>1. Kind(h) = "extent" /\ g.ids.extent = id
        BY <1>1, <1>3, <1>4, <3>2, Orders DEF IdsType
      <4> QED
        BY <3>2, <4>1 DEF Got, Has
    <3>3. CASE h.step = 3
      <4>1. Kind(h) = "initiator" /\ g.ids.extent = h.ids.extent
        BY <1>1, <1>3, <1>4, <3>3, Orders DEF IdsType
      <4> QED
        BY <3>3, <4>1 DEF Got, Has
    <3>4. CASE h.step = 4
      <4>1. Kind(h) = "target" /\ g.ids.extent = h.ids.extent /\ g.ids.target = id
        BY <1>1, <1>3, <1>4, <3>4, Orders DEF IdsType
      <4> QED
        BY <3>4, <4>1 DEF Got, Has
    <3> QED
      BY <1>1, <1>6, <3>1, <3>2, <3>3, <3>4
  <2> HIDE DEF f
  <2> QED
    BY <2>2, <2>3 DEF BuiltUp
<1> QED
  BY <1>5, <1>6

\* A handler that is not creating, and whose volume is not bound, promises nothing.
LEMMA NothingPromised ==
  ASSUME NEW store, NEW v, NEW h, h.rpc # "create", NEW p, p # "bound"
  PROVE  BuiltUp(store, v, h, p)
BY DEF BuiltUp

LEMMA FailedPromisesNothing ==
  ASSUME NEW h \in Handlers, h.verb \in {"find", "create", "delete"}
  PROVE  Failed(h).rpc # "create" /\ h.rpc # "idle"
<1> DEFINE g == [h EXCEPT !.rpc = "rollback", !.until = h.step]
<1>1. h \in HandlerType /\ h.rpc \in {"create", "rollback", "delete"}
  BY DEF Handlers, Shape
<1>2. g \in HandlerType /\ g.rpc = "rollback" /\ g.step \in Nat
  BY <1>1 DEF HandlerType
<1>3. \A f \in HandlerType : \A step : Cleanup(f, step).rpc = f.rpc
  BY DEF Cleanup, HandlerType
<1>4. CASE h.rpc = "create"
  BY <1>2, <1>3, <1>4 DEF Failed, Rollback
<1>5. CASE h.rpc = "rollback"
  BY <1>1, <1>3, <1>5 DEF Failed
<1>6. CASE h.rpc = "delete"
  BY <1>1, <1>6 DEF Failed, HandlerType
<1> QED
  BY <1>1, <1>4, <1>5, <1>6

\* A lookup's hit is the object of the current kind.
LEMMA HitGot ==
  ASSUME nas \in NasType, Joined, NEW v \in Volumes, handler[v] \in Handlers, NEW id \in Hits(v)
  PROVE  Got(nas, v, handler[v], id)
<1> DEFINE h == handler[v]
<1>1. CASE Kind(h) = "dataset"
  BY <1>1 DEF Got, Hits, FindDataset
<1>2. CASE Kind(h) = "extent"
  BY <1>2 DEF Got, Hits, FindISCSIExtent, HasExtent
<1>3. CASE Kind(h) = "initiator"
  BY <1>3 DEF Got
<1>4. CASE Kind(h) = "target"
  BY <1>4 DEF Got, Hits, FindISCSITarget, HasTarget
<1>5. CASE Kind(h) = "mapping"
  <2>1. PICK m \in nas.mappings : m.target = h.ids.target /\ m.extent = h.ids.extent
    BY <1>5 DEF Hits, FindISCSITargetExtent
  <2>2. m = [target |-> m.target, extent |-> m.extent, lun |-> 0]
    BY <2>1 DEF Joined, NasType
  <2> QED
    BY <1>5, <2>1, <2>2 DEF Got, HasMapping
<1> QED
  BY <1>1, <1>2, <1>3, <1>4, <1>5, KindType

\* And so is the object that a call has created.
LEMMA CreateGot ==
  ASSUME nas \in NasType, Joined', NEW h \in Handlers, NEW r \in Requests,
         r.verb = "create", r.kind = Kind(h), r.ids = h.ids, nas' = After(r)
  PROVE  Got(nas', r.vol, h, nas.nextId)
<1>1. CASE Kind(h) = "dataset"
  <2>1. nas'.datasets = nas.datasets \cup {r.vol}
    BY <1>1 DEF After, AfterCreate, NasType
  <2> QED
    BY <1>1, <2>1 DEF Got
<1>2. CASE Kind(h) = "extent"
  <2>1. nas'.extents = nas.extents \cup {[id |-> nas.nextId, vol |-> r.vol]}
    BY <1>2 DEF After, AfterCreate, NasType
  <2>2. [id |-> nas.nextId, vol |-> r.vol] \in nas'.extents
    BY <2>1
  <2>3. HasExtent(nas', r.vol, nas.nextId)
    BY <2>2 DEF HasExtent
  <2> QED
    BY <1>2, <2>3 DEF Got
<1>3. CASE Kind(h) = "initiator"
  BY <1>3 DEF Got
<1>4. CASE Kind(h) = "target"
  <2>1. nas'.targets = nas.targets \cup {[id |-> nas.nextId, vol |-> r.vol, initiator |-> r.ids.initiator]}
    BY <1>4 DEF After, AfterCreate, NasType
  <2>2. [id |-> nas.nextId, vol |-> r.vol, initiator |-> r.ids.initiator] \in nas'.targets
    BY <2>1
  <2>3. HasTarget(nas', r.vol, nas.nextId)
    BY <2>2 DEF HasTarget
  <2> QED
    BY <1>4, <2>3 DEF Got
<1>5. CASE Kind(h) = "mapping"
  <2> DEFINE lun == IF \E m \in nas.mappings : m.target = r.ids.target THEN 1 ELSE 0
             new == [target |-> r.ids.target, extent |-> r.ids.extent, lun |-> lun]
  <2>1. nas'.mappings = nas.mappings \cup {new}
    BY <1>5 DEF After, AfterCreate, NasType
  <2>2. new \in nas'.mappings
    BY <2>1
  <2>3. new.lun = 0
    BY <2>2 DEF Joined
  <2> QED
    BY <1>5, <2>2, <2>3 DEF Got, HasMapping
<1> QED
  BY <1>1, <1>2, <1>3, <1>4, <1>5, KindType

\* What v's own steps make of it.
LEMMA OwnStepBuilds ==
  ASSUME TypeInv, OwnInv, NEW v \in Volumes, BuiltUp(nas, v, handler[v], phase[v]),
         Provision(v) \/ Handle(v) \/ RejectCall(v) \/ LoseReply(v) \/ Abandon(v)
  PROVE  BuiltUp(nas', v, handler'[v], phase'[v])
<1> DEFINE h == handler[v]
<1>1. /\ h \in Handlers /\ h \in HandlerType /\ nas \in NasType /\ nas.nextId \in Nat
      /\ Owns(nas, v, h.ids) /\ Identified /\ Joined
      /\ h.rpc # "idle" => phase[v] # "bound"
      /\ phase[v] \in Phases /\ DOMAIN phase = Volumes /\ DOMAIN handler = Volumes
  BY DEF TypeInv, OwnInv, Handlers, NasType, BuiltUp
<1>2. \A g : Continue(v, g) => handler'[v] = g
  BY <1>1 DEF Continue
<1>3. Idle.rpc = "idle"
  BY DEF Idle
<1>4. CASE Provision(v)
  <2>1. PICK rpc \in {"create", "delete"}, p \in {"creating", "deleting"} : Start(v, rpc, p)
    BY <1>4 DEF Provision, CreateVolume, RetryCreateVolume, DeleteVolume, RetryDeleteVolume
  <2> DEFINE g == [Idle EXCEPT !.rpc = rpc, !.verb = "find"]
  <2>2. handler'[v] = g /\ phase'[v] = p
    BY <1>1, <1>2, <2>1 DEF Start
  <2>3. g.step = 1 /\ g.verb = "find"
    BY DEF Idle
  <2> QED
    BY <2>2, <2>3 DEF BuiltUp, Has
<1>5. CASE LookupHit(v)
  <2>1. PICK id \in Hits(v) :
          Continue(v, IF Holding(h, id).rpc = "create" THEN NextKind(Holding(h, id))
                      ELSE [Holding(h, id) EXCEPT !.verb = "delete"])
    BY <1>5 DEF LookupHit
  <2> DEFINE g == Holding(h, id)
  <2>2. id \in Int /\ g.rpc = h.rpc /\ g \in HandlerType
    BY <1>1, HitsType, HoldingType DEF Handlers
  <2>3. nas' = nas /\ phase'[v] = phase[v] /\ h.rpc # "idle"
    BY <1>1, <1>5 DEF LookupHit, Handlers, Shape
  <2>4. CASE h.rpc = "create"
    <3>1. BuiltUp(nas, v, NextKind(g), "creating")
      BY <1>1, <2>2, <2>4, HitGot, GotOne DEF BuiltUp
    <3>2. handler'[v] = NextKind(g)
      BY <1>2, <2>1, <2>2, <2>4
    <3> QED
      BY <1>1, <2>3, <3>1, <3>2 DEF BuiltUp
  <2>5. CASE h.rpc # "create"
    <3>1. handler'[v] = [g EXCEPT !.verb = "delete"]
      BY <1>2, <2>1, <2>2, <2>5
    <3>2. handler'[v].rpc # "create"
      BY <2>2, <2>5, <3>1 DEF HandlerType
    <3> QED
      BY <1>1, <2>3, <3>2, NothingPromised
  <2> QED
    BY <2>4, <2>5
<1>6. CASE LookupMiss(v)
  <2>1. nas' = nas /\ phase'[v] = phase[v] /\ h.rpc # "idle"
    BY <1>1, <1>6 DEF LookupMiss, Handlers, Shape
  <2>2. CASE h.rpc = "create"
    <3>1. handler'[v] = [h EXCEPT !.verb = "create"]
      BY <1>2, <1>6, <2>2 DEF LookupMiss
    <3>2. /\ handler'[v].rpc = "create" /\ handler'[v].verb = "create"
          /\ handler'[v].ids = h.ids /\ handler'[v].step = h.step
      BY <1>1, <2>2, <3>1 DEF HandlerType
    <3> QED
      BY <1>1, <2>1, <2>2, <3>2 DEF BuiltUp
  <2>3. CASE h.rpc # "create"
    <3>1. handler'[v] = NextKind(h)
      BY <1>2, <1>6, <2>3 DEF LookupMiss
    <3>2. handler'[v].rpc # "create"
      BY <1>1, <2>3, <3>1 DEF NextKind, HandlerType
    <3> QED
      BY <1>1, <2>1, <3>2, NothingPromised
  <2> QED
    BY <2>2, <2>3
<1>7. CASE Call(v)
  <2>1. /\ InCall(v) /\ Accepted(Request(v)) /\ nas' = After(Request(v)) /\ phase'[v] = phase[v]
        /\ handler'[v] = Succeeded(h, nas.nextId)
    BY <1>2, <1>7 DEF Call
  <2>2. h.rpc # "idle" /\ h.verb \in {"create", "delete"}
    BY <1>1, <2>1 DEF InCall, Handlers, Shape
  <2>3. CASE h.rpc = "create"
    <3>1. h.verb = "create" /\ Has(nas, v, h.ids, h.step)
      BY <1>1, <2>2, <2>3 DEF Handlers, Shape, BuiltUp
    <3>2. /\ Request(v) \in Requests /\ Request(v).vol = v /\ Request(v).verb = "create"
          /\ Request(v).kind = Kind(h) /\ Request(v).ids = h.ids
      BY <1>1, <2>1, <3>1, RequestIsRequest DEF Request
    <3>3. Joined' /\ KeepsOf(v)
      BY <1>1, <2>1, <3>2, RequestEffect, CreateKeeps
    <3>4. Has(nas', v, h.ids, h.step)
      BY <2>3, <3>1, <3>3, KeepsBuilt DEF BuiltUp
    <3>5. Got(nas', v, h, nas.nextId)
      BY <1>1, <2>1, <3>2, <3>3, CreateGot
    <3>6. BuiltUp(nas', v, NextKind(Holding(h, nas.nextId)), "creating")
      BY <1>1, <2>3, <3>4, <3>5, GotOne
    <3>7. handler'[v] = NextKind(Holding(h, nas.nextId))
      BY <2>1, <2>3 DEF Succeeded
    <3> QED
      BY <1>1, <2>1, <2>2, <3>6, <3>7 DEF BuiltUp
  <2>4. CASE h.rpc = "rollback"
    <3>1. Succeeded(h, nas.nextId) = Failed(h)
      BY <2>4 DEF Succeeded, Failed
    <3> QED
      BY <1>1, <2>1, <2>2, <3>1, FailedPromisesNothing, NothingPromised
  <2>5. CASE h.rpc = "delete"
    <3>1. Succeeded(h, nas.nextId).rpc # "create"
      BY <1>1, <2>5 DEF Succeeded, NextKind, HandlerType
    <3> QED
      BY <1>1, <2>1, <2>2, <3>1, NothingPromised
  <2> QED
    BY <1>1, <2>2, <2>3, <2>4, <2>5 DEF HandlerType
<1>8. CASE Refused(v) \/ RejectCall(v) \/ LoseReply(v)
  <2>1. h.verb \in {"find", "create", "delete"} /\ handler'[v] = Failed(h) /\ phase'[v] = phase[v]
    BY <1>2, <1>8 DEF Refused, RejectCall, LoseReply, InCall
  <2> QED
    BY <1>1, <2>1, FailedPromisesNothing, NothingPromised
<1>9. CASE Reply(v)
  <2>1. /\ nas' = nas /\ h.verb = "reply" /\ handler'[v] = Idle
        /\ phase'[v] = IF h.rpc = "create" THEN "bound" ELSE "gone"
    BY <1>1, <1>2, <1>9 DEF Reply
  <2>2. CASE h.rpc = "create"
    BY <1>3, <2>1, <2>2 DEF BuiltUp
  <2>3. CASE h.rpc # "create"
    BY <1>3, <2>1, <2>3, NothingPromised
  <2> QED
    BY <2>2, <2>3
<1>10. CASE ReplyError(v)
  <2>1. handler'[v] = Idle /\ phase'[v] \in {"deleting", "failed"}
    BY <1>1, <1>2, <1>10 DEF ReplyError
  <2> QED
    BY <1>3, <2>1, NothingPromised
<1>11. CASE Abandon(v)
  <2>1. handler'[v] = Idle /\ phase'[v] = phase[v] /\ h.rpc # "idle"
    BY <1>2, <1>11 DEF Abandon
  <2> QED
    BY <1>1, <1>3, <2>1, NothingPromised
<1> QED
  BY <1>4, <1>5, <1>6, <1>7, <1>8, <1>9, <1>10, <1>11 DEF Handle

\* A step of one volume moves no other one's handler, and leaves no request behind.
LEMMA OnlyOneMoves ==
  ASSUME TypeInv, NEW v \in Volumes, Provision(v) \/ Handle(v) \/ RejectCall(v) \/ LoseReply(v) \/ Abandon(v)
  PROVE  /\ late' = late
         /\ \A w \in Volumes \ {v} : handler'[w] = handler[w] /\ phase'[w] = phase[w]
<1>1. DOMAIN handler = Volumes /\ DOMAIN phase = Volumes
  BY DEF TypeInv
<1>2. \A g : Continue(v, g) => \A w \in Volumes \ {v} : handler'[w] = handler[w]
  BY <1>1 DEF Continue
<1>3. CASE Provision(v)
  BY <1>1, <1>2, <1>3 DEF Provision, CreateVolume, RetryCreateVolume, DeleteVolume, RetryDeleteVolume, Start
<1>4. CASE Handle(v)
  BY <1>1, <1>2, <1>4 DEF Handle, LookupHit, LookupMiss, Call, Refused, Reply, ReplyError
<1>5. CASE RejectCall(v) \/ LoseReply(v) \/ Abandon(v)
  BY <1>1, <1>2, <1>5 DEF RejectCall, LoseReply, Abandon
<1> QED
  BY <1>3, <1>4, <1>5

\* While no request is late none has been, and none becomes so.
LEMMA LateBefore ==
  ASSUME TypeInv, [Next]_vars, used'.late = 0
  PROVE  used.late = 0 /\ ~\E v \in Volumes : AbandonLate(v)
<1>1. \A f : Fault(f) => f # "late" /\ used.late = 0
  BY DEF Fault, TypeInv, FaultKinds
<1>2. used.late = 0
  <2>1. used' = used \/ \E f : Fault(f)
    BY DEF Next, Provision, CreateVolume, RetryCreateVolume, DeleteVolume, RetryDeleteVolume, Start,
           Handle, LookupHit, LookupMiss, Call, Refused, Reply, ReplyError,
           Disturb, RejectCall, LoseReply, Abandon, AbandonLate, Deliver, vars
  <2> QED
    BY <1>1, <2>1
<1> QED
  BY <1>1, <1>2 DEF AbandonLate

LEMMA BuildInvStep == TypeInv /\ OwnInv /\ BuildInv /\ [Next]_vars => BuildInv'
<1> SUFFICES ASSUME TypeInv, OwnInv, BuildInv, [Next]_vars, used'.late = 0
             PROVE  late' = {} /\ \A w \in Volumes : BuiltUp(nas', w, handler'[w], phase'[w])
  BY DEF BuildInv
<1>1. used.late = 0 /\ ~\E v \in Volumes : AbandonLate(v)
  BY LateBefore
<1>2. late = {} /\ \A w \in Volumes : BuiltUp(nas, w, handler[w], phase[w])
  BY <1>1 DEF BuildInv
<1>3. ASSUME NEW v \in Volumes, Provision(v) \/ Handle(v) \/ RejectCall(v) \/ LoseReply(v) \/ Abandon(v),
             NEW w \in Volumes
      PROVE  BuiltUp(nas', w, handler'[w], phase'[w])
  <2>1. CASE w = v
    BY <1>2, <1>3, <2>1, OwnStepBuilds
  <2>2. CASE w # v
    <3>1. late' = late /\ handler'[w] = handler[w] /\ phase'[w] = phase[w]
      BY <1>3, <2>2, OnlyOneMoves
    <3>2. CASE nas' = nas
      BY <1>2, <3>1, <3>2
    <3>3. CASE nas' # nas
      <4>1. PICK u \in Volumes : ChangeOf(u) /\ Moves(u)
        BY <3>3, StepChanges
      <4>2. u # w
        BY <3>1, <4>1 DEF Moves
      <4> QED
        BY <1>2, <3>1, <4>1, <4>2, OthersKeep, KeepsBuilt DEF OwnInv
    <3> QED
      BY <3>2, <3>3
  <2> QED
    BY <2>1, <2>2
<1>4. CASE UNCHANGED vars
  BY <1>2, <1>4 DEF vars
<1>5. CASE \E v \in Volumes : Provision(v) \/ Handle(v) \/ RejectCall(v) \/ LoseReply(v) \/ Abandon(v)
  BY <1>2, <1>3, <1>5, OnlyOneMoves
<1> QED
  BY <1>1, <1>2, <1>4, <1>5 DEF Next, Disturb

(***************************************************************************)
(* A volume that CreateVolume has answered with stays served until         *)
(* DeleteVolume begins, as long as no request is left behind to be         *)
(* executed late: retries, rollbacks and abandoned handlers of other       *)
(* volumes, and its own earlier ones, do not reach it.                     *)
(***************************************************************************)
THEOREM BoundAlwaysServed == Spec => []BoundIsServed
<1>1. Init => BuildInv
  BY DEF Init, BuildInv, BuiltUp, Idle
<1>2. BuildInv => BoundIsServed
  BY DEF BuildInv, BuiltUp, BoundIsServed, ServedIn, Served
<1> QED
  BY <1>1, <1>2, BuildInvStep, TypeInvariant, OwnInvariant, PTL DEF Spec

-----------------------------------------------------------------------------
(***************************************************************************)
(* What DeleteVolume leaves.                                               *)
(***************************************************************************)
\* A handler and what the provisioner knows of its volume agree.
Agrees(v) ==
  /\ handler[v].rpc \in {"create", "rollback"} => phase[v] = "creating"
  /\ handler[v].rpc = "delete" => phase[v] = "deleting"

AgreeInv == \A v \in Volumes : Agrees(v)

(***************************************************************************)
(* What a DeleteVolume has deleted, up to the step it is at, or is about   *)
(* to delete.  There is one initiator group at most to delete, since       *)
(* CreateVolume looks before it makes one, and nobody else makes one.      *)
(***************************************************************************)
Deleted(v) ==
  LET h == handler[v]
  IN h.rpc = "delete" =>
       /\ h.step = 1 /\ h.verb = "delete" => \A t \in OwnTargets(v) : t.id = h.ids.target
       /\ h.step >= 2 => OwnTargets(v) = {}
       /\ h.step >= 3 => v \notin nas.datasets
       /\ h.step = 3 /\ h.verb = "delete" => \A i \in OwnInitiators(v) : i.id = h.ids.initiator
       /\ h.verb = "reply" => h.step = 3 /\ OwnInitiators(v) = {}

OneInitiator(v) ==
  /\ \A i, j \in OwnInitiators(v) : i = j
  /\ handler[v].rpc = "create" /\ handler[v].step = 3 /\ handler[v].verb = "create" => OwnInitiators(v) = {}

Gone(v) == v \notin nas.datasets /\ OwnTargets(v) = {} /\ OwnInitiators(v) = {}

Clears(v) == Deleted(v) /\ OneInitiator(v) /\ (phase[v] = "gone" => Gone(v))

ClearInv == used.late = 0 => \A v \in Volumes : Clears(v)

LEMMA NextKindMoves ==
  ASSUME NEW h \in Handlers, h.rpc \in {"create", "delete"}
  PROVE  /\ NextKind(h).rpc = h.rpc /\ NextKind(h).ids = h.ids
         /\ NextKind(h).verb \in {"find", "reply"}
         /\ h.rpc = "delete" => IF h.step = 3 THEN NextKind(h).step = 3 /\ NextKind(h).verb = "reply"
                                              ELSE NextKind(h).step = h.step + 1 /\ NextKind(h).verb = "find"
<1>1. h \in HandlerType /\ h.step \in 1..5 /\ (h.rpc = "delete" => h.step \in 1..3)
  BY DEF Handlers, HandlerType, Shape
<1>2. h.rpc = "delete" => Len(Order(h.rpc)) = 3
  BY Orders DEF Order
<1> QED
  BY <1>1, <1>2 DEF NextKind, HandlerType

LEMMA FailedMoves ==
  ASSUME NEW h \in Handlers, h.verb \in {"find", "create", "delete"}
  PROVE  /\ h.rpc \in {"create", "rollback"} => Failed(h).rpc = "rollback"
         /\ h.rpc = "delete" => Failed(h) = [h EXCEPT !.verb = "error"]
<1> DEFINE g == [h EXCEPT !.rpc = "rollback", !.until = h.step]
<1>1. h \in HandlerType
  BY DEF Handlers
<1>2. g \in HandlerType /\ g.rpc = "rollback" /\ g.step \in Nat
  BY <1>1 DEF HandlerType
<1>3. \A f \in HandlerType : \A step : Cleanup(f, step).rpc = f.rpc
  BY DEF Cleanup, HandlerType
<1>4. CASE h.rpc = "create"
  BY <1>2, <1>3, <1>4 DEF Failed, Rollback
<1>5. CASE h.rpc = "rollback"
  BY <1>1, <1>3, <1>5 DEF Failed
<1>6. CASE h.rpc = "delete"
  BY <1>6 DEF Failed
<1> QED
  BY <1>4, <1>5, <1>6

\* A handler and its place in handler, of use in the lemmas that follow.
LEMMA HandlerFacts ==
  ASSUME TypeInv, NEW v \in Volumes
  PROVE  /\ handler[v] \in Handlers /\ handler[v] \in HandlerType /\ Shape(handler[v]) /\ nas.nextId \in Int
         /\ DOMAIN phase = Volumes /\ DOMAIN handler = Volumes
         /\ \A f : Continue(v, f) => handler'[v] = f
BY DEF TypeInv, Handlers, NasType, Continue

(***************************************************************************)
(* Where each step of v takes v's handler and its phase.                   *)
(***************************************************************************)
LEMMA ProvisionMoves ==
  ASSUME TypeInv, NEW v \in Volumes, Provision(v)
  PROVE  /\ handler'[v].step = 1 /\ handler'[v].verb = "find"
         /\ handler[v].rpc = "idle" /\ nas' = nas
         /\ \/ /\ handler'[v].rpc = "create"
               /\ phase[v] \in {"absent", "creating", "failed"} /\ phase' = [phase EXCEPT ![v] = "creating"]
            \/ /\ handler'[v].rpc = "delete"
               /\ phase[v] \in {"bound", "deleting"} /\ phase' = [phase EXCEPT ![v] = "deleting"]
<1>1. ASSUME NEW rpc, NEW p, Start(v, rpc, p)
      PROVE  /\ handler'[v].step = 1 /\ handler'[v].verb = "find" /\ handler'[v].rpc = rpc
             /\ handler[v].rpc = "idle" /\ nas' = nas /\ phase' = [phase EXCEPT ![v] = p]
  <2>1. /\ handler'[v] = [Idle EXCEPT !.rpc = rpc, !.verb = "find"]
        /\ handler[v].rpc = "idle" /\ nas' = nas /\ phase' = [phase EXCEPT ![v] = p]
    BY <1>1, HandlerFacts DEF Start
  <2> QED
    BY <2>1 DEF Idle
<1>2. CASE CreateVolume(v)
  BY <1>1, <1>2 DEF CreateVolume
<1>3. CASE RetryCreateVolume(v)
  BY <1>1, <1>3 DEF RetryCreateVolume
<1>4. CASE DeleteVolume(v)
  BY <1>1, <1>4 DEF DeleteVolume
<1>5. CASE RetryDeleteVolume(v)
  BY <1>1, <1>5 DEF RetryDeleteVolume
<1> QED
  BY <1>2, <1>3, <1>4, <1>5 DEF Provision

LEMMA HitMoves ==
  ASSUME TypeInv, NEW v \in Volumes, LookupHit(v)
  PROVE  /\ handler[v].verb = "find" /\ phase' = phase /\ nas' = nas
         /\ \/ /\ handler[v].rpc = "create" /\ handler'[v].rpc = "create"
               /\ handler'[v].verb \in {"find", "reply"}
            \/ /\ handler[v].rpc = "delete" /\ handler'[v].rpc = "delete"
               /\ handler'[v].verb = "delete" /\ handler'[v].step = handler[v].step
               /\ \E id \in Hits(v) :
                    /\ Kind(handler[v]) = "target" => handler'[v].ids.target = id
                    /\ Kind(handler[v]) = "initiator" => handler'[v].ids.initiator = id
<1> DEFINE h == handler[v]
<1>1. PICK id \in Hits(v) :
        Continue(v, IF Holding(h, id).rpc = "create" THEN NextKind(Holding(h, id))
                    ELSE [Holding(h, id) EXCEPT !.verb = "delete"])
  BY DEF LookupHit
<1>2. id \in Int
  BY HandlerFacts, HitsType DEF TypeInv
<1>3. Holding(h, id) \in Handlers /\ Holding(h, id).rpc = h.rpc
  BY <1>2, HandlerFacts, HoldingType
<1>4. h.rpc \in {"create", "delete"} /\ h.verb = "find" /\ phase' = phase /\ nas' = nas
  BY HandlerFacts DEF LookupHit, Shape
<1>5. CASE h.rpc = "create"
  BY <1>1, <1>3, <1>4, <1>5, NextKindMoves, HandlerFacts
<1>6. CASE h.rpc = "delete"
  <2>1. handler'[v] = [Holding(h, id) EXCEPT !.verb = "delete"]
    BY <1>1, <1>3, <1>6, HandlerFacts
  <2>2. Holding(h, id) \in HandlerType /\ Holding(h, id).step = h.step
    BY <1>2, HandlerFacts, HoldingType DEF Handlers
  <2>3. /\ Kind(h) = "target" => Holding(h, id).ids.target = id
        /\ Kind(h) = "initiator" => Holding(h, id).ids.initiator = id
    BY HandlerFacts DEF Holding, HandlerType, IdsType
  <2>4. /\ handler'[v].rpc = "delete" /\ handler'[v].verb = "delete" /\ handler'[v].step = h.step
        /\ handler'[v].ids = Holding(h, id).ids
    BY <1>3, <1>6, <2>1, <2>2 DEF HandlerType
  <2> QED
    BY <1>4, <1>6, <2>3, <2>4
<1> QED
  BY <1>4, <1>5, <1>6

LEMMA MissMoves ==
  ASSUME TypeInv, NEW v \in Volumes, LookupMiss(v)
  PROVE  /\ handler[v].verb = "find" /\ phase' = phase /\ nas' = nas /\ Hits(v) = {}
         /\ \/ handler[v].rpc = "create" /\ handler'[v] = [handler[v] EXCEPT !.verb = "create"]
            \/ handler[v].rpc = "delete" /\ handler'[v] = NextKind(handler[v])
BY HandlerFacts DEF LookupMiss, Shape

LEMMA CallMoves ==
  ASSUME TypeInv, NEW v \in Volumes, Call(v)
  PROVE  /\ InCall(v) /\ Accepted(Request(v)) /\ nas' = After(Request(v)) /\ phase' = phase
         /\ \/ handler[v].rpc = "create" /\ handler'[v].rpc = "create" /\ handler'[v].verb \in {"find", "reply"}
            \/ handler[v].rpc = "rollback" /\ handler'[v].rpc = "rollback"
            \/ handler[v].rpc = "delete" /\ handler'[v] = NextKind(handler[v])
<1> DEFINE h == handler[v]
<1>1. /\ InCall(v) /\ Accepted(Request(v)) /\ nas' = After(Request(v)) /\ phase' = phase
      /\ handler'[v] = Succeeded(h, nas.nextId)
  BY HandlerFacts DEF Call
<1>2. h.verb \in {"create", "delete"} /\ h.rpc \in {"create", "rollback", "delete"}
  BY <1>1, HandlerFacts DEF InCall, Shape
<1>3. CASE h.rpc = "create"
  <2>1. Holding(h, nas.nextId) \in Handlers /\ Holding(h, nas.nextId).rpc = "create"
    BY <1>3, HandlerFacts, HoldingType
  <2> QED
    BY <1>1, <1>3, <2>1, NextKindMoves DEF Succeeded
<1>4. CASE h.rpc = "rollback"
  <2>1. Succeeded(h, nas.nextId) = Failed(h)
    BY <1>4 DEF Succeeded, Failed
  <2> QED
    BY <1>1, <1>2, <1>4, <2>1, HandlerFacts, FailedMoves
<1>5. CASE h.rpc = "delete"
  BY <1>1, <1>5 DEF Succeeded
<1> QED
  BY <1>1, <1>2, <1>3, <1>4, <1>5

LEMMA ErrorMoves ==
  ASSUME TypeInv, NEW v \in Volumes, Refused(v) \/ RejectCall(v) \/ LoseReply(v)
  PROVE  /\ phase' = phase
         /\ \/ nas' = nas
            \/ InCall(v) /\ Accepted(Request(v)) /\ nas' = After(Request(v))
         /\ \/ handler[v].rpc \in {"create", "rollback"} /\ handler'[v].rpc = "rollback"
            \/ handler[v].rpc = "delete" /\ handler'[v] = [handler[v] EXCEPT !.verb = "error"]
<1>1. handler[v].verb \in {"find", "create", "delete"} /\ handler'[v] = Failed(handler[v]) /\ phase' = phase
  BY HandlerFacts DEF Refused, RejectCall, LoseReply, InCall
<1>2. handler[v].rpc \in {"create", "rollback", "delete"}
  BY <1>1, HandlerFacts DEF Shape
<1>3. nas' = nas \/ (InCall(v) /\ Accepted(Request(v)) /\ nas' = After(Request(v)))
  BY DEF Refused, RejectCall, LoseReply
<1> QED
  BY <1>1, <1>2, <1>3, HandlerFacts, FailedMoves

LEMMA ReplyMoves ==
  ASSUME TypeInv, NEW v \in Volumes, Reply(v) \/ ReplyError(v)
  PROVE  /\ handler'[v] = Idle /\ nas' = nas
         /\ \/ /\ handler[v].rpc = "create" /\ handler[v].verb = "reply"
               /\ phase' = [phase EXCEPT ![v] = "bound"]
            \/ /\ handler[v].rpc = "delete" /\ handler[v].verb = "reply"
               /\ phase' = [phase EXCEPT ![v] = "gone"]
            \/ handler[v].rpc = "delete" /\ phase' = [phase EXCEPT ![v] = "deleting"]
            \/ handler[v].rpc = "rollback" /\ phase' = [phase EXCEPT ![v] = "failed"]
BY HandlerFacts DEF Reply, ReplyError, Shape

LEMMA AbandonMoves ==
  ASSUME TypeInv, NEW v \in Volumes, Abandon(v) \/ AbandonLate(v)
  PROVE  /\ handler'[v] = Idle /\ handler[v].rpc # "idle" /\ phase' = phase
         /\ \/ nas' = nas
            \/ InCall(v) /\ Accepted(Request(v)) /\ nas' = After(Request(v))
BY HandlerFacts DEF Abandon, AbandonLate, InCall, Shape

LEMMA OwnStepAgrees ==
  ASSUME TypeInv, NEW v \in Volumes, Agrees(v), Provision(v) \/ Handle(v) \/ Disturb(v)
  PROVE  Agrees(v)'
<1>1. Idle.rpc = "idle"
  BY DEF Idle
<1>2. /\ handler[v] \in Handlers /\ handler[v] \in HandlerType
      /\ DOMAIN phase = Volumes
  BY HandlerFacts
<1>3. CASE Provision(v)
  BY <1>2, <1>3, ProvisionMoves DEF Agrees
<1>4. CASE LookupHit(v)
  <2>1. CASE handler[v].rpc = "create"
    BY <1>4, <2>1, HitMoves DEF Agrees
  <2>2. CASE handler[v].rpc = "delete"
    BY <1>4, <2>2, HitMoves DEF Agrees
  <2> QED
    BY <1>4, <2>1, <2>2, HitMoves
<1>5. CASE LookupMiss(v)
  <2>1. CASE handler[v].rpc = "create"
    BY <1>2, <1>5, <2>1, MissMoves DEF Agrees, HandlerType
  <2>2. CASE handler[v].rpc = "delete"
    BY <1>2, <1>5, <2>2, MissMoves, NextKindMoves DEF Agrees
  <2> QED
    BY <1>5, <2>1, <2>2, MissMoves
<1>6. CASE Call(v)
  BY <1>2, <1>6, CallMoves, NextKindMoves DEF Agrees
<1>7. CASE Refused(v) \/ RejectCall(v) \/ LoseReply(v)
  <2>1. CASE handler[v].rpc = "delete"
    BY <1>2, <1>7, <2>1, ErrorMoves DEF Agrees, HandlerType
  <2>2. CASE handler[v].rpc # "delete"
    BY <1>7, <2>2, ErrorMoves DEF Agrees
  <2> QED
    BY <2>1, <2>2
<1>8. CASE Reply(v) \/ ReplyError(v)
  BY <1>1, <1>8, ReplyMoves DEF Agrees
<1>9. CASE Abandon(v) \/ AbandonLate(v)
  BY <1>1, <1>9, AbandonMoves DEF Agrees
<1> QED
  BY <1>3, <1>4, <1>5, <1>6, <1>7, <1>8, <1>9 DEF Handle, Disturb

LEMMA AgreeInvStep == TypeInv /\ AgreeInv /\ [Next]_vars => AgreeInv'
<1> SUFFICES ASSUME TypeInv, AgreeInv, [Next]_vars, NEW w \in Volumes PROVE Agrees(w)'
  BY DEF AgreeInv
<1>1. Agrees(w)
  BY DEF AgreeInv
<1>2. ASSUME NEW v \in Volumes, Provision(v) \/ Handle(v) \/ Disturb(v) PROVE Agrees(w)'
  <2>1. CASE w = v
    BY <1>1, <1>2, <2>1, OwnStepAgrees
  <2>2. CASE w # v
    <3>1. handler'[w] = handler[w] /\ phase'[w] = phase[w]
      BY <1>2, <2>2, OnlyOneMoves DEF Disturb, AbandonLate, Continue, TypeInv
    <3> QED
      BY <1>1, <3>1 DEF Agrees
  <2> QED
    BY <2>1, <2>2
<1>3. CASE UNCHANGED vars
  BY <1>1, <1>3 DEF Agrees, vars
<1>4. ASSUME NEW r \in late, Deliver(r) PROVE Agrees(w)'
  BY <1>1, <1>4 DEF Agrees, Deliver
<1> QED
  BY <1>2, <1>3, <1>4 DEF Next

LEMMA AgreeInvariant == Spec => []AgreeInv
<1>1. Init => AgreeInv
  <2>1. \A v \in Volumes : Init => handler[v] = Idle
    BY DEF Init
  <2>2. Idle.rpc = "idle"
    BY DEF Idle
  <2> QED
    BY <2>1, <2>2 DEF AgreeInv, Agrees
<1> QED
  BY <1>1, AgreeInvStep, TypeInvariant, PTL DEF Spec

LEMMA DeleteShrinks ==
  ASSUME nas \in NasType, NEW r \in Requests, r.verb = "delete"
  PROVE  /\ After(r).datasets \subseteq nas.datasets
         /\ After(r).extents \subseteq nas.extents
         /\ After(r).initiators \subseteq nas.initiators
         /\ After(r).targets \subseteq nas.targets
         /\ After(r).mappings \subseteq nas.mappings
         /\ r.kind # "initiator" => After(r).initiators = nas.initiators
         /\ r.kind = "dataset" => r.vol \notin After(r).datasets
         /\ r.kind = "initiator" => \A i \in After(r).initiators : i.id # r.ids.initiator
         /\ r.kind = "target" => \A t \in After(r).targets : t.id # r.ids.target
<1>1. r.kind \in {"dataset", "extent", "initiator", "target"} /\ After(r) = AfterDelete(r)
  BY DEF After, Requests, RequestType
<1>2. CASE r.kind = "dataset"
  BY <1>1, <1>2 DEF AfterDelete, NasType
<1>3. CASE r.kind = "extent"
  BY <1>1, <1>3 DEF AfterDelete, NasType
<1>4. CASE r.kind = "initiator"
  BY <1>1, <1>4 DEF AfterDelete, NasType
<1>5. CASE r.kind = "target"
  <2>1. After(r) = [nas EXCEPT !.targets = {t \in @ : t.id # r.ids.target},
                               !.mappings = {m \in @ : m.target # r.ids.target}]
    BY <1>1, <1>5 DEF AfterDelete
  <2>2. /\ After(r).datasets = nas.datasets /\ After(r).extents = nas.extents
        /\ After(r).initiators = nas.initiators
        /\ After(r).targets = {t \in nas.targets : t.id # r.ids.target}
        /\ After(r).mappings = {m \in nas.mappings : m.target # r.ids.target}
    BY <2>1 DEF NasType
  <2> QED
    BY <1>5, <2>2
<1> QED
  BY <1>1, <1>2, <1>3, <1>4, <1>5

LEMMA CreateGrows ==
  ASSUME nas \in NasType, NEW r \in Requests, r.verb = "create"
  PROVE  /\ After(r).datasets = IF r.kind = "dataset" THEN nas.datasets \cup {r.vol} ELSE nas.datasets
         /\ After(r).extents = IF r.kind = "extent"
                                 THEN nas.extents \cup {[id |-> nas.nextId, vol |-> r.vol]}
                                 ELSE nas.extents
         /\ After(r).initiators = IF r.kind = "initiator"
                                    THEN nas.initiators \cup {[id |-> nas.nextId, vol |-> r.vol]}
                                    ELSE nas.initiators
         /\ After(r).targets = IF r.kind = "target"
                                 THEN nas.targets \cup {[id |-> nas.nextId, vol |-> r.vol, initiator |-> r.ids.initiator]}
                                 ELSE nas.targets
         /\ r.kind # "mapping" => After(r).mappings = nas.mappings
<1>1. r.kind \in {"dataset", "extent", "initiator", "target", "mapping"} /\ After(r) = AfterCreate(r)
  BY DEF After, Requests, RequestType
<1>2. CASE r.kind = "dataset"
  BY <1>1, <1>2 DEF AfterCreate, NasType
<1>3. CASE r.kind = "extent"
  BY <1>1, <1>3 DEF AfterCreate, NasType
<1>4. CASE r.kind = "initiator"
  BY <1>1, <1>4 DEF AfterCreate, NasType
<1>5. CASE r.kind = "target"
  BY <1>1, <1>5 DEF AfterCreate, NasType
<1>6. CASE r.kind = "mapping"
  BY <1>1, <1>6 DEF AfterCreate, NasType
<1> QED
  BY <1>1, <1>2, <1>3, <1>4, <1>5, <1>6

\* What v's own call does to what v has.
LEMMA OwnCallClears ==
  ASSUME TypeInv, NEW v \in Volumes, InCall(v), nas' = After(Request(v)), Clears(v)
  PROVE  LET h == handler[v]
         IN /\ \A i, j \in OwnInitiators(v)' : i = j
            /\ h.rpc = "delete" =>
                 /\ h.step \in {1, 2, 3} /\ h.verb = "delete"
                 /\ OwnTargets(v) = {} => OwnTargets(v)' = {}
                 /\ v \notin nas.datasets => v \notin nas'.datasets
                 /\ h.step = 1 => OwnTargets(v)' = {}
                 /\ h.step = 2 => v \notin nas'.datasets
                 /\ h.step = 3 => OwnInitiators(v)' = {}
<1> DEFINE h == handler[v]
<1> DEFINE r == Request(v)
<1>1. h \in Handlers /\ h \in HandlerType /\ Shape(h) /\ nas \in NasType
  BY HandlerFacts DEF TypeInv
<1>2. /\ r \in Requests /\ r.verb = h.verb /\ r.kind = Kind(h) /\ r.vol = v /\ r.ids = h.ids
      /\ h.verb \in {"create", "delete"}
  BY <1>1, RequestIsRequest DEF InCall, Request
<1>3. Deleted(v) /\ OneInitiator(v)
  BY DEF Clears
<1> HIDE DEF r
<1>4. CASE h.verb = "create"
  <2>1. h.rpc = "create"
    BY <1>1, <1>4 DEF Shape
  <2>2. Kind(h) = "initiator" => h.step = 3
    BY <1>1, <2>1, Orders DEF Kind, Order, Shape
  <2>3. r.kind = "initiator" => OwnInitiators(v) = {}
    BY <1>2, <1>3, <1>4, <2>1, <2>2 DEF OneInitiator
  <2>4. nas'.initiators = IF r.kind = "initiator" THEN nas.initiators \cup {[id |-> nas.nextId, vol |-> v]}
                                                  ELSE nas.initiators
    BY <1>1, <1>2, <1>4, CreateGrows DEF r
  <2>5. \A i, j \in OwnInitiators(v)' : i = j
    BY <1>3, <2>3, <2>4 DEF OneInitiator, OwnInitiators
  <2> QED
    BY <2>1, <2>5
<1>5. CASE h.verb = "delete"
  <2>1. /\ nas'.datasets \subseteq nas.datasets
        /\ nas'.initiators \subseteq nas.initiators
        /\ nas'.targets \subseteq nas.targets
        /\ r.kind = "dataset" => v \notin nas'.datasets
        /\ r.kind = "initiator" => \A i \in nas'.initiators : i.id # h.ids.initiator
        /\ r.kind = "target" => \A t \in nas'.targets : t.id # h.ids.target
    BY <1>1, <1>2, <1>5, DeleteShrinks DEF r
  <2>2. \A i, j \in OwnInitiators(v)' : i = j
    BY <1>3, <2>1 DEF OneInitiator, OwnInitiators
  <2>3. OwnTargets(v) = {} => OwnTargets(v)' = {}
    BY <2>1 DEF OwnTargets
  <2>4. CASE h.rpc = "delete"
    <3>1. /\ h.step \in {1, 2, 3}
          /\ h.step = 1 => r.kind = "target"
          /\ h.step = 2 => r.kind = "dataset"
          /\ h.step = 3 => r.kind = "initiator"
      BY <1>1, <1>2, <2>4, Orders DEF Kind, Order, Shape
    <3>2. h.step = 1 => OwnTargets(v)' = {}
      BY <1>3, <1>5, <2>1, <2>4, <3>1 DEF Deleted, OwnTargets
    <3>3. h.step = 3 => OwnInitiators(v)' = {}
      BY <1>3, <1>5, <2>1, <2>4, <3>1 DEF Deleted, OwnInitiators
    <3> QED
      BY <1>5, <2>1, <2>2, <2>3, <3>1, <3>2, <3>3
  <2> QED
    BY <2>2, <2>4
<1> QED
  BY <1>2, <1>4, <1>5

\* A step that leaves what v has alone.
LEMMA SameClears ==
  ASSUME NEW v \in Volumes, Clears(v),
         OwnTargets(v)' = OwnTargets(v), OwnInitiators(v)' = OwnInitiators(v),
         v \in nas'.datasets <=> v \in nas.datasets,
         handler'[v] = handler[v], phase'[v] = phase[v]
  PROVE  Clears(v)'
BY DEF Clears, Deleted, OneInitiator, Gone

LEMMA OwnStepClears ==
  ASSUME PrefixFree, TypeInv, OwnInv, NEW v \in Volumes, Agrees(v), Clears(v),
         Provision(v) \/ Handle(v) \/ RejectCall(v) \/ LoseReply(v) \/ Abandon(v)
  PROVE  Clears(v)'
<1> DEFINE h == handler[v]
<1>1. /\ h \in Handlers /\ h \in HandlerType /\ Shape(h)
      /\ DOMAIN phase = Volumes
  BY HandlerFacts
<1>2. Deleted(v) /\ OneInitiator(v) /\ (phase[v] = "gone" => Gone(v))
  BY DEF Clears
<1>3. ASSUME nas' = nas
      PROVE  /\ OwnTargets(v)' = OwnTargets(v) /\ OwnInitiators(v)' = OwnInitiators(v)
             /\ Gone(v)' <=> Gone(v)
  BY <1>3 DEF OwnTargets, OwnInitiators, Gone
<1>4. h.rpc # "idle" => phase[v] # "gone"
  BY <1>1 DEF Agrees, Shape
<1>5. CASE Provision(v)
  BY <1>1, <1>2, <1>3, <1>5, ProvisionMoves DEF Clears, Deleted, OneInitiator
<1>6. CASE LookupHit(v)
  <2>1. CASE h.rpc = "create"
    BY <1>2, <1>3, <1>4, <1>6, <2>1, HitMoves DEF Clears, Deleted, OneInitiator
  <2>2. CASE h.rpc = "delete"
    <3>1. PICK id \in Hits(v) :
            /\ Kind(h) = "target" => handler'[v].ids.target = id
            /\ Kind(h) = "initiator" => handler'[v].ids.initiator = id
      BY <1>6, <2>2, HitMoves
    <3>2. /\ nas' = nas /\ phase' = phase
          /\ handler'[v].rpc = "delete" /\ handler'[v].verb = "delete" /\ handler'[v].step = h.step
      BY <1>6, <2>2, HitMoves
    <3>3. h.step = 1 => \A t \in OwnTargets(v) : t.id = handler'[v].ids.target
      <4>1. h.step = 1 => Kind(h) = "target"
        BY <2>2, Orders DEF Kind, Order
      <4>2. Kind(h) = "target" => \E t \in nas.targets : t.vol = v /\ t.id = id
        BY DEF Hits, FindISCSITarget
      <4> QED
        BY <3>1, <4>1, <4>2 DEF OwnInv, Identified, OwnTargets
    <3>4. h.step = 3 => \A i \in OwnInitiators(v) : i.id = handler'[v].ids.initiator
      <4>1. h.step = 3 => Kind(h) = "initiator"
        BY <2>2, Orders DEF Kind, Order
      <4>2. Kind(h) = "initiator" => \E i \in nas.initiators : <<v, i.vol>> \in Prefixes /\ i.id = id
        BY DEF Hits, FindISCSIInitiator
      <4>3. Kind(h) = "initiator" => \E i \in OwnInitiators(v) : i.id = id
        BY <4>2 DEF PrefixFree, OwnInitiators
      <4> QED
        BY <1>2, <3>1, <4>1, <4>3 DEF OneInitiator
    <3> QED
      BY <1>2, <1>3, <1>4, <2>2, <3>2, <3>3, <3>4 DEF Clears, Deleted, OneInitiator
  <2> QED
    BY <1>6, <2>1, <2>2, HitMoves
<1>7. CASE LookupMiss(v)
  <2>1. nas' = nas /\ phase' = phase /\ Hits(v) = {} /\ h.verb = "find"
    BY <1>7, MissMoves
  <2>2. CASE h.rpc = "create"
    <3>1. handler'[v] = [h EXCEPT !.verb = "create"]
      BY <1>7, <2>2, MissMoves
    <3>2. handler'[v].rpc = "create" /\ handler'[v].step = h.step
      BY <1>1, <2>2, <3>1 DEF HandlerType
    <3>3. h.step = 3 => OwnInitiators(v) = {}
      <4>1. h.step = 3 => Kind(h) = "initiator"
        BY <2>2, Orders DEF Kind, Order
      <4>2. Kind(h) = "initiator" => FindISCSIInitiator(v) = {}
        BY <2>1 DEF Hits
      <4> QED
        BY <4>1, <4>2, PrefixesAssumption DEF FindISCSIInitiator, OwnInitiators
    <3> QED
      BY <1>2, <1>3, <1>4, <2>1, <2>2, <3>2, <3>3 DEF Clears, Deleted, OneInitiator
  <2>3. CASE h.rpc = "delete"
    <3>1. /\ h.step = 1 => Kind(h) = "target"
          /\ h.step = 2 => Kind(h) = "dataset"
          /\ h.step = 3 => Kind(h) = "initiator"
          /\ h.step \in {1, 2, 3}
      BY <1>1, <2>3, Orders DEF Kind, Order, Shape
    <3>2. Kind(h) = "target" => OwnTargets(v) = {}
      BY <2>1 DEF Hits, FindISCSITarget, OwnTargets
    <3>3. Kind(h) = "dataset" => v \notin nas.datasets
      BY <2>1 DEF Hits, FindDataset
    <3>4. Kind(h) = "initiator" => OwnInitiators(v) = {}
      BY <2>1, PrefixesAssumption DEF Hits, FindISCSIInitiator, OwnInitiators
    <3>5. /\ handler'[v].rpc = "delete"
          /\ IF h.step = 3 THEN handler'[v].step = 3 /\ handler'[v].verb = "reply"
                           ELSE handler'[v].step = h.step + 1 /\ handler'[v].verb = "find"
      BY <1>1, <1>7, <2>3, MissMoves, NextKindMoves
    <3> QED
      BY <1>2, <1>3, <1>4, <2>1, <2>3, <3>1, <3>2, <3>3, <3>4, <3>5 DEF Clears, Deleted, OneInitiator
  <2> QED
    BY <1>7, <2>2, <2>3, MissMoves
<1>8. CASE Call(v)
  <2>1. InCall(v) /\ nas' = After(Request(v)) /\ phase' = phase /\ h.rpc # "idle"
    BY <1>8, CallMoves
  <2>2. \A i, j \in OwnInitiators(v)' : i = j
    BY <2>1, OwnCallClears
  <2>3. CASE h.rpc = "create" \/ h.rpc = "rollback"
    BY <1>4, <1>8, <2>1, <2>2, <2>3, CallMoves DEF Clears, Deleted, OneInitiator
  <2>4. CASE h.rpc = "delete"
    <3>1. /\ handler'[v].rpc = "delete"
          /\ IF h.step = 3 THEN handler'[v].step = 3 /\ handler'[v].verb = "reply"
                           ELSE handler'[v].step = h.step + 1 /\ handler'[v].verb = "find"
      BY <1>1, <1>8, <2>4, CallMoves, NextKindMoves
    <3> QED
      BY <1>2, <1>4, <2>1, <2>2, <2>4, <3>1, OwnCallClears DEF Clears, Deleted, OneInitiator
  <2> QED
    BY <1>8, <2>3, <2>4, CallMoves
<1>9. CASE Refused(v) \/ RejectCall(v) \/ LoseReply(v)
  <2>1. phase' = phase /\ (nas' = nas \/ (InCall(v) /\ nas' = After(Request(v)))) /\ h.rpc # "idle"
    BY <1>9, ErrorMoves
  <2>2. \A i, j \in OwnInitiators(v)' : i = j
    BY <1>2, <1>3, <2>1, OwnCallClears DEF OneInitiator
  <2>3. CASE h.rpc \in {"create", "rollback"}
    BY <1>4, <1>9, <2>1, <2>2, <2>3, ErrorMoves DEF Clears, Deleted, OneInitiator
  <2>4. CASE h.rpc = "delete"
    <3>1. handler'[v] = [h EXCEPT !.verb = "error"]
      BY <1>9, <2>4, ErrorMoves
    <3>2. handler'[v].rpc = "delete" /\ handler'[v].verb = "error" /\ handler'[v].step = h.step
      BY <1>1, <2>4, <3>1 DEF HandlerType
    <3>3. /\ OwnTargets(v) = {} => OwnTargets(v)' = {}
          /\ v \notin nas.datasets => v \notin nas'.datasets
      BY <1>3, <2>1, <2>4, OwnCallClears
    <3> QED
      BY <1>2, <1>4, <2>1, <2>2, <2>4, <3>2, <3>3 DEF Clears, Deleted, OneInitiator
  <2> QED
    BY <1>9, <2>3, <2>4, ErrorMoves
<1>10. CASE Reply(v) \/ ReplyError(v)
  <2>1. handler'[v].rpc = "idle" /\ nas' = nas
    BY <1>10, ReplyMoves DEF Idle
  <2>2. phase'[v] = "gone" => h.rpc = "delete" /\ h.verb = "reply"
    BY <1>1, <1>10, ReplyMoves
  <2>3. h.rpc = "delete" /\ h.verb = "reply" => Gone(v)
    BY <1>2 DEF Deleted, Gone
  <2> QED
    BY <1>2, <1>3, <2>1, <2>2, <2>3 DEF Clears, Deleted, OneInitiator
<1>11. CASE Abandon(v)
  <2>1. /\ phase' = phase /\ (nas' = nas \/ (InCall(v) /\ nas' = After(Request(v)))) /\ h.rpc # "idle"
        /\ handler'[v].rpc = "idle"
    BY <1>11, AbandonMoves DEF Idle
  <2>2. \A i, j \in OwnInitiators(v)' : i = j
    BY <1>2, <1>3, <2>1, OwnCallClears DEF OneInitiator
  <2> QED
    BY <1>4, <2>1, <2>2 DEF Clears, Deleted, OneInitiator
<1> QED
  BY <1>5, <1>6, <1>7, <1>8, <1>9, <1>10, <1>11 DEF Handle

\* A step of one volume leaves the objects of the others alone.
LEMMA OthersObjects ==
  ASSUME PrefixFree, TypeInv, TypeInv', OwnInv, OwnInv', [Next]_vars, NEW w \in Volumes, ~Moves(w)
  PROVE  Objects(w)' = Objects(w)
<1>1. CASE nas' = nas
  BY <1>1 DEF Objects, OwnExtents, OwnInitiators, OwnTargets, OwnMappings
<1>2. CASE nas' # nas
  <2>1. PICK u \in Volumes : ChangeOf(u) /\ Moves(u)
    BY <1>2, StepChanges
  <2>2. u # w
    BY <2>1
  <2> QED
    BY <2>1, <2>2, ChangeKeepsObjects DEF TypeInv, OwnInv
<1> QED
  BY <1>1, <1>2

LEMMA ClearInvStep ==
  ASSUME PrefixFree
  PROVE  TypeInv /\ TypeInv' /\ OwnInv /\ OwnInv' /\ BuildInv /\ AgreeInv /\ ClearInv /\ [Next]_vars => ClearInv'
<1> SUFFICES ASSUME TypeInv, TypeInv', OwnInv, OwnInv', BuildInv, AgreeInv, ClearInv, [Next]_vars,
                    used'.late = 0, NEW w \in Volumes
             PROVE  Clears(w)'
  BY DEF ClearInv
<1>1. used.late = 0 /\ ~\E v \in Volumes : AbandonLate(v)
  BY LateBefore
<1>2. late = {} /\ Clears(w) /\ Agrees(w)
  BY <1>1 DEF BuildInv, ClearInv, AgreeInv
<1>3. ASSUME NEW v \in Volumes, Provision(v) \/ Handle(v) \/ RejectCall(v) \/ LoseReply(v) \/ Abandon(v)
      PROVE  Clears(w)'
  <2>1. CASE w = v
    BY <1>2, <1>3, <2>1, OwnStepClears
  <2>2. CASE w # v
    <3>1. late' = late /\ handler'[w] = handler[w] /\ phase'[w] = phase[w]
      BY <1>3, <2>2, OnlyOneMoves
    <3>2. Objects(w)' = Objects(w)
      BY <3>1, OthersObjects DEF Moves
    <3>3. /\ OwnTargets(w)' = OwnTargets(w) /\ OwnInitiators(w)' = OwnInitiators(w)
          /\ w \in nas'.datasets <=> w \in nas.datasets
      BY <3>2 DEF Objects
    <3> QED
      BY <1>2, <3>1, <3>3, SameClears
  <2> QED
    BY <2>1, <2>2
<1>4. CASE UNCHANGED vars
  <2>1. OwnTargets(w)' = OwnTargets(w) /\ OwnInitiators(w)' = OwnInitiators(w)
    BY <1>4 DEF vars, OwnTargets, OwnInitiators
  <2> QED
    BY <1>2, <1>4, <2>1, SameClears DEF vars
<1> QED
  BY <1>1, <1>2, <1>3, <1>4 DEF Next, Disturb

LEMMA ClearInvariant == ASSUME PrefixFree PROVE Spec => [](TypeInv /\ OwnInv /\ Backed /\ BuildInv /\ AgreeInv /\ ClearInv)
<1>1. Init => ClearInv
  <2>1. Init => /\ nas.datasets = {} /\ nas.targets = {} /\ nas.initiators = {}
    BY DEF Init, EmptyNas
  <2>2. \A v \in Volumes : Init => handler[v] = Idle /\ phase[v] = "absent"
    BY DEF Init
  <2>3. Idle.rpc = "idle"
    BY DEF Idle
  <2> QED
    BY <2>1, <2>2, <2>3 DEF ClearInv, Clears, Deleted, OneInitiator, OwnInitiators
<1>2. Init => BuildInv
  BY DEF Init, BuildInv, BuiltUp, Idle
<1> QED
  BY <1>1, <1>2, ClearInvStep, BuildInvStep, TypeInvariant, OwnInvariant, BackedInvariant, AgreeInvariant, PTL DEF Spec

\* Without dataset and target there is neither extent nor mapping.
GoneIsEmpty == Backed => \A v \in Volumes : Gone(v) => Objects(v) = Nothing

LEMMA GoneIsNothing == GoneIsEmpty
<1> SUFFICES ASSUME Backed, NEW v \in Volumes, Gone(v) PROVE Objects(v) = Nothing
  BY DEF GoneIsEmpty
<1>1. OwnExtents(v) = {}
  BY DEF Gone, Backed, OwnExtents
<1>2. OwnMappings(v) = {}
  BY <1>1 DEF Gone, OwnMappings
<1>3. (v \in nas.datasets) = FALSE /\ OwnTargets(v) = {} /\ OwnInitiators(v) = {}
  BY DEF Gone
<1> QED
  BY <1>1, <1>2, <1>3, Zenon DEF Objects, Nothing

(***************************************************************************)
(* When no volume id is a prefix of another one, a DeleteVolume that is    *)
(* answered with success has deleted all of the volume, whatever the       *)
(* attempts to create and to delete it before made and left, and nothing   *)
(* of it comes back, as long as no request is late: the one target,        *)
(* dataset and initiator that iscsiDeleteVolume looks up are all there are *)
(* (iscsi.go:351-411).                                                     *)
(***************************************************************************)
THEOREM GoneAlwaysEmpty == ASSUME PrefixFree PROVE Spec => []GoneLeavesNothing
<1>1. Backed /\ ClearInv => GoneLeavesNothing
  BY GoneIsNothing DEF GoneIsEmpty, ClearInv, Clears, GoneLeavesNothing
<1> QED
  BY <1>1, ClearInvariant, PTL

-----------------------------------------------------------------------------
(***************************************************************************)
(* The handlers implement VolumeLifecycle.                                 *)
(***************************************************************************)
\* Served, in terms of v's own objects.
ServedOwn(v) ==
  /\ v \in nas.datasets
  /\ \E t \in OwnTargets(v), e \in OwnExtents(v) :
       [target |-> t.id, extent |-> e.id, lun |-> 0] \in OwnMappings(v)

ServedIsOwn == \A v \in Volumes : Served(v) <=> ServedOwn(v)

LEMMA ServedByOwn == ServedIsOwn
<1> SUFFICES ASSUME NEW v \in Volumes PROVE Served(v) <=> ServedOwn(v)
  BY DEF ServedIsOwn
<1>1. ASSUME NEW t \in OwnTargets(v), NEW e \in OwnExtents(v)
      PROVE  LET m == [target |-> t.id, extent |-> e.id, lun |-> 0]
             IN m \in OwnMappings(v) <=> m \in nas.mappings
  BY DEF OwnMappings
<1> QED
  BY <1>1 DEF Served, ServedOwn, OwnTargets, OwnExtents

\* How much is there is a matter of the objects.
Measures(v) ==
  /\ Backing(v) \in {"none", "partial", "whole"}
  /\ Backing(v) = "none" <=> Objects(v) = Nothing
  /\ Served(v) => Backing(v) = "whole"
  /\ OwnTargets(v) = {} => Backing(v) # "whole"

AllMeasured == \A v \in Volumes : Measures(v)

LEMMA BackingOfObjects == AllMeasured
<1> SUFFICES ASSUME NEW v \in Volumes PROVE Measures(v)
  BY DEF AllMeasured
<1>1. Served(v) => OwnTargets(v) # {}
  BY DEF Served, OwnTargets
<1>2. Objects(v) = Nothing => OwnTargets(v) = {}
  BY DEF Objects, Nothing
<1> HIDE DEF Objects, Nothing
<1>3. CASE Objects(v) = Nothing
  BY <1>1, <1>2, <1>3 DEF Backing, Measures
<1>4. CASE Objects(v) # Nothing /\ Served(v)
  BY <1>1, <1>4 DEF Backing, Measures
<1>5. CASE Objects(v) # Nothing /\ ~Served(v)
  BY <1>5 DEF Backing, Measures
<1> QED
  BY <1>3, <1>4, <1>5

LEMMA BackingKept ==
  ASSUME NEW v \in Volumes, Objects(v)' = Objects(v)
  PROVE  Backing(v)' = Backing(v)
<1>1. /\ OwnTargets(v)' = OwnTargets(v) /\ OwnExtents(v)' = OwnExtents(v)
      /\ OwnMappings(v)' = OwnMappings(v)
      /\ v \in nas'.datasets <=> v \in nas.datasets
  BY DEF Objects
<1>2. ServedIsOwn'
  BY ServedByOwn, PTL
<1>3. Served(v)' <=> Served(v)
  BY <1>1, <1>2, ServedByOwn DEF ServedIsOwn, ServedOwn
<1>4. (Objects(v) = Nothing)' <=> Objects(v) = Nothing
  BY DEF Nothing
<1> QED
  BY <1>3, <1>4 DEF Backing

\* A step of the abstract lifecycle, or none, seen through Backing.
Progress == Lifecycle!Next \/ UNCHANGED <<phase, [v \in Volumes |-> Backing(v)]>>

LEMMA LifecycleInit == Init => Lifecycle!Init
<1> SUFFICES ASSUME Init PROVE Lifecycle!Init
  OBVIOUS
<1>1. nas.datasets = {} /\ nas.extents = {} /\ nas.initiators = {} /\ nas.targets = {} /\ nas.mappings = {}
  BY DEF Init, EmptyNas
<1>2. \A v \in Volumes : Gone(v) /\ Backed
  BY <1>1 DEF Gone, Backed, OwnTargets, OwnInitiators
<1>3. \A v \in Volumes : Backing(v) = "none"
  BY <1>2, GoneIsNothing, BackingOfObjects DEF GoneIsEmpty, AllMeasured, Measures
<1> QED
  BY <1>3 DEF Init, Lifecycle!Init

LEMMA NothingBacked ==
  ASSUME nas' = nas
  PROVE  UNCHANGED [v \in Volumes |-> Backing(v)]
BY DEF Backing, Objects, OwnExtents, OwnInitiators, OwnTargets, OwnMappings, Served, Nothing

\* What the provisioner learns, TrueNAS being as it was.
LEMMA PhaseProgress ==
  ASSUME NEW v \in Volumes, NEW p, nas' = nas, phase' = [phase EXCEPT ![v] = p],
         \/ phase[v] \in {"absent", "creating", "failed"} /\ p = "creating"
         \/ phase[v] = "creating" /\ p = "failed"
         \/ phase[v] = "creating" /\ Served(v) /\ p = "bound"
         \/ phase[v] \in {"bound", "deleting"} /\ p = "deleting"
         \/ phase[v] = "deleting" /\ Objects(v) = Nothing /\ p = "gone"
  PROVE  Progress
<1> DEFINE backing == [w \in Volumes |-> Backing(w)]
<1>1. UNCHANGED backing
  BY NothingBacked
<1>2. /\ Served(v) => backing[v] = "whole"
      /\ Objects(v) = Nothing => backing[v] = "none"
  BY BackingOfObjects DEF AllMeasured, Measures
<1> HIDE DEF backing
<1>3. \/ Lifecycle!Create(v) \/ Lifecycle!CreateFailed(v) \/ Lifecycle!Created(v)
      \/ Lifecycle!Delete(v) \/ Lifecycle!Deleted(v)
  BY <1>1, <1>2
     DEF backing, Lifecycle!Create, Lifecycle!CreateFailed, Lifecycle!Created, Lifecycle!Delete,
         Lifecycle!Deleted, Lifecycle!Enter
<1> QED
  BY <1>3 DEF Progress, Lifecycle!Next

\* A handler's call builds the volume in CreateVolume and dismantles it in DeleteVolume.
LEMMA CallProgress ==
  ASSUME TypeInv, Backed', NEW v \in Volumes, Agrees(v), Clears(v),
         handler[v].rpc \in {"create", "rollback", "delete"},
         InCall(v), nas' = After(Request(v)), phase' = phase,
         \A w \in Volumes \ {v} : Objects(w)' = Objects(w)
  PROVE  Progress
<1> DEFINE backing == [w \in Volumes |-> Backing(w)]
<1>1. \A w \in Volumes : w # v => Backing(w)' = Backing(w)
  BY BackingKept
<1>2. AllMeasured'
  BY BackingOfObjects, PTL
<1>3. backing' = [backing EXCEPT ![v] = Backing(v)']
  BY <1>1
<1>4. CASE handler[v].rpc \in {"create", "rollback"}
  <2>1. Backing(v)' \in {"none", "partial", "whole"}
    BY <1>2 DEF AllMeasured, Measures
  <2>2. Lifecycle!Build(v)
    BY <1>3, <1>4, <2>1 DEF Lifecycle!Build, Lifecycle!Backings, Agrees
  <2> QED
    BY <2>2 DEF Progress, Lifecycle!Next
<1>5. CASE handler[v].rpc = "delete"
  <2>1. phase[v] = "deleting"
    BY <1>5 DEF Agrees
  <2>2. /\ handler[v].verb = "delete"
        /\ OwnTargets(v)' = {}
    BY <1>5, OwnCallClears DEF Clears, Deleted
  <2>3. ASSUME Objects(v) = Nothing PROVE Objects(v)' = Nothing
    <3>1. v \notin nas.datasets /\ OwnExtents(v) = {} /\ OwnInitiators(v) = {} /\ OwnTargets(v) = {}
      BY <2>3 DEF Objects, Nothing
    <3>2. Request(v) \in Requests /\ Request(v).verb = "delete"
      BY <2>2, HandlerFacts, RequestIsRequest DEF Request
    <3>3. /\ nas'.datasets \subseteq nas.datasets /\ nas'.initiators \subseteq nas.initiators
          /\ nas'.targets \subseteq nas.targets
      BY <3>2, DeleteShrinks DEF TypeInv
    <3>4. Gone(v)'
      BY <3>1, <3>3 DEF Gone, OwnInitiators, OwnTargets
    <3>5. GoneIsEmpty'
      BY GoneIsNothing, PTL
    <3> QED
      BY <3>4, <3>5 DEF GoneIsEmpty, Nothing
  <2>4. Backing(v)' \in {"none", "partial"} /\ (Backing(v)' = "partial" => backing[v] # "none")
    BY <1>2, <2>2, <2>3, BackingOfObjects DEF AllMeasured, Measures, Nothing
  <2>5. Lifecycle!Dismantle(v)
    BY <1>3, <2>1, <2>4 DEF Lifecycle!Dismantle
  <2> QED
    BY <2>5 DEF Progress, Lifecycle!Next
<1> QED
  BY <1>4, <1>5

LEMMA LifecycleStep ==
  ASSUME PrefixFree, TypeInv, OwnInv, Backed, BuildInv, AgreeInv, ClearInv, TypeInv', OwnInv', Backed',
         [Next]_vars, used'["late"] = 0
  PROVE  Progress
<1>1. used.late = 0 /\ ~\E v \in Volumes : AbandonLate(v)
  BY LateBefore
<1>2. late = {} /\ \A v \in Volumes : BuiltUp(nas, v, handler[v], phase[v]) /\ Agrees(v) /\ Clears(v)
  BY <1>1 DEF BuildInv, AgreeInv, ClearInv
<1>3. ASSUME nas' = nas, phase' = phase PROVE Progress
  BY <1>3, NothingBacked DEF Progress
<1>4. ASSUME NEW v \in Volumes, Provision(v) \/ Handle(v) \/ RejectCall(v) \/ LoseReply(v) \/ Abandon(v),
             InCall(v), nas' = After(Request(v)), phase' = phase
      PROVE  Progress
  <2>1. \A w \in Volumes \ {v} : ~Moves(w)
    BY <1>4, OnlyOneMoves DEF Moves
  <2>2. \A w \in Volumes \ {v} : Objects(w)' = Objects(w)
    BY <2>1, OthersObjects
  <2>3. handler[v].rpc \in {"create", "rollback", "delete"}
    BY <1>4, HandlerFacts DEF InCall, Shape
  <2> QED
    BY <1>2, <1>4, <2>2, <2>3, CallProgress
<1>5. ASSUME NEW v \in Volumes, Provision(v) PROVE Progress
  BY <1>5, ProvisionMoves, PhaseProgress
<1>6. ASSUME NEW v \in Volumes, LookupHit(v) \/ LookupMiss(v) PROVE Progress
  BY <1>3, <1>6, HitMoves, MissMoves
<1>7. ASSUME NEW v \in Volumes, Call(v) PROVE Progress
  BY <1>4, <1>7, CallMoves DEF Handle
<1>8. ASSUME NEW v \in Volumes, Refused(v) \/ RejectCall(v) \/ LoseReply(v) PROVE Progress
  BY <1>3, <1>4, <1>8, ErrorMoves DEF Handle
<1>9. ASSUME NEW v \in Volumes, Reply(v) \/ ReplyError(v) PROVE Progress
  <2>1. nas' = nas
    BY <1>9, ReplyMoves
  <2>2. CASE handler[v].rpc = "create"
    <3>1. phase[v] = "creating" /\ phase' = [phase EXCEPT ![v] = "bound"] /\ handler[v].verb = "reply"
      BY <1>2, <1>9, <2>2, ReplyMoves DEF Agrees
    <3>2. Served(v)
      BY <1>2, <2>2, <3>1 DEF BuiltUp, ServedIn, Served
    <3> QED
      BY <2>1, <3>1, <3>2, PhaseProgress
  <2>3. CASE handler[v].rpc = "delete" /\ handler[v].verb = "reply" /\ phase' = [phase EXCEPT ![v] = "gone"]
    <3>1. phase[v] = "deleting"
      BY <1>2, <2>3 DEF Agrees
    <3>2. Gone(v)
      BY <1>2, <2>3 DEF Clears, Deleted, Gone
    <3>3. Objects(v) = Nothing
      BY <3>2, GoneIsNothing DEF GoneIsEmpty
    <3> QED
      BY <2>1, <2>3, <3>1, <3>3, PhaseProgress
  <2>4. CASE handler[v].rpc = "delete" /\ phase' = [phase EXCEPT ![v] = "deleting"]
    BY <1>2, <2>1, <2>4, PhaseProgress DEF Agrees
  <2>5. CASE handler[v].rpc = "rollback" /\ phase' = [phase EXCEPT ![v] = "failed"]
    BY <1>2, <2>1, <2>5, PhaseProgress DEF Agrees
  <2> QED
    BY <1>9, <2>2, <2>3, <2>4, <2>5, ReplyMoves
<1>10. ASSUME NEW v \in Volumes, Abandon(v) PROVE Progress
  BY <1>3, <1>4, <1>10, AbandonMoves
<1>11. CASE UNCHANGED vars
  BY <1>3, <1>11 DEF vars
<1> QED
  BY <1>1, <1>2, <1>5, <1>6, <1>7, <1>8, <1>9, <1>10, <1>11 DEF Next, Handle, Disturb

(***************************************************************************)
(* When no volume id is a prefix of another one, and until a request is    *)
(* left behind to be executed late, iscsiCreateVolume and                  *)
(* iscsiDeleteVolume (iscsi.go:65-411) implement the lifecycle: success is *)
(* answered only for a volume that is whole, or gone, and in between       *)
(* nothing is built except in CreateVolume, its rollbacks included.        *)
(***************************************************************************)
THEOREM LifecycleImplemented == ASSUME PrefixFree PROVE Spec => ImplementsLifecycle
<1> DEFINE Inv == TypeInv /\ OwnInv /\ Backed /\ BuildInv /\ AgreeInv /\ ClearInv
<1>1. Inv /\ Inv' /\ [Next]_vars
        => [used'["late"] = 0 => Lifecycle!Next]_<<phase, [v \in Volumes |-> Backing(v)]>>
  BY LifecycleStep DEF Progress
<1> QED
  BY <1>1, LifecycleInit, ClearInvariant, PTL DEF Spec, ImplementsLifecycle

-----------------------------------------------------------------------------
(***************************************************************************)
(* What CreateVolume leaves, when it succeeds and when it fails.           *)
(***************************************************************************)

(***************************************************************************)
(* What a CreateVolume has looked for and not found is not there, since    *)
(* nobody else makes it, and the initiator group that it has found or made *)
(* is.                                                                     *)
(***************************************************************************)
Missing(v) ==
  LET h == handler[v]
  IN h.rpc = "create" /\ h.verb = "create" =>
       /\ h.step = 1 => v \notin nas.datasets
       /\ h.step = 2 => OwnExtents(v) = {}
       /\ h.step = 4 => OwnTargets(v) = {}
       /\ h.step = 5 => \A m \in OwnMappings(v) : m.target # h.ids.target \/ m.extent # h.ids.extent

HoldsInitiator(v) ==
  handler[v].rpc = "create" /\ handler[v].step >= 4
    => \E i \in OwnInitiators(v) : i.id = handler[v].ids.initiator

LooksInv == used.late = 0 => \A v \in Volumes : Missing(v) /\ HoldsInitiator(v)

\* While handlers are only abandoned nothing is rolled back.
DoneInv ==
  used.reject + used.lost + used.late = 0
    => \A v \in Volumes : handler[v].rpc # "rollback" /\ TargetHasInitiator(v)

(***************************************************************************)
(* While one call at most is rejected, and nothing else goes wrong, a      *)
(* CreateVolume starts from nothing and finds nothing, and a rollback goes *)
(* through all that there is.                                              *)
(***************************************************************************)
OneRejected == used.reject <= 1 /\ used.lost + used.abandon + used.late = 0

BuiltFromNothing(v) ==
  LET h == handler[v]
  IN h.rpc = "create" /\ h.verb # "reply" =>
       /\ h.step <= 1 => v \notin nas.datasets
       /\ h.step <= 2 => OwnExtents(v) = {}
       /\ h.step <= 3 => OwnInitiators(v) = {}
       /\ h.step <= 4 => OwnTargets(v) = {}
       /\ OwnMappings(v) = {}

Undone(v) ==
  LET h == handler[v]
      pending(step) == h.verb = "delete" /\ h.step <= step /\ step < h.until
  IN h.rpc = "rollback" =>
       /\ used.reject = 1
       /\ v \in nas.datasets => pending(1)
       /\ \A i \in OwnInitiators(v) : i.id = h.ids.initiator /\ pending(3)
       /\ \A t \in OwnTargets(v) : t.id = h.ids.target /\ pending(4)
       /\ OwnMappings(v) = {}

Traced(v) ==
  /\ phase[v] \in {"absent", "failed"} => Gone(v)
  /\ phase[v] = "creating" => handler[v].rpc \in {"create", "rollback"}
  /\ BuiltFromNothing(v)
  /\ Undone(v)

UndoInv == OneRejected => \A v \in Volumes : Traced(v)

(***************************************************************************)
(* What the steps of CreateVolume do to it, and what the faults count.     *)
(***************************************************************************)
LEMMA FaultsCount ==
  ASSUME TypeInv, [Next]_vars
  PROVE  /\ \A f \in FaultKinds : used[f] \in Nat /\ used'[f] \in Nat /\ used[f] <= used'[f]
         /\ \A v \in Volumes : /\ RejectCall(v) => used'.reject = used.reject + 1
                               /\ LoseReply(v) => used'.lost > 0
                               /\ Abandon(v) => used'.abandon > 0
                               /\ AbandonLate(v) => used'.late > 0
<1>1. used \in [FaultKinds -> Nat]
  BY DEF TypeInv
<1>2. \A f \in FaultKinds : Fault(f) => used' = [used EXCEPT ![f] = used[f] + 1]
  BY DEF Fault
<1>3. used' = used \/ \E f \in FaultKinds : Fault(f)
  BY DEF Next, Provision, CreateVolume, RetryCreateVolume, DeleteVolume, RetryDeleteVolume, Start,
         Handle, LookupHit, LookupMiss, Call, Refused, Reply, ReplyError,
         Disturb, RejectCall, LoseReply, Abandon, AbandonLate, Deliver, vars, FaultKinds
<1>4. \A f \in FaultKinds : used[f] \in Nat /\ used'[f] \in Nat /\ used[f] <= used'[f]
  BY <1>1, <1>2, <1>3
<1>5. ASSUME NEW v \in Volumes
      PROVE  /\ RejectCall(v) => used'.reject = used.reject + 1
             /\ LoseReply(v) => used'.lost > 0
             /\ Abandon(v) => used'.abandon > 0
             /\ AbandonLate(v) => used'.late > 0
  BY <1>1, <1>2 DEF RejectCall, LoseReply, Abandon, AbandonLate, FaultKinds
<1> QED
  BY <1>4, <1>5

\* From one kind to the next, with one id more.
LEMMA CreateMoves ==
  ASSUME NEW h \in Handlers, h.rpc = "create", NEW id \in Int
  PROVE  LET g == NextKind(Holding(h, id))
         IN /\ g.rpc = "create"
            /\ IF h.step = 5 THEN g.step = 5 /\ g.verb = "reply" ELSE g.step = h.step + 1 /\ g.verb = "find"
            /\ g.ids.initiator = IF h.step = 3 THEN id ELSE h.ids.initiator
<1> DEFINE f == Holding(h, id)
<1>1. f \in Handlers /\ f \in HandlerType /\ f.rpc = "create" /\ f.step = h.step /\ h.step \in 1..5 /\ h \in HandlerType
  BY HoldingType DEF Handlers, Shape
<1>2. f.ids.initiator = IF h.step = 3 THEN id ELSE h.ids.initiator
  <2>1. Kind(h) = CreateOrder[h.step]
    BY DEF Kind, Order
  <2> QED
    BY <1>1, <2>1, Orders DEF Holding, HandlerType, IdsType
<1> HIDE DEF f
<1>3. Len(Order(f.rpc)) = 5
  BY <1>1, Orders DEF Order
<1>4. /\ NextKind(f).rpc = "create" /\ NextKind(f).ids = f.ids
      /\ IF f.step = 5 THEN NextKind(f).step = 5 /\ NextKind(f).verb = "reply"
                       ELSE NextKind(f).step = f.step + 1 /\ NextKind(f).verb = "find"
  BY <1>1, <1>3 DEF NextKind, HandlerType
<1> QED
  BY <1>1, <1>2, <1>4 DEF f

\* The same of the two steps that do it.
LEMMA CreateGoesOn ==
  ASSUME TypeInv, NEW v \in Volumes, handler[v].rpc = "create", LookupHit(v) \/ Call(v)
  PROVE  LET h == handler[v]
             g == handler'[v]
         IN /\ g.rpc = "create"
            /\ IF h.step = 5 THEN g.step = 5 /\ g.verb = "reply" ELSE g.step = h.step + 1 /\ g.verb = "find"
            /\ h.step # 3 => g.ids.initiator = h.ids.initiator
            /\ h.step = 3 /\ LookupHit(v) => g.ids.initiator \in Hits(v)
            /\ h.step = 3 /\ ~LookupHit(v) => g.ids.initiator = nas.nextId
<1> DEFINE h == handler[v]
<1>1. h \in Handlers /\ h.step \in 1..5 /\ nas.nextId \in Int
  BY HandlerFacts DEF Shape
<1>2. CASE LookupHit(v)
  <2>1. PICK id \in Hits(v) :
          Continue(v, IF Holding(h, id).rpc = "create" THEN NextKind(Holding(h, id))
                      ELSE [Holding(h, id) EXCEPT !.verb = "delete"])
    BY <1>2 DEF LookupHit
  <2>2. id \in Int
    BY HitsType DEF TypeInv
  <2>3. handler'[v] = NextKind(Holding(h, id))
    BY <1>1, <2>1, <2>2, HoldingType, HandlerFacts
  <2> QED
    BY <1>1, <1>2, <2>2, <2>3, CreateMoves
<1>3. CASE Call(v) /\ ~LookupHit(v)
  <2>1. handler'[v] = NextKind(Holding(h, nas.nextId))
    BY <1>3, HandlerFacts DEF Call, Succeeded
  <2> QED
    BY <1>1, <1>3, <2>1, CreateMoves
<1> QED
  BY <1>2, <1>3

\* A call of CreateVolume makes one object.
LEMMA OwnCreateCall ==
  ASSUME TypeInv, OwnInv, OwnInv', NEW v \in Volumes, handler[v].rpc = "create", InCall(v), nas' = After(Request(v))
  PROVE  LET h == handler[v]
         IN /\ h.step # 1 => (v \in nas'.datasets <=> v \in nas.datasets)
            /\ h.step # 2 => OwnExtents(v)' = OwnExtents(v)
            /\ h.step # 3 => OwnInitiators(v)' = OwnInitiators(v)
            /\ h.step = 3 => [id |-> nas.nextId, vol |-> v] \in OwnInitiators(v)'
            /\ OwnInitiators(v) \subseteq OwnInitiators(v)'
            /\ h.step # 4 => OwnTargets(v)' = OwnTargets(v)
            /\ h.step = 4 => \A t \in OwnTargets(v)' : t \in OwnTargets(v) \/ t.initiator = h.ids.initiator
            /\ h.step # 5 /\ OwnMappings(v) = {} => OwnMappings(v)' = {}
<1> DEFINE h == handler[v]
<1> DEFINE r == Request(v)
<1>1. h \in Handlers /\ h \in HandlerType /\ Shape(h) /\ nas \in NasType /\ h.step \in 1..5
  BY HandlerFacts DEF TypeInv, Shape
<1>2. r \in Requests /\ r.verb = "create" /\ r.kind = CreateOrder[h.step] /\ r.vol = v /\ r.ids = h.ids
  BY <1>1, RequestIsRequest DEF InCall, Request, Kind, Order, Shape
<1> HIDE DEF r
<1>3. /\ nas'.datasets = IF r.kind = "dataset" THEN nas.datasets \cup {v} ELSE nas.datasets
      /\ nas'.extents = IF r.kind = "extent" THEN nas.extents \cup {[id |-> nas.nextId, vol |-> v]} ELSE nas.extents
      /\ nas'.initiators = IF r.kind = "initiator"
                           THEN nas.initiators \cup {[id |-> nas.nextId, vol |-> v]} ELSE nas.initiators
      /\ nas'.targets = IF r.kind = "target"
                        THEN nas.targets \cup {[id |-> nas.nextId, vol |-> v, initiator |-> h.ids.initiator]}
                        ELSE nas.targets
      /\ r.kind # "mapping" => nas'.mappings = nas.mappings
  BY <1>1, <1>2, CreateGrows DEF r
<1>4. /\ r.kind = "dataset" <=> h.step = 1
      /\ r.kind = "extent" <=> h.step = 2
      /\ r.kind = "initiator" <=> h.step = 3
      /\ r.kind = "target" <=> h.step = 4
      /\ r.kind = "mapping" <=> h.step = 5
  BY <1>1, <1>2, Orders
<1>5. h.step # 2 => OwnExtents(v)' = OwnExtents(v)
  BY <1>3, <1>4 DEF OwnExtents
<1>6. /\ h.step # 3 => OwnInitiators(v)' = OwnInitiators(v)
      /\ h.step = 3 => [id |-> nas.nextId, vol |-> v] \in OwnInitiators(v)'
      /\ OwnInitiators(v) \subseteq OwnInitiators(v)'
  BY <1>3, <1>4 DEF OwnInitiators
<1>7. /\ h.step # 4 => OwnTargets(v)' = OwnTargets(v)
      /\ h.step = 4 => \A t \in OwnTargets(v)' : t \in OwnTargets(v) \/ t.initiator = h.ids.initiator
  BY <1>3, <1>4 DEF OwnTargets
<1>8. ASSUME h.step # 5, OwnMappings(v) = {} PROVE OwnMappings(v)' = {}
  <2> SUFFICES ASSUME NEW m \in OwnMappings(v)' PROVE FALSE
    OBVIOUS
  <2>1. m \in nas.mappings /\ m \in nas'.mappings
    BY <1>3, <1>4, <1>8 DEF OwnMappings
  <2>2. PICK t \in nas.targets : t.id = m.target
    BY <2>1 DEF OwnInv, Joined
  <2>3. t \in nas'.targets
    BY <1>3
  <2>4. PICK u \in nas'.targets : u.id = m.target /\ u.vol = v
    BY <2>1 DEF OwnInv, Identified, Joined, OwnMappings, OwnTargets, OwnExtents
  <2>5. t = u
    BY <2>2, <2>3, <2>4 DEF OwnInv, Identified
  <2>6. m \in OwnMappings(v)
    BY <2>1, <2>2, <2>4, <2>5 DEF OwnMappings, OwnTargets
  <2> QED
    BY <1>8, <2>6
<1> QED
  BY <1>3, <1>4, <1>5, <1>6, <1>7, <1>8

\* How a handler comes to be a CreateVolume's, or stays one.
LEMMA CreateSteps ==
  ASSUME TypeInv, NEW v \in Volumes, handler'[v].rpc = "create",
         Provision(v) \/ Handle(v) \/ RejectCall(v) \/ LoseReply(v) \/ Abandon(v)
  PROVE  \/ /\ Provision(v) /\ handler'[v].step = 1 /\ handler'[v].verb = "find" /\ nas' = nas
            /\ handler[v].rpc = "idle"
         \/ /\ handler[v].rpc = "create" /\ phase' = phase
            /\ \/ LookupHit(v) /\ nas' = nas
               \/ /\ LookupMiss(v) /\ nas' = nas
                  /\ handler'[v] = [handler[v] EXCEPT !.verb = "create"]
               \/ Call(v)
<1> DEFINE h == handler[v]
<1>1. h \in Handlers /\ h \in HandlerType
  BY HandlerFacts
<1>2. CASE Provision(v)
  BY <1>2, ProvisionMoves
<1>3. CASE LookupHit(v)
  BY <1>3, HitMoves
<1>4. CASE LookupMiss(v)
  <2>1. h.rpc # "delete"
    BY <1>1, <1>4, MissMoves, NextKindMoves
  <2> QED
    BY <1>4, <2>1, MissMoves
<1>5. CASE Call(v)
  <2>1. h.rpc # "delete"
    BY <1>1, <1>5, CallMoves, NextKindMoves
  <2> QED
    BY <1>5, <2>1, CallMoves
<1>6. CASE Refused(v) \/ RejectCall(v) \/ LoseReply(v)
  <2>1. h.rpc = "delete" /\ handler'[v] = [h EXCEPT !.verb = "error"]
    BY <1>6, ErrorMoves
  <2> QED
    BY <1>1, <2>1 DEF HandlerType
<1>7. CASE Reply(v) \/ ReplyError(v) \/ Abandon(v)
  BY <1>7, ReplyMoves, AbandonMoves DEF Idle
<1> QED
  BY <1>2, <1>3, <1>4, <1>5, <1>6, <1>7 DEF Handle

LEMMA OwnStepLooks ==
  ASSUME PrefixFree, TypeInv, OwnInv, OwnInv', NEW v \in Volumes, Missing(v), HoldsInitiator(v),
         Provision(v) \/ Handle(v) \/ RejectCall(v) \/ LoseReply(v) \/ Abandon(v)
  PROVE  Missing(v)' /\ HoldsInitiator(v)'
<1> DEFINE h == handler[v]
<1>1. h \in HandlerType /\ h.step \in Nat
  BY HandlerFacts DEF HandlerType
<1>2. CASE handler'[v].rpc # "create"
  BY <1>2 DEF Missing, HoldsInitiator
<1>3. CASE Provision(v) /\ handler'[v].step = 1 /\ handler'[v].verb = "find"
  BY <1>3 DEF Missing, HoldsInitiator
<1>4. CASE /\ LookupMiss(v) /\ h.rpc = "create" /\ nas' = nas
           /\ handler'[v] = [handler[v] EXCEPT !.verb = "create"]
  <2>1. handler'[v].rpc = "create" /\ handler'[v].step = h.step /\ handler'[v].ids = h.ids
    BY <1>1, <1>4 DEF HandlerType
  <2>2. Hits(v) = {}
    BY <1>4 DEF LookupMiss
  <2>3. /\ h.step = 1 => Kind(h) = "dataset"
        /\ h.step = 2 => Kind(h) = "extent"
        /\ h.step = 4 => Kind(h) = "target"
        /\ h.step = 5 => Kind(h) = "mapping"
    BY <1>4, Orders DEF Kind, Order
  <2>4. h.step = 1 => v \notin nas.datasets
    BY <2>2, <2>3 DEF Hits, FindDataset
  <2>5. h.step = 2 => OwnExtents(v) = {}
    BY <2>2, <2>3 DEF Hits, FindISCSIExtent, OwnExtents
  <2>6. h.step = 4 => OwnTargets(v) = {}
    BY <2>2, <2>3 DEF Hits, FindISCSITarget, OwnTargets
  <2>7. h.step = 5 => \A m \in OwnMappings(v) : m.target # h.ids.target \/ m.extent # h.ids.extent
    BY <2>2, <2>3 DEF Hits, FindISCSITargetExtent, OwnMappings
  <2>8. /\ OwnExtents(v)' = OwnExtents(v) /\ OwnTargets(v)' = OwnTargets(v)
        /\ OwnMappings(v)' = OwnMappings(v) /\ OwnInitiators(v)' = OwnInitiators(v)
    BY <1>4 DEF OwnExtents, OwnTargets, OwnMappings, OwnInitiators
  <2> QED
    BY <1>4, <2>1, <2>4, <2>5, <2>6, <2>7, <2>8 DEF Missing, HoldsInitiator
<1>5. CASE h.rpc = "create" /\ handler'[v].rpc = "create" /\ (LookupHit(v) \/ Call(v))
  <2>1. handler'[v].verb \in {"find", "reply"}
    BY <1>5, HitMoves, CallMoves
  <2>2. OwnInitiators(v) \subseteq OwnInitiators(v)'
    <3>1. CASE LookupHit(v)
      BY <3>1 DEF LookupHit, OwnInitiators
    <3>2. CASE Call(v)
      BY <1>5, <3>2, OwnCreateCall DEF Call
    <3> QED
      BY <1>5, <3>1, <3>2
  <2>3. CASE h.step # 3
    BY <1>1, <1>5, <2>1, <2>2, <2>3, CreateGoesOn DEF Missing, HoldsInitiator
  <2>4. CASE h.step = 3 /\ LookupHit(v)
    <3>1. Kind(h) = "initiator"
      BY <1>5, <2>4, Orders DEF Kind, Order
    <3>2. handler'[v].ids.initiator \in FindISCSIInitiator(v)
      BY <1>5, <2>4, <3>1, CreateGoesOn DEF Hits
    <3>3. \E i \in OwnInitiators(v) : i.id = handler'[v].ids.initiator
      BY <3>2 DEF FindISCSIInitiator, OwnInitiators, PrefixFree
    <3> QED
      BY <2>1, <2>2, <3>3 DEF Missing, HoldsInitiator
  <2>5. CASE h.step = 3 /\ ~LookupHit(v)
    <3>1. handler'[v].ids.initiator = nas.nextId
      BY <1>5, <2>5, CreateGoesOn
    <3>2. [id |-> nas.nextId, vol |-> v] \in OwnInitiators(v)'
      BY <1>5, <2>5, OwnCreateCall DEF Call
    <3> QED
      BY <2>1, <3>1, <3>2 DEF Missing, HoldsInitiator
  <2> QED
    BY <2>3, <2>4, <2>5
<1> QED
  BY <1>2, <1>3, <1>4, <1>5, CreateSteps

\* What is said of a volume by what it has is kept when it keeps what it has.
LEMMA SameLooks ==
  ASSUME NEW v \in Volumes, Missing(v), HoldsInitiator(v),
         Objects(v)' = Objects(v), handler'[v] = handler[v]
  PROVE  Missing(v)' /\ HoldsInitiator(v)'
<1>1. /\ OwnExtents(v)' = OwnExtents(v) /\ OwnTargets(v)' = OwnTargets(v)
      /\ OwnMappings(v)' = OwnMappings(v) /\ OwnInitiators(v)' = OwnInitiators(v)
      /\ v \in nas'.datasets <=> v \in nas.datasets
  BY DEF Objects
<1> QED
  BY <1>1 DEF Missing, HoldsInitiator

\* While no request is late, a step is one of some volume and leaves the others what they have.
LEMMA OneVolumeSteps ==
  ASSUME PrefixFree, TypeInv, TypeInv', OwnInv, OwnInv', BuildInv, [Next]_vars, used'.late = 0
  PROVE  \/ \A w \in Volumes : Objects(w)' = Objects(w) /\ handler'[w] = handler[w] /\ phase'[w] = phase[w]
         \/ \E v \in Volumes :
              /\ Provision(v) \/ Handle(v) \/ RejectCall(v) \/ LoseReply(v) \/ Abandon(v)
              /\ \A w \in Volumes \ {v} : /\ Objects(w)' = Objects(w)
                                          /\ handler'[w] = handler[w] /\ phase'[w] = phase[w]
<1>1. used.late = 0 /\ ~\E v \in Volumes : AbandonLate(v)
  BY LateBefore
<1>2. late = {}
  BY <1>1 DEF BuildInv
<1>3. CASE UNCHANGED vars
  BY <1>3 DEF vars, Objects, OwnExtents, OwnInitiators, OwnTargets, OwnMappings
<1>4. ASSUME NEW v \in Volumes, Provision(v) \/ Handle(v) \/ RejectCall(v) \/ LoseReply(v) \/ Abandon(v)
      PROVE  \A w \in Volumes \ {v} : Objects(w)' = Objects(w) /\ handler'[w] = handler[w] /\ phase'[w] = phase[w]
  BY <1>4, OnlyOneMoves, OthersObjects DEF Moves
<1> QED
  BY <1>1, <1>2, <1>3, <1>4 DEF Next, Disturb

LEMMA LooksInvStep ==
  ASSUME PrefixFree
  PROVE  TypeInv /\ TypeInv' /\ OwnInv /\ OwnInv' /\ BuildInv /\ LooksInv /\ [Next]_vars => LooksInv'
<1> SUFFICES ASSUME TypeInv, TypeInv', OwnInv, OwnInv', BuildInv, LooksInv, [Next]_vars,
                    used'.late = 0, NEW w \in Volumes
             PROVE  Missing(w)' /\ HoldsInitiator(w)'
  BY DEF LooksInv
<1>1. Missing(w) /\ HoldsInitiator(w)
  BY LateBefore DEF LooksInv
<1>2. ASSUME NEW v \in Volumes, Provision(v) \/ Handle(v) \/ RejectCall(v) \/ LoseReply(v) \/ Abandon(v), w = v
      PROVE  Missing(w)' /\ HoldsInitiator(w)'
  BY <1>1, <1>2, OwnStepLooks
<1>3. Objects(w)' = Objects(w) /\ handler'[w] = handler[w] => Missing(w)' /\ HoldsInitiator(w)'
  BY <1>1, SameLooks
<1> QED
  BY <1>2, <1>3, OneVolumeSteps

LEMMA LooksInvariant == ASSUME PrefixFree PROVE Spec => []LooksInv
<1>1. Init => LooksInv
  <2>1. \A v \in Volumes : Init => handler[v] = Idle
    BY DEF Init
  <2>2. Idle.rpc = "idle"
    BY DEF Idle
  <2> QED
    BY <2>1, <2>2 DEF LooksInv, Missing, HoldsInitiator
<1> QED
  BY <1>1, LooksInvStep, ClearInvariant, PTL DEF Spec

(***************************************************************************)
(* A CreateVolume makes only what is missing, with what it has made or     *)
(* found before, so TrueNAS has no reason to refuse it.                    *)
(***************************************************************************)
LEMMA CreateNeverRefused ==
  ASSUME TypeInv, OwnInv, NEW v \in Volumes, Missing(v), HoldsInitiator(v),
         BuiltUp(nas, v, handler[v], phase[v]), handler[v].rpc = "create", InCall(v)
  PROVE  Accepted(Request(v))
<1> DEFINE h == handler[v]
<1> DEFINE r == Request(v)
<1>1. h \in Handlers /\ h.step \in 1..5 /\ h.verb = "create" /\ Has(nas, v, h.ids, h.step)
  BY HandlerFacts DEF Shape, InCall, BuiltUp
<1>2. r.verb = "create" /\ r.kind = CreateOrder[h.step] /\ r.vol = v /\ r.ids = h.ids
  BY <1>1 DEF Request, Kind, Order
<1> SUFFICES CreateAccepted(r)
  BY <1>2 DEF Accepted
<1> HIDE DEF r
<1>4. CASE h.step = 1
  BY <1>1, <1>2, <1>4, Orders DEF CreateAccepted, Missing
<1>5. CASE h.step = 2
  <2>1. \A e \in nas.extents : e.vol # v
    BY <1>1, <1>5 DEF Missing, OwnExtents
  <2> QED
    BY <1>1, <1>2, <1>5, <2>1, Orders DEF CreateAccepted, Has
<1>6. CASE h.step = 3
  BY <1>2, <1>6, Orders DEF CreateAccepted
<1>7. CASE h.step = 4
  <2>1. \A t \in nas.targets : t.vol # v
    BY <1>1, <1>7 DEF Missing, OwnTargets
  <2>2. HasId(nas.initiators, h.ids.initiator)
    BY <1>7 DEF HoldsInitiator, HasId, OwnInitiators
  <2> QED
    BY <1>2, <1>7, <2>1, <2>2, Orders DEF CreateAccepted
<1>8. CASE h.step = 5
  <2>1. HasId(nas.targets, h.ids.target) /\ HasId(nas.extents, h.ids.extent)
    BY <1>1, <1>8 DEF Has, HasTarget, HasExtent, HasId
  <2>2. ASSUME NEW m \in nas.mappings, m.target = h.ids.target, m.extent = h.ids.extent PROVE FALSE
    <3>1. PICK t \in nas.targets : t.id = m.target /\ t.vol = v
      BY <1>1, <1>8, <2>2 DEF Has, HasTarget
    <3>2. m \in OwnMappings(v)
      BY <3>1 DEF OwnMappings, OwnTargets
    <3> QED
      BY <1>1, <1>8, <2>2, <3>2 DEF Missing
  <2>3. \A m \in nas.mappings : <<m.target, m.extent>> # <<h.ids.target, h.ids.extent>>
    BY <2>2
  <2> QED
    BY <1>2, <1>8, <2>1, <2>3, Orders DEF CreateAccepted
<1> QED
  BY <1>1, <1>4, <1>5, <1>6, <1>7, <1>8

\* While handlers are only abandoned, targets keep their initiator groups.
LEMMA OwnStepDone ==
  ASSUME TypeInv, OwnInv, OwnInv', NEW v \in Volumes, Clears(v), Missing(v), HoldsInitiator(v),
         BuiltUp(nas, v, handler[v], phase[v]), handler[v].rpc # "rollback", TargetHasInitiator(v),
         Provision(v) \/ Handle(v) \/ Abandon(v)
  PROVE  handler'[v].rpc # "rollback" /\ TargetHasInitiator(v)'
<1> DEFINE h == handler[v]
<1>1. h \in Handlers /\ h \in HandlerType /\ Shape(h)
  BY HandlerFacts
<1>2. handler'[v].rpc # "rollback"
  <2>1. CASE Provision(v)
    BY <2>1, ProvisionMoves
  <2>2. CASE LookupHit(v)
    BY <2>2, HitMoves
  <2>3. CASE LookupMiss(v) \/ Call(v)
    <3>1. CASE h.rpc = "delete"
      BY <1>1, <2>3, <3>1, MissMoves, CallMoves, NextKindMoves
    <3>2. CASE h.rpc # "delete"
      BY <1>1, <2>3, <3>2, MissMoves, CallMoves DEF HandlerType
    <3> QED
      BY <3>1, <3>2
  <2>4. CASE Refused(v)
    <3>1. h.rpc = "delete"
      BY <1>1, <2>4, CreateNeverRefused DEF Refused, InCall, Shape
    <3> QED
      BY <1>1, <2>4, <3>1, ErrorMoves DEF HandlerType
  <2>5. CASE Reply(v) \/ ReplyError(v) \/ Abandon(v)
    BY <2>5, ReplyMoves, AbandonMoves DEF Idle
  <2> QED
    BY <2>1, <2>2, <2>3, <2>4, <2>5 DEF Handle
<1>3. CASE nas' = nas
  <2>1. OwnTargets(v)' = OwnTargets(v) /\ OwnInitiators(v)' = OwnInitiators(v)
    BY <1>3 DEF OwnTargets, OwnInitiators
  <2> QED
    BY <1>2, <2>1 DEF TargetHasInitiator
<1>4. CASE InCall(v) /\ nas' = After(Request(v))
  <2>1. CASE h.rpc = "create"
    <3>1. /\ OwnInitiators(v) \subseteq OwnInitiators(v)'
          /\ \A t \in OwnTargets(v)' : t \in OwnTargets(v) \/ (h.step = 4 /\ t.initiator = h.ids.initiator)
      BY <1>4, <2>1, OwnCreateCall
    <3>2. h.step = 4 => \E i \in OwnInitiators(v) : i.id = h.ids.initiator
      BY <2>1 DEF HoldsInitiator
    <3> QED
      BY <1>2, <3>1, <3>2 DEF TargetHasInitiator
  <2>2. CASE h.rpc = "delete"
    <3>1. h.step \in {1, 2, 3} /\ (h.step = 1 \/ OwnTargets(v) = {} => OwnTargets(v)' = {})
      BY <1>4, <2>2, OwnCallClears
    <3>2. h.step >= 2 => OwnTargets(v) = {}
      BY <2>2 DEF Clears, Deleted
    <3>3. OwnTargets(v)' = {}
      BY <3>1, <3>2
    <3> QED
      BY <1>2, <3>3 DEF TargetHasInitiator
  <2> QED
    BY <1>1, <1>4, <2>1, <2>2 DEF InCall, Shape
<1>5. nas' = nas \/ (InCall(v) /\ nas' = After(Request(v)))
  BY ProvisionMoves, HitMoves, MissMoves, CallMoves, ErrorMoves, ReplyMoves, AbandonMoves DEF Handle
<1> QED
  BY <1>2, <1>3, <1>4, <1>5

LEMMA DoneInvStep ==
  ASSUME PrefixFree
  PROVE  TypeInv /\ TypeInv' /\ OwnInv /\ OwnInv' /\ BuildInv /\ ClearInv /\ LooksInv /\ DoneInv /\ [Next]_vars
           => DoneInv'
<1> SUFFICES ASSUME TypeInv, TypeInv', OwnInv, OwnInv', BuildInv, ClearInv, LooksInv, DoneInv, [Next]_vars,
                    used'.reject + used'.lost + used'.late = 0, NEW w \in Volumes
             PROVE  handler'[w].rpc # "rollback" /\ TargetHasInitiator(w)'
  BY DEF DoneInv
<1>1. /\ used.reject = 0 /\ used.lost = 0 /\ used.late = 0
      /\ used'.reject = 0 /\ used'.lost = 0 /\ used'.late = 0
  <2>1. \A f \in FaultKinds : used[f] \in Nat /\ used'[f] \in Nat /\ used[f] <= used'[f]
    BY FaultsCount
  <2>2. \A f \in {"reject", "lost", "late"} : used[f] \in Nat /\ used'[f] \in Nat /\ used[f] <= used'[f]
    BY <2>1 DEF FaultKinds
  <2>3. /\ used.reject \in Nat /\ used.lost \in Nat /\ used.late \in Nat
        /\ used'.reject \in Nat /\ used'.lost \in Nat /\ used'.late \in Nat
        /\ used.reject <= used'.reject /\ used.lost <= used'.lost /\ used.late <= used'.late
    BY <2>2
  <2>4. \A a, b, c \in Nat : a + b + c = 0 => a = 0 /\ b = 0 /\ c = 0
    OBVIOUS
  <2>5. used'.reject = 0 /\ used'.lost = 0 /\ used'.late = 0
    BY <2>3, <2>4
  <2> QED
    BY <2>3, <2>5
<1>2. /\ Clears(w) /\ Missing(w) /\ HoldsInitiator(w) /\ BuiltUp(nas, w, handler[w], phase[w])
      /\ handler[w].rpc # "rollback" /\ TargetHasInitiator(w)
  BY <1>1 DEF ClearInv, LooksInv, BuildInv, DoneInv
<1>3. ASSUME NEW v \in Volumes, Provision(v) \/ Handle(v) \/ RejectCall(v) \/ LoseReply(v) \/ Abandon(v), w = v
      PROVE  handler'[w].rpc # "rollback" /\ TargetHasInitiator(w)'
  <2>1. ~RejectCall(v) /\ ~LoseReply(v)
    BY <1>1, FaultsCount
  <2> QED
    BY <1>2, <1>3, <2>1, OwnStepDone
<1>4. ASSUME Objects(w)' = Objects(w), handler'[w] = handler[w]
      PROVE  handler'[w].rpc # "rollback" /\ TargetHasInitiator(w)'
  <2>1. OwnTargets(w)' = OwnTargets(w) /\ OwnInitiators(w)' = OwnInitiators(w)
    BY <1>4 DEF Objects
  <2> QED
    BY <1>2, <1>4, <2>1 DEF TargetHasInitiator
<1> QED
  BY <1>1, <1>3, <1>4, OneVolumeSteps

(***************************************************************************)
(* "Should be done by now" (iscsi.go:332), whatever an abandoned attempt   *)
(* or other volumes' handlers did before: as long as handlers only die,    *)
(* the target that CreateVolume found or made serves the volume and admits *)
(* the volume's initiator group, if no volume id is a prefix of another.   *)
(***************************************************************************)
THEOREM AlwaysDoneByNow == ASSUME PrefixFree PROVE Spec => []DoneAfterAbandons
<1>1. Init => DoneInv
  <2>1. \A v \in Volumes : Init => handler[v] = Idle
    BY DEF Init
  <2>2. Init => nas.targets = {}
    BY DEF Init, EmptyNas
  <2>3. Idle.rpc = "idle"
    BY DEF Idle
  <2> QED
    BY <2>1, <2>2, <2>3 DEF DoneInv, TargetHasInitiator, OwnTargets
<1>2. TypeInv /\ BuildInv /\ DoneInv => DoneAfterAbandons
  <2> SUFFICES ASSUME TypeInv, BuildInv, DoneInv, used.reject + used.lost + used.late = 0
               PROVE  DoneByNow
    BY DEF DoneAfterAbandons
  <2>1. used.late = 0
    BY DEF TypeInv, FaultKinds
  <2> QED
    BY <2>1 DEF BuildInv, BuiltUp, DoneInv, DoneByNow, Served, ServedIn
<1> QED
  BY <1>1, <1>2, DoneInvStep, LooksInvariant, ClearInvariant, PTL DEF Spec

(***************************************************************************)
(* The next cleanup function, and what it leaves.                          *)
(***************************************************************************)
LEMMA CleanupMoves ==
  ASSUME NEW h \in HandlerType, NEW step \in Nat \ {0}
  PROVE  LET g == Cleanup(h, step)
         IN /\ g.rpc = h.rpc /\ g.ids = h.ids /\ g.until = h.until
            /\ IF step = h.until THEN g.verb = "error" ELSE g.verb = "delete" /\ g.step = step
BY DEF Cleanup, HandlerType

\* A cleanup function that fails is followed by the next one, too.
LEMMA RollbackGoesOn ==
  ASSUME TypeInv, NEW v \in Volumes, handler[v].rpc = "rollback", Call(v) \/ Refused(v)
  PROVE  LET h == handler[v]
             g == handler'[v]
         IN /\ h.verb = "delete" /\ h.step \in 1..4 /\ h.step < h.until
            /\ g.rpc = "rollback" /\ g.ids = h.ids /\ g.until = h.until
            /\ IF h.step + 1 = h.until THEN g.verb = "error" ELSE g.verb = "delete" /\ g.step = h.step + 1
<1> DEFINE h == handler[v]
<1>1. h \in HandlerType /\ Shape(h) /\ h.verb \in {"create", "delete"}
  BY HandlerFacts DEF Call, Refused, InCall
<1>2. h.verb = "delete" /\ h.step \in 1..4 /\ h.step < h.until
  BY <1>1 DEF Shape
<1>3. handler'[v] = Cleanup(h, h.step + 1)
  BY HandlerFacts DEF Call, Refused, Succeeded, Failed
<1>4. h.step + 1 \in Nat \ {0}
  BY <1>2
<1> QED
  BY <1>1, <1>2, <1>3, <1>4, CleanupMoves

LEMMA RollbackStarts ==
  ASSUME TypeInv, NEW v \in Volumes, handler[v].rpc = "create", RejectCall(v)
  PROVE  LET h == handler[v]
             g == handler'[v]
         IN /\ h.verb # "reply" /\ h.step \in 1..5
            /\ g.rpc = "rollback" /\ g.ids = h.ids /\ g.until = h.step
            /\ IF h.step = 1 THEN g.verb = "error" ELSE g.verb = "delete" /\ g.step = 1
<1> DEFINE h == handler[v]
<1> DEFINE f == [h EXCEPT !.rpc = "rollback", !.until = h.step]
<1>1. h \in HandlerType /\ h.verb # "reply" /\ h.step \in 1..5
  BY HandlerFacts DEF RejectCall, Shape
<1>2. f \in HandlerType /\ f.rpc = "rollback" /\ f.until = h.step /\ f.ids = h.ids
  BY <1>1 DEF HandlerType
<1>3. handler'[v] = Cleanup(f, 1)
  BY HandlerFacts DEF RejectCall, Failed, Rollback
<1> HIDE DEF f
<1> QED
  BY <1>1, <1>2, <1>3, CleanupMoves

\* A volume without mappings is not mapped.
LEMMA NotMapped ==
  ASSUME NEW v \in Volumes, OwnMappings(v) = {}
  PROVE  ~Mapped(v)
BY DEF Mapped, OwnMappings, OwnExtents

LEMMA RollbackLeaves ==
  ASSUME TypeInv, NEW v \in Volumes, handler[v].rpc = "rollback", Undone(v), Call(v) \/ Refused(v)
  PROVE  LET h == handler[v]
         IN /\ v \in nas'.datasets => v \in nas.datasets /\ h.step # 1
            /\ OwnInitiators(v)' \subseteq OwnInitiators(v) /\ (h.step = 3 => OwnInitiators(v)' = {})
            /\ OwnTargets(v)' \subseteq OwnTargets(v) /\ (h.step = 4 => OwnTargets(v)' = {})
            /\ OwnMappings(v)' = {}
<1> DEFINE h == handler[v]
<1> DEFINE r == Request(v)
<1>1. h.verb = "delete" /\ h.step \in 1..4 /\ InCall(v)
  BY RollbackGoesOn DEF InCall
<1>2. r \in Requests /\ r.verb = "delete" /\ r.kind = CreateOrder[h.step] /\ r.vol = v /\ r.ids = h.ids
  BY <1>1, HandlerFacts, RequestIsRequest DEF InCall, Request, Kind, Order
<1>3. /\ OwnMappings(v) = {}
      /\ \A i \in OwnInitiators(v) : i.id = h.ids.initiator
      /\ \A t \in OwnTargets(v) : t.id = h.ids.target
  BY DEF Undone
<1>4. CASE Call(v)
  <2>1. nas' = After(r)
    BY <1>4 DEF Call
  <2> HIDE DEF r
  <2>2. /\ nas'.datasets \subseteq nas.datasets /\ nas'.extents \subseteq nas.extents
        /\ nas'.initiators \subseteq nas.initiators /\ nas'.targets \subseteq nas.targets
        /\ nas'.mappings \subseteq nas.mappings
        /\ h.step = 1 => v \notin nas'.datasets
        /\ h.step = 3 => \A i \in nas'.initiators : i.id # h.ids.initiator
        /\ h.step = 4 => \A t \in nas'.targets : t.id # h.ids.target
    BY <1>2, <2>1, DeleteShrinks, Orders DEF TypeInv
  <2>3. OwnInitiators(v)' \subseteq OwnInitiators(v) /\ (h.step = 3 => OwnInitiators(v)' = {})
    BY <1>3, <2>2 DEF OwnInitiators
  <2>4. OwnTargets(v)' \subseteq OwnTargets(v) /\ (h.step = 4 => OwnTargets(v)' = {})
    BY <1>3, <2>2 DEF OwnTargets
  <2>5. OwnMappings(v)' \subseteq OwnMappings(v)
    BY <2>2 DEF OwnMappings, OwnTargets, OwnExtents
  <2> QED
    BY <1>3, <2>2, <2>3, <2>4, <2>5
<1>5. CASE Refused(v)
  <2>1. nas' = nas /\ ~DeleteAccepted(r)
    BY <1>2, <1>5 DEF Refused, Accepted
  <2> HIDE DEF r
  <2>2. h.step = 1 => v \notin nas.datasets
    BY <1>2, <1>3, <2>1, NotMapped, Orders DEF DeleteAccepted
  <2>3. h.step = 3 => OwnInitiators(v) = {}
    BY <1>2, <1>3, <2>1, Orders DEF DeleteAccepted, HasId, OwnInitiators
  <2>4. h.step = 4 => OwnTargets(v) = {}
    BY <1>2, <1>3, <2>1, Orders DEF DeleteAccepted, HasId, OwnTargets
  <2>5. /\ OwnInitiators(v)' = OwnInitiators(v) /\ OwnTargets(v)' = OwnTargets(v)
        /\ OwnMappings(v)' = OwnMappings(v)
    BY <2>1 DEF OwnInitiators, OwnTargets, OwnMappings, OwnExtents
  <2> QED
    BY <1>3, <2>1, <2>2, <2>3, <2>4, <2>5
<1> QED
  BY <1>4, <1>5

\* A CreateVolume that starts from nothing finds nothing.
LEMMA NothingFound ==
  ASSUME PrefixFree, TypeInv, OwnInv, NEW v \in Volumes, BuiltFromNothing(v),
         BuiltUp(nas, v, handler[v], phase[v]), handler[v].rpc = "create"
  PROVE  ~LookupHit(v)
<1> DEFINE h == handler[v]
<1> SUFFICES ASSUME h.verb = "find", NEW id \in Hits(v) PROVE FALSE
  BY DEF LookupHit
<1>1. h.step \in 1..5 /\ Has(nas, v, h.ids, h.step)
  BY HandlerFacts DEF Shape, BuiltUp
<1>2. Kind(h) = CreateOrder[h.step]
  BY DEF Kind, Order
<1>3. CASE h.step = 1
  BY <1>2, <1>3, Orders DEF Hits, FindDataset, BuiltFromNothing
<1>4. CASE h.step = 2
  BY <1>2, <1>4, Orders DEF Hits, FindISCSIExtent, BuiltFromNothing, OwnExtents
<1>5. CASE h.step = 3
  <2>1. id \in FindISCSIInitiator(v)
    BY <1>2, <1>5, Orders DEF Hits
  <2>2. \E i \in nas.initiators : i.vol = v
    BY <2>1 DEF FindISCSIInitiator, PrefixFree
  <2> QED
    BY <1>5, <2>2 DEF BuiltFromNothing, OwnInitiators
<1>6. CASE h.step = 4
  BY <1>2, <1>6, Orders DEF Hits, FindISCSITarget, BuiltFromNothing, OwnTargets
<1>7. CASE h.step = 5
  <2>1. id \in FindISCSITargetExtent(h.ids)
    BY <1>2, <1>7, Orders DEF Hits
  <2>2. PICK m \in nas.mappings : m.target = h.ids.target
    BY <2>1 DEF FindISCSITargetExtent
  <2>3. PICK t \in nas.targets : t.vol = v /\ t.id = h.ids.target
    BY <1>1, <1>7 DEF Has, HasTarget
  <2>4. m \in OwnMappings(v)
    BY <2>2, <2>3 DEF OwnMappings, OwnTargets
  <2> QED
    BY <2>4 DEF BuiltFromNothing
<1> QED
  BY <1>1, <1>3, <1>4, <1>5, <1>6, <1>7

(***************************************************************************)
(* Each step of a volume's own handler, while one call at most is rejected.*)
(***************************************************************************)
LEMMA CreateTraced ==
  ASSUME PrefixFree, TypeInv, OwnInv, OwnInv', NEW v \in Volumes, Traced(v), Agrees(v),
         Missing(v), HoldsInitiator(v), BuiltUp(nas, v, handler[v], phase[v]),
         handler[v].rpc = "create", LookupHit(v) \/ LookupMiss(v) \/ Call(v) \/ Refused(v)
  PROVE  Traced(v)'
<1> DEFINE h == handler[v]
<1>1. h \in HandlerType /\ Shape(h) /\ h.step \in 1..5 /\ phase[v] = "creating"
  BY HandlerFacts DEF Shape, Agrees
<1>2. BuiltFromNothing(v)
  BY DEF Traced
<1>3. ~LookupHit(v) /\ ~Refused(v)
  BY <1>2, NothingFound, CreateNeverRefused DEF Refused
<1>4. CASE LookupMiss(v)
  <2>1. handler'[v] = [h EXCEPT !.verb = "create"] /\ nas' = nas /\ phase' = phase /\ h.verb = "find"
    BY <1>4, MissMoves
  <2>2. handler'[v].rpc = "create" /\ handler'[v].step = h.step
    BY <1>1, <2>1 DEF HandlerType
  <2>3. /\ OwnExtents(v)' = OwnExtents(v) /\ OwnTargets(v)' = OwnTargets(v)
        /\ OwnMappings(v)' = OwnMappings(v) /\ OwnInitiators(v)' = OwnInitiators(v)
    BY <2>1 DEF OwnExtents, OwnTargets, OwnMappings, OwnInitiators
  <2> QED
    BY <1>1, <1>2, <2>1, <2>2, <2>3 DEF Traced, BuiltFromNothing, Undone
<1>5. CASE Call(v)
  <2>1. InCall(v) /\ nas' = After(Request(v)) /\ phase' = phase
    BY <1>5 DEF Call
  <2>2. h.verb # "reply"
    BY <2>1 DEF InCall
  <2>3. /\ handler'[v].rpc = "create"
        /\ IF h.step = 5 THEN handler'[v].verb = "reply"
                         ELSE handler'[v].step = h.step + 1 /\ handler'[v].verb = "find"
    BY <1>5, CreateGoesOn
  <2>4. /\ h.step # 1 => (v \in nas'.datasets <=> v \in nas.datasets)
        /\ h.step # 2 => OwnExtents(v)' = OwnExtents(v)
        /\ h.step # 3 => OwnInitiators(v)' = OwnInitiators(v)
        /\ h.step # 4 => OwnTargets(v)' = OwnTargets(v)
        /\ h.step # 5 /\ OwnMappings(v) = {} => OwnMappings(v)' = {}
    BY <2>1, OwnCreateCall
  <2>5. BuiltFromNothing(v)'
    <3>1. CASE h.step = 5
      BY <2>3, <3>1 DEF BuiltFromNothing
    <3>2. CASE h.step # 5
      BY <1>1, <1>2, <2>2, <2>3, <2>4, <3>2 DEF BuiltFromNothing
    <3> QED
      BY <3>1, <3>2
  <2> QED
    BY <1>1, <2>1, <2>3, <2>5 DEF Traced, Undone
<1> QED
  BY <1>3, <1>4, <1>5

LEMMA RollbackTraced ==
  ASSUME TypeInv, used'.reject = used.reject, NEW v \in Volumes, Traced(v), Agrees(v),
         handler[v].rpc = "rollback", Call(v) \/ Refused(v)
  PROVE  Traced(v)'
<1> DEFINE h == handler[v]
<1>1. phase'[v] = "creating" /\ Undone(v)
  BY DEF Call, Refused, Agrees, Traced
<1>2. /\ h.verb = "delete" /\ h.step \in 1..4 /\ h.step < h.until /\ h.until \in Nat
      /\ handler'[v].rpc = "rollback" /\ handler'[v].ids = h.ids /\ handler'[v].until = h.until
      /\ IF h.step + 1 = h.until THEN handler'[v].verb = "error"
                                 ELSE handler'[v].verb = "delete" /\ handler'[v].step = h.step + 1
  BY RollbackGoesOn, HandlerFacts DEF HandlerType
<1>3. /\ v \in nas'.datasets => v \in nas.datasets /\ h.step # 1
      /\ OwnInitiators(v)' \subseteq OwnInitiators(v) /\ (h.step = 3 => OwnInitiators(v)' = {})
      /\ OwnTargets(v)' \subseteq OwnTargets(v) /\ (h.step = 4 => OwnTargets(v)' = {})
      /\ OwnMappings(v)' = {}
  BY <1>1, RollbackLeaves
<1>4. v \notin nas'.datasets
  BY <1>1, <1>2, <1>3 DEF Undone
<1>5. ASSUME NEW i \in OwnInitiators(v)'
      PROVE  i.id = h.ids.initiator /\ handler'[v].verb = "delete" /\ handler'[v].step <= 3 /\ 3 < h.until
  BY <1>1, <1>2, <1>3, <1>5 DEF Undone
<1>6. ASSUME NEW t \in OwnTargets(v)'
      PROVE  t.id = h.ids.target /\ handler'[v].verb = "delete" /\ handler'[v].step <= 4 /\ 4 < h.until
  BY <1>1, <1>2, <1>3, <1>6 DEF Undone
<1>7. Undone(v)'
  BY <1>1, <1>2, <1>3, <1>4, <1>5, <1>6 DEF Undone
<1> QED
  BY <1>1, <1>2, <1>7 DEF Traced, BuiltFromNothing

LEMMA RejectTraced ==
  ASSUME TypeInv, OwnInv, used'.reject = 1, NEW v \in Volumes, Traced(v), Agrees(v), OneInitiator(v),
         HoldsInitiator(v), BuiltUp(nas, v, handler[v], phase[v]),
         handler[v].rpc = "create", RejectCall(v)
  PROVE  Traced(v)'
<1> DEFINE h == handler[v]
<1>1. /\ h.verb # "reply" /\ h.step \in 1..5
      /\ handler'[v].rpc = "rollback" /\ handler'[v].ids = h.ids /\ handler'[v].until = h.step
      /\ IF h.step = 1 THEN handler'[v].verb = "error" ELSE handler'[v].verb = "delete" /\ handler'[v].step = 1
  BY RollbackStarts
<1>2. BuiltFromNothing(v) /\ phase'[v] = "creating" /\ nas' = nas
  BY DEF Traced, Agrees, RejectCall
<1>3. v \in nas.datasets => h.step > 1
  BY <1>1, <1>2 DEF BuiltFromNothing
<1>4. ASSUME NEW i \in OwnInitiators(v) PROVE i.id = h.ids.initiator /\ h.step > 3
  <2>1. h.step > 3
    BY <1>1, <1>2 DEF BuiltFromNothing
  <2>2. h.step >= 4
    BY <1>1, <2>1
  <2>3. PICK j \in OwnInitiators(v) : j.id = h.ids.initiator
    BY <2>2 DEF HoldsInitiator
  <2>4. i = j
    BY DEF OneInitiator
  <2> QED
    BY <2>1, <2>3, <2>4
<1>5. ASSUME NEW t \in OwnTargets(v) PROVE t.id = h.ids.target /\ h.step > 4
  <2>1. h.step > 4
    BY <1>1, <1>2 DEF BuiltFromNothing
  <2>2. HasTarget(nas, v, h.ids.target)
    BY <1>1, <2>1 DEF BuiltUp, Has
  <2> QED
    BY <2>1, <2>2 DEF HasTarget, OwnTargets, OwnInv, Identified
<1>6. /\ OwnInitiators(v)' = OwnInitiators(v) /\ OwnTargets(v)' = OwnTargets(v)
      /\ OwnMappings(v)' = OwnMappings(v) /\ OwnMappings(v) = {}
  BY <1>1, <1>2 DEF OwnInitiators, OwnTargets, OwnMappings, OwnExtents, BuiltFromNothing
<1>7. Undone(v)'
  BY <1>1, <1>2, <1>3, <1>4, <1>5, <1>6 DEF Undone
<1> QED
  BY <1>1, <1>2, <1>7 DEF Traced, BuiltFromNothing

\* A DeleteVolume is of a volume that has been bound, so it disturbs nothing that is said here.
LEMMA DeleteTraced ==
  ASSUME NEW v \in Volumes, handler'[v].rpc = "delete", phase'[v] = "deleting"
  PROVE  Traced(v)'
BY DEF Traced, BuiltFromNothing, Undone

LEMMA OwnStepTraced ==
  ASSUME PrefixFree, TypeInv, OwnInv, OwnInv', Backed, NEW v \in Volumes, Traced(v), Agrees(v), Agrees(v)',
         OneInitiator(v), Missing(v), HoldsInitiator(v), BuiltUp(nas, v, handler[v], phase[v]),
         used'.reject = used.reject \/ (RejectCall(v) /\ used.reject = 0 /\ used'.reject = 1),
         Provision(v) \/ Handle(v) \/ RejectCall(v)
  PROVE  Traced(v)'
<1> DEFINE h == handler[v]
<1>1. h \in Handlers /\ h \in HandlerType /\ Shape(h) /\ DOMAIN phase = Volumes
  BY HandlerFacts
<1>2. handler'[v].rpc = "delete" => Traced(v)'
  BY DeleteTraced DEF Agrees
<1>3. CASE Provision(v)
  <2>1. /\ handler'[v].step = 1 /\ handler'[v].verb = "find" /\ h.rpc = "idle" /\ nas' = nas
        /\ \/ /\ handler'[v].rpc = "create" /\ phase[v] \in {"absent", "creating", "failed"}
              /\ phase' = [phase EXCEPT ![v] = "creating"]
           \/ handler'[v].rpc = "delete"
    BY <1>3, ProvisionMoves
  <2>2. CASE handler'[v].rpc = "create"
    <3>1. phase'[v] = "creating" /\ Gone(v)
      BY <1>1, <2>1, <2>2 DEF Traced
    <3>2. Objects(v) = Nothing
      BY <3>1, GoneIsNothing DEF GoneIsEmpty
    <3>3. /\ v \notin nas'.datasets /\ OwnExtents(v)' = {} /\ OwnInitiators(v)' = {}
          /\ OwnTargets(v)' = {} /\ OwnMappings(v)' = {}
      BY <2>1, <3>2 DEF Objects, Nothing, OwnExtents, OwnInitiators, OwnTargets, OwnMappings
    <3> QED
      BY <2>2, <3>1, <3>3 DEF Traced, BuiltFromNothing, Undone
  <2> QED
    BY <1>2, <2>1, <2>2
<1>4. CASE LookupHit(v) \/ LookupMiss(v) \/ Call(v) \/ Refused(v)
  <2>1. CASE h.rpc = "create"
    BY <1>4, <2>1, CreateTraced
  <2>2. CASE h.rpc = "rollback"
    <3>1. Call(v) \/ Refused(v)
      BY <1>4, <2>2, HitMoves, MissMoves
    <3>2. used'.reject = used.reject
      BY <3>1 DEF Call, Refused
    <3> QED
      BY <2>2, <3>1, <3>2, RollbackTraced
  <2>3. CASE h.rpc = "delete"
    <3>1. NextKind(h).rpc = "delete" /\ [h EXCEPT !.verb = "error"].rpc = "delete"
      BY <1>1, <2>3, NextKindMoves DEF HandlerType
    <3>2. handler'[v].rpc = "delete"
      BY <1>4, <2>3, <3>1, HitMoves, MissMoves, CallMoves, ErrorMoves
    <3> QED
      BY <1>2, <3>2
  <2> QED
    BY <1>1, <1>4, <2>1, <2>2, <2>3 DEF LookupHit, LookupMiss, Call, Refused, InCall, Shape
<1>5. CASE Reply(v) \/ ReplyError(v)
  <2>1. handler'[v].rpc = "idle" /\ nas' = nas
    BY <1>5, ReplyMoves DEF Idle
  <2>2. phase'[v] \in {"bound", "gone", "deleting"} \/ (phase'[v] = "failed" /\ h.rpc = "rollback" /\ h.verb = "error")
    BY <1>1, <1>5 DEF Reply, ReplyError, Shape
  <2>3. h.rpc = "rollback" /\ h.verb = "error" => Gone(v)
    BY DEF Traced, Undone, Gone
  <2>4. Gone(v)' <=> Gone(v)
    BY <2>1 DEF Gone, OwnTargets, OwnInitiators
  <2> QED
    BY <2>1, <2>2, <2>3, <2>4 DEF Traced, BuiltFromNothing, Undone
<1>6. CASE RejectCall(v)
  <2>1. CASE h.rpc = "create"
    <3>1. used'.reject = 1
      BY <1>6, FaultsCount DEF Next, Disturb, FaultKinds
    <3> QED
      BY <1>6, <2>1, <3>1, RejectTraced
  <2>2. CASE h.rpc = "rollback"
    <3>1. used.reject = 1 /\ used'.reject = 2
      BY <1>6, <2>2, FaultsCount DEF Next, Disturb, Traced, Undone
    <3> QED
      BY <3>1
  <2>3. CASE h.rpc = "delete"
    <3>1. handler'[v].rpc = "delete"
      BY <1>1, <1>6, <2>3, ErrorMoves DEF HandlerType
    <3> QED
      BY <1>2, <3>1
  <2> QED
    BY <1>1, <1>6, <2>1, <2>2, <2>3 DEF RejectCall, Shape
<1> QED
  BY <1>3, <1>4, <1>5, <1>6 DEF Handle

LEMMA UndoInvStep ==
  ASSUME PrefixFree
  PROVE  TypeInv /\ TypeInv' /\ OwnInv /\ OwnInv' /\ Backed /\ BuildInv /\ AgreeInv /\ AgreeInv' /\ ClearInv
           /\ LooksInv /\ UndoInv /\ [Next]_vars => UndoInv'
<1> SUFFICES ASSUME TypeInv, TypeInv', OwnInv, OwnInv', Backed, BuildInv, AgreeInv, AgreeInv', ClearInv,
                    LooksInv, UndoInv, [Next]_vars, OneRejected', NEW w \in Volumes
             PROVE  Traced(w)'
  BY DEF UndoInv
<1>1. /\ used.reject \in Nat /\ used'.reject \in Nat /\ used.reject <= used'.reject /\ used'.reject <= 1
      /\ used.lost = 0 /\ used.abandon = 0 /\ used.late = 0
      /\ used'.lost = 0 /\ used'.abandon = 0 /\ used'.late = 0
  <2>1. \A f \in FaultKinds : used[f] \in Nat /\ used'[f] \in Nat /\ used[f] <= used'[f]
    BY FaultsCount
  <2>2. \A f \in {"reject", "lost", "abandon", "late"} :
          used[f] \in Nat /\ used'[f] \in Nat /\ used[f] <= used'[f]
    BY <2>1 DEF FaultKinds
  <2>3. /\ used.reject \in Nat /\ used.lost \in Nat /\ used.abandon \in Nat /\ used.late \in Nat
        /\ used'.reject \in Nat /\ used'.lost \in Nat /\ used'.abandon \in Nat /\ used'.late \in Nat
        /\ used.reject <= used'.reject /\ used.lost <= used'.lost
        /\ used.abandon <= used'.abandon /\ used.late <= used'.late
    BY <2>2
  <2>4. \A a, b, c \in Nat : a + b + c = 0 => a = 0 /\ b = 0 /\ c = 0
    OBVIOUS
  <2>5. used'.reject <= 1 /\ used'.lost + used'.abandon + used'.late = 0
    BY DEF OneRejected
  <2>6. used'.lost = 0 /\ used'.abandon = 0 /\ used'.late = 0
    BY <2>3, <2>4, <2>5
  <2> QED
    BY <2>3, <2>5, <2>6
<1>2. OneRejected
  BY <1>1 DEF OneRejected
<1>3. /\ Traced(w) /\ Agrees(w) /\ Agrees(w)' /\ OneInitiator(w) /\ Missing(w) /\ HoldsInitiator(w)
      /\ BuiltUp(nas, w, handler[w], phase[w])
  BY <1>1, <1>2 DEF UndoInv, AgreeInv, ClearInv, Clears, LooksInv, BuildInv
<1>4. ASSUME NEW v \in Volumes, Provision(v) \/ Handle(v) \/ RejectCall(v) \/ LoseReply(v) \/ Abandon(v), w = v
      PROVE  Traced(w)'
  <2>1. ~LoseReply(v) /\ ~Abandon(v)
    BY <1>1, FaultsCount
  <2>2. used'.reject = used.reject \/ (RejectCall(v) /\ used.reject = 0 /\ used'.reject = 1)
    <3>1. CASE RejectCall(v)
      BY <1>1, <3>1, FaultsCount
    <3>2. CASE Provision(v) \/ Handle(v)
      BY <3>2 DEF Provision, CreateVolume, RetryCreateVolume, DeleteVolume, RetryDeleteVolume, Start,
                  Handle, LookupHit, LookupMiss, Call, Refused, Reply, ReplyError
    <3> QED
      BY <1>4, <2>1, <3>1, <3>2
  <2> QED
    BY <1>3, <1>4, <2>1, <2>2, OwnStepTraced
<1>5. ASSUME Objects(w)' = Objects(w), handler'[w] = handler[w], phase'[w] = phase[w]
      PROVE  Traced(w)'
  <2>1. /\ OwnExtents(w)' = OwnExtents(w) /\ OwnTargets(w)' = OwnTargets(w)
        /\ OwnMappings(w)' = OwnMappings(w) /\ OwnInitiators(w)' = OwnInitiators(w)
        /\ w \in nas'.datasets <=> w \in nas.datasets
    BY <1>5 DEF Objects
  <2>2. used.reject = 1 => used'.reject = 1
    BY <1>1
  <2> QED
    BY <1>3, <1>5, <2>1, <2>2 DEF Traced, BuiltFromNothing, Undone, Gone
<1> QED
  BY <1>1, <1>4, <1>5, OneVolumeSteps

(***************************************************************************)
(* A CreateVolume that fails because one call was rejected, anywhere among *)
(* its lookups and calls, leaves nothing: the cleanup functions undo all   *)
(* that was made before, in an order in which TrueNAS lets them            *)
(* (iscsi.go:148-301), if no volume id is a prefix of another.             *)
(***************************************************************************)
THEOREM RollbackAlwaysComplete == ASSUME PrefixFree PROVE Spec => []RollbackLeavesNothing
<1>1. Init => UndoInv
  <2>1. Init => nas.datasets = {} /\ nas.targets = {} /\ nas.initiators = {}
    BY DEF Init, EmptyNas
  <2>2. \A v \in Volumes : Init => handler[v] = Idle /\ phase[v] = "absent"
    BY DEF Init
  <2>3. Idle.rpc = "idle"
    BY DEF Idle
  <2> QED
    BY <2>1, <2>2, <2>3 DEF UndoInv, Traced, BuiltFromNothing, Undone, Gone, OwnTargets, OwnInitiators
<1>2. Backed /\ UndoInv => RollbackLeavesNothing
  BY GoneIsNothing DEF GoneIsEmpty, UndoInv, OneRejected, Traced, RollbackLeavesNothing
<1> QED
  BY <1>1, <1>2, UndoInvStep, LooksInvariant, ClearInvariant, PTL DEF Spec

-----------------------------------------------------------------------------
(***************************************************************************)
(* TrueNAS refuses nothing but what a rollback asks for.                   *)
(***************************************************************************)
\* What a DeleteVolume has found and is about to delete is there.
Finds(v) ==
  LET h == handler[v]
  IN h.rpc = "delete" /\ h.verb = "delete" =>
       /\ h.step = 1 => \E t \in OwnTargets(v) : t.id = h.ids.target
       /\ h.step = 2 => v \in nas.datasets
       /\ h.step = 3 => \E i \in OwnInitiators(v) : i.id = h.ids.initiator

FindsInv == used.late = 0 => \A v \in Volumes : Finds(v)

LEMMA HitFinds ==
  ASSUME PrefixFree, TypeInv, NEW v \in Volumes, LookupHit(v)
  PROVE  Finds(v)'
<1> DEFINE h == handler[v]
<1> DEFINE g == handler'[v]
<1>1. CASE h.rpc = "create"
  BY <1>1, HitMoves DEF Finds
<1>2. CASE h.rpc = "delete"
  <2>1. /\ Kind(h) = "target" <=> h.step = 1
        /\ Kind(h) = "dataset" <=> h.step = 2
        /\ Kind(h) = "initiator" <=> h.step = 3
    BY <1>2, HandlerFacts, Orders DEF Kind, Order, Shape
  <2>2. g.step = h.step /\ nas' = nas
    BY <1>2, HitMoves
  <2>3. PICK id \in Hits(v) : (h.step = 1 => g.ids.target = id) /\ (h.step = 3 => g.ids.initiator = id)
    BY <1>2, <2>1, HitMoves
  <2>4. OwnTargets(v)' = OwnTargets(v) /\ OwnInitiators(v)' = OwnInitiators(v)
    BY <2>2 DEF OwnTargets, OwnInitiators
  <2>5. h.step = 1 => \E t \in OwnTargets(v) : t.id = g.ids.target
    BY <2>1, <2>3 DEF Hits, FindISCSITarget, OwnTargets
  <2>6. h.step = 2 => v \in nas.datasets
    BY <2>1, <2>3 DEF Hits, FindDataset
  <2>7. h.step = 3 => \E i \in OwnInitiators(v) : i.id = g.ids.initiator
    BY <2>1, <2>3 DEF Hits, FindISCSIInitiator, OwnInitiators, PrefixFree
  <2> QED
    BY <2>2, <2>4, <2>5, <2>6, <2>7 DEF Finds
<1> QED
  BY <1>1, <1>2, HitMoves

LEMMA OwnStepFinds ==
  ASSUME PrefixFree, TypeInv, NEW v \in Volumes,
         Provision(v) \/ Handle(v) \/ RejectCall(v) \/ LoseReply(v) \/ Abandon(v)
  PROVE  Finds(v)'
<1>1. handler[v] \in Handlers /\ handler[v] \in HandlerType
  BY HandlerFacts
<1>2. CASE Provision(v)
  BY <1>2, ProvisionMoves DEF Finds
<1>3. CASE LookupHit(v)
  BY <1>3, HitFinds
<1>4. CASE LookupMiss(v)
  <2>1. CASE handler[v].rpc = "create"
    BY <1>1, <1>4, <2>1, MissMoves DEF Finds, HandlerType
  <2>2. CASE handler[v].rpc = "delete"
    BY <1>1, <1>4, <2>2, MissMoves, NextKindMoves DEF Finds
  <2> QED
    BY <1>4, <2>1, <2>2, MissMoves
<1>5. CASE Call(v)
  BY <1>1, <1>5, CallMoves, NextKindMoves DEF Finds
<1>6. CASE Refused(v) \/ RejectCall(v) \/ LoseReply(v)
  <2>1. CASE handler[v].rpc = "delete"
    BY <1>1, <1>6, <2>1, ErrorMoves DEF Finds, HandlerType
  <2>2. CASE handler[v].rpc # "delete"
    BY <1>6, <2>2, ErrorMoves DEF Finds
  <2> QED
    BY <2>1, <2>2
<1>7. CASE Reply(v) \/ ReplyError(v) \/ Abandon(v)
  BY <1>7, ReplyMoves, AbandonMoves DEF Finds, Idle
<1> QED
  BY <1>2, <1>3, <1>4, <1>5, <1>6, <1>7 DEF Handle

LEMMA FindsInvStep ==
  ASSUME PrefixFree
  PROVE  TypeInv /\ TypeInv' /\ OwnInv /\ OwnInv' /\ BuildInv /\ FindsInv /\ [Next]_vars => FindsInv'
<1> SUFFICES ASSUME TypeInv, TypeInv', OwnInv, OwnInv', BuildInv, FindsInv, [Next]_vars,
                    used'.late = 0, NEW w \in Volumes
             PROVE  Finds(w)'
  BY DEF FindsInv
<1>1. Finds(w)
  BY LateBefore DEF FindsInv
<1>2. ASSUME NEW v \in Volumes, Provision(v) \/ Handle(v) \/ RejectCall(v) \/ LoseReply(v) \/ Abandon(v), w = v
      PROVE  Finds(w)'
  BY <1>2, OwnStepFinds
<1>3. ASSUME Objects(w)' = Objects(w), handler'[w] = handler[w] PROVE Finds(w)'
  <2>1. /\ OwnTargets(w)' = OwnTargets(w) /\ OwnInitiators(w)' = OwnInitiators(w)
        /\ w \in nas'.datasets <=> w \in nas.datasets
    BY <1>3 DEF Objects
  <2> QED
    BY <1>1, <1>3, <2>1 DEF Finds
<1> QED
  BY <1>2, <1>3, OneVolumeSteps

\* Nothing is refused a DeleteVolume either: once the target is gone no mapping holds the zvol.
LEMMA DeleteNeverRefused ==
  ASSUME TypeInv, OwnInv, NEW v \in Volumes, handler[v].rpc = "delete", InCall(v),
         handler[v].step >= 2 => OwnTargets(v) = {}, Finds(v)
  PROVE  Accepted(Request(v))
<1> DEFINE h == handler[v]
<1> DEFINE r == Request(v)
<1>1. h.verb = "delete" /\ h.step \in 1..3
  BY HandlerFacts DEF InCall, Shape
<1>2. r.verb = "delete" /\ r.kind = DeleteOrder[h.step] /\ r.vol = v /\ r.ids = h.ids
  BY <1>1 DEF Request, Kind, Order
<1> SUFFICES DeleteAccepted(r)
  BY <1>2 DEF Accepted
<1> HIDE DEF r
<1>3. CASE h.step = 1
  BY <1>1, <1>2, <1>3, Orders DEF DeleteAccepted, Finds, HasId, OwnTargets
<1>4. CASE h.step = 2
  <2>1. ~Mapped(v)
    <3> SUFFICES ASSUME NEW e \in nas.extents, NEW m \in nas.mappings, e.vol = v, m.extent = e.id PROVE FALSE
      BY DEF Mapped
    <3>1. PICK t \in nas.targets, f \in nas.extents : f.id = m.extent /\ t.vol = f.vol
      BY DEF OwnInv, Joined
    <3>2. f = e
      BY <3>1 DEF OwnInv, Identified
    <3>3. t \in OwnTargets(v)
      BY <3>1, <3>2 DEF OwnTargets
    <3> QED
      BY <1>4, <3>3
  <2> QED
    BY <1>1, <1>2, <1>4, <2>1, Orders DEF DeleteAccepted, Finds
<1>5. CASE h.step = 3
  BY <1>1, <1>2, <1>5, Orders DEF DeleteAccepted, Finds, HasId, OwnInitiators
<1> QED
  BY <1>1, <1>3, <1>4, <1>5

(***************************************************************************)
(* When no volume id is a prefix of another one and no request is late,    *)
(* TrueNAS refuses a CreateVolume or DeleteVolume nothing, for any number  *)
(* of volumes and of other faults: the calls follow their lookups without  *)
(* a lock, and none is needed (iscsi.go:118-408).                          *)
(***************************************************************************)
THEOREM AlwaysAccepted == ASSUME PrefixFree PROVE Spec => []NeverRefused
<1>1. Init => FindsInv
  <2>1. \A v \in Volumes : Init => handler[v].rpc = "idle"
    BY DEF Init, Idle
  <2> QED
    BY <2>1 DEF FindsInv, Finds
<1>2. TypeInv /\ OwnInv /\ BuildInv /\ ClearInv /\ LooksInv /\ FindsInv => NeverRefused
  <2> SUFFICES ASSUME TypeInv, OwnInv, BuildInv, ClearInv, LooksInv, FindsInv, used.late = 0,
                      NEW v \in Volumes, handler[v].rpc \in {"create", "delete"}, InCall(v)
               PROVE  Accepted(Request(v))
    BY DEF NeverRefused
  <2>1. CASE handler[v].rpc = "create"
    BY <2>1, CreateNeverRefused DEF BuildInv, LooksInv
  <2>2. CASE handler[v].rpc = "delete"
    <3>1. (handler[v].step >= 2 => OwnTargets(v) = {}) /\ Finds(v)
      BY <2>2 DEF ClearInv, Clears, Deleted, FindsInv
    <3> QED
      BY <2>2, <3>1, DeleteNeverRefused
  <2> QED
    BY <2>1, <2>2
<1> QED
  BY <1>1, <1>2, FindsInvStep, LooksInvariant, ClearInvariant, PTL DEF Spec

-----------------------------------------------------------------------------
(***************************************************************************)
(* Every RPC ends: each step of a handler, or fault, brings it nearer to   *)
(* its answer, a rollback being shorter than what is left of the           *)
(* CreateVolume that it undoes.                                            *)
(***************************************************************************)

\* How many steps a handler has left at most.
Left(h) ==
  CASE h.rpc = "idle" -> 0
    [] h.verb \in {"reply", "error"} -> 1
    [] h.rpc = "rollback" /\ h.verb = "delete" -> 1 + (h.until - h.step)
    [] h.rpc = "delete" /\ h.verb = "delete" -> 8 - 2 * h.step
    [] h.rpc = "delete" /\ h.verb = "find" -> 9 - 2 * h.step
    [] h.rpc = "create" /\ h.verb = "create" -> 16 - 2 * h.step
    [] h.rpc = "create" /\ h.verb = "find" -> 17 - 2 * h.step

LEMMA LeftValues ==
  ASSUME NEW h \in Handlers
  PROVE  /\ h.rpc = "idle" => Left(h) = 0
         /\ h.rpc # "idle" /\ h.verb \in {"reply", "error"} => Left(h) = 1
         /\ h.rpc = "rollback" /\ h.verb = "delete" => Left(h) = 1 + (h.until - h.step) /\ Left(h) \in 2..5
         /\ h.rpc = "delete" /\ h.verb = "delete" => Left(h) = 8 - 2 * h.step /\ Left(h) \in 2..6
         /\ h.rpc = "delete" /\ h.verb = "find" => Left(h) = 9 - 2 * h.step /\ Left(h) \in 3..7
         /\ h.rpc = "create" /\ h.verb = "create" => Left(h) = 16 - 2 * h.step /\ Left(h) \in 6..14
         /\ h.rpc = "create" /\ h.verb = "find" => Left(h) = 17 - 2 * h.step /\ Left(h) \in 7..15
<1>1. Shape(h)
  BY DEF Handlers
<1> QED
  BY <1>1 DEF Shape, Left

LEMMA LeftRange ==
  ASSUME NEW h \in Handlers
  PROVE  /\ Left(h) \in 0..15
         /\ Left(h) = 0 <=> h.rpc = "idle"
<1>1. Shape(h)
  BY DEF Handlers
<1> QED
  BY <1>1, LeftValues DEF Shape

\* An error leaves a rollback, the rest of one, or the answer.
LEMMA FailedFalls ==
  ASSUME NEW h \in Handlers, h.verb \in {"find", "create", "delete"}
  PROVE  Left(Failed(h)) < Left(h)
<1>1. h \in HandlerType /\ Shape(h) /\ Failed(h) \in Handlers
  BY FailedType DEF Handlers
<1>2. CASE h.rpc = "create"
  <2> DEFINE f == [h EXCEPT !.rpc = "rollback", !.until = h.step]
  <2>1. f \in HandlerType /\ f.rpc = "rollback"
    BY <1>1 DEF HandlerType
  <2>2. Failed(h) = Cleanup(f, 1)
    BY <1>2 DEF Failed, Rollback
  <2> HIDE DEF f
  <2>3. Failed(h).rpc = "rollback" /\ Failed(h).verb \in {"error", "delete"}
    BY <2>1, <2>2, CleanupMoves
  <2>4. Left(Failed(h)) <= 5
    BY <1>1, <2>3, LeftValues
  <2>5. Left(h) >= 6
    BY <1>1, <1>2, LeftValues DEF Shape
  <2> QED
    BY <1>1, <2>4, <2>5, LeftRange
<1>3. CASE h.rpc = "rollback"
  <2>1. h.verb = "delete" /\ h.step + 1 \in Nat \ {0} /\ h.step < h.until /\ h.step \in Nat /\ h.until \in Nat
    BY <1>1, <1>3 DEF Shape
  <2>2. Failed(h) = Cleanup(h, h.step + 1)
    BY <1>3 DEF Failed
  <2>3. /\ Failed(h).rpc = "rollback" /\ Failed(h).until = h.until
        /\ \/ Failed(h).verb = "error"
           \/ Failed(h).verb = "delete" /\ Failed(h).step = h.step + 1
    BY <1>1, <1>3, <2>1, <2>2, CleanupMoves
  <2> QED
    BY <1>1, <1>3, <2>1, <2>3, LeftValues
<1>4. CASE h.rpc = "delete"
  <2>1. Failed(h).rpc = "delete" /\ Failed(h).verb = "error"
    BY <1>1, <1>4 DEF Failed, HandlerType
  <2> QED
    BY <1>1, <1>4, <2>1, LeftValues DEF Shape
<1> QED
  BY <1>1, <1>2, <1>3, <1>4 DEF Shape

\* The next kind of a DeleteVolume.
LEMMA NextFalls ==
  ASSUME NEW h \in Handlers, h.rpc = "delete", h.verb \in {"find", "delete"}
  PROVE  Left(NextKind(h)) < Left(h)
<1>1. NextKind(h) \in Handlers /\ h.step \in 1..3
  BY NextKindType DEF Handlers, Shape
<1>2. /\ NextKind(h).rpc = "delete"
      /\ IF h.step = 3 THEN NextKind(h).verb = "reply"
                       ELSE NextKind(h).step = h.step + 1 /\ NextKind(h).verb = "find"
  BY NextKindMoves
<1> QED
  BY <1>1, <1>2, LeftValues

\* A handler's own step takes it on.
LEMMA HandleFalls ==
  ASSUME TypeInv, TypeInv', NEW v \in Volumes, Handle(v)
  PROVE  Left(handler'[v]) < Left(handler[v])
<1> DEFINE h == handler[v]
<1> DEFINE g == handler'[v]
<1>1. h \in Handlers /\ g \in Handlers /\ Shape(h) /\ h \in HandlerType
  BY DEF TypeInv, Handlers
<1>2. ASSUME h.rpc = "create", LookupHit(v) \/ Call(v) PROVE Left(g) < Left(h)
  <2>1. /\ g.rpc = "create"
        /\ IF h.step = 5 THEN g.verb = "reply" ELSE g.step = h.step + 1 /\ g.verb = "find"
    BY <1>2, CreateGoesOn
  <2>2. h.verb \in {"find", "create"} /\ h.step \in 1..5
    BY <1>1, <1>2 DEF LookupHit, Call, InCall, Shape
  <2> QED
    BY <1>1, <1>2, <2>1, <2>2, LeftValues
<1>3. CASE LookupHit(v) /\ h.rpc = "delete"
  <2>1. h.verb = "find" /\ g.rpc = "delete" /\ g.verb = "delete" /\ g.step = h.step /\ h.step \in 1..3
    BY <1>1, <1>3, HitMoves DEF Shape
  <2> QED
    BY <1>1, <1>3, <2>1, LeftValues
<1>4. CASE LookupMiss(v)
  <2>1. CASE h.rpc = "create"
    <3>1. g = [h EXCEPT !.verb = "create"]
      BY <1>4, <2>1, MissMoves
    <3>2. g.rpc = "create" /\ g.verb = "create" /\ g.step = h.step
      BY <1>1, <2>1, <3>1 DEF HandlerType
    <3>3. h.verb = "find" /\ h.step \in 1..5
      BY <1>1, <1>4, <2>1, MissMoves DEF Shape
    <3>4. Left(h) = 17 - 2 * h.step
      BY <1>1, <2>1, <3>3, LeftValues
    <3>5. Left(g) = 16 - 2 * h.step
      BY <1>1, <3>2, LeftValues
    <3> QED
      BY <3>3, <3>4, <3>5
  <2>2. CASE h.rpc = "delete"
    BY <1>1, <1>4, <2>2, MissMoves, NextFalls
  <2> QED
    BY <1>4, <2>1, <2>2, MissMoves
<1>5. CASE Call(v) /\ h.rpc = "rollback"
  <2>1. g = Failed(h) /\ h.verb \in {"create", "delete"}
    BY <1>5, HandlerFacts DEF Call, InCall, Succeeded, Failed
  <2> QED
    BY <1>1, <2>1, FailedFalls
<1>6. CASE Call(v) /\ h.rpc = "delete"
  <2>1. g = NextKind(h) /\ h.verb = "delete"
    BY <1>1, <1>6, CallMoves DEF InCall, Shape
  <2> QED
    BY <1>1, <1>6, <2>1, NextFalls
<1>7. CASE Refused(v)
  <2>1. g = Failed(h) /\ h.verb \in {"create", "delete"}
    BY <1>7, HandlerFacts DEF Refused, InCall
  <2> QED
    BY <1>1, <2>1, FailedFalls
<1>8. CASE Reply(v) \/ ReplyError(v)
  <2>1. g.rpc = "idle" /\ h.rpc # "idle" /\ h.verb \in {"reply", "error"}
    BY <1>1, <1>8, ReplyMoves DEF Reply, ReplyError, Idle, Shape
  <2> QED
    BY <1>1, <2>1, LeftValues
<1>9. LookupHit(v) => h.rpc \in {"create", "delete"}
  BY HitMoves
<1>10. Call(v) => h.rpc \in {"create", "rollback", "delete"}
  BY CallMoves
<1> QED
  BY <1>2, <1>3, <1>4, <1>5, <1>6, <1>7, <1>8, <1>9, <1>10 DEF Handle

\* A fault ends it, or leaves less; other steps leave it as it is.
LEMMA NothingRises ==
  ASSUME TypeInv, TypeInv', [Next]_vars, NEW v \in Volumes, handler[v].rpc # "idle"
  PROVE  handler'[v] = handler[v] \/ Left(handler'[v]) < Left(handler[v])
<1>1. ASSUME NEW w \in Volumes, w # v, Provision(w) \/ Handle(w) \/ Disturb(w) PROVE handler'[v] = handler[v]
  BY <1>1, OnlyOneMoves DEF Disturb, AbandonLate, Continue, TypeInv
<1>2. CASE Handle(v)
  BY <1>2, HandleFalls
<1>3. ~Provision(v)
  BY ProvisionMoves
<1>4. CASE RejectCall(v) \/ LoseReply(v)
  <2>1. handler'[v] = Failed(handler[v]) /\ handler[v].verb \in {"find", "create", "delete"}
    BY <1>4, HandlerFacts DEF RejectCall, LoseReply, InCall
  <2> QED
    BY <2>1, FailedFalls DEF TypeInv
<1>5. CASE Abandon(v) \/ AbandonLate(v)
  <2>1. handler'[v].rpc = "idle"
    BY <1>5, AbandonMoves DEF Idle
  <2> QED
    BY <2>1, LeftRange DEF TypeInv
<1>6. ASSUME NEW r \in late, Deliver(r) PROVE handler'[v] = handler[v]
  BY <1>6 DEF Deliver
<1>7. CASE UNCHANGED vars
  BY <1>7 DEF vars
<1> QED
  BY <1>1, <1>2, <1>3, <1>4, <1>5, <1>6, <1>7 DEF Next, Disturb

\* So a handler with n steps left has less at some time.
Falls(v, n) ==
  Spec /\ WF_vars(Handle(v)) /\ []GoesOn(v) => [](Left(handler[v]) = n => <>(Left(handler[v]) < n))

LEMMA LeftFalls == ASSUME NEW v \in Volumes, NEW n \in 1..15 PROVE Falls(v, n)
<1>1. TypeInv /\ TypeInv' /\ [Next]_vars /\ Left(handler[v]) = n
        => (Left(handler[v]) = n)' \/ (Left(handler[v]) < n)'
  BY NothingRises, LeftRange DEF TypeInv
<1>2. TypeInv /\ TypeInv' /\ <<Handle(v)>>_vars /\ Left(handler[v]) = n => (Left(handler[v]) < n)'
  BY HandleFalls
<1>3. TypeInv /\ Left(handler[v]) = n => handler[v].rpc # "idle"
  BY LeftRange DEF TypeInv
<1> QED
  BY <1>1, <1>2, <1>3, TypeInvariant, PTL DEF Falls, GoesOn, Spec

Ends(v) == Spec /\ WF_vars(Handle(v)) /\ []GoesOn(v) => []<>(handler[v].rpc = "idle")

LEMMA RpcEnds == ASSUME NEW v \in Volumes PROVE Ends(v)
<1>1. /\ Falls(v, 1) /\ Falls(v, 2) /\ Falls(v, 3) /\ Falls(v, 4) /\ Falls(v, 5)
      /\ Falls(v, 6) /\ Falls(v, 7) /\ Falls(v, 8) /\ Falls(v, 9) /\ Falls(v, 10)
      /\ Falls(v, 11) /\ Falls(v, 12) /\ Falls(v, 13) /\ Falls(v, 14) /\ Falls(v, 15)
  BY LeftFalls
<1> DEFINE L == Left(handler[v])
<1>2. TypeInv => L \in 0..15 /\ (L = 0 <=> handler[v].rpc = "idle")
  BY LeftRange DEF TypeInv
<1> HIDE DEF L
<1>3. TypeInv => /\ L < 16 /\ (L < 1 => handler[v].rpc = "idle")
                 /\ L < 2 => L = 1 \/ L < 1
                 /\ L < 3 => L = 2 \/ L < 2
                 /\ L < 4 => L = 3 \/ L < 3
                 /\ L < 5 => L = 4 \/ L < 4
                 /\ L < 6 => L = 5 \/ L < 5
                 /\ L < 7 => L = 6 \/ L < 6
                 /\ L < 8 => L = 7 \/ L < 7
                 /\ L < 9 => L = 8 \/ L < 8
                 /\ L < 10 => L = 9 \/ L < 9
                 /\ L < 11 => L = 10 \/ L < 10
                 /\ L < 12 => L = 11 \/ L < 11
                 /\ L < 13 => L = 12 \/ L < 12
                 /\ L < 14 => L = 13 \/ L < 13
                 /\ L < 15 => L = 14 \/ L < 14
                 /\ L < 16 => L = 15 \/ L < 15
  BY <1>2
<1> USE DEF L
<1> QED
  BY <1>1, <1>3, TypeInvariant, PTL DEF Falls, Ends

-----------------------------------------------------------------------------
(***************************************************************************)
(* When nothing goes wrong any more, an attempt gets through: TrueNAS      *)
(* refuses it nothing, whatever earlier attempts, rollbacks and late       *)
(* requests left of the volume, so no retry is needed after the next one.  *)
(***************************************************************************)

\* Without faults, a volume moves only by its own handler and by the provisioner.
LEMMA CalmSteps ==
  ASSUME PrefixFree, TypeInv, TypeInv', OwnInv, OwnInv', [Next]_vars, UNCHANGED <<used, late>>, NEW v \in Volumes
  PROVE  \/ Provision(v) \/ Handle(v)
         \/ /\ handler'[v] = handler[v] /\ phase'[v] = phase[v]
            /\ Objects(v)' = Objects(v) /\ KeepsOf(v)
<1>1. \A f \in FaultKinds : ~Fault(f)
  BY DEF Fault, TypeInv
<1>2. \A w \in Volumes : ~Disturb(w)
  BY <1>1 DEF FaultKinds, Disturb, RejectCall, LoseReply, Abandon, AbandonLate
<1>3. \A r \in late : ~Deliver(r)
  BY DEF Deliver
<1>4. CASE handler'[v] = handler[v] /\ phase'[v] = phase[v]
  <2>1. ~Moves(v)
    BY <1>4 DEF Moves
  <2>2. Objects(v)' = Objects(v)
    BY <2>1, OthersObjects
  <2>3. ASSUME nas' = nas PROVE KeepsOf(v)
    BY <2>3 DEF KeepsOf
  <2>4. ASSUME nas' # nas PROVE KeepsOf(v)
    <3>1. PICK u \in Volumes : ChangeOf(u) /\ Moves(u)
      BY <2>4, StepChanges
    <3>2. u # v
      BY <2>1, <3>1
    <3> QED
      BY <3>1, <3>2, OthersKeep DEF OwnInv
  <2> QED
    BY <1>4, <2>2, <2>3, <2>4
<1>5. ASSUME NEW w \in Volumes, w # v, Provision(w) \/ Handle(w)
      PROVE  handler'[v] = handler[v] /\ phase'[v] = phase[v]
  BY <1>5, OnlyOneMoves
<1>6. CASE UNCHANGED vars
  BY <1>6, <1>4 DEF vars
<1> QED
  BY <1>2, <1>3, <1>4, <1>5, <1>6 DEF Next

\* A CreateVolume that was not disturbed: what it counts on is there, what it makes is not.
Trying(v) ==
  /\ handler[v].rpc = "create" /\ phase[v] = "creating"
  /\ BuiltUp(nas, v, handler[v], phase[v])
  /\ Missing(v) /\ HoldsInitiator(v)

\* A DeleteVolume likewise: what it deletes is there, and nothing keeps the dataset busy.
Clearing(v) ==
  /\ handler[v].rpc = "delete" /\ handler[v].verb # "error"
  /\ handler[v].step >= 2 => OwnTargets(v) = {}
  /\ Finds(v)

LEMMA TryingGoesOn ==
  ASSUME PrefixFree, TypeInv, OwnInv, OwnInv', NEW v \in Volumes, Trying(v), Handle(v)
  PROVE  Trying(v)' \/ (phase[v] = "bound")'
<1>1. BuiltUp(nas', v, handler'[v], phase'[v])
  BY OwnStepBuilds DEF Trying
<1>2. Missing(v)' /\ HoldsInitiator(v)'
  BY OwnStepLooks DEF Trying
<1>3. ~Refused(v)
  BY CreateNeverRefused DEF Trying, Refused
<1>4. ASSUME handler'[v].rpc = "create" /\ phase' = phase PROVE Trying(v)'
  BY <1>1, <1>2, <1>4 DEF Trying
<1>5. CASE LookupHit(v)
  BY <1>4, <1>5, HitMoves DEF Trying
<1>6. CASE LookupMiss(v)
  <2>1. handler'[v] = [handler[v] EXCEPT !.verb = "create"] /\ phase' = phase
    BY <1>6, MissMoves DEF Trying
  <2>2. handler'[v].rpc = "create"
    BY <2>1, HandlerFacts DEF Trying, HandlerType
  <2> QED
    BY <1>4, <2>1, <2>2
<1>7. CASE Call(v)
  BY <1>4, <1>7, CallMoves DEF Trying
<1>8. CASE Reply(v) \/ ReplyError(v)
  BY <1>8, ReplyMoves, HandlerFacts DEF Trying
<1> QED
  BY <1>3, <1>5, <1>6, <1>7, <1>8 DEF Handle

LEMMA ClearingGoesOn ==
  ASSUME PrefixFree, TypeInv, TypeInv', OwnInv, NEW v \in Volumes, Clearing(v), Handle(v)
  PROVE  Clearing(v)' \/ (phase[v] = "gone")'
<1> DEFINE h == handler[v]
<1> DEFINE g == handler'[v]
<1>1. /\ h \in Handlers /\ h \in HandlerType /\ h.rpc = "delete" /\ h.step \in 1..3 /\ DOMAIN phase = Volumes
      /\ h.verb \in {"find", "delete", "reply"}
  BY HandlerFacts DEF Clearing, Shape
<1>2. /\ Kind(h) = "target" <=> h.step = 1
      /\ Kind(h) = "dataset" <=> h.step = 2
      /\ Kind(h) = "initiator" <=> h.step = 3
  BY <1>1, Orders DEF Kind, Order
<1>3. CASE LookupHit(v)
  <2>1. g.rpc = "delete" /\ g.verb = "delete" /\ g.step = h.step /\ nas' = nas
    BY <1>1, <1>3, HitMoves
  <2> QED
    BY <1>3, <2>1, HitFinds DEF Clearing, OwnTargets
<1>4. ASSUME g = NextKind(h), h.verb \in {"find", "delete"}, OwnTargets(v)' = {} PROVE Clearing(v)'
  <2>1. g.rpc = "delete" /\ g.verb \in {"find", "reply"}
    BY <1>1, <1>4, NextKindMoves
  <2> QED
    BY <1>4, <2>1 DEF Clearing, Finds
<1>5. CASE LookupMiss(v)
  <2>1. g = NextKind(h) /\ h.verb = "find" /\ nas' = nas /\ Hits(v) = {}
    BY <1>1, <1>5, MissMoves
  <2>2. h.step = 1 => OwnTargets(v) = {}
    BY <1>2, <2>1 DEF Hits, FindISCSITarget, OwnTargets
  <2>3. OwnTargets(v)' = {}
    BY <1>1, <2>1, <2>2 DEF Clearing, OwnTargets
  <2> QED
    BY <1>4, <2>1, <2>3
<1>6. CASE Call(v)
  <2>1. /\ g = NextKind(h) /\ h.verb = "delete" /\ InCall(v) /\ nas' = After(Request(v))
    BY <1>1, <1>6, CallMoves DEF InCall
  <2>2. /\ Request(v) \in Requests /\ Request(v).verb = "delete"
        /\ Request(v).kind = Kind(h) /\ Request(v).ids = h.ids
    BY <1>1, <2>1, RequestIsRequest DEF Request
  <2>3. /\ nas'.targets \subseteq nas.targets
        /\ h.step = 1 => \A t \in nas'.targets : t.id # h.ids.target
    BY <1>2, <2>1, <2>2, DeleteShrinks DEF TypeInv
  <2>4. h.step = 1 => \A t \in OwnTargets(v) : t.id = h.ids.target
    BY <1>1, <2>1 DEF Clearing, Finds, OwnTargets, OwnInv, Identified
  <2>5. OwnTargets(v)' = {}
    BY <1>1, <2>3, <2>4 DEF Clearing, OwnTargets
  <2> QED
    BY <1>4, <2>1, <2>5
<1>7. ~Refused(v)
  BY DeleteNeverRefused DEF Refused, Clearing
<1>8. CASE Reply(v)
  BY <1>1, <1>8 DEF Reply
<1>9. ~ReplyError(v)
  BY DEF ReplyError, Clearing
<1> QED
  BY <1>3, <1>5, <1>6, <1>7, <1>8, <1>9 DEF Handle

\* What the steps that leave a volume's handler alone leave of an attempt.
LEMMA UnmovedKeeps ==
  ASSUME NEW v \in Volumes, handler'[v] = handler[v], phase'[v] = phase[v], Objects(v)' = Objects(v), KeepsOf(v)
  PROVE  /\ Trying(v) => Trying(v)'
         /\ Clearing(v) => Clearing(v)'
<1>1. Trying(v) => Trying(v)'
  BY KeepsBuilt, SameLooks DEF Trying
<1>2. /\ OwnTargets(v)' = OwnTargets(v) /\ OwnInitiators(v)' = OwnInitiators(v)
      /\ v \in nas'.datasets <=> v \in nas.datasets
  BY DEF Objects
<1> QED
  BY <1>1, <1>2 DEF Clearing, Finds

\* A retry of the provisioner begins an attempt.
LEMMA ProvisionTries ==
  ASSUME TypeInv, NEW v \in Volumes, Provision(v)
  PROVE  /\ handler[v].rpc = "idle"
         /\ phase[v] \in {"creating", "failed"} => Trying(v)'
         /\ phase[v] = "deleting" => Clearing(v)'
<1>1. /\ handler'[v].step = 1 /\ handler'[v].verb = "find" /\ handler[v].rpc = "idle"
      /\ \/ handler'[v].rpc = "create" /\ phase'[v] = "creating" /\ phase[v] \in {"absent", "creating", "failed"}
         \/ handler'[v].rpc = "delete" /\ phase'[v] = "deleting" /\ phase[v] \in {"bound", "deleting"}
  BY ProvisionMoves, HandlerFacts
<1>2. handler'[v].rpc = "create" => BuiltUp(nas', v, handler'[v], "creating")
  BY <1>1 DEF BuiltUp, Has
<1>3. Missing(v)' /\ HoldsInitiator(v)'
  BY <1>1 DEF Missing, HoldsInitiator
<1>4. phase[v] \in {"creating", "failed"} => Trying(v)'
  BY <1>1, <1>2, <1>3 DEF Trying
<1>5. phase[v] = "deleting" => Clearing(v)'
  BY <1>1 DEF Clearing, Finds
<1> QED
  BY <1>1, <1>4, <1>5

Creates(v) == phase[v] \in {"creating", "failed"}
Deletes(v) == phase[v] = "deleting"

\* The provisioner is not through with a volume before it is bound, or gone.
LEMMA PhaseKept ==
  ASSUME TypeInv, AgreeInv, [Next]_vars, NEW v \in Volumes
  PROVE  /\ Creates(v) => Creates(v)' \/ (phase[v] = "bound")'
         /\ Deletes(v) => Deletes(v)' \/ (phase[v] = "gone")'
<1>1. ASSUME NEW w \in Volumes, w # v, Provision(w) \/ Handle(w) \/ Disturb(w) PROVE phase'[v] = phase[v]
  BY <1>1, OnlyOneMoves DEF Disturb, AbandonLate
<1>2. Agrees(v) /\ DOMAIN phase = Volumes
  BY HandlerFacts DEF AgreeInv
<1>3. CASE Provision(v)
  BY <1>2, <1>3, ProvisionMoves DEF Creates, Deletes
<1>4. CASE Reply(v) \/ ReplyError(v)
  BY <1>2, <1>4, ReplyMoves DEF Creates, Deletes, Agrees
<1>5. ASSUME Handle(v) \/ Disturb(v), ~Reply(v), ~ReplyError(v) PROVE phase' = phase
  BY <1>5 DEF Handle, LookupHit, LookupMiss, Call, Refused, Disturb, RejectCall, LoseReply, Abandon, AbandonLate
<1>6. CASE UNCHANGED vars \/ \E r \in late : Deliver(r)
  BY <1>6 DEF vars, Deliver, Creates, Deletes
<1> QED
  BY <1>1, <1>3, <1>4, <1>5, <1>6 DEF Next, Creates, Deletes

LEMMA CalmCreates ==
  ASSUME PrefixFree, TypeInv, TypeInv', OwnInv, OwnInv', [Next]_vars, UNCHANGED <<used, late>>, NEW v \in Volumes
  PROVE  /\ Trying(v) => Trying(v)' \/ (phase[v] = "bound")'
         /\ Creates(v) /\ handler[v].rpc = "idle" => (handler[v].rpc = "idle")' \/ Trying(v)'
<1>1. CASE handler'[v] = handler[v] /\ phase'[v] = phase[v] /\ Objects(v)' = Objects(v) /\ KeepsOf(v)
  BY <1>1, UnmovedKeeps
<1>2. CASE Provision(v)
  BY <1>2, ProvisionTries DEF Trying, Creates
<1>3. CASE Handle(v)
  <2>1. handler[v].rpc # "idle"
    BY <1>3, HandlerFacts
       DEF Handle, LookupHit, LookupMiss, Call, Refused, InCall, Reply, ReplyError, Shape
  <2> QED
    BY <1>3, <2>1, TryingGoesOn
<1> QED
  BY <1>1, <1>2, <1>3, CalmSteps

LEMMA CalmDeletes ==
  ASSUME PrefixFree, TypeInv, TypeInv', OwnInv, OwnInv', [Next]_vars, UNCHANGED <<used, late>>, NEW v \in Volumes
  PROVE  /\ Clearing(v) => Clearing(v)' \/ (phase[v] = "gone")'
         /\ Deletes(v) /\ handler[v].rpc = "idle" => (handler[v].rpc = "idle")' \/ Clearing(v)'
<1>1. CASE handler'[v] = handler[v] /\ phase'[v] = phase[v] /\ Objects(v)' = Objects(v) /\ KeepsOf(v)
  BY <1>1, UnmovedKeeps
<1>2. CASE Provision(v)
  BY <1>2, ProvisionTries DEF Clearing, Deletes
<1>3. CASE Handle(v)
  <2>1. handler[v].rpc # "idle"
    BY <1>3, HandlerFacts
       DEF Handle, LookupHit, LookupMiss, Call, Refused, InCall, Reply, ReplyError, Shape
  <2> QED
    BY <1>3, <2>1, ClearingGoesOn
<1> QED
  BY <1>1, <1>2, <1>3, CalmSteps

-----------------------------------------------------------------------------
(***************************************************************************)
(* When the steps are enabled.  A formula CanX holds when a guard of the   *)
(* actions that make up X does, and the step changes the handler.          *)
(* GuardsEnable, that such a step is enabled, is what ENABLED means of     *)
(* these actions; the provers cannot look into ENABLED, so it is a         *)
(* hypothesis.                                                             *)
(***************************************************************************)
Continues(v, h) == h # handler[v]

HitNext(h, id) == LET g == Holding(h, id) IN IF g.rpc = "create" THEN NextKind(g) ELSE [g EXCEPT !.verb = "delete"]
MissNext(h)    == IF h.rpc = "create" THEN [h EXCEPT !.verb = "create"] ELSE NextKind(h)

CanHandle(v) ==
  \/ handler[v].verb = "find" /\ \E id \in Hits(v) : Continues(v, HitNext(handler[v], id))
  \/ handler[v].verb = "find" /\ Hits(v) = {} /\ Continues(v, MissNext(handler[v]))
  \/ InCall(v) /\ Accepted(Request(v)) /\ Continues(v, Succeeded(handler[v], nas.nextId))
  \/ InCall(v) /\ ~Accepted(Request(v)) /\ Continues(v, Failed(handler[v]))
  \/ handler[v].verb \in {"reply", "error"} /\ Continues(v, Idle)
CanStart(v, rpc) == handler[v].rpc = "idle" /\ Continues(v, [Idle EXCEPT !.rpc = rpc, !.verb = "find"])
CanRetryCreate(v) == phase[v] \in {"creating", "failed"} /\ CanStart(v, "create")
CanRetryDelete(v) == phase[v] = "deleting" /\ CanStart(v, "delete")

GuardsEnable ==
  \A v \in Volumes :
    /\ CanHandle(v) => ENABLED <<Handle(v)>>_vars
    /\ CanRetryCreate(v) => ENABLED <<RetryCreateVolume(v)>>_vars
    /\ CanRetryDelete(v) => ENABLED <<RetryDeleteVolume(v)>>_vars

\* The next kind is another one, or there is none and the handler answers.
LEMMA NextIsOther ==
  ASSUME NEW h \in Handlers, NEW g \in Handlers, g.rpc = h.rpc, g.step = h.step,
         h.rpc \in {"create", "delete"}, h.verb # "reply"
  PROVE  NextKind(g) # h
<1>1. g \in HandlerType /\ g.step \in 1..5
  BY DEF Handlers, Shape
<1>2. CASE g.step = Len(Order(g.rpc))
  <2>1. NextKind(g).verb = "reply"
    BY <1>1, <1>2 DEF NextKind, HandlerType
  <2> QED
    BY <2>1
<1>3. CASE g.step # Len(Order(g.rpc))
  <2>1. NextKind(g).step = g.step + 1
    BY <1>1, <1>3 DEF NextKind, HandlerType
  <2> QED
    BY <1>1, <2>1
<1> QED
  BY <1>2, <1>3

\* What a lookup or an answer leaves is never where the handler was.
LEMMA HandlerGoesOn ==
  ASSUME TypeInv, NEW v \in Volumes, handler[v].rpc # "idle"
  PROVE  CanHandle(v)
<1> DEFINE h == handler[v]
<1>1. h \in Handlers /\ h \in HandlerType /\ Shape(h) /\ nas.nextId \in Int
  BY HandlerFacts
<1>2. CASE h.verb = "find" /\ Hits(v) # {}
  <2>1. PICK id \in Hits(v) : TRUE
    BY <1>2
  <2>2. id \in Int
    BY <1>1, <2>1, HitsType DEF TypeInv
  <2> DEFINE g == Holding(h, id)
  <2>3. g \in Handlers /\ g.rpc = h.rpc /\ g.step = h.step /\ g \in HandlerType
    BY <1>1, <2>2, HoldingType DEF Handlers
  <2> HIDE DEF g
  <2>4. CASE h.rpc = "create"
    BY <1>1, <1>2, <2>1, <2>3, <2>4, NextIsOther DEF CanHandle, Continues, HitNext, g
  <2>5. CASE h.rpc = "delete"
    <3>1. [g EXCEPT !.verb = "delete"].verb = "delete"
      BY <2>3 DEF HandlerType
    <3>2. HitNext(h, id) = [g EXCEPT !.verb = "delete"]
      BY <2>3, <2>5 DEF HitNext, g
    <3>3. HitNext(h, id) # h
      BY <1>2, <3>1, <3>2
    <3> QED
      BY <1>2, <2>1, <3>3 DEF CanHandle, Continues
  <2> QED
    BY <1>1, <1>2, <2>4, <2>5 DEF Shape
<1>3. CASE h.verb = "find" /\ Hits(v) = {}
  <2>1. CASE h.rpc = "create"
    <3>1. MissNext(h).verb = "create"
      BY <1>1, <2>1 DEF MissNext, HandlerType
    <3> QED
      BY <1>3, <3>1 DEF CanHandle, Continues
  <2>2. CASE h.rpc = "delete"
    BY <1>1, <1>3, <2>2, NextIsOther DEF CanHandle, Continues, MissNext
  <2> QED
    BY <1>1, <1>3, <2>1, <2>2 DEF Shape
<1>4. h.verb \in {"create", "delete"} => Failed(h) # h
  <2>1. ASSUME h.verb \in {"create", "delete"}, Failed(h) = h PROVE FALSE
    BY <1>1, <2>1, FailedFalls, LeftRange
  <2> QED
    BY <2>1
<1>5. CASE InCall(v) /\ ~Accepted(Request(v))
  BY <1>4, <1>5 DEF CanHandle, Continues, InCall
<1>6. CASE InCall(v) /\ Accepted(Request(v))
  <2>1. CASE h.rpc = "create"
    <3> DEFINE g == Holding(h, nas.nextId)
    <3>1. g \in Handlers /\ g.rpc = h.rpc /\ g.step = h.step
      BY <1>1, HoldingType
    <3>2. Succeeded(h, nas.nextId) = NextKind(g)
      BY <2>1 DEF Succeeded
    <3> QED
      BY <1>1, <1>6, <2>1, <3>1, <3>2, NextIsOther DEF CanHandle, Continues, InCall
  <2>2. CASE h.rpc = "rollback"
    <3>1. Succeeded(h, nas.nextId) = Failed(h)
      BY <2>2 DEF Succeeded, Failed
    <3> QED
      BY <1>4, <1>6, <3>1 DEF CanHandle, Continues, InCall
  <2>3. CASE h.rpc = "delete"
    <3>1. Succeeded(h, nas.nextId) = NextKind(h)
      BY <2>3 DEF Succeeded
    <3> QED
      BY <1>1, <1>6, <2>3, <3>1, NextIsOther DEF CanHandle, Continues, InCall
  <2> QED
    BY <1>1, <2>1, <2>2, <2>3 DEF Shape
<1>7. CASE h.verb \in {"reply", "error"}
  <2>1. Idle.rpc = "idle"
    BY DEF Idle
  <2> QED
    BY <1>7, <2>1 DEF CanHandle, Continues
<1> QED
  BY <1>1, <1>2, <1>3, <1>5, <1>6, <1>7 DEF Shape, InCall

(***************************************************************************)
(* No RPC ever hangs (iscsi.go:65-411), for any number of volumes: every   *)
(* lookup and every answer of TrueNAS, an error in a cleanup function      *)
(* included, leaves a handler with another step, never the one it was at.  *)
(***************************************************************************)
THEOREM NeverHanging == Spec /\ []GuardsEnable => []NeverHangs
<1>1. \A rpc : [Idle EXCEPT !.rpc = rpc, !.verb = "find"].verb = "find"
  BY DEF Idle
<1>2. ASSUME TypeInv, NEW v \in Volumes, handler[v].rpc = "idle" PROVE \A rpc : CanStart(v, rpc)
  <2>1. handler[v].verb = "none"
    BY <1>2 DEF TypeInv, Handlers, Shape
  <2> QED
    BY <1>1, <1>2, <2>1 DEF CanStart, Continues
<1>3. TypeInv /\ GuardsEnable => NeverHangs
  BY <1>2, HandlerGoesOn DEF GuardsEnable, NeverHangs, GoesOn, CanRetryCreate, CanRetryDelete
<1> QED
  BY <1>3, TypeInvariant, PTL

(***************************************************************************)
(* So every CreateVolume and DeleteVolume comes to an end                  *)
(* (iscsi.go:65-411), also one that is refused, loses replies or rolls     *)
(* back, for ever again: neither its lookups and creations nor the         *)
(* rollback over what it created let it go round in circles.               *)
(***************************************************************************)
THEOREM EveryRpcEnds ==
  FairSpec /\ []GuardsEnable => \A v \in Volumes : []<>(handler[v].rpc = "idle")
<1>1. ASSUME NEW v \in Volumes PROVE FairSpec /\ []GuardsEnable => []<>(handler[v].rpc = "idle")
  <2>1. NeverHangs => GoesOn(v)
    BY DEF NeverHangs
  <2>2. Fairness => FairTo(v)
    BY DEF Fairness
  <2>3. Ends(v)
    BY RpcEnds
  <2> QED
    BY <2>1, <2>2, <2>3, NeverHanging, PTL DEF FairSpec, FairTo, Ends
<1> QED
  BY <1>1

-----------------------------------------------------------------------------
(***************************************************************************)
(* When no volume id is a prefix of another one and faults stop, every     *)
(* volume that is being created gets bound, for any number of volumes and  *)
(* whatever the faults, the rollbacks and the late requests before left:   *)
(* no leftover makes TrueNAS refuse a call of a CreateVolume that is not   *)
(* disturbed (iscsi.go:65-349).                                            *)
(***************************************************************************)
THEOREM CreateAlwaysConverges ==
  ASSUME PrefixFree PROVE FairSpec /\ []GuardsEnable /\ FaultsEnd => CreateConverges
<1>1. ASSUME NEW v \in Volumes
      PROVE  Spec /\ FairTo(v) /\ []NeverHangs /\ FaultsEnd => GetsBound(v)
  <2>1. NeverHangs => GoesOn(v)
    BY DEF NeverHangs
  <2>2. Ends(v)
    BY RpcEnds
  <2>3. TypeInv /\ AgreeInv /\ [Next]_vars => (Creates(v) => Creates(v)' \/ (phase[v] = "bound")')
    BY PhaseKept
  <2>4. TypeInv /\ TypeInv' /\ OwnInv /\ OwnInv' /\ [Next]_vars /\ [UNCHANGED <<used, late>>]_vars
          => /\ Trying(v) => Trying(v)' \/ (phase[v] = "bound")'
             /\ Creates(v) /\ handler[v].rpc = "idle" => (handler[v].rpc = "idle")' \/ Trying(v)'
    BY CalmCreates DEF vars
  <2>5. TypeInv /\ <<RetryCreateVolume(v)>>_vars => Trying(v)'
    BY ProvisionTries DEF Provision, RetryCreateVolume
  <2>6. Trying(v) => ~(handler[v].rpc = "idle")
    BY DEF Trying
  <2>7. Creates(v) <=> phase[v] \in {"creating", "failed"}
    BY DEF Creates
  <2> QED
    BY <2>1, <2>2, <2>3, <2>4, <2>5, <2>6, <2>7, TypeInvariant, OwnInvariant, AgreeInvariant, PTL
       DEF Spec, FairTo, Ends, GoesOn, FaultsEnd, GetsBound
<1>2. FairSpec /\ []NeverHangs /\ FaultsEnd => CreateConverges
  BY <1>1 DEF FairSpec, Fairness, CreateConverges
<1> QED
  BY <1>2, NeverHanging, PTL DEF FairSpec

(***************************************************************************)
(* And every volume that is being deleted goes: what the lookups of the    *)
(* DeleteVolume find is there to be deleted, and once the target is gone   *)
(* nothing keeps the zvol busy (iscsi.go:351-411).                         *)
(***************************************************************************)
THEOREM DeleteAlwaysConverges ==
  ASSUME PrefixFree PROVE FairSpec /\ []GuardsEnable /\ FaultsEnd => DeleteConverges
<1>1. ASSUME NEW v \in Volumes
      PROVE  Spec /\ FairTo(v) /\ []NeverHangs /\ FaultsEnd => GetsGone(v)
  <2>1. NeverHangs => GoesOn(v)
    BY DEF NeverHangs
  <2>2. Ends(v)
    BY RpcEnds
  <2>3. TypeInv /\ AgreeInv /\ [Next]_vars => (Deletes(v) => Deletes(v)' \/ (phase[v] = "gone")')
    BY PhaseKept
  <2>4. TypeInv /\ TypeInv' /\ OwnInv /\ OwnInv' /\ [Next]_vars /\ [UNCHANGED <<used, late>>]_vars
          => /\ Clearing(v) => Clearing(v)' \/ (phase[v] = "gone")'
             /\ Deletes(v) /\ handler[v].rpc = "idle" => (handler[v].rpc = "idle")' \/ Clearing(v)'
    BY CalmDeletes DEF vars
  <2>5. TypeInv /\ <<RetryDeleteVolume(v)>>_vars => Clearing(v)'
    BY ProvisionTries DEF Provision, RetryDeleteVolume
  <2>6. Clearing(v) => ~(handler[v].rpc = "idle")
    BY DEF Clearing
  <2>7. Deletes(v) <=> phase[v] = "deleting"
    BY DEF Deletes
  <2> QED
    BY <2>1, <2>2, <2>3, <2>4, <2>5, <2>6, <2>7, TypeInvariant, OwnInvariant, AgreeInvariant, PTL
       DEF Spec, FairTo, Ends, GoesOn, FaultsEnd, GetsGone
<1>2. FairSpec /\ []NeverHangs /\ FaultsEnd => DeleteConverges
  BY <1>1 DEF FairSpec, Fairness, DeleteConverges
<1> QED
  BY <1>2, NeverHanging, PTL DEF FairSpec

(***************************************************************************)
(* Both together: retries get through, whatever is left in their way.      *)
(***************************************************************************)
THEOREM AlwaysConverges ==
  ASSUME PrefixFree PROVE FairSpec /\ []GuardsEnable /\ FaultsEnd => Converges
BY CreateAlwaysConverges, DeleteAlwaysConverges DEF Converges

-----------------------------------------------------------------------------
(***************************************************************************)
(* ListVolumes.                                                            *)
(***************************************************************************)
\* The controller's part of a step is a step of the controller.
LEMMA ListIsController == ListSpec => Spec
<1>1. [ListNext]_listVars => [Next]_vars
  BY DEF ListNext, ListVolumes, ReadDatasets, ReadExtents, ReadMappings, ReadTargets, Reading, ListFails, listVars, vars
<1> QED
  BY <1>1, PTL DEF ListSpec, ListInit, Spec

\* The ids in the map are known to TrueNAS, and whatever object still has one is
\* that of the dataset it is mapped to.
MapsOwn(objects) ==
  \A id \in DOMAIN list.map :
    id \in Nat /\ id < nas.nextId /\ \A o \in objects : o.id = id => o.vol = list.map[id]

MapsVolumes == \A v \in DOMAIN list.map : list.map[v] = v

\* Only whole volumes have got through three of the joins.
MapsServed == \A id \in DOMAIN list.map : list.map[id] \in list.served

ListShape ==
  /\ list = [next |-> list.next, map |-> list.map, bound |-> list.bound, served |-> list.served]
  /\ list.next \in {"datasets", "extents", "mappings", "targets"}

ListInv ==
  /\ ListShape
  /\ list.next = "extents"  => MapsVolumes
  /\ list.next = "mappings" => MapsOwn(nas.extents)
  /\ list.next = "targets"  => MapsOwn(nas.targets) /\ MapsServed

\* An id that is known is never given to another object.
LEMMA ListInvKept ==
  ASSUME TypeInv, TypeInv', OwnInv, [Next]_vars, ListInv, list' = list
  PROVE  ListInv'
<1>1. CASE nas' = nas
  BY <1>1 DEF ListInv, ListShape, MapsOwn, MapsVolumes, MapsServed
<1>2. ASSUME NEW v \in Volumes, ChangeOf(v)
      PROVE  ListInv'
  <2>1. nas.nextId \in Nat /\ nas'.nextId \in Nat /\ nas.nextId <= nas'.nextId
    BY <1>2 DEF TypeInv, NasType, ChangeOf
  <2>2. ASSUME MapsOwn(nas.extents) PROVE MapsOwn(nas.extents)'
    <3>1. \A e \in nas'.extents : e \in nas.extents \/ e.id >= nas.nextId
      BY <1>2 DEF ChangeOf
    <3>2. \A e \in nas'.extents : e.id \in Nat
      BY DEF TypeInv, NasType
    <3> QED
      BY <2>1, <2>2, <3>1, <3>2 DEF MapsOwn
  <2>3. ASSUME MapsOwn(nas.targets) PROVE MapsOwn(nas.targets)'
    <3>1. \A t \in nas'.targets : t \in nas.targets \/ t.id >= nas.nextId
      BY <1>2 DEF ChangeOf
    <3>2. \A t \in nas'.targets : t.id \in Nat
      BY DEF TypeInv, NasType
    <3> QED
      BY <2>1, <2>3, <3>1, <3>2 DEF MapsOwn
  <2> QED
    BY <2>2, <2>3 DEF ListInv, ListShape, MapsVolumes, MapsServed
<1> QED
  BY <1>1, <1>2, StepChanges

\* The second join: from the extents' paths to their ids.
LEMMA ReadExtentsMaps ==
  ASSUME TypeInv, OwnInv, ListInv, ReadExtents
  PROVE  ListInv'
<1> DEFINE new == ExtentMap(nas.extents, list.map)
<1>1. list.next = "extents" /\ nas' = nas /\ MapsVolumes
  BY DEF ReadExtents, Reading, vars, ListInv
<1>2. /\ list'.next = "mappings" /\ list'.map = new
      /\ list' = [next |-> list'.next, map |-> list'.map, bound |-> list'.bound, served |-> list'.served]
  BY DEF ReadExtents, ListInv, ListShape
<1>3. ASSUME NEW id \in DOMAIN new
      PROVE  /\ id \in Nat /\ id < nas.nextId
             /\ \A o \in nas.extents : o.id = id => o.vol = new[id]
  <2> DEFINE found == {e \in nas.extents : e.vol \in DOMAIN list.map}
             chosen == CHOOSE e \in nas.extents : e.id = id
  <2>1. id \in {e.id : e \in found}
    BY <1>3 DEF ExtentMap
  <2>2. new[id] = list.map[chosen.vol]
    BY <2>1 DEF ExtentMap
  <2>3. PICK e \in found : e.id = id
    BY <2>1
  <2>4. \A o \in nas.extents : o.id = id => o = e
    BY <2>3 DEF OwnInv, Identified
  <2>5. chosen = e
    BY <2>3, <2>4
  <2>6. new[id] = e.vol
    BY <1>1, <2>2, <2>3, <2>5 DEF MapsVolumes
  <2>7. id \in Nat /\ id < nas.nextId
    BY <2>3 DEF TypeInv, NasType, OwnInv, Identified
  <2> QED
    BY <2>4, <2>6, <2>7
<1> HIDE DEF new
<1>4. MapsOwn(nas.extents)'
  BY <1>1, <1>2, <1>3 DEF MapsOwn
<1> QED
  BY <1>2, <1>4 DEF ListInv, ListShape

\* The third: from the mappings' extents to their targets.
LEMMA ReadMappingsMaps ==
  ASSUME TypeInv, OwnInv, Backed, ListInv, ReadMappings
  PROVE  ListInv'
<1>1. list.next = "mappings" /\ nas' = nas /\ MapsOwn(nas.extents)
  BY DEF ReadMappings, Reading, vars, ListInv
<1>2. PICK f \in ExtentTargetMaps(nas.mappings, list.map) :
        list' = [list EXCEPT !.next = "targets", !.map = f, !.served = {v \in Volumes : Served(v)}]
  BY DEF ReadMappings
<1>3. /\ list'.next = "targets" /\ list'.map = f /\ list'.served = {v \in Volumes : Served(v)}
      /\ list' = [next |-> list'.next, map |-> list'.map, bound |-> list'.bound, served |-> list'.served]
  BY <1>2 DEF ListInv, ListShape
<1>4. ASSUME NEW id \in DOMAIN f
      PROVE  /\ id \in Nat /\ id < nas.nextId
             /\ \A o \in nas.targets : o.id = id => o.vol = f[id]
             /\ f[id] \in Volumes /\ Served(f[id])
  <2> DEFINE found == {m \in nas.mappings : m.extent \in DOMAIN list.map}
  <2>1. PICK m \in found : m.target = id /\ f[id] = list.map[m.extent]
    BY <1>4 DEF ExtentTargetMaps
  <2>2. PICK t \in nas.targets, e \in nas.extents : t.id = m.target /\ e.id = m.extent /\ t.vol = e.vol
    BY <2>1 DEF OwnInv, Joined
  <2>3. e.vol = list.map[m.extent]
    BY <1>1, <2>1, <2>2 DEF MapsOwn
  <2>4. \A o \in nas.targets : o.id = id => o = t
    BY <2>1, <2>2 DEF OwnInv, Identified
  <2>5. id \in Nat /\ id < nas.nextId
    BY <2>1, <2>2 DEF TypeInv, NasType, OwnInv, Identified
  <2>6. m = [target |-> t.id, extent |-> e.id, lun |-> 0]
    BY <2>1, <2>2 DEF TypeInv, NasType, OwnInv, Joined
  <2>7. e.vol \in Volumes /\ Served(e.vol)
    BY <2>1, <2>2, <2>6 DEF Served, Backed, TypeInv, NasType
  <2> QED
    BY <2>1, <2>2, <2>3, <2>4, <2>5, <2>7
<1>5. MapsOwn(nas.targets)'
  BY <1>1, <1>3, <1>4 DEF MapsOwn
<1>6. MapsServed'
  BY <1>3, <1>4 DEF MapsServed
<1> QED
  BY <1>3, <1>5, <1>6 DEF ListInv, ListShape

LEMMA ListInvStep == TypeInv /\ TypeInv' /\ OwnInv /\ Backed /\ ListInv /\ [ListNext]_listVars => ListInv'
<1> SUFFICES ASSUME TypeInv, TypeInv', OwnInv, Backed, ListInv, [ListNext]_listVars PROVE ListInv'
  OBVIOUS
<1>1. CASE ReadDatasets
  <2>1. /\ list'.next = "extents" /\ list'.map = DatasetMap(nas.datasets)
        /\ list' = [next |-> list'.next, map |-> list'.map, bound |-> list'.bound, served |-> list'.served]
    BY <1>1 DEF ReadDatasets, ListInv, ListShape
  <2> QED
    BY <2>1 DEF ListInv, ListShape, MapsVolumes, DatasetMap
<1>2. CASE ReadExtents
  BY <1>2, ReadExtentsMaps
<1>3. CASE ReadMappings
  BY <1>3, ReadMappingsMaps
<1>4. CASE ReadTargets \/ ListFails
  BY <1>4 DEF ReadTargets, ListFails, ListInv, ListShape, NotListing
<1>5. CASE (Next /\ UNCHANGED list) \/ UNCHANGED listVars
  BY <1>5, ListInvKept DEF listVars, vars
<1> QED
  BY <1>1, <1>2, <1>3, <1>4, <1>5 DEF ListNext, ListVolumes

LEMMA ListInvariant == ListSpec => [](TypeInv /\ OwnInv /\ ListInv)
<1>1. ListInit => ListInv
  BY DEF ListInit, NotListing, ListInv, ListShape
<1> QED
  BY <1>1, ListInvStep, ListIsController, TypeInvariant, OwnInvariant, BackedInvariant, PTL DEF ListSpec

(***************************************************************************)
(* A listed volume was whole when the mappings were read, and is listed    *)
(* with its own dataset.                                                   *)
(***************************************************************************)
THEOREM ListedAlwaysServed == ListSpec => ListedWasServed
<1>1. ListInv =>
        (ReadTargets => \A entry \in Answer : entry.volume \in list.served /\ entry.dataset = entry.volume)
  <2> SUFFICES ASSUME ListInv, ReadTargets, NEW entry \in Answer
               PROVE  entry.volume \in list.served /\ entry.dataset = entry.volume
    OBVIOUS
  <2>1. PICK t \in nas.targets : t.id \in DOMAIN list.map /\ entry = [volume |-> t.vol, dataset |-> list.map[t.id]]
    BY DEF Answer, Entries
  <2>2. MapsOwn(nas.targets) /\ MapsServed
    BY DEF ListInv, ReadTargets, Reading
  <2> QED
    BY <2>1, <2>2 DEF MapsOwn, MapsServed
<1> QED
  BY <1>1, ListInvariant, PTL DEF ListedWasServed
\* Nothing of a bound volume goes in a step from which no request is late.
LEMMA BoundKeeps ==
  ASSUME TypeInv, OwnInv, BuildInv, [Next]_vars, used'.late = 0,
         NEW v \in Volumes, phase[v] = "bound"
  PROVE  KeepsOf(v)
<1>1. late = {} /\ handler[v].rpc = "idle" /\ ~\E w \in Volumes : AbandonLate(w)
  BY LateBefore DEF BuildInv, BuiltUp
<1>2. handler[v].verb = "none"
  BY <1>1, HandlerFacts DEF Shape
<1>3. CASE nas' = nas
  BY <1>3 DEF KeepsOf
<1>4. CASE nas' # nas
  <2>1. PICK u \in Volumes : ChangeOf(u) /\ Moves(u)
    BY <1>4, StepChanges
  <2>2. ~Provision(v) /\ vars' # vars
    BY <1>4, ProvisionMoves DEF vars
  <2>3. ~(Handle(v) \/ RejectCall(v) \/ LoseReply(v) \/ Abandon(v))
    BY <1>1, <1>2 DEF Handle, LookupHit, LookupMiss, Call, Refused, Reply, ReplyError, RejectCall, LoseReply,
                      Abandon, InCall
  <2>4. PICK w \in Volumes : Provision(w) \/ Handle(w) \/ RejectCall(w) \/ LoseReply(w) \/ Abandon(w)
    BY <1>1, <2>2 DEF Next, Disturb
  <2>5. w # v
    BY <2>2, <2>3, <2>4
  <2>6. u # v
    BY <2>1, <2>4, <2>5, OnlyOneMoves DEF Moves
  <2> QED
    BY <2>1, <2>6, OthersKeep DEF OwnInv
<1> QED
  BY <1>3, <1>4

\* A volume that has been bound is never created again.
LEMMA BoundOnce ==
  ASSUME TypeInv, AgreeInv, [Next]_vars, NEW v \in Volumes, phase[v] \in {"bound", "deleting", "gone"}
  PROVE  /\ phase'[v] \in {"bound", "deleting", "gone"}
         /\ phase'[v] = "bound" => phase[v] = "bound"
<1>1. Agrees(v) /\ DOMAIN phase = Volumes
  BY HandlerFacts DEF AgreeInv
<1>2. CASE Provision(v)
  BY <1>1, <1>2, ProvisionMoves
<1>3. CASE Handle(v)
  <2>1. CASE LookupHit(v) \/ LookupMiss(v) \/ Call(v) \/ Refused(v)
    BY <2>1 DEF LookupHit, LookupMiss, Call, Refused
  <2>2. CASE Reply(v) \/ ReplyError(v)
    BY <1>1, <2>2, ReplyMoves DEF Agrees
  <2> QED
    BY <1>3, <2>1, <2>2 DEF Handle
<1>4. CASE Disturb(v)
  BY <1>4 DEF Disturb, RejectCall, LoseReply, Abandon, AbandonLate
<1>5. ASSUME NEW w \in Volumes, w # v, Provision(w) \/ Handle(w) \/ Disturb(w) PROVE phase'[v] = phase[v]
  BY <1>5, OnlyOneMoves DEF Disturb, AbandonLate
<1>6. CASE UNCHANGED vars
  BY <1>6 DEF vars
<1>7. ASSUME NEW r \in late, Deliver(r) PROVE phase' = phase
  BY <1>7 DEF Deliver
<1> QED
  BY <1>2, <1>3, <1>4, <1>5, <1>6, <1>7 DEF Next

\* A volume that was and is bound has got through the joins so far.
Followed(v) ==
  /\ list.next = "extents"  => v \in DOMAIN list.map
  /\ list.next = "mappings" => \E e \in nas.extents : e.vol = v /\ e.id \in DOMAIN list.map
  /\ list.next = "targets"  => \E t \in nas.targets : t.vol = v /\ t.id \in DOMAIN list.map

SteadyInv ==
  used.late = 0 =>
    \A v \in list.bound :
      /\ v \in Volumes /\ phase[v] \in {"bound", "deleting", "gone"}
      /\ phase[v] = "bound" => Followed(v)

LEMMA SteadyInvStep ==
  TypeInv /\ OwnInv /\ BuildInv /\ AgreeInv /\ ListInv /\ SteadyInv /\ [ListNext]_listVars => SteadyInv'
<1> SUFFICES ASSUME TypeInv, OwnInv, BuildInv, AgreeInv, ListInv, SteadyInv, [ListNext]_listVars,
                    used'.late = 0, NEW v \in list'.bound
             PROVE  /\ v \in Volumes /\ phase'[v] \in {"bound", "deleting", "gone"}
                    /\ phase'[v] = "bound" => Followed(v)'
  BY DEF SteadyInv
<1>1. [Next]_vars
  BY DEF ListNext, ListVolumes, ReadDatasets, ReadExtents, ReadMappings, ReadTargets, Reading, ListFails, listVars, vars
<1>2. used.late = 0
  BY <1>1, LateBefore
<1>3. /\ list = [next |-> list.next, map |-> list.map, bound |-> list.bound, served |-> list.served]
      /\ \A w \in Volumes : phase[w] = "bound" => Served(w)
  BY <1>2 DEF ListInv, ListShape, BuildInv, BuiltUp, ServedIn, Served
<1>4. CASE ReadDatasets
  <2>1. /\ list'.next = "extents" /\ list'.map = DatasetMap(nas.datasets) /\ phase' = phase
        /\ list'.bound = {w \in Volumes : phase[w] = "bound"}
    BY <1>3, <1>4 DEF ReadDatasets, Reading, vars
  <2> QED
    BY <1>3, <2>1 DEF Followed, DatasetMap, Served
<1>5. CASE ReadExtents
  <2>1. /\ list'.next = "mappings" /\ list'.map = ExtentMap(nas.extents, list.map) /\ phase' = phase /\ nas' = nas
        /\ list'.bound = list.bound /\ list.next = "extents"
    BY <1>3, <1>5 DEF ReadExtents, Reading, vars
  <2>2. v \in Volumes /\ phase[v] \in {"bound", "deleting", "gone"}
    BY <1>2, <2>1 DEF SteadyInv
  <2>3. ASSUME phase[v] = "bound" PROVE \E e \in nas.extents : e.vol = v /\ e.id \in DOMAIN list'.map
    <3>1. v \in DOMAIN list.map
      BY <1>2, <2>1, <2>3 DEF SteadyInv, Followed
    <3>2. PICK e \in nas.extents : e.vol = v
      BY <1>3, <2>2, <2>3 DEF Served
    <3>3. DOMAIN list'.map = {o.id : o \in {o \in nas.extents : o.vol \in DOMAIN list.map}}
      BY <2>1 DEF ExtentMap
    <3> QED
      BY <3>1, <3>2, <3>3
  <2> QED
    BY <2>1, <2>2, <2>3 DEF Followed
<1>6. CASE ReadMappings
  <2>1. PICK f \in ExtentTargetMaps(nas.mappings, list.map) :
          list' = [list EXCEPT !.next = "targets", !.map = f, !.served = {w \in Volumes : Served(w)}]
    BY <1>6 DEF ReadMappings
  <2>2. /\ list'.next = "targets" /\ list'.map = f /\ phase' = phase /\ nas' = nas
        /\ list'.bound = list.bound /\ list.next = "mappings"
    BY <1>3, <1>6, <2>1 DEF ReadMappings, Reading, vars
  <2>3. v \in Volumes /\ phase[v] \in {"bound", "deleting", "gone"}
    BY <1>2, <2>2 DEF SteadyInv
  <2>4. ASSUME phase[v] = "bound" PROVE \E t \in nas.targets : t.vol = v /\ t.id \in DOMAIN f
    <3> DEFINE found == {m \in nas.mappings : m.extent \in DOMAIN list.map}
    <3>1. PICK e \in nas.extents : e.vol = v /\ e.id \in DOMAIN list.map
      BY <1>2, <2>2, <2>4 DEF SteadyInv, Followed
    <3>2. PICK t \in nas.targets, x \in nas.extents :
            t.vol = v /\ x.vol = v /\ [target |-> t.id, extent |-> x.id, lun |-> 0] \in nas.mappings
      BY <1>3, <2>3, <2>4 DEF Served
    <3>3. x = e
      BY <3>1, <3>2 DEF OwnInv, Identified
    <3>4. [target |-> t.id, extent |-> x.id, lun |-> 0] \in found
      BY <3>1, <3>2, <3>3
    <3>5. DOMAIN f = {m.target : m \in found}
      BY DEF ExtentTargetMaps
    <3>6. t.id \in DOMAIN f
      BY <3>4, <3>5
    <3> QED
      BY <3>2, <3>6
  <2> QED
    BY <2>2, <2>3, <2>4 DEF Followed
<1>7. CASE ReadTargets \/ ListFails
  BY <1>7 DEF ReadTargets, ListFails, NotListing
<1>8. CASE list' = list
  <2>1. /\ v \in Volumes /\ phase[v] \in {"bound", "deleting", "gone"}
        /\ phase[v] = "bound" => Followed(v)
    BY <1>2, <1>8 DEF SteadyInv
  <2>2. /\ phase'[v] \in {"bound", "deleting", "gone"}
        /\ phase'[v] = "bound" => phase[v] = "bound"
    BY <1>1, <2>1, BoundOnce
  <2>3. ASSUME phase[v] = "bound" PROVE Followed(v)'
    <3>1. KeepsOf(v)
      BY <1>1, <2>1, <2>3, BoundKeeps
    <3> QED
      BY <1>8, <2>1, <2>3, <3>1 DEF Followed, KeepsOf
  <2> QED
    BY <2>1, <2>2, <2>3
<1> QED
  BY <1>4, <1>5, <1>6, <1>7, <1>8 DEF ListNext, ListVolumes, listVars

(***************************************************************************)
(* While no request is late, a volume that was bound when iscsiListVolumes *)
(* (iscsi.go:493-572) began and still is when it answers is listed.        *)
(***************************************************************************)
THEOREM SteadyAlwaysListed == ListSpec => SteadyIsListed
<1>1. ListInit => SteadyInv
  BY DEF ListInit, NotListing, SteadyInv
<1>2. Init => BuildInv
  BY DEF Init, BuildInv, BuiltUp, Idle
<1>3. Spec => []BuildInv
  BY <1>2, BuildInvStep, TypeInvariant, OwnInvariant, PTL DEF Spec
<1>4. ListSpec => []SteadyInv
  BY <1>1, <1>3, SteadyInvStep, ListInvariant, ListIsController, AgreeInvariant, PTL DEF ListSpec
<1>5. SteadyInv =>
        (ReadTargets /\ used.late = 0 =>
           \A v \in list.bound : phase[v] = "bound" => \E entry \in Answer : entry.volume = v)
  <2> SUFFICES ASSUME SteadyInv, ReadTargets, used.late = 0, NEW v \in list.bound, phase[v] = "bound"
               PROVE  \E entry \in Answer : entry.volume = v
    OBVIOUS
  <2>1. PICK t \in nas.targets : t.vol = v /\ t.id \in DOMAIN list.map
    BY DEF SteadyInv, Followed, ReadTargets, Reading
  <2>2. [volume |-> t.vol, dataset |-> list.map[t.id]] \in Answer
    BY <2>1 DEF Answer, Entries
  <2> QED
    BY <2>1, <2>2
<1> QED
  BY <1>4, <1>5, PTL DEF SteadyIsListed
=============================================================================
