------------------------- MODULE VolumeRequestsProofs -------------------------
(***************************************************************************)
(* Theorems about VolumeRequests, for every set of drivers, capabilities,  *)
(* volumes written by hand and secrets.                                    *)
(***************************************************************************)
EXTENDS VolumeRequests, CapacityRangeProofs

\* A request's size is extracted once: the rest does not touch it.
LEMMA RequestsExtract == RequestSpec => Spec
<1>1. RequestInit => Init
  BY DEF RequestInit
<1>2. [RequestNext]_requestVars => [Next]_vars
  BY DEF RequestNext, CreateVolume, CreateRefused, Validate, NodePublishVolume, Next, requestVars, vars
<1> QED
  BY <1>1, <1>2, PTL DEF RequestSpec, Spec

(***************************************************************************)
(* The size of a volume that CreateVolume makes is in the requested range  *)
(* and at least the minimum.                                               *)
(***************************************************************************)
THEOREM RequestInRange == RequestSpec => []SizeInRange
BY RequestsExtract, AcceptedInRange, PTL

(***************************************************************************)
(* It is the smallest one that TrueNAS can make.                           *)
(***************************************************************************)
THEOREM RequestIsSmallest == RequestSpec => []SmallestSize
BY RequestsExtract, AcceptedIsSmallest, PTL

(***************************************************************************)
(* So the size of the volume is right from both sides.                     *)
(***************************************************************************)
THEOREM RequestIsRight == RequestSpec => []SizeIsRight
BY RequestsExtract, AcceptedIsRight, PTL

-----------------------------------------------------------------------------
\* What is handed on was built from the volume, which is still what it was.
PublishedFromVolume ==
  published # Nothing =>
    /\ stage \in {"created", "written"}
    /\ published = CASE volume.prefix = "nfs-"   -> NFSPublish(volume.context)
                     [] volume.prefix = "iscsi-" -> ISCSIPublish(volume.context)
                     [] volume.prefix \notin {"nfs-", "iscsi-"} -> Refusal

LEMMA PublishedFromVolumeInvariant == RequestSpec => []PublishedFromVolume
<1>1. RequestInit => PublishedFromVolume
  BY DEF RequestInit, PublishedFromVolume
<1>2. PublishedFromVolume /\ [RequestNext]_requestVars => PublishedFromVolume'
  <2> SUFFICES ASSUME PublishedFromVolume, [RequestNext]_requestVars PROVE PublishedFromVolume'
    OBVIOUS
  <2>1. CASE CreateVolume \/ CreateRefused
    BY <2>1 DEF CreateVolume, CreateRefused, Unasked, PublishedFromVolume
  <2>2. ASSUME NEW exists \in BOOLEAN, Validate(exists)
        PROVE  PublishedFromVolume'
    BY <2>2 DEF Validate, PublishedFromVolume
  <2>3. CASE NodePublishVolume
    BY <2>3 DEF NodePublishVolume, PublishedFromVolume
  <2>4. CASE UNCHANGED requestVars
    BY <2>4 DEF requestVars, PublishedFromVolume
  <2> QED
    BY <2>1, <2>2, <2>3, <2>4 DEF RequestNext
<1> QED
  BY <1>1, <1>2, PTL DEF RequestSpec

\* What the two handlers of NodePublishVolume answer.
LEMMA NFSAnswers == \A c : NFSPublish(c).kind \in {"refused", "mount"}
BY DEF NFSPublish, Refusal, Nothing

LEMMA ISCSIAnswers ==
  ASSUME NEW c
  PROVE  \/ ISCSIPublish(c).kind = "refused"
         \/ /\ InfoAccepted(c)
            /\ ISCSIPublish(c).kind = "connector"
            /\ ISCSIPublish(c).session = parseSecret(c.secret) \cap SessionKeys
            /\ ISCSIPublish(c).discovery = parseSecret(c.secret) \cap DiscoveryKeys
<1>1. CASE ~InfoAccepted(c)
  BY <1>1 DEF ISCSIPublish, Refusal, Nothing
<1>2. CASE InfoAccepted(c)
  <2>1. c.iqn # ""
    BY <1>2 DEF InfoAccepted
  <2> QED
    BY <1>2, <2>1 DEF ISCSIPublish
<1> QED
  BY <1>1, <1>2

\* The three ways a publish ends.
LEMMA PublishAnswers ==
  ASSUME PublishedFromVolume
  PROVE  \/ published.kind \in {"none", "refused", "mount"}
         \/ /\ volume.prefix = "iscsi-"
            /\ published = ISCSIPublish(volume.context)
<1>1. CASE published # Nothing /\ volume.prefix = "nfs-"
  BY <1>1, NFSAnswers DEF PublishedFromVolume
<1>2. CASE published # Nothing /\ volume.prefix = "iscsi-"
  BY <1>2 DEF PublishedFromVolume
<1>3. CASE published # Nothing /\ volume.prefix \notin {"nfs-", "iscsi-"}
  BY <1>3 DEF PublishedFromVolume, Refusal, Nothing
<1>4. CASE published = Nothing
  BY <1>4 DEF Nothing
<1> QED
  BY <1>1, <1>2, <1>3, <1>4

(***************************************************************************)
(* AttachDisk always has a connector to dereference.                       *)
(***************************************************************************)
LEMMA ConnectorAlwaysThere == RequestSpec => []AlwaysAConnector
<1>1. PublishedFromVolume => AlwaysAConnector
  <2> SUFFICES ASSUME PublishedFromVolume, published.kind = "nil connector" PROVE FALSE
    BY DEF AlwaysAConnector
  <2>1. published = ISCSIPublish(volume.context)
    BY PublishAnswers
  <2> QED
    BY <2>1, ISCSIAnswers
<1> QED
  BY <1>1, PublishedFromVolumeInvariant, PTL

(***************************************************************************)
(* CHAP secrets reach csi-lib-iscsi whole or not at all.                   *)
(***************************************************************************)
LEMMA SecretsAlwaysWhole == RequestSpec => []SecretsUsedWhole
<1>1. PublishedFromVolume => SecretsUsedWhole
  <2> SUFFICES ASSUME PublishedFromVolume, published.kind = "connector"
               PROVE  <<published.session, published.discovery>> =
                        IF volume.context.secret.ok /\ volume.context.secret.value # {}
                        THEN <<SessionKeys, DiscoveryKeys>> ELSE <<{}, {}>>
    BY DEF SecretsUsedWhole
  <2> DEFINE c == volume.context
             secret == parseSecret(c.secret)
  <2>1. published = ISCSIPublish(c)
    BY PublishAnswers
  <2>2. /\ InfoAccepted(c)
        /\ published.session = secret \cap SessionKeys
        /\ published.discovery = secret \cap DiscoveryKeys
    <3> HIDE DEF c
    <3> QED
      BY <2>1, ISCSIAnswers
  <2>3. secret = {} \/ (SessionKeys \cup DiscoveryKeys \subseteq secret)
    BY <2>2 DEF InfoAccepted, SecretsWhole
  <2>4. CASE c.secret.ok /\ c.secret.value # {}
    <3>1. secret # {}
      BY <2>4 DEF parseSecret
    <3> QED
      BY <2>2, <2>3, <2>4, <3>1
  <2>5. CASE ~(c.secret.ok /\ c.secret.value # {})
    <3>1. secret = {}
      BY <2>5 DEF parseSecret
    <3> QED
      BY <2>2, <2>5, <3>1
  <2> QED
    BY <2>4, <2>5
<1> QED
  BY <1>1, PublishedFromVolumeInvariant, PTL

(***************************************************************************)
(* AttachDisk always gets a connector, with all of a secret or none of it. *)
(***************************************************************************)
THEOREM ConnectorAlwaysWhole == RequestSpec => []ConnectorIsWhole
BY ConnectorAlwaysThere, SecretsAlwaysWhole, PTL DEF ConnectorIsWhole

-----------------------------------------------------------------------------
\* What CreateVolume answered with, and for which capabilities.
CreatedVolume ==
  stage = "created" =>
    /\ volume = [prefix  |-> driver.prefix,
                 context |-> IF driver.prefix = "nfs-" THEN NFSContext ELSE ISCSIContext]
    /\ CreateAccepted

LEMMA CreatedVolumeInvariant == RequestSpec => []CreatedVolume
<1>1. RequestInit => CreatedVolume
  BY DEF RequestInit, CreatedVolume
<1>2. CreatedVolume /\ [RequestNext]_requestVars => CreatedVolume'
  <2> SUFFICES ASSUME CreatedVolume, [RequestNext]_requestVars PROVE CreatedVolume'
    OBVIOUS
  <2> USE DEF CreatedVolume, NFSContext, ISCSIContext, CreateAccepted
  <2>1. CASE CreateVolume
    BY <2>1 DEF CreateVolume, Unasked
  <2>2. CASE CreateRefused
    BY <2>2 DEF CreateRefused
  <2>3. ASSUME NEW exists \in BOOLEAN, Validate(exists)
        PROVE  CreatedVolume'
    BY <2>3 DEF Validate
  <2>4. CASE NodePublishVolume
    BY <2>4 DEF NodePublishVolume
  <2>5. CASE UNCHANGED requestVars
    BY <2>5 DEF requestVars
  <2> QED
    BY <2>1, <2>2, <2>3, <2>4, <2>5 DEF RequestNext
<1> QED
  BY <1>1, <1>2, PTL DEF RequestSpec

\* The answer has all the keys that ValidateVolumeCapabilities looks for.
LEMMA ContextKeys == NFSContext.keys = NFSKeys /\ ISCSIContext.keys = ISCSIKeys
<1>1. NFSContext.keys = NFSKeys
  BY DEF NFSContext, EmptyContext
<1>2. ISCSIContext.keys = ISCSIKeys
  BY DEF ISCSIContext, EmptyContext
<1> QED
  BY <1>1, <1>2

(***************************************************************************)
(* ValidateVolumeCapabilities never denies what CreateVolume answered with *)
(* as long as the dataset exists.                                          *)
(***************************************************************************)
THEOREM CreatedAlwaysConfirmed == RequestSpec => []CreatedIsConfirmed
<1> DEFINE J == CreatedVolume /\ CreatedIsConfirmed /\ (stage = "request" => confirmed = "not asked")
<1>1. RequestInit => J
  BY DEF RequestInit, CreatedVolume, CreatedIsConfirmed
<1>2. J /\ CreatedVolume' /\ [RequestNext]_requestVars => J'
  <2> SUFFICES ASSUME J, CreatedVolume', [RequestNext]_requestVars PROVE J'
    OBVIOUS
  <2>1. CASE CreateVolume \/ CreateRefused
    BY <2>1 DEF CreateVolume, CreateRefused, Unasked, CreatedIsConfirmed
  <2>2. ASSUME NEW exists \in BOOLEAN, Validate(exists)
        PROVE  J'
    <3>1. CASE stage = "created"
      <4>1. volume.prefix = driver.prefix /\ CheckCaps(driver.prefix, asked)
        BY <3>1 DEF CreatedVolume, CreateAccepted
      <4>2. Keys(driver.prefix) \subseteq volume.context.keys
        BY <3>1, ContextKeys DEF CreatedVolume, Keys
      <4> QED
        BY <2>2, <3>1, <4>1, <4>2 DEF Validate, Confirms, CreatedIsConfirmed
    <3>2. CASE stage # "created"
      BY <2>2, <3>2 DEF Validate, CreatedIsConfirmed
    <3> QED
      BY <3>1, <3>2
  <2>3. CASE NodePublishVolume
    BY <2>3 DEF NodePublishVolume, CreatedIsConfirmed
  <2>4. CASE UNCHANGED requestVars
    BY <2>4 DEF requestVars, CreatedIsConfirmed
  <2> QED
    BY <2>1, <2>2, <2>3, <2>4 DEF RequestNext
<1>3. J => CreatedIsConfirmed
  OBVIOUS
<1> QED
  BY <1>1, <1>2, <1>3, CreatedVolumeInvariant, PTL DEF RequestSpec

-----------------------------------------------------------------------------
\* The configuration stays.
LEMMA DriverInvariant == RequestSpec => [](driver \in Drivers)
<1>1. RequestInit => driver \in Drivers
  BY DEF RequestInit
<1>2. driver \in Drivers /\ [RequestNext]_requestVars => (driver \in Drivers)'
  BY DEF RequestNext, CreateVolume, CreateRefused, Unasked, Validate, NodePublishVolume, requestVars
<1> QED
  BY <1>1, <1>2, PTL DEF RequestSpec

LEMMA NFSCreatedPublished ==
  ASSUME driver.url \in Addresses \ {NoAddress}
  PROVE  /\ NFSPublish(NFSContext).kind = "mount"
         /\ ~driver.url.port => NamesServer(NFSPublish(NFSContext).addresses[1])
<1>1. NFSContext.host = driver.url /\ NFSContext.mountPoint = "mountpoint"
  BY DEF NFSContext, EmptyContext
<1>2. getServerFromSource(driver.url).port = driver.url.port
  BY DEF getServerFromSource, Addresses
<1>3. getServerFromSource(driver.url).host = "v6" => getServerFromSource(driver.url).brackets
  BY DEF getServerFromSource, Addresses
<1> QED
  BY <1>1, <1>2, <1>3 DEF NFSPublish, Refusal, Nothing, NamesServer

LEMMA Int32Zero == Int32(0) = 0
<1>1. LunRange \in Nat /\ LunRange > 0
  BY LunRangeAssumption
<1>2. LunRange \div 2 \in 0..(LunRange - 1)
  BY <1>1
<1>3. (LunRange \div 2) % LunRange = LunRange \div 2
  BY <1>1, <1>2
<1> QED
  BY <1>2, <1>3 DEF Int32

LEMMA ISCSICreatedPublished ==
  ASSUME Head(driver.listen).host \in {"name", "v6", "any"}
  PROVE  LET answer == ISCSIPublish(ISCSIContext)
         IN /\ answer.kind = "connector"
            /\ answer.iqn = "target" /\ answer.lun = 0
            /\ answer.session = {} /\ answer.discovery = {}
            /\ Head(driver.listen).host = "name" => NamesPortal(answer.addresses[1])
<1> DEFINE c == ISCSIContext
           first == PortalAddress(Head(driver.listen))
<1>1. /\ c.keys = ISCSIKeys /\ c.targetPortal = first /\ c.iqn = "target" /\ c.lun = 0
      /\ c.portals = [ok |-> TRUE, value |-> << >>] /\ c.secret = NoSecret
  BY DEF ISCSIContext, EmptyContext
<1>2. parseSecret(c.secret) = {}
  BY <1>1 DEF parseSecret, NoSecret
<1>3. first # NoAddress
  BY DEF PortalAddress, Address, NoAddress
<1>4. InfoAccepted(c)
  BY <1>1, <1>2, <1>3 DEF InfoAccepted, SecretsWhole, NoLun, BadLun
<1>5. Portals(c)[1] = portalMounter(first)
  BY <1>1 DEF Portals
<1>6. Head(driver.listen).host = "name" => NamesPortal(portalMounter(first))
  BY DEF portalMounter, PortalAddress, Address, NamesPortal
<1> HIDE DEF c
<1>7. /\ ISCSIPublish(c).kind = "connector"
      /\ ISCSIPublish(c).iqn = "target" /\ ISCSIPublish(c).lun = Int32(0)
      /\ ISCSIPublish(c).session = {} /\ ISCSIPublish(c).discovery = {}
      /\ ISCSIPublish(c).addresses = Portals(c)
  BY <1>1, <1>2, <1>4 DEF ISCSIPublish
<1> QED
  BY <1>5, <1>6, <1>7, Int32Zero DEF c

(***************************************************************************)
(* What CreateVolume answers with, NodePublishVolume understands.          *)
(***************************************************************************)
THEOREM CreatedAlwaysPublished == RequestSpec => []CreatedIsPublished
<1>1. driver \in Drivers /\ CreatedVolume /\ PublishedFromVolume => CreatedIsPublished
  <2> SUFFICES ASSUME driver \in Drivers, CreatedVolume, PublishedFromVolume,
                      stage = "created", published # Nothing
               PROVE  CASE driver.prefix = "nfs-" ->
                           /\ published.kind = "mount"
                           /\ ~driver.url.port => NamesServer(published.addresses[1])
                      [] driver.prefix = "iscsi-" ->
                           /\ published.kind = "connector"
                           /\ published.iqn = "target" /\ published.lun = 0
                           /\ published.session = {} /\ published.discovery = {}
                           /\ Head(driver.listen).host = "name" => NamesPortal(published.addresses[1])
    BY DEF CreatedIsPublished
  <2>1. driver.prefix \in {"nfs-", "iscsi-"} /\ driver.url \in Addresses \ {NoAddress}
    BY DriversAssumption
  <2>2. CASE driver.prefix = "nfs-"
    <3>1. published = NFSPublish(NFSContext)
      BY <2>2 DEF CreatedVolume, PublishedFromVolume
    <3> QED
      BY <2>1, <2>2, <3>1, NFSCreatedPublished
  <2>3. CASE driver.prefix = "iscsi-"
    <3>1. published = ISCSIPublish(ISCSIContext)
      BY <2>3 DEF CreatedVolume, PublishedFromVolume
    <3>2. Head(driver.listen).host \in {"name", "v6", "any"}
      BY <2>3, DriversAssumption DEF CreatedVolume, CreateAccepted
    <3> QED
      BY <2>3, <3>1, <3>2, ISCSICreatedPublished
  <2> QED
    BY <2>1, <2>2, <2>3
<1> QED
  BY <1>1, DriverInvariant, CreatedVolumeInvariant, PublishedFromVolumeInvariant, PTL

-----------------------------------------------------------------------------
\* What reading a context yields.
Readable(c) ==
  /\ c.host \in Addresses /\ c.targetPortal \in Addresses
  /\ c.portals.value \in Seq(Addresses) /\ c.lun \in Int

Handed(p) ==
  /\ p.kind \in {"none", "refused", "mount", "connector", "nil connector"}
  /\ \A i \in DOMAIN p.addresses : p.addresses[i] \in Addresses
  /\ p.lun \in {NoLun} \cup (-(LunRange \div 2))..((LunRange \div 2) - 1)

LEMMA Int32Type == ASSUME NEW n \in Int PROVE Int32(n) \in (-(LunRange \div 2))..((LunRange \div 2) - 1)
<1> DEFINE half == LunRange \div 2
           rest == (n + half) % LunRange
<1>1. LunRange \in Nat /\ LunRange > 0 /\ LunRange % 2 = 0
  BY LunRangeAssumption
<1>2. half \in Nat /\ LunRange = 2 * half
  BY <1>1
<1>3. n + half \in Int
  BY <1>2
<1> HIDE DEF half
<1>4. rest \in 0..(LunRange - 1)
  BY <1>1, <1>3
<1> HIDE DEF rest
<1>5. rest - half \in (-half)..(half - 1)
  BY <1>1, <1>2, <1>4
<1> QED
  BY <1>5 DEF Int32, half, rest

LEMMA NothingHanded == Handed(Nothing) /\ Handed(Refusal)
BY DEF Handed, Nothing, Refusal

LEMMA NFSHanded == ASSUME NEW c, Readable(c) PROVE Handed(NFSPublish(c))
<1>1. CASE c.host = NoAddress \/ c.mountPoint = ""
  BY <1>1, NothingHanded DEF NFSPublish
<1>2. CASE ~(c.host = NoAddress \/ c.mountPoint = "")
  <2>1. getServerFromSource(c.host) \in Addresses
    BY DEF Readable, getServerFromSource, Addresses
  <2>2. /\ NFSPublish(c).kind = "mount" /\ NFSPublish(c).lun = NoLun
        /\ NFSPublish(c).addresses = << getServerFromSource(c.host) >>
    BY <1>2 DEF NFSPublish, Nothing
  <2> QED
    BY <2>1, <2>2 DEF Handed
<1> QED
  BY <1>1, <1>2

LEMMA ISCSIHanded == ASSUME NEW c, Readable(c) PROVE Handed(ISCSIPublish(c))
<1>1. CASE ~InfoAccepted(c)
  BY <1>1, NothingHanded DEF ISCSIPublish
<1>2. CASE InfoAccepted(c)
  <2>1. c.iqn # ""
    BY <1>2 DEF InfoAccepted
  <2>2. /\ ISCSIPublish(c).kind = "connector" /\ ISCSIPublish(c).lun = Int32(c.lun)
        /\ ISCSIPublish(c).addresses = Portals(c)
    BY <1>2, <2>1 DEF ISCSIPublish
  <2>3. \A a \in Addresses : portalMounter(a) \in Addresses
    BY DEF portalMounter, Addresses
  <2>4. /\ << portalMounter(c.targetPortal) >> \in Seq(Addresses)
        /\ [i \in DOMAIN c.portals.value |-> portalMounter(c.portals.value[i])] \in Seq(Addresses)
    <3>1. c.portals.value \in [1..Len(c.portals.value) -> Addresses] /\ Len(c.portals.value) \in Nat
      BY DEF Readable
    <3> QED
      BY <2>3, <3>1 DEF Readable
  <2>5. Portals(c) \in Seq(Addresses)
    BY <2>4 DEF Portals
  <2>6. Int32(c.lun) \in (-(LunRange \div 2))..((LunRange \div 2) - 1)
    BY Int32Type DEF Readable
  <2> QED
    BY <2>2, <2>5, <2>6 DEF Handed
<1> QED
  BY <1>1, <1>2

LEMMA EmptyReadable == Readable(EmptyContext) /\ Readable(NoVolume.context)
<1>1. NoAddress \in Addresses
  BY DEF NoAddress, Address, Addresses
<1>2. << >> \in Seq(Addresses) /\ NoLun \in Int
  BY DEF NoLun
<1>3. /\ EmptyContext.host = NoAddress /\ EmptyContext.targetPortal = NoAddress
      /\ EmptyContext.portals.value = << >> /\ EmptyContext.lun = NoLun
  BY DEF EmptyContext, NoPortals
<1>4. NoVolume.context = EmptyContext
  BY DEF NoVolume
<1>5. Readable(EmptyContext)
  BY <1>1, <1>2, <1>3 DEF Readable
<1> QED
  BY <1>4, <1>5

LEMMA CreatedReadable ==
  ASSUME driver \in Drivers, CreatedVolume, stage = "created"
  PROVE  Readable(volume.context)
<1>1. driver.url \in Addresses /\ (driver.listen # << >> => Head(driver.listen).host \in {"name", "v6", "any"})
  BY DriversAssumption
<1>2. EmptyContext.portals.value \in Seq(Addresses) /\ NoAddress \in Addresses
  BY EmptyReadable DEF Readable, EmptyContext
<1>3. CASE driver.prefix = "nfs-"
  <2>1. volume.context = NFSContext
    BY <1>3 DEF CreatedVolume
  <2>2. /\ NFSContext.host = driver.url /\ NFSContext.targetPortal = NoAddress
        /\ NFSContext.portals = EmptyContext.portals /\ NFSContext.lun = NoLun
    BY DEF NFSContext, EmptyContext
  <2> QED
    BY <1>1, <1>2, <2>1, <2>2 DEF Readable, NoLun
<1>4. CASE driver.prefix # "nfs-"
  <2>1. volume.context = ISCSIContext /\ driver.listen # << >>
    BY <1>4, DriversAssumption DEF CreatedVolume, CreateAccepted
  <2>2. /\ ISCSIContext.host = NoAddress /\ ISCSIContext.targetPortal = PortalAddress(Head(driver.listen))
        /\ ISCSIContext.portals.value = << >> /\ ISCSIContext.lun = 0
    BY DEF ISCSIContext, EmptyContext
  <2>3. PortalAddress(Head(driver.listen)) \in Addresses
    BY <1>1, <2>1 DEF PortalAddress, Address, Addresses
  <2> QED
    BY <1>2, <2>1, <2>2, <2>3 DEF Readable
<1> QED
  BY <1>3, <1>4

\* Where the request and its volume stand.
Standing ==
  /\ stage \in {"request", "refused", "created", "written"}
  /\ volume \in {NoVolume} \cup WrittenVolumes \/ stage = "created"
  /\ confirmed \in {"not asked", "yes", "no"}

LEMMA StandingInvariant == RequestSpec => []Standing
<1>1. RequestInit => Standing
  BY DEF RequestInit, Standing
<1>2. Standing /\ [RequestNext]_requestVars => Standing'
  <2> SUFFICES ASSUME Standing, [RequestNext]_requestVars PROVE Standing'
    OBVIOUS
  <2>1. CASE CreateVolume
    BY <2>1 DEF CreateVolume, Unasked, Standing
  <2>2. CASE CreateRefused
    BY <2>2 DEF CreateRefused, Unasked, Standing
  <2>3. ASSUME NEW exists \in BOOLEAN, Validate(exists)
        PROVE  Standing'
    BY <2>3 DEF Validate, Standing
  <2>4. CASE NodePublishVolume
    BY <2>4 DEF NodePublishVolume, Standing
  <2>5. CASE UNCHANGED requestVars
    BY <2>5 DEF requestVars, Standing
  <2> QED
    BY <2>1, <2>2, <2>3, <2>4, <2>5 DEF RequestNext
<1> QED
  BY <1>1, <1>2, PTL DEF RequestSpec

(***************************************************************************)
(* The type invariant: whatever a context says, the LUN that is connected  *)
(* to is an int32 (iscsi_node_iscsi.go:80), and sizes are integers.        *)
(***************************************************************************)
THEOREM RequestTypeCorrect == RequestSpec => []RequestTypeOK
<1>1. driver \in Drivers /\ Standing /\ CreatedVolume /\ PublishedFromVolume => Handed(published)
  <2> SUFFICES ASSUME driver \in Drivers, Standing, CreatedVolume, PublishedFromVolume, published # Nothing
               PROVE  Handed(published)
    BY NothingHanded
  <2>1. Readable(volume.context)
    <3>1. CASE stage = "created"
      BY <3>1, CreatedReadable
    <3>2. CASE volume = NoVolume
      BY <3>2, EmptyReadable
    <3>3. CASE volume \in WrittenVolumes
      BY <3>3, WrittenAssumption DEF Readable
    <3> QED
      BY <3>1, <3>2, <3>3 DEF Standing
  <2>2. published \in {NFSPublish(volume.context), ISCSIPublish(volume.context), Refusal}
    BY DEF PublishedFromVolume
  <2> QED
    BY <2>1, <2>2, NFSHanded, ISCSIHanded, NothingHanded
<1>2. Inv => size \in Int
  <2> SUFFICES ASSUME Inv PROVE size \in Int
    OBVIOUS
  <2> DEFINE s == extractStorage(capRange.required, capRange.limit)
  <2>1. capRange.required \in Int /\ capRange.limit \in Int /\ (size = Pending \/ size = s)
    BY DEF Inv
  <2>2. s \in {defaultVolumeSizeInBytes, Invalid, capRange.required, capRange.limit}
    BY <2>1, ExtractCases
  <2>3. defaultVolumeSizeInBytes \in Int
    BY GiBAssumption DEF defaultVolumeSizeInBytes
  <2> HIDE DEF s
  <2> QED
    BY <2>1, <2>2, <2>3 DEF Invalid, Pending
<1>3. driver \in Drivers /\ Standing /\ Handed(published) /\ size \in Int => RequestTypeOK
  BY DEF Standing, Handed, RequestTypeOK
<1> QED
  BY <1>1, <1>2, <1>3, RequestsExtract, InvInvariant, DriverInvariant, StandingInvariant,
     CreatedVolumeInvariant, PublishedFromVolumeInvariant, PTL
=============================================================================
