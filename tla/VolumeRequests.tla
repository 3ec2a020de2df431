---------------------------- MODULE VolumeRequests ----------------------------
(***************************************************************************)
(* What a request says and what becomes of it, from CreateVolume through   *)
(* the volume context that Kubernetes keeps in the PersistentVolume to     *)
(* NodePublishVolume, which hands a source to mount or a connector to      *)
(* csi-lib-iscsi.  A PersistentVolume may also be written by hand.  The    *)
(* REST calls of CreateVolume and the steps of AttachDisk are in other     *)
(* modules.                                                                *)
(*                                                                         *)
(* An operator whose comment begins with "Variant" is a plausible mistake  *)
(* in the operator that follows; it is not part of the specification.      *)
(***************************************************************************)
EXTENDS CapacityRange, Sequences

CONSTANTS
  Drivers,          \* configurations of the driver: the prefix of its volumes' ids, the
                    \* address in the appliance's URL, the portal's listening addresses
  Capabilities,     \* sets of capabilities that are asked for
  WrittenVolumes,   \* volumes written by hand
  SessionKeys,      \* the four keys of a secret for the session,
  DiscoveryKeys,    \* and the four for the discovery
  LunRange          \* how many numbers an int32 has

ASSUME LunRangeAssumption == LunRange \in Nat \ {0} /\ LunRange % 2 = 0

VARIABLES
  driver,     \* how the driver is configured
  asked,      \* the capabilities in CreateVolume's request
  stage,      \* "request", "refused", "created" or "written"
  volume,     \* the PersistentVolume
  confirmed,  \* the answer of ValidateVolumeCapabilities, if it was asked
  published   \* what NodePublishVolume hands on, if it was called

requestVars == <<capRange, size, driver, asked, stage, volume, confirmed, published>>

-----------------------------------------------------------------------------
(***************************************************************************)
(* Strings are reduced to what the code and its callees tell apart.  An    *)
(* address is a name (or IPv4), IPv6 or the wildcard, perhaps with         *)
(* brackets and a port.  JSON that does not parse, the empty string        *)
(* included, has ok = FALSE.  A context's missing keys read as empty.      *)
(***************************************************************************)
Addresses == [host : {"empty", "name", "v6", "any"}, brackets : BOOLEAN, port : BOOLEAN]
Address(host, brackets, port) == [host |-> host, brackets |-> brackets, port |-> port]
NoAddress == Address("empty", FALSE, FALSE)

\* The URL has a host, or nothing could be asked of the appliance, and a portal of the
\* appliance listens on an address or on all of them.
ASSUME DriversAssumption ==
  \A d \in Drivers :
    /\ d.prefix \in {"nfs-", "iscsi-"}
    /\ d.url \in Addresses \ {NoAddress}
    /\ d.listen # << >> => Head(d.listen).host \in {"name", "v6", "any"}

\* The values of the keys of a volume written by hand, as strings are reduced above.
ASSUME WrittenAssumption ==
  \A w \in WrittenVolumes :
    /\ w.context.host \in Addresses /\ w.context.targetPortal \in Addresses
    /\ w.context.portals.value \in Seq(Addresses)
    /\ w.context.lun \in Int

NoLun     == -1
BadLun    == -2
NoPortals == [ok |-> FALSE, value |-> << >>]
NoSecret  == [ok |-> FALSE, value |-> {}]

NFSKeys   == {"host", "mountPoint"}
ISCSIKeys == {"targetPortal", "iqn", "lun", "portals"}

\* The values of a context's keys; portals and secret are JSON of a list and a map.
EmptyContext ==
  [ keys |-> {}, host |-> NoAddress, mountPoint |-> "",
    targetPortal |-> NoAddress, iqn |-> "", lun |-> NoLun, portals |-> NoPortals, secret |-> NoSecret ]

NoVolume == [prefix |-> "none", context |-> EmptyContext]

\* What is handed on: the server of the mount, or the connector.
Nothing ==
  [ kind |-> "none", addresses |-> << >>, iqn |-> "", lun |-> NoLun,
    session |-> {}, discovery |-> {} ]
Refusal == [Nothing EXCEPT !.kind = "refused"]

-----------------------------------------------------------------------------
(***************************************************************************)
(* CreateVolume.                                                           *)
(***************************************************************************)
NFSVolumeCapabilities   == {"single", "multi"}
ISCSIVolumeCapabilities == {"single"}

\* nfsCheckCaps and iscsiCheckCaps.
CheckCaps(prefix, caps) ==
  \A c \in caps :
    /\ c.access = "mount"
    /\ c.mode \in (IF prefix = "nfs-" THEN NFSVolumeCapabilities ELSE ISCSIVolumeCapabilities)

\* The appliance's address is the URL's, the mountpoint is the dataset's.
NFSContext ==
  [EmptyContext EXCEPT !.keys = NFSKeys, !.host = driver.url, !.mountPoint = "mountpoint"]

PortalAddress(item) == Address(item.host, FALSE, TRUE)
\* Variant: there are no other portals, so nothing is said of them.
ISCSIContextNoPortals ==
  [EmptyContext EXCEPT !.keys = ISCSIKeys \ {"portals"}, !.targetPortal = PortalAddress(Head(driver.listen)),
                       !.iqn = "target", !.lun = 0]
\* The first of the portal's addresses, and no others.
ISCSIContext ==
  [EmptyContext EXCEPT !.keys = ISCSIKeys, !.targetPortal = PortalAddress(Head(driver.listen)),
                       !.iqn = "target", !.lun = 0, !.portals = [ok |-> TRUE, value |-> << >>]]

CreateAccepted ==
  /\ asked # {}
  /\ CheckCaps(driver.prefix, asked)
  /\ driver.prefix = "iscsi-" => driver.listen # << >>

Unasked == UNCHANGED <<driver, asked, confirmed, published>>

CreateVolume ==
  /\ stage = "request" /\ CreateAccepted
  /\ Extract
  /\ IF size' = Invalid
     THEN stage' = "refused" /\ UNCHANGED volume
     ELSE /\ stage' = "created"
          /\ volume' = [prefix  |-> driver.prefix,
                        context |-> IF driver.prefix = "nfs-" THEN NFSContext ELSE ISCSIContext]
  /\ Unasked

CreateRefused ==
  /\ stage = "request" /\ ~CreateAccepted
  /\ stage' = "refused"
  /\ UNCHANGED <<capRange, size, volume>>
  /\ Unasked

-----------------------------------------------------------------------------
(***************************************************************************)
(* ValidateVolumeCapabilities, for the capabilities that were asked for    *)
(* and a dataset that exists or not.                                       *)
(***************************************************************************)
Keys(prefix) == IF prefix = "nfs-" THEN NFSKeys ELSE ISCSIKeys

Confirms(prefix, exists) ==
  /\ volume.prefix = prefix
  /\ CheckCaps(prefix, asked)
  /\ Keys(prefix) \subseteq volume.context.keys
  /\ exists

Validate(exists) ==
  /\ stage \in {"created", "written"} /\ confirmed = "not asked"
  /\ stage = "created" => exists
  /\ confirmed' = IF Confirms(driver.prefix, exists) THEN "yes" ELSE "no"
  /\ UNCHANGED <<capRange, size, driver, asked, stage, volume, published>>

-----------------------------------------------------------------------------
(***************************************************************************)
(* NodePublishVolume.                                                      *)
(***************************************************************************)
\* An IPv6 address is put in brackets, together with a port that nothing sets apart.
getServerFromSource(a) == IF a.host = "v6" THEN [a EXCEPT !.brackets = TRUE] ELSE a

NFSPublish(c) ==
  IF c.host = NoAddress \/ c.mountPoint = "" THEN Refusal
  ELSE [Nothing EXCEPT !.kind = "mount", !.addresses = << getServerFromSource(c.host) >>]

\* Variant: only a port that follows brackets is looked for.
PortalMounterBrackets(a) == [a EXCEPT !.port = @ /\ a.brackets]
\* The default port is appended when there is no colon, and there is one in IPv6.
portalMounter(a) == [a EXCEPT !.port = @ \/ a.host # "v6"]

\* The keys in a secret; one that does not parse is taken for none.
parseSecret(json) == IF json.ok THEN json.value ELSE {}

\* Variant: the keys that are there are taken.
SecretsAccepted(secret) == TRUE
\* parseSessionSecret and parseDiscoverySecret: all keys or no secret at all.
SecretsWhole(secret) == secret = {} \/ SessionKeys \cup DiscoveryKeys \subseteq secret

\* Variant: the number is kept as it is.
Unconverted(n) == n
\* strconv.Atoi accepts numbers beyond the int32 that they are converted to.
Int32(n) == ((n + LunRange \div 2) % LunRange) - (LunRange \div 2)

\* The keys are there, and getISCSIInfo has no error.
InfoAccepted(c) ==
  /\ ISCSIKeys \subseteq c.keys
  /\ c.targetPortal # NoAddress /\ c.iqn # "" /\ c.lun # NoLun
  /\ SecretsWhole(parseSecret(c.secret)) /\ c.portals.ok /\ c.lun # BadLun

Portals(c) ==
  << portalMounter(c.targetPortal) >> \o
  [i \in DOMAIN c.portals.value |-> portalMounter(c.portals.value[i])]

\* buildISCSIConnector has no connector without a target; AttachDisk uses it unseen.
ISCSIPublish(c) ==
  LET secret == parseSecret(c.secret)
  IN IF ~InfoAccepted(c) THEN Refusal
     ELSE IF c.iqn = "" THEN [Nothing EXCEPT !.kind = "nil connector"]
     ELSE [ kind |-> "connector", addresses |-> Portals(c), iqn |-> c.iqn, lun |-> Int32(c.lun),
            session |-> secret \cap SessionKeys, discovery |-> secret \cap DiscoveryKeys ]

\* The handler is chosen by the prefix of the volume's id.
NodePublishVolume ==
  /\ stage \in {"created", "written"} /\ published = Nothing
  /\ published' = CASE volume.prefix = "nfs-"   -> NFSPublish(volume.context)
                    [] volume.prefix = "iscsi-" -> ISCSIPublish(volume.context)
                    [] volume.prefix \notin {"nfs-", "iscsi-"} -> Refusal
  /\ UNCHANGED <<capRange, size, driver, asked, stage, volume, confirmed>>

-----------------------------------------------------------------------------
RequestInit ==
  /\ Init
  /\ driver \in Drivers
  /\ asked \in Capabilities
  /\ \/ stage = "request" /\ volume = NoVolume
     \/ stage = "written" /\ volume \in WrittenVolumes /\ capRange = NoRange
  /\ confirmed = "not asked" /\ published = Nothing

RequestNext ==
  \/ CreateVolume \/ CreateRefused
  \/ \E exists \in BOOLEAN : Validate(exists)
  \/ NodePublishVolume

RequestSpec == RequestInit /\ [][RequestNext]_requestVars

-----------------------------------------------------------------------------
(***************************************************************************)
(* Properties.                                                             *)
(***************************************************************************)

RequestTypeOK ==
  /\ size \in Int
  /\ driver \in Drivers
  /\ stage \in {"request", "refused", "created", "written"}
  /\ volume \in {NoVolume} \cup WrittenVolumes \/ stage = "created"
  /\ confirmed \in {"not asked", "yes", "no"}
  /\ published.kind \in {"none", "refused", "mount", "connector", "nil connector"}
  /\ \A i \in DOMAIN published.addresses : published.addresses[i] \in Addresses
  /\ published.lun \in {NoLun} \cup (-(LunRange \div 2))..((LunRange \div 2) - 1)

\* What mount.nfs takes for the server is all of it, and what iscsiadm takes for a portal.
NamesServer(a) == ~a.port /\ (a.host = "v6" => a.brackets)
NamesPortal(a) == a.port /\ (a.host = "v6" => a.brackets) /\ a.host # "any"

(***************************************************************************)
(* What CreateVolume answers with, NodePublishVolume understands: it       *)
(* mounts from the appliance, if the URL has no port, or connects to the   *)
(* LUN that CreateVolume mapped, at the portal's first address, if that is *)
(* a name or IPv4, and without secrets (nfs.go:163-175, 350-371,           *)
(* iscsi.go:332-348, 574-597).                                             *)
(***************************************************************************)
CreatedIsPublished ==
  stage = "created" /\ published # Nothing =>
    CASE driver.prefix = "nfs-" ->
           /\ published.kind = "mount"
           /\ ~driver.url.port => NamesServer(published.addresses[1])
      [] driver.prefix = "iscsi-" ->
           /\ published.kind = "connector"
           /\ published.iqn = "target" /\ published.lun = 0
           /\ published.session = {} /\ published.discovery = {}
           /\ Head(driver.listen).host = "name" => NamesPortal(published.addresses[1])

(***************************************************************************)
(* ValidateVolumeCapabilities confirms what CreateVolume answered with, as *)
(* long as the dataset exists, for the capabilities it was made with       *)
(* (nfs.go:206-259, iscsi.go:413-467).                                     *)
(***************************************************************************)
CreatedIsConfirmed == stage = "created" => confirmed # "no"

\* buildISCSIConnector has a connector, and all keys of a secret or none reach it.
AlwaysAConnector == published.kind # "nil connector"
SecretsUsedWhole ==
  published.kind = "connector" =>
    LET used == <<published.session, published.discovery>>
    IN IF volume.context.secret.ok /\ volume.context.secret.value # {}
       THEN used = <<SessionKeys, DiscoveryKeys>>
       ELSE used = <<{}, {}>>

(***************************************************************************)
(* No context that getISCSIInfo accepts leaves AttachDisk, which           *)
(* dereferences what buildISCSIConnector returns, without a connector, or  *)
(* with half a secret: CHAP secrets are used whole, for session and        *)
(* discovery, or not at all, and one that parses and is not empty is never *)
(* ignored (iscsi_node_iscsi.go:39-47, 99-116, 168-217,                    *)
(* iscsi_node_utils.go:34).                                                *)
(***************************************************************************)
ConnectorIsWhole == AlwaysAConnector /\ SecretsUsedWhole

(***************************************************************************)
(* "The main Helm values you'll need to install the NFS driver would be"   *)
(* ... "http://192.168.69.69:1339/api/v2.0" (README.md:15-19): the server  *)
(* that is mounted from is the appliance.                                  *)
(***************************************************************************)
MountsFromAppliance ==
  stage = "created" /\ published.kind = "mount" => NamesServer(published.addresses[1])
=============================================================================
