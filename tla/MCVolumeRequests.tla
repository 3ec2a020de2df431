--------------------------- MODULE MCVolumeRequests ---------------------------
(* Instances of VolumeRequests for TLC: sizes on both sides of every bound, *)
(* a gibibyte being three units, and an int32 having eight numbers.         *)
EXTENDS VolumeRequests

MCGiB   == 3
MCSizes == {-1, 0, 1, 3, 5, 6, 9, 45, 48, 49, 51}

\* The URL has a name or IPv6, which is in brackets there, with or without a port.
Urls    == {Address("name", FALSE, p) : p \in BOOLEAN} \cup {Address("v6", TRUE, p) : p \in BOOLEAN}
Listens == [host : {"name", "v6", "any"}, brackets : {FALSE}, port : {TRUE}]
MCDrivers ==
  [prefix : {"nfs-"}, url : Urls, listen : {<< >>}] \cup
  [prefix : {"iscsi-"}, url : {Address("name", FALSE, TRUE)},
   listen : {<< >>, <<Address("name", FALSE, TRUE), Address("v6", FALSE, TRUE)>>} \cup {<<a>> : a \in Listens}]

MCCapabilities ==
  {{}} \cup {{[mode |-> m, access |-> a]} : m \in {"single", "multi", "unknown"}, a \in {"mount", "block"}}
      \cup {{[mode |-> "single", access |-> "mount"], [mode |-> "multi", access |-> "mount"]}}

\* Contexts by hand: each key is missing, empty or has one of a few values.
Servers  == {NoAddress, Address("name", FALSE, FALSE), Address("v6", FALSE, FALSE), Address("v6", TRUE, FALSE)}
TargetPortals == Servers \cup {Address("name", FALSE, TRUE)}
PortalLists   == {NoPortals, [ok |-> TRUE, value |-> << >>],
                  [ok |-> TRUE, value |-> <<Address("name", FALSE, FALSE), Address("name", FALSE, TRUE)>>]}
MCSecrets     == {NoSecret} \cup [ok : {TRUE}, value : SUBSET {"s1", "s2", "d1", "d2"}]

NFSContexts ==
  {[EmptyContext EXCEPT !.keys = NFSKeys, !.host = h, !.mountPoint = m] : h \in Servers, m \in {"", "mountpoint"}}
Contexts(keys, portals, secrets) ==
  {[EmptyContext EXCEPT !.keys = ks, !.targetPortal = tp, !.iqn = iqn, !.lun = lun,
                        !.portals = ps, !.secret = secret] :
     ks \in keys, tp \in TargetPortals, iqn \in {"", "other"},
     lun \in {NoLun, BadLun, 0, 7, 8}, ps \in portals, secret \in secrets}
ISCSIContexts ==
  Contexts({ISCSIKeys}, PortalLists, {NoSecret}) \cup Contexts({ISCSIKeys \ {"portals"}}, {NoPortals}, {NoSecret})
    \cup Contexts({ISCSIKeys}, {[ok |-> TRUE, value |-> << >>]}, MCSecrets)

MCWritten ==
  [prefix : {"nfs-", "other"}, context : NFSContexts] \cup [prefix : {"iscsi-"}, context : ISCSIContexts]
=============================================================================
