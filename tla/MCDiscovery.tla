----------------------------- MODULE MCDiscovery -----------------------------
(* A device with an embedded device and a service.                         *)
EXTENDS Discovery

MCEmbedded == << [udn |-> "uuid:embedded", type |-> "lamp"] >>
MCServices == << "switch" >>
MCTargets == {All, RootDevice, udn, deviceType, "uuid:embedded", "lamp", "switch", "nothing"}
=============================================================================
