--------------------------- MODULE LeasedRotation ---------------------------
(***************************************************************************)
(* SecretRotation as an implementation of CredentialLease, for the secrets *)
(* of both TransportURLs.                                                  *)
(***************************************************************************)
EXTENDS SecretRotation

TransportLease == INSTANCE CredentialLease WITH
  open <- life = "live",
  held <- tfin,
  used <- ({config.transport} \cup UNION {UsedTransport(s) : s \in Services}) \ {0}

NotifLease == INSTANCE CredentialLease WITH
  open <- life = "live",
  held <- nfin,
  used <- ({config.notif} \cup UNION {UsedNotif(s) : s \in Services}) \ {0}

(* When changes come one at a time, every step of the Manila controller,   *)
(* of the service controllers and of the pods is a step of both leases or  *)
(* none: nothing is rendered or run that is not claimed, nothing released  *)
(* or pruned that some service still needs.                                *)
LeasesKept == TransportLease!Spec /\ NotifLease!Spec
=============================================================================
