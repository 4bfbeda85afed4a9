-------------------------- MODULE CredentialLease --------------------------
(***************************************************************************)
(* What the operator promises the owner of rotated credentials, in terms   *)
(* of the consumer finalizers alone: a service moves to a credential only  *)
(* when that is claimed, and a claim is given back only when no service    *)
(* uses the credential any more.  SecretRotation implements it, once for   *)
(* the messaging secrets and once for those of the notifications.          *)
(***************************************************************************)
EXTENDS TLAPS

VARIABLES
  open,   \* the consumer has not been deleted
  held,   \* the credentials it has claimed
  used    \* the credentials its services run on, or are about to

lease == <<open, held, used>>

Init == open = TRUE /\ held = {} /\ used = {}

(* Credentials are claimed, and services move to claimed ones.             *)
Claim ==
  /\ open /\ UNCHANGED open
  /\ held \subseteq held'
  /\ used' \subseteq used \cup held'

(* Claims are given back that no service needs.                            *)
Release ==
  /\ open /\ UNCHANGED <<open, used>>
  /\ held' \subseteq held
  /\ (held \ held') \cap used = {}

(* The consumer is deleted.  It lets go of everything, and claims nothing  *)
(* again.                                                                  *)
Close == open /\ open' = FALSE /\ UNCHANGED <<held, used>>

WindUp == ~open /\ UNCHANGED open /\ held' \subseteq held /\ used' \subseteq used

Next == Claim \/ Release \/ Close \/ WindUp

Spec == Init /\ [][Next]_lease

-----------------------------------------------------------------------------
(* No service runs on a credential that its owner may revoke.              *)
Covered == open => used \subseteq held

(* The promise is worth having: who implements it never runs a service on  *)
(* a credential without a consumer finalizer.                              *)
THEOREM LeaseCovers == Spec => []Covered
<1>1. Init => Covered
  BY DEF Init, Covered
<1>2. Covered /\ [Next]_lease => Covered'
  <2> SUFFICES ASSUME Covered, [Next]_lease PROVE Covered'
    OBVIOUS
  <2>1. CASE Claim
    BY <2>1 DEF Claim, Covered
  <2>2. CASE Release
    BY <2>2 DEF Release, Covered
  <2>3. CASE Close
    BY <2>3 DEF Close, Covered
  <2>4. CASE WindUp
    BY <2>4 DEF WindUp, Covered
  <2>5. CASE UNCHANGED lease
    BY <2>5 DEF lease, Covered
  <2> QED
    BY <2>1, <2>2, <2>3, <2>4, <2>5 DEF Next
<1> QED
  BY <1>1, <1>2, PTL DEF Spec
=============================================================================
