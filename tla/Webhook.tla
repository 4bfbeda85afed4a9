------------------------------ MODULE Webhook ------------------------------
(***************************************************************************)
(* What the admission webhook lets into a Manila CR, what of it the Manila *)
(* controller deploys, and what the helper for the route of the API does   *)
(* to annotations that people also edit.                                   *)
(*                                                                         *)
(* Creation is checked less strictly than an update, and the patches of    *)
(* the controller that put its finalizer on and take it off are updates as *)
(* well.  So the first of them decides over what creation let pass.        *)
(*                                                                         *)
(* Clusters of RabbitMQ and timeouts are numbers, 0 is unset.              *)
(***************************************************************************)
EXTENDS Integers

CONSTANTS
  Unset,         \* the fields that the owner may leave empty
  Errors,        \* the mistakes that he may make
  NumClusters,   \* how many clusters of RabbitMQ, 1 being the default
  NumTimeouts,   \* how many values of APITimeout, 1 being the default
  MaxEdits       \* bound: edits of the Manila spec and of the route

(* The fields with a default of the webhook, and those that must be set.   *)
Defaulted == {"apiImage", "schedulerImage", "shareImage", "dbPurge"}
Required  == {"memcachedInstance", "databaseAccount"}

ASSUME FieldsAssumption ==
  /\ Unset \subseteq Defaulted \cup Required
  /\ Errors \subseteq {"routeOverride", "topologyNamespace", "probes"}
ASSUME BoundsAssumption ==
  NumClusters \in Nat \ {0} /\ NumTimeouts \in Nat \ {0} /\ MaxEdits \in Nat

VARIABLES
  life,       \* the Manila CR: "absent", "live", "deleting" or "gone"
  spec,       \* ... its spec
  finalizer,  \* ... whether it carries the finalizer of the controller
  deployed,   \* the spec that the sub-CRs were written from
  notifies,   \* the cluster that their notifications go to, 0 for none
  route,      \* the annotations of the route: the timeout, and the flag of the operator
  byHand,     \* history: the timeout of the route is a choice of its owner
  edits       \* counter, for the bound

crVars    == <<life, spec, finalizer>>
svcVars   == <<deployed, notifies>>
routeVars == <<route, byHand>>
vars == <<crVars, svcVars, routeVars, edits>>

(* rabbit and instance are the deprecated rabbitMqClusterName and          *)
(* notificationsBusInstance.                                               *)
ManilaSpec == [unset : SUBSET Unset, errors : SUBSET Errors, timeout : 0..NumTimeouts,
               messaging : 0..NumClusters, notifications : 0..NumClusters,
               rabbit : 0..NumClusters, instance : 0..NumClusters]

Blank == [unset |-> {}, errors |-> {}, timeout |-> 0,
          messaging |-> 0, notifications |-> 0, rabbit |-> 0, instance |-> 0]

TypeOK ==
  /\ life \in {"absent", "live", "deleting", "gone"}
  /\ spec \in ManilaSpec /\ deployed \in ManilaSpec
  /\ finalizer \in BOOLEAN /\ (finalizer => life \in {"live", "deleting"})
  /\ notifies \in 0..NumClusters /\ (notifies # 0 => deployed.notifications # 0)
  /\ route \in [flag : 0..NumTimeouts, timeout : 0..NumTimeouts]
  /\ byHand \in BOOLEAN /\ (byHand => route.timeout # 0)
  /\ edits \in 0..MaxEdits

Init ==
  /\ life = "absent" /\ spec = Blank /\ finalizer = FALSE
  /\ deployed = Blank /\ notifies = 0
  /\ route = [flag |-> 0, timeout |-> 0] /\ byHand = FALSE
  /\ edits = 0

-----------------------------------------------------------------------------
(***************************************************************************)
(* The webhook.                                                            *)
(***************************************************************************)
(* (An operator whose name has a suffix, X_Y, is X with a plausible mistake *)
(* in it; the mutation tests of the properties put it in X's place.)       *)

Or(n, default) == IF n = 0 THEN default ELSE n

Default_ByValue(s) ==
  [s EXCEPT !.unset = @ \ (Defaulted \ {"shareImage"}),
            !.timeout = Or(@, 1), !.messaging = Or(@, 1)]

(* NotificationsBus has no default, and none from a deprecated field.      *)
Default(s) ==
  [s EXCEPT !.unset = @ \ Defaulted, !.timeout = Or(@, 1), !.messaging = Or(@, 1)]

(* Deprecated fields only make for warnings, and neither the probes nor    *)
(* the required fields are looked at.                                      *)
ValidateCreate(s) == s.errors \cap {"routeOverride", "topologyNamespace"} = {}

DeprecatedOK_NeverSet(old, new) == new.rabbit = 0 /\ new.instance = 0

(* A deprecated field keeps its value, or is cleared.                      *)
DeprecatedOK(old, new) ==
  new.rabbit \in {0, old.rabbit} /\ new.instance \in {0, old.instance}

ValidateBaseParams(s) == s.messaging # 0 /\ s.unset \cap Required = {}

ValidateUpdate(old, new) ==
  /\ DeprecatedOK(old, new)
  /\ ValidateBaseParams(new)
  /\ new.errors = {}

(***************************************************************************)
(* The owner of the Manila CR.  What is rejected changes nothing.          *)
(***************************************************************************)
Create_WithFinalizer ==
  /\ life = "absent"
  /\ \E s \in ManilaSpec :
       /\ ValidateCreate(Default(s))
       /\ spec' = Default(s)
  /\ life' = "live" /\ finalizer' = TRUE
  /\ UNCHANGED <<svcVars, routeVars, edits>>

(* The owner leaves metadata.finalizers alone: a CR that comes out of a    *)
(* backup with the finalizer of the controller in it is not modelled.      *)
Create ==
  /\ life = "absent"
  /\ \E s \in ManilaSpec :
       /\ ValidateCreate(Default(s))
       /\ spec' = Default(s)
  /\ life' = "live"
  /\ UNCHANGED <<finalizer, svcVars, routeVars, edits>>

(* An edit is of the fields and overrides, of the timeout or of the buses. *)
Edited(s) ==
  \/ \E u \in SUBSET Unset, e \in SUBSET Errors : s = [spec EXCEPT !.unset = u, !.errors = e]
  \/ \E t \in 0..NumTimeouts : s = [spec EXCEPT !.timeout = t]
  \/ \E m, n, r, i \in 0..NumClusters :
       s = [spec EXCEPT !.messaging = m, !.notifications = n, !.rabbit = r, !.instance = i]

Update ==
  /\ life = "live" /\ edits < MaxEdits /\ edits' = edits + 1
  /\ \E s \in ManilaSpec :
       /\ Edited(s)
       /\ ValidateUpdate(spec, Default(s))
       /\ spec' = Default(s)
  /\ UNCHANGED <<life, finalizer, svcVars, routeVars>>

Delete ==
  /\ life = "live"
  /\ life' = IF finalizer THEN "deleting" ELSE "gone"
  /\ UNCHANGED <<spec, finalizer, svcVars, routeVars, edits>>

(***************************************************************************)
(* The Manila controller.  Its patches of the CR pass through the webhook; *)
(* one that is rejected fails the Reconcile, which is tried again.         *)
(***************************************************************************)
AddFinalizer ==
  /\ life = "live" /\ ~finalizer
  /\ ValidateUpdate(spec, Default(spec))
  /\ spec' = Default(spec) /\ finalizer' = TRUE
  /\ UNCHANGED <<life, svcVars, routeVars, edits>>

NotificationsURL_Unguarded(s) ==
  IF s.notifications # s.rabbit THEN s.notifications ELSE s.messaging

(* generateServiceConfig gives the notifications a URL of their own unless *)
(* their cluster is the one that rabbitMqClusterName names; then it gives  *)
(* them the URL of the messages.                                           *)
NotificationsURL(s) ==
  IF s.notifications = 0 THEN 0
  ELSE IF s.notifications # s.rabbit THEN s.notifications
  ELSE s.messaging

Reconcile ==
  /\ life = "live" /\ finalizer
  /\ deployed' = spec /\ notifies' = NotificationsURL(spec)
  /\ UNCHANGED <<crVars, routeVars, edits>>

RemoveFinalizer ==
  /\ life = "deleting" /\ finalizer
  /\ ValidateUpdate(spec, Default(spec))
  /\ life' = "gone" /\ finalizer' = FALSE
  /\ UNCHANGED <<spec, svcVars, routeVars, edits>>

(***************************************************************************)
(* The openstack-operator calls SetDefaultRouteAnnotations whenever it     *)
(* reconciles the route of the API.                                        *)
(***************************************************************************)
RouteAnnotations_NoCompare(t) ==
  IF route.flag = 0 /\ route.timeout # 0 THEN route
  ELSE [flag |-> t, timeout |-> t]

RouteAnnotations_KeepTimeout(t) ==
  IF route.timeout # 0 /\ (route.flag = 0 \/ route.flag = route.timeout) THEN route
  ELSE IF route.flag # 0 /\ route.timeout # 0
    THEN [route EXCEPT !.flag = 0]
  ELSE [flag |-> t, timeout |-> t]

RouteAnnotations(t) ==
  IF route.flag = 0 /\ route.timeout # 0 THEN route
  ELSE IF route.flag # 0 /\ route.timeout # 0 /\ route.flag # route.timeout
    THEN [route EXCEPT !.flag = 0]
  ELSE [flag |-> t, timeout |-> t]

SetDefaultRouteAnnotations ==
  /\ life = "live"
  /\ route' = RouteAnnotations(spec.timeout)
  /\ UNCHANGED <<crVars, svcVars, byHand, edits>>

(* Somebody sets or removes the timeout of the route, or removes the flag. *)
EditRoute ==
  /\ life = "live" /\ edits < MaxEdits /\ edits' = edits + 1
  /\ \/ \E t \in 0..NumTimeouts :
          /\ route' = [route EXCEPT !.timeout = t]
          /\ byHand' = (t # 0 /\ t # route.flag)
     \/ /\ route' = [route EXCEPT !.flag = 0]
        /\ byHand' = (route.timeout # 0)
  /\ UNCHANGED <<crVars, svcVars>>

-----------------------------------------------------------------------------
Next ==
  \/ Create \/ Update \/ Delete
  \/ AddFinalizer \/ Reconcile \/ RemoveFinalizer
  \/ SetDefaultRouteAnnotations \/ EditRoute

Spec == Init /\ [][Next]_vars

(* A Manila CR is reconciled, and its route too, as long as there is       *)
(* something to do; the owner does as he likes.                            *)
Fairness ==
  /\ WF_vars(AddFinalizer) /\ WF_vars(Reconcile) /\ WF_vars(RemoveFinalizer)
  /\ WF_vars(SetDefaultRouteAnnotations)

FairSpec == Spec /\ Fairness

-----------------------------------------------------------------------------
Sound(s) == s.errors = {} /\ s.unset = {} /\ s.messaging # 0 /\ s.timeout # 0

(* No service is deployed from a spec with a bad probe, a field that is    *)
(* missing or a container without an image, although creation lets such    *)
(* specs pass and shares get their images in a loop over copies: the       *)
(* controller deploys nothing before its own finalizer has been admitted,  *)
(* and that is checked as an update is.                                    *)
OnlySoundDeployed == deployed # Blank => Sound(deployed)

(* A sound spec that stays is deployed as it is, whatever deprecated       *)
(* fields it was created with: the patch of the finalizer is not mistaken  *)
(* for a change of one.                                                    *)
SoundIsDeployed ==
  <>[](life = "live" /\ Sound(spec)) => <>[](deployed = spec)

(* Deletion ends: no Manila CR carries a finalizer that the webhook        *)
(* forbids to take off.                                                    *)
DeletionEnds == (life = "deleting") ~> (life = "gone")

(* A timeout of the route that somebody chose is not overwritten, neither  *)
(* at once nor after APITimeout has changed, with or without the flag of   *)
(* the operator left beside it.                                            *)
ChosenTimeoutStays ==
  [][byHand /\ route'.timeout # route.timeout => edits' # edits]_vars

(* A timeout nobody chose follows APITimeout.                              *)
TimeoutFollows ==
  <>[](life = "live" /\ ~byHand) => <>[](route.timeout = spec.timeout)

(* What manila_controller.go says of notifications: they have a            *)
(* TransportURL of their own on the cluster of NotificationsBus and never  *)
(* fall back to the one for messages.                                      *)
NotificationsSeparate == notifies \in {0, deployed.notifications}
=============================================================================
