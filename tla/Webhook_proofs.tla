---------------------------- MODULE Webhook_proofs ----------------------------
(***************************************************************************)
(* Proofs about Webhook, for any numbers of clusters, timeouts and edits   *)
(* and any choice of fields and mistakes.  What is behind the first is     *)
(* that the finalizer is only ever on a sound spec: it comes on through    *)
(* the checks of an update, and so does every spec after it.  What is      *)
(* behind the second is that a timeout somebody chose differs from the     *)
(* flag beside it.                                                         *)
(***************************************************************************)
EXTENDS Webhook, TLAPS

FinalizedIsSound == finalizer => Sound(spec)

ChoiceShows == byHand => route.timeout # 0 /\ route.timeout # route.flag

IInv == TypeOK /\ FinalizedIsSound /\ OnlySoundDeployed /\ ChoiceShows

(* The bounds are natural numbers, the fields those that are known.        *)
LEMMA Bounds ==
  /\ NumClusters \in Nat /\ NumClusters >= 1 /\ NumTimeouts \in Nat /\ NumTimeouts >= 1
  /\ MaxEdits \in Nat
  BY BoundsAssumption

(* The defaults make a spec of a spec and leave no number unset.           *)
LEMMA DefaultType ==
  ASSUME NEW s \in ManilaSpec
  PROVE  /\ Default(s) \in ManilaSpec
         /\ Default(s).timeout # 0 /\ Default(s).messaging # 0
         /\ Default(s).unset = s.unset \ Defaulted
<1>1. /\ s.unset \in SUBSET Unset /\ s.errors \in SUBSET Errors
      /\ s.timeout \in 0..NumTimeouts /\ s.messaging \in 0..NumClusters
      /\ s.notifications \in 0..NumClusters /\ s.rabbit \in 0..NumClusters
      /\ s.instance \in 0..NumClusters
  BY DEF ManilaSpec
<1>2. Or(s.timeout, 1) \in 1..NumTimeouts /\ Or(s.messaging, 1) \in 1..NumClusters
  BY <1>1, Bounds DEF Or
<1> DEFINE u == s.unset \ Defaulted
           t == Or(s.timeout, 1)
           m == Or(s.messaging, 1)
           a == [s EXCEPT !.unset = u]
           b == [a EXCEPT !.timeout = t]
           c == [b EXCEPT !.messaging = m]
<1>3. /\ u \in SUBSET Unset
      /\ t \in 0..NumTimeouts /\ m \in 0..NumClusters /\ t # 0 /\ m # 0
  BY <1>1, <1>2, Bounds
<1>4. Default(s) = c
  BY DEF Default
<1> HIDE DEF u, t, m
<1>5. a \in ManilaSpec /\ a.unset = u
  BY <1>3 DEF ManilaSpec
<1> HIDE DEF a
<1>6. b \in ManilaSpec /\ b.unset = u /\ b.timeout = t
  BY <1>3, <1>5 DEF ManilaSpec
<1> HIDE DEF b
<1>7. c \in ManilaSpec /\ c.unset = u /\ c.timeout = t /\ c.messaging = m
  BY <1>3, <1>6 DEF ManilaSpec
<1> QED
  BY <1>3, <1>4, <1>7 DEF u

(* What the webhook admits as an update is sound, whatever it replaces.    *)
LEMMA UpdateIsSound ==
  ASSUME NEW s \in ManilaSpec, NEW old, ValidateUpdate(old, Default(s))
  PROVE  Sound(Default(s))
<1>1. /\ Default(s).errors = {} /\ Default(s).messaging # 0 /\ Default(s).timeout # 0
      /\ Default(s).unset = s.unset \ Defaulted /\ Default(s).unset \cap Required = {}
  BY DefaultType DEF ValidateUpdate, ValidateBaseParams
<1>2. s.unset \subseteq Defaulted \cup Required
  BY FieldsAssumption DEF ManilaSpec
<1> HIDE DEF Default
<1>3. Default(s).unset = {}
  BY <1>1, <1>2
<1> QED
  BY <1>1, <1>3 DEF Sound

(* An empty spec is a spec.                                                *)
LEMMA InitInv == Init => IInv
<1> SUFFICES ASSUME Init PROVE IInv
  OBVIOUS
<1>1. Blank \in ManilaSpec
  BY Bounds DEF Blank, ManilaSpec
<1>2. route \in [flag : 0..NumTimeouts, timeout : 0..NumTimeouts]
  BY Bounds DEF Init
<1>3. 0 \in 0..NumClusters /\ 0 \in 0..MaxEdits
  BY Bounds
<1>4. finalizer = FALSE /\ byHand = FALSE
  BY DEF Init
<1> QED
  BY <1>1, <1>2, <1>3, <1>4
     DEF Init, IInv, TypeOK, FinalizedIsSound, OnlySoundDeployed, ChoiceShows

(* The parts of the invariant, by the variables they are about.            *)
CRInv ==
  /\ life \in {"absent", "live", "deleting", "gone"} /\ spec \in ManilaSpec
  /\ finalizer \in BOOLEAN /\ (finalizer => life \in {"live", "deleting"})
  /\ FinalizedIsSound

SvcInv ==
  /\ deployed \in ManilaSpec /\ notifies \in 0..NumClusters
  /\ (notifies # 0 => deployed.notifications # 0)
  /\ OnlySoundDeployed

RouteType ==
  /\ route \in [flag : 0..NumTimeouts, timeout : 0..NumTimeouts]
  /\ byHand \in BOOLEAN /\ (byHand => route.timeout # 0)

InParts == IInv <=> CRInv /\ SvcInv /\ RouteType /\ ChoiceShows /\ edits \in 0..MaxEdits

(* They make up the invariant.                                             *)
LEMMA Parts == InParts /\ InParts'
  BY DEF InParts, IInv, CRInv, SvcInv, RouteType, TypeOK, FinalizedIsSound, OnlySoundDeployed,
     ChoiceShows

(* The helper for the route keeps its annotations well formed, and leaves  *)
(* a timeout that somebody chose as it is.                                 *)
LEMMA RouteStep ==
  ASSUME IInv, SetDefaultRouteAnnotations
  PROVE  RouteType' /\ ChoiceShows' /\ (byHand => route'.timeout = route.timeout)
<1>1. /\ RouteType /\ ChoiceShows /\ spec.timeout \in 0..NumTimeouts
      /\ route' = RouteAnnotations(spec.timeout) /\ byHand' = byHand
  BY Parts DEF InParts, SetDefaultRouteAnnotations, CRInv, ManilaSpec
<1>2. [route EXCEPT !.flag = 0] = [flag |-> 0, timeout |-> route.timeout]
  BY <1>1 DEF RouteType
<1>3. 0 \in 0..NumTimeouts
  BY Bounds
<1>4. CASE route.flag = 0 /\ route.timeout # 0
  BY <1>1, <1>4 DEF RouteAnnotations, RouteType, ChoiceShows
<1>5. CASE route.flag # 0 /\ route.timeout # 0 /\ route.flag # route.timeout
  <2>1. route' = [flag |-> 0, timeout |-> route.timeout]
    BY <1>1, <1>2, <1>5 DEF RouteAnnotations
  <2> QED
    BY <1>1, <1>3, <1>5, <2>1 DEF RouteType, ChoiceShows
<1>6. CASE /\ ~(route.flag = 0 /\ route.timeout # 0)
           /\ ~(route.flag # 0 /\ route.timeout # 0 /\ route.flag # route.timeout)
  <2>1. route' = [flag |-> spec.timeout, timeout |-> spec.timeout]
    BY <1>1, <1>6 DEF RouteAnnotations
  <2>2. ~byHand
    BY <1>1, <1>6 DEF ChoiceShows
  <2> QED
    BY <1>1, <2>1, <2>2 DEF RouteType, ChoiceShows
<1> QED
  BY <1>4, <1>5, <1>6

(* Every action keeps the invariant.                                       *)
LEMMA NextInv == IInv /\ [Next]_vars => IInv'
<1> SUFFICES ASSUME IInv, [Next]_vars PROVE IInv'
  OBVIOUS
<1>0. CRInv /\ SvcInv /\ RouteType /\ ChoiceShows /\ edits \in 0..MaxEdits
  BY Parts DEF InParts
<1> SUFFICES CRInv' /\ SvcInv' /\ RouteType' /\ ChoiceShows' /\ edits' \in 0..MaxEdits
  BY Parts DEF InParts
<1> USE DEF crVars, svcVars, routeVars
<1>1. CASE Create
  <2>1. PICK s \in ManilaSpec : spec' = Default(s)
    BY <1>1 DEF Create
  <2>2. spec' \in ManilaSpec /\ ~finalizer
    BY <1>0, <1>1, <2>1, DefaultType DEF Create, CRInv
  <2> QED
    BY <1>0, <1>1, <2>2
       DEF Create, CRInv, SvcInv, RouteType, ChoiceShows, FinalizedIsSound, OnlySoundDeployed
<1>2. CASE Update
  <2>1. PICK s \in ManilaSpec : ValidateUpdate(spec, Default(s)) /\ spec' = Default(s)
    BY <1>2 DEF Update
  <2>2. spec' \in ManilaSpec /\ Sound(spec')
    BY <2>1, DefaultType, UpdateIsSound
  <2>3. edits' \in 0..MaxEdits
    BY <1>0, <1>2, Bounds DEF Update
  <2> QED
    BY <1>0, <1>2, <2>2, <2>3
       DEF Update, CRInv, SvcInv, RouteType, ChoiceShows, FinalizedIsSound, OnlySoundDeployed
<1>3. CASE Delete
  BY <1>0, <1>3
     DEF Delete, CRInv, SvcInv, RouteType, ChoiceShows, FinalizedIsSound, OnlySoundDeployed
<1>4. CASE AddFinalizer
  <2>1. spec \in ManilaSpec /\ ValidateUpdate(spec, Default(spec)) /\ spec' = Default(spec)
    BY <1>0, <1>4 DEF AddFinalizer, CRInv
  <2>2. spec' \in ManilaSpec /\ Sound(spec')
    BY <2>1, DefaultType, UpdateIsSound
  <2> QED
    BY <1>0, <1>4, <2>2
       DEF AddFinalizer, CRInv, SvcInv, RouteType, ChoiceShows, FinalizedIsSound, OnlySoundDeployed
<1>5. CASE Reconcile
  <2>1. /\ spec \in ManilaSpec /\ Sound(spec) /\ deployed' = spec
        /\ notifies' = NotificationsURL(spec)
    BY <1>0, <1>5 DEF Reconcile, CRInv, FinalizedIsSound
  <2>2. /\ NotificationsURL(spec) \in 0..NumClusters
        /\ NotificationsURL(spec) # 0 => spec.notifications # 0
    BY <2>1, Bounds DEF NotificationsURL, ManilaSpec
  <2>3. SvcInv'
    BY <2>1, <2>2 DEF SvcInv, OnlySoundDeployed
  <2> QED
    BY <1>0, <1>5, <2>3 DEF Reconcile, CRInv, RouteType, ChoiceShows, FinalizedIsSound
<1>6. CASE RemoveFinalizer
  BY <1>0, <1>6
     DEF RemoveFinalizer, CRInv, SvcInv, RouteType, ChoiceShows, FinalizedIsSound,
         OnlySoundDeployed
<1>7. CASE SetDefaultRouteAnnotations
  <2>1. RouteType' /\ ChoiceShows'
    BY <1>7, RouteStep
  <2> QED
    BY <1>0, <1>7, <2>1
       DEF SetDefaultRouteAnnotations, CRInv, SvcInv, FinalizedIsSound, OnlySoundDeployed
<1>8. CASE EditRoute
  <2>1. edits' \in 0..MaxEdits
    BY <1>0, <1>8, Bounds DEF EditRoute
  <2>2. RouteType' /\ ChoiceShows'
    <3>1. CASE \E t \in 0..NumTimeouts : /\ route' = [route EXCEPT !.timeout = t]
                                         /\ byHand' = (t # 0 /\ t # route.flag)
      <4>1. PICK t \in 0..NumTimeouts : /\ route' = [route EXCEPT !.timeout = t]
                                        /\ byHand' = (t # 0 /\ t # route.flag)
        BY <3>1
      <4>2. route' = [flag |-> route.flag, timeout |-> t]
        BY <1>0, <4>1 DEF RouteType
      <4>3. byHand' \in BOOLEAN
        BY <4>1
      <4> QED
        BY <1>0, <4>1, <4>2, <4>3 DEF RouteType, ChoiceShows
    <3>2. CASE /\ route' = [route EXCEPT !.flag = 0]
               /\ byHand' = (route.timeout # 0)
      <4>1. route' = [flag |-> 0, timeout |-> route.timeout] /\ 0 \in 0..NumTimeouts
        BY <1>0, <3>2, Bounds DEF RouteType
      <4>2. byHand' \in BOOLEAN
        BY <3>2
      <4> QED
        BY <1>0, <3>2, <4>1, <4>2 DEF RouteType, ChoiceShows
    <3> QED
      BY <1>8, <3>1, <3>2 DEF EditRoute
  <2> QED
    BY <1>0, <1>8, <2>1, <2>2
       DEF EditRoute, CRInv, SvcInv, FinalizedIsSound, OnlySoundDeployed
<1>9. CASE UNCHANGED vars
  BY <1>0, <1>9
     DEF vars, CRInv, SvcInv, RouteType, ChoiceShows, FinalizedIsSound, OnlySoundDeployed
<1> QED
  BY <1>1, <1>2, <1>3, <1>4, <1>5, <1>6, <1>7, <1>8, <1>9 DEF Next

-----------------------------------------------------------------------------
(* The inductive invariant holds in every reachable state.                 *)
THEOREM Invariance == Spec => []IInv
  BY InitInv, NextInv, PTL DEF Spec

(* The variables keep their types, and notifications have a cluster only   *)
(* when the deployed spec asks for them.                                   *)
THEOREM TypeCorrect == Spec => []TypeOK
  BY Invariance, PTL DEF IInv

(* No service is ever deployed from a spec that an update would not have   *)
(* passed, although creation lets such specs in.                           *)
THEOREM DeployedIsSound == Spec => []OnlySoundDeployed
  BY Invariance, PTL DEF IInv

(* The operator never overwrites a timeout of the route that somebody      *)
(* chose, for any sequence of edits of the route and of APITimeout.        *)
THEOREM ChoiceIsKept == Spec => ChosenTimeoutStays
<1>1. IInv /\ [Next]_vars => [byHand /\ route'.timeout # route.timeout => edits' # edits]_vars
  <2> SUFFICES ASSUME IInv, Next, byHand, route'.timeout # route.timeout PROVE edits' # edits
    OBVIOUS
  <2>1. edits \in Nat
    BY Bounds DEF IInv, TypeOK
  <2>2. CASE SetDefaultRouteAnnotations
    BY <2>2, RouteStep
  <2>3. CASE EditRoute \/ Update
    BY <2>1, <2>3 DEF EditRoute, Update
  <2>4. CASE Create \/ Delete \/ AddFinalizer \/ Reconcile \/ RemoveFinalizer
    BY <2>4 DEF Create, Delete, AddFinalizer, Reconcile, RemoveFinalizer, routeVars
  <2> QED
    BY <2>2, <2>3, <2>4 DEF Next
<1> QED
  BY <1>1, Invariance, PTL DEF Spec, ChosenTimeoutStays

-----------------------------------------------------------------------------
(***************************************************************************)
(* That the webhook stands in nobody's way.                                *)
(***************************************************************************)

(* A sound spec passes the checks of an update that leaves it as it is,    *)
(* as the patches of the controller do.                                    *)
LEMMA SoundPasses ==
  ASSUME NEW s \in ManilaSpec, Sound(s)
  PROVE  Default(s) = s /\ ValidateUpdate(s, Default(s))
<1>1. /\ s.unset = {} /\ s.errors = {} /\ s.messaging # 0 /\ s.timeout # 0
      /\ s.unset \ Defaulted = s.unset
  BY DEF Sound
<1>2. Default(s) = [s EXCEPT !.unset = s.unset, !.timeout = s.timeout, !.messaging = s.messaging]
  BY <1>1 DEF Default, Or
<1>3. Default(s) = s
  BY <1>2 DEF ManilaSpec
<1>4. ValidateUpdate(s, s)
  BY <1>1 DEF ValidateUpdate, DeprecatedOK, ValidateBaseParams
<1> QED
  BY <1>3, <1>4

(* What DeletionEnds rests on: RemoveFinalizer is not rejected.            *)
Removable == life = "deleting" => finalizer /\ ValidateUpdate(spec, Default(spec))

(* No Manila CR is stuck in its deletion: the update that takes the        *)
(* finalizer off passes the webhook (ValidateUpdate), whatever creation    *)
(* had let in.                                                             *)
THEOREM FinalizerComesOff == Spec => []Removable
<1> DEFINE Waits == life = "deleting" => finalizer
<1>1. Init => Waits
  BY DEF Init
<1>2. Waits /\ [Next]_vars => Waits'
  <2> SUFFICES ASSUME Waits, [Next]_vars, life' = "deleting" PROVE finalizer'
    OBVIOUS
  <2> USE DEF crVars, svcVars, routeVars
  <2>1. CASE Create \/ Update \/ RemoveFinalizer \/ AddFinalizer
    BY <2>1 DEF Create, Update, RemoveFinalizer, AddFinalizer
  <2>2. CASE Delete
    BY <2>2 DEF Delete
  <2>3. CASE Reconcile \/ SetDefaultRouteAnnotations \/ EditRoute
    BY <2>3 DEF Reconcile, SetDefaultRouteAnnotations, EditRoute
  <2>4. CASE UNCHANGED vars
    BY <2>4 DEF vars
  <2> QED
    BY <2>1, <2>2, <2>3, <2>4 DEF Next
<1>3. IInv /\ Waits => Removable
  BY SoundPasses DEF IInv, TypeOK, FinalizedIsSound, Removable
<1> QED
  BY <1>1, <1>2, <1>3, Invariance, PTL DEF Spec

(* A timeout of the route that nobody chose is the one beside the flag.    *)
NotChosen == ~byHand => route.timeout \in {0, route.flag}

(* Every action keeps that.                                                *)
LEMMA NotChosenStep ==
  ASSUME IInv, NotChosen, [Next]_vars
  PROVE  /\ NotChosen'
         /\ SetDefaultRouteAnnotations /\ ~byHand => route'.timeout = spec.timeout
<1>0. route \in [flag : 0..NumTimeouts, timeout : 0..NumTimeouts]
  BY DEF IInv, TypeOK
<1>1. CASE SetDefaultRouteAnnotations
  <2>1. byHand' = byHand /\ route' = RouteAnnotations(spec.timeout)
    BY <1>1 DEF SetDefaultRouteAnnotations
  <2>2. ~byHand => route' = [flag |-> spec.timeout, timeout |-> spec.timeout]
    BY <2>1 DEF RouteAnnotations, NotChosen
  <2> QED
    BY <2>1, <2>2 DEF NotChosen
<1>2. CASE EditRoute /\ ~SetDefaultRouteAnnotations
  <2>1. \/ \E t \in 0..NumTimeouts : /\ route' = [route EXCEPT !.timeout = t]
                                     /\ byHand' = (t # 0 /\ t # route.flag)
        \/ route' = [route EXCEPT !.flag = 0] /\ byHand' = (route.timeout # 0)
    BY <1>2 DEF EditRoute
  <2>2. \/ \E t \in 0..NumTimeouts : /\ route'.timeout = t /\ route'.flag = route.flag
                                     /\ byHand' = (t # 0 /\ t # route.flag)
        \/ route'.timeout = route.timeout /\ byHand' = (route.timeout # 0)
    BY <1>0, <2>1
  <2> QED
    BY <1>2, <2>2 DEF NotChosen
<1>3. CASE ~SetDefaultRouteAnnotations /\ ~EditRoute
  <2>1. UNCHANGED routeVars
    BY <1>3 DEF Next, Create, Update, Delete, AddFinalizer, Reconcile, RemoveFinalizer, vars
  <2> QED
    BY <1>3, <2>1 DEF routeVars, NotChosen
<1> QED
  BY <1>1, <1>2, <1>3

(* The step of TimeoutFollows: each time the openstack-operator reconciles *)
(* the route, a timeout nobody chose becomes APITimeout, also after it was *)
(* removed or the flag of the operator was (SetDefaultRouteAnnotations).   *)
THEOREM RouteFollows ==
  Spec => [][SetDefaultRouteAnnotations /\ ~byHand => route'.timeout = spec.timeout]_vars
<1>1. Init => NotChosen
  BY DEF Init, NotChosen
<1>2. IInv /\ NotChosen /\ [Next]_vars
        => /\ NotChosen'
           /\ [SetDefaultRouteAnnotations /\ ~byHand => route'.timeout = spec.timeout]_vars
  BY NotChosenStep
<1> QED
  BY <1>1, <1>2, Invariance, PTL DEF Spec
=============================================================================
