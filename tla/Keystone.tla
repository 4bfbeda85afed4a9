------------------------------ MODULE Keystone ------------------------------
(***************************************************************************)
(* How the ManilaAPI controller gets the share services into the catalogue *)
(* of Keystone and out of it again, while the ManilaAPI is deleted and     *)
(* created anew under the same name and somebody edits or deletes things   *)
(* by hand.                                                                *)
(*                                                                         *)
(* A ManilaAPI owns, by name, the Kubernetes Services that expose it and a *)
(* KeystoneService and a KeystoneEndpoint for each of keystoneServices.    *)
(* The keystone-operator, outside the repository, registers the last two   *)
(* in the catalogue and keeps a finalizer of its own on what it has        *)
(* registered.  What outlives its owner is deleted by the garbage          *)
(* collector.                                                              *)
(*                                                                         *)
(* Objects are numbered in the order in which reconcileInit ensures them:  *)
(* 0 stands for the Kubernetes Services, 2k-1 and 2k for the               *)
(* KeystoneService and the KeystoneEndpoint of the k-th service.  The last *)
(* service is the deprecated "manila" (V1), which an annotation turns off. *)
(***************************************************************************)
EXTENDS Integers

CONSTANTS
  NumServices,   \* how many services keystoneServices lists, V1 the last
  MaxAPIs,       \* bound: ManilaAPIs created one after the other
  MaxEdits,      \* bound: changes of annotations and deletions by hand
  MaxFaults      \* bound: failed API calls and operator restarts

ASSUME ServicesAssumption == NumServices \in Nat \ {0}
ASSUME BoundsAssumption == MaxAPIs \in Nat \ {0} /\ MaxEdits \in Nat /\ MaxFaults \in Nat

Objects == 0..(2 * NumServices)
Service(k)  == 2 * k - 1
Endpoint(k) == 2 * k
Keystone    == Objects \ {0}

(* The annotation manila.openstack.org/sharev1: absent or true, false, or  *)
(* no boolean at all.                                                      *)
Annotations == {"on", "off", "bad"}

VARIABLES
  manila,      \* the Manila CR: "live" or "gone"
  annotation,  \* ... its sharev1 annotation
  api,         \* the ManilaAPI: its UID, its state, its annotation, its finalizer
  state,       \* the objects: "absent", "present" or "deleting"
  owner,       \* ... the UID of the ManilaAPI that controls each
  held,        \* ... those that carry the finalizer of the ManilaAPI controller
  registered,  \* ... those that are in the catalogue of Keystone
  next,        \* ManilaAPI controller: the object that reconcileInit ensures next
  last,        \* ... the last object it will ensure, -1 when no Reconcile runs
  queued,      \* the ManilaAPI is in the work queue
  edits, faults   \* counters, for the bounds

objVars == <<state, owner, held, registered>>
runVars == <<next, last, queued>>
vars == <<manila, annotation, api, objVars, runVars, edits, faults>>

API == [uid : 0..MaxAPIs, state : {"absent", "live", "deleting"},
        v1 : Annotations, finalizer : BOOLEAN]

TypeOK ==
  /\ manila \in {"live", "gone"} /\ annotation \in Annotations
  /\ api \in API /\ (api.state = "absent" => ~api.finalizer)
  /\ state \in [Objects -> {"absent", "present", "deleting"}]
  /\ owner \in [Objects -> 0..MaxAPIs]
  /\ held \subseteq Keystone /\ registered \subseteq Keystone
  /\ \A o \in held \cup registered : state[o] # "absent"
  /\ \A o \in Objects : (owner[o] = 0) = (state[o] = "absent")
  /\ next \in Objects /\ last \in Objects \cup {-1} /\ (last = -1 => next = 0)
  /\ queued \in BOOLEAN
  /\ edits \in 0..MaxEdits /\ faults \in 0..MaxFaults

(* A Manila CR whose ManilaAPI is still to be created.                     *)
Init ==
  /\ manila = "live" /\ annotation \in Annotations
  /\ api = [uid |-> 0, state |-> "absent", v1 |-> "on", finalizer |-> FALSE]
  /\ state = [o \in Objects |-> "absent"] /\ owner = [o \in Objects |-> 0]
  /\ held = {} /\ registered = {}
  /\ next = 0 /\ last = -1 /\ queued = FALSE
  /\ edits = 0 /\ faults = 0

-----------------------------------------------------------------------------
(***************************************************************************)
(* The Manila controller creates the ManilaAPI with its own annotations;   *)
(* an existing one keeps those it has.                                     *)
(***************************************************************************)
CreateAPI ==
  /\ manila = "live" /\ api.state = "absent" /\ api.uid < MaxAPIs
  /\ api' = [uid |-> api.uid + 1, state |-> "live", v1 |-> annotation, finalizer |-> FALSE]
  /\ queued' = TRUE
  /\ UNCHANGED <<manila, annotation, objVars, next, last, edits, faults>>

(* (An operator whose name has a suffix, X_Y, is X with a plausible mistake *)
(* in it; the mutation tests of the properties put it in X's place.)       *)

(***************************************************************************)
(* The ManilaAPI controller.  One Reconcile at a time works on a ManilaAPI.*)
(***************************************************************************)
Idle == last = -1
Stop_Swallowed(again) == next' = 0 /\ last' = -1 /\ queued' = FALSE

Stop(again) == next' = 0 /\ last' = -1 /\ queued' = again

(* The first Reconcile only puts the finalizer on and returns; the update  *)
(* queues the ManilaAPI again.                                             *)
AddFinalizer ==
  /\ Idle /\ queued /\ api.state = "live" /\ ~api.finalizer
  /\ api' = [api EXCEPT !.finalizer = TRUE]
  /\ UNCHANGED <<manila, annotation, objVars, runVars, edits, faults>>

(* IsShareV1Enabled is asked once per Reconcile.  An annotation that is no *)
(* boolean is an error: nothing is ensured, not even the other services.   *)
LastFor(v1) == CASE v1 = "on"  -> Endpoint(NumServices)
                 [] v1 = "off" -> Endpoint(NumServices - 1)
                 [] OTHER      -> -1

StartInit ==
  /\ Idle /\ queued /\ api.state = "live" /\ api.finalizer
  /\ LastFor(api.v1) # -1
  /\ next' = 0 /\ last' = LastFor(api.v1) /\ queued' = FALSE
  /\ UNCHANGED <<manila, annotation, api, objVars, edits, faults>>

(* CreateOrPatch takes over what an earlier ManilaAPI of the same name has *)
(* left behind; a new finalizer on an object that is being deleted is      *)
(* refused.                                                                *)
Refused(o) == state[o] = "deleting" /\ o \in Keystone \ held

Patched_Unowned(o) ==
  /\ state' = [state EXCEPT ![o] = IF @ = "absent" THEN "present" ELSE @]
  /\ held' = held \cup ({o} \cap Keystone)
  /\ UNCHANGED owner

Patched(o) ==
  /\ state' = [state EXCEPT ![o] = IF @ = "absent" THEN "present" ELSE @]
  /\ owner' = [owner EXCEPT ![o] = api.uid]
  /\ held' = held \cup ({o} \cap Keystone)

Changed(o) == owner[o] # api.uid \/ o \in Keystone \ held

Continue(o) ==
  IF o = last THEN Stop(queued) ELSE next' = o + 1 /\ UNCHANGED <<last, queued>>

(* A result of CreateOrPatch other than the empty one ends the Reconcile;  *)
(* it may come only with a change.  A change of an owned object queues the *)
(* ManilaAPI as well.                                                      *)
Ensure ==
  /\ ~Idle
  /\ IF Refused(next)
     THEN Stop(TRUE) /\ UNCHANGED <<state, owner, held>>
     ELSE /\ Patched(next)
          /\ IF Changed(next) THEN Stop(TRUE) ELSE Continue(next)
  /\ UNCHANGED <<manila, annotation, api, registered, edits, faults>>

(* The operator restarts, or a call fails, in the middle of reconcileInit. *)
InitFault ==
  /\ faults < MaxFaults /\ ~Idle
  /\ faults' = faults + 1
  /\ Stop(TRUE)
  /\ UNCHANGED <<manila, annotation, api, objVars, edits>>

(***************************************************************************)
(* reconcileDelete goes through all of keystoneServices, V1 included       *)
(* whatever the annotation says, and takes the finalizer off the endpoint  *)
(* first; what it does not find it passes over.                            *)
(***************************************************************************)
Deletes == Idle /\ queued /\ api.state = "deleting" /\ api.finalizer

LetGo_EnabledOnly == held' = {o \in held : o > LastFor(api.v1)}

LetGo_EndpointFound ==
  held' = {o \in held : \E k \in 1..NumServices :
             o = Service(k) /\ state[Endpoint(k)] = "absent"}

LetGo == held' = {}

ReconcileDelete ==
  /\ Deletes
  /\ LetGo
  /\ api' = [api EXCEPT !.state = "absent", !.finalizer = FALSE]
  /\ queued' = FALSE
  /\ UNCHANGED <<manila, annotation, state, owner, registered, next, last, edits, faults>>

(* The order of the updates of reconcileDelete: Before(o, p) when o's      *)
(* finalizer comes off first.                                              *)
Before(o, p) ==
  \E j, k \in 1..NumServices :
     /\ o \in {Service(j), Endpoint(j)} /\ p \in {Service(k), Endpoint(k)}
     /\ j < k \/ (j = k /\ o = Endpoint(j) /\ p = Service(j))

(* It fails at one of the updates, or the operator restarts: the           *)
(* finalizers up to there are off, the ManilaAPI keeps its own.            *)
DeleteFault ==
  /\ Deletes /\ faults < MaxFaults
  /\ faults' = faults + 1
  /\ held' \in {{}} \cup {{p \in held : p = o \/ Before(o, p)} : o \in held}
  /\ UNCHANGED <<manila, annotation, api, state, owner, registered, runVars, edits>>

-----------------------------------------------------------------------------
(***************************************************************************)
(* The keystone-operator registers what is there, a service before its     *)
(* endpoints, and takes what is being deleted out of the catalogue.  A     *)
(* change of an owned object queues the ManilaAPI of that name.            *)
(***************************************************************************)
Register(o) ==
  /\ o \in Keystone \ registered /\ state[o] = "present"
  /\ \A k \in 1..NumServices : o = Endpoint(k) => Service(k) \in registered
  /\ registered' = registered \cup {o}
  /\ queued' = (api.state # "absent")
  /\ UNCHANGED <<manila, annotation, api, state, owner, held, next, last, edits, faults>>

Unregister(o) ==
  /\ o \in registered /\ state[o] = "deleting"
  /\ registered' = registered \ {o}
  /\ queued' = (api.state # "absent")
  /\ UNCHANGED <<manila, annotation, api, state, owner, held, next, last, edits, faults>>

(* The garbage collector deletes what has outlived its owner.              *)
Collect(o) ==
  /\ state[o] = "present" /\ (api.state = "absent" \/ api.uid # owner[o])
  /\ state' = [state EXCEPT ![o] = "deleting"]
  /\ queued' = (api.state # "absent")
  /\ UNCHANGED <<manila, annotation, api, owner, held, registered, next, last, edits, faults>>

(* An object that is being deleted goes with its last finalizer.           *)
Vanish(o) ==
  /\ state[o] = "deleting" /\ o \notin held \cup registered
  /\ state' = [state EXCEPT ![o] = "absent"]
  /\ owner' = [owner EXCEPT ![o] = 0]
  /\ queued' = (api.state # "absent")
  /\ UNCHANGED <<manila, annotation, api, held, registered, next, last, edits, faults>>

(* The ManilaAPI is deleted: by hand, or by the garbage collector after    *)
(* the Manila CR.                                                          *)
DeleteAPI ==
  /\ api.state = "live"
  /\ api' = IF api.finalizer THEN [api EXCEPT !.state = "deleting"]
            ELSE [api EXCEPT !.state = "absent"]
  /\ queued' = api.finalizer
  /\ UNCHANGED <<manila, annotation, objVars, next, last, faults>>

(* Somebody deletes the ManilaAPI, while there can be another one after it. *)
DeleteAPIByHand ==
  /\ manila = "live" /\ api.uid < MaxAPIs
  /\ edits < MaxEdits /\ edits' = edits + 1
  /\ DeleteAPI

CollectAPI == manila = "gone" /\ DeleteAPI /\ UNCHANGED edits

DeleteManila ==
  /\ manila = "live"
  /\ manila' = "gone"
  /\ UNCHANGED <<annotation, api, objVars, runVars, edits, faults>>

(* Somebody changes the annotation of the Manila or of the ManilaAPI, or   *)
(* deletes a KeystoneService or a KeystoneEndpoint.                        *)
Annotate ==
  /\ edits < MaxEdits /\ edits' = edits + 1
  /\ \E v \in Annotations :
       \/ /\ manila = "live" /\ annotation' = v
          /\ UNCHANGED <<api, queued>>
       \/ /\ api.state = "live" /\ api' = [api EXCEPT !.v1 = v]
          /\ queued' = TRUE
          /\ UNCHANGED annotation
  /\ UNCHANGED <<manila, objVars, next, last, faults>>

DeleteObject(o) ==
  /\ edits < MaxEdits /\ edits' = edits + 1
  /\ state[o] = "present"
  /\ state' = [state EXCEPT ![o] = "deleting"]
  /\ queued' = (api.state # "absent")
  /\ UNCHANGED <<manila, annotation, api, owner, held, registered, next, last, faults>>

-----------------------------------------------------------------------------
External(o) == Register(o) \/ Unregister(o) \/ Collect(o) \/ Vanish(o)

Next ==
  \/ CreateAPI
  \/ AddFinalizer \/ StartInit \/ Ensure \/ InitFault
  \/ ReconcileDelete \/ DeleteFault
  \/ \E o \in Objects : External(o) \/ DeleteObject(o)
  \/ DeleteAPIByHand \/ CollectAPI \/ DeleteManila \/ Annotate

Spec == Init /\ [][Next]_vars

(* A queued ManilaAPI is reconciled, a Reconcile that has begun goes on,   *)
(* the Manila controller creates the ManilaAPI it misses, and the          *)
(* keystone-operator and the garbage collector do their part.  Nobody is   *)
(* obliged to edit or delete anything.                                     *)
Fairness ==
  /\ WF_vars(CreateAPI)
  /\ WF_vars(AddFinalizer \/ StartInit) /\ WF_vars(Ensure) /\ WF_vars(ReconcileDelete)
  /\ WF_vars(CollectAPI)
  /\ \A o \in Objects : WF_vars(Register(o)) /\ WF_vars(Unregister(o))
                        /\ WF_vars(Collect(o)) /\ WF_vars(Vanish(o))

FairSpec == Spec /\ Fairness

-----------------------------------------------------------------------------
(* What carries the finalizer of a ManilaAPI has that ManilaAPI for its    *)
(* owner, and it is still there: the finalizer of one that is gone would   *)
(* hold the object back from the garbage collector, for the next ManilaAPI *)
(* of the name to patch in vain.  reconcileDelete, retried after a failure *)
(* at any of its updates, is the only code that takes it off.              *)
HeldByTheLiving ==
  \A o \in held : api.state # "absent" /\ owner[o] = api.uid

(* An object by its own name that was deleted by hand while its ManilaAPI  *)
(* goes on: the finalizer keeps it, and reconcileInit patches it for ever. *)
Stuck(o) == state[o] = "deleting" /\ o \in held

(* Once a ManilaAPI with a readable annotation stays, every service it     *)
(* wants gets into the catalogue and remains there, also when it took over *)
(* from a ManilaAPI of the same name whose objects were still being        *)
(* deleted; unless one of its objects was deleted by hand.                 *)
CatalogueFollows ==
  \A u \in 1..MaxAPIs :
    <>[](/\ api.uid = u /\ api.state = "live" /\ api.v1 # "bad"
         /\ \A o \in Objects : ~Stuck(o))
      => <>[](1..LastFor(api.v1) \subseteq registered)

(* After the Manila CR is gone its ManilaAPI goes, and with it everything  *)
(* it has ensured, also the V1 service that an annotation has turned off   *)
(* in the meantime: the catalogue does not keep an entry nobody serves.    *)
NothingLeft ==
  (manila = "gone") ~> (/\ api.state = "absent" /\ registered = {}
                        /\ \A o \in Objects : state[o] = "absent")
=============================================================================
