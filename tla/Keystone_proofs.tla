---------------------------- MODULE Keystone_proofs ----------------------------
(***************************************************************************)
(* Proofs about Keystone, for any number of services, of ManilaAPIs that   *)
(* follow one another, of edits and of faults.  HeldByTheLiving is not     *)
(* inductive by itself: a ManilaAPI without a finalizer disappears at      *)
(* once, and then nothing may be held (Guarded), and a Reconcile that is   *)
(* running puts finalizers on, so that its ManilaAPI must be there         *)
(* (Running) and have a UID (Named).                                       *)
(***************************************************************************)
EXTENDS Keystone, TLAPS

Named   == api.state # "absent" => api.uid # 0
Running == last # -1 => api.state # "absent" /\ api.finalizer /\ next <= last
Guarded == held # {} => api.finalizer

IInv == TypeOK /\ Named /\ Running /\ Guarded /\ HeldByTheLiving

(* The bounds are natural numbers.                                         *)
LEMMA Bounds ==
  /\ NumServices \in Nat /\ NumServices >= 1 /\ MaxAPIs \in Nat /\ MaxAPIs >= 1
  /\ MaxEdits \in Nat /\ MaxFaults \in Nat
  BY ServicesAssumption, BoundsAssumption

(* Before the first ManilaAPI there is nothing.                            *)
LEMMA InitInv == Init => IInv
<1> SUFFICES ASSUME Init PROVE IInv
  OBVIOUS
<1>1. api \in API /\ api.state = "absent" /\ api.uid = 0 /\ ~api.finalizer
  BY Bounds DEF Init, API, Annotations
<1>2. /\ state \in [Objects -> {"absent", "present", "deleting"}]
      /\ owner \in [Objects -> 0..MaxAPIs]
      /\ \A o \in Objects : (owner[o] = 0) = (state[o] = "absent")
  BY Bounds DEF Init
<1>3. next \in Objects /\ last \in Objects \cup {-1} /\ (last = -1 => next = 0)
  BY Bounds DEF Init, Objects
<1>4. edits \in 0..MaxEdits /\ faults \in 0..MaxFaults
  BY Bounds DEF Init
<1>5. queued \in BOOLEAN
  BY DEF Init
<1>6. TypeOK
  BY <1>1, <1>2, <1>3, <1>4, <1>5 DEF Init, TypeOK
<1> QED
  BY <1>1, <1>6 DEF Init, IInv, Named, Running, Guarded, HeldByTheLiving

(* The last object that a Reconcile ensures is one of the objects.         *)
LEMMA LastForType ==
  ASSUME NEW v \in Annotations
  PROVE  LastFor(v) \in Objects \cup {-1}
  BY Bounds DEF LastFor, Annotations, Objects, Endpoint

(* The ManilaAPI, its objects and what they are marked with: the parts of  *)
(* TypeOK that an action changes together.                                 *)
ObjectsOK ==
  /\ state \in [Objects -> {"absent", "present", "deleting"}]
  /\ owner \in [Objects -> 0..MaxAPIs]
  /\ held \subseteq Keystone /\ registered \subseteq Keystone
  /\ \A o \in held \cup registered : state[o] # "absent"
  /\ \A o \in Objects : (owner[o] = 0) = (state[o] = "absent")

RunOK ==
  /\ next \in Objects /\ last \in Objects \cup {-1} /\ (last = -1 => next = 0)
  /\ queued \in BOOLEAN

APIOK == api \in API /\ (api.state = "absent" => ~api.finalizer)

RestOK ==
  /\ manila \in {"live", "gone"} /\ annotation \in Annotations
  /\ edits \in 0..MaxEdits /\ faults \in 0..MaxFaults

(* The parts make up TypeOK.                                               *)
LEMMA TypeParts == TypeOK <=> ObjectsOK /\ RunOK /\ APIOK /\ RestOK
  BY DEF TypeOK, ObjectsOK, RunOK, APIOK, RestOK

(* Idling the controller keeps its part well typed.                        *)
LEMMA StopType ==
  ASSUME NEW again \in BOOLEAN, Stop(again)
  PROVE  RunOK'
  BY Bounds DEF Stop, RunOK, Objects

(* An object that is ensured is there, and controlled by the ManilaAPI.    *)
LEMMA PatchedInv ==
  ASSUME IInv, last # -1, ~Refused(next), Patched(next), UNCHANGED <<api, registered>>
  PROVE  ObjectsOK' /\ Guarded' /\ HeldByTheLiving'
<1>1. /\ ObjectsOK /\ next \in Objects /\ api \in API
      /\ api.state # "absent" /\ api.finalizer /\ api.uid # 0
  BY TypeParts DEF IInv, Running, Named, RunOK, APIOK
<1>2. api.uid \in 0..MaxAPIs
  BY <1>1 DEF API
<1>3. \A o \in Objects : /\ o # next => state'[o] = state[o] /\ owner'[o] = owner[o]
                         /\ o = next => state'[o] # "absent" /\ owner'[o] = api.uid
  BY <1>1, <1>2 DEF Patched, ObjectsOK
<1>4. /\ state' \in [Objects -> {"absent", "present", "deleting"}]
      /\ owner' \in [Objects -> 0..MaxAPIs]
  BY <1>1, <1>2 DEF Patched, ObjectsOK
<1>5. held' \subseteq held \cup {next} /\ held' \subseteq Keystone /\ Keystone \subseteq Objects
  BY <1>1 DEF Patched, ObjectsOK, Keystone
<1>6. ObjectsOK'
  <2>1. \A o \in held' \cup registered' : state'[o] # "absent"
    BY <1>1, <1>3, <1>5 DEF ObjectsOK
  <2>2. \A o \in Objects : (owner'[o] = 0) = (state'[o] = "absent")
    BY <1>1, <1>3 DEF ObjectsOK
  <2> QED
    BY <1>1, <1>4, <1>5, <2>1, <2>2 DEF ObjectsOK
<1>7. HeldByTheLiving'
  BY <1>1, <1>3, <1>5 DEF IInv, HeldByTheLiving
<1> QED
  BY <1>1, <1>6, <1>7 DEF Guarded

(* Every action keeps the invariant.                                       *)
LEMMA NextInv == IInv /\ [Next]_vars => IInv'
<1> SUFFICES ASSUME IInv, [Next]_vars PROVE IInv'
  OBVIOUS
<1>0. /\ ObjectsOK /\ RunOK /\ APIOK /\ RestOK
      /\ Named /\ Running /\ Guarded /\ HeldByTheLiving
  BY TypeParts DEF IInv
<1> SUFFICES /\ ObjectsOK' /\ RunOK' /\ APIOK' /\ RestOK'
             /\ Named' /\ Running' /\ Guarded' /\ HeldByTheLiving'
  <2>1. TypeOK' <=> ObjectsOK' /\ RunOK' /\ APIOK' /\ RestOK'
    BY DEF TypeOK, ObjectsOK, RunOK, APIOK, RestOK
  <2> QED
    BY <2>1 DEF IInv
<1> USE Bounds
<1>1. CASE CreateAPI
  <2>1. last = -1 /\ held = {}
    BY <1>0, <1>1 DEF CreateAPI, Running, HeldByTheLiving
  <2>2. /\ api'.uid = api.uid + 1 /\ api.uid \in 0..MaxAPIs /\ api.uid < MaxAPIs
        /\ api'.state = "live" /\ ~api'.finalizer
        /\ api' = [uid |-> api.uid + 1, state |-> "live", v1 |-> annotation, finalizer |-> FALSE]
    BY <1>0, <1>1 DEF CreateAPI, APIOK, API
  <2>3. APIOK'
    BY <1>0, <2>2 DEF APIOK, API, RestOK
  <2>4. /\ UNCHANGED <<manila, annotation, state, owner, held, registered, next, last, edits, faults>>
        /\ queued' = TRUE
    BY <1>1 DEF CreateAPI, objVars
  <2> QED
    BY <1>0, <2>1, <2>2, <2>3, <2>4
       DEF ObjectsOK, RunOK, RestOK, Named, Running, Guarded, HeldByTheLiving
<1>2. CASE AddFinalizer
  <2>1. /\ api' = [api EXCEPT !.finalizer = TRUE] /\ api \in API /\ api.state = "live"
        /\ UNCHANGED <<manila, annotation, state, owner, held, registered, next, last, queued,
                       edits, faults>>
    BY <1>0, <1>2 DEF AddFinalizer, APIOK, objVars, runVars
  <2>2. api'.uid = api.uid /\ api'.state = "live" /\ api'.finalizer /\ api' \in API
    BY <2>1 DEF API
  <2> QED
    BY <1>0, <2>1, <2>2
       DEF APIOK, ObjectsOK, RunOK, RestOK, Named, Running, Guarded, HeldByTheLiving
<1>3. CASE StartInit
  <2>1. last' \in Objects \cup {-1} /\ next' = 0 /\ last' # -1 /\ queued' = FALSE
    <3>1. api.v1 \in Annotations
      BY <1>0 DEF APIOK, API
    <3> QED
      BY <1>3, <3>1, LastForType DEF StartInit
  <2>2. api.state = "live" /\ api.finalizer
        /\ UNCHANGED <<manila, annotation, api, state, owner, held, registered, edits, faults>>
    BY <1>3 DEF StartInit, objVars
  <2>3. 0 \in Objects /\ 0 <= last'
    BY <2>1 DEF Objects
  <2>4. RunOK'
    BY <2>1, <2>3 DEF RunOK
  <2> QED
    BY <1>0, <2>1, <2>2, <2>3, <2>4
       DEF APIOK, ObjectsOK, RestOK, Named, Running, Guarded, HeldByTheLiving
<1>4. CASE Ensure
  <2>1. last # -1 /\ UNCHANGED <<manila, annotation, api, registered, edits, faults>>
    BY <1>4 DEF Ensure, Idle
  <2>2. /\ APIOK' /\ RestOK' /\ Named' /\ Running'
    <3>1. last' = -1 \/ (last' = last /\ next' = next + 1 /\ next # last)
      BY <1>4 DEF Ensure, Stop, Continue
    <3>2. next \in Int /\ last \in Int /\ next <= last
      BY <1>0, <2>1 DEF RunOK, Running, Objects
    <3> QED
      BY <1>0, <2>1, <3>1, <3>2 DEF APIOK, RestOK, Named, Running
  <2>3. CASE Refused(next)
    <3>1. Stop(TRUE) /\ UNCHANGED <<state, owner, held>>
      BY <1>4, <2>3 DEF Ensure
    <3> QED
      BY <1>0, <2>1, <2>2, <3>1, StopType DEF ObjectsOK, Guarded, HeldByTheLiving
  <2>4. CASE ~Refused(next)
    <3>1. /\ Patched(next) /\ (Stop(TRUE) \/ Continue(next))
      BY <1>4, <2>4 DEF Ensure
    <3>2. ObjectsOK' /\ Guarded' /\ HeldByTheLiving'
      BY <2>1, <2>4, <3>1, PatchedInv DEF objVars
    <3>3. CASE Stop(TRUE)
      BY <2>2, <3>2, <3>3, StopType
    <3>4. CASE Continue(next)
      <4>1. CASE next = last
        <5>1. Stop(queued) /\ queued \in BOOLEAN
          BY <1>0, <3>4, <4>1 DEF Continue, RunOK
        <5> QED
          BY <2>2, <3>2, <5>1, StopType
      <4>2. CASE next # last
        <5>1. next' = next + 1 /\ UNCHANGED <<last, queued>>
          BY <3>4, <4>2 DEF Continue
        <5>2. next + 1 \in Objects
          BY <1>0, <2>1, <4>2 DEF RunOK, Running, Objects
        <5> QED
          BY <1>0, <2>1, <2>2, <3>2, <5>1, <5>2 DEF RunOK
      <4> QED
        BY <4>1, <4>2
    <3> QED
      BY <3>1, <3>3, <3>4
  <2> QED
    BY <2>3, <2>4
<1>5. CASE InitFault
  <2>1. /\ Stop(TRUE) /\ last' = -1 /\ faults' = faults + 1 /\ faults < MaxFaults
        /\ UNCHANGED <<manila, annotation, api, state, owner, held, registered, edits>>
    BY <1>5 DEF InitFault, Stop, objVars
  <2>2. RunOK'
    BY <2>1, StopType
  <2>3. RestOK'
    BY <1>0, <2>1 DEF RestOK
  <2> QED
    BY <1>0, <2>1, <2>2, <2>3
       DEF ObjectsOK, APIOK, Named, Running, Guarded, HeldByTheLiving
<1>6. CASE ReconcileDelete
  <2>1. /\ last = -1 /\ held' = {} /\ api' = [api EXCEPT !.state = "absent", !.finalizer = FALSE]
        /\ queued' = FALSE /\ api \in API
        /\ UNCHANGED <<manila, annotation, state, owner, registered, next, last, edits, faults>>
    BY <1>0, <1>6 DEF ReconcileDelete, Deletes, Idle, LetGo, APIOK
  <2>2. api' \in API /\ api'.state = "absent" /\ ~api'.finalizer
    BY <2>1 DEF API
  <2> QED
    BY <1>0, <2>1, <2>2
       DEF APIOK, ObjectsOK, RunOK, RestOK, Named, Running, Guarded, HeldByTheLiving
<1>7. CASE DeleteFault
  <2>1. /\ held' \subseteq held /\ faults' = faults + 1 /\ faults < MaxFaults
        /\ UNCHANGED <<manila, annotation, api, state, owner, registered, next, last, queued, edits>>
    BY <1>7 DEF DeleteFault, runVars
  <2> QED
    BY <1>0, <2>1 DEF APIOK, ObjectsOK, RunOK, RestOK, Named, Running, Guarded, HeldByTheLiving
<1>8. ASSUME NEW o \in Objects, Register(o) \/ Unregister(o)
      PROVE  /\ ObjectsOK' /\ RunOK' /\ APIOK' /\ RestOK'
             /\ Named' /\ Running' /\ Guarded' /\ HeldByTheLiving'
  <2>1. /\ registered' \subseteq registered \cup (IF state[o] = "present" THEN {o} ELSE {})
        /\ registered' \subseteq Keystone /\ queued' \in BOOLEAN
        /\ UNCHANGED <<manila, annotation, api, state, owner, held, next, last, edits, faults>>
    BY <1>0, <1>8 DEF Register, Unregister, ObjectsOK
  <2>2. ObjectsOK'
    BY <1>0, <2>1 DEF ObjectsOK
  <2> QED
    BY <1>0, <2>1, <2>2 DEF APIOK, RunOK, RestOK, Named, Running, Guarded, HeldByTheLiving
<1>9. ASSUME NEW o \in Objects, Collect(o) \/ DeleteObject(o)
      PROVE  /\ ObjectsOK' /\ RunOK' /\ APIOK' /\ RestOK'
             /\ Named' /\ Running' /\ Guarded' /\ HeldByTheLiving'
  <2>1. /\ state[o] = "present" /\ state' = [state EXCEPT ![o] = "deleting"]
        /\ UNCHANGED <<manila, annotation, api, owner, held, registered, next, last, faults>>
    BY <1>9 DEF Collect, DeleteObject
  <2>2. queued' \in BOOLEAN
    BY <1>9 DEF Collect, DeleteObject
  <2>3. edits' \in 0..MaxEdits
    BY <1>0, <1>9 DEF Collect, DeleteObject, RestOK
  <2>4. ObjectsOK'
    BY <1>0, <2>1 DEF ObjectsOK
  <2> QED
    BY <1>0, <2>1, <2>2, <2>3, <2>4 DEF APIOK, RunOK, RestOK, Named, Running, Guarded, HeldByTheLiving
<1>10. ASSUME NEW o \in Objects, Vanish(o)
       PROVE  /\ ObjectsOK' /\ RunOK' /\ APIOK' /\ RestOK'
              /\ Named' /\ Running' /\ Guarded' /\ HeldByTheLiving'
  <2>1. /\ o \notin held \cup registered /\ queued' \in BOOLEAN
        /\ state' = [state EXCEPT ![o] = "absent"] /\ owner' = [owner EXCEPT ![o] = 0]
        /\ UNCHANGED <<manila, annotation, api, held, registered, next, last, edits, faults>>
    BY <1>10 DEF Vanish
  <2>2. \A p \in held \cup registered : state'[p] = state[p] /\ owner'[p] = owner[p]
    BY <1>0, <2>1 DEF ObjectsOK, Keystone
  <2>3. ObjectsOK'
    <3>1. \A p \in Objects : (owner'[p] = 0) = (state'[p] = "absent")
      BY <1>0, <2>1 DEF ObjectsOK
    <3>2. \A p \in held' \cup registered' : state'[p] # "absent"
      BY <1>0, <2>1, <2>2 DEF ObjectsOK
    <3> QED
      BY <1>0, <2>1, <3>1, <3>2 DEF ObjectsOK
  <2> QED
    BY <1>0, <2>1, <2>2, <2>3 DEF APIOK, RunOK, RestOK, Named, Running, Guarded, HeldByTheLiving
<1>11. CASE DeleteAPIByHand \/ CollectAPI
  <2>1. /\ DeleteAPI /\ edits' \in 0..MaxEdits /\ api \in API
        /\ UNCHANGED <<manila, annotation, state, owner, held, registered, next, last, faults>>
    BY <1>0, <1>11 DEF DeleteAPIByHand, CollectAPI, DeleteAPI, RestOK, APIOK, objVars
  <2>2. CASE api.finalizer
    <3>1. api' = [api EXCEPT !.state = "deleting"] /\ queued' = TRUE
      BY <2>1, <2>2 DEF DeleteAPI, API
    <3>2. api' \in API /\ api'.state = "deleting" /\ api'.finalizer /\ api'.uid = api.uid
      BY <2>1, <2>2, <3>1 DEF API
    <3>3. api.uid # 0
      BY <1>0, <2>1 DEF DeleteAPI, Named
    <3> QED
      BY <1>0, <2>1, <3>1, <3>2, <3>3
         DEF APIOK, ObjectsOK, RunOK, RestOK, Named, Running, Guarded, HeldByTheLiving
  <2>3. CASE ~api.finalizer
    <3>1. api' = [api EXCEPT !.state = "absent"] /\ queued' = FALSE
      BY <2>1, <2>3 DEF DeleteAPI, API
    <3>2. api' \in API /\ api'.state = "absent" /\ ~api'.finalizer
      BY <2>1, <2>3, <3>1 DEF API
    <3>3. held = {} /\ last = -1
      BY <1>0, <2>3 DEF Guarded, Running
    <3> QED
      BY <1>0, <2>1, <3>1, <3>2, <3>3
         DEF APIOK, ObjectsOK, RunOK, RestOK, Named, Running, Guarded, HeldByTheLiving
  <2> QED
    BY <2>2, <2>3
<1>12. CASE DeleteManila
  BY <1>0, <1>12 DEF DeleteManila, objVars, runVars, APIOK, ObjectsOK, RunOK, RestOK, Named,
     Running, Guarded, HeldByTheLiving
<1>13. CASE Annotate
  <2>1. PICK v \in Annotations :
          \/ annotation' = v /\ UNCHANGED <<api, queued>>
          \/ api.state = "live" /\ api' = [api EXCEPT !.v1 = v] /\ queued' = TRUE
             /\ UNCHANGED annotation
    BY <1>13 DEF Annotate
  <2>2. /\ UNCHANGED <<manila, state, owner, held, registered, next, last, faults>>
        /\ edits' \in 0..MaxEdits
    BY <1>0, <1>13 DEF Annotate, RestOK, objVars
  <2>3. /\ api' \in API /\ api'.state = api.state /\ api'.finalizer = api.finalizer
        /\ api'.uid = api.uid /\ annotation' \in Annotations /\ queued' \in BOOLEAN
    <3>1. api \in API /\ annotation \in Annotations /\ queued \in BOOLEAN
      BY <1>0 DEF APIOK, RestOK, RunOK
    <3>2. [api EXCEPT !.v1 = v] \in API /\ [api EXCEPT !.v1 = v].state = api.state
          /\ [api EXCEPT !.v1 = v].finalizer = api.finalizer
          /\ [api EXCEPT !.v1 = v].uid = api.uid
      BY <3>1 DEF API
    <3> QED
      BY <2>1, <3>1, <3>2
  <2> QED
    BY <1>0, <2>2, <2>3
       DEF APIOK, ObjectsOK, RunOK, RestOK, Named, Running, Guarded, HeldByTheLiving
<1>14. CASE UNCHANGED vars
  BY <1>0, <1>14 DEF vars, objVars, runVars, APIOK, ObjectsOK, RunOK, RestOK, Named, Running,
     Guarded, HeldByTheLiving
<1> QED
  BY <1>1, <1>2, <1>3, <1>4, <1>5, <1>6, <1>7, <1>8, <1>9, <1>10, <1>11, <1>12, <1>13, <1>14
     DEF Next, External

-----------------------------------------------------------------------------
(* The inductive invariant holds in every reachable state.                 *)
THEOREM Invariance == Spec => []IInv
  BY InitInv, NextInv, PTL DEF Spec

(* The variables keep their types: no object is marked that is not there,  *)
(* and every object has an owner.                                          *)
THEOREM TypeCorrect == Spec => []TypeOK
  BY Invariance, PTL DEF IInv

(* No finalizer of the ManilaAPI controller outlives its ManilaAPI, for    *)
(* any list of services and however often the ManilaAPI is deleted and     *)
(* created anew, with failures in the middle of either.                    *)
THEOREM NoneOrphaned == Spec => []HeldByTheLiving
  BY Invariance, PTL DEF IInv
-----------------------------------------------------------------------------
(***************************************************************************)
(* The catalogue at rest.                                                  *)
(***************************************************************************)

(* The ManilaAPI has ensured the objects before the n-th.                  *)
Ensured(n) ==
  \A o \in Objects : o < n => owner[o] = api.uid /\ (o \in Keystone => o \in held)

(* A ManilaAPI that is not queued: its Reconcile goes through what its     *)
(* annotation asks for now, or has come to the end of that.                *)
Followed ==
  api.state = "live" /\ ~queued =>
    IF last = -1 THEN Ensured(LastFor(api.v1) + 1)
    ELSE last = LastFor(api.v1) /\ Ensured(next)

(* A ManilaAPI that is being deleted stays queued until it is gone.        *)
DeletionQueued == api.state = "deleting" => queued

(* Neither the controller nor the keystone-operator nor the garbage        *)
(* collector has anything to do.                                           *)
AtRest ==
  /\ Idle /\ ~queued
  /\ \A o \in Objects :
       /\ state[o] = "present" => api.state # "absent" /\ owner[o] = api.uid
       /\ state[o] = "present" /\ o \in Keystone =>
            \/ o \in registered
            \/ \E k \in 1..NumServices : o = Endpoint(k) /\ Service(k) \notin registered
       /\ state[o] = "deleting" => o \in held \ registered

(* What the catalogue is like then: as the annotation wants it or, without *)
(* a ManilaAPI, as it was before the first.                                *)
CatalogueComplete ==
  AtRest =>
    /\ api.state = "live" /\ (\A o \in Objects : ~Stuck(o))
         => 1..LastFor(api.v1) \subseteq registered
    /\ api.state # "live"
         => api.state = "absent" /\ registered = {} /\ \A o \in Objects : state[o] = "absent"

(* A Reconcile goes on from an object only when that is ensured, with      *)
(* those before it.                                                        *)
LEMMA EnsureFollows ==
  ASSUME IInv, Followed, Ensure, api.state = "live", ~queued'
  PROVE  Followed'
<1>1. /\ last # -1 /\ api' = api /\ next \in Int
      /\ ObjectsOK /\ next \in Objects
  BY TypeParts DEF Ensure, Idle, IInv, RunOK, Objects
<1>2. Patched(next) /\ ~Changed(next) /\ Continue(next)
  BY DEF Ensure, Stop
<1>3. /\ ~queued
      /\ \/ next = last /\ last' = -1
         \/ next' = next + 1 /\ last' = last
  BY <1>2 DEF Continue, Stop
<1>4. last = LastFor(api.v1) /\ Ensured(next)
  BY <1>1, <1>3 DEF Followed
<1>5. held \subseteq held' /\ \A o \in Objects : o = next \/ owner'[o] = owner[o]
  BY <1>1, <1>2 DEF Patched, ObjectsOK
<1>6. owner'[next] = api.uid /\ (next \in Keystone => next \in held)
  BY <1>1, <1>2 DEF Patched, Changed, ObjectsOK
<1>7. ASSUME NEW o \in Objects, o < next + 1
      PROVE  owner'[o] = api.uid /\ (o \in Keystone => o \in held')
  <2>1. o < next \/ o = next
    BY <1>1, <1>7 DEF Objects
  <2> QED
    BY <1>4, <1>5, <1>6, <2>1 DEF Ensured
<1> QED
  BY <1>1, <1>3, <1>4, <1>7 DEF Followed, Ensured

(* Whatever disturbs an object of a living ManilaAPI queues it.            *)
LEMMA FollowedStep ==
  ASSUME IInv, Followed, [Next]_vars
  PROVE  Followed'
<1> SUFFICES ASSUME api'.state = "live", ~queued' PROVE Followed'
  BY DEF Followed
<1> USE DEF objVars, runVars
<1>1. ~CreateAPI /\ ~InitFault /\ ~ReconcileDelete /\ ~DeleteFault
  <2>1. ~ReconcileDelete
    BY TypeParts DEF ReconcileDelete, IInv, APIOK, API
  <2> QED
    BY <2>1 DEF CreateAPI, InitFault, Stop, DeleteFault, Deletes
<1>2. ~AddFinalizer
  BY DEF AddFinalizer
<1>3. CASE StartInit
  <2>1. \A o \in Objects : ~(o < 0)
    BY DEF Objects
  <2> QED
    BY <1>3, <2>1 DEF StartInit, Followed, Ensured
<1>4. CASE Ensure
  BY <1>4, EnsureFollows DEF Ensure
<1>5. \A o \in Objects : ~External(o) /\ ~DeleteObject(o)
  BY DEF External, Register, Unregister, Collect, Vanish, DeleteObject
<1>6. ~DeleteAPIByHand /\ ~CollectAPI
  BY TypeParts DEF DeleteAPIByHand, CollectAPI, DeleteAPI, IInv, APIOK, API
<1>7. CASE DeleteManila \/ Annotate \/ UNCHANGED vars
  <2>1. UNCHANGED <<api, state, owner, held, next, last, queued>>
    BY <1>7 DEF DeleteManila, Annotate, vars
  <2> QED
    BY <2>1 DEF Followed, Ensured
<1> QED
  BY <1>1, <1>2, <1>3, <1>4, <1>5, <1>6, <1>7 DEF Next

(* Only reconcileDelete takes a ManilaAPI that is being deleted off the    *)
(* queue.                                                                  *)
LEMMA DeletionQueuedStep ==
  ASSUME IInv, DeletionQueued, [Next]_vars
  PROVE  DeletionQueued'
<1> SUFFICES ASSUME api'.state = "deleting" PROVE queued'
  BY DEF DeletionQueued
<1> USE DEF objVars, runVars
<1>0. api \in API
  BY TypeParts DEF IInv, APIOK
<1>1. ~CreateAPI /\ ~AddFinalizer /\ ~StartInit /\ ~ReconcileDelete
  <2>1. ~CreateAPI /\ ~StartInit
    BY DEF CreateAPI, StartInit
  <2>2. ~AddFinalizer /\ ~ReconcileDelete
    BY <1>0 DEF AddFinalizer, ReconcileDelete, API
  <2> QED
    BY <2>1, <2>2
<1>2. CASE Ensure
  <2>1. api.state = "deleting" /\ queued
    BY <1>2 DEF Ensure, DeletionQueued
  <2> QED
    BY <1>2, <2>1 DEF Ensure, Continue, Stop
<1>3. CASE InitFault
  BY <1>3 DEF InitFault, Stop
<1>4. CASE DeleteFault
  BY <1>4 DEF DeleteFault, Deletes
<1>5. ASSUME NEW o \in Objects, External(o) \/ DeleteObject(o) PROVE queued'
  <2>1. api' = api /\ queued' = (api.state # "absent")
    BY <1>5 DEF External, Register, Unregister, Collect, Vanish, DeleteObject
  <2> QED
    BY <2>1
<1>6. CASE DeleteAPIByHand \/ CollectAPI
  <2>1. DeleteAPI
    BY <1>6 DEF DeleteAPIByHand, CollectAPI
  <2>2. api.finalizer
    BY <1>0, <2>1 DEF DeleteAPI, API
  <2> QED
    BY <2>1, <2>2 DEF DeleteAPI
<1>7. CASE DeleteManila \/ UNCHANGED vars
  <2>1. UNCHANGED <<api, queued>>
    BY <1>7 DEF DeleteManila, vars
  <2> QED
    BY <2>1 DEF DeletionQueued
<1>8. CASE Annotate
  <2>1. (queued' = queued /\ api' = api) \/ queued' = TRUE
    BY <1>8 DEF Annotate
  <2> QED
    BY <2>1 DEF DeletionQueued
<1> QED
  BY <1>1, <1>2, <1>3, <1>4, <1>5, <1>6, <1>7, <1>8 DEF Next

(* A ManilaAPI that has ensured its objects finds them in the catalogue,   *)
(* the services before their endpoints.                                    *)
LEMMA EnsuredIsRegistered ==
  ASSUME IInv, Followed, AtRest, api.state = "live", \A o \in Objects : ~Stuck(o)
  PROVE  1..LastFor(api.v1) \subseteq registered
<1>1. /\ ObjectsOK /\ api.uid # 0
      /\ api.v1 \in Annotations /\ Ensured(LastFor(api.v1) + 1)
  BY TypeParts DEF IInv, Named, APIOK, API, AtRest, Idle, Followed
<1>2. /\ LastFor(api.v1) \in Int /\ LastFor(api.v1) <= 2 * NumServices
  BY <1>1, LastForType, Bounds DEF Objects
<1>3. ASSUME NEW o \in 1..LastFor(api.v1)
      PROVE  /\ o \in Objects /\ o \in Keystone /\ state[o] = "present"
             /\ \/ o \in registered
                \/ \E k \in 1..NumServices : o = Endpoint(k) /\ Service(k) \notin registered
  <2>1. o \in Objects /\ o \in Keystone /\ o < LastFor(api.v1) + 1
    BY <1>2, Bounds DEF Objects, Keystone
  <2>2. owner[o] = api.uid /\ o \in held
    BY <1>1, <2>1 DEF Ensured
  <2>3. state[o] # "absent" /\ state[o] \in {"absent", "present", "deleting"}
    BY <1>1, <2>1, <2>2 DEF ObjectsOK
  <2>4. state[o] = "present"
    BY <2>1, <2>2, <2>3 DEF Stuck
  <2> QED
    BY <2>1, <2>4 DEF AtRest
<1>4. ASSUME NEW o \in 1..LastFor(api.v1), o \notin registered PROVE FALSE
  <2>1. PICK k \in 1..NumServices : o = Endpoint(k) /\ Service(k) \notin registered
    BY <1>3, <1>4
  <2>2. Service(k) \in 1..LastFor(api.v1)
    BY <1>2, <2>1, Bounds DEF Service, Endpoint
  <2>3. PICK j \in 1..NumServices : Service(k) = Endpoint(j)
    BY <1>3, <2>1, <2>2
  <2> QED
    BY <2>3, Bounds DEF Service, Endpoint
<1> QED
  BY <1>4

(* At rest the catalogue has exactly what its ManilaAPI wants of it: all   *)
(* services and endpoints of a living one (reconcileInit), also of one     *)
(* that took over what an earlier one left; and no entry nor object of one *)
(* that is gone (reconcileDelete), whatever failed on the way.             *)
THEOREM CatalogueAtRest == Spec => []CatalogueComplete
<1>1. Init => Followed /\ DeletionQueued
  BY DEF Init, Followed, DeletionQueued
<1>2. IInv /\ Followed /\ DeletionQueued => CatalogueComplete
  <2> SUFFICES ASSUME IInv, Followed, DeletionQueued, AtRest, api.state # "live"
               PROVE  /\ api.state = "absent" /\ registered = {}
                      /\ \A o \in Objects : state[o] = "absent"
    BY EnsuredIsRegistered DEF CatalogueComplete
  <2>1. ObjectsOK /\ api \in API /\ api.state = "absent" /\ held = {}
    BY TypeParts DEF IInv, APIOK, API, HeldByTheLiving, DeletionQueued, AtRest
  <2>2. \A o \in Objects : state[o] = "absent"
    BY <2>1 DEF ObjectsOK, AtRest
  <2>3. registered = {}
    BY <2>1, <2>2 DEF ObjectsOK, Keystone
  <2> QED
    BY <2>1, <2>2, <2>3
<1> QED
  BY <1>1, <1>2, Invariance, FollowedStep, DeletionQueuedStep, PTL DEF Spec
=============================================================================
