--------------------------- MODULE TopologyClaims ---------------------------
(***************************************************************************)
(* How the service controllers hold on to the Topology CRs that spread     *)
(* their pods.  A service puts a finalizer on the Topology its spec        *)
(* refers to and takes it off when it refers to another one or is deleted; *)
(* its status says which one it applied last.  A Topology with a finalizer *)
(* cannot disappear, one that nobody refers to must be free to go.         *)
(*                                                                         *)
(* A Topology is a number, 0 is no reference.  The three kinds of service  *)
(* differ in how they let go when they are deleted.                        *)
(***************************************************************************)
EXTENDS Integers

CONSTANTS
  APIs, Schedulers, Shares,   \* the sub-CRs of each kind
  NumTopologies,              \* how many Topology CRs there can be
  MaxEdits,                   \* bound: edits of the Manila spec
  MaxFaults                   \* bound: failed API calls and operator restarts

Services   == APIs \cup Schedulers \cup Shares
Topologies == 1..NumTopologies
None       == 0

ASSUME KindsAssumption ==
  APIs \cap Schedulers = {} /\ APIs \cap Shares = {} /\ Schedulers \cap Shares = {}
ASSUME BoundsAssumption ==
  {NumTopologies, MaxEdits, MaxFaults} \subseteq Nat

VARIABLES
  wanted,     \* the services the Manila spec asks for
  specRef,    \* the Topology it gives each of them, inherited or its own
  topology,   \* the Topology CRs: "absent", "present" or "terminating"
  holders,    \* the finalizers on each Topology
  life,       \* the sub-CRs; "new" ones have neither finalizer nor status
  ref,        \* ... their Spec.TopologyRef
  applied,    \* ... their Status.LastAppliedTopology
  queue,      \* work queues of the service controllers
  hasty,      \* history: an edit did not wait until the last one settled
  edits, faults   \* counters, for the bounds

specVars == <<wanted, specRef, hasty>>
vars == <<specVars, topology, holders, life, ref, applied, queue, edits, faults>>

Refs == {None} \cup Topologies

(* A finalizer is made from the service and the name that was passed: the  *)
(* name of the CR or, only when ManilaShare's are removed, of the share.   *)
Finalizer == Services \X {"crName"}

TypeOK ==
  /\ wanted \subseteq Services /\ specRef \in [Services -> Refs] /\ hasty \in BOOLEAN
  /\ topology \in [Topologies -> {"absent", "present", "terminating"}]
  /\ holders \in [Topologies -> SUBSET Finalizer]
  /\ life \in [Services -> {"none", "new", "live", "deleting"}]
  /\ ref \in [Services -> Refs] /\ applied \in [Services -> Refs]
  /\ queue \subseteq Services
  /\ edits \in 0..MaxEdits /\ faults \in 0..MaxFaults

Init ==
  /\ wanted \in SUBSET Services /\ specRef \in [Services -> Refs] /\ hasty = FALSE
  /\ topology \in [Topologies -> {"absent", "present"}]
  /\ holders = [t \in Topologies |-> {}]
  /\ life = [s \in Services |-> "none"]
  /\ ref = [s \in Services |-> None] /\ applied = [s \in Services |-> None]
  /\ queue = {}
  /\ edits = 0 /\ faults = 0

-----------------------------------------------------------------------------
(***************************************************************************)
(* The Manila controller and the garbage collector.                        *)
(***************************************************************************)

(* CreateOrUpdate of a sub-CR, also of one that is being deleted.          *)
Deploy(s) ==
  /\ s \in wanted /\ (life[s] = "none" \/ ref[s] # specRef[s])
  /\ life' = [life EXCEPT ![s] = IF @ = "none" THEN "new" ELSE @]
  /\ ref' = [ref EXCEPT ![s] = specRef[s]]
  /\ queue' = queue \cup {s}
  /\ UNCHANGED <<specVars, topology, holders, applied, edits, faults>>

(* A share left the spec, or the Manila CR is gone.                        *)
Remove(s) ==
  /\ s \notin wanted /\ life[s] \in {"new", "live"}
  /\ life' = [life EXCEPT ![s] = IF @ = "new" THEN "none" ELSE "deleting"]
  /\ queue' = queue \cup {s}
  /\ UNCHANGED <<specVars, topology, holders, ref, applied, edits, faults>>

-----------------------------------------------------------------------------
(***************************************************************************)
(* The service controllers.                                                *)
(***************************************************************************)

(* The name under which reconcileDelete looks for the service's finalizer. *)
NameOnDelete(s) == IF s \in Shares THEN "shareName" ELSE "crName"

(* holders after s put a finalizer on t, or took one off.                  *)
Claimed_OwnName(h, t, s) ==
  [u \in Topologies |-> IF u = t THEN h[u] \cup {<<t, "crName">>} ELSE h[u]]

Claimed(h, t, s) ==
  [u \in Topologies |-> IF u = t THEN h[u] \cup {<<s, "crName">>} ELSE h[u]]
Released(h, t, f) == [u \in Topologies |-> IF u = t THEN h[u] \ {f} ELSE h[u]]

(* Writing finalizers: a Topology that only waited for the last of them is *)
(* gone.                                                                   *)
SetHolders(h) ==
  /\ holders' = h
  /\ topology' = [t \in Topologies |->
       IF topology[t] = "terminating" /\ h[t] = {} THEN "absent" ELSE topology[t]]

(* ensureTopology first lets go of the Topology applied before, if the     *)
(* spec refers to another one now ...                                      *)
LetGo(s) ==
  IF applied[s] = ref[s] THEN holders
  ELSE Released(holders, applied[s], <<s, "crName">>)

(* ... and then claims the one it refers to, which has to exist.  The API  *)
(* server accepts no new finalizer on an object that is being deleted.     *)
Claimable(s) ==
  {t \in Topologies : \/ topology[t] = "present"
                      \/ topology[t] = "terminating" /\ <<s, "crName">> \in holders[t]}

CanClaim(s) == ref[s] \in {None} \cup Claimable(s)

HoldersAfter_WhenChanged(s) ==
  IF ref[s] = applied[s] THEN holders ELSE Claimed(LetGo(s), ref[s], s)

HoldersAfter(s) == Claimed(LetGo(s), ref[s], s)

(* The first Reconcile of a sub-CR stores its finalizer and a status.      *)
ServiceInit(s) ==
  /\ s \in queue /\ life[s] = "new"
  /\ life' = [life EXCEPT ![s] = "live"]
  /\ UNCHANGED <<specVars, topology, holders, ref, applied, queue, edits, faults>>

ServiceReconcile(s) ==
  /\ s \in queue /\ life[s] = "live" /\ CanClaim(s)
  /\ SetHolders(HoldersAfter(s))
  /\ applied' = [applied EXCEPT ![s] = ref[s]]
  /\ queue' = queue \ {s}
  /\ UNCHANGED <<specVars, life, ref, edits, faults>>

(* Without the Topology Reconcile fails, and is tried again.               *)
MissingTopology_ClaimFirst(s) ==
  /\ s \in queue /\ life[s] = "live" /\ ~CanClaim(s)
  /\ UNCHANGED vars

MissingTopology(s) ==
  /\ s \in queue /\ life[s] = "live" /\ ~CanClaim(s)
  /\ SetHolders(LetGo(s))
  /\ UNCHANGED <<specVars, life, ref, applied, queue, edits, faults>>

(* A Reconcile fails or the operator restarts after the release or after   *)
(* the claim; then the status may be lost.                                 *)
ReconcileFault(s) ==
  /\ faults < MaxFaults
  /\ s \in queue /\ life[s] = "live"
  /\ faults' = faults + 1
  /\ \/ SetHolders(LetGo(s)) /\ UNCHANGED applied
     \/ /\ CanClaim(s)
        /\ SetHolders(HoldersAfter(s))
        /\ applied' \in {applied, [applied EXCEPT ![s] = ref[s]]}
  /\ UNCHANGED <<specVars, life, ref, queue, edits>>

HoldersAfterDelete(s) == Released(holders, applied[s], <<s, NameOnDelete(s)>>)

Forget(s) ==
  /\ life' = [life EXCEPT ![s] = "none"]
  /\ ref' = [ref EXCEPT ![s] = None] /\ applied' = [applied EXCEPT ![s] = None]

ServiceDelete(s) ==
  /\ s \in queue /\ life[s] = "deleting"
  /\ SetHolders(HoldersAfterDelete(s))
  /\ Forget(s)
  /\ queue' = queue \ {s}
  /\ UNCHANGED <<specVars, edits, faults>>

(* reconcileDelete fails half-way.  The API's lets go of the Topology      *)
(* before it gives up the CR; the others remove the CR's finalizer first,  *)
(* which the deferred patch stores also when the Topology could not be     *)
(* updated.                                                                *)
DeleteFault_CRFirst(s) ==
  /\ faults < MaxFaults
  /\ s \in queue /\ life[s] = "deleting"
  /\ faults' = faults + 1
  /\ Forget(s) /\ queue' = queue \ {s}
  /\ UNCHANGED <<specVars, topology, holders, edits>>

DeleteFault(s) ==
  /\ faults < MaxFaults
  /\ s \in queue /\ life[s] = "deleting"
  /\ faults' = faults + 1
  /\ IF s \in APIs
     THEN /\ SetHolders(HoldersAfterDelete(s))
          /\ UNCHANGED <<life, ref, applied, queue>>
     ELSE /\ Forget(s) /\ queue' = queue \ {s}
          /\ UNCHANGED <<topology, holders>>
  /\ UNCHANGED <<specVars, edits>>

ServiceGone(s) ==
  /\ s \in queue /\ life[s] = "none"
  /\ queue' = queue \ {s}
  /\ UNCHANGED <<specVars, topology, holders, life, ref, applied, edits, faults>>

-----------------------------------------------------------------------------
(***************************************************************************)
(* The owners of the Manila CR and of the Topologies.                      *)
(***************************************************************************)
AtRest ==
  /\ queue = {}
  /\ \A s \in Services : IF s \in wanted THEN life[s] = "live" /\ ref[s] = specRef[s]
                         ELSE life[s] = "none"

EditSpec ==
  /\ edits < MaxEdits
  /\ edits' = edits + 1 /\ hasty' = (hasty \/ ~AtRest)
  /\ wanted' \in SUBSET Services /\ specRef' \in [Services -> Refs]
  /\ <<wanted, specRef>>' # <<wanted, specRef>>
  /\ UNCHANGED <<topology, holders, life, ref, applied, queue, faults>>

(* A change of a Topology queues the services that refer to it.            *)
Users(t) == {s \in Services : life[s] # "none" /\ ref[s] = t}

CreateTopology(t) ==
  /\ topology[t] = "absent"
  /\ topology' = [topology EXCEPT ![t] = "present"]
  /\ queue' = queue \cup Users(t)
  /\ UNCHANGED <<specVars, holders, life, ref, applied, edits, faults>>

DeleteTopology(t) ==
  /\ topology[t] = "present"
  /\ topology' = [topology EXCEPT ![t] = IF holders[t] = {} THEN "absent" ELSE "terminating"]
  /\ queue' = queue \cup Users(t)
  /\ UNCHANGED <<specVars, holders, life, ref, applied, edits, faults>>

-----------------------------------------------------------------------------
ManilaController(s) == Deploy(s) \/ Remove(s)
ServiceController(s) ==
  \/ ServiceInit(s) \/ ServiceReconcile(s) \/ MissingTopology(s)
  \/ ServiceDelete(s) \/ ServiceGone(s)

Next ==
  \/ EditSpec
  \/ \E s \in Services : \/ ManilaController(s) \/ ServiceController(s)
                         \/ ReconcileFault(s) \/ DeleteFault(s)
  \/ \E t \in Topologies : CreateTopology(t) \/ DeleteTopology(t)

Spec == Init /\ [][Next]_vars

(* The controllers work off what is queued; nobody has to edit a spec or   *)
(* create or delete a Topology, and nothing has to fail.                   *)
FairSpec == /\ Spec
            /\ \A s \in Services : WF_vars(ManilaController(s))
                                   /\ WF_vars(ServiceController(s))

-----------------------------------------------------------------------------
(* Safety: a Topology that a service has applied, with nothing left to do  *)
(* for it, carries the service's finalizer and exists (ensureTopology).    *)
(* Edits, a Topology that is missing for a while, and failures between the *)
(* release of one Topology and the claim of the next must not undo this.   *)
AppliedIsHeld ==
  \A s \in Services : \A t \in Topologies :
    life[s] = "live" /\ applied[s] = t /\ s \notin queue
      => <<s, "crName">> \in holders[t] /\ topology[t] # "absent"

(* The services that may leave a finalizer behind: those whose deletion    *)
(* may have been cut short, and all of them when a failure came together   *)
(* with an edit that did not wait for the repeated Reconcile.              *)
Excused(s) == faults > 0 /\ (hasty \/ s \notin APIs)

(* Safety: when everything has come to rest, a Topology carries finalizers *)
(* of those services only that refer to it (manilashare_controller.go:347  *)
(* "Remove finalizer on the Topology CR"): whatever edits overtake one     *)
(* another, and for ManilaAPI also when calls fail.                        *)
NoneLeftBehind ==
  AtRest => \A t \in Topologies : \A h \in holders[t] :
              Excused(h[1]) \/ (h[1] \in wanted /\ specRef[h[1]] = t)

(* Liveness: a Topology that is being deleted is released by all services  *)
(* that do not refer to it, also by those that wait for another Topology,  *)
(* so that in the end it is held up only by services that refer to it.     *)
UnusedTopologiesGo ==
  <>[] \A t \in Topologies :
         topology[t] = "terminating" =>
           \E s \in Services :
             \/ s \in wanted /\ specRef[s] = t
             \/ Excused(s) /\ <<s, "crName">> \in holders[t]
=============================================================================
