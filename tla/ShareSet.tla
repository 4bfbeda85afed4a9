------------------------------ MODULE ShareSet ------------------------------
(***************************************************************************)
(* How the set of manila-share services follows Spec.ManilaShares: the     *)
(* Manila controller creates a ManilaShare CR for each share of the spec,  *)
(* shareCleanup deletes the CRs of shares that left it and starts a job    *)
(* that removes their rows from manila's table of services.                *)
(*                                                                         *)
(* The ManilaShare controller's work on credentials is in SecretRotation,  *)
(* on topologies in TopologyClaims; here only what a share's CR and        *)
(* StatefulSet live through matters.  A share is a number: the controllers *)
(* go through the shares, and the API server lists their CRs, by name.     *)
(***************************************************************************)
EXTENDS Integers

CONSTANTS
  NumShares,     \* the names a share can have
  MaxEdits,      \* bound: edits of Spec.ManilaShares
  MaxFaults      \* bound: failed API calls and operator restarts

ASSUME NumSharesAssumption == NumShares \in Nat \ {0}
ASSUME BoundsAssumption == {MaxEdits, MaxFaults} \subseteq Nat

VARIABLES
  inSpec,   \* the keys of Spec.ManilaShares
  counts,   \* the keys of the stored Status.ManilaSharesReadyCounts
  cr,       \* the ManilaShare CR of each share: its life ...
  applied,  \* ... and whether its status reports an AppliedInputSecretHash
  sts,      \* the StatefulSet of each share, and whether its owner still exists
  pods,     \* shares whose pods run
  records,  \* shares with a row in manila's table of services
  jobs,     \* service-cleanup jobs
  lost,     \* history: shares were deleted without a new job for them
  active,   \* Manila controller: a Reconcile is under way
  snap,     \* ... the shares of the spec it works with
  todo,     \* ... those whose CR it has still to create or update
  mem,      \* ... the keys of ManilaSharesReadyCounts in memory
  skipped,  \* history: the last Reconcile could not list the shares
  queue,    \* work queues: 0 for the Manila CR, s for the CR of share s
  edits, faults   \* counters, for the bounds

localVars == <<active, snap, todo, mem, skipped>>
envVars   == <<inSpec, edits, faults>>
svcVars   == <<pods, records>>
jobVars   == <<jobs, lost>>
vars == <<inSpec, counts, cr, applied, sts, pods, records, jobs, lost,
          localVars, queue, edits, faults>>

Shares == 1..NumShares
Manila == 0

(* "new": without finalizer and status; "deleting": with a deletion        *)
(* timestamp, held by its finalizer.                                       *)
Life == {"none", "new", "live", "deleting"}

(* The name of a job is the hash of the list of deleted shares.            *)
Job == [name : SUBSET Shares, done : BOOLEAN]

TypeOK ==
  /\ inSpec \subseteq Shares /\ counts \subseteq Shares
  /\ cr \in [Shares -> Life]
  /\ applied \subseteq Shares
  /\ sts \in [Shares -> {"none", "own", "orphan"}]
  /\ pods \subseteq Shares /\ records \subseteq Shares
  /\ jobs \subseteq Job /\ lost \in BOOLEAN
  /\ active \in BOOLEAN /\ skipped \in BOOLEAN
  /\ snap \subseteq Shares /\ todo \subseteq snap /\ mem \subseteq Shares
  /\ queue \subseteq Shares \cup {Manila}
  /\ edits \in 0..MaxEdits /\ faults \in 0..MaxFaults

Init ==
  /\ inSpec \in SUBSET Shares
  /\ counts = {}
  /\ cr = [s \in Shares |-> "none"] /\ applied = {}
  /\ sts = [s \in Shares |-> "none"] /\ pods = {} /\ records = {}
  /\ jobs = {} /\ lost = FALSE
  /\ active = FALSE /\ snap = {} /\ todo = {} /\ mem = {} /\ skipped = FALSE
  /\ queue = {Manila}
  /\ edits = 0 /\ faults = 0

-----------------------------------------------------------------------------
(***************************************************************************)
(* The Manila controller.  Reconcile works with the spec it read at its    *)
(* start and stores its status when it returns.                            *)
(***************************************************************************)
Start_Counted ==
  /\ ~active /\ Manila \in queue
  /\ active' = TRUE /\ snap' = inSpec /\ todo' = inSpec \cup counts /\ mem' = counts
  /\ skipped' = FALSE
  /\ queue' = queue \ {Manila}
  /\ UNCHANGED <<counts, cr, applied, sts, svcVars, jobVars, envVars>>

Start ==
  /\ ~active /\ Manila \in queue
  /\ active' = TRUE /\ snap' = inSpec /\ todo' = inSpec /\ mem' = counts
  /\ skipped' = FALSE
  /\ queue' = queue \ {Manila}
  /\ UNCHANGED <<counts, cr, applied, sts, svcVars, jobVars, envVars>>

(* The count is mirrored when the CR's status belongs to its current spec  *)
(* and reports the hash of the secrets it names.                           *)
CountsAfter(s) == IF cr[s] = "live" /\ s \in applied THEN mem \cup {s} ELSE mem

DeployShare ==
  /\ active
  /\ \E s \in todo :
     /\ \A t \in todo : s <= t
     /\ todo' = todo \ {s}
     /\ mem' = CountsAfter(s)
     /\ cr' = [cr EXCEPT ![s] = IF @ = "none" THEN "new" ELSE @]
     /\ queue' = IF cr[s] = "none" THEN queue \cup {s, Manila} ELSE queue
  /\ UNCHANGED <<active, snap, skipped, counts, applied, sts, svcVars, jobVars, envVars>>

(* The CRs that shareCleanup deletes, judged by the spec of this Reconcile *)
Dropped_Counted ==
  {s \in mem : cr[s] \in {"new", "live"} /\ s \notin snap}

Dropped == {s \in Shares : cr[s] \in {"new", "live"} /\ s \notin snap}

(* Deleting CRs: one without finalizer is gone at once, the others wait    *)
(* for their controller.                                                   *)
Deleted(D) == [s \in Shares |-> IF s \notin D THEN cr[s]
                                ELSE IF cr[s] = "new" THEN "none" ELSE "deleting"]

(* DoJob: a job that exists under this name is not started again.          *)
DoJob(D) ==
  IF D = {} \/ \E j \in jobs : j.name = D THEN jobs
  ELSE jobs \cup {[name |-> D, done |-> FALSE]}

(* Reconcile returns.  The deferred patch stores the counts if they        *)
(* changed, and its event queues the CR once more; so does that of each CR *)
(* in D.                                                                   *)
Return(newCounts, D, again) ==
  /\ active' = FALSE /\ snap' = {} /\ todo' = {} /\ mem' = {}
  /\ counts' = newCounts
  /\ queue' = queue \cup D \cup
       (IF again \/ D # {} \/ newCounts # counts THEN {Manila} ELSE {})

(* What shareCleanup leaves in the counts.                                 *)
CountsWithout_Kept(D) == mem
CountsWithout(D) == mem \ D

ShareCleanup ==
  /\ active /\ todo = {}
  /\ cr' = Deleted(Dropped)
  /\ jobs' = DoJob(Dropped) /\ lost' = (lost \/ (Dropped # {} /\ jobs' = jobs))
  /\ Return(CountsWithout(Dropped), Dropped, FALSE)
  /\ UNCHANGED <<skipped, applied, sts, svcVars, envVars>>

(* The list of CRs cannot be retrieved: the error is logged, and Reconcile *)
(* goes on as if there were nothing to clean up.                           *)
ListFails ==
  /\ faults < MaxFaults
  /\ active /\ todo = {}
  /\ faults' = faults + 1 /\ skipped' = TRUE
  /\ Return(mem, {}, FALSE)
  /\ UNCHANGED <<cr, applied, sts, svcVars, jobVars, inSpec, edits>>

(* A call of Reconcile fails, or the operator restarts: while it deploys,  *)
(* after some of the deletions, or after all of them with or without the   *)
(* job.  Reconcile is run again; the counts may be lost.                   *)
Fault ==
  /\ active /\ faults < MaxFaults
  /\ faults' = faults + 1
  /\ \E k \in 0..NumShares, started \in BOOLEAN, stored \in BOOLEAN :
       LET D == {s \in Dropped : todo = {} /\ s <= k} IN
       /\ started => todo = {} /\ D = Dropped
       /\ cr' = Deleted(D)
       /\ jobs' = (IF started THEN DoJob(D) ELSE jobs)
       /\ lost' = (lost \/ (D # {} /\ jobs' = jobs))
       /\ Return(IF stored THEN CountsWithout(D) ELSE counts, D, TRUE)
  /\ UNCHANGED <<skipped, applied, sts, svcVars, inSpec, edits>>

-----------------------------------------------------------------------------
(***************************************************************************)
(* The ManilaShare controller.                                             *)
(***************************************************************************)

(* The first Reconcile of a CR puts the finalizer on it and stores a       *)
(* status.                                                                 *)
ShareInit(s) ==
  /\ s \in queue /\ cr[s] = "new"
  /\ cr' = [cr EXCEPT ![s] = "live"]
  /\ queue' = queue \cup {Manila}
  /\ UNCHANGED <<counts, applied, sts, svcVars, jobVars, localVars, envVars>>

(* CreateOrPatch of the StatefulSet also takes over one that an earlier CR *)
(* of the same name left behind.  The hash is reported as applied when the *)
(* pods run.                                                               *)
ShareReconcile(s) ==
  /\ s \in queue /\ cr[s] = "live"
  /\ sts' = [sts EXCEPT ![s] = "own"]
  /\ applied' = IF s \in pods THEN applied \cup {s} ELSE applied
  /\ queue' = (queue \ {s}) \cup (IF applied' = applied THEN {} ELSE {s, Manila})
  /\ UNCHANGED <<counts, cr, svcVars, jobVars, localVars, envVars>>

(* reconcileDelete lets go of the CR; its StatefulSet has lost its owner.  *)
ShareDelete(s) ==
  /\ s \in queue /\ cr[s] = "deleting"
  /\ cr' = [cr EXCEPT ![s] = "none"]
  /\ applied' = applied \ {s}
  /\ sts' = [sts EXCEPT ![s] = IF @ = "own" THEN "orphan" ELSE @]
  /\ queue' = (queue \ {s}) \cup {Manila}
  /\ UNCHANGED <<counts, svcVars, jobVars, localVars, envVars>>

(* The CR is gone by the time its request is worked on.                    *)
ShareGone(s) ==
  /\ s \in queue /\ cr[s] = "none"
  /\ queue' = queue \ {s}
  /\ UNCHANGED <<counts, cr, applied, sts, svcVars, jobVars, localVars, envVars>>

-----------------------------------------------------------------------------
(***************************************************************************)
(* Kubernetes, the pods, and the owner of the Manila CR.                   *)
(***************************************************************************)

(* The garbage collector removes a StatefulSet without owner.              *)
CollectStatefulSet(s) ==
  /\ sts[s] = "orphan"
  /\ sts' = [sts EXCEPT ![s] = "none"]
  /\ UNCHANGED <<inSpec, counts, cr, applied, svcVars, jobVars, localVars, queue, edits, faults>>

(* A share's service starts and registers itself, or stops.                *)
PodsUp(s) ==
  /\ sts[s] = "own" /\ s \notin pods
  /\ pods' = pods \cup {s} /\ records' = records \cup {s}
  /\ queue' = queue \cup {s}
  /\ UNCHANGED <<inSpec, counts, cr, applied, sts, jobVars, localVars, edits, faults>>

PodsDown(s) ==
  /\ sts[s] = "none" /\ s \in pods
  /\ pods' = pods \ {s}
  /\ UNCHANGED <<inSpec, counts, cr, applied, sts, records, jobVars, localVars, queue,
                 edits, faults>>

(* The job waits ManilaServiceCleanupDelay seconds, taken to be enough for *)
(* the pods of the deleted shares to stop, and then removes the rows of    *)
(* all services that are down.                                             *)
RunCleanup_NoDelay(j) ==
  /\ ~j.done
  /\ jobs' = (jobs \ {j}) \cup {[j EXCEPT !.done = TRUE]}
  /\ records' = records \cap pods
  /\ queue' = queue \cup {Manila}
  /\ UNCHANGED <<inSpec, counts, cr, applied, sts, pods, lost, localVars, edits, faults>>

RunCleanup(j) ==
  /\ ~j.done
  /\ \A s \in j.name : cr[s] # "deleting" /\ sts[s] # "orphan" /\ (s \in pods => sts[s] = "own")
  /\ jobs' = (jobs \ {j}) \cup {[j EXCEPT !.done = TRUE]}
  /\ records' = records \cap pods
  /\ queue' = queue \cup {Manila}
  /\ UNCHANGED <<inSpec, counts, cr, applied, sts, pods, lost, localVars, edits, faults>>

(* TTL seconds later the finished job is removed.                          *)
ExpireJob(j) ==
  /\ j.done
  /\ jobs' = jobs \ {j}
  /\ queue' = queue \cup {Manila}
  /\ UNCHANGED <<inSpec, counts, cr, applied, sts, svcVars, lost, localVars, edits, faults>>

EditShares ==
  /\ edits < MaxEdits
  /\ edits' = edits + 1
  /\ inSpec' \in SUBSET Shares \ {inSpec}
  /\ queue' = queue \cup {Manila}
  /\ UNCHANGED <<counts, cr, applied, sts, svcVars, jobVars, localVars, faults>>

-----------------------------------------------------------------------------
ManilaController == Start \/ DeployShare \/ ShareCleanup
ShareController(s) == ShareInit(s) \/ ShareReconcile(s) \/ ShareDelete(s) \/ ShareGone(s)
Kubernetes(s) == CollectStatefulSet(s) \/ PodsDown(s)

Next ==
  \/ ManilaController \/ ListFails \/ Fault \/ EditShares
  \/ \E s \in Shares : ShareController(s) \/ Kubernetes(s) \/ PodsUp(s)
  \/ \E j \in jobs : RunCleanup(j) \/ ExpireJob(j)

Spec == Init /\ [][Next]_vars

(* The controllers work off their queues, Kubernetes and the jobs make     *)
(* progress; nobody has to edit the spec and nothing has to fail.          *)
Fairness ==
  /\ WF_vars(ManilaController)
  /\ \A s \in Shares : WF_vars(ShareController(s)) /\ WF_vars(Kubernetes(s))
                       /\ WF_vars(PodsUp(s))
  /\ \A D \in SUBSET Shares :
       WF_vars(\E j \in jobs : j.name = D /\ (RunCleanup(j) \/ ExpireJob(j)))

FairSpec == Spec /\ Fairness

-----------------------------------------------------------------------------
(* Safety: when nothing is left to do, the counts are those of the shares  *)
(* in the spec.  A share that was removed is not counted for good, also    *)
(* when it was removed from the spec that a Reconcile had already read, or *)
(* added again while it was being deleted (shareCleanup).  Not so if a     *)
(* Reconcile that deleted a share could not store its status.              *)
Settled ==
  /\ ~active /\ queue = {}
  /\ \A s \in Shares : (s \in pods <=> sts[s] = "own") /\ sts[s] # "orphan"

CountsMatch == Settled /\ faults = 0 => counts = inSpec

(* Liveness: shareCleanup deletes what no longer appears in the spec: once *)
(* the spec stays the same, exactly its shares have a CR, a StatefulSet    *)
(* and pods, in spite of errors and restarts, stale specs in a running     *)
(* Reconcile and StatefulSets left by earlier CRs.                         *)
FollowsSpec == /\ inSpec = {s \in Shares : cr[s] = "live"}
               /\ inSpec = {s \in Shares : sts[s] = "own"}
               /\ inSpec = pods

ShareSetConverges == <>[]FollowsSpec

(* Liveness: the only way not to get there is that the last Reconcile      *)
(* could not list the shares.                                              *)
ConvergesUnlessSkipped == <>[](skipped \/ FollowsSpec)

(* Liveness: the rows of removed services do not stay in manila's table    *)
(* of services, provided each deletion got its service-cleanup job: not if *)
(* a failure came between, or the job's name was taken by a finished job.  *)
RecordsCleaned == <>[](skipped \/ lost \/ records = inSpec)
=============================================================================
