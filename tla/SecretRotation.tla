--------------------------- MODULE SecretRotation ---------------------------
(***************************************************************************)
(* How the operator rolls a rotated credential out to the manila services  *)
(* and when it lets go of the old one.                                     *)
(*                                                                         *)
(* The credentials pass through the Manila controller and the controllers  *)
(* of its sub-CRs ManilaAPI, ManilaScheduler and ManilaShare; outside the  *)
(* repository are the RabbitMQ operator that issues them, the owner of the *)
(* Manila spec and the kubelets that run the pods.  The Manila controller  *)
(* puts a consumer finalizer on each secret it consumes; a secret that     *)
(* carries none may be revoked by its owner at any moment.                 *)
(*                                                                         *)
(* A secret is a number, in the order in which its owner issues them; 0 is *)
(* the empty name and Nil a nil pointer or an object that does not exist.  *)
(* Services are numbered in the order the Manila controller deploys them:  *)
(* 1 is manila-api, 2 manila-scheduler, the others the shares by name.     *)
(***************************************************************************)
EXTENDS Integers

CONSTANTS
  NumServices,    \* how many sub-CRs the Manila spec asks for
  MaxTransport,   \* bound: messaging secrets the RabbitMQ operator issues
  MaxNotif,       \* bound: notification secrets it issues
  MaxAC,          \* bound: application credential secrets
  MaxEdits,       \* bound: edits of the Manila spec
  MaxFaults,      \* bound: failed API calls and operator restarts
  MaxOutages,     \* bound: times a dependency (database, memcached...) is lost
  Deletable,      \* TRUE: the Manila CR may be deleted
  Patient         \* TRUE: credentials change only when the last change settled

ASSUME NumServicesAssumption == NumServices \in Nat \ {0}
ASSUME BoundsAssumption ==
  /\ {MaxTransport, MaxNotif, MaxAC, MaxEdits, MaxFaults, MaxOutages} \subseteq Nat
  /\ Patient \in BOOLEAN /\ Deletable \in BOOLEAN

VARIABLES
  life,       \* the Manila CR: "live", "deleting" or "gone"
  turl,       \* messaging TransportURL: Nil, or its Status.SecretName
  nturl,      \* notifications TransportURL: Nil, or its Status.SecretName
  notifOn,    \* Manila spec: a notifications bus is configured
  acSpec,     \* Manila spec: Auth.ApplicationCredentialSecret
  deps,       \* memcached, the service password and the database are ready
  tfin,       \* messaging secrets that carry TransportConsumerFinalizer
  nfin,       \* notification secrets that carry TransportConsumerFinalizer
  afin,       \* secrets that carry ACConsumerFinalizer
  status,     \* Manila status, as stored in the API server
  config,     \* the secrets the stored <manila>-config-data was rendered from
  cr,         \* the sub-CRs: the spec fields and the status the parent reads
  svcConfig,  \* what the stored <service>-config-data was rendered from
  template,   \* the CONFIG_HASH in the pod template of each StatefulSet
  pods,       \* the running pods of each service
  cursor,     \* Manila controller: 0 idle, else the service it deploys next
  mem,        \* ... the status it has in memory
  snap,       \* ... the names it read at the start of Reconcile
  allReady,   \* ... allServicesReady
  queue,      \* work queues: 0 for the Manila CR, s for the CR of service s
  edits, faults, outages   \* counters, for the bounds

specVars  == <<life, turl, nturl, notifOn, acSpec, deps>>
finVars   == <<tfin, nfin, afin>>
localVars == <<cursor, mem, snap, allReady>>
svcVars   == <<cr, svcConfig, template>>
counters  == <<edits, faults, outages>>
vars == <<specVars, finVars, status, config, svcVars, pods, localVars, queue, counters>>

Services == 1..NumServices
Manila   == 0
Nil      == -1

(***************************************************************************)
(* The credentials a manila.conf is rendered from, and the inputs whose    *)
(* hash a service controller stores: the secrets its CR names and the      *)
(* config it copied from its parent.  A hash is modelled by what it is of. *)
(***************************************************************************)
Inputs   == [transport : Nat, notif : Nat, ac : Nat]
NoInputs == [transport |-> 0, notif |-> 0, ac |-> 0]

Hash   == [transport : Nat, notif : Nat, config : Inputs]
NoHash == [transport |-> 0, notif |-> 0, config |-> NoInputs]

ManilaStatus == [known : BOOLEAN, transport : Nat, notif : Nat \cup {Nil}, ac : Nat,
                 hash : Inputs]
SubCR == [transport : Nat, notif : Nat, gen : Nat, obs : Nat,
          appliedT : Nat, appliedN : Nat, ready : BOOLEAN, hash : Hash]
NoSubCR == [transport |-> 0, notif |-> 0, gen |-> 0, obs |-> 0,
            appliedT |-> 0, appliedN |-> 0, ready |-> FALSE, hash |-> NoHash]
Pod   == [hash : Hash, config : Inputs]

FlagsOK ==
  /\ notifOn \in BOOLEAN /\ deps \in BOOLEAN /\ allReady \in BOOLEAN
  /\ life \in {"live", "deleting", "gone"}

TypeOK ==
  /\ FlagsOK
  /\ turl \in Nat \cup {Nil} /\ nturl \in Nat \cup {Nil} /\ acSpec \in Nat
  /\ tfin \subseteq Nat \ {0} /\ nfin \subseteq Nat \ {0} /\ afin \subseteq Nat \ {0}
  /\ status \in ManilaStatus
  /\ config \in Inputs
  /\ cr \in [Services -> SubCR]
  /\ svcConfig \in [Services -> Inputs]
  /\ template \in [Services -> Hash]
  /\ pods \in [Services -> SUBSET Pod]
  /\ cursor \in 0..(NumServices + 1)
  /\ mem \in ManilaStatus /\ snap \in Inputs
  /\ queue \subseteq Services \cup {Manila}
  /\ edits \in Nat /\ faults \in Nat /\ outages \in Nat

(* A Manila CR has just been created; nothing else exists yet.             *)
Init ==
  /\ life = "live"
  /\ turl = Nil /\ nturl = Nil
  /\ notifOn \in (IF MaxNotif > 0 THEN BOOLEAN ELSE {FALSE}) /\ acSpec \in {0, 1} \cap 0..MaxAC
  /\ deps = TRUE
  /\ tfin = {} /\ nfin = {} /\ afin = {}
  /\ status = [known |-> FALSE, transport |-> 0, notif |-> Nil, ac |-> 0,
               hash |-> NoInputs]
  /\ config = NoInputs
  /\ cr = [s \in Services |-> NoSubCR]
  /\ svcConfig = [s \in Services |-> NoInputs]
  /\ template = [s \in Services |-> NoHash]
  /\ pods = [s \in Services |-> {}]
  /\ cursor = 0 /\ mem = status /\ snap = NoInputs /\ allReady = FALSE
  /\ queue = {Manila}
  /\ edits = 0 /\ faults = 0 /\ outages = 0

-----------------------------------------------------------------------------
(* Everything the last change set off has come to rest.                    *)
Settled ==
  /\ cursor = 0 /\ queue = {}
  /\ \A s \in Services : pods[s] # {} /\ \A p \in pods[s] : p.hash = template[s]

MayChange == Patient => Settled

(* A set that depends on a condition.                                      *)
When(condition, set) == IF condition THEN set ELSE {}

(* The sub-CRs that exist.                                                 *)
Existing == {s \in Services : cr[s].gen > 0}

(***************************************************************************)
(* The environment.                                                        *)
(***************************************************************************)

(* The RabbitMQ operator publishes the first messaging secret, or rotates  *)
(* to a new one.  Every rotation has a new name.                           *)
PublishTransport ==
  /\ turl # Nil
  /\ turl > 0 => MayChange
  /\ turl' \in (turl + 1)..MaxTransport
  /\ queue' = queue \cup {Manila}
  /\ UNCHANGED <<life, nturl, notifOn, acSpec, deps, finVars, status, config, svcVars,
                 pods, localVars, counters>>

(* The same for the notifications TransportURL; one that is created again  *)
(* starts over and may be given a name it had before.                      *)
PublishNotifications ==
  /\ nturl # Nil
  /\ nturl > 0 => MayChange
  /\ nturl' \in (nturl + 1)..MaxNotif
  /\ queue' = queue \cup {Manila}
  /\ UNCHANGED <<life, turl, notifOn, acSpec, deps, finVars, status, config, svcVars,
                 pods, localVars, counters>>

(* The owner of the Manila CR switches the notifications bus on or off, or *)
(* names another application credential secret, or none.                   *)
EditSpec ==
  /\ edits < MaxEdits /\ edits' = edits + 1
  /\ life # "gone" /\ MayChange
  /\ \/ MaxNotif > 0 /\ notifOn' = ~notifOn /\ UNCHANGED acSpec
     \/ acSpec' \in 0..MaxAC \ {acSpec} /\ UNCHANGED notifOn
  /\ queue' = queue \cup {Manila}
  /\ UNCHANGED <<life, turl, nturl, deps, finVars, status, config, svcVars, pods, localVars,
                 faults, outages>>

(* The Manila CR is deleted.  One that has no finalizer yet is gone at     *)
(* once.                                                                   *)
DeleteManila ==
  /\ Deletable /\ life = "live"
  /\ life' = IF status.known THEN "deleting" ELSE "gone"
  /\ queue' = queue \cup {Manila}
  /\ UNCHANGED <<turl, nturl, notifOn, acSpec, deps, finVars, status, config, svcVars,
                 pods, localVars, counters>>

DependencyLost ==
  /\ deps /\ outages < MaxOutages
  /\ deps' = FALSE /\ outages' = outages + 1
  /\ queue' = queue \cup {Manila}
  /\ UNCHANGED <<life, turl, nturl, notifOn, acSpec, finVars, status, config, svcVars, pods,
                 localVars, edits, faults>>

DependencyReady ==
  /\ ~deps /\ deps' = TRUE
  /\ queue' = queue \cup {Manila}
  /\ UNCHANGED <<life, turl, nturl, notifOn, acSpec, finVars, status, config, svcVars, pods,
                 localVars, counters>>

(***************************************************************************)
(* The Manila controller.  Reconcile is cut where another actor can make a *)
(* difference: the part up to the deployment of the services, one part per *)
(* service, and the part after them.  Every return passes the deferred     *)
(* PatchInstance, which stores the status Reconcile has in memory.         *)
(***************************************************************************)

(* Reconcile begins, for a CR that is not being deleted.                   *)
Starts == life = "live" /\ cursor = 0 /\ Manila \in queue

Return(newStatus) ==
  /\ status' = newStatus /\ mem' = newStatus
  /\ cursor' = 0 /\ snap' = NoInputs /\ allReady' = FALSE

(* First Reconcile of a new CR: add the finalizer, store the conditions.   *)
ManilaInit ==
  /\ Starts /\ ~status.known
  /\ Return([status EXCEPT !.known = TRUE])
  /\ UNCHANGED <<specVars, finVars, config, svcVars, pods, queue, counters>>

(* Create the messaging TransportURL, then poll until it names a secret.   *)
RequestTransport ==
  /\ Starts /\ status.known
  /\ turl = Nil /\ turl' = 0
  /\ UNCHANGED <<life, nturl, notifOn, acSpec, deps, finVars, status, config, svcVars,
                 pods, localVars, queue, counters>>

(* The names this Reconcile works with, and the status it works on: a      *)
(* first messaging secret is recorded at once.  (An operator whose name    *)
(* has a suffix, X_Y, is X with a plausible mistake in it; the mutation    *)
(* tests of the properties put it in X's place.)                           *)
Desired_NotifUnguarded == [transport |-> turl, notif |-> nturl, ac |-> acSpec]

Desired ==
  [transport |-> turl, notif |-> IF notifOn THEN nturl ELSE 0, ac |-> acSpec]

EarlyStatus ==
  [status EXCEPT !.transport = IF @ = 0 THEN turl ELSE @,
                 !.notif     = IF notifOn /\ @ = Nil THEN 0 ELSE @]

(* Claim the messaging secret, create the notifications TransportURL and   *)
(* poll until it names a secret.                                           *)
RequestNotifications ==
  /\ Starts /\ status.known
  /\ turl > 0 /\ notifOn /\ nturl \in {Nil, 0}
  /\ nturl' = 0
  /\ tfin' = tfin \cup {turl}
  /\ Return(EarlyStatus)
  /\ UNCHANGED <<life, turl, notifOn, acSpec, deps, nfin, afin, config, svcVars, pods, queue,
                 counters>>

ClaimTransport_FirstOnly ==
  /\ Starts /\ status.known
  /\ turl > 0 /\ (notifOn => nturl > 0)
  /\ tfin' = tfin \cup When(status.transport = 0, {turl})
  /\ nfin' = nfin \cup When(notifOn, {nturl})

(* Claim the secrets of the TransportURLs, before they are used.           *)
ClaimTransport ==
  /\ Starts /\ status.known
  /\ turl > 0 /\ (notifOn => nturl > 0)
  /\ tfin' = tfin \cup {turl}
  /\ nfin' = nfin \cup When(notifOn, {nturl})

(* memcached, the password secret or the database is not ready: requeue.   *)
WaitForDependency ==
  /\ ClaimTransport
  /\ ~deps
  /\ Return(EarlyStatus)
  /\ UNCHANGED <<specVars, afin, config, svcVars, pods, queue, counters>>

(* Render the config-data.  Its hash differs from the stored one: store it *)
(* and return; the status update queues the next Reconcile, the new        *)
(* config-data the service controllers that watch it.                      *)
PublishConfig ==
  /\ ClaimTransport
  /\ deps /\ status.hash # Desired
  /\ config' = Desired
  /\ Return([EarlyStatus EXCEPT !.hash = Desired])
  /\ queue' = queue \cup When(config' # config, Existing)
  /\ UNCHANGED <<specVars, afin, svcVars, pods, counters>>

(* The hash is the stored one: claim the application credential, go on.    *)
ClaimAC ==
  /\ ClaimTransport
  /\ deps /\ status.hash = Desired
  /\ config' = Desired
  /\ afin' = afin \cup When(acSpec # 0, {acSpec})
  /\ mem' = EarlyStatus /\ snap' = Desired
  /\ cursor' = 1 /\ allReady' = TRUE
  /\ queue' = (queue \ {Manila}) \cup When(config' # config, Existing)
  /\ UNCHANGED <<specVars, status, svcVars, pods, counters>>

Observed_ConditionsOnly(c) == c.gen = c.obs /\ c.ready

(* A sub-CR has processed its spec and its pods run with these secrets.    *)
Observed(c) ==
  /\ c.gen = c.obs
  /\ c.appliedT = snap.transport /\ c.appliedN = snap.notif
  /\ c.ready

(* CreateOrUpdate the next sub-CR and look at what its status says.        *)
DeployService ==
  /\ cursor \in Services
  /\ LET s   == cursor
         old == cr[s]
         upd == old.gen = 0 \/ old.transport # snap.transport \/ old.notif # snap.notif
         new == IF upd
                THEN [old EXCEPT !.transport = snap.transport, !.notif = snap.notif,
                                 !.gen = @ + 1]
                ELSE old
     IN  /\ cr' = [cr EXCEPT ![s] = new]
         /\ allReady' = (allReady /\ Observed(new))
         /\ queue' = queue \cup When(upd, {Manila, s})
  /\ cursor' = cursor + 1
  /\ UNCHANGED <<specVars, finVars, status, config, svcConfig, template, pods,
                 mem, snap, counters>>

(***************************************************************************)
(* lib-common's FinalizeSecretRotation: once the rollout is complete it    *)
(* takes the finalizer off the old secret and returns the current one;     *)
(* until then it returns the old one, if there is one.                     *)
(***************************************************************************)
Tracked(old, current)  == IF allReady \/ old = 0 THEN current ELSE old
Released(old, current) == IF allReady /\ old # current THEN {old} ELSE {}

TearDown_Eager == snap.notif = 0 /\ mem.notif > 0

(* A disabled notifications bus is torn down once nothing uses it.         *)
TearDown == snap.notif = 0 /\ mem.notif > 0 /\ allReady

TrackedNotif_Kept == IF snap.notif # 0 THEN Tracked(mem.notif, snap.notif) ELSE mem.notif

TrackedNotif ==
  IF snap.notif # 0 THEN Tracked(mem.notif, snap.notif)
  ELSE IF TearDown THEN Nil ELSE mem.notif

ReleasedNotif ==
  IF snap.notif # 0 THEN Released(mem.notif, snap.notif)
  ELSE IF TearDown THEN {mem.notif} ELSE {}

(* The first of four steps is about the messaging secret, the second and   *)
(* third about that of the notifications, and the last about the           *)
(* application credential.  To tear down takes two calls, so that the      *)
(* secret may be released and its TransportURL still be there.             *)
NotifDone(n) == n >= 3 \/ (n = 2 /\ ~TearDown)

StatusAfter_Forgotten(n) ==
  [mem EXCEPT !.notif = IF NotifDone(n) THEN TrackedNotif ELSE @,
              !.ac    = IF n >= 4 THEN Tracked(@, snap.ac) ELSE @]

StatusAfter_NonEmpty(n) ==
  [mem EXCEPT !.transport = IF n >= 1 THEN Tracked(@, snap.transport) ELSE @,
              !.notif     = IF NotifDone(n) THEN TrackedNotif ELSE @,
              !.ac        = IF n >= 4 /\ snap.ac # 0 THEN Tracked(@, snap.ac) ELSE @]

(* The status after the first n of the four steps of the finalizations.    *)
StatusAfter(n) ==
  [mem EXCEPT !.transport = IF n >= 1 THEN Tracked(@, snap.transport) ELSE @,
              !.notif     = IF NotifDone(n) THEN TrackedNotif ELSE @,
              !.ac        = IF n >= 4 THEN Tracked(@, snap.ac) ELSE @]

(* PruneSecretConsumerFinalizers: only the secrets to keep stay claimed.   *)
Pruned(pruning, claimed, keep) == IF pruning THEN claimed \cap keep ELSE claimed

(* The finalizers after the first n of the four steps and, fifth and       *)
(* sixth, the pruning of every secret but the tracked and current ones.    *)
Finalize(n) ==
  LET kept == StatusAfter(4)
  IN  /\ tfin' = Pruned(n >= 5, tfin \ When(n >= 1, Released(mem.transport, snap.transport)),
                        {kept.transport, snap.transport})
      /\ nfin' = Pruned(n >= 5, nfin \ When(n >= 2, ReleasedNotif),
                        {kept.notif, snap.notif})
      /\ afin' = Pruned(n >= 6, afin \ When(n >= 4, Released(mem.ac, snap.ac)),
                        {kept.ac, snap.ac})
      /\ nturl' = IF n >= 3 /\ TearDown THEN Nil ELSE nturl

FinishReconcile_NoPrune ==
  /\ cursor = NumServices + 1
  /\ Finalize(4)
  /\ Return(StatusAfter(4))
  /\ queue' = queue \cup When(status' # status \/ nturl' # nturl, {Manila})
  /\ UNCHANGED <<life, turl, notifOn, acSpec, deps, config, svcVars, pods, counters>>

(* The rest of Reconcile once every service was deployed.                  *)
FinishReconcile ==
  /\ cursor = NumServices + 1
  /\ Finalize(6)
  /\ Return(StatusAfter(4))
  /\ queue' = queue \cup When(status' # status \/ nturl' # nturl, {Manila})
  /\ UNCHANGED <<life, turl, notifOn, acSpec, deps, config, svcVars, pods, counters>>

(***************************************************************************)
(* reconcileDelete: take the finalizers off the messaging and notification *)
(* secrets that the status and the TransportURLs name, then off the        *)
(* application credentials that the status and the spec name, then off     *)
(* every other transport secret and every other application credential.    *)
(* (The database it lets go of first is in the module Database.)           *)
(***************************************************************************)
ReleaseForDelete_NoPrune(n) ==
  /\ tfin' = tfin \ When(n >= 1, {status.transport, turl})
  /\ nfin' = nfin \ When(n >= 1, {status.notif, nturl})
  /\ afin' = afin \ When(n >= 2, {status.ac, acSpec})

ReleaseForDelete(n) ==
  /\ tfin' = When(n < 3, tfin \ When(n >= 1, {status.transport, turl}))
  /\ nfin' = When(n < 3, nfin \ When(n >= 1, {status.notif, nturl}))
  /\ afin' = When(n < 4, afin \ When(n >= 2, {status.ac, acSpec}))

ReconcileDelete ==
  /\ life = "deleting" /\ cursor = 0 /\ Manila \in queue
  /\ ReleaseForDelete(4)
  /\ life' = "gone" /\ queue' = queue \ {Manila}
  /\ UNCHANGED <<turl, nturl, notifOn, acSpec, deps, status, config, svcVars, pods,
                 localVars, counters>>

(* A call fails or the operator dies half-way: the CR keeps its finalizer. *)
DeleteFault ==
  /\ life = "deleting" /\ cursor = 0 /\ Manila \in queue
  /\ faults < MaxFaults /\ faults' = faults + 1
  /\ \E n \in 1..3 : ReleaseForDelete(n)
  /\ UNCHANGED <<specVars, status, config, svcVars, pods, localVars, queue, edits,
                 outages>>

(* The CR is gone by the time its request is worked on.                    *)
ManilaGone ==
  /\ life = "gone" /\ Manila \in queue
  /\ queue' = queue \ {Manila}
  /\ UNCHANGED <<specVars, finVars, status, config, svcVars, pods, localVars, counters>>

(* The garbage collector removes what the CR owned: the TransportURLs, the *)
(* config-data and the sub-CRs with all that they own.                     *)
Collect ==
  /\ life = "gone" /\ (turl # Nil \/ Existing # {})
  /\ turl' = Nil /\ nturl' = Nil
  /\ config' = NoInputs
  /\ cr' = [s \in Services |-> NoSubCR]
  /\ svcConfig' = [s \in Services |-> NoInputs]
  /\ template' = [s \in Services |-> NoHash]
  /\ pods' = [s \in Services |-> {}]
  /\ queue' = {}
  /\ UNCHANGED <<life, notifOn, acSpec, deps, finVars, status, localVars, counters>>

(***************************************************************************)
(* A call to the API server fails and Reconcile returns its error, or the  *)
(* operator dies, somewhere in the middle.  What was written stays.  The   *)
(* status in memory is stored, or lost with the process (or because the    *)
(* patch fails, too).  An error requeues the CR, a restart every CR.       *)
(***************************************************************************)
Interrupted(reached) == Return(reached) \/ Return(status)

Fault ==
  /\ faults < MaxFaults /\ faults' = faults + 1
  /\ \/ /\ Starts /\ status.known /\ turl > 0
        /\ \/ UNCHANGED tfin /\ Interrupted([status EXCEPT !.transport = EarlyStatus.transport])
           \/ tfin' = tfin \cup {turl} /\ Interrupted(EarlyStatus)
        /\ UNCHANGED <<nturl, nfin, afin, config>>
     \/ /\ ClaimTransport
        /\ config' = config \/ (deps /\ config' = Desired)
        /\ Interrupted(EarlyStatus)
        /\ UNCHANGED <<nturl, afin>>
     \/ /\ cursor \in Services
        /\ Interrupted(mem)
        /\ UNCHANGED <<nturl, finVars, config>>
     \/ /\ cursor = NumServices + 1
        /\ \E n \in 0..5 : Finalize(n) /\ Interrupted(StatusAfter(n))
        /\ UNCHANGED config
  /\ queue' \in {queue \cup {Manila} \cup When(config' # config, Existing),
                {Manila} \cup Existing}
  /\ UNCHANGED <<life, turl, notifOn, acSpec, deps, svcVars, pods, edits, outages>>

(***************************************************************************)
(* The controller of one service.  It alone writes the status of its CR,   *)
(* its config-data and its StatefulSet, so a Reconcile is one step, taken  *)
(* when it reads the parent's config-data.                                 *)
(***************************************************************************)

(* First Reconcile of a new sub-CR: add the finalizer, store the status.   *)
ServiceInit(s) ==
  /\ s \in queue /\ cr[s].gen > 0 /\ cr[s].obs = 0
  /\ cr' = [cr EXCEPT ![s].obs = @ + 1]
  /\ queue' = queue \cup {Manila}
  /\ UNCHANGED <<specVars, finVars, status, config, svcConfig, template, pods,
                 localVars, counters>>

InputHash(s) ==
  [transport |-> cr[s].transport, notif |-> cr[s].notif, config |-> config]

(* The inputs changed: store their hash and return.                        *)
ServiceRehash(s) ==
  /\ s \in queue /\ cr[s].obs > 0
  /\ InputHash(s) # cr[s].hash
  /\ svcConfig' = [svcConfig EXCEPT ![s] = config]
  /\ cr' = [cr EXCEPT ![s].hash = InputHash(s), ![s].obs = cr[s].gen]
  /\ queue' = queue \cup {Manila}
  /\ UNCHANGED <<specVars, finVars, status, config, template, pods, localVars, counters>>

(* Every pod runs the given template (statefulset.IsReadyForInput).        *)
IsReadyForInput(s, h) == pods[s] # {} /\ \A p \in pods[s] : p.hash = h

Reports_Unrolled(s) ==
  {[cr[s] EXCEPT !.obs = cr[s].gen, !.ready = r, !.appliedT = cr[s].transport,
                 !.appliedN = cr[s].notif] : r \in BOOLEAN}

(* What Reconcile reports: the applied secrets once the rollout is         *)
(* complete; until then ReadyReplicas may or may not equal Replicas.       *)
Reports(s) ==
  IF IsReadyForInput(s, InputHash(s))
  THEN {[cr[s] EXCEPT !.obs = cr[s].gen, !.ready = TRUE,
                      !.appliedT = cr[s].transport, !.appliedN = cr[s].notif]}
  ELSE {[cr[s] EXCEPT !.obs = cr[s].gen, !.ready = r] : r \in BOOLEAN}

(* Patch the StatefulSet and report how far its rollout is.                *)
ServiceDeploy(s) ==
  /\ s \in queue /\ cr[s].obs > 0
  /\ InputHash(s) = cr[s].hash
  /\ svcConfig' = [svcConfig EXCEPT ![s] = config]
  /\ template' = [template EXCEPT ![s] = InputHash(s)]
  /\ \E c \in Reports(s) : cr' = [cr EXCEPT ![s] = c]
  /\ queue' = (queue \ {s}) \cup When(template' # template, {s})
                           \cup When(cr' # cr, {s, Manila})
  /\ UNCHANGED <<specVars, finVars, status, config, pods, localVars, counters>>

(* A call fails: what Reconcile wrote so far stays, and the CR is requeued.*)
ServiceError(s) ==
  /\ s \in queue /\ cr[s].obs > 0
  /\ faults < MaxFaults /\ faults' = faults + 1
  /\ svcConfig' = [svcConfig EXCEPT ![s] = config]
  /\ \/ /\ UNCHANGED template
        /\ cr' \in {cr, [cr EXCEPT ![s].obs = cr[s].gen]}
     \/ /\ InputHash(s) = cr[s].hash
        /\ template' = [template EXCEPT ![s] = InputHash(s)]
        /\ cr' \in {cr} \cup {[cr EXCEPT ![s].obs = cr[s].gen, ![s].ready = r] : r \in BOOLEAN}
  /\ queue' = queue \cup When(cr' # cr, {Manila})
  /\ UNCHANGED <<specVars, finVars, status, config, pods, localVars, edits, outages>>

(***************************************************************************)
(* The StatefulSet controller and the kubelets.  A pod reads its service's *)
(* config-data when it starts.  Pods that run the same template and config *)
(* are one element of pods[s], so that a StatefulSet has any number of     *)
(* replicas.                                                               *)
(***************************************************************************)

(* A pod is started from the current template.                             *)
PodStart(s) ==
  /\ template[s] # NoHash
  /\ pods' = [pods EXCEPT ![s] = @ \cup {[hash |-> template[s], config |-> svcConfig[s]]}]
  /\ pods' # pods
  /\ queue' = queue \cup {s}
  /\ UNCHANGED <<specVars, finVars, status, config, svcVars, localVars, counters>>

(* The last pod of an older template is gone: the rollout is complete.     *)
PodFinish(s) ==
  LET new == {p \in pods[s] : p.hash = template[s]}
  IN  /\ new # {} /\ new # pods[s]
      /\ pods' = [pods EXCEPT ![s] = new]
      /\ queue' = queue \cup {s}
      /\ UNCHANGED <<specVars, finVars, status, config, svcVars, localVars, counters>>

(* A pod is restarted: its template stays, its config is read again; it    *)
(* may or may not have been the only one of its kind.                      *)
PodRestart(s) ==
  /\ \E p \in pods[s] : \E others \in {pods[s], pods[s] \ {p}} :
       /\ p.config # svcConfig[s]
       /\ pods' = [pods EXCEPT ![s] =
                     others \cup {[hash |-> p.hash, config |-> svcConfig[s]]}]
       /\ pods' # pods
  /\ queue' = queue \cup {s}
  /\ UNCHANGED <<specVars, finVars, status, config, svcVars, localVars, counters>>

-----------------------------------------------------------------------------
Environment ==
  \/ PublishTransport \/ PublishNotifications \/ EditSpec \/ DeleteManila \/ Collect
  \/ DependencyLost \/ DependencyReady

ManilaController ==
  \/ ManilaInit \/ RequestTransport \/ RequestNotifications
  \/ WaitForDependency \/ PublishConfig \/ ClaimAC \/ DeployService \/ FinishReconcile
  \/ ReconcileDelete \/ ManilaGone

ServiceController(s) == ServiceInit(s) \/ ServiceRehash(s) \/ ServiceDeploy(s)

Next ==
  \/ Environment
  \/ ManilaController \/ Fault \/ DeleteFault
  \/ \E s \in Services :
       \/ ServiceController(s) \/ ServiceError(s)
       \/ PodStart(s) \/ PodFinish(s) \/ PodRestart(s)

(* The controllers' workers and the StatefulSet controller never stop for  *)
(* good, the RabbitMQ operator answers a request, and a dependency that is *)
(* lost comes back.  Nothing makes anybody rotate, edit or fail.           *)
Fairness ==
  /\ WF_vars(ManilaController)
  /\ \A s \in Services : /\ WF_vars(ServiceController(s))
                         /\ WF_vars(PodStart(s)) /\ WF_vars(PodFinish(s))
  /\ WF_vars(DependencyReady)
  /\ WF_vars(turl = 0 /\ PublishTransport)
  /\ WF_vars(nturl = 0 /\ PublishNotifications)

Spec     == Init /\ [][Next]_vars
FairSpec == Spec /\ Fairness

-----------------------------------------------------------------------------
(* The secrets that a service's pods run with, or are about to.            *)
UsedTransport(s) == {p.config.transport : p \in pods[s]} \cup {svcConfig[s].transport}
UsedNotif(s)     == {p.config.notif : p \in pods[s]} \cup {svcConfig[s].notif}
UsedAC(s)        == {p.config.ac : p \in pods[s]} \cup {svcConfig[s].ac}

(***************************************************************************)
(* Safety.                                                                 *)
(***************************************************************************)

(* The Manila controller renders a config-data only from secrets it holds  *)
(* a finalizer on: it claims before it publishes, and neither a release    *)
(* nor a prune takes the claim back while the config-data is current.      *)
PublishedClaimed ==
  life = "live" =>
    /\ config.transport # 0 => config.transport \in tfin
    /\ config.notif # 0 => config.notif \in nfin

(* The messaging secret that Status.TransportURLSecret names, the one the  *)
(* services run on, loses its finalizer only when no config-data and no    *)
(* pod of any service refers to it: however the rotations, rollouts,       *)
(* reconciles and failures interleave, guardReady is not fooled.           *)
ReleaseAfterRollout ==
  [][\A t \in tfin \ tfin' :
       life = "live" /\ t = status.transport =>
         /\ t # config.transport
         /\ \A s \in Services : t \notin UsedTransport(s)]_vars

(* The same of the secret that Status.NotificationsURLSecret names, also   *)
(* when the notifications bus is switched off and on again.                *)
NotifReleaseAfterRollout ==
  [][\A n \in nfin \ nfin' :
       life = "live" /\ n = status.notif =>
         /\ n # config.notif
         /\ \A s \in Services : n \notin UsedNotif(s)]_vars

(* The same of the secret that Status.ApplicationCredentialSecret names.   *)
ACReleaseAfterRollout ==
  [][\A a \in afin \ afin' :
       life = "live" /\ a = status.ac =>
         /\ a # config.ac
         /\ \A s \in Services : a \notin UsedAC(s)]_vars

(* A service reports AppliedInputSecretHash only after its rollout, so no  *)
(* pod runs with an older messaging secret than the one reported: not a    *)
(* pod that another rotation, a restart or an error left behind either.    *)
AppliedIsRunning ==
  \A s \in Services : \A p \in pods[s] : cr[s].appliedT <= p.config.transport

(* Every messaging and notification secret that a service uses carries the *)
(* consumer finalizer, so that its owner does not revoke it.               *)
InUseClaimed ==
  life = "live" =>
    \A s \in Services : /\ UsedTransport(s) \ {0} \subseteq tfin
                        /\ UsedNotif(s) \ {0} \subseteq nfin

(* When the last change has come to rest, the only secrets that carry a    *)
(* finalizer are the ones the status tracks: release and prune together    *)
(* strand none, however many rotations overtook one another.               *)
NothingStranded ==
  Settled => /\ tfin \subseteq {status.transport}
             /\ nfin \subseteq {status.notif}
             /\ afin \subseteq {status.ac}

(***************************************************************************)
(* Liveness.                                                               *)
(***************************************************************************)

(* A rotation of the messaging secret completes: in the end every service  *)
(* runs on the last secret issued, and only that one is claimed.           *)
RotationCompletes ==
  <>[](life = "live" =>
         /\ turl > 0 /\ status.transport = turl /\ tfin = {turl}
         /\ \A s \in Services : pods[s] # {} /\ UsedTransport(s) = {turl})

(* A deletion completes, and then no secret carries a finalizer: not one   *)
(* that only the status, only a TransportURL or neither of them names, and *)
(* not after a failure half-way through a rotation or through the deletion.*)
DeletionReleasesAll ==
  <>[](life # "live" => life = "gone" /\ tfin = {} /\ nfin = {} /\ afin = {})

(* Switching the notifications bus on reaches every service; switching it  *)
(* off also deletes the TransportURL and releases its secret.              *)
NotificationsSettle ==
  <>[](life = "live" =>
         IF notifOn
         THEN /\ nturl > 0 /\ status.notif = nturl /\ nfin = {nturl}
              /\ \A s \in Services : UsedNotif(s) = {nturl}
         ELSE /\ nturl = Nil /\ status.notif = Nil /\ nfin = {}
              /\ \A s \in Services : UsedNotif(s) = {0})

(* In the end every service runs on the application credential that the    *)
(* spec names, or on none, and only that one is tracked and claimed.       *)
ACSettles ==
  <>[](life = "live" =>
         /\ status.ac = acSpec /\ afin = {acSpec} \ {0}
         /\ \A s \in Services : UsedAC(s) = {acSpec})

(* A notifications bus that stays switched off has no TransportURL left.   *)
TearDownHappens == <>[](~notifOn => nturl = Nil \/ life # "live")

=============================================================================
