------------------------------ MODULE Database ------------------------------
(***************************************************************************)
(* How the Manila controller sets up the database, brings its schema up to *)
(* date before any API of a new image talks to it, moves the services from *)
(* one database account to another and lets go of all of it in the end.    *)
(*                                                                         *)
(* The mariadb-operator, outside the repository, creates the database and  *)
(* one user per MariaDBAccount; it drops the user when the account is      *)
(* deleted and carries no finalizer any more.  The db-sync job migrates    *)
(* the schema with the code of the API's container image.                  *)
(*                                                                         *)
(* Accounts and images are numbers, 0 is none.  The services are two       *)
(* groups: the API, which is deployed before unused accounts are let go    *)
(* of, and the others, which are deployed after.                           *)
(***************************************************************************)
EXTENDS Integers

CONSTANTS
  NumAccounts,   \* how many MariaDBAccounts there can be
  NumImages,     \* how many API images
  MaxEdits,      \* bound: edits of the Manila spec
  MaxFaults      \* bound: failed API calls and operator restarts

ASSUME CountsAssumption == NumAccounts \in Nat \ {0} /\ NumImages \in Nat \ {0}
ASSUME BoundsAssumption == MaxEdits \in Nat /\ MaxFaults \in Nat

Accounts == 1..NumAccounts
Images   == 1..NumImages
Groups   == {"api", "others"}

VARIABLES
  life,       \* the Manila CR: "live", "deleting" or "gone"
  spec,       \* ... its DatabaseAccount and its ManilaAPI.ContainerImage
  account,    \* the MariaDBAccounts: "absent", "present" or "deleting"
  labelled,   \* ... those that belong to the database "manila"
  held,       \* ... those that carry the finalizer of the Manila controller
  users,      \* ... those whose user exists in the database
  database,   \* the MariaDBDatabase: "absent", "requested" or "ready"
  dbHeld,     \* ... it carries the finalizer of the Manila controller
  config,     \* the account that the stored <manila>-config-data connects as
  job,        \* the db-sync Job
  synced,     \* the images whose db-sync has migrated the schema
  hash,       \* Manila status: the hashes of the input and of the db-sync
  purge,      \* the image of the db-purge CronJob
  cr,         \* the sub-CRs, per group
  template,   \* what the StatefulSets of a group run
  pods,       \* what the pods of a group run
  stage,      \* Manila controller: the step of Reconcile that is next
  snap,       \* ... the spec it read
  queued,     \* the Manila CR is in the work queue
  hasty,      \* history: something was deleted in the middle of a change
  edits, faults   \* counters, for the bounds

manilaVars  == <<life, spec>>
mariadbVars == <<account, labelled, held, users, database, dbHeld>>
jobVars     == <<job, synced, purge>>
svcVars     == <<cr, template, pods>>
vars == <<manilaVars, mariadbVars, jobVars, svcVars, config, hash, stage, snap, queued,
          hasty, edits, faults>>

(* An account and an image: of a spec, a sub-CR, a template or a pod.      *)
Setting == [account : 0..NumAccounts, image : 0..NumImages]
Unset   == [account |-> 0, image |-> 0]

Job   == [image : 0..NumImages, state : {"none", "running", "complete"}]
NoJob == [image |-> 0, state |-> "none"]

TypeOK ==
  /\ life \in {"live", "deleting", "gone"}
  /\ spec \in Setting /\ snap \in Setting
  /\ account \in [Accounts -> {"absent", "present", "deleting"}]
  /\ labelled \subseteq Accounts /\ held \subseteq Accounts /\ users \subseteq Accounts
  /\ database \in {"absent", "requested", "ready"} /\ dbHeld \in BOOLEAN
  /\ config \in 0..NumAccounts
  /\ job \in Job /\ synced \subseteq Images /\ purge \in 0..NumImages
  /\ hash \in [input : 0..NumAccounts, dbsync : 0..NumImages]
  /\ cr \in [Groups -> Setting] /\ template \in [Groups -> Setting]
  /\ pods \in [Groups -> SUBSET Setting]
  /\ stage \in {"idle", "config", "dbsync", "api", "others"}
  /\ (stage = "idle") = (snap = Unset) /\ (job = NoJob) = (job.state = "none")
  /\ queued \in BOOLEAN /\ hasty \in BOOLEAN
  /\ edits \in 0..MaxEdits /\ faults \in 0..MaxFaults

(* A Manila CR that has its finalizer.  Its owner may have created the     *)
(* accounts before.                                                        *)
Init ==
  /\ life = "live" /\ spec = [account |-> 1, image |-> 1]
  /\ account \in [Accounts -> {"absent", "present"}]
  /\ labelled = {} /\ held = {} /\ users = {}
  /\ database = "absent" /\ dbHeld = FALSE
  /\ config = 0 /\ hash = [input |-> 0, dbsync |-> 0]
  /\ job = NoJob /\ synced = {} /\ purge = 0
  /\ cr = [g \in Groups |-> Unset] /\ template = [g \in Groups |-> Unset]
  /\ pods = [g \in Groups |-> {}]
  /\ stage = "idle" /\ snap = Unset /\ queued = TRUE
  /\ hasty = FALSE /\ edits = 0 /\ faults = 0

-----------------------------------------------------------------------------
(* Nothing is in progress: every pod runs what the spec asks for.          *)
AtRest ==
  /\ stage = "idle" /\ ~queued
  /\ \A g \in Groups : pods[g] = {template[g]} /\ template[g].account = spec.account

(***************************************************************************)
(* The Manila controller, cut where another actor can make a difference.   *)
(* The Manila CR is requeued while Reconcile waits and after every change. *)
(***************************************************************************)
Starts == life = "live" /\ stage = "idle" /\ queued

Requeue_KeepSnap == stage' = "idle" /\ queued' = TRUE /\ UNCHANGED snap

Requeue == stage' = "idle" /\ snap' = Unset /\ queued' = TRUE

(* (An operator whose name has a suffix, X_Y, is X with a plausible mistake *)
(* in it; the mutation tests of the properties put it in X's place.)       *)

(* EnsureMariaDBAccount creates the account unless there is one;           *)
(* CreateOrPatchAll puts finalizers on the database and on the account,    *)
(* but the API server accepts no new finalizer on an object that is being  *)
(* deleted.                                                                *)
Refused(a) == account[a] = "deleting" /\ a \notin held

EnsureAccount(a) == account' = [account EXCEPT ![a] = IF @ = "absent" THEN "present" ELSE @]

ClaimDatabase ==
  /\ database' = IF database = "absent" THEN "requested" ELSE database
  /\ dbHeld' = TRUE

ClaimAccount(a) ==
  IF Refused(a) THEN UNCHANGED <<labelled, held>>
  ELSE labelled' = labelled \cup {a} /\ held' = held \cup {a}

Available_DatabaseOnly(a) == database = "ready" /\ ~Refused(a)

(* WaitForDBCreated: the database and the account's user are there.        *)
Available(a) == database = "ready" /\ a \in users /\ ~Refused(a)

EnsureDB ==
  /\ Starts
  /\ EnsureAccount(spec.account) /\ ClaimDatabase /\ ClaimAccount(spec.account)
  /\ IF Available(spec.account)
     THEN stage' = "config" /\ snap' = spec /\ queued' = FALSE
     ELSE Requeue
  /\ UNCHANGED <<manilaVars, users, jobVars, svcVars, config, hash, hasty, edits, faults>>

(* generateServiceConfig stores the config-data; when its hash has changed *)
(* Reconcile stores the hash and returns.                                  *)
PublishConfig ==
  /\ stage = "config"
  /\ config' = snap.account
  /\ hash' = [hash EXCEPT !.input = snap.account]
  /\ IF hash.input = snap.account
     THEN stage' = "dbsync" /\ UNCHANGED <<snap, queued>>
     ELSE Requeue
  /\ UNCHANGED <<manilaVars, mariadbVars, jobVars, svcVars, hasty, edits, faults>>

(* DoJob: a job whose hash is recorded is done.  Otherwise one of another  *)
(* hash is deleted, a missing one is created, and the one that is there is *)
(* waited for; it is deleted in the end unless jobs are preserved.         *)
SyncJob ==
  \/ /\ job.state = "none"
     /\ job' = [image |-> snap.image, state |-> "running"]
  \/ /\ job.state # "none" /\ job.image # snap.image
     /\ job' = NoJob
  \/ /\ job.image = snap.image /\ job.state = "running"
     /\ job' = job

SyncComplete_AnyJob == job.state = "complete"

SyncComplete == job.state = "complete" /\ job.image = snap.image

DBSync ==
  /\ stage = "dbsync"
  /\ \/ /\ hash.dbsync = snap.image
        /\ stage' = "api" /\ UNCHANGED <<job, hash, snap, queued>>
     \/ /\ hash.dbsync # snap.image /\ SyncJob
        /\ Requeue /\ UNCHANGED hash
     \/ /\ hash.dbsync # snap.image /\ SyncComplete
        /\ hash' = [hash EXCEPT !.dbsync = snap.image]
        /\ job' \in {job, NoJob}
        /\ stage' = "api" /\ UNCHANGED <<snap, queued>>
  /\ UNCHANGED <<manilaVars, mariadbVars, synced, purge, svcVars, config, hasty, edits, faults>>

(* DeleteUnusedMariaDBAccountFinalizers: of the accounts of the database,  *)
(* only the one in use stays held.                                         *)
Unused == labelled \ {snap.account}

HeldAfterAPI_All == held \ labelled

HeldAfterAPI_None == held

HeldAfterAPI == held \ Unused

(* Deploy the API, then let go of the accounts that are not used.          *)
DeployAPI ==
  /\ stage = "api"
  /\ cr' = [cr EXCEPT !["api"] = snap]
  /\ held' = HeldAfterAPI
  /\ stage' = "others"
  /\ queued' = (queued \/ cr' # cr)
  /\ UNCHANGED <<manilaVars, account, labelled, users, database, dbHeld, jobVars, template,
                 pods, config, hash, snap, hasty, edits, faults>>

(* Deploy the scheduler and the shares, whose images are their own, and    *)
(* the CronJob that purges the database with the image of the API.         *)
DeployOthers ==
  /\ stage = "others"
  /\ cr' = [cr EXCEPT !["others"] = [snap EXCEPT !.image = 0]]
  /\ purge' = snap.image
  /\ stage' = "idle" /\ snap' = Unset
  /\ queued' = (queued \/ cr' # cr \/ purge' # purge)
  /\ UNCHANGED <<manilaVars, mariadbVars, job, synced, template, pods, config, hash, hasty,
                 edits, faults>>

(* A call fails or the operator dies in the middle: some of the step's     *)
(* writes are done, the rest is not, and Reconcile starts over.  A hash    *)
(* that is not stored yet is lost with the process.                        *)
Fault ==
  /\ faults < MaxFaults /\ faults' = faults + 1
  /\ Requeue
  /\ \/ /\ Starts
        /\ EnsureAccount(spec.account) /\ (ClaimDatabase \/ UNCHANGED <<database, dbHeld>>)
        /\ UNCHANGED <<labelled, held, config, job, cr>>
     \/ /\ stage = "config" /\ config' = snap.account
        /\ UNCHANGED <<account, labelled, held, database, dbHeld, job, cr>>
     \/ /\ stage = "dbsync" /\ hash.dbsync # snap.image
        /\ SyncComplete /\ job' = NoJob
        /\ UNCHANGED <<account, labelled, held, database, dbHeld, config, cr>>
     \/ /\ stage = "api"
        /\ \/ UNCHANGED <<cr, held>>
           \/ /\ cr' = [cr EXCEPT !["api"] = snap]
              /\ \E some \in SUBSET Unused : held' = held \ some
        /\ UNCHANGED <<account, labelled, database, dbHeld, config, job>>
     \/ /\ stage = "others" /\ cr' \in {cr, [cr EXCEPT !["others"] = [snap EXCEPT !.image = 0]]}
        /\ UNCHANGED <<account, labelled, held, database, dbHeld, config, job>>
  /\ UNCHANGED <<manilaVars, users, synced, purge, template, pods, hash, hasty, edits>>

(* GetDatabaseByNameAndAccount, with the account that the spec names now.  *)
Found == database # "absent" /\ account[spec.account] # "absent"

(* reconcileDelete: db.DeleteFinalizer takes the finalizer off the account *)
(* of the spec and off the database; if they are not found it is skipped.  *)
ReconcileDelete ==
  /\ life = "deleting" /\ stage = "idle" /\ queued
  /\ life' = "gone" /\ queued' = FALSE
  /\ held' = IF Found THEN held \ {spec.account} ELSE held
  /\ dbHeld' = IF Found THEN FALSE ELSE dbHeld
  /\ UNCHANGED <<spec, account, labelled, users, database, jobVars, svcVars, config, hash,
                 stage, snap, hasty, edits, faults>>

DeleteFault_CRFirst ==
  /\ life = "deleting" /\ stage = "idle" /\ queued /\ Found
  /\ faults < MaxFaults /\ faults' = faults + 1
  /\ held' = held \ {spec.account} /\ life' = "gone"
  /\ UNCHANGED <<spec, account, labelled, users, database, dbHeld, jobVars, svcVars,
                 config, hash, stage, snap, queued, hasty, edits>>

(* ... and the operator dies when it has let go of the account only.       *)
DeleteFault ==
  /\ life = "deleting" /\ stage = "idle" /\ queued /\ Found
  /\ faults < MaxFaults /\ faults' = faults + 1
  /\ held' = held \ {spec.account}
  /\ UNCHANGED <<manilaVars, account, labelled, users, database, dbHeld, jobVars, svcVars,
                 config, hash, stage, snap, queued, hasty, edits>>

(***************************************************************************)
(* The service controllers and the pods.                                   *)
(***************************************************************************)

(* A service controller copies the config-data into the StatefulSet of its *)
(* CR; it fails while the account that the CR names does not exist.        *)
ServiceDeploy(g) ==
  /\ cr[g] # Unset /\ account[cr[g].account] # "absent"
  /\ template' = [template EXCEPT ![g] = [account |-> config, image |-> cr[g].image]]
  /\ template' # template
  /\ queued' = (life # "gone")
  /\ UNCHANGED <<manilaVars, mariadbVars, jobVars, cr, pods, config, hash, stage, snap,
                 hasty, edits, faults>>

PodStart(g) ==
  /\ template[g] # Unset /\ template[g] \notin pods[g]
  /\ pods' = [pods EXCEPT ![g] = @ \cup {template[g]}]
  /\ UNCHANGED <<manilaVars, mariadbVars, jobVars, cr, template, config, hash, stage, snap,
                 queued, hasty, edits, faults>>

(* The new pods answer, the old ones are stopped.                          *)
PodFinish(g) ==
  /\ template[g] \in pods[g] /\ pods[g] # {template[g]}
  /\ template[g].account \in users
  /\ pods' = [pods EXCEPT ![g] = {template[g]}]
  /\ UNCHANGED <<manilaVars, mariadbVars, jobVars, cr, template, config, hash, stage, snap,
                 queued, hasty, edits, faults>>

(* The job runs to its end.                                                *)
JobFinishes ==
  /\ job.state = "running"
  /\ job' = [job EXCEPT !.state = "complete"]
  /\ synced' = synced \cup {job.image}
  /\ queued' = (life # "gone")
  /\ UNCHANGED <<manilaVars, mariadbVars, purge, svcVars, config, hash, stage, snap, hasty,
                 edits, faults>>

(***************************************************************************)
(* The mariadb-operator, the owner of the spec and of the accounts, and    *)
(* the garbage collector.                                                  *)
(***************************************************************************)
CreateDatabase ==
  /\ database = "requested" /\ database' = "ready"
  /\ UNCHANGED <<manilaVars, account, labelled, held, users, dbHeld, jobVars, svcVars, config,
                 hash, stage, snap, queued, hasty, edits, faults>>

CreateUser(a) ==
  /\ account[a] = "present" /\ a \in labelled \ users /\ database = "ready"
  /\ users' = users \cup {a}
  /\ UNCHANGED <<manilaVars, account, labelled, held, database, dbHeld, jobVars, svcVars,
                 config, hash, stage, snap, queued, hasty, edits, faults>>

(* An account that is deleted goes, with its user, when nobody holds it.   *)
DropUser(a) ==
  /\ account[a] = "deleting" /\ a \notin held
  /\ account' = [account EXCEPT ![a] = "absent"]
  /\ labelled' = labelled \ {a} /\ users' = users \ {a}
  /\ UNCHANGED <<manilaVars, held, database, dbHeld, jobVars, svcVars, config, hash, stage,
                 snap, queued, hasty, edits, faults>>

EditSpec ==
  /\ life # "gone" /\ edits < MaxEdits /\ edits' = edits + 1
  /\ spec' \in [account : Accounts, image : Images] \ {spec}
  /\ spec'.account = spec.account \/ spec'.image = spec.image
  /\ queued' = TRUE /\ hasty' = (hasty \/ life = "deleting")
  /\ UNCHANGED <<life, mariadbVars, jobVars, svcVars, config, hash, stage, snap, faults>>

(* Somebody deletes an account that the spec does not name, or the Manila  *)
(* CR: in good time or hastily.                                            *)
DeleteAccount(a) ==
  /\ account[a] = "present" /\ a # spec.account
  /\ account' = [account EXCEPT ![a] = "deleting"]
  /\ hasty' = (hasty \/ ~AtRest)
  /\ UNCHANGED <<manilaVars, labelled, held, users, database, dbHeld, jobVars, svcVars, config,
                 hash, stage, snap, queued, edits, faults>>

DeleteManila ==
  /\ life = "live" /\ life' = "deleting"
  /\ queued' = TRUE /\ hasty' = (hasty \/ ~AtRest)
  /\ UNCHANGED <<spec, mariadbVars, jobVars, svcVars, config, hash, stage, snap, edits, faults>>

(* What the Manila CR owned goes after it; its database only when the      *)
(* finalizer is off.                                                       *)
Collect ==
  /\ life = "gone" /\ (config # 0 \/ (database # "absent" /\ ~dbHeld) \/ job # NoJob)
  /\ config' = 0 /\ job' = NoJob /\ purge' = 0
  /\ cr' = [g \in Groups |-> Unset] /\ template' = [g \in Groups |-> Unset]
  /\ pods' = [g \in Groups |-> {}]
  /\ database' = IF dbHeld THEN database ELSE "absent"
  /\ UNCHANGED <<manilaVars, account, labelled, held, users, dbHeld, synced, hash, stage, snap,
                 queued, hasty, edits, faults>>

-----------------------------------------------------------------------------
ManilaController ==
  EnsureDB \/ PublishConfig \/ DBSync \/ DeployAPI \/ DeployOthers \/ ReconcileDelete

MariaDBOperator == CreateDatabase \/ \E a \in Accounts : CreateUser(a) \/ DropUser(a)

Next ==
  \/ ManilaController \/ Fault \/ DeleteFault
  \/ JobFinishes \/ MariaDBOperator
  \/ \E g \in Groups : ServiceDeploy(g) \/ PodStart(g) \/ PodFinish(g)
  \/ EditSpec \/ DeleteManila \/ Collect
  \/ \E a \in Accounts : DeleteAccount(a)

(* The controllers, the job and the pods keep going; nobody has to edit,   *)
(* delete or fail.                                                         *)
Fairness ==
  /\ WF_vars(ManilaController) /\ WF_vars(JobFinishes) /\ WF_vars(CreateDatabase)
  /\ \A a \in Accounts : WF_vars(CreateUser(a)) /\ WF_vars(DropUser(a))
  /\ \A g \in Groups : /\ WF_vars(ServiceDeploy(g))
                       /\ WF_vars(PodStart(g)) /\ WF_vars(PodFinish(g))
  /\ WF_vars(Collect)

Spec     == Init /\ [][Next]_vars
FairSpec == Spec /\ Fairness

-----------------------------------------------------------------------------
(* No API and no db-purge of an image touches the database before db-sync  *)
(* of that image has migrated the schema: not after an image was replaced  *)
(* while its job ran, a preserved job of another image or a lost hash.     *)
SchemaFirst ==
  /\ purge \in synced \cup {0}
  /\ \A p \in pods["api"] \cup {cr["api"]} : p.image \in synced \cup {0}

(* The user that the stored config-data connects as exists, and the        *)
(* finalizer keeps it in existence: an account is claimed and its user     *)
(* waited for before the config-data names it, and let go of only when the *)
(* config-data names another one, whatever is edited in between.           *)
ConfigAccountWorks == life = "live" /\ config # 0 => config \in held \cap users

(* Although unused accounts are let go of before the pods have moved to    *)
(* the new one, no pod loses its user when owners wait with deletions      *)
(* until a change has come to rest.                                        *)
PodsConnect ==
  life = "live" /\ ~hasty =>
    \A g \in Groups : \A p \in pods[g] : p.account \in users

(* In the end all pods run with the account and the image of the spec, and *)
(* of the accounts only that one is held: unless an account was deleted    *)
(* while it was claimed (named by the spec again, it stays without a user, *)
(* and the finalizer keeps it from being created anew).                    *)
DatabaseSettles ==
  <>[](life = "live" /\ ~hasty =>
         /\ held = {spec.account} /\ dbHeld /\ purge = spec.image
         /\ pods["api"] = {spec}
         /\ pods["others"] = {[spec EXCEPT !.image = 0]})

(* A Manila CR that is deleted at rest goes and takes the database with    *)
(* it: no account and no database is left with a finalizer, not after a    *)
(* deletion that died half-way either.                                     *)
DeletionLetsGo ==
  <>[](life # "live" => life = "gone" /\ (~hasty => held = {} /\ database = "absent"))

=============================================================================
