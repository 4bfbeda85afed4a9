---------------------------- MODULE Database_proofs ----------------------------
(***************************************************************************)
(* Proofs about Database, for any numbers of accounts, images, edits and   *)
(* faults.  An image reaches an API only through the steps of Reconcile    *)
(* that come after db-sync, so SchemaFirst rests on what is known of the   *)
(* image there, in the recorded hash and in the template of the pods       *)
(* (Migrated).  ConfigAccountWorks rests on the account that Reconcile     *)
(* works with, which is claimed and has its user from EnsureDB on          *)
(* (Granted); it is the account of the config-data from the next step on.  *)
(* PodsConnect needs to know what an account that is deleted at rest has   *)
(* lost by then, its finalizer and every service that runs on it, and that *)
(* it gets neither back (Spared).                                          *)
(***************************************************************************)
EXTENDS Database, TLAPS

Known == synced \cup {0}

Migrated ==
  /\ hash.dbsync \in Known /\ purge \in Known
  /\ job.state = "complete" => job.image \in synced
  /\ job.state # "none" => job.image \in Images
  /\ stage # "idle" => snap.image \in Images
  /\ stage \in {"api", "others"} => snap.image \in Known
  /\ cr["api"].image \in Known /\ template["api"].image \in Known
  /\ \A p \in pods["api"] : p.image \in Known

Granted ==
  life = "live" =>
    /\ stage # "idle" => snap.account \in held \cap users
    /\ stage \in {"dbsync", "api", "others"} => config = snap.account

(* The spec always names an account and an image.                          *)
Named == spec \in [account : Accounts, image : Images]

IInv == TypeOK /\ Named /\ Migrated /\ Granted /\ ConfigAccountWorks

(* The bounds are natural numbers; 0 is no account and no image.           *)
LEMMA Bounds ==
  /\ NumAccounts \in Nat /\ NumAccounts >= 1 /\ NumImages \in Nat /\ NumImages >= 1
  /\ MaxEdits \in Nat /\ MaxFaults \in Nat
  /\ Accounts \subseteq 0..NumAccounts /\ 0 \notin Accounts
  /\ Images \subseteq 0..NumImages /\ 0 \notin Images
  BY CountsAssumption, BoundsAssumption DEF Accounts, Images

(* What names an account and an image is a setting other than Unset.       *)
LEMMA NamedIsSetting ==
  ASSUME NEW s \in [account : Accounts, image : Images]
  PROVE  s \in Setting /\ s # Unset
<1>1. s.account \in 0..NumAccounts /\ s.account # 0 /\ s.image \in 0..NumImages
  BY Bounds
<1>2. s = [account |-> s.account, image |-> s.image]
  OBVIOUS
<1> QED
  BY <1>1, <1>2 DEF Setting, Unset

(* Nothing is set is a setting, no Job is a job.                           *)
LEMMA Nothing == Unset \in Setting /\ Unset.image = 0 /\ NoJob \in Job /\ NoJob.state = "none"
  BY Bounds DEF Unset, Setting, NoJob, Job

(***************************************************************************)
(* The parts of the invariant, by the variables they are about.            *)
(***************************************************************************)
MariaDBOK ==
  /\ account \in [Accounts -> {"absent", "present", "deleting"}]
  /\ labelled \subseteq Accounts /\ held \subseteq Accounts /\ users \subseteq Accounts
  /\ database \in {"absent", "requested", "ready"} /\ dbHeld \in BOOLEAN

JobOK ==
  /\ job \in Job /\ synced \subseteq Images /\ purge \in 0..NumImages
  /\ (job = NoJob) = (job.state = "none")

ServicesOK ==
  /\ cr \in [Groups -> Setting] /\ template \in [Groups -> Setting]
  /\ pods \in [Groups -> SUBSET Setting]

RunOK ==
  /\ config \in 0..NumAccounts
  /\ hash \in [input : 0..NumAccounts, dbsync : 0..NumImages]
  /\ stage \in {"idle", "config", "dbsync", "api", "others"}
  /\ snap \in Setting /\ (stage = "idle") = (snap = Unset)
  /\ queued \in BOOLEAN

RestOK ==
  /\ life \in {"live", "deleting", "gone"} /\ Named
  /\ hasty \in BOOLEAN /\ edits \in 0..MaxEdits /\ faults \in 0..MaxFaults

Parts == /\ MariaDBOK /\ JobOK /\ ServicesOK /\ RunOK /\ RestOK
         /\ Migrated /\ Granted /\ ConfigAccountWorks

(* They make up the invariant.                                             *)
LEMMA PartsInv == (IInv <=> Parts) /\ (IInv <=> Parts)'
<1>1. (Named => spec \in Setting) /\ (Named' => spec' \in Setting)
  BY NamedIsSetting DEF Named
<1> QED
  BY <1>1 DEF IInv, Parts, TypeOK, MariaDBOK, JobOK, ServicesOK, RunOK, RestOK

(* At the start nothing is claimed, deployed or migrated.                  *)
LEMMA InitInv == Init => IInv
<1> SUFFICES ASSUME Init PROVE Parts
  BY PartsInv
<1>1. MariaDBOK
  BY DEF Init, MariaDBOK
<1>2. JobOK
  BY Nothing, Bounds DEF Init, JobOK
<1>3. ServicesOK
  BY Nothing DEF Init, ServicesOK
<1>4. RunOK
  BY Nothing, Bounds DEF Init, RunOK
<1>5. RestOK
  <2>1. 1 \in Accounts /\ 1 \in Images /\ 0 \in 0..MaxEdits /\ 0 \in 0..MaxFaults
    BY Bounds DEF Accounts, Images
  <2>2. Named
    BY <2>1 DEF Init, Named
  <2> QED
    BY <2>1, <2>2 DEF Init, RestOK
<1>6. Migrated
  <2>1. /\ hash.dbsync = 0 /\ purge = 0 /\ job.state = "none" /\ stage = "idle"
        /\ cr["api"] = Unset /\ template["api"] = Unset /\ pods["api"] = {}
    BY Nothing DEF Init, Groups
  <2> QED
    BY <2>1, Nothing DEF Migrated, Known
<1> QED
  BY <1>1, <1>2, <1>3, <1>4, <1>5, <1>6 DEF Init, Parts, Granted, ConfigAccountWorks

(***************************************************************************)
(* The steps of the Manila controller.                                     *)
(***************************************************************************)

(* EnsureDB: the account is claimed and has its user when Reconcile goes   *)
(* on.                                                                     *)
LEMMA EnsureDBInv == ASSUME Parts, EnsureDB PROVE Parts'
<1> DEFINE a == spec.account
<1>1. /\ a \in Accounts /\ spec \in Setting /\ spec # Unset
      /\ MariaDBOK /\ RunOK /\ RestOK /\ Migrated /\ ConfigAccountWorks
      /\ stage = "idle" /\ life = "live"
  BY NamedIsSetting DEF Parts, RestOK, Named, EnsureDB, Starts
<1>2. MariaDBOK'
  BY <1>1 DEF EnsureDB, MariaDBOK, EnsureAccount, ClaimDatabase, ClaimAccount
<1>3. RunOK' /\ stage' \in {"idle", "config"}
  BY <1>1, Nothing DEF EnsureDB, RunOK, Requeue
<1>4. JobOK' /\ ServicesOK' /\ RestOK'
  BY DEF Parts, EnsureDB, jobVars, svcVars, manilaVars, JobOK, ServicesOK, RestOK, Named
<1>5. Migrated'
  <2>1. stage' # "idle" => snap'.image \in Images
    BY <1>1 DEF EnsureDB, Requeue, RestOK, Named
  <2> QED
    BY <1>1, <1>3, <2>1 DEF EnsureDB, jobVars, svcVars, Migrated, Known
<1>6. held \subseteq held' /\ users' = users
  BY DEF EnsureDB, ClaimAccount
<1>7. stage' # "idle" => snap'.account \in held' \cap users'
  <2> SUFFICES ASSUME stage' # "idle" PROVE snap'.account \in held' \cap users'
    OBVIOUS
  <2>1. Available(a) /\ snap' = spec
    BY DEF EnsureDB, Requeue
  <2>2. a \in users /\ a \in held'
    BY <2>1 DEF Available, EnsureDB, ClaimAccount
  <2> QED
    BY <1>6, <2>1, <2>2
<1>8. Granted'
  BY <1>3, <1>7 DEF Granted
<1>9. ConfigAccountWorks'
  BY <1>1, <1>6 DEF EnsureDB, ConfigAccountWorks
<1> QED
  BY <1>2, <1>3, <1>4, <1>5, <1>8, <1>9 DEF Parts

(* PublishConfig: the config-data names the account that was claimed.      *)
LEMMA PublishConfigInv == ASSUME Parts, PublishConfig PROVE Parts'
<1>1. /\ RunOK /\ RestOK /\ Migrated /\ Granted /\ stage = "config"
      /\ snap \in Setting /\ snap # Unset /\ snap.account \in 0..NumAccounts
  BY DEF Parts, PublishConfig, RunOK, Setting
<1>2. /\ config' = snap.account
      /\ hash' \in [input : 0..NumAccounts, dbsync : 0..NumImages]
      /\ hash'.dbsync = hash.dbsync
  BY <1>1 DEF PublishConfig, RunOK
<1>3. \/ stage' = "dbsync" /\ snap' = snap /\ queued' = queued
      \/ stage' = "idle" /\ snap' = Unset /\ queued' = TRUE
  BY DEF PublishConfig, Requeue
<1>4. RunOK'
  BY <1>1, <1>2, <1>3, Nothing DEF RunOK
<1>5. MariaDBOK' /\ JobOK' /\ ServicesOK' /\ RestOK'
  BY DEF Parts, PublishConfig, mariadbVars, jobVars, svcVars, manilaVars, MariaDBOK, JobOK,
         ServicesOK, RestOK, Named
<1>6. Migrated'
  BY <1>1, <1>2, <1>3 DEF PublishConfig, jobVars, svcVars, Migrated, Known
<1>7. Granted' /\ ConfigAccountWorks'
  BY <1>1, <1>2, <1>3
     DEF PublishConfig, manilaVars, mariadbVars, Granted, ConfigAccountWorks
<1> QED
  BY <1>4, <1>5, <1>6, <1>7 DEF Parts

(* DBSync: the hash is recorded, and Reconcile goes on, when the job of    *)
(* this image is complete.                                                 *)
LEMMA DBSyncInv == ASSUME Parts, DBSync PROVE Parts'
<1>1. /\ RunOK /\ JobOK /\ RestOK /\ Migrated /\ Granted /\ ConfigAccountWorks
      /\ stage = "dbsync" /\ snap \in Setting /\ snap # Unset
      /\ snap.image \in 0..NumImages
  BY DEF Parts, DBSync, RunOK, Setting
<1>2. CASE /\ hash.dbsync = snap.image
           /\ stage' = "api" /\ UNCHANGED <<job, hash, snap, queued>>
  <2>1. RunOK' /\ JobOK'
    BY <1>1, <1>2 DEF DBSync, RunOK, JobOK
  <2>2. Migrated'
    BY <1>1, <1>2 DEF DBSync, svcVars, Migrated, Known
  <2>3. Granted' /\ ConfigAccountWorks'
    BY <1>1, <1>2 DEF DBSync, manilaVars, mariadbVars, Granted, ConfigAccountWorks
  <2> QED
    BY <2>1, <2>2, <2>3
       DEF Parts, DBSync, mariadbVars, svcVars, manilaVars, MariaDBOK, ServicesOK, RestOK, Named
<1>3. CASE SyncJob /\ Requeue /\ UNCHANGED hash
  <2>1. job' \in Job /\ (job' = NoJob) = (job'.state = "none")
        /\ (job'.state = "complete" => job' = job)
    BY <1>1, <1>3, Nothing DEF SyncJob, Job, NoJob, JobOK
  <2>2. job'.state # "none" => job'.image \in Images
    BY <1>1, <1>3, Nothing DEF SyncJob, Migrated
  <2>3. RunOK' /\ JobOK'
    BY <1>1, <1>3, <2>1, Nothing DEF DBSync, RunOK, JobOK, Requeue
  <2>4. Migrated'
    BY <1>1, <1>3, <2>1, <2>2 DEF DBSync, svcVars, Migrated, Known, Requeue
  <2>5. Granted' /\ ConfigAccountWorks'
    BY <1>1, <1>3 DEF DBSync, manilaVars, mariadbVars, Granted, ConfigAccountWorks, Requeue
  <2> QED
    BY <2>3, <2>4, <2>5
       DEF Parts, DBSync, mariadbVars, svcVars, manilaVars, MariaDBOK, ServicesOK, RestOK, Named
<1>4. CASE /\ SyncComplete /\ hash' = [hash EXCEPT !.dbsync = snap.image]
           /\ job' \in {job, NoJob} /\ stage' = "api" /\ UNCHANGED <<snap, queued>>
  <2>1. snap.image \in synced
    BY <1>1, <1>4 DEF SyncComplete, Migrated
  <2>2. /\ hash' \in [input : 0..NumAccounts, dbsync : 0..NumImages]
        /\ hash'.dbsync = snap.image
    BY <1>1, <1>4 DEF RunOK
  <2>3. RunOK' /\ JobOK'
    BY <1>1, <1>4, <2>2, Nothing DEF DBSync, RunOK, JobOK
  <2>4. Migrated'
    BY <1>1, <1>4, <2>1, <2>2, Nothing DEF DBSync, svcVars, Migrated, Known
  <2>5. Granted' /\ ConfigAccountWorks'
    BY <1>1, <1>4 DEF DBSync, manilaVars, mariadbVars, Granted, ConfigAccountWorks
  <2> QED
    BY <2>3, <2>4, <2>5
       DEF Parts, DBSync, mariadbVars, svcVars, manilaVars, MariaDBOK, ServicesOK, RestOK, Named
<1> QED
  BY <1>2, <1>3, <1>4 DEF DBSync

(* The sub-CRs that the last two steps write, and the pods they lead to.   *)
LEMMA DeployType ==
  ASSUME ServicesOK, NEW g \in Groups, NEW s \in Setting, NEW c,
         c = [cr EXCEPT ![g] = s]
  PROVE  c \in [Groups -> Setting] /\ c[g] = s /\ \A h \in Groups \ {g} : c[h] = cr[h]
  BY DEF ServicesOK

(* DeployAPI: the image has been migrated, the account in use stays held.  *)
LEMMA DeployAPIInv == ASSUME Parts, DeployAPI PROVE Parts'
<1>1. /\ MariaDBOK /\ RunOK /\ ServicesOK /\ Migrated /\ Granted /\ ConfigAccountWorks
      /\ stage = "api" /\ snap \in Setting /\ snap # Unset
  BY DEF Parts, DeployAPI, RunOK
<1>2. cr' \in [Groups -> Setting] /\ cr'["api"] = snap
  BY <1>1, DeployType DEF DeployAPI, Groups
<1>3. ServicesOK'
  BY <1>1, <1>2 DEF DeployAPI, ServicesOK
<1>4. MariaDBOK'
  BY <1>1 DEF DeployAPI, HeldAfterAPI, MariaDBOK
<1>5. (cr' # cr) \in BOOLEAN /\ queued' \in BOOLEAN
  BY <1>1 DEF DeployAPI, RunOK
<1>6. RunOK'
  BY <1>1, <1>5 DEF DeployAPI, RunOK
<1>7. JobOK' /\ RestOK'
  BY DEF Parts, DeployAPI, jobVars, manilaVars, JobOK, RestOK, Named
<1>8. Migrated'
  BY <1>1, <1>2 DEF DeployAPI, jobVars, Migrated, Known
<1>9. Granted' /\ ConfigAccountWorks'
  BY <1>1 DEF DeployAPI, manilaVars, HeldAfterAPI, Unused, Granted, ConfigAccountWorks
<1> QED
  BY <1>3, <1>4, <1>6, <1>7, <1>8, <1>9 DEF Parts

(* The sub-CRs of the other services are no business of SchemaFirst.       *)
LEMMA OtherSetting ==
  ASSUME RunOK
  PROVE  [snap EXCEPT !.image = 0] \in Setting
  BY Bounds DEF RunOK, Setting

(* DeployOthers: the db-purge has a migrated image, too.                   *)
LEMMA DeployOthersInv == ASSUME Parts, DeployOthers PROVE Parts'
<1>1. /\ RunOK /\ ServicesOK /\ JobOK /\ Migrated /\ Granted /\ ConfigAccountWorks
      /\ stage = "others" /\ snap \in Setting /\ snap.image \in 0..NumImages
  BY DEF Parts, DeployOthers, RunOK, Setting
<1>2. cr' \in [Groups -> Setting] /\ cr'["api"] = cr["api"]
  <2>1. [snap EXCEPT !.image = 0] \in Setting
    BY <1>1, OtherSetting
  <2>2. cr' = [cr EXCEPT !["others"] = [snap EXCEPT !.image = 0]]
    BY DEF DeployOthers
  <2> QED
    BY <1>1, <2>1, <2>2 DEF ServicesOK, Groups
<1>3. ServicesOK'
  BY <1>1, <1>2 DEF DeployOthers, ServicesOK
<1>4. JobOK'
  BY <1>1 DEF DeployOthers, JobOK
<1>5. RunOK'
  BY <1>1, Nothing DEF DeployOthers, RunOK
<1>6. MariaDBOK' /\ RestOK'
  BY DEF Parts, DeployOthers, mariadbVars, manilaVars, MariaDBOK, RestOK, Named
<1>7. Migrated'
  BY <1>1, <1>2 DEF DeployOthers, Migrated, Known
<1>8. Granted' /\ ConfigAccountWorks'
  BY <1>1 DEF DeployOthers, mariadbVars, manilaVars, Granted, ConfigAccountWorks
<1> QED
  BY <1>3, <1>4, <1>5, <1>6, <1>7, <1>8 DEF Parts

(* Fault: whichever of the writes are done, Reconcile starts over, and an  *)
(* interrupted release spares the account in use.                          *)
LEMMA FaultInv == ASSUME Parts, Fault PROVE Parts'
<1>1. /\ MariaDBOK /\ RunOK /\ ServicesOK /\ JobOK /\ RestOK
      /\ Migrated /\ Granted /\ ConfigAccountWorks
      /\ snap \in Setting /\ snap.account \in 0..NumAccounts
  BY DEF Parts, RunOK, Setting
<1>2. /\ stage' = "idle" /\ snap' = Unset /\ queued' = TRUE
      /\ UNCHANGED <<life, spec, users, synced, purge, template, pods, hash, hasty, edits>>
      /\ faults' = faults + 1 /\ faults < MaxFaults
  BY DEF Fault, Requeue, manilaVars
<1>3. RestOK'
  BY <1>1, <1>2, Bounds DEF RestOK, Named
<1>4. CASE /\ Starts
           /\ EnsureAccount(spec.account) /\ (ClaimDatabase \/ UNCHANGED <<database, dbHeld>>)
           /\ UNCHANGED <<labelled, held, config, job, cr>>
  <2>1. MariaDBOK'
    BY <1>1, <1>2, <1>4 DEF MariaDBOK, RestOK, Named, EnsureAccount, ClaimDatabase
  <2>2. RunOK' /\ JobOK' /\ ServicesOK'
    BY <1>1, <1>2, <1>4, Nothing DEF RunOK, JobOK, ServicesOK
  <2>3. Migrated' /\ Granted' /\ ConfigAccountWorks'
    BY <1>1, <1>2, <1>4 DEF Migrated, Known, Granted, ConfigAccountWorks
  <2> QED
    BY <1>3, <2>1, <2>2, <2>3 DEF Parts
<1>5. CASE /\ stage = "config" /\ config' = snap.account
           /\ UNCHANGED <<account, labelled, held, database, dbHeld, job, cr>>
  <2>1. MariaDBOK' /\ RunOK' /\ JobOK' /\ ServicesOK'
    BY <1>1, <1>2, <1>5, Nothing DEF MariaDBOK, RunOK, JobOK, ServicesOK
  <2>2. Migrated' /\ Granted' /\ ConfigAccountWorks'
    BY <1>1, <1>2, <1>5 DEF Migrated, Known, Granted, ConfigAccountWorks
  <2> QED
    BY <1>3, <2>1, <2>2 DEF Parts
<1>6. CASE /\ job' = NoJob
           /\ UNCHANGED <<account, labelled, held, database, dbHeld, config, cr>>
  <2>1. MariaDBOK' /\ RunOK' /\ JobOK' /\ ServicesOK'
    BY <1>1, <1>2, <1>6, Nothing DEF MariaDBOK, RunOK, JobOK, ServicesOK
  <2>2. Migrated' /\ Granted' /\ ConfigAccountWorks'
    BY <1>1, <1>2, <1>6, Nothing DEF Migrated, Known, Granted, ConfigAccountWorks
  <2> QED
    BY <1>3, <2>1, <2>2 DEF Parts
<1>7. CASE /\ stage = "api"
           /\ \/ UNCHANGED <<cr, held>>
              \/ /\ cr' = [cr EXCEPT !["api"] = snap]
                 /\ \E some \in SUBSET Unused : held' = held \ some
           /\ UNCHANGED <<account, labelled, database, dbHeld, config, job>>
  <2>1. held' \subseteq held /\ (snap.account \in held => snap.account \in held')
    BY <1>7 DEF Unused
  <2>2. cr' \in [Groups -> Setting] /\ cr'["api"] \in {cr["api"], snap}
    BY <1>1, <1>7, DeployType DEF ServicesOK, Groups
  <2>3. MariaDBOK' /\ RunOK' /\ JobOK' /\ ServicesOK'
    BY <1>1, <1>2, <1>7, <2>1, <2>2, Nothing DEF MariaDBOK, RunOK, JobOK, ServicesOK
  <2>4. Migrated'
    BY <1>1, <1>2, <1>7, <2>2 DEF Migrated, Known
  <2>5. Granted' /\ ConfigAccountWorks'
    BY <1>1, <1>2, <1>7, <2>1 DEF Granted, ConfigAccountWorks
  <2> QED
    BY <1>3, <2>3, <2>4, <2>5 DEF Parts
<1>8. CASE /\ stage = "others"
           /\ cr' \in {cr, [cr EXCEPT !["others"] = [snap EXCEPT !.image = 0]]}
           /\ UNCHANGED <<account, labelled, held, database, dbHeld, config, job>>
  <2>1. cr' \in [Groups -> Setting] /\ cr'["api"] = cr["api"]
    BY <1>1, <1>8, DeployType, OtherSetting DEF ServicesOK, Groups
  <2>2. MariaDBOK' /\ RunOK' /\ JobOK' /\ ServicesOK'
    BY <1>1, <1>2, <1>8, <2>1, Nothing DEF MariaDBOK, RunOK, JobOK, ServicesOK
  <2>3. Migrated' /\ Granted' /\ ConfigAccountWorks'
    BY <1>1, <1>2, <1>8, <2>1 DEF Migrated, Known, Granted, ConfigAccountWorks
  <2> QED
    BY <1>3, <2>2, <2>3 DEF Parts
<1> QED
  BY <1>4, <1>5, <1>6, <1>7, <1>8 DEF Fault

(* ReconcileDelete and DeleteFault let go of a Manila CR that is not live. *)
LEMMA DeletionInv == ASSUME Parts, ReconcileDelete \/ DeleteFault PROVE Parts'
<1>1. /\ MariaDBOK /\ RunOK /\ RestOK /\ life # "live" /\ life' # "live"
      /\ stage = "idle" /\ stage' = "idle"
  BY DEF Parts, ReconcileDelete, DeleteFault, manilaVars
<1>2. MariaDBOK'
  BY <1>1 DEF ReconcileDelete, DeleteFault, MariaDBOK
<1>3. RestOK'
  <2>1. UNCHANGED <<spec, hasty, edits>> /\ life' \in {life, "gone"}
    BY DEF ReconcileDelete, DeleteFault, manilaVars
  <2>2. faults' = faults \/ (faults < MaxFaults /\ faults' = faults + 1)
    BY DEF ReconcileDelete, DeleteFault
  <2>3. faults' \in 0..MaxFaults
    BY <1>1, <2>2, Bounds DEF RestOK
  <2> QED
    BY <1>1, <2>1, <2>3 DEF RestOK, Named
<1>4. RunOK'
  BY <1>1 DEF ReconcileDelete, DeleteFault, RunOK
<1>5. JobOK' /\ ServicesOK'
  BY DEF Parts, ReconcileDelete, DeleteFault, jobVars, svcVars, JobOK, ServicesOK
<1>6. Migrated'
  BY <1>1 DEF Parts, ReconcileDelete, DeleteFault, jobVars, svcVars, Migrated, Known
<1> QED
  BY <1>1, <1>2, <1>3, <1>4, <1>5, <1>6 DEF Parts, Granted, ConfigAccountWorks

(***************************************************************************)
(* The service controllers, the pods and the job.                          *)
(***************************************************************************)

(* What neither touches the Manila CR, nor the mariadb objects, nor what   *)
(* Reconcile works with, leaves their parts as they are.                   *)
LEMMA ServicesOnly ==
  ASSUME Parts,
         UNCHANGED <<manilaVars, mariadbVars, jobVars, config, hash, stage, snap, hasty,
                     edits, faults>>,
         queued' \in BOOLEAN, ServicesOK',
         cr'["api"].image \in Known, template'["api"].image \in Known,
         \A p \in pods'["api"] : p.image \in Known
  PROVE  Parts'
<1>1. MariaDBOK' /\ JobOK' /\ RunOK' /\ RestOK'
  BY DEF Parts, manilaVars, mariadbVars, jobVars, MariaDBOK, JobOK, RunOK, RestOK, Named
<1>2. Migrated'
  BY DEF Parts, jobVars, Migrated, Known
<1>3. Granted' /\ ConfigAccountWorks'
  BY DEF Parts, manilaVars, mariadbVars, Granted, ConfigAccountWorks
<1> QED
  BY <1>1, <1>2, <1>3 DEF Parts

(* A service controller takes the image of the CR, pods that of the        *)
(* template.                                                               *)
LEMMA ServiceInv ==
  ASSUME Parts, NEW g \in Groups, ServiceDeploy(g) \/ PodStart(g) \/ PodFinish(g)
  PROVE  Parts'
<1>1. ServicesOK /\ Migrated /\ RunOK /\ cr[g] \in Setting /\ template[g] \in Setting
  BY DEF Parts, ServicesOK
<1>2. CASE ServiceDeploy(g)
  <2> DEFINE t == [account |-> config, image |-> cr[g].image]
  <2>1. t \in Setting /\ t.image = cr[g].image
    BY <1>1 DEF Setting, RunOK
  <2>2. template' = [template EXCEPT ![g] = t] /\ cr' = cr /\ pods' = pods
    BY <1>2 DEF ServiceDeploy
  <2> HIDE DEF t
  <2>3. /\ template' \in [Groups -> Setting]
        /\ template'["api"] = template["api"] \/ (g = "api" /\ template'["api"] = t)
    BY <1>1, <2>1, <2>2 DEF ServicesOK, Groups
  <2>4. template'["api"].image \in Known
    BY <1>1, <2>1, <2>3 DEF Migrated
  <2>5. ServicesOK'
    BY <1>1, <2>2, <2>3 DEF ServicesOK
  <2>6. queued' \in BOOLEAN
    BY <1>2 DEF ServiceDeploy
  <2> QED
    BY <1>1, <1>2, <2>2, <2>4, <2>5, <2>6, ServicesOnly DEF ServiceDeploy, Migrated
<1>3. CASE PodStart(g)
  <2>1. /\ pods' \in [Groups -> SUBSET Setting]
        /\ pods'["api"] \subseteq pods["api"] \cup {template["api"]}
    BY <1>1, <1>3 DEF PodStart, ServicesOK, Groups
  <2>2. ServicesOK' /\ \A p \in pods'["api"] : p.image \in Known
    BY <1>1, <1>3, <2>1 DEF PodStart, ServicesOK, Migrated
  <2> QED
    BY <1>1, <1>3, <2>2, ServicesOnly DEF PodStart, Migrated, RunOK
<1>4. CASE PodFinish(g)
  <2>1. /\ pods' \in [Groups -> SUBSET Setting]
        /\ pods'["api"] \subseteq pods["api"] \cup {template["api"]}
    BY <1>1, <1>4 DEF PodFinish, ServicesOK, Groups
  <2>2. ServicesOK' /\ \A p \in pods'["api"] : p.image \in Known
    BY <1>1, <1>4, <2>1 DEF PodFinish, ServicesOK, Migrated
  <2> QED
    BY <1>1, <1>4, <2>2, ServicesOnly DEF PodFinish, Migrated, RunOK
<1> QED
  BY <1>2, <1>3, <1>4

(* The job that finishes has migrated the schema for its image.            *)
LEMMA JobFinishesInv == ASSUME Parts, JobFinishes PROVE Parts'
<1>1. /\ JobOK /\ RunOK /\ Migrated /\ job \in Job /\ job.state = "running"
      /\ job \in [image : 0..NumImages, state : {"none", "running", "complete"}]
  BY DEF Parts, JobFinishes, JobOK, Job
<1>2. /\ job' \in Job /\ job'.image = job.image /\ job'.state = "complete"
      /\ job' # NoJob
  BY <1>1 DEF JobFinishes, Job, NoJob
<1>3. job.image \in Images
  BY <1>1 DEF Migrated
<1>4. JobOK'
  BY <1>1, <1>2, <1>3 DEF JobFinishes, JobOK
<1>5. synced \subseteq synced' /\ job'.image \in synced'
  BY <1>2 DEF JobFinishes
<1>6. Migrated'
  BY <1>1, <1>2, <1>5 DEF JobFinishes, svcVars, Migrated, Known
<1>7. MariaDBOK' /\ ServicesOK' /\ RunOK' /\ RestOK'
  BY DEF Parts, JobFinishes, mariadbVars, svcVars, manilaVars, MariaDBOK, ServicesOK, RunOK,
         RestOK, Named
<1>8. Granted' /\ ConfigAccountWorks'
  BY DEF Parts, JobFinishes, mariadbVars, manilaVars, Granted, ConfigAccountWorks
<1> QED
  BY <1>4, <1>6, <1>7, <1>8 DEF Parts

(***************************************************************************)
(* The mariadb-operator, the owners and the garbage collector.             *)
(***************************************************************************)

(* CreateDatabase, CreateUser and DropUser: a user that is held stays.     *)
LEMMA MariaDBOperatorInv == ASSUME Parts, MariaDBOperator PROVE Parts'
<1>1. MariaDBOK /\ Granted /\ ConfigAccountWorks
  BY DEF Parts
<1>2. /\ UNCHANGED <<manilaVars, held, dbHeld, jobVars, svcVars, config, hash, stage, snap,
                     queued, hasty, edits, faults>>
      /\ database' \in {"absent", "requested", "ready"}
      /\ account' \in [Accounts -> {"absent", "present", "deleting"}]
      /\ labelled' \subseteq Accounts /\ users' \subseteq Accounts
      /\ held \cap users \subseteq users'
  <2>1. CASE CreateDatabase
    BY <1>1, <2>1 DEF CreateDatabase, MariaDBOK
  <2>2. ASSUME NEW a \in Accounts, CreateUser(a)
        PROVE  <1>2!1 /\ <1>2!2 /\ <1>2!3 /\ <1>2!4 /\ <1>2!5
    BY <1>1, <2>2 DEF CreateUser, MariaDBOK
  <2>3. ASSUME NEW a \in Accounts, DropUser(a)
        PROVE  <1>2!1 /\ <1>2!2 /\ <1>2!3 /\ <1>2!4 /\ <1>2!5
    BY <1>1, <2>3 DEF DropUser, MariaDBOK
  <2> QED
    BY <2>1, <2>2, <2>3 DEF MariaDBOperator
<1>3. MariaDBOK'
  BY <1>1, <1>2 DEF MariaDBOK
<1>4. JobOK' /\ ServicesOK' /\ RunOK' /\ RestOK' /\ Migrated'
  BY <1>2
     DEF Parts, manilaVars, jobVars, svcVars, JobOK, ServicesOK, RunOK, RestOK, Named,
         Migrated, Known
<1>5. Granted' /\ ConfigAccountWorks'
  BY <1>1, <1>2 DEF manilaVars, Granted, ConfigAccountWorks
<1> QED
  BY <1>3, <1>4, <1>5 DEF Parts

(* An edit changes what later Reconciles read, a deletion what they find.  *)
LEMMA OwnerInv ==
  ASSUME Parts, EditSpec \/ DeleteManila \/ \E a \in Accounts : DeleteAccount(a)
  PROVE  Parts'
<1>1. MariaDBOK /\ RunOK /\ RestOK /\ Granted /\ ConfigAccountWorks
  BY DEF Parts
<1>2. /\ UNCHANGED <<labelled, held, users, database, dbHeld, jobVars, svcVars, config, hash,
                     stage, snap, faults>>
      /\ queued' \in BOOLEAN
      /\ life' \in {life, "deleting"} /\ (life' = "live" => life = "live")
  BY <1>1 DEF EditSpec, DeleteManila, DeleteAccount, manilaVars, mariadbVars, RunOK
<1>3. MariaDBOK'
  BY <1>1, <1>2
     DEF EditSpec, DeleteManila, DeleteAccount, mariadbVars, MariaDBOK
<1>4. RestOK'
  <2>1. CASE EditSpec
    <3>1. edits' \in 0..MaxEdits /\ Named'
      BY <1>1, <2>1, Bounds DEF EditSpec, RestOK, Named
    <3>2. hasty' \in BOOLEAN
      BY <1>1, <2>1 DEF EditSpec, RestOK
    <3> QED
      BY <1>1, <2>1, <3>1, <3>2 DEF EditSpec, RestOK
  <2>2. CASE DeleteManila
    BY <1>1, <2>2 DEF DeleteManila, RestOK, Named
  <2>3. CASE \E a \in Accounts : DeleteAccount(a)
    BY <1>1, <2>3 DEF DeleteAccount, manilaVars, RestOK, Named
  <2> QED
    BY <2>1, <2>2, <2>3
<1>5. JobOK' /\ ServicesOK' /\ RunOK' /\ Migrated'
  BY <1>2 DEF Parts, jobVars, svcVars, JobOK, ServicesOK, RunOK, Migrated, Known
<1>6. Granted' /\ ConfigAccountWorks'
  BY <1>1, <1>2 DEF Granted, ConfigAccountWorks
<1> QED
  BY <1>3, <1>4, <1>5, <1>6 DEF Parts

(* Collect comes after the Manila CR has gone.                             *)
LEMMA CollectInv == ASSUME Parts, Collect PROVE Parts'
<1>1. MariaDBOK /\ JobOK /\ RunOK /\ Migrated /\ life = "gone" /\ life' = "gone"
  BY DEF Parts, Collect, manilaVars
<1>2. /\ cr' = [g \in Groups |-> Unset] /\ template' = [g \in Groups |-> Unset]
      /\ pods' = [g \in Groups |-> {}] /\ job' = NoJob /\ purge' = 0 /\ config' = 0
      /\ UNCHANGED <<synced, hash, stage, snap, queued>>
  BY DEF Collect
<1>3. MariaDBOK' /\ RestOK'
  BY <1>1 DEF Parts, Collect, manilaVars, MariaDBOK, RestOK, Named
<1>4. JobOK' /\ ServicesOK' /\ RunOK'
  BY <1>1, <1>2, Nothing, Bounds DEF JobOK, ServicesOK, RunOK
<1>5. Migrated'
  <2>1. cr'["api"] = Unset /\ template'["api"] = Unset /\ pods'["api"] = {}
    BY <1>2 DEF Groups
  <2> QED
    BY <1>1, <1>2, <2>1, Nothing DEF Migrated, Known
<1> QED
  BY <1>1, <1>3, <1>4, <1>5 DEF Parts, Granted, ConfigAccountWorks

(* Every action keeps the invariant.                                       *)
LEMMA NextInv == IInv /\ [Next]_vars => IInv'
<1> SUFFICES ASSUME Parts, [Next]_vars PROVE Parts'
  BY PartsInv
<1>1. CASE ManilaController
  BY <1>1, EnsureDBInv, PublishConfigInv, DBSyncInv, DeployAPIInv, DeployOthersInv, DeletionInv
     DEF ManilaController
<1>2. CASE Fault \/ DeleteFault
  BY <1>2, FaultInv, DeletionInv
<1>3. CASE JobFinishes \/ MariaDBOperator
  BY <1>3, JobFinishesInv, MariaDBOperatorInv
<1>4. CASE \E g \in Groups : ServiceDeploy(g) \/ PodStart(g) \/ PodFinish(g)
  BY <1>4, ServiceInv
<1>5. CASE EditSpec \/ DeleteManila \/ \E a \in Accounts : DeleteAccount(a)
  BY <1>5, OwnerInv
<1>6. CASE Collect
  BY <1>6, CollectInv
<1>7. CASE UNCHANGED vars
  BY <1>7
     DEF vars, manilaVars, mariadbVars, jobVars, svcVars, Parts, MariaDBOK, JobOK, ServicesOK,
         RunOK, RestOK, Named, Migrated, Known, Granted, ConfigAccountWorks
<1> QED
  BY <1>1, <1>2, <1>3, <1>4, <1>5, <1>6, <1>7 DEF Next

(* The invariant holds throughout.                                         *)
THEOREM Invariance == Spec => []IInv
  BY InitInv, NextInv, PTL DEF Spec

(* Every variable of the database's life cycle keeps its type.             *)
THEOREM TypeCorrect == Spec => []TypeOK
<1>1. IInv => TypeOK
  BY DEF IInv
<1> QED
  BY <1>1, Invariance, PTL

(* No API and no db-purge of an image touches the database before db-sync  *)
(* of that image has migrated the schema (reconcileInit).                  *)
THEOREM SchemaComesFirst == Spec => []SchemaFirst
<1>1. IInv => SchemaFirst
  BY DEF IInv, Migrated, Known, SchemaFirst
<1> QED
  BY <1>1, Invariance, PTL

(* The account that the stored config-data connects as is claimed and has  *)
(* its user (ensureDB, DeleteUnusedMariaDBAccountFinalizers).              *)
THEOREM ConfigIsUsable == Spec => []ConfigAccountWorks
<1>1. IInv => ConfigAccountWorks
  BY DEF IInv
<1> QED
  BY <1>1, Invariance, PTL

-----------------------------------------------------------------------------
(***************************************************************************)
(* No pod loses its user: the account of a pod was held, with its user,    *)
(* when the config-data named it; it is let go of before the pod moves to  *)
(* another one, so all hangs on when it may be deleted.                    *)
(***************************************************************************)

HeldIsLabelled == held \subseteq labelled

(* A Manila CR that is not queued has not been edited since Reconcile read *)
(* it; once the API is deployed only the account of the spec is held.      *)
ReconcileIsCurrent ==
  life = "live" /\ ~queued =>
    /\ stage # "idle" => snap = spec
    /\ stage \in {"others", "idle"} => held \subseteq {spec.account}

(* There are sub-CRs only when there is a config-data.                     *)
Configured == life = "live" => \A g \in Groups : cr[g] # Unset => config # 0

(* What the pods of a group run, or are about to.                          *)
Running(g) == pods[g] \cup ({template[g]} \ {Unset})

(* An account that is being deleted is not held, and nothing runs on it.   *)
Spared ==
  life = "live" /\ ~hasty =>
    \A a \in Accounts : account[a] = "deleting" =>
      a \notin held /\ \A g \in Groups : \A p \in Running(g) : p.account # a

(* Every account that something runs on has its user.                      *)
Connected ==
  life = "live" /\ ~hasty => \A g \in Groups : \A p \in Running(g) : p.account \in users

Connection == HeldIsLabelled /\ ReconcileIsCurrent /\ Configured /\ Spared /\ Connected

(* A Manila CR that is deleted, and a hasty deletion, are for good.        *)
LEMMA ForGood ==
  ASSUME [Next]_vars
  PROVE  (life' = "live" => life = "live") /\ (~hasty' => ~hasty)
<1> USE DEF manilaVars
<1>1. CASE ManilaController \/ Fault \/ DeleteFault
  <2>1. CASE EnsureDB \/ PublishConfig \/ DBSync
    BY <2>1 DEF EnsureDB, PublishConfig, DBSync
  <2>2. CASE DeployAPI \/ DeployOthers
    <3>1. UNCHANGED manilaVars /\ UNCHANGED hasty
      BY <2>2, Zenon DEF DeployAPI, DeployOthers
    <3> QED
      BY <3>1
  <2>3. CASE Fault \/ DeleteFault
    BY <2>3 DEF Fault, DeleteFault
  <2>4. CASE ReconcileDelete
    BY <2>4 DEF ReconcileDelete
  <2> QED
    BY <1>1, <2>1, <2>2, <2>3, <2>4 DEF ManilaController
<1>2. CASE JobFinishes \/ MariaDBOperator \/ Collect
  BY <1>2 DEF JobFinishes, MariaDBOperator, CreateDatabase, CreateUser, DropUser, Collect
<1>3. CASE \E g \in Groups : ServiceDeploy(g) \/ PodStart(g) \/ PodFinish(g)
  BY <1>3 DEF ServiceDeploy, PodStart, PodFinish
<1>4. CASE EditSpec \/ DeleteManila \/ \E a \in Accounts : DeleteAccount(a)
  BY <1>4 DEF EditSpec, DeleteManila, DeleteAccount
<1>5. CASE UNCHANGED vars
  BY <1>5 DEF vars
<1> QED
  BY <1>1, <1>2, <1>3, <1>4, <1>5 DEF Next

(* What is claimed belongs to the database, and an account loses its label *)
(* only with its finalizer gone.                                           *)
LEMMA LabelledStep ==
  ASSUME HeldIsLabelled, [Next]_vars
  PROVE  HeldIsLabelled'
<1> USE DEF HeldIsLabelled, mariadbVars
<1>1. CASE EnsureDB
  BY <1>1 DEF EnsureDB, ClaimAccount
<1>2. CASE PublishConfig \/ DBSync \/ DeployAPI \/ DeployOthers \/ ReconcileDelete
  BY <1>2 DEF PublishConfig, DBSync, DeployAPI, HeldAfterAPI, DeployOthers, ReconcileDelete
<1>3. CASE Fault \/ DeleteFault
  BY <1>3 DEF Fault, DeleteFault
<1>4. CASE JobFinishes \/ MariaDBOperator \/ Collect
  BY <1>4 DEF JobFinishes, MariaDBOperator, CreateDatabase, CreateUser, DropUser, Collect
<1>5. CASE \E g \in Groups : ServiceDeploy(g) \/ PodStart(g) \/ PodFinish(g)
  BY <1>5 DEF ServiceDeploy, PodStart, PodFinish
<1>6. CASE EditSpec \/ DeleteManila \/ \E a \in Accounts : DeleteAccount(a)
  BY <1>6 DEF EditSpec, DeleteManila, DeleteAccount
<1>7. CASE UNCHANGED vars
  BY <1>7 DEF vars
<1> QED
  BY <1>1, <1>2, <1>3, <1>4, <1>5, <1>6, <1>7 DEF Next, ManilaController

(* Every edit, fault and restart queues the Manila CR again.               *)
LEMMA CurrentStep ==
  ASSUME HeldIsLabelled, ReconcileIsCurrent, [Next]_vars
  PROVE  ReconcileIsCurrent'
<1> SUFFICES ASSUME life = "live", life' = "live", ~queued' PROVE ReconcileIsCurrent'
  BY ForGood DEF ReconcileIsCurrent
<1>1. CASE EnsureDB
  BY <1>1 DEF EnsureDB, Requeue, manilaVars, ReconcileIsCurrent
<1>2. CASE PublishConfig \/ DBSync
  BY <1>2 DEF PublishConfig, DBSync, Requeue, manilaVars, ReconcileIsCurrent
<1>3. CASE DeployAPI
  <2>1. ~queued /\ stage = "api" /\ snap = spec
    BY <1>3 DEF DeployAPI, ReconcileIsCurrent
  <2>2. held' \subseteq {spec.account}
    BY <1>3, <2>1 DEF DeployAPI, HeldAfterAPI, Unused, HeldIsLabelled
  <2> QED
    BY <1>3, <2>1, <2>2 DEF DeployAPI, manilaVars, ReconcileIsCurrent
<1>4. CASE DeployOthers
  BY <1>4 DEF DeployOthers, manilaVars, mariadbVars, ReconcileIsCurrent
<1>5. ~Fault /\ ~ReconcileDelete /\ ~DeleteFault /\ ~Collect /\ ~EditSpec /\ ~DeleteManila
  BY DEF Fault, Requeue, ReconcileDelete, DeleteFault, Collect, EditSpec, DeleteManila
<1>6. CASE MariaDBOperator \/ (\E a \in Accounts : DeleteAccount(a)) \/ UNCHANGED vars
  BY <1>6 DEF MariaDBOperator, CreateDatabase, CreateUser, DropUser, DeleteAccount, vars,
     manilaVars, mariadbVars, ReconcileIsCurrent
<1>7. CASE JobFinishes \/ \E g \in Groups : ServiceDeploy(g) \/ PodStart(g) \/ PodFinish(g)
  BY <1>7 DEF JobFinishes, ServiceDeploy, PodStart, PodFinish, manilaVars, mariadbVars,
     ReconcileIsCurrent
<1> QED
  BY <1>1, <1>2, <1>3, <1>4, <1>5, <1>6, <1>7 DEF Next, ManilaController

(* The account that Reconcile deploys is an account, not none.             *)
LEMMA SnapIsAccount ==
  ASSUME Parts, life = "live", stage # "idle"
  PROVE  snap.account # 0 /\ (stage \in {"api", "others"} => config # 0)
  BY Bounds DEF Parts, MariaDBOK, Granted

(* Reconcile stores the config-data before it deploys anything.            *)
LEMMA ConfiguredStep ==
  ASSUME Parts, Configured, [Next]_vars
  PROVE  Configured'
<1> SUFFICES ASSUME life = "live", life' = "live" PROVE Configured'
  BY ForGood DEF Configured
<1> USE DEF Configured, svcVars
<1>1. CASE EnsureDB \/ DBSync
  BY <1>1 DEF EnsureDB, DBSync
<1>2. CASE PublishConfig
  BY <1>2, SnapIsAccount DEF PublishConfig
<1>3. CASE DeployAPI \/ DeployOthers
  BY <1>3, SnapIsAccount DEF DeployAPI, DeployOthers
<1>4. CASE Fault
  <2>1. \/ config' = config /\ cr' = cr
        \/ stage = "config" /\ config' = snap.account
        \/ stage \in {"api", "others"} /\ config' = config
    BY <1>4 DEF Fault
  <2> QED
    BY <2>1, SnapIsAccount
<1>5. CASE ReconcileDelete \/ DeleteFault \/ JobFinishes \/ MariaDBOperator \/ Collect
  BY <1>5 DEF ReconcileDelete, DeleteFault, JobFinishes, MariaDBOperator, CreateDatabase,
     CreateUser, DropUser, Collect
<1>6. CASE \E g \in Groups : ServiceDeploy(g) \/ PodStart(g) \/ PodFinish(g)
  BY <1>6 DEF ServiceDeploy, PodStart, PodFinish
<1>7. CASE EditSpec \/ DeleteManila \/ \E a \in Accounts : DeleteAccount(a)
  BY <1>7 DEF EditSpec, DeleteManila, DeleteAccount
<1>8. CASE UNCHANGED vars
  BY <1>8 DEF vars
<1> QED
  BY <1>1, <1>2, <1>3, <1>4, <1>5, <1>6, <1>7, <1>8 DEF Next, ManilaController

(* A service comes to run on another account only through the config-data, *)
(* in a step that touches no account.                                      *)
LEMMA RunningStep ==
  ASSUME Parts, Configured, [Next]_vars, life = "live", NEW g \in Groups
  PROVE  \/ UNCHANGED <<pods, template>>
         \/ /\ UNCHANGED mariadbVars
            /\ \A p \in Running(g)' : p \in Running(g) \/ (p.account = config /\ config # 0)
<1>1. ServicesOK
  BY DEF Parts
<1>2. CASE ManilaController \/ Fault \/ DeleteFault
  BY <1>2 DEF ManilaController, EnsureDB, PublishConfig, DBSync, DeployAPI, DeployOthers,
     ReconcileDelete, Fault, DeleteFault, svcVars
<1>3. CASE JobFinishes \/ MariaDBOperator \/ Collect
  BY <1>3 DEF JobFinishes, MariaDBOperator, CreateDatabase, CreateUser, DropUser, Collect, svcVars
<1>4. ASSUME NEW h \in Groups, ServiceDeploy(h)
      PROVE  /\ UNCHANGED mariadbVars
             /\ \A p \in Running(g)' : p \in Running(g) \/ (p.account = config /\ config # 0)
  <2>1. config # 0 /\ UNCHANGED <<mariadbVars, pods>>
    BY <1>4 DEF ServiceDeploy, Configured
  <2>2. template'[g] = template[g] \/ template'[g].account = config
    BY <1>1, <1>4 DEF ServiceDeploy, ServicesOK
  <2> QED
    BY <2>1, <2>2 DEF Running
<1>5. ASSUME NEW h \in Groups, PodStart(h) \/ PodFinish(h)
      PROVE  UNCHANGED mariadbVars /\ Running(g)' \subseteq Running(g)
  <2>1. /\ UNCHANGED <<mariadbVars, template>>
        /\ pods'[g] \subseteq Running(g)
    BY <1>1, <1>5 DEF PodStart, PodFinish, ServicesOK, Running
  <2> QED
    BY <2>1 DEF Running
<1>6. CASE EditSpec \/ DeleteManila \/ \E a \in Accounts : DeleteAccount(a)
  BY <1>6 DEF EditSpec, DeleteManila, DeleteAccount, svcVars
<1>7. CASE UNCHANGED vars
  BY <1>7 DEF vars, svcVars
<1> QED
  BY <1>2, <1>3, <1>4, <1>5, <1>6, <1>7 DEF Next

(* How an account comes to be deleted, claimed and without a user.         *)
LEMMA AccountStep ==
  ASSUME Parts, [Next]_vars, NEW a \in Accounts
  PROVE  /\ account'[a] = "deleting" => account[a] = "deleting" \/ DeleteAccount(a)
         /\ account[a] = "deleting" /\ a \notin held => a \notin held'
         /\ a \in users => a \in users' \/ (account[a] = "deleting" /\ a \notin held)
<1>1. MariaDBOK /\ spec.account \in Accounts
  BY DEF Parts, RestOK, Named
<1> USE DEF MariaDBOK, mariadbVars
<1>2. CASE EnsureDB
  BY <1>1, <1>2 DEF EnsureDB, EnsureAccount, ClaimAccount, Refused
<1>3. CASE PublishConfig \/ DBSync \/ DeployAPI \/ DeployOthers \/ ReconcileDelete
  BY <1>3 DEF PublishConfig, DBSync, DeployAPI, HeldAfterAPI, DeployOthers, ReconcileDelete
<1>4. CASE Fault \/ DeleteFault
  BY <1>1, <1>4 DEF Fault, EnsureAccount, DeleteFault
<1>5. CASE JobFinishes \/ Collect \/ UNCHANGED vars
  BY <1>5 DEF JobFinishes, Collect, vars
<1>6. CASE MariaDBOperator
  BY <1>1, <1>6 DEF MariaDBOperator, CreateDatabase, CreateUser, DropUser
<1>7. CASE \E g \in Groups : ServiceDeploy(g) \/ PodStart(g) \/ PodFinish(g)
  BY <1>7 DEF ServiceDeploy, PodStart, PodFinish
<1>8. CASE EditSpec \/ DeleteManila
  BY <1>8 DEF EditSpec, DeleteManila
<1>9. ASSUME NEW b \in Accounts, DeleteAccount(b)
      PROVE  /\ account'[a] = "deleting" => account[a] = "deleting" \/ DeleteAccount(a)
             /\ held' = held /\ users' = users
  BY <1>1, <1>9 DEF DeleteAccount
<1> QED
  BY <1>2, <1>3, <1>4, <1>5, <1>6, <1>7, <1>8, <1>9 DEF Next, ManilaController

(* An account that is deleted at rest is not held, and nothing runs on it. *)
LEMMA DeletedAtRest ==
  ASSUME ReconcileIsCurrent, life = "live", ~hasty', NEW a \in Accounts, DeleteAccount(a),
         NEW g \in Groups, NEW p \in Running(g)
  PROVE  a \notin held /\ p.account # a
<1>1. AtRest /\ a # spec.account
  BY DEF DeleteAccount
<1>2. held \subseteq {spec.account}
  BY <1>1 DEF AtRest, ReconcileIsCurrent
<1>3. p = template[g] /\ p.account = spec.account
  BY <1>1 DEF AtRest, Running
<1> QED
  BY <1>1, <1>2, <1>3

(* It is given up for good: Reconcile claims it no more until it is gone   *)
(* and created again.                                                      *)
LEMMA SparedStep ==
  ASSUME Parts, ReconcileIsCurrent, Configured, Spared, [Next]_vars
  PROVE  Spared'
<1> SUFFICES ASSUME life = "live", life' = "live", ~hasty, ~hasty',
                    NEW a \in Accounts, account'[a] = "deleting", NEW g \in Groups
             PROVE  a \notin held' /\ \A p \in Running(g)' : p.account # a
  BY ForGood DEF Spared, Groups
<1>1. CASE DeleteAccount(a)
  <2>1. UNCHANGED <<held, Running(g)>>
    BY <1>1 DEF DeleteAccount, svcVars, Running
  <2>2. a \notin held
    BY <1>1 DEF DeleteAccount, AtRest, ReconcileIsCurrent
  <2> QED
    BY <1>1, <2>1, <2>2, DeletedAtRest
<1>2. CASE ~DeleteAccount(a)
  <2>1. account[a] = "deleting" /\ a \notin held /\ a \notin held'
    BY <1>2, AccountStep DEF Spared
  <2>2. config # 0 => config # a
    BY <2>1 DEF Parts, ConfigAccountWorks
  <2>3. \A p \in Running(g) : p.account # a
    BY <2>1 DEF Spared
  <2>4. Running(g)' = Running(g) \/ \A p \in Running(g)' : p \in Running(g) \/ p.account # a
    BY <2>2, RunningStep DEF Running
  <2> QED
    BY <2>1, <2>3, <2>4
<1> QED
  BY <1>1, <1>2

(* The mariadb-operator drops the user of no account that something runs on.*)
LEMMA ConnectedStep ==
  ASSUME Parts, Configured, Spared, Connected, [Next]_vars
  PROVE  Connected'
<1> SUFFICES ASSUME life = "live", life' = "live", ~hasty, ~hasty',
                    NEW g \in Groups, NEW p \in Running(g)'
             PROVE  p.account \in users'
  BY ForGood DEF Connected
<1>1. CASE p \in Running(g)
  <2>1. p.account \in users /\ p.account \in Accounts
    BY <1>1 DEF Connected, Parts, MariaDBOK
  <2>2. ~(account[p.account] = "deleting")
    BY <1>1, <2>1 DEF Spared
  <2> QED
    BY <2>1, <2>2, AccountStep
<1>2. CASE UNCHANGED mariadbVars /\ p.account = config /\ config # 0
  BY <1>2 DEF Parts, ConfigAccountWorks, mariadbVars
<1>3. CASE UNCHANGED <<pods, template>>
  BY <1>1, <1>3 DEF Running
<1> QED
  BY <1>1, <1>2, <1>3, RunningStep

(* At the start nothing is held, deployed or deleted.                      *)
LEMMA InitConnection == Init => Connection
  BY DEF Init, Connection, HeldIsLabelled, ReconcileIsCurrent, Configured, Running, Spared,
         Connected

(* Every action keeps the pods connected.                                  *)
LEMMA NextConnection == IInv /\ Connection /\ [Next]_vars => Connection'
<1> SUFFICES ASSUME Parts, Connection, [Next]_vars PROVE Connection'
  BY PartsInv
<1>1. HeldIsLabelled' /\ ReconcileIsCurrent' /\ Configured'
  BY LabelledStep, CurrentStep, ConfiguredStep DEF Connection
<1>2. Spared' /\ Connected'
  BY SparedStep, ConnectedStep DEF Connection
<1> QED
  BY <1>1, <1>2 DEF Connection

(* Although unused accounts are let go of before the pods have moved to    *)
(* the new one, no pod loses its user when owners wait with deletions      *)
(* until a change has come to rest (DeleteUnusedMariaDBAccountFinalizers). *)
THEOREM PodsStayConnected == Spec => []PodsConnect
<1>1. Connection => PodsConnect
  BY DEF Connection, Connected, Running, PodsConnect
<1> QED
  BY <1>1, Invariance, InitConnection, NextConnection, PTL DEF Spec

-----------------------------------------------------------------------------
(***************************************************************************)
(* A deletion at rest lets go of everything.  reconcileDelete only looks   *)
(* for the account that the spec names, so that this must be the one that  *)
(* is held, and be found.                                                  *)
(***************************************************************************)

(* An account does not disappear while it is held.                         *)
HeldAreThere == \A a \in held : account[a] # "absent"

(* The database is claimed before anything is rendered.                    *)
DatabaseClaimed ==
  life = "live" /\ (stage # "idle" \/ config # 0) => dbHeld /\ database # "absent"

(* A Reconcile that nothing has disturbed has rendered the account of the  *)
(* spec.                                                                   *)
ConfigIsCurrent == life = "live" /\ ~queued /\ stage = "idle" => config = spec.account

(* What reconcileDelete has to let go of, it finds ...                     *)
DeletionFinds ==
  life = "deleting" /\ ~hasty =>
    /\ stage = "idle" /\ held \subseteq {spec.account}
    /\ account[spec.account] = "present" /\ database # "absent"

(* ... and nothing is claimed again.                                       *)
LetGoOfAll == life = "gone" /\ ~hasty => stage = "idle" /\ held = {} /\ ~dbHeld

Departure ==
  HeldAreThere /\ DatabaseClaimed /\ ConfigIsCurrent /\ DeletionFinds /\ LetGoOfAll

(* At rest exactly the account of the spec is held, with the database.     *)
SettledHolds == life = "live" /\ AtRest => held = {spec.account} /\ dbHeld

(* The invariants say so.                                                  *)
LEMMA AtRestHolds ==
  ASSUME Parts, Connection, Departure
  PROVE  SettledHolds /\ (life = "live" /\ AtRest => config = spec.account /\ database # "absent")
<1> SUFFICES ASSUME life = "live", AtRest
             PROVE  held = {spec.account} /\ dbHeld /\ config = spec.account /\ database # "absent"
  BY DEF SettledHolds
<1>1. spec.account # 0
  BY Bounds DEF Parts, RestOK, Named
<1>2. config = spec.account /\ held \subseteq {spec.account}
  BY DEF Connection, ReconcileIsCurrent, Departure, ConfigIsCurrent, AtRest
<1>3. spec.account \in held
  BY <1>1, <1>2 DEF Parts, ConfigAccountWorks
<1>4. dbHeld /\ database # "absent"
  BY <1>1, <1>2 DEF Departure, DatabaseClaimed
<1> QED
  BY <1>2, <1>3, <1>4

(* The mariadb-operator and the owners of accounts drop none that is held. *)
LEMMA HeldThereStep ==
  ASSUME Parts, HeldAreThere, [Next]_vars
  PROVE  HeldAreThere'
<1>0. MariaDBOK /\ spec.account \in Accounts
  BY DEF Parts, RestOK, Named
<1> USE DEF HeldAreThere, MariaDBOK, mariadbVars
<1>1. CASE EnsureDB
  <2>1. account'[spec.account] # "absent" /\ held' \subseteq held \cup {spec.account}
    BY <1>0, <1>1 DEF EnsureDB, EnsureAccount, ClaimAccount
  <2>2. \A a \in Accounts : account[a] # "absent" => account'[a] # "absent"
    BY <1>0, <1>1 DEF EnsureDB, EnsureAccount
  <2> QED
    BY <1>0, <2>1, <2>2
<1>2. CASE PublishConfig \/ DBSync \/ DeployAPI \/ DeployOthers \/ ReconcileDelete
  BY <1>2 DEF PublishConfig, DBSync, DeployAPI, HeldAfterAPI, DeployOthers, ReconcileDelete
<1>3. CASE Fault \/ DeleteFault
  <2>1. held' \subseteq held /\ \A a \in Accounts : account[a] # "absent" => account'[a] # "absent"
    BY <1>0, <1>3 DEF Fault, EnsureAccount, DeleteFault
  <2> QED
    BY <1>0, <2>1
<1>4. CASE JobFinishes \/ MariaDBOperator \/ Collect
  BY <1>0, <1>4 DEF JobFinishes, MariaDBOperator, CreateDatabase, CreateUser, DropUser, Collect
<1>5. CASE \E g \in Groups : ServiceDeploy(g) \/ PodStart(g) \/ PodFinish(g)
  BY <1>5 DEF ServiceDeploy, PodStart, PodFinish
<1>6. CASE EditSpec \/ DeleteManila \/ \E a \in Accounts : DeleteAccount(a)
  BY <1>0, <1>6 DEF EditSpec, DeleteManila, DeleteAccount
<1>7. CASE UNCHANGED vars
  BY <1>7 DEF vars
<1> QED
  BY <1>1, <1>2, <1>3, <1>4, <1>5, <1>6, <1>7 DEF Next, ManilaController

(* EnsureDB claims the database, reconcileDelete alone lets go of it.      *)
LEMMA DatabaseStep ==
  ASSUME Parts, DatabaseClaimed, [Next]_vars
  PROVE  DatabaseClaimed'
<1> SUFFICES ASSUME life = "live", life' = "live" PROVE DatabaseClaimed'
  BY ForGood DEF DatabaseClaimed
<1> USE DEF DatabaseClaimed, mariadbVars
<1>1. CASE EnsureDB
  BY <1>1 DEF EnsureDB, ClaimDatabase
<1>2. CASE PublishConfig \/ DBSync \/ DeployAPI \/ DeployOthers
  BY <1>2 DEF PublishConfig, DBSync, DeployAPI, DeployOthers
<1>3. ~ReconcileDelete /\ ~DeleteFault /\ ~Collect /\ ~DeleteManila
  BY DEF ReconcileDelete, DeleteFault, Collect, DeleteManila
<1>4. CASE Fault
  <2>1. stage' = "idle" /\ (Starts => stage = "idle")
    BY <1>4 DEF Fault, Requeue, Starts
  <2> QED
    BY <1>4, <2>1 DEF Fault, ClaimDatabase
<1>5. CASE JobFinishes \/ MariaDBOperator
  BY <1>5 DEF JobFinishes, MariaDBOperator, CreateDatabase, CreateUser, DropUser
<1>6. CASE \E g \in Groups : ServiceDeploy(g) \/ PodStart(g) \/ PodFinish(g)
  BY <1>6 DEF ServiceDeploy, PodStart, PodFinish
<1>7. CASE EditSpec \/ \E a \in Accounts : DeleteAccount(a)
  BY <1>7 DEF EditSpec, DeleteAccount
<1>8. CASE UNCHANGED vars
  BY <1>8 DEF vars
<1> QED
  BY <1>1, <1>2, <1>3, <1>4, <1>5, <1>6, <1>7, <1>8 DEF Next, ManilaController

(* An undisturbed Reconcile ends with the account of the spec rendered.    *)
LEMMA ConfigCurrentStep ==
  ASSUME Parts, ReconcileIsCurrent, ConfigIsCurrent, [Next]_vars
  PROVE  ConfigIsCurrent'
<1> SUFFICES ASSUME life = "live", life' = "live", ~queued', stage' = "idle"
             PROVE  config' = spec'.account
  BY ForGood DEF ConfigIsCurrent
<1>1. ~EnsureDB /\ ~PublishConfig /\ ~DBSync /\ ~DeployAPI
  BY DEF EnsureDB, PublishConfig, DBSync, DeployAPI, Requeue
<1>2. CASE DeployOthers
  <2>1. ~queued /\ stage = "others"
    BY <1>2 DEF DeployOthers
  <2>2. snap = spec /\ config = snap.account
    BY <2>1 DEF ReconcileIsCurrent, Parts, Granted
  <2> QED
    BY <1>2, <2>2 DEF DeployOthers, manilaVars
<1>3. ~Fault /\ ~ReconcileDelete /\ ~DeleteFault /\ ~Collect /\ ~EditSpec /\ ~DeleteManila
  BY DEF Fault, Requeue, ReconcileDelete, DeleteFault, Collect, EditSpec, DeleteManila
<1>4. CASE MariaDBOperator \/ (\E a \in Accounts : DeleteAccount(a)) \/ UNCHANGED vars
  BY <1>4 DEF MariaDBOperator, CreateDatabase, CreateUser, DropUser, DeleteAccount, vars,
     manilaVars, ConfigIsCurrent
<1>5. CASE JobFinishes \/ \E g \in Groups : ServiceDeploy(g) \/ PodStart(g) \/ PodFinish(g)
  BY <1>5 DEF JobFinishes, ServiceDeploy, PodStart, PodFinish, manilaVars, ConfigIsCurrent
<1> QED
  BY <1>1, <1>2, <1>3, <1>4, <1>5 DEF Next, ManilaController

(* What others do while no Reconcile of a living Manila CR runs.           *)
LEMMA AfterDeletion ==
  ASSUME Parts, [Next]_vars, life # "live", stage = "idle", ~hasty, ~hasty'
  PROVE  \/ ReconcileDelete \/ DeleteFault
         \/ /\ UNCHANGED <<life, spec, stage, held, dbHeld>>
            /\ life # "gone" => (database # "absent" => database' # "absent")
            /\ account[spec.account] = "present" => account'[spec.account] = "present"
<1>0. MariaDBOK /\ RestOK /\ spec.account \in Accounts
  BY DEF Parts, RestOK, Named
<1> USE DEF manilaVars, mariadbVars, MariaDBOK
<1>1. ~EnsureDB /\ ~PublishConfig /\ ~DBSync /\ ~DeployAPI /\ ~DeployOthers /\ ~Fault
  BY DEF EnsureDB, PublishConfig, DBSync, DeployAPI, DeployOthers, Fault, Starts
<1>2. ~EditSpec /\ ~DeleteManila
  <2>1. EditSpec => life = "deleting"
    BY <1>0 DEF EditSpec, RestOK
  <2> QED
    BY <2>1 DEF EditSpec, DeleteManila
<1>3. CASE Collect \/ JobFinishes \/ UNCHANGED vars
  BY <1>3 DEF Collect, JobFinishes, vars
<1>4. CASE MariaDBOperator
  BY <1>0, <1>4 DEF MariaDBOperator, CreateDatabase, CreateUser, DropUser
<1>5. CASE \E g \in Groups : ServiceDeploy(g) \/ PodStart(g) \/ PodFinish(g)
  BY <1>5 DEF ServiceDeploy, PodStart, PodFinish
<1>6. CASE \E a \in Accounts : DeleteAccount(a)
  BY <1>0, <1>6 DEF DeleteAccount
<1> QED
  BY <1>1, <1>2, <1>3, <1>4, <1>5, <1>6 DEF Next, ManilaController

(* A deletion at rest finds the one account that is held, and leaves none. *)
LEMMA DeletionStep ==
  ASSUME Parts, Connection, Departure, [Next]_vars
  PROVE  DeletionFinds' /\ LetGoOfAll'
<1> SUFFICES ASSUME ~hasty', ~hasty, life' # "live" PROVE DeletionFinds' /\ LetGoOfAll'
  BY ForGood DEF DeletionFinds, LetGoOfAll
<1>0. MariaDBOK /\ RestOK /\ spec.account \in Accounts
  BY DEF Parts, RestOK, Named
<1>1. CASE life = "live"
  <2>1. DeleteManila
    <3> USE DEF manilaVars
    <3>1. ~EnsureDB /\ ~PublishConfig /\ ~DBSync /\ ~ReconcileDelete /\ ~Fault /\ ~DeleteFault
      BY <1>1 DEF EnsureDB, PublishConfig, DBSync, ReconcileDelete, Fault, DeleteFault
    <3>2. ~DeployAPI /\ ~DeployOthers
      <4>1. DeployAPI \/ DeployOthers => UNCHANGED manilaVars
        BY DEF DeployAPI, DeployOthers
      <4> QED
        BY <1>1, <4>1
    <3>3. ~JobFinishes /\ ~MariaDBOperator /\ ~Collect
      BY <1>1 DEF JobFinishes, MariaDBOperator, CreateDatabase, CreateUser, DropUser, Collect
    <3>4. ~\E g \in Groups : ServiceDeploy(g) \/ PodStart(g) \/ PodFinish(g)
      BY <1>1 DEF ServiceDeploy, PodStart, PodFinish
    <3>5. ~EditSpec /\ ~(\E a \in Accounts : DeleteAccount(a)) /\ ~UNCHANGED vars
      BY <1>1 DEF EditSpec, DeleteAccount, vars
    <3> QED
      BY <3>1, <3>2, <3>3, <3>4, <3>5 DEF Next, ManilaController
  <2>2. AtRest /\ life' = "deleting" /\ UNCHANGED <<spec, mariadbVars, stage>>
    BY <2>1 DEF DeleteManila
  <2>3. held = {spec.account} /\ database # "absent" /\ stage = "idle"
    BY <1>1, <2>2, AtRestHolds DEF SettledHolds, AtRest
  <2>4. account[spec.account] = "present"
    <3>1. account[spec.account] # "absent" /\ account[spec.account] # "deleting"
      BY <1>0, <1>1, <2>3 DEF Departure, HeldAreThere, Connection, Spared
    <3> QED
      BY <1>0, <3>1 DEF MariaDBOK
  <2> QED
    BY <2>2, <2>3, <2>4 DEF DeletionFinds, LetGoOfAll, mariadbVars
<1>2. CASE life # "live"
  <2>1. stage = "idle" /\ (life = "deleting" \/ life = "gone")
    BY <1>0, <1>2 DEF Departure, DeletionFinds, LetGoOfAll, RestOK
  <2>2. CASE ReconcileDelete
    <3>1. Found
      BY <2>2 DEF ReconcileDelete, Departure, DeletionFinds, Found
    <3>2. held' = {} /\ ~dbHeld' /\ stage' = "idle" /\ life' = "gone"
      BY <2>1, <2>2, <3>1 DEF ReconcileDelete, Departure, DeletionFinds
    <3> QED
      BY <3>2 DEF DeletionFinds, LetGoOfAll
  <2>3. CASE DeleteFault
    BY <2>1, <2>3 DEF DeleteFault, manilaVars, Departure, DeletionFinds, LetGoOfAll
  <2>4. CASE ~ReconcileDelete /\ ~DeleteFault
    <3>1. /\ UNCHANGED <<life, spec, stage, held, dbHeld>>
          /\ life # "gone" => (database # "absent" => database' # "absent")
          /\ account[spec.account] = "present" => account'[spec.account] = "present"
      BY <1>2, <2>1, <2>4, AfterDeletion
    <3> QED
      BY <2>1, <3>1 DEF Departure, DeletionFinds, LetGoOfAll
  <2> QED
    BY <2>2, <2>3, <2>4
<1> QED
  BY <1>1, <1>2

(* At the start nothing is held, rendered or deleted.                      *)
LEMMA InitDeparture == Init => Departure
  BY DEF Init, Departure, HeldAreThere, DatabaseClaimed, ConfigIsCurrent, DeletionFinds, LetGoOfAll

(* Every action keeps what a deletion rests on.                            *)
LEMMA NextDeparture == IInv /\ Connection /\ Departure /\ [Next]_vars => Departure'
<1> SUFFICES ASSUME Parts, Connection, Departure, [Next]_vars PROVE Departure'
  BY PartsInv
<1>1. HeldAreThere' /\ DatabaseClaimed' /\ ConfigIsCurrent'
  BY HeldThereStep, DatabaseStep, ConfigCurrentStep DEF Connection, Departure
<1>2. DeletionFinds' /\ LetGoOfAll'
  BY DeletionStep
<1> QED
  BY <1>1, <1>2 DEF Departure

(* At rest exactly the account that the spec names is held, and the        *)
(* database; a Manila CR that is deleted then is gone only when neither    *)
(* carries a finalizer any more, also when the operator died in between    *)
(* (reconcileDelete, DeleteFinalizer).                                     *)
THEOREM DeletionLeavesNothing ==
  Spec => [](SettledHolds /\ (life = "gone" /\ ~hasty => held = {} /\ ~dbHeld))
<1>1. IInv /\ Connection /\ Departure
        => SettledHolds /\ (life = "gone" /\ ~hasty => held = {} /\ ~dbHeld)
  BY PartsInv, AtRestHolds DEF Departure, LetGoOfAll
<1> QED
  BY <1>1, Invariance, InitConnection, NextConnection, InitDeparture, NextDeparture, PTL DEF Spec
=============================================================================
