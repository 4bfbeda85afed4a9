# A TLA+ model of the manila-operator

The manila-operator deploys the OpenStack shared file system service on
Kubernetes.  This directory holds TLA+ modules that model its controllers and its
webhook, TLC configurations that check them on small instances, and proofs checked by
TLAPS for every instance.

## The system

| Part | State it keeps | Operations | Talks to |
|---|---|---|---|
| Manila controller (`internal/controller/manila_controller.go`) | Manila CR: finalizer, status (hashes, consumed secrets, ready counts) | `Reconcile` -> `reconcileNormal`, `reconcileInit`, `reconcileDelete`, `ensureDB`, `shareCleanup`, `generateServiceConfig` | creates TransportURLs, the database, `<manila>-config-data`, the sub-CRs, jobs; puts consumer finalizers on secrets |
| ManilaAPI, ManilaScheduler, ManilaShare controllers (`manilaapi_`, `manilascheduler_`, `manilashare_controller.go`) | sub-CR: finalizer, status (hash, `AppliedInputSecretHash`, `ReadyCount`, `LastAppliedTopology`) | `Reconcile` -> `reconcileNormal`, `reconcileDelete`, `generateServiceConfig` (API: `reconcileInit`) | read `<manila>-config-data`, write `<service>-config-data` and the StatefulSet |
| Secret consumer finalizers | `openstack.org/manila-transport-consumer`, `openstack.org/manila-ac-consumer` on secrets | claim, `FinalizeSecretRotation`, `PruneSecretConsumerFinalizers` (lib-common) | tell the owner of a secret that it is in use |
| Database | MariaDBDatabase and MariaDBAccount with a finalizer, db-sync Job, db-purge CronJob | `ensureDB`, `DoJob`, `DeleteUnusedMariaDBAccountFinalizers` | mariadb-operator |
| Keystone services and endpoints | KeystoneService and KeystoneEndpoint per entry of `keystoneServices` | the API's `reconcileInit`, `reconcileDelete` | keystone-operator |
| Removal of shares (`shareCleanup`) | share CRs, `ManilaSharesReadyCounts`, the service-cleanup job | delete CRs that left the spec, run the job | ManilaShare controller, garbage collector |
| Topology references (`manila_common.go`) | finalizers on Topology CRs | `ensureTopology`, `EnsureDeletedTopologyRef` | infra-operator |
| Webhooks (`api/v1beta1/manila_webhook.go`) | none | defaulting, validation, `SetDefaultRouteAnnotations` | API server, openstack-operator |
| Pure helpers (`internal/manila*/`) | none | StatefulSet, Job, CronJob, volumes, probes | |

The hard behaviours: the controllers run concurrently and see one another only
through the API server; a Reconcile reads its inputs once and acts on them
while they change; it may fail between any two calls, and its status is stored
in one deferred patch at the end; credentials rotate while an earlier rotation
is still being rolled out, and a pod runs with whatever config it read when it
started; objects that are being deleted linger while somebody's finalizer holds
them, and new ones of the same name come after them.  What makes the system
correct are its promises to the owners of what it uses: *while a service may use a
secret, a database account or a Topology, it carries a finalizer; when no service
uses it any more, the finalizer goes.*

## Modules

| Module | What it is |
|---|---|
| `SecretRotation` | the Manila controller, one controller per service, the pods and the environment, as far as credentials are concerned, up to the deletion of the Manila CR |
| `CredentialLease` | the abstract specification: what the owner of a credential is promised |
| `LeasedRotation` | `SecretRotation` as an implementation of `CredentialLease`, twice |
| `ShareSet` | how the ManilaShare CRs, their StatefulSets, the ready counts and manila's table of services follow the shares of the spec |
| `TopologyClaims` | the finalizers that the service controllers put on Topology CRs |
| `Database` | the database accounts, the schema, and which image and account the services run with |
| `Keystone` | the KeystoneServices and KeystoneEndpoints of a ManilaAPI and of the next one of its name |
| `Webhook` | what the webhook admits, what of it is deployed, the annotations of the route |
| `LeasedRotation_proofs` | TLAPS proofs about what `SecretRotation` does between and at rest, and of the refinement |
| `*_proofs` | TLAPS proofs about the module they are named after |

The models cut the operator by what is shared: credentials, the set of shares,
Topologies, the database, the catalogue of Keystone, the spec.  They meet in the
Manila CR and the sub-CRs, which each of them sees in its own abstraction:
`SecretRotation` has a fixed set of services, `ShareSet` lets them come and go,
`TopologyClaims` leaves open why they do, `Database` knows two groups of them.
What they assume of one another is only that a Reconcile reaches its later parts
again and again, which is what `deps` and the faults of `SecretRotation` stand for.

In each module an operator `X_Y` is `X` with a plausible mistake; `PROJECT.json`
says which property finds it.  Every run says `CHECK_DEADLOCK FALSE`: with the
bounds exhausted, the queues empty and everything done the system is at rest, as
the real one is.

## Runs

| Run | Module | Shows |
|---|---|---|
| `rotation` | `LeasedRotation` | `InUseClaimed`, `ReleaseAfterRollout`, `NotifReleaseAfterRollout`, `LeasesKept` with two services, one rotation, the notifications bus switched on and off |
| `overtaking` | `SecretRotation` | `PublishedClaimed`, `AppliedIsRunning`, `NothingStranded`, `RotationCompletes`, `DeletionReleasesAll` with three secrets in any order, a failure, and the CR deleted at any time |
| `liveness` | `LeasedRotation` | `NotificationsSettle`, `ACSettles`, and `LeasesKept` with a failure, an outage and a deletion |
| `shares` | `ShareSet` | `CountsMatch`, `ConvergesUnlessSkipped`, `RecordsCleaned` |
| `topology` | `TopologyClaims` | `AppliedIsHeld`, `NoneLeftBehind`, `UnusedTopologiesGo` |
| `database` | `Database` | `SchemaFirst`, `ConfigAccountWorks`, `PodsConnect`, `DatabaseSettles`, `DeletionLetsGo` |
| `keystone` | `Keystone` | `HeldByTheLiving`, `CatalogueFollows`, `NothingLeft` |
| `webhook` | `Webhook` | `OnlySoundDeployed`, `SoundIsDeployed`, `DeletionEnds`, `ChosenTimeoutStays`, `TimeoutFollows` |
| `ac_early`, `teardown` | `SecretRotation` | counterexamples, see below |
| `share_left` | `TopologyClaims` | a counterexample, see below |
| `notifications` | `Webhook` | a counterexample, see below |

Each module's `TypeOK` is an invariant of a run.  A passing run takes one to three
minutes with two workers, most of them less.

### What the code does otherwise than it says

1. `ac_early`: `expectedInputHash` (manila_controller.go:891) does not cover the
   application credential.  After a change of the credential alone every sub-CR
   still looks ready, so the old credential is released before the rollout.
2. `teardown`: a notifications bus switched off before its secret was tracked is
   never torn down (line 1118 wants a non-empty status).
3. `share_left`: ManilaShare claims its Topology under the CR's name
   (manilashare_controller.go:513) and releases it under the share's name (line 352):
   the finalizer stays.
4. `notifications`: notifications whose cluster the deprecated `rabbitMqClusterName`
   also names get the URL of the messages (line 1322), not the TransportURL that
   was created for them.

Reached by the models too, without a run of their own:

- A second rotation that overtakes the rollout of the first: the prune
  (line 1161) keeps the tracked and the current secret, while pods may run on one in
  between.  `InUseClaimed` is therefore a property of changes that wait (`Patient`).
- A new application credential is claimed (line 856) after the config-data that uses
  it was stored (line 823).  A bus switched off, on and off again without waiting
  lets a service report the hash of "no notifications" while its pods have read a
  config-data with them.  The early status of line 705 is dead code after line 669.
- A List that fails is treated as an empty one, and nothing runs `shareCleanup`
  again (line 1710): `skipped`.  The count of a deleted share stays for good when the
  Reconcile that deleted it could not store its status (line 1725): `CountsMatch` is
  about behaviours without failures.
- ManilaScheduler and ManilaShare give up the CR before the Topology, so that a failed
  update of the Topology is never retried; a crash between the claim and the status
  that remembers it, followed by an edit of the reference, leaves the claim behind.
- A MariaDBAccount, or a KeystoneService or KeystoneEndpoint, that is deleted while the
  operator holds it and is wanted again stays terminating: the finalizer keeps it, and
  CreateOrPatch goes on patching it.  A `DatabaseAccount` edited after the deletion of
  the Manila CR began leaves its predecessor's finalizer behind (line 451 looks up the
  account that the spec names then).

## The rotation of secrets (`SecretRotation`, `CredentialLease`, `LeasedRotation`)

A secret is a number in the order of issue.  `turl`, `nturl` are the two
TransportURLs, `notifOn` and `acSpec` the relevant part of the Manila spec,
`deps` whether memcached, the password secret and the database are ready;
`tfin`, `nfin`, `afin` the secrets that carry a consumer finalizer; `status`
the stored Manila status; `config` what `<manila>-config-data` was rendered
from; `cr[s]` the spec fields and status of a sub-CR; `svcConfig[s]` what
`<service>-config-data` was copied from; `template[s]` the `CONFIG_HASH` of the
StatefulSet; `pods[s]` the running pods with template and config read;
`cursor`, `mem`, `snap`, `allReady` the local state of the Manila controller's
running Reconcile; `queue` the work queues; `life` the Manila CR itself.

`reconcileNormal` of the Manila controller is cut where another actor can see
or change something in between: up to a return while it waits
(`ManilaInit`, `RequestTransport`, `RequestNotifications`,
`WaitForDependency`), up to the return with a changed hash (`PublishConfig`),
up to the first service (`ClaimAC`), one step per service (`DeployService`),
the finalizations (`FinishReconcile`).  `Fault` is an error return or a crash in
any of these, after any prefix of the four steps of the finalizations (to release the
secret of a bus that is switched off and to delete its TransportURL are two of them)
and of the two prunes, each of which is one step, with the deferred status patch stored
or lost.  `ReconcileDelete` is `reconcileDelete`,
`DeleteFault` its failure after any prefix of the four releases; `Collect` is the
garbage collector, which takes the services away only after the CR has gone.

Why the cuts are enough.  Between two cuts the controller writes secrets,
config-data and status that no other actor writes; the others only read
`config` and the sub-CRs.  The finalizers are read by the secrets' owners,
which the properties look at in every state; a cut between two finalizations is
visible only if it is the last thing that happens, and that is `Fault`.  A
service's `Reconcile` is one step because only it writes its CR's status, its
config-data and its StatefulSet, and what it takes from others it reads once:
its CR at the start, and the parent's config-data (read twice, once for the hash
and once for the copy; a change between the two queues the CR again and gives a
hash that is not the stored one, the same as `ServiceRehash` does).  ManilaAPI,
ManilaScheduler and ManilaShare controllers have near-identical copies of this
code; one `ServiceController(s)` models the three.

`CredentialLease` knows three things: whether the consumer is `open` (not deleted),
the credentials it has `held` claimed, and those its services have `used`, or are about
to.  A `Claim` may move services to claimed credentials only, a `Release` may give back
only what is not used, and after `Close` nothing new is claimed or used.  Its theorem
`LeaseCovers` says what that is worth.  `LeasedRotation` maps it onto `SecretRotation`
once per TransportURL: `held` is the set of secrets with the finalizer, `used` what the
parent's config-data, the services' config-data and the pods refer to.  `LeasesKept`, checked
as a PROPERTY, is the conjunction of the two specifications.  There is no third lease for the
application credential: `ac_early` is why.

Bounds.  `MaxTransport`, `MaxNotif`, `MaxAC`, `MaxEdits`, `MaxFaults`, `MaxOutages` cap
the environment; `NumServices` the sub-CRs.  Two secrets give one rotation, three
one rotation that overtakes another, which is where tracking one old secret
stops being enough.  Two services are what it takes for one to be ready while the
other is not.  One fault hits each place of a Reconcile once; the second half of
a fault's consequences is the Reconcile that repeats it.  Two edits switch the bus on
and off, or off and on.  `Patient` restricts credential changes to settled states,
`Deletable` allows the deletion of the CR.  The run `rotation` has no faults, for the
sake of its two services; what they do to `LeasesKept`, and so to `InUseClaimed` and the
releases, is in `liveness` with one service, and for `ReleaseAfterRollout` in the proof.

Fairness (`FairSpec`): the controllers' workers process their queues for good
(controller-runtime retries errors and resumes after a restart), the StatefulSet
controller rolls its pods, a requested TransportURL gets its first secret, and a
dependency that was lost returns.  No rotation, edit, deletion or fault is fair.

Not modelled here: stale reads from the informer cache; secrets that exist but
cannot be read (folded into `deps` and faults); `Replicas: 0`; two Manila CRs in
a namespace; shares added to or removed from the spec; two notification
TransportURLs that share a secret with messaging (the code always creates a
separate TransportURL).  Every rotation gives a new secret name.

## The shares (`ShareSet`)

`inSpec` is the key set of `Spec.ManilaShares`, `counts` that of the stored
`ManilaSharesReadyCounts`, `cr`, `applied` and `sts` the life of a share's CR,
whether its status reports an applied hash, and its StatefulSet; `active`, `snap`,
`todo`, `mem` the local state of the Manila controller's Reconcile, which
works on a spec that may be out of date.  `DeployShare` is one turn of the loop
over the shares, in the order of their names, `ShareCleanup` the rest of
`reconcileNormal` as far as shares go, and `Fault` an error return or a crash after any
prefix of the deletions, with or without the job started and the status stored.  A
ManilaShare controller is `ShareInit`, `ShareReconcile`, `ShareDelete`.  The cleanup job is
named after the hash of the deleted shares, modelled by the set itself (two sets do not
share the first eight characters of their hashes).  Its delay of 120 s is taken to be long
enough for the pods of the deleted shares to stop, as the code does; what happens
when it is not is outside the model.

Bounds: two shares (one that stays while the other goes, and different sets of
deleted shares for two jobs), three edits (remove, add again, remove again), one
failure.  Two history variables name what the liveness properties except: `skipped`,
that the last Reconcile could not list the shares, and `lost`, that shares were deleted
without a new job, because of a failure or because the name of the job was taken by
a finished one; no text of the repository says what should happen then.  Fairness:
both controllers, the garbage collector, the pods and the jobs make progress; edits
and failures are not fair.

## The Topologies (`TopologyClaims`)

`wanted` and `specRef` are what the Manila spec asks for, `topology` and `holders`
the Topology CRs and their finalizers, `life`, `ref`, `applied` the sub-CRs with
`Spec.TopologyRef` and `Status.LastAppliedTopology`.  The Manila controller is
`Deploy` and `Remove`; `ServiceReconcile` and `MissingTopology` are
`ensureTopology` with and without its Topology, and the lib functions it calls
(`LetGo`, then the claim).  `ServiceDelete` stands for the three `reconcileDelete`;
they differ in the name they release (`NameOnDelete`) and in what is left when they
fail half-way (`DeleteFault`).  A Topology that is being deleted takes no new
finalizers and goes with its last one (`SetHolders`).

Bounds: two Topologies (the old and the new), a ManilaAPI and a ManilaScheduler, so that a
Topology can be shared and both orders of the deletion occur; two edits, one failure;
creation and deletion of Topologies are not bounded.  `Excused` names the claims that may
be left behind: those of a ManilaScheduler or ManilaShare once a call failed, and those of
a failure followed by an edit that did not wait (`hasty`).  Without failures nobody is
excused, and ManilaAPI never is unless an edit was hasty.  Fairness: the controllers only.

## The database (`Database`)

`spec` is `DatabaseAccount` and the image of the API, `account`, `labelled`, `held`,
`users` the MariaDBAccounts with the label of the database, the operator's finalizer and
the user behind them, `database` and `dbHeld` the MariaDBDatabase, `config` the account in
the stored config-data, `job`, `synced`, `hash` the db-sync Job, the images whose schema is
there and the hashes of the status, `purge` the image of the CronJob, `cr`, `template`,
`pods` the API and the other services; `stage`, `snap` where Reconcile is and the spec it
read.  `EnsureDB`, `PublishConfig`, `DBSync`, `DeployAPI`, `DeployOthers` are Reconcile in
order, cut where the spec, the accounts or the job can change; the finalizers of unused
accounts come off in `DeployAPI`, between the API and the others.  `SyncJob` is lib-common's
`DoJob`: a job of another hash is deleted, a missing one created, one that runs waited for.
The mariadb-operator and the Job controller are external.

Bounds: two accounts and two images (a switch and back again in two edits), one failure; the
deletions of accounts and of the CR are not bounded.  `hasty` remembers a deletion in the
middle of a change, or an edit after the deletion; `PodsConnect`, `DatabaseSettles` and
`DeletionLetsGo` except it, since the finalizer of an old account goes before the pods that
connect with it, and nothing promises more.  `SchemaFirst` and `ConfigAccountWorks` hold
without exception.  Fairness: the controllers, the job, the pods and the mariadb-operator.

Not modelled: a db-sync that fails (the job is retried by Kubernetes), the password of an account,
what db-purge does.

## The catalogue of Keystone (`Keystone`)

`api` is the ManilaAPI with its UID, annotation and finalizer, `state`, `owner`, `held`,
`registered` the objects it owns; `next` and `last` say where `reconcileInit` is, which returns
at each object that it changed (`Stop`) and goes on when nothing changed (`Continue`).  Object 0
stands for the Kubernetes Services, which have no finalizer.  `CreateOrPatch` takes over what an
earlier ManilaAPI of the same name has left, since `SetControllerReference` compares the names of
owners and not their UIDs, and is `Refused` a new finalizer on what is being deleted.
`ReconcileDelete` and `DeleteFault` are `reconcileDelete`, whole and up to any of its updates.  The
Manila controller passes its annotations to a ManilaAPI only when it creates one, so that V1 can be
turned off later by editing the ManilaAPI.  What `reconcileNormal` waits for before it calls
`reconcileInit` is left out: until then nothing of the catalogue is touched, and `StartInit` may come
as late.  A Kubernetes Service that changed is taken to end the Reconcile, as a changed
KeystoneService does; either way the ManilaAPI is reconciled again.

Bounds: two services (one for SFS and V2, whose treatment is the same, and V1), two ManilaAPIs, one
edit or deletion by hand, two failures.  An object deleted by hand under a living ManilaAPI is
`Stuck`, which `CatalogueFollows` excepts.  Fairness: both controllers, the keystone-operator and
the garbage collector.

## The webhook (`Webhook`)

A spec is the fields left unset, the mistakes in it, the timeout and the clusters of its buses; what
exactly is wrong with an override, a Topology reference or a probe does not matter to the properties.
`Default`, `ValidateCreate`, `ValidateUpdate` are the webhook; `Create`, `Update`, `Delete` the owner;
`AddFinalizer`, `Reconcile`, `RemoveFinalizer` the Manila controller, whose patches of the CR are
updates and pass through the same checks; `SetDefaultRouteAnnotations` is what the
openstack-operator calls for the route, whose owner edits its annotations (`EditRoute`).
`NotificationsURL` is the choice of generateServiceConfig.

Bounds: every combination of three fields that may be left out and three mistakes, two timeouts, three
edits (of the timeout, then of the route, then of the timeout again).  The buses make no difference to
the properties of `webhook`; `notifications` has two clusters.  The checks stay the same for the life of
a CR: a new release of the operator with stricter ones could keep its own finalizer from coming off.
Fairness: the controllers; the owner does as he likes.

Both deprecated fields are checked on an update (`DeprecatedOK`).  Not modelled: that
`NotificationsBus` is not filled in from the deprecated `NotificationsBusInstance`, contrary to what
comments in manila_controller.go (lines 202 and 665) expect of the webhook; and a CR that is created
with the finalizer of the controller already in its metadata, as one restored from a backup may be.
No update would have checked its spec, so that an unsound one could not be deleted until it is
mended: `DeletionEnds` and `FinalizerComesOff` are about CRs whose finalizer the controller put on.

## Proofs

All proofs are for any values of the constants.  Beyond the named assumptions of each
module, that bounds are natural numbers and that the counts of things are positive, nothing
is assumed, with two exceptions that the theorems state themselves: the theorems on changes
that come one at a time assume `Patient`, and `NothingLeftBehind` that there are no shares.

`SecretRotation_proofs`: `TypeCorrect`, `Invariance`, and three properties of the runs,
`PublishedIsClaimed`, `ReportsAreTrue`, `ReleaseIsSafe` (the action property
`ReleaseAfterRollout`, with or without `Patient`).  `ReleaseAfterRollout` is not
inductive.  The strengthening `IInv` says why the code is right: secrets are issued in order,
the config-data is copied from parent to service to pod, so every copy is at most as new as
its source (`CopiedDown`); the hash of a template bounds from below what a pod started from
it has read (`HashBounds`); so what a service reports as applied has been read by all its
pods (`AppliedBounds`); so when a service counts towards `allServicesReady`, its config-data
and pods are at the secret this Reconcile works with, and stay there until it ends
(`ReadyIsCurrent`, `SnapIsConfig`).  `Lifecycle` says that none of this goes on once
the CR is gone.

`CredentialLease`: `LeaseCovers`, `Spec => []Covered`: whoever implements the lease runs no
service on a credential without finalizer.

`LeasedRotation_proofs` goes on from `IInv`, in three steps.

- *The queues* (`Rest`, `QueuesTellAll`).  Whatever disturbs a controller queues its CR, so an
  unqueued sub-CR is as its last Reconcile left it (`ServicesQuiet`), and so is an unqueued
  Manila CR: while its Reconcile runs (`RunsUndisturbed`) it works on what the specification says
  now and counts every service that is ready; after it (`RestsUndisturbed`) it has claimed nothing
  but what it tracks and what is wanted, and it tracks what is wanted if all services are ready.
  Two lemmas carry this: `Unattended` (a step that leaves a sub-CR out of the queue has changed
  nothing its Reconcile reads) and `QuietSteps` (the same for the Manila CR).  From it follow, for
  rotations that overtake one another, outages and faults in any order: `StrandsNothing`
  (`NothingStranded`), `RestsOnLast` (at rest every service runs on the last messaging secret and
  only that is claimed) and `GoneReleasesAll`.  These two are what `RotationCompletes` and
  `DeletionReleasesAll` promise of the end; that the end comes is left to TLC.
- *One change at a time* (`OneChange`, `OneChangeAtATime`, under `Patient`).  Without `Patient` it
  is false, as listed above.  Notification secrets have no order, a bus that is switched off and
  on again may have the name it had, so the argument of `CopiedDown` does not do for
  them.  Instead, a name that has come down to a copy has come down to every copy before it
  (`HandedDown`), and at the start of a change all copies are alike (`Uniform`), which is where
  `Rest` is needed: a change starts in a settled state only.  Hence at most two names are in use,
  the tracked and the wanted one (`TwoCredentials`), a service that counts as ready has the wanted
  one (`ReadyHasNotif`), and every name in use carries the finalizer (`Leased`).
  `NothingRevokedInUse` (`InUseClaimed`), `NotifReleaseIsSafe` (`NotifReleaseAfterRollout`) and
  `BusComesToRest` follow.
- *The refinement* (`RotationKeepsLeases`, `Spec => LeasesKept`, under `Patient`).  A secret is used
  when a config in use names it (`UsedByConfigs`); only a config-data that the Manila controller
  renders brings one into use (`UseStep`).  While the CR lives every step is a `Claim` or a
  `Release`, its deletion is `Close`, and what follows is `WindUp`.

`ShareSet_proofs`: `TypeCorrect` and `CountsAreRight` (`CountsMatch`).  `CountsMatch` speaks of a
state in which nothing is left to do; the invariant behind it (`Faultless`) says of every other state who
still has to run: before a CR follows the spec (`Followed`, `Awaited`), before it reports (`Reported`),
before it is counted (`Counted`); and what is counted is there to stay (`CountedLive`).  With failures the debts remain but for
`skipped` (`Tracked`), and a deleted share is owed a cleanup job unless `lost` (`RecordsDue`).  Hence
`SharesFollowSpec` and `RecordsFollowSpec`: at rest the CRs, StatefulSets, pods and, once the jobs have
run, manila's table are those of the spec.

`TopologyClaims_proofs`: `TypeCorrect`, `AppliedStaysHeld` (`AppliedIsHeld`), and what is left at
rest.  `IInv` is the types,
`HeldExist` (what carries a finalizer exists) and `AppliedCarries` (a service out of its queue
carries the finalizer of what it applied).  The argument: a service's finalizer is taken off
by its own steps only (`LetGoOwn`, `ClaimOwn`), all of which happen while it is queued, and
the step that takes it off the queue is the one that claims.  `ClaimsStayKnown` adds
what becomes of the others: while no call fails, a finalizer is on what the service applied
(`ClaimsAreApplied`); while edits wait for one another, that of a ManilaAPI is on what it applied or
refers to, calls failing or not (`ClaimsAreNamed`); and a CR out of the queue has applied what it
refers to (`QueueTells`).  `OnlySharesLeaveClaims` is
`NoneLeftBehind` for all services but shares, which release another name than they claim
(`share_left`); `NothingLeftBehind` is `NoneLeftBehind` itself, for installations without shares.

`Database_proofs`: `TypeCorrect`, `SchemaComesFirst` (`SchemaFirst`), `ConfigIsUsable`
(`ConfigAccountWorks`), `PodsStayConnected` (`PodsConnect`), `DeletionLeavesNothing`.  An image reaches the API only through the stages after db-sync
(`Migrated`); the account that Reconcile works with is claimed and has its user from `EnsureDB`
on (`Granted`), and it is the one in the config-data when the finalizers of the others come off.  `PodsConnect`
needs `Connection`: a Manila CR that is out of the queue has been read as it is (`ReconcileIsCurrent`),
so an account that is deleted at rest has lost its finalizer and all that runs on it, and gets
neither back (`Spared`).  `Departure` follows the deletion: it finds all that it has to release
(`DeletionFinds`), and nothing is claimed again (`LetGoOfAll`), which is the safety half of
`DeletionLetsGo`.

`Keystone_proofs`: `TypeCorrect` and `NoneOrphaned` (`HeldByTheLiving`).  A ManilaAPI without
finalizer disappears at once, so nothing may be held then (`Guarded`); a Reconcile that runs puts
finalizers on, so its ManilaAPI must be there (`Running`) and have a UID (`Named`).  At rest
(`CatalogueAtRest`) the catalogue has what the ManilaAPI wants, or nothing if there is none: a Reconcile goes
on from an object only when that is ensured, and whatever disturbs one queues the ManilaAPI (`Followed`).

`Webhook_proofs`: `TypeCorrect`, `DeployedIsSound` (`OnlySoundDeployed`), `ChoiceIsKept`
(`ChosenTimeoutStays`).  The controller's finalizer is only ever on a sound spec
(`FinalizedIsSound`), and a timeout that somebody chose differs from the flag beside it (`ChoiceShows`).  `FinalizerComesOff`: so a
deletion is never rejected, since a sound spec passes the checks of an update that leaves it as it is
(`SoundPasses`).  `RouteFollows`: a timeout nobody chose equals the flag (`NotChosen`), so each call sets it.

Only model-checked: the liveness properties (`RotationCompletes`, `DeletionReleasesAll`,
`NotificationsSettle`, `ACSettles`, `ConvergesUnlessSkipped`, `RecordsCleaned`, `UnusedTopologiesGo`,
`DatabaseSettles`, `DeletionLetsGo`, `CatalogueFollows`, `NothingLeft`, `SoundIsDeployed`, `DeletionEnds`,
`TimeoutFollows`) and the counterexamples.  What most of
them promise of the end is proved as a safety property, see above; that the end comes is not.  Every invariant and every action property of a passing
run is stated by a theorem.  Liveness under fairness and `ENABLED` are beyond the prover, as are induction over data and
RECURSIVE operators; no module here has one.

## Plan

1. *(done)* `SecretRotation` with its deletion, its runs and proofs; `CredentialLease` and the
   refinement.
2. *(done)* `ShareSet`, `TopologyClaims`, `Database`, `Keystone`, `Webhook` with their proofs.
3. *(done)* `LeasedRotation_proofs`: rest, one change at a time, the refinement; the database and
   the Topologies at rest.
4. A module that composes the removal of shares with the release of secrets: only the shares of
   the spec take part in `allServicesReady` (manila_controller.go:983).
5. A second Manila CR in a namespace, once it is said whether that is meant to work.

## Not modelled

- Network attachments: `ensureNAD` is a lookup whose requeue is dropped (line 873); a watch
  brings the CR back.
- Probe defaults (`internal/manila/funcs.go`): floating point arithmetic of one input, no state.
- The error of `verifyServiceSecret` that is swallowed at line 786: it matters only for an
  error that no event follows.
- `Replicas: 0`, stale reads from the informer cache, a second Manila CR in the namespace.
- The condition that the Manila CR mirrors and its wording; the API's condition shows only the last
  Keystone service.
- Layout without state: volumes, labels, pod templates beyond `CONFIG_HASH`, the constant name of the
  db-purge CronJob, rendered text of configuration files.
- The health check script in the pods, start-up in `cmd/main.go`, generated code and manifests.
