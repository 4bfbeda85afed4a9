------------------------ MODULE LeasedRotation_proofs ------------------------
(***************************************************************************)
(* Proofs of what SecretRotation promises once a change has come to rest,  *)
(* and of the leases it keeps while changes come one at a time, for any    *)
(* number of services, edits, rotations, faults and outages.  The argument *)
(* is about the work queues: whatever disturbs a controller queues its CR, *)
(* so that a CR that is not queued is as its last Reconcile left it.       *)
(***************************************************************************)
EXTENDS LeasedRotation, SecretRotation_proofs

(* The status of a sub-CR answers for these secrets (Observed, of names    *)
(* other than those in snap).                                              *)
ObservedAs(c, want) ==
  /\ c.gen = c.obs
  /\ c.appliedT = want.transport /\ c.appliedN = want.notif
  /\ c.ready

(* A sub-CR that is not queued is as a Reconcile found and left it.        *)
ServicesQuiet ==
  \A s \in Services : s \notin queue /\ cr[s].gen > 0 =>
    /\ cr[s].obs = cr[s].gen
    /\ svcConfig[s] = config /\ template[s] = InputHash(s)
    /\ IsReadyForInput(s, InputHash(s)) =>
         /\ cr[s].ready
         /\ cr[s].appliedT = cr[s].transport /\ cr[s].appliedN = cr[s].notif

(* The services before the n-th have the secrets a Reconcile wants.        *)
Deployed(n) ==
  \A s \in Services : s < n =>
    /\ cr[s].gen > 0
    /\ cr[s].transport = Desired.transport /\ cr[s].notif = Desired.notif

NamesKnown == turl > 0 /\ (notifOn => nturl > 0)

(* Nothing the Manila controller watches has changed since its Reconcile   *)
(* claimed the secrets.                                                    *)
Undisturbed == life = "live" /\ Manila \notin queue

(* While that Reconcile deploys the services ...                           *)
RunsUndisturbed ==
  Undisturbed /\ cursor # 0 =>
    /\ NamesKnown /\ snap = Desired /\ config = Desired
    /\ Deployed(cursor)
    /\ (\A s \in Services : s < cursor => ObservedAs(cr[s], snap)) => allReady

(* The status tracks what a Reconcile wants, and nothing else.             *)
TracksDesired ==
  /\ status.transport = Desired.transport /\ status.ac = Desired.ac
  /\ IF Desired.notif = 0 THEN status.notif \in {0, Nil} ELSE status.notif = Desired.notif

(* ... and after it has returned, with nothing left to do.                 *)
RestsUndisturbed ==
  Undisturbed /\ cursor = 0 =>
    /\ NamesKnown /\ config = Desired
    /\ Deployed(NumServices + 1)
    /\ tfin \subseteq {status.transport, Desired.transport}
    /\ nfin \subseteq {status.notif, Desired.notif}
    /\ afin \subseteq {status.ac, Desired.ac}
    /\ (\A s \in Services : ObservedAs(cr[s], Desired)) => TracksDesired

(* A deletion stays queued until it is done, and nothing is claimed before *)
(* the Manila CR has its finalizer nor after it is gone.                   *)
DeletionPending ==
  /\ life = "deleting" => Manila \in queue
  /\ ~status.known \/ life = "gone" => tfin = {} /\ nfin = {} /\ afin = {}

Rest == ServicesQuiet /\ RunsUndisturbed /\ RestsUndisturbed /\ DeletionPending

-----------------------------------------------------------------------------
(***************************************************************************)
(* Coming to rest.                                                         *)
(***************************************************************************)

(* A new Manila CR is queued, and nothing is claimed.                      *)
LEMMA InitRest == Init => Rest
<1> SUFFICES ASSUME Init PROVE Rest
  OBVIOUS
<1>1. ServicesQuiet
  <2>1. \A s \in Services : cr[s].gen = 0
    BY DEF Init, NoSubCR
  <2> QED
    BY <2>1 DEF ServicesQuiet
<1>2. ~Undisturbed
  BY DEF Init, Undisturbed
<1>3. DeletionPending
  BY DEF Init, DeletionPending
<1> QED
  BY <1>1, <1>2, <1>3 DEF Rest, RunsUndisturbed, RestsUndisturbed

(* The services and their pods leave what the Manila spec asks for alone.  *)
LEMMA DownstreamKeepsSpec == Downstream => UNCHANGED <<specVars, finVars, status, config, localVars>>
  BY DEF Downstream, specVars, finVars, localVars, svcVars, ServiceController, ServiceInit,
         ServiceRehash, ServiceDeploy, ServiceError, PodStart, PodFinish, PodRestart

(* A sub-CR that is not queued after a step, its own Reconcile apart, was  *)
(* not queued before, and nothing its Reconcile reads has changed (or it   *)
(* does not exist yet).                                                    *)
LEMMA Unattended ==
  ASSUME TypeOK, [Next]_vars, ~Collect, NEW s \in Services, s \notin queue', ~ServiceDeploy(s)
  PROVE  /\ cr'[s] = cr[s] /\ svcConfig'[s] = svcConfig[s] /\ template'[s] = template[s]
         /\ pods'[s] = pods[s]
         /\ (s \notin queue /\ config' = config) \/ cr[s].gen = 0
<1>0. s # Manila
  BY DEF Services, Manila
<1> DEFINE Kept == /\ cr'[s] = cr[s] /\ svcConfig'[s] = svcConfig[s]
                   /\ template'[s] = template[s] /\ pods'[s] = pods[s]
<1>t. cr[s].gen \in Nat
  BY DEF TypeOK, SubCR
<1>1. CASE Owners
  <2>1. queue' = queue \cup {Manila} /\ config' = config
    BY <1>1 DEF Owners, PublishTransport, PublishNotifications, EditSpec, DeleteManila,
                DependencyLost, DependencyReady
  <2> QED
    BY <1>1, <2>1, UpstreamFrame DEF Upstream, svcVars
<1>2. CASE Deletion
  <2>1. queue \subseteq queue' \cup {Manila} /\ config' = config
    BY <1>2 DEF Deletion, ReconcileDelete, DeleteFault, ManilaGone
  <2> QED
    BY <1>0, <1>2, <2>1, UpstreamFrame DEF Upstream, svcVars
<1>3. CASE ManilaInit \/ RequestTransport \/ RequestNotifications \/ WaitForDependency
           \/ FinishReconcile
  <2>1. queue \subseteq queue' /\ config' = config
    BY <1>3 DEF ManilaInit, RequestTransport, RequestNotifications, WaitForDependency,
                FinishReconcile
  <2> QED
    BY <1>3, <2>1, UpstreamFrame DEF Upstream, svcVars
<1>4. CASE PublishConfig \/ ClaimAC \/ Fault
  <2>1. \/ queue' = queue \cup When(config' # config, Existing)
        \/ queue' = (queue \ {Manila}) \cup When(config' # config, Existing)
        \/ queue' = queue \cup {Manila} \cup When(config' # config, Existing)
        \/ queue' = {Manila} \cup Existing
    BY <1>4 DEF PublishConfig, ClaimAC, Fault
  <2>2. s \in Existing => s \notin queue /\ config' = config
    BY <1>0, <2>1 DEF When
  <2>3. s \notin Existing => cr[s].gen = 0
    BY <1>t DEF Existing
  <2> QED
    BY <1>4, <2>1, <2>2, <2>3, UpstreamFrame DEF Upstream, svcVars
<1>5. CASE DeployService
  <2>1. /\ UNCHANGED <<config, svcConfig, template, pods>> /\ queue \subseteq queue'
        /\ s = cursor => cr'[s] = cr[s]
        /\ s # cursor => cr'[s] = cr[s]
    BY <1>5 DEF DeployService, TypeOK, When
  <2> QED
    BY <2>1
<1>6. ASSUME NEW r \in Services, ServiceController(r) \/ ServiceError(r)
      PROVE  s \notin queue /\ Kept /\ config' = config
  <2>1. CASE r = s
    <3>1. ServiceInit(s) \/ ServiceRehash(s) \/ ServiceError(s)
      BY <1>6, <2>1 DEF ServiceController
    <3>2. s \in queue /\ queue \subseteq queue'
      BY <3>1 DEF ServiceInit, ServiceRehash, ServiceError
    <3> QED
      BY <3>2
  <2>2. CASE r # s
    <3>1. Kept /\ config' = config
      BY <1>6, <2>2, ServiceStep
    <3>2. queue \subseteq queue' \cup {r}
      BY <1>6 DEF ServiceController, ServiceInit, ServiceRehash, ServiceDeploy, ServiceError
    <3> QED
      BY <2>2, <3>1, <3>2
  <2> QED
    BY <2>1, <2>2
<1>7. ASSUME NEW r \in Services, PodStart(r) \/ PodFinish(r) \/ PodRestart(r)
      PROVE  s \notin queue /\ Kept /\ config' = config
  <2>1. queue' = queue \cup {r}
    BY <1>7 DEF PodStart, PodFinish, PodRestart
  <2> QED
    BY <1>7, <2>1, PodStep
<1>8. CASE UNCHANGED vars
  BY <1>8 DEF vars, svcVars
<1> QED
  BY <1>1, <1>2, <1>3, <1>4, <1>5, <1>6, <1>7, <1>8, StepKinds DEF Upstream, Downstream

(* Every action keeps what an unqueued sub-CR stands for.                  *)
LEMMA ServicesQuietStep ==
  ASSUME TypeOK, ServicesQuiet, [Next]_vars
  PROVE  ServicesQuiet'
<1>1. CASE Collect
  <2>1. \A s \in Services : cr'[s].gen = 0
    BY <1>1 DEF Collect, NoSubCR
  <2> QED
    BY <2>1 DEF ServicesQuiet
<1>2. CASE ~Collect
  <2> SUFFICES ASSUME NEW s \in Services, s \notin queue', cr'[s].gen > 0
               PROVE  /\ cr'[s].obs = cr'[s].gen
                      /\ svcConfig'[s] = config' /\ template'[s] = InputHash(s)'
                      /\ IsReadyForInput(s, InputHash(s))' =>
                           /\ cr'[s].ready
                           /\ cr'[s].appliedT = cr'[s].transport
                           /\ cr'[s].appliedN = cr'[s].notif
    BY DEF ServicesQuiet
  <2>1. CASE ~ServiceDeploy(s)
    <3>1. /\ s \notin queue
          /\ cr'[s] = cr[s] /\ svcConfig'[s] = svcConfig[s] /\ template'[s] = template[s]
          /\ pods'[s] = pods[s] /\ config' = config
      BY <1>2, <2>1, Unattended
    <3>2. InputHash(s)' = InputHash(s)
      BY <3>1 DEF InputHash
    <3>3. IsReadyForInput(s, InputHash(s))' <=> IsReadyForInput(s, InputHash(s))
      BY <3>1, <3>2 DEF IsReadyForInput
    <3> QED
      BY <3>1, <3>2, <3>3 DEF ServicesQuiet
  <2>2. CASE ServiceDeploy(s)
    <3>1. PICK c \in Reports(s) : cr' = [cr EXCEPT ![s] = c]
      BY <2>2 DEF ServiceDeploy
    <3>2. cr' = cr /\ template' = template
      BY <2>2 DEF ServiceDeploy, When
    <3>3. c = cr[s] /\ cr[s] \in SubCR
      BY <3>1, <3>2 DEF TypeOK
    <3>4. /\ config' = config /\ pods' = pods /\ svcConfig'[s] = config
          /\ template'[s] = InputHash(s)
      BY <2>2 DEF ServiceDeploy, TypeOK
    <3>5. InputHash(s)' = InputHash(s)
      BY <3>2, <3>4 DEF InputHash
    <3>6. IsReadyForInput(s, InputHash(s))' <=> IsReadyForInput(s, InputHash(s))
      BY <3>4, <3>5 DEF IsReadyForInput
    <3>7. cr[s].obs = cr[s].gen
      BY <3>1, <3>3 DEF Reports, SubCR
    <3>8. IsReadyForInput(s, InputHash(s)) =>
            cr[s].ready /\ cr[s].appliedT = cr[s].transport /\ cr[s].appliedN = cr[s].notif
      BY <3>1, <3>3 DEF Reports, SubCR
    <3> QED
      BY <3>2, <3>4, <3>5, <3>6, <3>7, <3>8
  <2> QED
    BY <2>1, <2>2
<1> QED
  BY <1>1, <1>2

(* Whatever disturbs the Manila controller queues the Manila CR.           *)
LEMMA QuietSteps ==
  ASSUME TypeOK, [Next]_vars, Undisturbed'
  PROVE  \/ ClaimAC
         \/ FinishReconcile /\ Undisturbed /\ UNCHANGED <<specVars, status>>
         \/ DeployService /\ Undisturbed /\ UNCHANGED cr
         \/ Undisturbed /\ UNCHANGED <<cr, specVars, finVars, status, config, localVars>>
<1>0. life = "live" /\ life' = "live" /\ Manila \notin queue'
  BY Alive DEF Undisturbed
<1>1. ~Owners
  BY <1>0 DEF Owners, PublishTransport, PublishNotifications, EditSpec, DeleteManila,
              DependencyLost, DependencyReady
<1>2. ~Deletion /\ ~Collect
  BY <1>0 DEF Deletion, ReconcileDelete, DeleteFault, ManilaGone, Collect
<1>3. ~(ManilaInit \/ RequestTransport \/ RequestNotifications \/ WaitForDependency
         \/ PublishConfig \/ Fault)
  BY <1>0 DEF ManilaInit, RequestTransport, RequestNotifications, WaitForDependency,
     PublishConfig, Fault, ClaimTransport, Starts
<1>4. CASE FinishReconcile
  BY <1>0, <1>4 DEF FinishReconcile, Undisturbed, When, specVars
<1>5. CASE DeployService
  <2>1. Manila \notin queue
    BY <1>0, <1>5 DEF DeployService
  <2>2. cr' = [cr EXCEPT ![cursor] = cr[cursor]]
    BY <1>0, <1>5 DEF DeployService, When
  <2>3. cr' = cr
    BY <2>2 DEF TypeOK
  <2> QED
    BY <1>0, <1>5, <2>1, <2>3 DEF Undisturbed
<1>6. ASSUME NEW s \in Services, ServiceController(s) \/ ServiceError(s)
      PROVE  Manila \notin queue /\ UNCHANGED cr
  <2>1. s # Manila
    BY DEF Services, Manila
  <2> QED
    BY <1>0, <1>6, <2>1 DEF ServiceController, ServiceInit, ServiceRehash, ServiceDeploy,
       ServiceError, When
<1>7. ASSUME NEW s \in Services, PodStart(s) \/ PodFinish(s) \/ PodRestart(s)
      PROVE  Manila \notin queue /\ UNCHANGED cr
  BY <1>0, <1>7 DEF PodStart, PodFinish, PodRestart, svcVars
<1>8. CASE Downstream
  BY <1>0, <1>6, <1>7, <1>8, DownstreamKeepsSpec DEF Downstream, Undisturbed
<1>9. CASE UNCHANGED vars
  BY <1>0, <1>9 DEF vars, svcVars, Undisturbed
<1> QED
  BY <1>1, <1>2, <1>3, <1>4, <1>5, <1>8, <1>9, StepKinds DEF Upstream

(* What a Reconcile wants depends on the specs and the TransportURLs only. *)
LEMMA DesiredKept == UNCHANGED specVars => UNCHANGED <<Desired, NamesKnown>>
  BY DEF specVars, Desired, NamesKnown

(* An undisturbed Reconcile counts every service that is ready.            *)
LEMMA RunsStep ==
  ASSUME TypeOK, RunsUndisturbed, [Next]_vars
  PROVE  RunsUndisturbed'
<1> SUFFICES ASSUME Undisturbed', cursor' # 0 PROVE RunsUndisturbed'
  BY DEF RunsUndisturbed
<1>1. CASE ClaimAC
  <2>1. /\ UNCHANGED specVars /\ NamesKnown
        /\ snap' = Desired /\ config' = Desired /\ allReady' /\ cursor' = 1
    BY <1>1 DEF ClaimAC, ClaimTransport, NamesKnown
  <2>2. Deployed(cursor)'
    BY <2>1 DEF Deployed, Services
  <2> QED
    BY <2>1, <2>2, DesiredKept DEF RunsUndisturbed
<1>2. CASE FinishReconcile
  BY <1>2 DEF FinishReconcile, Return
<1>3. CASE DeployService /\ Undisturbed /\ UNCHANGED cr
  <2>1. /\ UNCHANGED <<specVars, config, snap>>
        /\ cursor \in Services /\ cursor' = cursor + 1 /\ cursor # 0
    BY <1>3 DEF DeployService, Services
  <2>2. /\ NamesKnown /\ snap = Desired /\ config = Desired /\ Deployed(cursor)
        /\ (\A s \in Services : s < cursor => ObservedAs(cr[s], snap)) => allReady
    BY <1>3, <2>1 DEF RunsUndisturbed
  <2>3. /\ cr[cursor].gen > 0
        /\ cr[cursor].transport = snap.transport /\ cr[cursor].notif = snap.notif
        /\ ObservedAs(cr[cursor], snap) /\ allReady => allReady'
    <3>1. ~(cr[cursor].gen = 0 \/ cr[cursor].transport # snap.transport
             \/ cr[cursor].notif # snap.notif)
      <4>1. Manila \notin queue'
        BY DEF Undisturbed
      <4> QED
        BY <1>3, <4>1 DEF DeployService, When
    <3>2. allReady' = (allReady /\ Observed(cr[cursor]))
      BY <1>3, <3>1 DEF DeployService
    <3>3. cr[cursor].gen > 0
      <4>1. cr[cursor].gen \in Nat
        BY <2>1 DEF TypeOK, SubCR
      <4> QED
        BY <3>1, <4>1
    <3>4. ObservedAs(cr[cursor], snap) /\ allReady => allReady'
      BY <3>2, Zenon DEF Observed, ObservedAs
    <3> QED
      BY <3>1, <3>3, <3>4
  <2>4. \A s \in Services : s < cursor' <=> s < cursor \/ s = cursor
    BY <2>1 DEF Services
  <2>5. Deployed(cursor)'
    BY <1>3, <2>1, <2>2, <2>3, <2>4, DesiredKept DEF Deployed
  <2>6. (\A s \in Services : s < cursor' => ObservedAs(cr[s], snap)) => allReady'
    BY <2>1, <2>2, <2>3, <2>4
  <2> QED
    BY <1>3, <2>1, <2>2, <2>5, <2>6, DesiredKept DEF RunsUndisturbed, ObservedAs
<1>4. CASE Undisturbed /\ UNCHANGED <<cr, specVars, finVars, status, config, localVars>>
  <2>1. UNCHANGED <<Desired, NamesKnown, cr, config, cursor, snap, allReady>> /\ cursor # 0
    BY <1>4, DesiredKept DEF localVars
  <2>2. Deployed(cursor)' <=> Deployed(cursor)
    BY <2>1 DEF Deployed
  <2> QED
    BY <1>4, <2>1, <2>2 DEF RunsUndisturbed, ObservedAs
<1> QED
  BY <1>1, <1>2, <1>3, <1>4, QuietSteps

(* A Reconcile that nothing disturbs and that leaves the Manila CR out of  *)
(* the queue has released and pruned all that it does not track.           *)
LEMMA FinishAtRest ==
  ASSUME TypeOK, RunsUndisturbed, Undisturbed, FinishReconcile, UNCHANGED <<specVars, status>>
  PROVE  /\ NamesKnown /\ config = Desired /\ Deployed(NumServices + 1)
         /\ tfin' \subseteq {status.transport, Desired.transport}
         /\ nfin' \subseteq {status.notif, Desired.notif}
         /\ afin' \subseteq {status.ac, Desired.ac}
         /\ (\A s \in Services : ObservedAs(cr[s], Desired)) => TracksDesired
<1>1. cursor = NumServices + 1 /\ cursor # 0
  BY NumServicesAssumption DEF FinishReconcile
<1>2. /\ NamesKnown /\ snap = Desired /\ config = Desired /\ Deployed(NumServices + 1)
      /\ (\A s \in Services : s < cursor => ObservedAs(cr[s], snap)) => allReady
  BY <1>1 DEF RunsUndisturbed
<1>3. status = StatusAfter(4) /\ Finalize(6)
  BY DEF FinishReconcile, Return
<1>4. /\ tfin' \subseteq {status.transport, snap.transport}
      /\ nfin' \subseteq {status.notif, snap.notif}
      /\ afin' \subseteq {status.ac, snap.ac}
  BY <1>3 DEF Finalize, Pruned
<1>5. ASSUME \A s \in Services : ObservedAs(cr[s], Desired)
      PROVE  TracksDesired
  <2>1. allReady
    BY <1>2, <1>5
  <2>2. /\ status.transport = Tracked(mem.transport, snap.transport)
        /\ status.notif = TrackedNotif
        /\ status.ac = Tracked(mem.ac, snap.ac)
    BY <1>3 DEF TypeOK, ManilaStatus, StatusAfter, NotifDone
  <2>3. mem.notif \in Nat \cup {Nil}
    BY DEF TypeOK, ManilaStatus
  <2>4. TrackedNotif = snap.notif \/ (snap.notif = 0 /\ TrackedNotif \in {0, Nil})
    BY <2>1, <2>3 DEF TrackedNotif, Tracked, TearDown, Nil
  <2> QED
    BY <1>2, <2>1, <2>2, <2>4 DEF TracksDesired, Tracked
<1> QED
  BY <1>2, <1>4, <1>5

(* Every action keeps what an unqueued, idle Manila CR stands for.         *)
LEMMA RestsStep ==
  ASSUME TypeOK, RunsUndisturbed, RestsUndisturbed, [Next]_vars
  PROVE  RestsUndisturbed'
<1> SUFFICES ASSUME Undisturbed', cursor' = 0 PROVE RestsUndisturbed'
  BY DEF RestsUndisturbed
<1>1. ~ClaimAC
  BY DEF ClaimAC
<1>2. ~DeployService
  BY DEF DeployService, Services
<1>3. CASE FinishReconcile /\ Undisturbed /\ UNCHANGED <<specVars, status>>
  <2>1. UNCHANGED <<Desired, NamesKnown, status, config, cr>>
    BY <1>3, DesiredKept DEF FinishReconcile, svcVars
  <2>2. Deployed(NumServices + 1)' <=> Deployed(NumServices + 1)
    BY <2>1 DEF Deployed
  <2> QED
    BY <1>3, <2>1, <2>2, FinishAtRest DEF RestsUndisturbed, ObservedAs, TracksDesired
<1>4. CASE Undisturbed /\ UNCHANGED <<cr, specVars, finVars, status, config, localVars>>
  <2>1. UNCHANGED <<Desired, NamesKnown, cr, status, config, cursor, tfin, nfin, afin>>
    BY <1>4, DesiredKept DEF localVars, finVars
  <2>2. Deployed(NumServices + 1)' <=> Deployed(NumServices + 1)
    BY <2>1 DEF Deployed
  <2> QED
    BY <1>4, <2>1, <2>2 DEF RestsUndisturbed, ObservedAs, TracksDesired
<1> QED
  BY <1>1, <1>2, <1>3, <1>4, QuietSteps

(* No Reconcile of a Manila CR that has its finalizer forgets that.        *)
LEMMA StillKnown ==
  ASSUME TypeOK, Lifecycle, NEW n \in Nat
  PROVE  /\ EarlyStatus.known = status.known
         /\ [EarlyStatus EXCEPT !.hash = Desired].known = status.known
         /\ [status EXCEPT !.transport = EarlyStatus.transport].known = status.known
         /\ StatusAfter(n).known = mem.known
         /\ cursor # 0 => life # "gone" /\ status.known /\ mem.known
<1>1. status \in ManilaStatus /\ mem \in ManilaStatus
  BY DEF TypeOK
<1> QED
  BY <1>1 DEF Lifecycle, EarlyStatus, StatusAfter, NotifDone, ManilaStatus

(* Every action keeps a deletion queued and an unknown CR without claims.  *)
LEMMA DeletionStep ==
  ASSUME TypeOK, Lifecycle, DeletionPending, [Next]_vars
  PROVE  DeletionPending'
<1>1. CASE Owners
  BY <1>1 DEF Owners, PublishTransport, PublishNotifications, EditSpec, DeleteManila,
              DependencyLost, DependencyReady, finVars, DeletionPending
<1>2. CASE Deletion
  BY <1>2 DEF Deletion, ReconcileDelete, DeleteFault, ManilaGone, ReleaseForDelete, When,
              specVars, finVars, DeletionPending
<1>3. CASE ManilaInit \/ RequestTransport \/ RequestNotifications \/ WaitForDependency
           \/ PublishConfig \/ ClaimAC
  <2>1. life = "live" /\ life' = "live"
    BY <1>3 DEF ManilaInit, RequestTransport, RequestNotifications, WaitForDependency,
       PublishConfig, ClaimAC, ClaimTransport, Starts, specVars
  <2>2. status'.known
    <3>1. CASE ManilaInit
      BY <3>1 DEF ManilaInit, Return, TypeOK, ManilaStatus
    <3>2. CASE RequestTransport \/ ClaimAC
      BY <3>2 DEF RequestTransport, ClaimAC, ClaimTransport
    <3>3. CASE RequestNotifications \/ WaitForDependency \/ PublishConfig
      BY <3>3, StillKnown DEF RequestNotifications, WaitForDependency, PublishConfig,
         ClaimTransport, Return
    <3> QED
      BY <1>3, <3>1, <3>2, <3>3
  <2> QED
    BY <2>1, <2>2 DEF DeletionPending
<1>4. CASE FinishReconcile
  <2>1. cursor # 0 /\ life' = life /\ queue \subseteq queue' /\ status' = StatusAfter(4)
    BY <1>4, NumServicesAssumption DEF FinishReconcile, Return
  <2>2. life' # "gone" /\ status'.known
    BY <2>1, StillKnown
  <2> QED
    BY <2>1, <2>2 DEF DeletionPending
<1>5. CASE Fault
  <2>1. life' = life /\ Manila \in queue'
    BY <1>5 DEF Fault
  <2>2. life # "gone" /\ status'.known
    <3>1. CASE Starts /\ status.known
               /\ (Interrupted([status EXCEPT !.transport = EarlyStatus.transport])
                    \/ Interrupted(EarlyStatus))
      BY <3>1, StillKnown DEF Starts, Interrupted, Return
    <3>2. CASE cursor # 0 /\ Interrupted(mem)
      BY <3>2, StillKnown DEF Interrupted, Return
    <3>3. CASE cursor # 0 /\ \E n \in 0..5 : Interrupted(StatusAfter(n))
      <4>1. PICK n \in 0..5 : Interrupted(StatusAfter(n))
        BY <3>3
      <4> QED
        BY <3>3, <4>1, StillKnown DEF Interrupted, Return
    <3>4. cursor \in Services \/ cursor = NumServices + 1 => cursor # 0
      BY NumServicesAssumption DEF Services
    <3> QED
      BY <1>5, <3>1, <3>2, <3>3, <3>4 DEF Fault, ClaimTransport
  <2> QED
    BY <2>1, <2>2 DEF DeletionPending
<1>6. CASE DeployService
  BY <1>6 DEF DeployService, specVars, finVars, DeletionPending
<1>7. CASE Downstream
  <2>1. Manila \in queue => Manila \in queue'
    <3>1. \A s \in Services : s # Manila
      BY DEF Services, Manila
    <3> QED
      BY <1>7, <3>1 DEF Downstream, ServiceController, ServiceInit, ServiceRehash, ServiceDeploy,
         ServiceError, PodStart, PodFinish, PodRestart
  <2> QED
    BY <1>7, <2>1, DownstreamKeepsSpec DEF specVars, finVars, DeletionPending
<1>8. CASE Collect
  BY <1>8 DEF Collect, finVars, DeletionPending
<1>9. CASE UNCHANGED vars
  BY <1>9 DEF vars, specVars, finVars, DeletionPending
<1> QED
  BY <1>1, <1>2, <1>3, <1>4, <1>5, <1>6, <1>7, <1>8, <1>9, StepKinds DEF Upstream

(* Rest is kept by every action.                                           *)
LEMMA NextRest == IInv /\ Rest /\ [Next]_vars => Rest'
  BY ServicesQuietStep, RunsStep, RestsStep, DeletionStep DEF IInv, Rest

(* What the queues stand for holds in every state.                         *)
THEOREM QueuesTellAll == Spec => []Rest
<1>1. Spec => [](IInv /\ Rest)
  BY InitInv, InitRest, NextInv, NextRest, PTL DEF Spec
<1> QED
  BY <1>1, PTL

-----------------------------------------------------------------------------
(***************************************************************************)
(* At rest.                                                                *)
(***************************************************************************)

(* When everything has come to rest, the sub-CRs and their pods are as the *)
(* Manila controller wants them, and the status says so.                   *)
LEMMA SettledState ==
  ASSUME TypeOK, Rest, Settled, life = "live"
  PROVE  /\ NamesKnown /\ config = Desired /\ TracksDesired
         /\ \A s \in Services :
              /\ ObservedAs(cr[s], Desired)
              /\ cr[s].transport = Desired.transport /\ cr[s].notif = Desired.notif
              /\ svcConfig[s] = config /\ template[s].config = config
              /\ \A p \in pods[s] : p.hash.config = config
<1>1. Undisturbed /\ cursor = 0
  BY DEF Settled, Undisturbed
<1>2. /\ NamesKnown /\ config = Desired /\ Deployed(NumServices + 1)
      /\ (\A s \in Services : ObservedAs(cr[s], Desired)) => TracksDesired
  BY <1>1 DEF Rest, RestsUndisturbed
<1>3. ASSUME NEW s \in Services
      PROVE  /\ ObservedAs(cr[s], Desired)
             /\ cr[s].transport = Desired.transport /\ cr[s].notif = Desired.notif
             /\ svcConfig[s] = config /\ template[s].config = config
             /\ \A p \in pods[s] : p.hash.config = config
  <2>1. s < NumServices + 1
    BY NumServicesAssumption DEF Services
  <2>2. cr[s].gen > 0 /\ cr[s].transport = Desired.transport /\ cr[s].notif = Desired.notif
    BY <1>2, <2>1 DEF Deployed
  <2>3. /\ cr[s].obs = cr[s].gen
        /\ svcConfig[s] = config /\ template[s] = InputHash(s)
        /\ IsReadyForInput(s, InputHash(s)) =>
             cr[s].ready /\ cr[s].appliedT = cr[s].transport /\ cr[s].appliedN = cr[s].notif
    BY <2>2 DEF Rest, ServicesQuiet, Settled
  <2>4. IsReadyForInput(s, InputHash(s)) /\ InputHash(s).config = config
    BY <2>3 DEF Settled, IsReadyForInput, InputHash
  <2>5. \A p \in pods[s] : p.hash.config = config
    BY <2>3, <2>4 DEF Settled
  <2> QED
    BY <2>2, <2>3, <2>4, <2>5 DEF ObservedAs
<1> QED
  BY <1>2, <1>3

(* At rest no secret is claimed but the ones the status tracks.            *)
LEMMA SettledClaims ==
  ASSUME TypeOK, Rest, Settled
  PROVE  /\ tfin \subseteq {status.transport} /\ nfin \subseteq {status.notif}
         /\ afin \subseteq {status.ac}
<1>1. life # "deleting"
  BY DEF Settled, Rest, DeletionPending
<1>2. CASE life = "gone"
  BY <1>2 DEF Rest, DeletionPending
<1>3. CASE life = "live"
  <2>1. /\ tfin \subseteq {status.transport, Desired.transport}
        /\ nfin \subseteq {status.notif, Desired.notif}
        /\ afin \subseteq {status.ac, Desired.ac}
    BY <1>3 DEF Settled, Undisturbed, Rest, RestsUndisturbed
  <2>2. 0 \notin nfin
    BY DEF TypeOK
  <2> QED
    BY <1>3, <2>1, <2>2, SettledState DEF TracksDesired
<1> QED
  BY <1>1, <1>2, <1>3 DEF TypeOK, FlagsOK

(* Release and prune strand no secret: when everything has come to rest,   *)
(* in whatever order rotations, edits, rollouts, outages and faults came,  *)
(* every finalizer left is on a secret that the status tracks.             *)
THEOREM StrandsNothing == Spec => []NothingStranded
<1>1. IInv /\ Rest => NothingStranded
  BY SettledClaims DEF IInv, NothingStranded
<1> QED
  BY <1>1, Invariance, QueuesTellAll, PTL

(* What RotationCompletes promises of the end: whenever everything is at   *)
(* rest, every service runs on the last messaging secret that was issued,  *)
(* and that one only is tracked and claimed.                               *)
Rotated ==
  Settled /\ life = "live" =>
    /\ turl > 0 /\ status.transport = turl /\ tfin = {turl}
    /\ \A s \in Services : pods[s] # {} /\ UsedTransport(s) = {turl}

(* The operator comes to rest on the last messaging secret only, however   *)
(* many rotations overtook one another on the way.                         *)
THEOREM RestsOnLast == Spec => []Rotated
<1>1. ASSUME IInv, Rest, Settled, life = "live"
      PROVE  /\ turl > 0 /\ status.transport = turl /\ tfin = {turl}
             /\ \A s \in Services : pods[s] # {} /\ UsedTransport(s) = {turl}
  <2>1. /\ TypeOK /\ Order /\ PublishedClaimed
        /\ turl > 0 /\ config = Desired /\ TracksDesired
        /\ \A s \in Services :
             /\ svcConfig[s] = config /\ template[s].config = config
             /\ \A p \in pods[s] : p.hash.config = config
    BY <1>1, SettledState DEF IInv, NamesKnown
  <2>2. Desired.transport = turl
    BY DEF Desired
  <2>3. status.transport = turl /\ config.transport = turl
    BY <2>1, <2>2 DEF TracksDesired
  <2>4. tfin = {turl}
    BY <1>1, <2>1, <2>3, SettledClaims DEF PublishedClaimed
  <2>5. \A s \in Services : \A p \in pods[s] : p.config.transport = config.transport
    BY <2>1, Numbers DEF Order, CopiedDown, HashBounds
  <2>6. \A s \in Services : pods[s] # {} /\ UsedTransport(s) = {turl}
    BY <1>1, <2>1, <2>3, <2>5 DEF Settled, UsedTransport
  <2> QED
    BY <2>1, <2>3, <2>4, <2>6
<1>2. IInv /\ Rest => Rotated
  BY <1>1 DEF Rotated
<1> QED
  BY <1>2, Invariance, QueuesTellAll, PTL

(* A Manila CR that is gone has released every secret, whatever failed on  *)
(* the way: the safety half of DeletionReleasesAll.                        *)
THEOREM GoneReleasesAll ==
  Spec => [](life = "gone" => tfin = {} /\ nfin = {} /\ afin = {})
<1>1. Rest => (life = "gone" => tfin = {} /\ nfin = {} /\ afin = {})
  BY DEF Rest, DeletionPending
<1> QED
  BY <1>1, QueuesTellAll, PTL

-----------------------------------------------------------------------------
(***************************************************************************)
(* One change at a time: at most two credentials of a kind are in use, the *)
(* one the status tracks and the one a Reconcile wants.                    *)
(***************************************************************************)

(* The config-data that is stored for a service or read by a pod.          *)
ConfigsInUse == {config} \cup {svcConfig[s] : s \in Services}
                         \cup UNION {{p.config : p \in pods[s]} : s \in Services}

(* While a Reconcile runs nothing changes what it started from.            *)
MidReconcile == cursor # 0 => snap = Desired /\ mem = EarlyStatus /\ NamesKnown

TwoCredentials ==
  \A c \in ConfigsInUse : /\ c.transport \in {0, status.transport, Desired.transport}
                          /\ c.notif \in {0, status.notif, Desired.notif}

(* Every copy names the same notification secret.                          *)
Uniform(n) ==
  /\ config.notif = n
  /\ \A s \in Services :
       /\ cr[s].notif = n /\ cr[s].appliedN = n
       /\ svcConfig[s].notif = n /\ template[s].config.notif = n
       /\ \A p \in pods[s] : p.config.notif = n /\ p.hash.config.notif = n

(* A notifications bus that has no secret yet is not in use.               *)
NoBusYet == notifOn /\ nturl \in {Nil, 0} => Uniform(0)

(* A notification secret that has come down to a copy has come down to     *)
(* every copy before it.  (Those secrets have no order: one that is        *)
(* switched off and on again may have a name it had before.)               *)
HandedDown(n) ==
  \A s \in Services :
    /\ cr[s].notif = n => config.notif = n
    /\ svcConfig[s].notif = n => config.notif = n
    /\ template[s].config.notif = n => svcConfig[s].notif = n
    /\ cr[s].appliedN = n => svcConfig[s].notif = n
    /\ \A p \in pods[s] :
         /\ cr[s].appliedN = n => p.config.notif = n
         /\ p.hash.config.notif = n => p.config.notif = n
         /\ p.config.notif = n => svcConfig[s].notif = n

(* A service that counted as ready has the notification secret that this   *)
(* Reconcile wants.                                                        *)
ReadyHasNotif ==
  cursor # 0 /\ allReady => \A s \in Services : s < cursor =>
    /\ svcConfig[s].notif = snap.notif
    /\ \A p \in pods[s] : p.config.notif = snap.notif

(* Every secret in use carries the finalizer.                              *)
Leased ==
  \A c \in ConfigsInUse : /\ c.transport # 0 => c.transport \in tfin
                          /\ c.notif # 0 => c.notif \in nfin

OneChange ==
  /\ MidReconcile /\ NoBusYet /\ HandedDown(Desired.notif) /\ ReadyHasNotif
  /\ TwoCredentials /\ Leased

-----------------------------------------------------------------------------
(* The config-data of a service comes from its parent, and what a pod has  *)
(* read from its service.                                                  *)
LEMMA ConfigsStep ==
  ASSUME TypeOK, [Next]_vars, ~Collect
  PROVE  ConfigsInUse' \subseteq ConfigsInUse \cup {config'}
<1>1. ASSUME NEW s \in Services
      PROVE  /\ svcConfig'[s] \in ConfigsInUse \cup {config'}
             /\ \A p \in pods'[s] : p.config \in ConfigsInUse \cup {config'}
  <2>0. /\ config \in ConfigsInUse /\ svcConfig[s] \in ConfigsInUse
        /\ \A p \in pods[s] : p.config \in ConfigsInUse
    BY DEF ConfigsInUse
  <2>1. CASE Upstream \/ DeployService
    BY <2>0, <2>1, UpstreamFrame DEF DeployService, svcVars
  <2>2. ASSUME NEW r \in Services, ServiceController(r) \/ ServiceError(r)
        PROVE  /\ svcConfig'[s] \in ConfigsInUse
               /\ \A p \in pods'[s] : p.config \in ConfigsInUse
    BY <2>0, <2>2, ServiceStep
  <2>3. ASSUME NEW r \in Services, PodStart(r) \/ PodFinish(r) \/ PodRestart(r)
        PROVE  /\ svcConfig'[s] \in ConfigsInUse
               /\ \A p \in pods'[s] : p.config \in ConfigsInUse
    <3>1. svcConfig' = svcConfig /\ \A p \in pods'[s] : p \in pods[s] \/ p.config = svcConfig[s]
      BY <2>3, PodStep
    <3> QED
      BY <2>0, <3>1
  <2> QED
    BY <2>1, <2>2, <2>3, StepKinds DEF Downstream
<1> QED
  BY <1>1 DEF ConfigsInUse

(* What a service controller may do to the secrets named in its CR.        *)
LEMMA ServiceNotifStep ==
  ASSUME TypeOK, NEW s \in Services, ServiceController(s) \/ ServiceError(s)
  PROVE  /\ cr'[s].notif = cr[s].notif
         /\ \/ cr'[s].appliedN = cr[s].appliedN
            \/ /\ cr'[s].appliedN = cr[s].notif /\ svcConfig'[s] = config
               /\ \A p \in pods[s] : p.hash.config = config
<1>1. cr \in [Services -> SubCR] /\ cr[s] \in SubCR /\ svcConfig \in [Services -> Inputs]
  BY DEF TypeOK
<1>2. CASE ServiceInit(s) \/ ServiceRehash(s)
  BY <1>1, <1>2 DEF ServiceInit, ServiceRehash, SubCR
<1>3. CASE ServiceDeploy(s)
  <2>1. PICK c \in Reports(s) : cr' = [cr EXCEPT ![s] = c]
    BY <1>3 DEF ServiceDeploy
  <2>2. cr'[s] = c /\ svcConfig'[s] = config
    BY <1>1, <1>3, <2>1 DEF ServiceDeploy
  <2>3. /\ c.notif = cr[s].notif
        /\ \/ c.appliedN = cr[s].appliedN
           \/ c.appliedN = cr[s].notif /\ IsReadyForInput(s, InputHash(s))
    BY <1>1, <2>1 DEF Reports, SubCR
  <2>4. IsReadyForInput(s, InputHash(s)) => \A p \in pods[s] : p.hash.config = config
    BY DEF IsReadyForInput, InputHash
  <2> QED
    BY <2>2, <2>3, <2>4
<1>4. CASE ServiceError(s)
  <2>1. \/ cr' = cr
        \/ cr' = [cr EXCEPT ![s].obs = cr[s].gen]
        \/ \E r \in BOOLEAN : cr' = [cr EXCEPT ![s].obs = cr[s].gen, ![s].ready = r]
    BY <1>4 DEF ServiceError
  <2> QED
    BY <1>1, <2>1 DEF SubCR
<1> QED
  BY <1>2, <1>3, <1>4 DEF ServiceController

(* How a notification secret comes down, from the Manila controller to the *)
(* pods and back to the report in the sub-CR's status.                     *)
LEMMA NotifFlow ==
  ASSUME TypeOK, SnapIsConfig, [Next]_vars, ~Collect, NEW s \in Services
  PROVE  /\ \/ cr'[s].notif = cr[s].notif
            \/ cr'[s].notif = config.notif /\ config' = config
         /\ \/ svcConfig'[s] = svcConfig[s]
            \/ svcConfig'[s] = config /\ config' = config
         /\ \/ template'[s] = template[s]
            \/ template'[s].config = config /\ svcConfig'[s] = config
         /\ \/ cr'[s].appliedN = cr[s].appliedN
            \/ /\ cr'[s].appliedN = cr[s].notif /\ svcConfig'[s] = config
               /\ pods'[s] = pods[s] /\ \A p \in pods[s] : p.hash.config = config
         /\ \/ pods'[s] = pods[s]
            \/ /\ UNCHANGED <<config, cr, svcConfig, template>>
               /\ \A p \in pods'[s] :
                    \/ p \in pods[s]
                    \/ /\ p.config = svcConfig[s]
                       /\ p.hash = template[s] \/ \E q \in pods[s] : p.hash = q.hash
<1>1. CASE Upstream
  BY <1>1, UpstreamFrame DEF svcVars
<1>2. CASE DeployService
  <2>1. UNCHANGED <<config, svcConfig, template, pods>> /\ cursor # 0
    BY <1>2 DEF DeployService, Services
  <2>2. /\ cr'[s].appliedN = cr[s].appliedN
        /\ cr'[s].notif = cr[s].notif \/ cr'[s].notif = snap.notif
    <3>1. cr \in [Services -> SubCR] /\ cr[s] \in SubCR
      BY DEF TypeOK
    <3> QED
      BY <1>2, <3>1 DEF DeployService, SubCR
  <2> QED
    BY <2>1, <2>2 DEF SnapIsConfig
<1>3. ASSUME NEW r \in Services, ServiceController(r) \/ ServiceError(r)
      PROVE  /\ UNCHANGED <<config, pods>> /\ cr'[s].notif = cr[s].notif
             /\ svcConfig'[s] \in {svcConfig[s], config}
             /\ \/ template'[s] = template[s]
                \/ template'[s].config = config /\ svcConfig'[s] = config
             /\ \/ cr'[s].appliedN = cr[s].appliedN
                \/ /\ cr'[s].appliedN = cr[s].notif /\ svcConfig'[s] = config
                   /\ \A p \in pods[s] : p.hash.config = config
  <2>1. CASE r = s
    BY <1>3, <2>1, ServiceStep, ServiceNotifStep
  <2>2. CASE r # s
    BY <1>3, <2>2, ServiceStep
  <2> QED
    BY <2>1, <2>2
<1>4. ASSUME NEW r \in Services, PodStart(r) \/ PodFinish(r) \/ PodRestart(r)
      PROVE  /\ UNCHANGED <<config, cr, svcConfig, template>>
             /\ \/ pods'[s] = pods[s]
                \/ \A p \in pods'[s] :
                     \/ p \in pods[s]
                     \/ /\ p.config = svcConfig[s]
                        /\ p.hash = template[s] \/ \E q \in pods[s] : p.hash = q.hash
  <2>1. CASE r = s
    BY <1>4, <2>1, PodStep
  <2>2. CASE r # s
    BY <1>4, <2>2, PodStep
  <2> QED
    BY <2>1, <2>2
<1> QED
  BY <1>1, <1>2, <1>3, <1>4, StepKinds DEF Downstream

(* A step that renders no other secret keeps the secrets handed down.      *)
LEMMA HandDown ==
  ASSUME TypeOK, SnapIsConfig, [Next]_vars, ~Collect,
         NEW n, HandedDown(n), config'.notif = config.notif \/ config'.notif = n
  PROVE  HandedDown(n)'
<1> SUFFICES ASSUME NEW s \in Services
             PROVE  /\ cr'[s].notif = n => config'.notif = n
                    /\ svcConfig'[s].notif = n => config'.notif = n
                    /\ template'[s].config.notif = n => svcConfig'[s].notif = n
                    /\ cr'[s].appliedN = n => svcConfig'[s].notif = n
                    /\ \A p \in pods'[s] :
                         /\ cr'[s].appliedN = n => p.config.notif = n
                         /\ p.hash.config.notif = n => p.config.notif = n
                         /\ p.config.notif = n => svcConfig'[s].notif = n
  BY DEF HandedDown
<1>1. /\ cr[s].notif = n => config.notif = n
      /\ svcConfig[s].notif = n => config.notif = n
      /\ template[s].config.notif = n => svcConfig[s].notif = n
      /\ cr[s].appliedN = n => svcConfig[s].notif = n
      /\ \A p \in pods[s] :
           /\ cr[s].appliedN = n => p.config.notif = n
           /\ p.hash.config.notif = n => p.config.notif = n
           /\ p.config.notif = n => svcConfig[s].notif = n
  BY DEF HandedDown
<1>2. svcConfig[s].notif = n => svcConfig'[s].notif = n
  BY <1>1, NotifFlow
<1>3. /\ cr'[s].notif = n => config'.notif = n
      /\ svcConfig'[s].notif = n => config'.notif = n
      /\ template'[s].config.notif = n => svcConfig'[s].notif = n
      /\ cr'[s].appliedN = n => svcConfig'[s].notif = n
  BY <1>1, <1>2, NotifFlow
<1>4. CASE pods'[s] = pods[s]
  <2>1. cr'[s].appliedN = n => \A p \in pods[s] : p.config.notif = n
    BY <1>1, NotifFlow
  <2> QED
    BY <1>1, <1>2, <1>3, <1>4, <2>1
<1>5. CASE /\ UNCHANGED <<config, cr, svcConfig, template>>
           /\ \A p \in pods'[s] :
                \/ p \in pods[s]
                \/ /\ p.config = svcConfig[s]
                   /\ p.hash = template[s] \/ \E q \in pods[s] : p.hash = q.hash
  <2> SUFFICES ASSUME NEW p \in pods'[s]
               PROVE  /\ cr'[s].appliedN = n => p.config.notif = n
                      /\ p.hash.config.notif = n => p.config.notif = n
                      /\ p.config.notif = n => svcConfig'[s].notif = n
    BY <1>3
  <2>1. CASE p \in pods[s]
    BY <1>1, <1>5, <2>1
  <2>2. CASE /\ p.config = svcConfig[s]
             /\ p.hash = template[s] \/ \E q \in pods[s] : p.hash = q.hash
    <3>1. p.hash.config.notif = n => svcConfig[s].notif = n
      BY <1>1, <2>2
    <3> QED
      BY <1>1, <1>5, <2>2, <3>1
  <2> QED
    BY <1>5, <2>1, <2>2
<1> QED
  BY <1>4, <1>5, NotifFlow

(* Copies that are all alike stay alike while nothing else is rendered.    *)
LEMMA StayUniform ==
  ASSUME TypeOK, SnapIsConfig, [Next]_vars, ~Collect,
         NEW n, Uniform(n), config'.notif = config.notif
  PROVE  Uniform(n)'
<1> SUFFICES ASSUME NEW s \in Services
             PROVE  /\ cr'[s].notif = n /\ cr'[s].appliedN = n
                    /\ svcConfig'[s].notif = n /\ template'[s].config.notif = n
                    /\ \A p \in pods'[s] : p.config.notif = n /\ p.hash.config.notif = n
  BY DEF Uniform
<1>1. /\ config.notif = n /\ cr[s].notif = n /\ cr[s].appliedN = n
      /\ svcConfig[s].notif = n /\ template[s].config.notif = n
      /\ \A p \in pods[s] : p.config.notif = n /\ p.hash.config.notif = n
  BY DEF Uniform
<1>2. /\ cr'[s].notif = n /\ cr'[s].appliedN = n
      /\ svcConfig'[s].notif = n /\ template'[s].config.notif = n
  BY <1>1, NotifFlow
<1>3. \A p \in pods'[s] : p.config.notif = n /\ p.hash.config.notif = n
  BY <1>1, NotifFlow
<1> QED
  BY <1>2, <1>3

(* Copies that are all alike have every secret handed down, or none.       *)
LEMMA UniformIsHandedDown == \A v, n : Uniform(v) => HandedDown(n)
  BY DEF Uniform, HandedDown

-----------------------------------------------------------------------------
(***************************************************************************)
(* What changes one at a time.                                             *)
(***************************************************************************)

(* At rest every copy names what a Reconcile wants, and the status, too.   *)
LEMMA SettledCopies ==
  ASSUME IInv, Rest, Settled, life = "live", HandedDown(Desired.notif)
  PROVE  /\ Uniform(Desired.notif)
         /\ \A c \in ConfigsInUse : /\ c.transport = status.transport
                                   /\ c.notif \in {0, status.notif}
<1>1. /\ TypeOK /\ Order
      /\ config = Desired /\ TracksDesired
      /\ \A s \in Services :
           /\ ObservedAs(cr[s], Desired)
           /\ cr[s].notif = Desired.notif
           /\ svcConfig[s] = config /\ template[s].config = config
           /\ \A p \in pods[s] : p.hash.config = config
  BY SettledState DEF IInv
<1>2. \A s \in Services : \A p \in pods[s] : p.config.notif = Desired.notif
  BY <1>1 DEF HandedDown
<1>3. \A s \in Services : \A p \in pods[s] : p.config.transport = config.transport
  BY <1>1, Numbers DEF Order, CopiedDown, HashBounds
<1>4. Uniform(Desired.notif)
  BY <1>1, <1>2 DEF Uniform, ObservedAs
<1>5. \A c \in ConfigsInUse : c.transport = config.transport /\ c.notif = config.notif
  BY <1>1, <1>2, <1>3 DEF ConfigsInUse
<1> QED
  BY <1>1, <1>4, <1>5 DEF TracksDesired

(* A messaging TransportURL that names no secret yet is not in use.        *)
LEMMA NoTransportYet ==
  ASSUME IInv, turl \in {Nil, 0}, NEW c \in ConfigsInUse
  PROVE  c.transport = 0
<1>1. TypeOK /\ Order
  BY DEF IInv
<1>2. config.transport = 0
  BY <1>1, Numbers DEF Order, ConfigIssued, Nil
<1>3. \A s \in Services : svcConfig[s].transport = 0
  BY <1>1, <1>2, Numbers DEF Order, CopiedDown
<1>4. \A s \in Services : \A p \in pods[s] : p.config.transport = 0
  BY <1>1, <1>3, Numbers DEF Order, CopiedDown
<1> QED
  BY <1>2, <1>3, <1>4 DEF ConfigsInUse

(* The messaging secret that a Reconcile wants changes only at rest, or    *)
(* when there was none.                                                    *)
LEMMA TransportWanted ==
  ASSUME Patient, TypeOK, life = "live", life' = "live", [Next]_vars, ~Collect
  PROVE  \/ Desired'.transport = Desired.transport
         \/ UNCHANGED status /\ (Settled \/ turl \in {Nil, 0})
<1>0. turl' = turl => Desired'.transport = Desired.transport
  BY DEF Desired
<1>1. CASE PublishTransport
  <2>1. UNCHANGED status /\ (turl > 0 => Settled)
    BY <1>1 DEF PublishTransport, MayChange
  <2>2. CASE turl > 0
    BY <2>1, <2>2
  <2>3. CASE ~(turl > 0)
    <3>1. turl \in {Nil, 0}
      BY <2>3 DEF TypeOK, Nil
    <3> QED
      BY <2>1, <3>1
  <2> QED
    BY <2>2, <2>3
<1>2. CASE RequestTransport
  BY <1>2 DEF RequestTransport, localVars
<1>3. CASE Owners /\ ~PublishTransport
  BY <1>0, <1>3 DEF Owners, PublishNotifications, EditSpec, DeleteManila, DependencyLost,
     DependencyReady
<1>4. CASE ManilaInit \/ RequestNotifications \/ WaitForDependency \/ PublishConfig \/ ClaimAC
           \/ FinishReconcile \/ Fault \/ DeployService
  BY <1>0, <1>4 DEF ManilaInit, RequestNotifications, WaitForDependency, PublishConfig, ClaimAC,
     FinishReconcile, Fault, DeployService, specVars
<1>5. CASE Deletion \/ Downstream \/ UNCHANGED vars
  BY <1>0, <1>5, DownstreamKeepsSpec DEF Deletion, ReconcileDelete, DeleteFault, ManilaGone,
     specVars, vars
<1> QED
  BY <1>1, <1>2, <1>3, <1>4, <1>5, StepKinds DEF Upstream

(* The notification secret that a Reconcile wants changes only at rest, or *)
(* when there was none.                                                    *)
LEMMA NotifWanted ==
  ASSUME Patient, TypeOK, MidReconcile, life = "live", life' = "live", [Next]_vars, ~Collect
  PROVE  \/ Desired'.notif = Desired.notif
         \/ UNCHANGED config /\ notifOn /\ nturl \in {Nil, 0}
         \/ UNCHANGED config /\ Settled /\ UNCHANGED status
<1>0. nturl' = nturl /\ notifOn' = notifOn => Desired'.notif = Desired.notif
  BY DEF Desired
<1>t. nturl > 0 \/ nturl \in {Nil, 0}
  BY DEF TypeOK, Nil
<1>1. CASE PublishNotifications
  <2>1. UNCHANGED <<config, status, notifOn>> /\ (nturl > 0 => Settled)
    BY <1>1 DEF PublishNotifications, MayChange
  <2>2. ~notifOn => Desired'.notif = Desired.notif
    BY <2>1 DEF Desired
  <2> QED
    BY <1>t, <2>1, <2>2
<1>2. CASE EditSpec
  BY <1>2 DEF EditSpec, MayChange
<1>3. CASE RequestNotifications
  BY <1>3 DEF RequestNotifications
<1>4. CASE PublishTransport \/ DeleteManila \/ DependencyLost \/ DependencyReady \/ ManilaInit
           \/ RequestTransport \/ WaitForDependency \/ PublishConfig \/ ClaimAC \/ DeployService
  BY <1>0, <1>4 DEF PublishTransport, DeleteManila, DependencyLost, DependencyReady, ManilaInit,
     RequestTransport, WaitForDependency, PublishConfig, ClaimAC, DeployService, specVars
<1>5. ASSUME NEW n \in 0..6, Finalize(n), cursor # 0, UNCHANGED notifOn
      PROVE  Desired'.notif = Desired.notif
  <2>1. CASE nturl' = nturl
    BY <1>0, <1>5, <2>1
  <2>2. CASE TearDown
    <3>1. snap.notif = 0 /\ snap = Desired /\ NamesKnown
      BY <1>5, <2>2 DEF TearDown, MidReconcile
    <3>2. ~notifOn
      BY <3>1 DEF NamesKnown, Desired
    <3> QED
      BY <1>5, <3>2 DEF Desired
  <2> QED
    BY <1>5, <2>1, <2>2 DEF Finalize
<1>6. CASE FinishReconcile
  BY <1>5, <1>6, NumServicesAssumption DEF FinishReconcile
<1>7. CASE Fault
  <2>1. UNCHANGED notifOn
    BY <1>7 DEF Fault
  <2>2. UNCHANGED nturl \/ \E n \in 0..5 : Finalize(n) /\ cursor # 0
    BY <1>7, NumServicesAssumption DEF Fault
  <2> QED
    BY <1>0, <1>5, <2>1, <2>2
<1>8. CASE Deletion \/ Downstream \/ UNCHANGED vars
  BY <1>0, <1>8, DownstreamKeepsSpec DEF Deletion, ReconcileDelete, DeleteFault, ManilaGone,
     specVars, vars
<1> QED
  BY <1>1, <1>2, <1>3, <1>4, <1>6, <1>7, <1>8, StepKinds DEF Upstream, Owners

(* A Reconcile works on the specs it has read: those that it would read    *)
(* again, as long as it runs.                                              *)
LEMMA MidStep ==
  ASSUME Patient, TypeOK, MidReconcile, life = "live", life' = "live", [Next]_vars, ~Collect
  PROVE  MidReconcile'
<1> SUFFICES ASSUME cursor' # 0 PROVE MidReconcile'
  BY DEF MidReconcile
<1>1. CASE ClaimAC
  <2>1. /\ UNCHANGED <<specVars, status>> /\ NamesKnown
        /\ snap' = Desired /\ mem' = EarlyStatus
    BY <1>1 DEF ClaimAC, ClaimTransport, NamesKnown
  <2>2. EarlyStatus' = EarlyStatus
    BY <2>1 DEF EarlyStatus, specVars
  <2> QED
    BY <2>1, <2>2, DesiredKept DEF MidReconcile
<1>2. CASE UNCHANGED <<specVars, status, mem, snap>> /\ cursor # 0
  <2>1. EarlyStatus' = EarlyStatus
    BY <1>2 DEF EarlyStatus, specVars
  <2> QED
    BY <1>2, <2>1, DesiredKept DEF MidReconcile
<1>3. CASE DeployService \/ Downstream \/ UNCHANGED vars
  BY <1>2, <1>3, DownstreamKeepsSpec DEF DeployService, Services, localVars, vars
<1>4. CASE Owners
  <2>1. UNCHANGED <<status, mem, snap, cursor>> /\ cursor # 0
    BY <1>4 DEF Owners, PublishTransport, PublishNotifications, EditSpec, DeleteManila,
       DependencyLost, DependencyReady, localVars
  <2>2. ~Settled /\ NamesKnown
    BY <2>1 DEF Settled, MidReconcile
  <2>3. ~PublishTransport /\ ~EditSpec
    BY <2>2 DEF PublishTransport, EditSpec, MayChange, NamesKnown
  <2>4. CASE PublishNotifications
    <3>1. ~(nturl > 0) /\ UNCHANGED <<turl, notifOn, acSpec>>
      BY <2>2, <2>4 DEF PublishNotifications, MayChange
    <3>2. ~notifOn
      BY <2>2, <3>1 DEF NamesKnown
    <3>3. Desired' = Desired /\ EarlyStatus' = EarlyStatus /\ NamesKnown'
      BY <2>1, <2>2, <3>1, <3>2 DEF Desired, EarlyStatus, NamesKnown
    <3> QED
      BY <2>1, <3>3 DEF MidReconcile
  <2>5. CASE DeleteManila \/ DependencyLost \/ DependencyReady
    <3>1. UNCHANGED <<turl, nturl, notifOn, acSpec>>
      BY <2>5 DEF DeleteManila, DependencyLost, DependencyReady
    <3>2. Desired' = Desired /\ EarlyStatus' = EarlyStatus /\ NamesKnown'
      BY <2>1, <2>2, <3>1 DEF Desired, EarlyStatus, NamesKnown
    <3> QED
      BY <2>1, <3>2 DEF MidReconcile
  <2> QED
    BY <1>4, <2>3, <2>4, <2>5 DEF Owners
<1>5. ~(ManilaInit \/ RequestNotifications \/ WaitForDependency \/ PublishConfig
         \/ FinishReconcile \/ Fault)
  BY DEF ManilaInit, RequestNotifications, WaitForDependency, PublishConfig, FinishReconcile, Fault,
     Interrupted, Return
<1>6. ~RequestTransport
  BY DEF RequestTransport, Starts, localVars
<1>7. ~Deletion
  BY DEF Deletion, ReconcileDelete, DeleteFault, ManilaGone
<1> QED
  BY <1>1, <1>3, <1>4, <1>5, <1>6, <1>7, StepKinds DEF Upstream

(* The config-data is rendered from what a Reconcile wants, and nothing it *)
(* reads changes in that step.                                             *)
LEMMA RenderedIsDesired ==
  ASSUME MidReconcile, [Next]_vars, ~Collect, config' # config
  PROVE  cursor = 0 /\ Rendered /\ NamesKnown /\ UNCHANGED Desired
<1>1. cursor = 0 /\ Rendered /\ NamesKnown
  BY ConfigStep DEF Rendered, NamesKnown
<1>2. CASE PublishConfig \/ ClaimAC
  BY <1>1, <1>2, DesiredKept DEF PublishConfig, ClaimAC
<1>3. CASE Fault
  <2>1. UNCHANGED <<turl, notifOn, acSpec, nturl>>
    BY <1>1, <1>3, NumServicesAssumption DEF Fault, Services
  <2> QED
    BY <1>1, <2>1 DEF Desired
<1>4. CASE Owners \/ Deletion
  BY <1>4 DEF Owners, PublishTransport, PublishNotifications, EditSpec, DeleteManila,
     DependencyLost, DependencyReady, Deletion, ReconcileDelete, DeleteFault, ManilaGone
<1>5. CASE ManilaInit \/ RequestTransport \/ RequestNotifications \/ WaitForDependency
           \/ FinishReconcile \/ DeployService
  BY <1>5 DEF ManilaInit, RequestTransport, RequestNotifications, WaitForDependency,
     FinishReconcile, DeployService
<1>6. CASE Downstream \/ UNCHANGED vars
  BY <1>6, DownstreamFrame DEF vars
<1> QED
  BY <1>2, <1>3, <1>4, <1>5, <1>6, StepKinds DEF Upstream

(* Every action keeps the notification secrets handed down.                *)
LEMMA HandedStep ==
  ASSUME Patient, IInv, Rest, MidReconcile, NoBusYet, HandedDown(Desired.notif),
         life = "live", life' = "live", [Next]_vars, ~Collect
  PROVE  HandedDown(Desired.notif)'
<1>0. TypeOK /\ SnapIsConfig
  BY DEF IInv, Order
<1>1. CASE Desired'.notif = Desired.notif
  <2>1. config'.notif = config.notif \/ config'.notif = Desired.notif
    BY RenderedIsDesired DEF Rendered
  <2>2. \A n : n = Desired.notif => HandedDown(n)'
    BY <1>0, <2>1, HandDown
  <2> QED
    BY <1>1, <2>2 DEF HandedDown
<1>2. ASSUME NEW v, Uniform(v), UNCHANGED config
      PROVE  HandedDown(Desired.notif)'
  <2>1. Uniform(v)'
    BY <1>0, <1>2, StayUniform
  <2> QED
    BY <2>1 DEF Uniform, HandedDown
<1> QED
  BY <1>0, <1>1, <1>2, NotifWanted, SettledCopies DEF NoBusYet

(* Every action keeps a notifications bus without a secret out of use.     *)
LEMMA NoBusStep ==
  ASSUME Patient, IInv, Rest, MidReconcile, NoBusYet, HandedDown(Desired.notif),
         life = "live", life' = "live", [Next]_vars, ~Collect
  PROVE  NoBusYet'
<1> SUFFICES ASSUME notifOn', nturl' \in {Nil, 0} PROVE Uniform(0)'
  BY DEF NoBusYet
<1>0. TypeOK /\ SnapIsConfig
  BY DEF IInv, Order
<1>1. CASE notifOn /\ nturl \in {Nil, 0}
  <2>1. ~NamesKnown
    BY <1>1 DEF NamesKnown, Nil
  <2> QED
    BY <1>0, <1>1, <2>1, RenderedIsDesired, StayUniform DEF NoBusYet
<1>2. CASE ~notifOn
  <2>1. EditSpec
    <3>1. notifOn' # notifOn
      BY <1>2
    <3> QED
      BY <3>1, StepKinds, DownstreamKeepsSpec DEF Upstream, Owners, PublishTransport,
         PublishNotifications, DeleteManila, DependencyLost, DependencyReady, Deletion,
         ReconcileDelete, DeleteFault, ManilaGone, ManilaInit, RequestTransport,
         RequestNotifications, WaitForDependency, PublishConfig, ClaimAC, FinishReconcile, Fault,
         DeployService, specVars, vars
  <2>2. Settled /\ UNCHANGED config
    BY <2>1 DEF EditSpec, MayChange
  <2>3. Uniform(0)
    BY <1>2, <2>2, SettledCopies DEF Desired
  <2> QED
    BY <1>0, <2>2, <2>3, StayUniform
<1>3. CASE notifOn /\ nturl > 0
  <2>1. Desired.notif = nturl /\ Desired'.notif = nturl'
    BY <1>3 DEF Desired
  <2>2. Settled
    <3>1. nturl' # nturl /\ nturl \notin {Nil, 0}
      BY <1>3 DEF Nil
    <3> QED
      BY <1>0, <2>1, <3>1, NotifWanted
  <2>3. ~PublishNotifications /\ ~EditSpec
    <3>1. nturl \in Nat /\ ~(nturl' > nturl)
      BY <1>0, <1>3 DEF TypeOK, Nil
    <3>2. PublishNotifications => nturl' > nturl
      BY <3>1, BoundsType DEF PublishNotifications
    <3>3. EditSpec => nturl' = nturl
      BY DEF EditSpec
    <3> QED
      BY <1>3, <3>1, <3>2, <3>3 DEF Nil
  <2>4. cursor = 0
    BY <2>2 DEF Settled
  <2>5. nturl' = nturl
    BY <1>3, <2>3, <2>4, StepKinds, DownstreamKeepsSpec, NumServicesAssumption DEF Upstream, Owners,
       PublishTransport, DeleteManila, DependencyLost, DependencyReady, Deletion,
       ReconcileDelete, DeleteFault, ManilaGone, ManilaInit, RequestTransport,
       RequestNotifications, WaitForDependency, PublishConfig, ClaimAC, FinishReconcile, Fault,
       DeployService, specVars, vars, Nil, Services
  <2> QED
    BY <1>3, <2>5 DEF Nil
<1> QED
  BY <1>0, <1>1, <1>2, <1>3 DEF TypeOK, Nil

(* Every action keeps what a service that counted as ready stands for.     *)
LEMMA ReadyNotifStep ==
  ASSUME IInv, MidReconcile, HandedDown(Desired.notif), ReadyHasNotif, [Next]_vars, ~Collect
  PROVE  ReadyHasNotif'
<1> SUFFICES ASSUME cursor' # 0, allReady', NEW s \in Services, s < cursor'
             PROVE  /\ svcConfig'[s].notif = snap'.notif
                    /\ \A p \in pods'[s] : p.config.notif = snap'.notif
  BY DEF ReadyHasNotif
<1>0. TypeOK /\ SnapIsConfig
  BY DEF IInv, Order
<1>1. CASE DeployService
  <2>1. /\ cursor \in Services /\ cursor' = cursor + 1 /\ cursor # 0
        /\ UNCHANGED <<snap, svcConfig, pods>>
    BY <1>1 DEF DeployService, Services
  <2>2. allReady /\ cr[cursor].appliedN = snap.notif
    <3>1. cr[cursor] \in SubCR
      BY <1>0, <2>1 DEF TypeOK
    <3> QED
      BY <1>1, <3>1 DEF DeployService, Observed, SubCR
  <2>3. snap.notif = Desired.notif
    BY <2>1 DEF MidReconcile
  <2>4. /\ svcConfig[cursor].notif = snap.notif
        /\ \A p \in pods[cursor] : p.config.notif = snap.notif
    BY <2>1, <2>2, <2>3 DEF HandedDown
  <2>5. s < cursor \/ s = cursor
    BY <2>1 DEF Services
  <2> QED
    BY <2>1, <2>2, <2>4, <2>5 DEF ReadyHasNotif
<1>2. CASE Downstream
  <2>1. UNCHANGED <<config, cursor, snap, allReady>>
    BY <1>2, DownstreamFrame
  <2>2. /\ snap.notif = config.notif
        /\ svcConfig[s].notif = snap.notif
        /\ \A p \in pods[s] : p.config.notif = snap.notif
    BY <1>0, <2>1 DEF SnapIsConfig, ReadyHasNotif
  <2> QED
    BY <1>0, <2>1, <2>2, NotifFlow
<1>3. CASE Upstream
  <2>1. UNCHANGED <<svcConfig, pods>>
    BY <1>3, UpstreamFrame DEF svcVars
  <2>2. ~ClaimAC
    BY DEF ClaimAC, Services
  <2>3. UNCHANGED <<cursor, snap, allReady>>
    BY <1>3, <2>2 DEF Upstream, Deletion, ReconcileDelete, DeleteFault, ManilaGone,
       Owners, PublishTransport, PublishNotifications, EditSpec, DeleteManila,
       DependencyLost, DependencyReady, ManilaInit, RequestTransport, RequestNotifications,
       WaitForDependency, PublishConfig, FinishReconcile, Fault, Interrupted, Return, localVars, vars
  <2> QED
    BY <2>1, <2>3 DEF ReadyHasNotif
<1> QED
  BY <1>1, <1>2, <1>3, StepKinds

(* When every service counted as ready, every copy names what this         *)
(* Reconcile wants.                                                        *)
LEMMA ReadyCopies ==
  ASSUME IInv, MidReconcile, ReadyHasNotif, cursor = NumServices + 1, allReady,
         NEW c \in ConfigsInUse
  PROVE  c.transport = Desired.transport /\ c.notif = Desired.notif
<1>1. /\ TypeOK /\ Order /\ cursor # 0 /\ snap = Desired
      /\ \A s \in Services : s < cursor
  BY NumServicesAssumption DEF IInv, MidReconcile, Services
<1>2. config.transport = snap.transport /\ config.notif = snap.notif
  BY <1>1 DEF Order, SnapIsConfig
<1>3. ASSUME NEW s \in Services
      PROVE  /\ svcConfig[s].transport = snap.transport
             /\ \A p \in pods[s] : p.config.transport = snap.transport
  <2>1. /\ snap.transport <= svcConfig[s].transport
        /\ svcConfig[s].transport <= snap.transport
        /\ \A p \in pods[s] : /\ snap.transport <= p.config.transport
                              /\ p.config.transport <= svcConfig[s].transport
    BY <1>1, <1>2 DEF IInv, Order, ReadyIsCurrent, CopiedDown
  <2> QED
    BY <1>1, <2>1, Numbers
<1>4. \A s \in Services : /\ svcConfig[s].notif = snap.notif
                          /\ \A p \in pods[s] : p.config.notif = snap.notif
  BY <1>1 DEF ReadyHasNotif
<1> QED
  BY <1>1, <1>2, <1>3, <1>4 DEF ConfigsInUse

(* The status that a Reconcile starts from tracks what was tracked.        *)
LEMMA EarlyTracks ==
  ASSUME TypeOK
  PROVE  /\ EarlyStatus.transport = status.transport \/ status.transport = 0
         /\ EarlyStatus.notif = status.notif \/ status.notif = Nil
         /\ [EarlyStatus EXCEPT !.hash = Desired].transport = EarlyStatus.transport
         /\ [EarlyStatus EXCEPT !.hash = Desired].notif = EarlyStatus.notif
         /\ LET reached == [status EXCEPT !.transport = EarlyStatus.transport]
            IN  reached.transport = EarlyStatus.transport /\ reached.notif = status.notif
         /\ [status EXCEPT !.known = TRUE].transport = status.transport
         /\ [status EXCEPT !.known = TRUE].notif = status.notif
<1>1. status \in ManilaStatus
  BY DEF TypeOK
<1> QED
  BY <1>1 DEF ManilaStatus, EarlyStatus

(* What the finalizations track.                                           *)
LEMMA StatusAfterTracks ==
  ASSUME TypeOK, NEW n \in Nat
  PROVE  /\ StatusAfter(n).transport \in {mem.transport, Tracked(mem.transport, snap.transport)}
         /\ StatusAfter(n).notif \in {mem.notif, TrackedNotif}
         /\ StatusAfter(4).transport = Tracked(mem.transport, snap.transport)
         /\ StatusAfter(4).notif = TrackedNotif
<1>1. mem \in ManilaStatus
  BY DEF TypeOK
<1> QED
  BY <1>1 DEF ManilaStatus, StatusAfter, NotifDone

(* Until every service is ready, a secret that is tracked stays tracked.   *)
LEMMA NotReadyTracks ==
  ASSUME ~allReady
  PROVE  /\ mem.transport # 0 => Tracked(mem.transport, snap.transport) = mem.transport
         /\ mem.notif # 0 => TrackedNotif = mem.notif
  BY DEF Tracked, TrackedNotif, TearDown

(* The status moves on from a secret only when every service has.          *)
LEMMA StatusMovesOn ==
  ASSUME TypeOK, MidReconcile, life = "live", [Next]_vars, ~Collect
  PROVE  \/ cursor = NumServices + 1 /\ allReady
         \/ /\ status'.transport = status.transport \/ status.transport = 0
            /\ status'.notif = status.notif \/ status.notif \in {0, Nil}
<1> DEFINE Stays == /\ status'.transport = status.transport \/ status.transport = 0
                    /\ status'.notif = status.notif \/ status.notif \in {0, Nil}
<1>1. CASE \/ status' = status \/ status' = EarlyStatus
           \/ status' = [EarlyStatus EXCEPT !.hash = Desired]
           \/ status' = [status EXCEPT !.transport = EarlyStatus.transport]
           \/ status' = [status EXCEPT !.known = TRUE]
           \/ cursor # 0 /\ status' = mem
  BY <1>1, EarlyTracks DEF MidReconcile
<1>2. ASSUME NEW n \in 0..6, cursor # 0, ~allReady, status' = StatusAfter(n)
      PROVE  Stays
  <2>1. mem = EarlyStatus
    BY <1>2 DEF MidReconcile
  <2>2. /\ status.transport # 0 => mem.transport = status.transport
        /\ status.notif \notin {0, Nil} => mem.notif = status.notif
    BY <2>1, EarlyTracks
  <2> QED
    BY <1>2, <2>2, StatusAfterTracks, NotReadyTracks
<1>3. CASE Owners \/ Deletion \/ ManilaInit \/ RequestTransport
  BY <1>1, <1>3 DEF Owners, PublishTransport, PublishNotifications, EditSpec, DeleteManila,
     DependencyLost, DependencyReady, Deletion, ReconcileDelete, DeleteFault, ManilaGone,
     ManilaInit, RequestTransport, Return
<1>4. CASE RequestNotifications \/ WaitForDependency \/ PublishConfig \/ ClaimAC
  BY <1>1, <1>4 DEF RequestNotifications, WaitForDependency, PublishConfig, ClaimAC, Return
<1>5. CASE FinishReconcile
  BY <1>2, <1>5, NumServicesAssumption DEF FinishReconcile, Return
<1>6. CASE Fault
  <2>1. CASE cursor = NumServices + 1 /\ \E n \in 0..5 : Interrupted(StatusAfter(n))
    <3>1. PICK n \in 0..5 : Interrupted(StatusAfter(n))
      BY <2>1
    <3> QED
      BY <1>1, <1>2, <2>1, <3>1, NumServicesAssumption DEF Interrupted, Return
  <2>2. CASE \/ Interrupted(EarlyStatus)
             \/ Interrupted([status EXCEPT !.transport = EarlyStatus.transport])
             \/ cursor \in Services /\ Interrupted(mem)
    BY <1>1, <2>2 DEF Interrupted, Return, Services
  <2> QED
    BY <1>6, <2>1, <2>2 DEF Fault
<1>7. CASE DeployService \/ Downstream \/ UNCHANGED vars
  BY <1>1, <1>7, DownstreamFrame DEF DeployService, vars
<1> QED
  BY <1>3, <1>4, <1>5, <1>6, <1>7, StepKinds DEF Upstream

(* Every action leaves at most two credentials of a kind in use.           *)
LEMMA TwoStep ==
  ASSUME Patient, IInv, IInv', Rest, OneChange,
         life = "live", life' = "live", [Next]_vars, ~Collect
  PROVE  TwoCredentials'
<1> SUFFICES ASSUME NEW c \in ConfigsInUse'
             PROVE  /\ c.transport \in {0, status'.transport, Desired'.transport}
                    /\ c.notif \in {0, status'.notif, Desired'.notif}
  BY DEF TwoCredentials
<1>0. TypeOK
  BY DEF IInv
<1>1. CASE c = config' /\ config' # config
  BY <1>1, RenderedIsDesired DEF OneChange, Rendered
<1>2. CASE c \in ConfigsInUse
  <2>1. /\ c.transport \in {0, status.transport, Desired.transport}
        /\ c.notif \in {0, status.notif, Desired.notif}
    BY <1>2 DEF OneChange, TwoCredentials
  <2>2. c.notif # Nil
    <3>1. \A d \in ConfigsInUse : d \in Inputs
      BY <1>0 DEF TypeOK, ConfigsInUse, Pod
    <3> QED
      BY <1>2, <3>1 DEF Inputs, Nil
  <2>3. \/ c.transport = Desired.transport /\ c.notif = Desired.notif
        \/ /\ c.transport \in {0, status'.transport, Desired.transport}
           /\ c.notif \in {0, status'.notif, Desired.notif}
    BY <1>0, <1>2, <2>1, <2>2, StatusMovesOn, ReadyCopies DEF OneChange
  <2>4. c.transport \in {0, status'.transport, Desired'.transport}
    <3>1. CASE Desired'.transport = Desired.transport
      BY <2>3, <3>1
    <3>2. CASE UNCHANGED status /\ Settled
      BY <1>2, <3>2, SettledCopies DEF OneChange
    <3>3. CASE turl \in {Nil, 0}
      BY <1>2, <3>3, NoTransportYet
    <3> QED
      BY <1>0, <3>1, <3>2, <3>3, TransportWanted
  <2>5. c.notif \in {0, status'.notif, Desired'.notif}
    <3>1. CASE Desired'.notif = Desired.notif
      BY <2>3, <3>1
    <3>2. CASE UNCHANGED status /\ Settled
      BY <1>2, <3>2, SettledCopies DEF OneChange
    <3>3. CASE notifOn /\ nturl \in {Nil, 0}
      BY <1>2, <3>3 DEF OneChange, NoBusYet, Uniform, ConfigsInUse
    <3> QED
      BY <1>0, <3>1, <3>2, <3>3, NotifWanted DEF OneChange
  <2> QED
    BY <2>4, <2>5
<1>3. config \in ConfigsInUse
  BY DEF ConfigsInUse
<1> QED
  BY <1>0, <1>1, <1>2, <1>3, ConfigsStep

-----------------------------------------------------------------------------
(***************************************************************************)
(* No secret in use loses its finalizer.                                   *)
(***************************************************************************)

(* While the Manila CR lives, only the end of a Reconcile takes a finalizer*)
(* off a notification secret (WhoReleases, of the other kind).             *)
LEMMA WhoReleasesNotif ==
  ASSUME [Next]_vars, life = "live", NEW m \in nfin \ nfin'
  PROVE  /\ cursor = NumServices + 1 /\ UNCHANGED <<config, svcVars, pods>>
         /\ \E n \in 0..6 : Finalize(n)
<1>1. CASE Owners \/ ManilaInit \/ RequestTransport
  BY <1>1 DEF Owners, PublishTransport, PublishNotifications, EditSpec, DeleteManila, DependencyLost,
     DependencyReady, ManilaInit, RequestTransport, finVars
<1>2. CASE RequestNotifications \/ WaitForDependency \/ PublishConfig \/ ClaimAC
  BY <1>2 DEF RequestNotifications, WaitForDependency, PublishConfig, ClaimAC, ClaimTransport
<1>3. CASE FinishReconcile
  BY <1>3 DEF FinishReconcile
<1>4. CASE Fault
  <2>1. UNCHANGED <<svcVars, pods>>
    BY <1>4 DEF Fault
  <2>2. CASE \E n \in 0..5 : cursor = NumServices + 1 /\ Finalize(n) /\ UNCHANGED config
    BY <2>1, <2>2
  <2>3. CASE nfin \subseteq nfin'
    BY <2>3
  <2> QED
    BY <1>4, <2>2, <2>3 DEF Fault, ClaimTransport, finVars
<1>5. CASE DeployService \/ Downstream
  BY <1>5, DownstreamFrame DEF DeployService, finVars
<1>6. CASE UNCHANGED vars
  BY <1>6 DEF vars, finVars
<1>7. CASE Deletion \/ Collect
  BY <1>7 DEF Deletion, ReconcileDelete, DeleteFault, ManilaGone, Collect, finVars
<1> QED
  BY <1>1, <1>2, <1>3, <1>4, <1>5, <1>6, <1>7, StepKinds DEF Upstream

(* The end of a Reconcile takes no finalizer off a messaging secret in use.*)
LEMMA FinalizeKeepsTransport ==
  ASSUME IInv, OneChange, life = "live", cursor = NumServices + 1,
         NEW n \in 0..6, Finalize(n), NEW c \in ConfigsInUse, c.transport # 0
  PROVE  c.transport \in tfin'
<1>1. /\ TypeOK /\ cursor # 0 /\ snap = Desired /\ mem = EarlyStatus
      /\ c.transport \in tfin
      /\ c.transport \in {status.transport, Desired.transport}
  BY NumServicesAssumption DEF IInv, OneChange, MidReconcile, Leased, TwoCredentials
<1>2. CASE c.transport = snap.transport
  BY <1>1, <1>2 DEF Finalize, Pruned, When, Released
<1>3. CASE c.transport # snap.transport
  <2>1. ~allReady
    BY <1>1, <1>3, ReadyCopies DEF OneChange
  <2>2. mem.transport = c.transport
    BY <1>1, <1>3, EarlyTracks
  <2>3. StatusAfter(4).transport = c.transport
    BY <1>1, <2>1, <2>2, StatusAfterTracks, NotReadyTracks
  <2> QED
    BY <1>1, <2>1, <2>3 DEF Finalize, Pruned, When, Released
<1> QED
  BY <1>2, <1>3

(* The same of a notification secret in use.                               *)
LEMMA FinalizeKeepsNotif ==
  ASSUME IInv, OneChange, life = "live", cursor = NumServices + 1,
         NEW n \in 0..6, Finalize(n), NEW c \in ConfigsInUse, c.notif # 0
  PROVE  c.notif \in nfin'
<1>1. /\ TypeOK /\ cursor # 0 /\ snap = Desired /\ mem = EarlyStatus
      /\ c.notif \in nfin
      /\ c.notif \in {status.notif, Desired.notif}
  BY NumServicesAssumption DEF IInv, OneChange, MidReconcile, Leased, TwoCredentials
<1>2. CASE c.notif = snap.notif
  BY <1>1, <1>2 DEF Finalize, Pruned, When, ReleasedNotif, Released
<1>3. CASE c.notif # snap.notif
  <2>1. ~allReady
    BY <1>1, <1>3, ReadyCopies DEF OneChange
  <2>2. mem.notif = c.notif
    <3>1. c.notif # Nil
      BY <1>1 DEF TypeOK, Nil
    <3> QED
      BY <1>1, <1>3, <3>1, EarlyTracks
  <2>3. StatusAfter(4).notif = c.notif
    BY <1>1, <2>1, <2>2, StatusAfterTracks, NotReadyTracks
  <2> QED
    BY <1>1, <2>1, <2>3 DEF Finalize, Pruned, When, ReleasedNotif, Released, TearDown
<1> QED
  BY <1>2, <1>3

(* Every action leaves the finalizers on the secrets in use.               *)
LEMMA LeasedStep ==
  ASSUME IInv, IInv', OneChange, life = "live", life' = "live", [Next]_vars, ~Collect
  PROVE  Leased'
<1>1. PublishedClaimed'
  BY DEF IInv
<1> SUFFICES ASSUME NEW c \in ConfigsInUse'
             PROVE  /\ c.transport # 0 => c.transport \in tfin'
                    /\ c.notif # 0 => c.notif \in nfin'
  BY DEF Leased
<1>2. CASE c = config'
  BY <1>1, <1>2 DEF PublishedClaimed
<1>3. CASE c \in ConfigsInUse
  <2>1. /\ c.transport # 0 => c.transport \in tfin
        /\ c.notif # 0 => c.notif \in nfin
    BY <1>3 DEF OneChange, Leased
  <2>2. ASSUME c.transport # 0 PROVE c.transport \in tfin'
    BY <1>3, <2>1, <2>2, WhoReleases, FinalizeKeepsTransport
  <2>3. ASSUME c.notif # 0 PROVE c.notif \in nfin'
    BY <1>3, <2>1, <2>3, WhoReleasesNotif, FinalizeKeepsNotif
  <2> QED
    BY <2>2, <2>3
<1>4. TypeOK
  BY DEF IInv
<1> QED
  BY <1>2, <1>3, <1>4, ConfigsStep

(* One change at a time, until the Manila CR is deleted.                   *)
OneByOne == life = "live" => OneChange

(* A new Manila CR has no credential in use.                               *)
LEMMA InitOneByOne == Init => OneByOne
<1> SUFFICES ASSUME Init PROVE OneChange
  BY DEF OneByOne
<1>1. /\ cursor = 0 /\ config = NoInputs
      /\ \A s \in Services : /\ cr[s] = NoSubCR /\ svcConfig[s] = NoInputs
                            /\ template[s] = NoHash /\ pods[s] = {}
  BY DEF Init
<1>2. Uniform(0)
  BY <1>1 DEF Uniform, NoInputs, NoSubCR, NoHash
<1>3. HandedDown(Desired.notif)
  BY <1>2, UniformIsHandedDown
<1>4. \A c \in ConfigsInUse : c = NoInputs
  BY <1>1 DEF ConfigsInUse
<1>5. TwoCredentials /\ Leased
  BY <1>4 DEF TwoCredentials, Leased, NoInputs
<1> QED
  BY <1>1, <1>2, <1>3, <1>5 DEF OneChange, MidReconcile, NoBusYet, ReadyHasNotif

(* Every action keeps the changes apart.                                   *)
LEMMA NextOneByOne ==
  ASSUME Patient
  PROVE  IInv /\ Rest /\ OneByOne /\ [Next]_vars => OneByOne'
<1> SUFFICES ASSUME IInv, Rest, OneByOne, [Next]_vars, life' = "live" PROVE OneChange'
  BY DEF OneByOne
<1>1. life = "live" /\ OneChange
  BY Alive DEF OneByOne
<1>2. IInv' /\ TypeOK /\ ~Collect
  BY <1>1, NextInv DEF IInv, Collect
<1>3. /\ MidReconcile /\ NoBusYet /\ HandedDown(Desired.notif) /\ ReadyHasNotif
  BY <1>1 DEF OneChange
<1>4. MidReconcile'
  BY <1>1, <1>2, <1>3, MidStep
<1>5. NoBusYet' /\ HandedDown(Desired.notif)'
  BY <1>1, <1>2, <1>3, NoBusStep, HandedStep
<1>6. ReadyHasNotif'
  BY <1>2, <1>3, ReadyNotifStep
<1>7. TwoCredentials' /\ Leased'
  BY <1>1, <1>2, TwoStep, LeasedStep
<1> QED
  BY <1>4, <1>5, <1>6, <1>7 DEF OneChange

(* When changes come one at a time, a Reconcile never has more than two    *)
(* generations of a credential to deal with, and every secret in use, of   *)
(* either, carries the consumer finalizer.                                 *)
THEOREM OneChangeAtATime ==
  ASSUME Patient
  PROVE  Spec => []OneByOne
<1>1. IInv /\ Rest /\ OneByOne /\ [Next]_vars => OneByOne'
  BY NextOneByOne
<1> QED
  BY <1>1, Invariance, QueuesTellAll, InitOneByOne, PTL DEF Spec

(* ... so that its owner revokes no secret that a service runs on.         *)
THEOREM NothingRevokedInUse ==
  ASSUME Patient
  PROVE  Spec => []InUseClaimed
<1>1. OneByOne => InUseClaimed
  <2> SUFFICES ASSUME Leased, NEW s \in Services
               PROVE  /\ UsedTransport(s) \ {0} \subseteq tfin
                      /\ UsedNotif(s) \ {0} \subseteq nfin
    BY DEF OneByOne, OneChange, InUseClaimed
  <2>1. svcConfig[s] \in ConfigsInUse /\ \A p \in pods[s] : p.config \in ConfigsInUse
    BY DEF ConfigsInUse
  <2> QED
    BY <2>1 DEF Leased, UsedTransport, UsedNotif
<1> QED
  BY <1>1, OneChangeAtATime, PTL

(* What NotificationsSettle promises of the services: at rest they all run *)
(* with the notification secret that is wanted, or without one, and no     *)
(* other is claimed.                                                       *)
BusSettled ==
  Settled /\ life = "live" =>
    /\ nfin = {Desired.notif} \ {0}
    /\ \A s \in Services : UsedNotif(s) = {Desired.notif}

(* When changes come one at a time, switching the notifications bus on,    *)
(* off or to another secret comes to rest with every service switched.     *)
THEOREM BusComesToRest ==
  ASSUME Patient
  PROVE  Spec => []BusSettled
<1>1. ASSUME IInv, Rest, OneByOne, Settled, life = "live"
      PROVE  /\ nfin = {Desired.notif} \ {0}
             /\ \A s \in Services : UsedNotif(s) = {Desired.notif}
  <2>1. TypeOK /\ PublishedClaimed
    BY <1>1 DEF IInv
  <2>2. Uniform(Desired.notif)
    BY <1>1, SettledCopies DEF OneByOne, OneChange
  <2>3. \A s \in Services : UsedNotif(s) = {Desired.notif}
    BY <1>1, <2>2 DEF Uniform, UsedNotif
  <2>4. config = Desired /\ TracksDesired
    BY <1>1, <2>1, SettledState
  <2>5. 0 \notin nfin /\ Nil \notin nfin
    BY <2>1 DEF TypeOK, Nil
  <2>6. nfin = {Desired.notif} \ {0}
    BY <1>1, <2>1, <2>4, <2>5, SettledClaims DEF PublishedClaimed, TracksDesired
  <2> QED
    BY <2>3, <2>6
<1>2. IInv /\ Rest /\ OneByOne => BusSettled
  BY <1>1 DEF BusSettled
<1> QED
  BY <1>2, Invariance, QueuesTellAll, OneChangeAtATime, PTL

(* A secret whose finalizer is taken off is in no config-data in use.      *)
LEMMA ReleasedNotInUse ==
  ASSUME IInv, OneByOne, life = "live", [Next]_vars, NEW c \in ConfigsInUse
  PROVE  c.transport \notin tfin \ tfin' /\ c.notif \notin nfin \ nfin'
<1>1. 0 \notin tfin /\ 0 \notin nfin /\ OneChange
  BY DEF IInv, TypeOK, OneByOne
<1>2. c.transport \notin tfin \ tfin'
  BY <1>1, WhoReleases, FinalizeKeepsTransport
<1>3. c.notif \notin nfin \ nfin'
  BY <1>1, WhoReleasesNotif, FinalizeKeepsNotif
<1> QED
  BY <1>2, <1>3

(* The notification secret that the services run on loses its finalizer    *)
(* only after the rollout of its successor, or of none, has reached every  *)
(* pod, also when the bus is switched off and on again.                    *)
THEOREM NotifReleaseIsSafe ==
  ASSUME Patient
  PROVE  Spec => NotifReleaseAfterRollout
<1>1. IInv /\ OneByOne /\ [Next]_vars =>
        [\A n \in nfin \ nfin' :
           life = "live" /\ n = status.notif =>
             /\ n # config.notif
             /\ \A s \in Services : n \notin UsedNotif(s)]_vars
  BY ReleasedNotInUse DEF ConfigsInUse, UsedNotif
<1> QED
  BY <1>1, Invariance, OneChangeAtATime, PTL DEF Spec, NotifReleaseAfterRollout

-----------------------------------------------------------------------------
(***************************************************************************)
(* The refinement of CredentialLease, for both kinds of secrets at once:   *)
(* the configs in use say which of them are used.                          *)
(***************************************************************************)

(* The secrets of a kind that some config in use names, as the leases      *)
(* have them.                                                              *)
TransportsUsed == ({config.transport} \cup UNION {UsedTransport(s) : s \in Services}) \ {0}
NotifsUsed     == ({config.notif} \cup UNION {UsedNotif(s) : s \in Services}) \ {0}

NamedInConfigs ==
  /\ TransportsUsed = {c.transport : c \in ConfigsInUse} \ {0}
  /\ NotifsUsed = {c.notif : c \in ConfigsInUse} \ {0}

(* A secret is used when a config in use names it.                         *)
LEMMA UsedByConfigs == NamedInConfigs
<1>1. ASSUME NEW c \in ConfigsInUse
      PROVE  /\ c.transport \in {config.transport} \cup UNION {UsedTransport(s) : s \in Services}
             /\ c.notif \in {config.notif} \cup UNION {UsedNotif(s) : s \in Services}
  BY DEF ConfigsInUse, UsedTransport, UsedNotif
<1>2. config \in ConfigsInUse
  BY DEF ConfigsInUse
<1>3. ASSUME NEW s \in Services
      PROVE  /\ UsedTransport(s) \subseteq {c.transport : c \in ConfigsInUse}
             /\ UsedNotif(s) \subseteq {c.notif : c \in ConfigsInUse}
  BY DEF ConfigsInUse, UsedTransport, UsedNotif
<1> QED
  BY <1>1, <1>2, <1>3 DEF NamedInConfigs, TransportsUsed, NotifsUsed

(* Only a config-data that the Manila controller renders brings a secret   *)
(* into use, and it does so while the Manila CR lives.                     *)
LEMMA UseStep ==
  ASSUME TypeOK, [Next]_vars
  PROVE  /\ TransportsUsed' \subseteq TransportsUsed \cup ({config'.transport} \ {0})
         /\ NotifsUsed' \subseteq NotifsUsed \cup ({config'.notif} \ {0})
         /\ life # "live" => /\ TransportsUsed' \subseteq TransportsUsed
                             /\ NotifsUsed' \subseteq NotifsUsed
<1>0. NamedInConfigs /\ NamedInConfigs'
  BY UsedByConfigs, PTL
<1>1. CASE Collect
  <2>1. \A c \in ConfigsInUse' : c = NoInputs
    BY <1>1 DEF Collect, ConfigsInUse
  <2>2. TransportsUsed' = {} /\ NotifsUsed' = {}
    BY <1>0, <2>1 DEF NamedInConfigs, NoInputs
  <2> QED
    BY <2>2
<1>2. CASE ~Collect
  <2>1. ConfigsInUse' \subseteq ConfigsInUse \cup {config'}
    BY <1>2, ConfigsStep
  <2>2. life # "live" => config' \in ConfigsInUse
    BY <1>2, ConfigStep DEF ConfigsInUse
  <2> QED
    BY <1>0, <2>1, <2>2 DEF NamedInConfigs
<1> QED
  BY <1>1, <1>2

(* Nothing is claimed for a Manila CR that is being deleted.               *)
LEMMA NoClaimAfterDelete ==
  ASSUME [Next]_vars, life # "live"
  PROVE  tfin' \subseteq tfin /\ nfin' \subseteq nfin
<1>1. CASE Owners \/ ManilaInit \/ RequestTransport
  BY <1>1 DEF Owners, PublishTransport, PublishNotifications, EditSpec, DeleteManila, DependencyLost,
     DependencyReady, ManilaInit, RequestTransport, finVars
<1>2. CASE RequestNotifications \/ WaitForDependency \/ PublishConfig \/ ClaimAC
  BY <1>2 DEF RequestNotifications, WaitForDependency, PublishConfig, ClaimAC, ClaimTransport,
     Starts
<1>3. ASSUME NEW n \in 0..6, Finalize(n)
      PROVE  tfin' \subseteq tfin /\ nfin' \subseteq nfin
  BY <1>3 DEF Finalize, Pruned
<1>4. CASE FinishReconcile
  BY <1>3, <1>4 DEF FinishReconcile
<1>5. CASE Fault
  <2>1. CASE \E n \in 0..5 : Finalize(n)
    BY <1>3, <2>1
  <2>2. CASE UNCHANGED finVars
    BY <2>2 DEF finVars
  <2> QED
    BY <1>5, <2>1, <2>2 DEF Fault, ClaimTransport, Starts
<1>6. CASE DeployService \/ Downstream
  BY <1>6, DownstreamFrame DEF DeployService, finVars
<1>7. CASE Deletion \/ Collect \/ UNCHANGED vars
  BY <1>7 DEF Deletion, ReconcileDelete, DeleteFault, ReleaseForDelete, ManilaGone, Collect,
     When, finVars, vars
<1> QED
  BY <1>1, <1>2, <1>4, <1>5, <1>6, <1>7, StepKinds DEF Upstream

(* The Manila CR is deleted in a step that changes nothing else of note.   *)
LEMMA DeleteStep ==
  ASSUME [Next]_vars, life = "live", life' # "live"
  PROVE  UNCHANGED <<finVars, config, svcVars, pods>>
<1> USE DEF specVars
<1>1. CASE Owners
  BY <1>1 DEF Owners, PublishTransport, PublishNotifications, EditSpec, DeleteManila,
     DependencyLost, DependencyReady
<1>2. CASE ManilaInit \/ RequestTransport \/ RequestNotifications \/ WaitForDependency
           \/ PublishConfig \/ ClaimAC \/ FinishReconcile \/ Fault \/ Deletion
  BY <1>2 DEF ManilaInit, RequestTransport, RequestNotifications, WaitForDependency,
     PublishConfig, ClaimAC, FinishReconcile, Fault, Deletion, ReconcileDelete, DeleteFault,
     ManilaGone
<1>3. CASE DeployService \/ Downstream \/ Collect
  BY <1>3, DownstreamFrame DEF DeployService, Collect
<1>4. CASE UNCHANGED vars
  BY <1>4 DEF vars
<1> QED
  BY <1>1, <1>2, <1>3, <1>4, StepKinds DEF Upstream

(* Initially nothing is claimed and nothing used.                          *)
LEMMA InitLeases == Init => TransportLease!Init /\ NotifLease!Init
<1> SUFFICES ASSUME Init PROVE TransportLease!Init /\ NotifLease!Init
  OBVIOUS
<1>1. \A c \in ConfigsInUse : c = NoInputs
  BY DEF Init, ConfigsInUse
<1>2. TransportsUsed = {} /\ NotifsUsed = {}
  BY <1>1, UsedByConfigs DEF NamedInConfigs, NoInputs
<1>3. life = "live" /\ tfin = {} /\ nfin = {}
  BY DEF Init
<1> QED
  BY <1>2, <1>3 DEF TransportLease!Init, NotifLease!Init, TransportsUsed, NotifsUsed

(* While the Manila CR lives, a step claims or it releases; what it        *)
(* releases nobody uses.                                                   *)
LEMMA LiveLeases ==
  ASSUME Patient, IInv, IInv', OneByOne, [Next]_vars, life = "live", life' = "live"
  PROVE  /\ TransportLease!Claim \/ TransportLease!Release
         /\ NotifLease!Claim \/ NotifLease!Release
<1>1. TypeOK /\ PublishedClaimed'
  BY DEF IInv
<1>2. /\ TransportsUsed' \subseteq TransportsUsed \cup tfin'
      /\ NotifsUsed' \subseteq NotifsUsed \cup nfin'
  BY <1>1, UseStep DEF PublishedClaimed
<1>3. ASSUME NEW n \in 0..6, Finalize(n), UNCHANGED <<config, svcVars, pods>>
      PROVE  /\ tfin' \subseteq tfin /\ nfin' \subseteq nfin
             /\ TransportsUsed' = TransportsUsed /\ NotifsUsed' = NotifsUsed
  BY <1>3 DEF Finalize, Pruned, TransportsUsed, NotifsUsed, UsedTransport, UsedNotif, svcVars
<1>4. /\ (tfin \ tfin') \cap TransportsUsed = {}
      /\ (nfin \ nfin') \cap NotifsUsed = {}
  BY UsedByConfigs, ReleasedNotInUse DEF NamedInConfigs
<1>5. TransportLease!Claim \/ TransportLease!Release
  <2>1. CASE tfin \subseteq tfin'
    BY <1>2, <2>1 DEF TransportLease!Claim, TransportsUsed
  <2>2. ASSUME NEW t \in tfin \ tfin' PROVE TransportLease!Release
    <3>1. tfin' \subseteq tfin /\ TransportsUsed' = TransportsUsed
      BY <1>3, <2>2, WhoReleases
    <3> QED
      BY <1>4, <3>1 DEF TransportLease!Release, TransportsUsed
  <2> QED
    BY <2>1, <2>2
<1>6. NotifLease!Claim \/ NotifLease!Release
  <2>1. CASE nfin \subseteq nfin'
    BY <1>2, <2>1 DEF NotifLease!Claim, NotifsUsed
  <2>2. ASSUME NEW m \in nfin \ nfin' PROVE NotifLease!Release
    <3>1. nfin' \subseteq nfin /\ NotifsUsed' = NotifsUsed
      BY <1>3, <2>2, WhoReleasesNotif
    <3> QED
      BY <1>4, <3>1 DEF NotifLease!Release, NotifsUsed
  <2> QED
    BY <2>1, <2>2
<1> QED
  BY <1>5, <1>6

(* Every step of the implementation is a step of both leases or of none.   *)
LEMMA NextLeases ==
  ASSUME Patient, IInv, IInv', OneByOne, [Next]_vars
  PROVE  [TransportLease!Next]_(TransportLease!lease) /\ [NotifLease!Next]_(NotifLease!lease)
<1>1. CASE life = "live" /\ life' = "live"
  BY <1>1, LiveLeases DEF TransportLease!Next, NotifLease!Next
<1>2. CASE life = "live" /\ life' # "live"
  <2>1. TransportsUsed' = TransportsUsed /\ NotifsUsed' = NotifsUsed
    BY <1>2, DeleteStep DEF TransportsUsed, NotifsUsed, UsedTransport, UsedNotif, svcVars
  <2>2. TransportLease!Close /\ NotifLease!Close
    BY <1>2, <2>1, DeleteStep DEF TransportLease!Close, NotifLease!Close, TransportsUsed,
       NotifsUsed, finVars
  <2> QED
    BY <2>2 DEF TransportLease!Next, NotifLease!Next
<1>3. CASE life # "live"
  <2>1. life' # "live"
    BY <1>3, Alive
  <2>2. TransportsUsed' \subseteq TransportsUsed /\ NotifsUsed' \subseteq NotifsUsed
    BY <1>3, UseStep DEF IInv
  <2>3. TransportLease!WindUp /\ NotifLease!WindUp
    BY <1>3, <2>1, <2>2, NoClaimAfterDelete DEF TransportLease!WindUp, NotifLease!WindUp,
       TransportsUsed, NotifsUsed
  <2> QED
    BY <2>3 DEF TransportLease!Next, NotifLease!Next
<1> QED
  BY <1>1, <1>2, <1>3

(* When changes come one at a time, the operator implements a lease on the *)
(* messaging secrets and one on the notification secrets, each as          *)
(* CredentialLease promises it to the owner of the credentials: no service *)
(* moves to a credential that is not claimed, no claim is given back on    *)
(* one that a config-data or a pod still refers to, and after the deletion *)
(* of the Manila CR nothing is claimed again.                              *)
THEOREM RotationKeepsLeases ==
  ASSUME Patient
  PROVE  Spec => LeasesKept
<1>1. Init => TransportLease!Init /\ NotifLease!Init
  BY InitLeases
<1>2. IInv /\ IInv' /\ OneByOne /\ [Next]_vars
        => /\ [TransportLease!Next]_(TransportLease!lease)
           /\ [NotifLease!Next]_(NotifLease!lease)
  BY NextLeases
<1> QED
  BY <1>1, <1>2, Invariance, OneChangeAtATime, PTL
     DEF Spec, LeasesKept, TransportLease!Spec, NotifLease!Spec
=============================================================================
