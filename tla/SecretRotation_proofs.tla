------------------------ MODULE SecretRotation_proofs ------------------------
(***************************************************************************)
(* Proofs about SecretRotation, for any number of services, rotations,     *)
(* edits, faults and outages.  The argument rests on three orders: a       *)
(* rotation always issues a new secret (config.transport only grows), a    *)
(* config-data is copied down from the Manila controller to the services   *)
(* and from there to the pods (each copy is at most as new as its source), *)
(* and the hash of a pod's template bounds what the pod has read.          *)
(***************************************************************************)
EXTENDS SecretRotation, TLAPS

(* The config-data names no secret that has not been issued.               *)
ConfigIssued == config.transport = 0 \/ config.transport <= turl

(* While services are being deployed, the stored config-data is the one    *)
(* this Reconcile rendered, and it keeps the secret that is tracked.       *)
SnapIsConfig ==
  cursor # 0 => /\ snap.transport = config.transport /\ snap.notif = config.notif
                /\ status.transport # 0 => mem.transport = status.transport

(* The copies of the config-data: parent, service, pod.                    *)
CopiedDown ==
  \A s \in Services :
    /\ cr[s].transport <= config.transport
    /\ svcConfig[s].transport <= config.transport
    /\ \A p \in pods[s] : p.config.transport <= svcConfig[s].transport

(* A pod started from a template has read what the template was made for.  *)
HashBounds ==
  \A s \in Services :
    /\ template[s].config.transport <= svcConfig[s].transport
    /\ \A p \in pods[s] : p.hash.config.transport <= p.config.transport

(* What a service reports as applied is in its config-data and its pods.   *)
AppliedBounds ==
  \A s \in Services :
    /\ cr[s].appliedT <= svcConfig[s].transport
    /\ \A p \in pods[s] : cr[s].appliedT <= p.config.transport

(* A service that counted as ready has left the older secrets behind.      *)
ReadyIsCurrent ==
  allReady => \A s \in Services : s < cursor =>
    /\ snap.transport <= svcConfig[s].transport
    /\ \A p \in pods[s] : snap.transport <= p.config.transport

Order == ConfigIssued /\ SnapIsConfig /\ CopiedDown /\ HashBounds /\ AppliedBounds

(* A Manila CR is gone for good only between two Reconciles: it got its    *)
(* finalizer before its first one deployed anything.                       *)
Lifecycle ==
  cursor # 0 => life # "gone" /\ status.known /\ mem.known

(* The inductive invariant behind ReleaseAfterRollout.                     *)
IInv == TypeOK /\ Order /\ ReadyIsCurrent /\ PublishedClaimed /\ Lifecycle

-----------------------------------------------------------------------------
(***************************************************************************)
(* Types.                                                                  *)
(***************************************************************************)

(* The bounds are natural numbers.                                         *)
LEMMA BoundsType ==
  /\ MaxTransport \in Nat /\ MaxNotif \in Nat /\ MaxAC \in Nat /\ MaxEdits \in Nat
  /\ MaxFaults \in Nat /\ MaxOutages \in Nat
  BY BoundsAssumption

(* A new Manila CR with nothing deployed is well typed.                    *)
LEMMA InitType == Init => TypeOK
<1> SUFFICES ASSUME Init PROVE TypeOK
  OBVIOUS
<1>1. NoInputs \in Inputs /\ NoHash \in Hash
  BY DEF NoInputs, Inputs, NoHash, Hash
<1>2. status \in ManilaStatus
  BY <1>1 DEF Init, ManilaStatus, Nil
<1>3. cr \in [Services -> SubCR]
  BY <1>1 DEF Init, SubCR, NoSubCR
<1>4. FlagsOK
  BY DEF Init, FlagsOK
<1>5. acSpec \in Nat /\ turl = Nil /\ nturl = Nil /\ edits = 0 /\ faults = 0 /\ outages = 0
  BY BoundsType DEF Init
<1>6. cursor \in 0..(NumServices + 1) /\ queue \subseteq Services \cup {Manila}
  BY NumServicesAssumption DEF Init
<1>7. pods \in [Services -> SUBSET Pod]
  BY DEF Init
<1>8. svcConfig \in [Services -> Inputs] /\ template \in [Services -> Hash]
  BY <1>1 DEF Init
<1>9. /\ tfin = {} /\ nfin = {} /\ afin = {}
      /\ config = NoInputs /\ snap = NoInputs /\ mem = status
  BY DEF Init
<1> QED
  BY <1>1, <1>2, <1>3, <1>4, <1>5, <1>6, <1>7, <1>8, <1>9 DEF TypeOK

(* What a Reconcile works with, once the TransportURLs name secrets.       *)
LEMMA DesiredType ==
  ASSUME TypeOK, turl > 0, notifOn => nturl > 0
  PROVE  Desired \in Inputs
<1>1. turl \in Nat /\ acSpec \in Nat
  BY DEF TypeOK, Nil
<1>2. (IF notifOn THEN nturl ELSE 0) \in Nat
  BY DEF TypeOK, Nil
<1> QED
  BY <1>1, <1>2 DEF Desired, Inputs

(* So is the status a Reconcile starts from.                               *)
LEMMA EarlyStatusType ==
  ASSUME TypeOK, turl > 0
  PROVE  EarlyStatus \in ManilaStatus
<1>1. turl \in Nat /\ status \in ManilaStatus
  BY DEF TypeOK, Nil
<1>2. (IF status.transport = 0 THEN turl ELSE status.transport) \in Nat
  BY <1>1 DEF ManilaStatus
<1>3. (IF notifOn /\ status.notif = Nil THEN 0 ELSE status.notif) \in Nat \cup {Nil}
  BY <1>1 DEF ManilaStatus
<1> QED
  BY <1>1, <1>2, <1>3 DEF EarlyStatus, ManilaStatus

(* Claiming the secrets adds names of secrets only.                        *)
LEMMA ClaimType ==
  ASSUME TypeOK, ClaimTransport
  PROVE  /\ Desired \in Inputs /\ EarlyStatus \in ManilaStatus
         /\ tfin' \subseteq Nat \ {0} /\ nfin' \subseteq Nat \ {0}
<1>1. turl > 0 /\ (notifOn => nturl > 0)
  BY DEF ClaimTransport
<1>2. turl \in Nat \ {0} /\ When(notifOn, {nturl}) \subseteq Nat \ {0}
  BY <1>1 DEF TypeOK, Nil, When
<1>3. tfin' \subseteq Nat \ {0} /\ nfin' \subseteq Nat \ {0}
  BY <1>2 DEF TypeOK, ClaimTransport
<1> QED
  BY <1>1, <1>3, DesiredType, EarlyStatusType

(* The finalizations leave a well typed status, wherever they stop.        *)
LEMMA StatusAfterType ==
  ASSUME TypeOK, NEW n \in 0..6
  PROVE  StatusAfter(n) \in ManilaStatus
  BY DEF TypeOK, StatusAfter, NotifDone, Tracked, TrackedNotif, ManilaStatus, Nil, Inputs

(* A return stores the status it is given and idles the controller.        *)
LEMMA ReturnType ==
  ASSUME NEW st \in ManilaStatus, Return(st)
  PROVE  /\ status' \in ManilaStatus /\ mem' \in ManilaStatus
         /\ cursor' \in 0..(NumServices + 1) /\ snap' \in Inputs
  BY NumServicesAssumption DEF Return, Inputs, NoInputs

(* The finalizations only take finalizers away.                            *)
LEMMA FinalizeType ==
  ASSUME TypeOK, NEW n \in 0..6, Finalize(n)
  PROVE  /\ tfin' \subseteq Nat \ {0} /\ nfin' \subseteq Nat \ {0}
         /\ afin' \subseteq Nat \ {0} /\ nturl' \in Nat \cup {Nil}
  BY DEF TypeOK, Finalize, Pruned

(* What a service controller hashes.                                       *)
LEMMA InputHashType ==
  ASSUME TypeOK, NEW s \in Services
  PROVE  InputHash(s) \in Hash
  BY DEF TypeOK, InputHash, Hash, SubCR

(* The Boolean variables stay Boolean (kept apart from the arithmetic).    *)
LEMMA NextFlags == FlagsOK /\ [Next]_vars => FlagsOK'
<1> SUFFICES ASSUME FlagsOK, [Next]_vars PROVE FlagsOK'
  OBVIOUS
<1> USE DEF FlagsOK, specVars, localVars, counters
<1>1. CASE Environment
  BY <1>1 DEF Environment, PublishTransport, PublishNotifications, EditSpec, DeleteManila,
              DependencyLost, DependencyReady, Collect
<1>9. CASE ReconcileDelete \/ DeleteFault \/ ManilaGone
  BY <1>9 DEF ReconcileDelete, DeleteFault, ManilaGone
<1>2. CASE ManilaInit \/ RequestTransport \/ RequestNotifications \/ WaitForDependency
           \/ PublishConfig \/ FinishReconcile
  BY <1>2 DEF ManilaInit, RequestTransport, RequestNotifications, WaitForDependency,
              PublishConfig, FinishReconcile, Return
<1>3. CASE ClaimAC
  BY <1>3 DEF ClaimAC
<1>4. CASE DeployService
  BY <1>4 DEF DeployService, Observed
<1>5. CASE Fault
  BY <1>5 DEF Fault, Interrupted, Return
<1>6. ASSUME NEW s \in Services, ServiceController(s) \/ ServiceError(s)
      PROVE  FlagsOK'
  BY <1>6 DEF ServiceController, ServiceInit, ServiceRehash, ServiceDeploy, ServiceError
<1>7. ASSUME NEW s \in Services, PodStart(s) \/ PodFinish(s) \/ PodRestart(s)
      PROVE  FlagsOK'
  BY <1>7 DEF PodStart, PodFinish, PodRestart
<1>8. CASE UNCHANGED vars
  BY <1>8 DEF vars
<1> QED
  BY <1>1, <1>2, <1>3, <1>4, <1>5, <1>6, <1>7, <1>8, <1>9 DEF Next, ManilaController

(* Every action keeps the types.                                           *)
LEMMA NextType == TypeOK /\ [Next]_vars => TypeOK'
<1> SUFFICES ASSUME TypeOK, [Next]_vars PROVE TypeOK'
  OBVIOUS
<1> USE NumServicesAssumption, BoundsType
<1> USE DEF When, Existing, specVars, finVars, svcVars, localVars, counters
<1>0. FlagsOK'
  BY NextFlags DEF TypeOK
<1>1. CASE PublishTransport
  BY <1>0, <1>1 DEF TypeOK, PublishTransport
<1>2. CASE PublishNotifications
  BY <1>0, <1>2 DEF TypeOK, PublishNotifications
<1>3. CASE EditSpec
  BY <1>0, <1>3 DEF TypeOK, EditSpec
<1>4. CASE DependencyLost
  BY <1>0, <1>4 DEF TypeOK, DependencyLost
<1>5. CASE DependencyReady
  BY <1>0, <1>5 DEF TypeOK, DependencyReady
<1>20. CASE DeleteManila
  BY <1>0, <1>20 DEF TypeOK, DeleteManila
<1>21. CASE Collect
  <2>1. NoInputs \in Inputs /\ NoHash \in Hash /\ NoSubCR \in SubCR
    BY DEF NoInputs, Inputs, NoHash, Hash, NoSubCR, SubCR
  <2>2. cr' \in [Services -> SubCR] /\ svcConfig' \in [Services -> Inputs]
        /\ template' \in [Services -> Hash] /\ pods' \in [Services -> SUBSET Pod]
    BY <1>21, <2>1 DEF Collect
  <2> QED
    BY <1>0, <1>21, <2>1, <2>2 DEF TypeOK, Collect
<1>22. CASE ReconcileDelete \/ DeleteFault
  <2>1. /\ tfin' \subseteq Nat \ {0} /\ nfin' \subseteq Nat \ {0} /\ afin' \subseteq Nat \ {0}
    BY <1>22 DEF TypeOK, ReconcileDelete, DeleteFault, ReleaseForDelete
  <2>2. /\ UNCHANGED <<turl, nturl, notifOn, acSpec, deps, status, config, svcVars, pods,
                       localVars>>
        /\ queue' \subseteq queue /\ UNCHANGED <<edits, outages>> /\ faults' \in Nat
    BY <1>22 DEF TypeOK, ReconcileDelete, DeleteFault
  <2> QED
    BY <1>0, <2>1, <2>2 DEF TypeOK
<1>23. CASE ManilaGone
  BY <1>0, <1>23 DEF TypeOK, ManilaGone
<1>6. CASE ManilaInit
  <2>1. [status EXCEPT !.known = TRUE] \in ManilaStatus
    BY DEF TypeOK, ManilaStatus
  <2> QED
    BY <1>0, <1>6, <2>1, ReturnType DEF TypeOK, ManilaInit
<1>7. CASE RequestTransport
  BY <1>0, <1>7 DEF TypeOK, RequestTransport
<1>8. CASE RequestNotifications
  BY <1>0, <1>8, EarlyStatusType, ReturnType DEF TypeOK, RequestNotifications
<1>9. CASE WaitForDependency
  BY <1>0, <1>9, ClaimType, ReturnType DEF TypeOK, WaitForDependency
<1>10. CASE PublishConfig
  <2>1. ClaimTransport
    BY <1>10 DEF PublishConfig
  <2>2. [EarlyStatus EXCEPT !.hash = Desired] \in ManilaStatus
    BY <2>1, ClaimType DEF ManilaStatus
  <2>3. queue' \subseteq Services \cup {Manila}
    BY <1>10 DEF TypeOK, PublishConfig
  <2> QED
    BY <1>0, <1>10, <2>1, <2>2, <2>3, ClaimType, ReturnType DEF TypeOK, PublishConfig
<1>11. CASE ClaimAC
  <2>1. ClaimTransport
    BY <1>11 DEF ClaimAC
  <2>2. queue' \subseteq Services \cup {Manila}
    BY <1>11 DEF TypeOK, ClaimAC
  <2>3. afin' \subseteq Nat \ {0}
    BY <1>11 DEF TypeOK, ClaimAC
  <2>4. cursor' \in 0..(NumServices + 1)
    BY <1>11 DEF ClaimAC
  <2> QED
    BY <1>0, <1>11, <2>1, <2>2, <2>3, <2>4, ClaimType DEF TypeOK, ClaimAC
<1>12. CASE DeployService
  <2> DEFINE old == cr[cursor]
             upd == old.gen = 0 \/ old.transport # snap.transport \/ old.notif # snap.notif
             new == IF upd
                    THEN [old EXCEPT !.transport = snap.transport, !.notif = snap.notif,
                                     !.gen = @ + 1]
                    ELSE old
  <2>1. cursor \in Services /\ cursor' = cursor + 1 /\ cr' = [cr EXCEPT ![cursor] = new]
    BY <1>12 DEF DeployService
  <2>2. new \in SubCR
    <3>1. old \in SubCR /\ snap.transport \in Nat /\ snap.notif \in Nat
      BY <2>1 DEF TypeOK, Inputs
    <3>2. [old EXCEPT !.transport = snap.transport, !.notif = snap.notif, !.gen = @ + 1] \in SubCR
      <4> HIDE DEF old
      <4>1. old.gen + 1 \in Nat
        BY <3>1 DEF SubCR
      <4>2. ASSUME NEW g \in Nat
            PROVE  [old EXCEPT !.transport = snap.transport, !.notif = snap.notif,
                               !.gen = g] \in SubCR
        BY <3>1 DEF SubCR
      <4> QED
        BY <4>1, <4>2
    <3> QED
      BY <3>1, <3>2
  <2>3. queue' \subseteq Services \cup {Manila}
    <3>1. queue' = queue \cup When(upd, {Manila, cursor})
      BY <1>12 DEF DeployService
    <3> QED
      BY <2>1, <3>1 DEF TypeOK
  <2>4. cursor' \in 0..(NumServices + 1)
    BY <2>1 DEF Services
  <2>5. cr' \in [Services -> SubCR]
    <3> HIDE DEF new
    <3> QED
      BY <2>1, <2>2 DEF TypeOK
  <2> QED
    BY <1>0, <1>12, <2>3, <2>4, <2>5 DEF TypeOK, DeployService
<1>13. CASE FinishReconcile
  BY <1>0, <1>13, FinalizeType, StatusAfterType, ReturnType DEF TypeOK, FinishReconcile
<1>14. CASE Fault
  <2>1. /\ queue' \subseteq Services \cup {Manila} /\ faults' \in Nat
        /\ UNCHANGED <<turl, notifOn, acSpec, deps, svcVars, pods, edits, outages>>
    BY <1>14 DEF Fault, TypeOK
  <2>2. CASE /\ Starts /\ status.known /\ turl > 0
             /\ \/ UNCHANGED tfin /\ Interrupted([status EXCEPT !.transport = EarlyStatus.transport])
                \/ tfin' = tfin \cup {turl} /\ Interrupted(EarlyStatus)
             /\ UNCHANGED <<nturl, nfin, afin, config>>
    <3>1. EarlyStatus \in ManilaStatus /\ status \in ManilaStatus
      BY <2>2, EarlyStatusType DEF TypeOK
    <3>2. [status EXCEPT !.transport = EarlyStatus.transport] \in ManilaStatus
      BY <3>1 DEF ManilaStatus
    <3>3. /\ status' \in ManilaStatus /\ mem' \in ManilaStatus
          /\ cursor' \in 0..(NumServices + 1) /\ snap' \in Inputs
      BY <2>2, <3>1, <3>2, ReturnType DEF Interrupted
    <3>4. tfin' \subseteq Nat \ {0}
      BY <2>2 DEF TypeOK, Nil
    <3> QED
      BY <1>0, <2>1, <2>2, <3>3, <3>4 DEF TypeOK
  <2>3. CASE /\ ClaimTransport
             /\ config' = config \/ (deps /\ config' = Desired)
             /\ Interrupted(EarlyStatus)
             /\ UNCHANGED <<nturl, afin>>
    <3>1. /\ status' \in ManilaStatus /\ mem' \in ManilaStatus
          /\ cursor' \in 0..(NumServices + 1) /\ snap' \in Inputs
      BY <2>3, ClaimType, ReturnType DEF Interrupted, TypeOK
    <3>2. config' \in Inputs
      BY <2>3, ClaimType DEF TypeOK
    <3> QED
      BY <1>0, <2>1, <2>3, <3>1, <3>2, ClaimType DEF TypeOK
  <2>4. CASE /\ cursor \in Services /\ Interrupted(mem)
             /\ UNCHANGED <<nturl, finVars, config>>
    <3>1. /\ status' \in ManilaStatus /\ mem' \in ManilaStatus
          /\ cursor' \in 0..(NumServices + 1) /\ snap' \in Inputs
      BY <2>4, ReturnType DEF Interrupted, TypeOK
    <3> QED
      BY <1>0, <2>1, <2>4, <3>1 DEF TypeOK
  <2>5. ASSUME NEW n \in 0..5, Finalize(n), Interrupted(StatusAfter(n)), UNCHANGED config
        PROVE  TypeOK'
    <3>1. /\ status' \in ManilaStatus /\ mem' \in ManilaStatus
          /\ cursor' \in 0..(NumServices + 1) /\ snap' \in Inputs
      BY <2>5, StatusAfterType, ReturnType DEF Interrupted, TypeOK
    <3> QED
      BY <1>0, <2>1, <2>5, <3>1, FinalizeType DEF TypeOK
  <2> QED
    BY <1>14, <2>2, <2>3, <2>4, <2>5 DEF Fault
<1>15. ASSUME NEW s \in Services, ServiceController(s)
       PROVE  TypeOK'
  <2>1. CASE ServiceInit(s)
    BY <1>0, <1>15, <2>1 DEF TypeOK, ServiceInit, SubCR
  <2>2. CASE ServiceRehash(s)
    BY <1>0, <1>15, <2>2, InputHashType DEF TypeOK, ServiceRehash, SubCR
  <2>3. CASE ServiceDeploy(s)
    <3>1. PICK c \in Reports(s) : cr' = [cr EXCEPT ![s] = c]
      BY <2>3 DEF ServiceDeploy
    <3>2. c \in SubCR
      <4>1. cr[s] \in SubCR
        BY <1>15 DEF TypeOK
      <4>2. [cr[s] EXCEPT !.obs = cr[s].gen, !.ready = TRUE,
                          !.appliedT = cr[s].transport, !.appliedN = cr[s].notif] \in SubCR
        BY <4>1 DEF SubCR
      <4>3. \A r \in BOOLEAN : [cr[s] EXCEPT !.obs = cr[s].gen, !.ready = r] \in SubCR
        BY <4>1 DEF SubCR
      <4> QED
        BY <3>1, <4>2, <4>3 DEF Reports
    <3>3. queue' \subseteq Services \cup {Manila}
      BY <1>15, <2>3 DEF TypeOK, ServiceDeploy
    <3> QED
      BY <1>0, <1>15, <2>3, <3>1, <3>2, <3>3, InputHashType DEF TypeOK, ServiceDeploy
  <2> QED
    BY <1>0, <1>15, <2>1, <2>2, <2>3 DEF ServiceController
<1>16. ASSUME NEW s \in Services, ServiceError(s)
       PROVE  TypeOK'
  BY <1>0, <1>16, InputHashType DEF TypeOK, ServiceError, SubCR
<1>17. ASSUME NEW s \in Services, PodStart(s) \/ PodFinish(s)
       PROVE  TypeOK'
  <2>1. CASE PodStart(s)
    <3>1. [hash |-> template[s], config |-> svcConfig[s]] \in Pod
      BY <1>17 DEF TypeOK, Pod
    <3> QED
      BY <1>0, <1>17, <2>1, <3>1 DEF TypeOK, PodStart
  <2>2. CASE PodFinish(s)
    BY <1>0, <1>17, <2>2 DEF TypeOK, PodFinish
  <2> QED
    BY <1>17, <2>1, <2>2
<1>18. ASSUME NEW s \in Services, PodRestart(s)
       PROVE  TypeOK'
  BY <1>0, <1>18 DEF TypeOK, PodRestart, Pod
<1>19. CASE UNCHANGED vars
  BY <1>0, <1>19 DEF TypeOK, vars
<1> QED
  BY <1>1, <1>2, <1>3, <1>4, <1>5, <1>6, <1>7, <1>8, <1>9, <1>10, <1>11, <1>12, <1>13,
     <1>14, <1>15, <1>16, <1>17, <1>18, <1>19, <1>20, <1>21, <1>22, <1>23
  DEF Next, Environment, ManilaController

(* Every variable has its type: of every step of the operator, the API     *)
(* server, the pods and the owners of the secrets.                         *)
THEOREM TypeCorrect == Spec => []TypeOK
  BY InitType, NextType, PTL DEF Spec

-----------------------------------------------------------------------------
(***************************************************************************)
(* The steps, sorted by what they leave alone.                             *)
(***************************************************************************)

(* The owners of the Manila CR, of its secrets and of what it depends on.   *)
Owners ==
  \/ PublishTransport \/ PublishNotifications \/ EditSpec \/ DeleteManila
  \/ DependencyLost \/ DependencyReady

(* The Manila controller on a Manila CR that is deleted.                   *)
Deletion == ReconcileDelete \/ DeleteFault \/ ManilaGone

(* A step of the environment or of the Manila controller between, before   *)
(* and after its deployments: the services and their pods are as before.   *)
Upstream ==
  \/ Owners \/ Deletion \/ ManilaInit \/ RequestTransport \/ RequestNotifications
  \/ WaitForDependency \/ PublishConfig \/ ClaimAC \/ FinishReconcile \/ Fault
  \/ UNCHANGED vars

(* A step that leaves the Manila controller and its secrets alone.         *)
Downstream ==
  \E s \in Services :
    \/ ServiceController(s) \/ ServiceError(s)
    \/ PodStart(s) \/ PodFinish(s) \/ PodRestart(s)

(* Every step is of one of four kinds.                                     *)
LEMMA StepKinds == [Next]_vars => Upstream \/ DeployService \/ Downstream \/ Collect
  BY DEF Next, Environment, Owners, Deletion, ManilaController, Upstream, Downstream

(* The Manila controller and the environment touch no service.             *)
LEMMA UpstreamFrame == Upstream => UNCHANGED <<svcVars, pods>>
<1> USE DEF svcVars, specVars, finVars, localVars, counters
<1>1. CASE Owners
  BY <1>1 DEF Owners, PublishTransport, PublishNotifications, EditSpec, DeleteManila,
              DependencyLost, DependencyReady
<1>2. CASE ManilaInit \/ RequestTransport \/ RequestNotifications
  BY <1>2 DEF ManilaInit, RequestTransport, RequestNotifications
<1>3. CASE WaitForDependency \/ PublishConfig \/ ClaimAC
  BY <1>3 DEF WaitForDependency, PublishConfig, ClaimAC
<1>4. CASE FinishReconcile \/ Fault
  BY <1>4 DEF FinishReconcile, Fault
<1>5. CASE UNCHANGED vars
  BY <1>5 DEF vars
<1>6. CASE Deletion
  BY <1>6 DEF Deletion, ReconcileDelete, DeleteFault, ManilaGone
<1> QED
  BY <1>1, <1>2, <1>3, <1>4, <1>5, <1>6 DEF Upstream

(* The services and their pods touch nothing of the Manila controller.     *)
LEMMA DownstreamFrame ==
  Downstream => UNCHANGED <<life, turl, nturl, finVars, status, config, cursor, mem, snap, allReady>>
  BY DEF Downstream, specVars, finVars, localVars, svcVars, ServiceController, ServiceInit,
         ServiceRehash, ServiceDeploy, ServiceError, PodStart, PodFinish, PodRestart

(* A config-data is rendered only from names that were read, when the      *)
(* Manila controller is about to start, and after they were claimed.       *)
Rendered ==
  /\ config' = Desired /\ turl > 0 /\ (notifOn => nturl > 0) /\ UNCHANGED turl
  /\ tfin' = tfin \cup {turl} /\ nfin' = nfin \cup When(notifOn, {nturl})

(* The config-data only changes to what a Reconcile renders at its start,  *)
(* until it is removed with the Manila CR.                                 *)
LEMMA ConfigStep ==
  ASSUME [Next]_vars, ~Collect
  PROVE  UNCHANGED config \/ (cursor = 0 /\ life = "live" /\ Rendered)
<1>1. CASE Owners
  BY <1>1 DEF Owners, PublishTransport, PublishNotifications, EditSpec, DeleteManila,
              DependencyLost, DependencyReady
<1>2. CASE ManilaInit \/ RequestTransport \/ RequestNotifications \/ WaitForDependency
           \/ FinishReconcile
  BY <1>2 DEF ManilaInit, RequestTransport, RequestNotifications, WaitForDependency,
              FinishReconcile
<1>3. CASE PublishConfig \/ ClaimAC
  BY <1>3 DEF PublishConfig, ClaimAC, ClaimTransport, Starts, Rendered, specVars
<1>4. CASE Fault
  BY <1>4 DEF Fault, ClaimTransport, Starts, Rendered
<1>5. CASE UNCHANGED vars
  BY <1>5 DEF vars
<1>6. CASE DeployService
  BY <1>6 DEF DeployService
<1>7. CASE Downstream
  BY <1>7, DownstreamFrame
<1>8. CASE Deletion
  BY <1>8 DEF Deletion, ReconcileDelete, DeleteFault, ManilaGone
<1> QED
  BY <1>1, <1>2, <1>3, <1>4, <1>5, <1>6, <1>7, <1>8, StepKinds DEF Upstream

(* The messaging TransportURL only moves on until it is removed.           *)
LEMMA TurlStep ==
  ASSUME TypeOK, [Next]_vars, ~Collect
  PROVE  turl <= turl'
<1>1. turl \in Int
  BY DEF TypeOK, Nil
<1>2. CASE PublishTransport
  BY <1>1, <1>2, BoundsType DEF PublishTransport
<1>3. CASE RequestTransport
  BY <1>3 DEF RequestTransport, Nil
<1>4. CASE PublishNotifications \/ EditSpec \/ DeleteManila \/ DependencyLost
           \/ DependencyReady
  BY <1>1, <1>4 DEF PublishNotifications, EditSpec, DeleteManila, DependencyLost, DependencyReady
<1>5. CASE ManilaInit \/ RequestNotifications \/ WaitForDependency \/ PublishConfig
           \/ ClaimAC \/ FinishReconcile \/ Fault
  BY <1>1, <1>5 DEF ManilaInit, RequestNotifications, WaitForDependency, PublishConfig,
     ClaimAC, FinishReconcile, Fault, specVars
<1>6. CASE DeployService \/ Downstream
  BY <1>1, <1>6, DownstreamFrame DEF DeployService, specVars
<1>7. CASE UNCHANGED vars
  BY <1>1, <1>7 DEF vars, specVars
<1>8. CASE Deletion
  BY <1>1, <1>8 DEF Deletion, ReconcileDelete, DeleteFault, ManilaGone, specVars
<1> QED
  BY <1>2, <1>3, <1>4, <1>5, <1>6, <1>7, <1>8, StepKinds DEF Upstream, Owners

(* The messaging secret that the config-data names only moves on.          *)
LEMMA ConfigGrows ==
  ASSUME TypeOK, TypeOK', ConfigIssued, [Next]_vars, ~Collect
  PROVE  config.transport <= config'.transport /\ ConfigIssued'
<1>1. /\ turl \in Int /\ turl' \in Int /\ turl <= turl'
      /\ config.transport \in Nat /\ config'.transport \in Nat
  BY TurlStep DEF TypeOK, Nil, Inputs
<1>2. CASE UNCHANGED config
  BY <1>1, <1>2 DEF ConfigIssued
<1>3. CASE Rendered
  <2>1. config'.transport = turl /\ turl' = turl /\ turl > 0
    BY <1>3 DEF Rendered, Desired
  <2> QED
    BY <1>1, <2>1 DEF ConfigIssued
<1> QED
  BY <1>2, <1>3, ConfigStep

-----------------------------------------------------------------------------
(***************************************************************************)
(* The inductive invariant.                                                *)
(***************************************************************************)

(* The inductive invariant holds before anything is deployed.              *)
LEMMA InitInv == Init => IInv
<1> SUFFICES ASSUME Init PROVE IInv
  OBVIOUS
<1>1. TypeOK
  BY InitType
<1>2. ConfigIssued /\ SnapIsConfig /\ PublishedClaimed /\ Lifecycle
  BY DEF Init, ConfigIssued, SnapIsConfig, PublishedClaimed, Lifecycle, NoInputs
<1>3. CopiedDown /\ HashBounds /\ AppliedBounds /\ ReadyIsCurrent
  BY DEF Init, CopiedDown, HashBounds, AppliedBounds, ReadyIsCurrent, NoInputs, NoHash, NoSubCR
<1> QED
  BY <1>1, <1>2, <1>3 DEF IInv, Order

(* While services are deployed the Manila controller renders nothing and   *)
(* forgets nothing; when it returns there is nothing to keep.              *)
LEMMA SnapStep ==
  ASSUME TypeOK, SnapIsConfig, [Next]_vars, ~Collect
  PROVE  SnapIsConfig'
<1>1. CASE Owners
  BY <1>1 DEF Owners, PublishTransport, PublishNotifications, EditSpec, DeleteManila, DependencyLost,
     DependencyReady, SnapIsConfig, localVars
<1>2. CASE ManilaInit \/ RequestNotifications \/ WaitForDependency \/ PublishConfig
           \/ FinishReconcile
  BY <1>2 DEF ManilaInit, RequestNotifications, WaitForDependency, PublishConfig,
     FinishReconcile, Return, SnapIsConfig
<1>3. CASE RequestTransport
  BY <1>3 DEF RequestTransport, SnapIsConfig, localVars
<1>4. CASE ClaimAC
  <2>1. status' = status /\ mem' = EarlyStatus /\ snap' = Desired /\ config' = Desired
    BY <1>4 DEF ClaimAC
  <2>2. status.transport # 0 => EarlyStatus.transport = status.transport
    BY DEF TypeOK, ManilaStatus, EarlyStatus
  <2> QED
    BY <2>1, <2>2 DEF SnapIsConfig
<1>5. CASE Fault
  BY <1>5 DEF Fault, Interrupted, Return, SnapIsConfig
<1>6. CASE DeployService
  <2>1. cursor # 0
    BY <1>6 DEF DeployService, Services
  <2> QED
    BY <1>6, <2>1 DEF DeployService, SnapIsConfig
<1>7. CASE Downstream
  BY <1>7, DownstreamFrame DEF SnapIsConfig
<1>8. CASE UNCHANGED vars
  BY <1>8 DEF vars, localVars, SnapIsConfig
<1>9. CASE Deletion
  BY <1>9 DEF Deletion, ReconcileDelete, DeleteFault, ManilaGone, localVars, SnapIsConfig
<1> QED
  BY <1>1, <1>2, <1>3, <1>4, <1>5, <1>6, <1>7, <1>8, <1>9, StepKinds DEF Upstream

(* Every action keeps a Manila CR whose Reconcile is running in existence. *)
LEMMA LifecycleStep ==
  ASSUME Lifecycle, [Next]_vars
  PROVE  Lifecycle'
<1>1. CASE Owners
  BY <1>1 DEF Owners, PublishTransport, PublishNotifications, EditSpec, DeleteManila,
     DependencyLost, DependencyReady, Lifecycle, localVars
<1>2. CASE ManilaInit \/ RequestNotifications \/ WaitForDependency \/ PublishConfig
           \/ FinishReconcile
  BY <1>2 DEF ManilaInit, RequestNotifications, WaitForDependency, PublishConfig,
     FinishReconcile, Return, Lifecycle
<1>3. CASE RequestTransport
  BY <1>3 DEF RequestTransport, Lifecycle, localVars
<1>4. CASE ClaimAC
  <2>1. /\ life = "live" /\ life' = life /\ status.known /\ status' = status
        /\ mem' = EarlyStatus
    BY <1>4 DEF ClaimAC, ClaimTransport, Starts, specVars
  <2>2. EarlyStatus.known = status.known
    BY DEF EarlyStatus
  <2> QED
    BY <2>1, <2>2 DEF Lifecycle
<1>5. CASE Fault
  BY <1>5 DEF Fault, Interrupted, Return, Lifecycle
<1>6. CASE DeployService
  <2>1. cursor # 0
    BY <1>6 DEF DeployService, Services
  <2> QED
    BY <1>6, <2>1 DEF DeployService, specVars, Lifecycle
<1>7. CASE Downstream
  BY <1>7, DownstreamFrame DEF Lifecycle
<1>8. CASE UNCHANGED vars
  BY <1>8 DEF vars, localVars, specVars, Lifecycle
<1>9. CASE Deletion
  BY <1>9 DEF Deletion, ReconcileDelete, DeleteFault, ManilaGone, localVars, specVars, Lifecycle
<1>10. CASE Collect
  BY <1>10 DEF Collect, localVars, Lifecycle
<1> QED
  BY <1>1, <1>2, <1>3, <1>4, <1>5, <1>6, <1>7, <1>8, <1>9, <1>10, StepKinds DEF Upstream

(* What a service controller may do to its config-data, its template and   *)
(* the report in its CR's status.                                          *)
LEMMA ServiceStep ==
  ASSUME TypeOK, NEW s \in Services, ServiceController(s) \/ ServiceError(s)
  PROVE  /\ UNCHANGED <<config, pods>>
         /\ \A r \in Services \ {s} :
              cr'[r] = cr[r] /\ svcConfig'[r] = svcConfig[r] /\ template'[r] = template[r]
         /\ svcConfig'[s] \in {svcConfig[s], config}
         /\ template'[s] = template[s]
            \/ (template'[s].config = config /\ svcConfig'[s] = config)
         /\ cr'[s].transport = cr[s].transport
         /\ \/ cr'[s].appliedT = cr[s].appliedT
            \/ /\ cr'[s].appliedT = cr[s].transport /\ svcConfig'[s] = config
               /\ \A p \in pods[s] : p.hash.config = config
<1>1. /\ cr \in [Services -> SubCR] /\ svcConfig \in [Services -> Inputs]
      /\ template \in [Services -> Hash] /\ cr[s] \in SubCR
  BY DEF TypeOK
<1>2. CASE ServiceInit(s)
  BY <1>1, <1>2 DEF ServiceInit, SubCR
<1>3. CASE ServiceRehash(s)
  BY <1>1, <1>3 DEF ServiceRehash, SubCR
<1>4. CASE ServiceDeploy(s)
  <2>1. PICK c \in Reports(s) : cr' = [cr EXCEPT ![s] = c]
    BY <1>4 DEF ServiceDeploy
  <2>2. cr'[s] = c /\ \A r \in Services \ {s} : cr'[r] = cr[r]
    BY <1>1, <2>1
  <2>3. /\ c.transport = cr[s].transport
        /\ \/ c.appliedT = cr[s].appliedT
           \/ c.appliedT = cr[s].transport /\ IsReadyForInput(s, InputHash(s))
    BY <1>1, <2>1 DEF Reports, SubCR
  <2>4. /\ UNCHANGED <<config, pods>>
        /\ svcConfig' = [svcConfig EXCEPT ![s] = config]
        /\ template' = [template EXCEPT ![s] = InputHash(s)]
    BY <1>4 DEF ServiceDeploy
  <2>5. InputHash(s).config = config
    BY DEF InputHash
  <2>6. IsReadyForInput(s, InputHash(s)) => \A p \in pods[s] : p.hash.config = config
    BY <2>5 DEF IsReadyForInput
  <2> QED
    BY <1>1, <2>2, <2>3, <2>4, <2>5, <2>6
<1>5. CASE ServiceError(s)
  <2>1. InputHash(s).config = config
    BY DEF InputHash
  <2>2. /\ UNCHANGED <<config, pods>>
        /\ svcConfig' = [svcConfig EXCEPT ![s] = config]
        /\ template' = template \/ template' = [template EXCEPT ![s] = InputHash(s)]
    BY <1>5 DEF ServiceError
  <2>3. \/ cr' = cr
        \/ cr' = [cr EXCEPT ![s].obs = cr[s].gen]
        \/ \E r \in BOOLEAN : cr' = [cr EXCEPT ![s].obs = cr[s].gen, ![s].ready = r]
    BY <1>5 DEF ServiceError
  <2>4. /\ cr'[s].transport = cr[s].transport /\ cr'[s].appliedT = cr[s].appliedT
        /\ \A r \in Services \ {s} : cr'[r] = cr[r]
    BY <1>1, <2>3 DEF SubCR
  <2> QED
    BY <1>1, <2>1, <2>2, <2>4
<1> QED
  BY <1>2, <1>3, <1>4, <1>5 DEF ServiceController

(* What happens to the pods of a service: each is one of the old ones or   *)
(* has read the service's config-data, with a template that bounds it.     *)
LEMMA PodStep ==
  ASSUME TypeOK, NEW s \in Services, PodStart(s) \/ PodFinish(s) \/ PodRestart(s)
  PROVE  /\ UNCHANGED <<config, cr, svcConfig, template>>
         /\ \A r \in Services \ {s} : pods'[r] = pods[r]
         /\ \A p \in pods'[s] :
              \/ p \in pods[s]
              \/ /\ p.config = svcConfig[s]
                 /\ p.hash = template[s] \/ \E q \in pods[s] : p.hash = q.hash
<1>1. pods \in [Services -> SUBSET Pod]
  BY DEF TypeOK
<1>2. CASE PodStart(s)
  BY <1>1, <1>2 DEF PodStart, svcVars
<1>3. CASE PodFinish(s)
  BY <1>1, <1>3 DEF PodFinish, svcVars
<1>4. CASE PodRestart(s)
  <2>1. PICK p \in pods[s], others \in SUBSET pods[s] :
          pods' = [pods EXCEPT ![s] =
                    others \cup {[hash |-> p.hash, config |-> svcConfig[s]]}]
    BY <1>4 DEF PodRestart
  <2>2. pods'[s] = others \cup {[hash |-> p.hash, config |-> svcConfig[s]]}
    BY <1>1, <2>1
  <2> QED
    BY <1>1, <1>4, <2>1, <2>2 DEF PodRestart, svcVars
<1> QED
  BY <1>2, <1>3, <1>4

(* The numbers the orders are about, in a form the provers like.           *)
LEMMA Numbers ==
  ASSUME TypeOK
  PROVE  /\ config.transport \in Nat /\ snap.transport \in Nat
         /\ \A s \in Services :
              /\ cr[s].transport \in Nat /\ cr[s].appliedT \in Nat
              /\ svcConfig[s].transport \in Nat /\ template[s].config.transport \in Nat
              /\ \A p \in pods[s] : /\ p.config.transport \in Nat
                                    /\ p.hash.config.transport \in Nat
<1>1. config.transport \in Nat /\ snap.transport \in Nat
  BY DEF TypeOK, Inputs
<1>2. ASSUME NEW s \in Services
      PROVE  /\ cr[s].transport \in Nat /\ cr[s].appliedT \in Nat
             /\ svcConfig[s].transport \in Nat /\ template[s].config.transport \in Nat
  <2>1. cr[s] \in SubCR /\ svcConfig[s] \in Inputs /\ template[s] \in Hash
    BY DEF TypeOK
  <2> QED
    BY <2>1 DEF SubCR, Inputs, Hash
<1>3. ASSUME NEW s \in Services, NEW p \in pods[s]
      PROVE  p.config.transport \in Nat /\ p.hash.config.transport \in Nat
  <2>1. p \in Pod
    BY DEF TypeOK
  <2> QED
    BY <2>1 DEF Pod, Inputs, Hash
<1> QED
  BY <1>1, <1>2, <1>3

(* What the garbage collector leaves is as at the start.                   *)
LEMMA CollectStep ==
  ASSUME Lifecycle, Collect
  PROVE  Order' /\ ReadyIsCurrent' /\ PublishedClaimed'
<1>1. cursor' = 0 /\ life' # "live"
  BY DEF Lifecycle, Collect, localVars
<1>2. ConfigIssued' /\ SnapIsConfig' /\ PublishedClaimed' /\ ReadyIsCurrent'
  BY <1>1 DEF Collect, ConfigIssued, SnapIsConfig, PublishedClaimed, ReadyIsCurrent, NoInputs,
     Services
<1>3. \A s \in Services : /\ cr'[s] = NoSubCR /\ svcConfig'[s] = NoInputs
                          /\ template'[s] = NoHash /\ pods'[s] = {}
  BY DEF Collect
<1>4. CopiedDown' /\ HashBounds' /\ AppliedBounds'
  BY <1>3 DEF Collect, CopiedDown, HashBounds, AppliedBounds, NoInputs, NoHash, NoSubCR
<1> QED
  BY <1>2, <1>4 DEF Order

(* Every other action keeps the order of the copies.                       *)
LEMMA OrderStep ==
  ASSUME TypeOK, TypeOK', Order, [Next]_vars, ~Collect
  PROVE  Order'
<1>1. /\ config.transport <= config'.transport
      /\ ConfigIssued' /\ SnapIsConfig'
  BY ConfigGrows, SnapStep DEF Order
<1>n. /\ config.transport \in Nat /\ config'.transport \in Nat
  BY Numbers DEF TypeOK, Inputs
<1>2. CASE Upstream
  <2>1. UNCHANGED <<cr, svcConfig, template, pods>>
    BY <1>2, UpstreamFrame DEF svcVars
  <2>2. HashBounds' /\ AppliedBounds'
    BY <2>1 DEF Order, HashBounds, AppliedBounds
  <2>3. CopiedDown'
    BY <1>1, <1>n, <2>1, Numbers DEF Order, CopiedDown
  <2> QED
    BY <1>1, <2>2, <2>3 DEF Order
<1>3. CASE DeployService
  <2>1. /\ UNCHANGED <<config, svcConfig, template, pods>>
        /\ \A s \in Services :
             /\ cr'[s].appliedT = cr[s].appliedT
             /\ \/ cr'[s].transport = cr[s].transport
                \/ cr'[s].transport = snap.transport
    <3>1. \A s \in Services : cr[s] \in SubCR
      BY DEF TypeOK
    <3> QED
      BY <1>3, <3>1 DEF DeployService, TypeOK, SubCR
  <2>2. snap.transport = config.transport
    BY <1>3 DEF DeployService, Services, Order, SnapIsConfig
  <2>3. CopiedDown' /\ HashBounds' /\ AppliedBounds'
    BY <1>n, <2>1, <2>2, Numbers DEF Order, CopiedDown, HashBounds, AppliedBounds
  <2> QED
    BY <1>1, <2>3 DEF Order
<1>4. ASSUME NEW s \in Services, ServiceController(s) \/ ServiceError(s)
      PROVE  Order'
  <2> DEFINE ct == config.transport
  <2>1. /\ UNCHANGED <<config, pods>>
        /\ \A r \in Services \ {s} :
             cr'[r] = cr[r] /\ svcConfig'[r] = svcConfig[r] /\ template'[r] = template[r]
        /\ svcConfig'[s].transport \in {svcConfig[s].transport, ct}
        /\ template'[s] = template[s]
           \/ (template'[s].config.transport = ct /\ svcConfig'[s].transport = ct)
        /\ cr'[s].transport = cr[s].transport
        /\ \/ cr'[s].appliedT = cr[s].appliedT
           \/ /\ cr'[s].appliedT = cr[s].transport /\ svcConfig'[s].transport = ct
              /\ \A p \in pods[s] : p.hash.config.transport = ct
    BY <1>4, ServiceStep
  <2>2. svcConfig[s].transport <= svcConfig'[s].transport /\ svcConfig'[s].transport <= ct
    BY <1>n, <2>1, Numbers DEF Order, CopiedDown
  <2>3. CopiedDown'
    <3>1. ASSUME NEW p \in pods[s] PROVE p.config.transport <= svcConfig'[s].transport
      <4>1. p.config.transport <= svcConfig[s].transport
        BY DEF Order, CopiedDown
      <4>2. p.config.transport \in Nat /\ svcConfig[s].transport \in Nat
            /\ svcConfig'[s].transport \in Nat
        BY <1>n, <2>1, Numbers
      <4> QED
        BY <2>2, <4>1, <4>2
    <3> QED
      BY <2>1, <2>2, <3>1 DEF Order, CopiedDown
  <2>4. HashBounds'
    <3>1. template'[s].config.transport <= svcConfig'[s].transport
      <4>1. template[s].config.transport <= svcConfig[s].transport
        BY DEF Order, HashBounds
      <4>2. template[s].config.transport \in Nat /\ svcConfig[s].transport \in Nat
            /\ svcConfig'[s].transport \in Nat
        BY <1>n, <2>1, Numbers
      <4> QED
        BY <1>n, <2>1, <2>2, <4>1, <4>2
    <3> QED
      BY <2>1, <3>1 DEF Order, HashBounds
  <2>5. AppliedBounds'
    <3>1. CASE cr'[s].appliedT = cr[s].appliedT
      <4>1. cr[s].appliedT <= svcConfig[s].transport
        BY DEF Order, AppliedBounds
      <4>2. cr[s].appliedT \in Nat /\ svcConfig[s].transport \in Nat
            /\ svcConfig'[s].transport \in Nat
        BY <1>n, <2>1, Numbers
      <4>3. cr[s].appliedT <= svcConfig'[s].transport
        BY <2>2, <4>1, <4>2
      <4> QED
        BY <2>1, <3>1, <4>3 DEF Order, AppliedBounds
    <3>2. CASE /\ cr'[s].appliedT = cr[s].transport /\ svcConfig'[s].transport = ct
               /\ \A p \in pods[s] : p.hash.config.transport = ct
      <4>1. cr[s].transport <= ct
        BY DEF Order, CopiedDown
      <4>2. \A p \in pods[s] : ct <= p.config.transport
        BY <3>2 DEF Order, HashBounds
      <4>3. \A p \in pods[s] : cr[s].transport <= p.config.transport
        BY <1>n, <4>1, <4>2, Numbers
      <4> QED
        BY <2>1, <3>2, <4>1, <4>3 DEF Order, AppliedBounds
    <3> QED
      BY <2>1, <3>1, <3>2
  <2> QED
    BY <1>1, <2>3, <2>4, <2>5 DEF Order
<1>5. ASSUME NEW s \in Services, PodStart(s) \/ PodFinish(s) \/ PodRestart(s)
      PROVE  Order'
  <2>1. /\ UNCHANGED <<config, cr, svcConfig, template>>
        /\ \A r \in Services \ {s} : pods'[r] = pods[r]
        /\ \A p \in pods'[s] :
             \/ p \in pods[s]
             \/ /\ p.config = svcConfig[s]
                /\ p.hash = template[s] \/ \E q \in pods[s] : p.hash = q.hash
    BY <1>5, PodStep
  <2>2. ASSUME NEW p \in pods'[s]
        PROVE  /\ p.config.transport <= svcConfig[s].transport
               /\ p.hash.config.transport <= p.config.transport
               /\ cr[s].appliedT <= p.config.transport
    <3>1. CASE p \in pods[s]
      BY <3>1 DEF Order, CopiedDown, HashBounds, AppliedBounds
    <3>2. CASE p.config = svcConfig[s] /\ p.hash = template[s]
      BY <3>2, Numbers DEF Order, HashBounds, AppliedBounds
    <3>3. CASE p.config = svcConfig[s] /\ \E q \in pods[s] : p.hash = q.hash
      <4>1. PICK q \in pods[s] : p.hash = q.hash
        BY <3>3
      <4>2. /\ q.hash.config.transport <= q.config.transport
            /\ q.config.transport <= svcConfig[s].transport
        BY DEF Order, CopiedDown, HashBounds
      <4>3. q.hash.config.transport <= svcConfig[s].transport
        BY <4>2, Numbers
      <4> QED
        BY <3>3, <4>1, <4>3, Numbers DEF Order, AppliedBounds
    <3> QED
      BY <2>1, <3>1, <3>2, <3>3
  <2>3. CopiedDown' /\ HashBounds' /\ AppliedBounds'
    BY <2>1, <2>2 DEF Order, CopiedDown, HashBounds, AppliedBounds
  <2> QED
    BY <1>1, <2>3 DEF Order
<1> QED
  BY <1>2, <1>3, <1>4, <1>5, StepKinds DEF Downstream

(* Every action keeps what allServicesReady stands for.                    *)
LEMMA ReadyStep ==
  ASSUME TypeOK, TypeOK', Order, Order', ReadyIsCurrent, [Next]_vars, ~Collect
  PROVE  ReadyIsCurrent'
<1>1. CASE Upstream
  <2>1. UNCHANGED <<svcVars, pods>>
    BY <1>1, UpstreamFrame
  <2>2. CASE UNCHANGED <<cursor, snap, allReady>>
    BY <2>1, <2>2 DEF ReadyIsCurrent, svcVars
  <2>3. CASE ~allReady' \/ cursor' = 0 \/ cursor' = 1
    BY <2>3 DEF ReadyIsCurrent, Services
  <2>4. UNCHANGED <<cursor, snap, allReady>> \/ ~allReady' \/ cursor' = 1
    BY <1>1 DEF Upstream, Deletion, ReconcileDelete, DeleteFault, ManilaGone,
       Owners, PublishTransport, PublishNotifications, EditSpec, DeleteManila,
       DependencyLost, DependencyReady, ManilaInit, RequestTransport, RequestNotifications,
       WaitForDependency, PublishConfig, ClaimAC, FinishReconcile, Fault, Interrupted, Return,
       localVars, vars
  <2> QED
    BY <2>2, <2>3, <2>4
<1>2. CASE DeployService
  <2>1. /\ cursor \in Services /\ cursor' = cursor + 1
        /\ UNCHANGED <<snap, svcConfig, pods>>
    BY <1>2 DEF DeployService
  <2> SUFFICES ASSUME allReady' PROVE ReadyIsCurrent'
    BY DEF ReadyIsCurrent
  <2>2. allReady /\ cr[cursor].appliedT = snap.transport
    <3>1. cr[cursor] \in SubCR
      BY <2>1 DEF TypeOK
    <3> QED
      BY <1>2, <3>1 DEF DeployService, Observed, SubCR
  <2>3. /\ snap.transport <= svcConfig[cursor].transport
        /\ \A p \in pods[cursor] : snap.transport <= p.config.transport
    BY <2>1, <2>2 DEF Order, AppliedBounds
  <2>4. \A s \in Services : s < cursor' => s < cursor \/ s = cursor
    BY <2>1 DEF Services
  <2> QED
    BY <2>1, <2>2, <2>3, <2>4 DEF ReadyIsCurrent
<1>3. CASE Downstream
  <2>1. UNCHANGED <<config, cursor, snap, allReady>>
    BY <1>3, DownstreamFrame
  <2> SUFFICES ASSUME allReady, NEW r \in Services, r < cursor
               PROVE  /\ snap.transport <= svcConfig'[r].transport
                      /\ \A p \in pods'[r] : snap.transport <= p.config.transport
    BY <2>1 DEF ReadyIsCurrent
  <2>2. snap.transport = config.transport
    <3>1. cursor # 0
      BY DEF Services
    <3> QED
      BY <3>1 DEF Order, SnapIsConfig
  <2>3. /\ snap.transport <= svcConfig[r].transport
        /\ \A p \in pods[r] : snap.transport <= p.config.transport
    BY DEF ReadyIsCurrent
  <2>4. ASSUME NEW s \in Services, ServiceController(s) \/ ServiceError(s)
        PROVE  /\ snap.transport <= svcConfig'[r].transport
               /\ \A p \in pods'[r] : snap.transport <= p.config.transport
    <3>1. pods' = pods /\ svcConfig'[r] \in {svcConfig[r], config}
      BY <2>4, ServiceStep
    <3> QED
      BY <2>2, <2>3, <3>1, Numbers
  <2>5. ASSUME NEW s \in Services, PodStart(s) \/ PodFinish(s) \/ PodRestart(s)
        PROVE  /\ snap.transport <= svcConfig'[r].transport
               /\ \A p \in pods'[r] : snap.transport <= p.config.transport
    <3>1. svcConfig' = svcConfig /\ \A p \in pods'[r] : p \in pods[r] \/ p.config = svcConfig[r]
      BY <2>5, PodStep
    <3> QED
      BY <2>3, <3>1
  <2> QED
    BY <1>3, <2>4, <2>5 DEF Downstream
<1> QED
  BY <1>1, <1>2, <1>3, StepKinds

(* A Manila CR that is being deleted does not come back.                   *)
LEMMA Alive ==
  ASSUME [Next]_vars, life' = "live"
  PROVE  life = "live"
<1> USE DEF specVars
<1>1. CASE Owners
  BY <1>1 DEF Owners, PublishTransport, PublishNotifications, EditSpec, DeleteManila,
     DependencyLost, DependencyReady
<1>2. CASE ManilaInit \/ RequestTransport \/ RequestNotifications \/ WaitForDependency
           \/ PublishConfig \/ ClaimAC \/ FinishReconcile \/ Fault \/ Deletion
  BY <1>2 DEF ManilaInit, RequestTransport, RequestNotifications, WaitForDependency,
     PublishConfig, ClaimAC, FinishReconcile, Fault, Deletion, ReconcileDelete, DeleteFault,
     ManilaGone
<1>3. CASE DeployService \/ Downstream \/ Collect
  BY <1>3, DownstreamFrame DEF DeployService, Collect
<1>4. CASE UNCHANGED vars
  BY <1>4 DEF vars
<1> QED
  BY <1>1, <1>2, <1>3, <1>4, StepKinds DEF Upstream

(* What the end of a Reconcile does to the claims on the two kinds of      *)
(* secrets: it keeps the ones its own config-data names.                   *)
LEMMA FinalizeKeeps ==
  ASSUME TypeOK, SnapIsConfig, PublishedClaimed, life = "live", cursor # 0,
         NEW n \in 0..6, Finalize(n)
  PROVE  /\ config.transport # 0 => config.transport \in tfin'
         /\ config.notif # 0 => config.notif \in nfin'
<1>1. snap.transport = config.transport /\ snap.notif = config.notif
  BY DEF SnapIsConfig
<1>2. ASSUME config.transport # 0 PROVE config.transport \in tfin'
  <2>1. config.transport \in tfin /\ config.transport \notin Released(mem.transport, snap.transport)
    BY <1>1, <1>2 DEF PublishedClaimed, Released
  <2> QED
    BY <1>1, <2>1 DEF Finalize, Pruned, When
<1>3. ASSUME config.notif # 0 PROVE config.notif \in nfin'
  <2>1. config.notif \in nfin /\ config.notif \notin ReleasedNotif
    BY <1>1, <1>3 DEF PublishedClaimed, Released, ReleasedNotif
  <2> QED
    BY <1>1, <2>1 DEF Finalize, Pruned, When
<1> QED
  BY <1>2, <1>3

(* Every action keeps the published secrets claimed.                       *)
LEMMA PublishedStep ==
  ASSUME TypeOK, SnapIsConfig, PublishedClaimed, [Next]_vars, ~Collect
  PROVE  PublishedClaimed'
<1>0. SUFFICES ASSUME life' = "live" PROVE PublishedClaimed'
  BY DEF PublishedClaimed
<1>a. life = "live"
  BY <1>0, Alive
<1>1. CASE Rendered
  <2>1. config'.transport \in tfin'
    BY <1>1 DEF Rendered, Desired
  <2>2. config'.notif # 0 => config'.notif \in nfin'
    BY <1>1 DEF Rendered, Desired, When
  <2> QED
    BY <2>1, <2>2 DEF PublishedClaimed
<1>2. CASE UNCHANGED config /\ tfin \subseteq tfin' /\ nfin \subseteq nfin'
  BY <1>a, <1>2 DEF PublishedClaimed
<1>3. ASSUME NEW n \in 0..6, cursor # 0, Finalize(n), UNCHANGED config
      PROVE  PublishedClaimed'
  BY <1>a, <1>3, FinalizeKeeps DEF PublishedClaimed
<1>4. CASE Owners \/ ManilaInit \/ RequestTransport
  BY <1>2, <1>4 DEF Owners, PublishTransport, PublishNotifications, EditSpec, DeleteManila, DependencyLost,
     DependencyReady, ManilaInit, RequestTransport, finVars
<1>5. CASE RequestNotifications \/ WaitForDependency
  BY <1>2, <1>5 DEF RequestNotifications, WaitForDependency, ClaimTransport
<1>6. CASE PublishConfig \/ ClaimAC
  BY <1>1, <1>6 DEF PublishConfig, ClaimAC, ClaimTransport, Rendered, specVars
<1>7. CASE FinishReconcile
  <2>1. Finalize(6) /\ cursor # 0 /\ UNCHANGED config
    BY <1>7, NumServicesAssumption DEF FinishReconcile
  <2> QED
    BY <1>3, <2>1
<1>8. CASE Fault
  <2>1. ASSUME cursor = NumServices + 1, UNCHANGED config, NEW n \in 0..5, Finalize(n)
        PROVE  PublishedClaimed'
    BY <1>3, <2>1, NumServicesAssumption
  <2>2. CASE ClaimTransport /\ (config' = config \/ (deps /\ config' = Desired))
             /\ UNCHANGED turl
    BY <1>1, <1>2, <2>2 DEF ClaimTransport, Rendered
  <2>3. CASE UNCHANGED <<nfin, config>> /\ (UNCHANGED tfin \/ tfin' = tfin \cup {turl})
    BY <1>2, <2>3
  <2> QED
    BY <1>8, <2>1, <2>2, <2>3 DEF Fault, finVars
<1>9. CASE DeployService \/ Downstream
  BY <1>2, <1>9, DownstreamFrame DEF DeployService, finVars
<1>10. CASE UNCHANGED vars
  BY <1>2, <1>10 DEF vars, finVars
<1>11. CASE Deletion
  BY <1>0, <1>a, <1>2, <1>11 DEF Deletion, ReconcileDelete, DeleteFault, ManilaGone
<1> QED
  BY <1>4, <1>5, <1>6, <1>7, <1>8, <1>9, <1>10, <1>11, StepKinds DEF Upstream

(* The inductive invariant is inductive.                                   *)
LEMMA NextInv == IInv /\ [Next]_vars => IInv'
<1> SUFFICES ASSUME IInv, [Next]_vars PROVE IInv'
  OBVIOUS
<1>1. TypeOK'
  BY NextType DEF IInv
<1>2. Lifecycle'
  BY LifecycleStep DEF IInv
<1>3. CASE Collect
  BY <1>1, <1>2, <1>3, CollectStep DEF IInv
<1>4. CASE ~Collect
  <2>1. Order'
    BY <1>1, <1>4, OrderStep DEF IInv
  <2>2. ReadyIsCurrent'
    BY <1>1, <1>4, <2>1, ReadyStep DEF IInv
  <2>3. PublishedClaimed'
    BY <1>4, PublishedStep DEF IInv, Order
  <2> QED
    BY <1>1, <1>2, <2>1, <2>2, <2>3 DEF IInv
<1> QED
  BY <1>3, <1>4

(* The inductive invariant holds in every state, wherever Reconciles fail. *)
THEOREM Invariance == Spec => []IInv
  BY InitInv, NextInv, PTL DEF Spec

(* The Manila controller renders a config-data only from secrets that      *)
(* carry its finalizer, and takes none off while the config-data is        *)
(* current, wherever a Reconcile fails.                                    *)
THEOREM PublishedIsClaimed == Spec => []PublishedClaimed
<1>1. IInv => PublishedClaimed
  BY DEF IInv
<1> QED
  BY <1>1, Invariance, PTL

(* No pod is behind what its service reports in AppliedInputSecretHash.    *)
THEOREM ReportsAreTrue == Spec => []AppliedIsRunning
<1>1. IInv => AppliedIsRunning
  BY DEF IInv, Order, AppliedBounds, AppliedIsRunning
<1> QED
  BY <1>1, Invariance, PTL

(* While the Manila CR lives, only the end of a Reconcile takes a finalizer*)
(* off a messaging secret.                                                 *)
LEMMA WhoReleases ==
  ASSUME [Next]_vars, life = "live", NEW t \in tfin \ tfin'
  PROVE  /\ cursor = NumServices + 1 /\ UNCHANGED <<config, svcVars, pods>>
         /\ \E n \in 0..6 : Finalize(n)
<1>1. CASE Owners \/ ManilaInit \/ RequestTransport
  BY <1>1 DEF Owners, PublishTransport, PublishNotifications, EditSpec, DeleteManila, DependencyLost,
     DependencyReady, ManilaInit, RequestTransport, finVars
<1>2. CASE RequestNotifications \/ WaitForDependency \/ PublishConfig \/ ClaimAC
  BY <1>2 DEF RequestNotifications, WaitForDependency, PublishConfig, ClaimAC, ClaimTransport
<1>3. CASE FinishReconcile
  BY <1>3 DEF FinishReconcile
<1>4. CASE Fault
  <2>1. UNCHANGED <<svcVars, pods>>
    BY <1>4 DEF Fault
  <2>2. CASE \E n \in 0..5 : cursor = NumServices + 1 /\ Finalize(n) /\ UNCHANGED config
    BY <2>1, <2>2
  <2>3. CASE UNCHANGED tfin \/ tfin' = tfin \cup {turl}
    BY <2>3
  <2> QED
    BY <1>4, <2>2, <2>3 DEF Fault, ClaimTransport, finVars
<1>5. CASE DeployService \/ Downstream
  BY <1>5, DownstreamFrame DEF DeployService, finVars
<1>6. CASE UNCHANGED vars
  BY <1>6 DEF vars, finVars
<1>7. CASE Deletion \/ Collect
  BY <1>7 DEF Deletion, ReconcileDelete, DeleteFault, ManilaGone, Collect, finVars
<1> QED
  BY <1>1, <1>2, <1>3, <1>4, <1>5, <1>6, <1>7, StepKinds DEF Upstream

(* A released secret that was tracked is in no config-data and no pod.     *)
LEMMA ReleaseStep ==
  ASSUME IInv, [Next]_vars, NEW t \in tfin \ tfin', life = "live", t = status.transport
  PROVE  /\ t # config.transport
         /\ \A s \in Services : t \notin UsedTransport(s)
<1>1. PICK n \in 0..6 : Finalize(n)
  BY WhoReleases
<1>2. cursor = NumServices + 1 /\ cursor # 0
  BY WhoReleases, NumServicesAssumption
<1>3. t # 0 /\ mem.transport = t /\ snap.transport = config.transport
  <2>1. t # 0
    BY DEF IInv, TypeOK
  <2> QED
    BY <1>2, <2>1 DEF IInv, Order, SnapIsConfig
<1>4. allReady /\ t # snap.transport
  <2>1. CASE t \in Released(mem.transport, snap.transport)
    BY <1>3, <2>1 DEF Released
  <2>2. CASE t \notin {StatusAfter(4).transport, snap.transport}
    <3>1. StatusAfter(4).transport = Tracked(mem.transport, snap.transport)
      BY DEF IInv, TypeOK, ManilaStatus, StatusAfter, NotifDone
    <3> QED
      BY <1>3, <2>2, <3>1 DEF Tracked
  <2>3. t \in Released(mem.transport, snap.transport)
        \/ t \notin {StatusAfter(4).transport, snap.transport}
    BY <1>1 DEF Finalize, Pruned, When
  <2> QED
    BY <2>1, <2>2, <2>3
<1>5. ASSUME NEW s \in Services
      PROVE  t \notin UsedTransport(s)
  <2>1. s < cursor
    BY <1>2, NumServicesAssumption DEF Services
  <2>2. /\ snap.transport <= svcConfig[s].transport
        /\ svcConfig[s].transport <= snap.transport
        /\ \A p \in pods[s] : /\ snap.transport <= p.config.transport
                              /\ p.config.transport <= svcConfig[s].transport
    BY <1>3, <1>4, <2>1 DEF IInv, Order, ReadyIsCurrent, CopiedDown
  <2>3. svcConfig[s].transport = snap.transport
        /\ \A p \in pods[s] : p.config.transport = snap.transport
    BY <2>2, Numbers DEF IInv
  <2> QED
    BY <1>4, <2>3 DEF UsedTransport
<1> QED
  BY <1>3, <1>4, <1>5

(* The messaging secret that the services run on loses its finalizer only  *)
(* after the rollout of its successor has reached every pod of every       *)
(* service, whatever rotations, faults and restarts come in between.       *)
THEOREM ReleaseIsSafe == Spec => ReleaseAfterRollout
<1>1. IInv /\ [Next]_vars =>
        [\A t \in tfin \ tfin' :
           life = "live" /\ t = status.transport =>
             /\ t # config.transport
             /\ \A s \in Services : t \notin UsedTransport(s)]_vars
  BY ReleaseStep
<1> QED
  BY <1>1, Invariance, PTL DEF Spec, ReleaseAfterRollout

=============================================================================
