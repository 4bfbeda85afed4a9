------------------------ MODULE TopologyClaims_proofs ------------------------
(***************************************************************************)
(* Proofs about TopologyClaims, for any services, Topologies, edits and    *)
(* faults: a Topology that a service has applied stays claimed, and once   *)
(* everything is at rest one that it no longer refers to is not.           *)
(***************************************************************************)
EXTENDS TopologyClaims, TLAPS

HoldersType == [Topologies -> SUBSET Finalizer]

(* What carries a finalizer exists.                                        *)
HeldExist == \A t \in Topologies : holders[t] # {} => topology[t] # "absent"

(* What a service has applied carries its finalizer, unless the service is *)
(* still to reconcile.                                                     *)
AppliedCarries ==
  \A s \in Services : \A t \in Topologies :
    life[s] = "live" /\ applied[s] = t /\ s \notin queue => <<s, "crName">> \in holders[t]

IInv == TypeOK /\ HeldExist /\ AppliedCarries

-----------------------------------------------------------------------------
(* The finalizers that a release (ensureTopology, reconcileDelete) leaves  *)
(* on the Topologies: a subset of those before, with all those of others.  *)
LEMMA ReleaseOwn ==
  ASSUME NEW h \in HoldersType, NEW t, NEW s \in Services, NEW name
  PROVE  /\ Released(h, t, <<s, name>>) \in HoldersType
         /\ \A u \in Topologies : Released(h, t, <<s, name>>)[u] \subseteq h[u]
         /\ \A u \in Topologies, r \in Services :
              r # s /\ <<r, "crName">> \in h[u]
                => <<r, "crName">> \in Released(h, t, <<s, name>>)[u]
  BY DEF Released, HoldersType

(* The same for the release at the start of ensureTopology.                *)
LEMMA LetGoOwn ==
  ASSUME TypeOK, NEW s \in Services
  PROVE  /\ LetGo(s) \in HoldersType
         /\ \A u \in Topologies : LetGo(s)[u] \subseteq holders[u]
         /\ \A u \in Topologies, r \in Services :
              r # s /\ <<r, "crName">> \in holders[u] => <<r, "crName">> \in LetGo(s)[u]
<1>1. holders \in HoldersType
  BY DEF TypeOK, HoldersType
<1>2. CASE applied[s] = ref[s]
  BY <1>1, <1>2 DEF LetGo
<1>3. CASE applied[s] # ref[s]
  <2>1. LetGo(s) = Released(holders, applied[s], <<s, "crName">>)
    BY <1>3 DEF LetGo
  <2>2. QED
    BY <1>1, <2>1, ReleaseOwn
<1>4. QED
  BY <1>2, <1>3

(* After ensureTopology, only the Topology referred to can have gained a   *)
(* finalizer, it has that of the service, and the others keep theirs.      *)
LEMMA ClaimOwn ==
  ASSUME TypeOK, NEW s \in Services
  PROVE  /\ HoldersAfter(s) \in HoldersType
         /\ \A u \in Topologies : u # ref[s] => HoldersAfter(s)[u] \subseteq holders[u]
         /\ ref[s] \in Topologies => <<s, "crName">> \in HoldersAfter(s)[ref[s]]
         /\ \A u \in Topologies, r \in Services :
              r # s /\ <<r, "crName">> \in holders[u]
                => <<r, "crName">> \in HoldersAfter(s)[u]
<1>1. LetGo(s) \in HoldersType
  BY LetGoOwn
<1>2. <<s, "crName">> \in Finalizer
  BY DEF Finalizer
<1>3. HoldersAfter(s) \in HoldersType
  BY <1>1, <1>2 DEF HoldersAfter, Claimed, HoldersType
<1>4. \A u \in Topologies : u # ref[s] => HoldersAfter(s)[u] = LetGo(s)[u]
  BY <1>1 DEF HoldersAfter, Claimed, HoldersType
<1>5. ref[s] \in Topologies => <<s, "crName">> \in HoldersAfter(s)[ref[s]]
  BY <1>1 DEF HoldersAfter, Claimed, HoldersType
<1>6. \A u \in Topologies : LetGo(s)[u] \subseteq HoldersAfter(s)[u]
  BY <1>1 DEF HoldersAfter, Claimed, HoldersType
<1>7. QED
  BY <1>3, <1>4, <1>5, <1>6, LetGoOwn

(* Writing finalizers keeps the types.                                     *)
LEMMA SetHoldersType ==
  ASSUME TypeOK, NEW h \in HoldersType, SetHolders(h)
  PROVE  /\ topology' \in [Topologies -> {"absent", "present", "terminating"}]
         /\ holders' \in HoldersType
  BY DEF SetHolders, TypeOK, HoldersType

(* A Topology disappears only with its last finalizer, so that claimed     *)
(* ones exist as long as only existing ones gain a claim.                  *)
LEMMA SetHoldersExist ==
  ASSUME TypeOK, HeldExist, NEW h \in HoldersType, SetHolders(h),
         \A t \in Topologies : topology[t] = "absent" => h[t] \subseteq holders[t]
  PROVE  HeldExist'
<1>1. holders' = h
  BY DEF SetHolders
<1>2. SUFFICES ASSUME NEW t \in Topologies, h[t] # {}
               PROVE  topology'[t] # "absent"
  BY <1>1 DEF HeldExist
<1>3. topology[t] # "absent"
  BY <1>2 DEF HeldExist
<1>4. topology'[t] = topology[t]
  BY <1>2 DEF SetHolders
<1>5. QED
  BY <1>3, <1>4

-----------------------------------------------------------------------------
(* The initial states satisfy the invariant: no finalizer, no sub-CR.      *)
LEMMA InitIInv == Init => IInv
<1> SUFFICES ASSUME Init PROVE IInv
  OBVIOUS
<1>1. TypeOK
  <2>1. 0 \in 0..MaxEdits /\ 0 \in 0..MaxFaults
    BY BoundsAssumption
  <2>2. QED
    BY <2>1 DEF Init, TypeOK, Refs
<1>2. HeldExist
  BY DEF Init, HeldExist
<1>3. AppliedCarries
  BY DEF Init, AppliedCarries
<1>4. QED
  BY <1>1, <1>2, <1>3 DEF IInv

(* Every step keeps the types.                                             *)
LEMMA StepType == TypeOK /\ [Next]_vars => TypeOK'
<1> SUFFICES ASSUME TypeOK, [Next]_vars PROVE TypeOK'
  OBVIOUS
<1> USE DEF HoldersType
<1>1. faults < MaxFaults => faults + 1 \in 0..MaxFaults
  BY BoundsAssumption DEF TypeOK
<1>2. edits < MaxEdits => edits + 1 \in 0..MaxEdits
  BY BoundsAssumption DEF TypeOK
<1>3. CASE EditSpec
  BY <1>2, <1>3 DEF EditSpec, TypeOK, specVars
<1>4. ASSUME NEW s \in Services, ManilaController(s) PROVE TypeOK'
  BY <1>4 DEF ManilaController, Deploy, Remove, TypeOK, specVars
<1>5. ASSUME NEW s \in Services, ServiceInit(s) PROVE TypeOK'
  BY <1>5 DEF ServiceInit, TypeOK, specVars
<1>6. ASSUME NEW s \in Services, ServiceReconcile(s) PROVE TypeOK'
  <2>1. HoldersAfter(s) \in HoldersType
    BY ClaimOwn
  <2>2. SetHolders(HoldersAfter(s))
    BY <1>6 DEF ServiceReconcile
  <2>3. QED
    BY <1>6, <2>1, <2>2, SetHoldersType DEF ServiceReconcile, TypeOK, specVars
<1>7. ASSUME NEW s \in Services, MissingTopology(s) PROVE TypeOK'
  <2>1. LetGo(s) \in HoldersType
    BY LetGoOwn
  <2>2. SetHolders(LetGo(s))
    BY <1>7 DEF MissingTopology
  <2>3. QED
    BY <1>7, <2>1, <2>2, SetHoldersType DEF MissingTopology, TypeOK, specVars
<1>8. ASSUME NEW s \in Services, ServiceDelete(s) PROVE TypeOK'
  <2>1. HoldersAfterDelete(s) \in HoldersType
    BY ReleaseOwn DEF HoldersAfterDelete, TypeOK
  <2>2. SetHolders(HoldersAfterDelete(s))
    BY <1>8 DEF ServiceDelete
  <2>3. QED
    BY <1>8, <2>1, <2>2, SetHoldersType DEF ServiceDelete, Forget, TypeOK, Refs, specVars
<1>9. ASSUME NEW s \in Services, ServiceGone(s) PROVE TypeOK'
  BY <1>9 DEF ServiceGone, TypeOK, specVars
<1>10. ASSUME NEW s \in Services, ReconcileFault(s) PROVE TypeOK'
  <2>1. PICK h \in HoldersType : SetHolders(h)
    BY <1>10, LetGoOwn, ClaimOwn DEF ReconcileFault
  <2>2. applied' \in [Services -> Refs]
    BY <1>10 DEF ReconcileFault, TypeOK
  <2>3. QED
    BY <1>1, <1>10, <2>1, <2>2, SetHoldersType DEF ReconcileFault, TypeOK, specVars
<1>11. ASSUME NEW s \in Services, DeleteFault(s) PROVE TypeOK'
  <2>1. CASE s \in APIs
    <3>1. HoldersAfterDelete(s) \in HoldersType
      BY ReleaseOwn DEF HoldersAfterDelete, TypeOK
    <3>2. SetHolders(HoldersAfterDelete(s))
      BY <1>11, <2>1 DEF DeleteFault
    <3>3. QED
      BY <1>1, <1>11, <2>1, <3>1, <3>2, SetHoldersType DEF DeleteFault, TypeOK, specVars
  <2>2. CASE s \notin APIs
    BY <1>1, <1>11, <2>2 DEF DeleteFault, Forget, TypeOK, Refs, specVars
  <2>3. QED
    BY <2>1, <2>2
<1>12. ASSUME NEW t \in Topologies, CreateTopology(t) \/ DeleteTopology(t) PROVE TypeOK'
  BY <1>12 DEF CreateTopology, DeleteTopology, Users, TypeOK, specVars
<1>13. CASE UNCHANGED vars
  BY <1>13 DEF vars, TypeOK, specVars
<1>14. QED
  BY <1>3, <1>4, <1>5, <1>6, <1>7, <1>8, <1>9, <1>10, <1>11, <1>12, <1>13
     DEF Next, ServiceController

(* A step that claims only what exists keeps HeldExist.                    *)
LEMMA StepExist == TypeOK /\ HeldExist /\ [Next]_vars => HeldExist'
<1> SUFFICES ASSUME TypeOK, HeldExist, [Next]_vars PROVE HeldExist'
  OBVIOUS
<1>1. ASSUME NEW s \in Services, SetHolders(LetGo(s)) PROVE HeldExist'
  BY <1>1, LetGoOwn, SetHoldersExist
<1>2. ASSUME NEW s \in Services, SetHolders(HoldersAfter(s)), CanClaim(s) PROVE HeldExist'
  <2>1. ASSUME NEW t \in Topologies, topology[t] = "absent"
        PROVE  HoldersAfter(s)[t] \subseteq holders[t]
    <3>1. t # ref[s]
      BY <1>2, <2>1 DEF CanClaim, Claimable, None, Topologies
    <3>2. QED
      BY <3>1, ClaimOwn
  <2>2. QED
    BY <1>2, <2>1, ClaimOwn, SetHoldersExist
<1>3. ASSUME NEW s \in Services, SetHolders(HoldersAfterDelete(s)) PROVE HeldExist'
  <2>1. holders \in HoldersType
    BY DEF TypeOK, HoldersType
  <2>2. QED
    BY <1>3, <2>1, ReleaseOwn, SetHoldersExist DEF HoldersAfterDelete
<1>4. ASSUME UNCHANGED <<topology, holders>> PROVE HeldExist'
  BY <1>4 DEF HeldExist
<1>5. ASSUME NEW t \in Topologies, CreateTopology(t) \/ DeleteTopology(t) PROVE HeldExist'
  BY <1>5 DEF CreateTopology, DeleteTopology, HeldExist, TypeOK
<1>6. ASSUME NEW s \in Services, ServiceController(s) PROVE HeldExist'
  BY <1>1, <1>2, <1>3, <1>4, <1>6
     DEF ServiceController, ServiceInit, ServiceReconcile, MissingTopology, ServiceDelete,
         ServiceGone
<1>7. ASSUME NEW s \in Services, ReconcileFault(s) \/ DeleteFault(s) PROVE HeldExist'
  BY <1>1, <1>2, <1>3, <1>4, <1>7 DEF ReconcileFault, DeleteFault
<1>8. ASSUME NEW s \in Services, ManilaController(s) PROVE HeldExist'
  BY <1>4, <1>8 DEF ManilaController, Deploy, Remove
<1>9. CASE EditSpec
  BY <1>4, <1>9 DEF EditSpec
<1>10. CASE UNCHANGED vars
  BY <1>4, <1>10 DEF vars
<1>11. QED
  BY <1>5, <1>6, <1>7, <1>8, <1>9, <1>10 DEF Next

(* A service that has left the queue carries its claim: it leaves with it, *)
(* and only its own steps take it off, which happen while it is queued.    *)
LEMMA StepCarries == TypeOK /\ AppliedCarries /\ [Next]_vars => AppliedCarries'
<1> SUFFICES ASSUME TypeOK, AppliedCarries, [Next]_vars PROVE AppliedCarries'
  OBVIOUS
<1> DEFINE Keeps(s) ==
      \A r \in Services : \A t \in Topologies :
        r # s /\ <<r, "crName">> \in holders[t] => <<r, "crName">> \in holders'[t]
    OthersSame(s) ==
      \A r \in Services : r # s => /\ life'[r] = life[r] /\ applied'[r] = applied[r]
                                   /\ r \notin queue' => r \notin queue
    Own(s) ==
      \A t \in Topologies : life'[s] = "live" /\ applied'[s] = t /\ s \notin queue'
                              => <<s, "crName">> \in holders'[t]
<1>1. ASSUME NEW s \in Services, Keeps(s), OthersSame(s), Own(s) PROVE AppliedCarries'
  BY <1>1 DEF AppliedCarries
<1>2. ASSUME NEW s \in Services, SetHolders(LetGo(s)) PROVE Keeps(s)
  BY <1>2, LetGoOwn DEF SetHolders
<1>3. ASSUME NEW s \in Services, SetHolders(HoldersAfter(s)) PROVE Keeps(s)
  BY <1>3, ClaimOwn DEF SetHolders
<1>4. ASSUME NEW s \in Services, SetHolders(HoldersAfterDelete(s)) PROVE Keeps(s)
  <2>1. holders \in HoldersType
    BY DEF TypeOK, HoldersType
  <2>2. QED
    BY <1>4, <2>1, ReleaseOwn DEF SetHolders, HoldersAfterDelete
<1>5. ASSUME NEW s \in Services, UNCHANGED holders PROVE Keeps(s)
  BY <1>5
<1>6. ASSUME NEW s \in Services, ManilaController(s) PROVE AppliedCarries'
  <2>1. OthersSame(s) /\ Own(s)
    BY <1>6 DEF ManilaController, Deploy, Remove, TypeOK
  <2>2. QED
    BY <1>1, <1>5, <1>6, <2>1 DEF ManilaController, Deploy, Remove
<1>7. ASSUME NEW s \in Services, ServiceInit(s) PROVE AppliedCarries'
  <2>1. OthersSame(s) /\ Own(s)
    BY <1>7 DEF ServiceInit, TypeOK
  <2>2. QED
    BY <1>1, <1>5, <1>7, <2>1 DEF ServiceInit
<1>8. ASSUME NEW s \in Services, ServiceReconcile(s) PROVE AppliedCarries'
  <2>1. OthersSame(s)
    BY <1>8 DEF ServiceReconcile, TypeOK
  <2>2. Own(s)
    BY <1>8, ClaimOwn DEF ServiceReconcile, SetHolders, TypeOK
  <2>3. QED
    BY <1>1, <1>3, <1>8, <2>1, <2>2 DEF ServiceReconcile
<1>9. ASSUME NEW s \in Services, MissingTopology(s) PROVE AppliedCarries'
  <2>1. OthersSame(s) /\ Own(s)
    BY <1>9 DEF MissingTopology
  <2>2. QED
    BY <1>1, <1>2, <1>9, <2>1 DEF MissingTopology
<1>10. ASSUME NEW s \in Services, ServiceDelete(s) PROVE AppliedCarries'
  <2>1. OthersSame(s) /\ Own(s)
    BY <1>10 DEF ServiceDelete, Forget, TypeOK
  <2>2. QED
    BY <1>1, <1>4, <1>10, <2>1 DEF ServiceDelete
<1>11. ASSUME NEW s \in Services, ServiceGone(s) PROVE AppliedCarries'
  <2>1. OthersSame(s) /\ Own(s)
    BY <1>11 DEF ServiceGone
  <2>2. QED
    BY <1>1, <1>5, <1>11, <2>1 DEF ServiceGone
<1>12. ASSUME NEW s \in Services, ReconcileFault(s) PROVE AppliedCarries'
  <2>1. OthersSame(s) /\ Own(s)
    BY <1>12 DEF ReconcileFault, TypeOK
  <2>2. Keeps(s)
    BY <1>2, <1>3, <1>12 DEF ReconcileFault
  <2>3. QED
    BY <1>1, <2>1, <2>2
<1>13. ASSUME NEW s \in Services, DeleteFault(s) PROVE AppliedCarries'
  <2>1. OthersSame(s) /\ Own(s)
    BY <1>13 DEF DeleteFault, Forget, TypeOK
  <2>2. Keeps(s)
    BY <1>4, <1>5, <1>13 DEF DeleteFault
  <2>3. QED
    BY <1>1, <2>1, <2>2
<1>14. ASSUME NEW t \in Topologies, CreateTopology(t) \/ DeleteTopology(t)
       PROVE  AppliedCarries'
  BY <1>14 DEF CreateTopology, DeleteTopology, AppliedCarries
<1>15. CASE EditSpec \/ UNCHANGED vars
  BY <1>15 DEF EditSpec, vars, AppliedCarries
<1>16. QED
  BY <1>6, <1>7, <1>8, <1>9, <1>10, <1>11, <1>12, <1>13, <1>14, <1>15
     DEF Next, ServiceController

-----------------------------------------------------------------------------
(* Type correctness.                                                       *)
THEOREM TypeCorrect == Spec => []TypeOK
<1>1. Init => TypeOK
  BY InitIInv DEF IInv
<1>2. QED
  BY <1>1, StepType, PTL DEF Spec

(* The inductive invariant.                                                *)
THEOREM Invariance == Spec => []IInv
<1>1. IInv /\ [Next]_vars => IInv'
  BY StepType, StepExist, StepCarries DEF IInv
<1>2. QED
  BY <1>1, InitIInv, PTL DEF Spec

(* A Topology that a service has applied carries its finalizer and exists  *)
(* (ensureTopology), whatever the edits, faults and missing Topologies.    *)
THEOREM AppliedStaysHeld == Spec => []AppliedIsHeld
<1>1. IInv => AppliedIsHeld
  BY DEF IInv, HeldExist, AppliedCarries, AppliedIsHeld
<1>2. QED
  BY <1>1, Invariance, PTL

-----------------------------------------------------------------------------
(***************************************************************************)
(* What is left behind.  A service only claims what its spec refers to and *)
(* only lets go of what its status says it applied, so that it must never  *)
(* have more claims than these two.                                        *)
(***************************************************************************)

(* The Topologies that carry the finalizer of a service.                   *)
Claims(s) == {t \in Topologies : <<s, "crName">> \in holders[t]}

(* A service that is not queued has applied what its spec refers to; one   *)
(* without a status has applied nothing.                                   *)
QueueTells ==
  \A s \in Services :
    /\ life[s] \in {"none", "new"} => applied[s] = None
    /\ s \notin queue => life[s] = "none" \/ (life[s] = "live" /\ applied[s] = ref[s])

(* While no call fails, the status tells all claims.                       *)
ClaimsAreApplied == faults = 0 => \A s \in Services \ Shares : Claims(s) \subseteq {applied[s]}

(* While every edit waits for the last one to settle, the spec and the     *)
(* status together tell all claims of a ManilaAPI, and they differ only    *)
(* while it moves on to the Topology that the Manila spec gives it.        *)
ClaimsAreNamed ==
  ~hasty => \A s \in APIs :
    /\ Claims(s) \subseteq {applied[s], ref[s]}
    /\ applied[s] # ref[s]
         => life[s] \in {"new", "live"} /\ s \in wanted /\ ref[s] = specRef[s]
    /\ life[s] = "deleting" => s \notin wanted

ClaimsKnown == QueueTells /\ ClaimsAreApplied /\ ClaimsAreNamed

(* The steps that are about one service.                                   *)
About(s) ==
  ManilaController(s) \/ ServiceController(s) \/ ReconcileFault(s) \/ DeleteFault(s)

(* What a service's own writes leave of its claims.                        *)
LEMMA OwnWrites ==
  ASSUME TypeOK, NEW s \in Services
  PROVE  /\ SetHolders(LetGo(s)) => Claims(s)' \subseteq Claims(s)
         /\ SetHolders(HoldersAfter(s)) =>
              Claims(s)' \subseteq (Claims(s) \ {applied[s]}) \cup {ref[s]}
         /\ SetHolders(HoldersAfterDelete(s)) /\ s \notin Shares =>
              Claims(s)' \subseteq Claims(s) \ {applied[s]}
<1>1. holders \in HoldersType
  BY DEF TypeOK, HoldersType
<1>2. \A u \in Topologies :
        /\ <<s, "crName">> \in LetGo(s)[u] => <<s, "crName">> \in holders[u]
        /\ u = applied[s] /\ applied[s] # ref[s] => <<s, "crName">> \notin LetGo(s)[u]
  BY <1>1 DEF LetGo, Released, HoldersType
<1>3. \A u \in Topologies :
        u # ref[s] /\ <<s, "crName">> \in HoldersAfter(s)[u] => <<s, "crName">> \in LetGo(s)[u]
  BY DEF HoldersAfter, Claimed
<1>4. s \notin Shares =>
        \A u \in Topologies : <<s, "crName">> \in HoldersAfterDelete(s)[u] =>
          u # applied[s] /\ <<s, "crName">> \in holders[u]
  BY <1>1 DEF HoldersAfterDelete, NameOnDelete, Released, HoldersType
<1> QED
  BY <1>2, <1>3, <1>4 DEF SetHolders, Claims

(* They leave the claims of the others alone.                              *)
LEMMA OthersClaims ==
  ASSUME TypeOK, NEW s \in Services, NEW r \in Services, r # s,
         \/ SetHolders(LetGo(r)) \/ SetHolders(HoldersAfter(r))
         \/ SetHolders(HoldersAfterDelete(r)) \/ UNCHANGED holders
  PROVE  Claims(s)' \subseteq Claims(s)
<1>1. holders \in HoldersType
  BY DEF TypeOK, HoldersType
<1>2. \A u \in Topologies : /\ LetGo(r)[u] \subseteq holders[u]
                            /\ HoldersAfterDelete(r)[u] \subseteq holders[u]
  BY <1>1, LetGoOwn, ReleaseOwn DEF HoldersAfterDelete
<1>3. \A u \in Topologies : HoldersAfter(r)[u] \subseteq holders[u] \cup {<<r, "crName">>}
  BY <1>2 DEF HoldersAfter, Claimed
<1> QED
  BY <1>2, <1>3 DEF SetHolders, Claims

(* A step that is not about a service changes nothing of it, and does not  *)
(* take it out of the queue.                                               *)
LEMMA OthersStep ==
  ASSUME TypeOK, [Next]_vars, NEW s \in Services, ~About(s)
  PROVE  /\ life'[s] = life[s] /\ ref'[s] = ref[s] /\ applied'[s] = applied[s]
         /\ Claims(s)' \subseteq Claims(s)
         /\ s \notin queue' => s \notin queue
         /\ faults' = 0 => faults = 0
         /\ EditSpec \/ UNCHANGED specVars
<1> DEFINE Same == /\ life'[s] = life[s] /\ ref'[s] = ref[s] /\ applied'[s] = applied[s]
                   /\ s \notin queue' => s \notin queue
                   /\ faults' = 0 => faults = 0
<1>0. faults \in Nat
  BY BoundsAssumption DEF TypeOK
<1>1. CASE EditSpec
  BY <1>1 DEF EditSpec, Claims
<1>2. ASSUME NEW r \in Services, r # s, ManilaController(r)
      PROVE  Same /\ Claims(s)' \subseteq Claims(s) /\ UNCHANGED specVars
  BY <1>2 DEF ManilaController, Deploy, Remove, TypeOK, Claims
<1>3. ASSUME NEW r \in Services, r # s, ServiceController(r)
      PROVE  Same /\ Claims(s)' \subseteq Claims(s) /\ UNCHANGED specVars
  <2>1. Same /\ UNCHANGED specVars
    BY <1>3 DEF ServiceController, ServiceInit, ServiceReconcile, MissingTopology, ServiceDelete,
       Forget, ServiceGone, TypeOK
  <2>2. \/ SetHolders(LetGo(r)) \/ SetHolders(HoldersAfter(r))
        \/ SetHolders(HoldersAfterDelete(r)) \/ UNCHANGED holders
    BY <1>3 DEF ServiceController, ServiceInit, ServiceReconcile, MissingTopology, ServiceDelete,
       ServiceGone
  <2> QED
    BY <1>3, <2>1, <2>2, OthersClaims
<1>4. ASSUME NEW r \in Services, r # s, ReconcileFault(r) \/ DeleteFault(r)
      PROVE  Same /\ Claims(s)' \subseteq Claims(s) /\ UNCHANGED specVars
  <2>1. Same /\ UNCHANGED specVars
    BY <1>0, <1>4 DEF ReconcileFault, DeleteFault, Forget, TypeOK
  <2>2. \/ SetHolders(LetGo(r)) \/ SetHolders(HoldersAfter(r))
        \/ SetHolders(HoldersAfterDelete(r)) \/ UNCHANGED holders
    BY <1>4 DEF ReconcileFault, DeleteFault
  <2> QED
    BY <1>4, <2>1, <2>2, OthersClaims
<1>5. CASE \E t \in Topologies : CreateTopology(t) \/ DeleteTopology(t)
  BY <1>5 DEF CreateTopology, DeleteTopology, Claims
<1>6. CASE UNCHANGED vars
  BY <1>6 DEF vars, Claims
<1> QED
  BY <1>1, <1>2, <1>3, <1>4, <1>5, <1>6 DEF Next, About

(* The steps about a service, by what they do to its claims: none adds one *)
(* but ensureTopology, which lets go of the one applied before.            *)
LEMMA OwnStep ==
  ASSUME TypeOK, [Next]_vars, NEW s \in Services, s \notin Shares, About(s)
  PROVE  /\ UNCHANGED specVars
         /\ \/ ManilaController(s)
            \/ /\ Claims(s)' \subseteq Claims(s)
               /\ ref'[s] = ref[s] /\ applied'[s] = applied[s] /\ (faults' = 0 => faults = 0)
               /\ life'[s] = life[s] \/ (life[s] = "new" /\ life'[s] = "live")
            \/ /\ Claims(s)' \subseteq (Claims(s) \ {applied[s]}) \cup {ref[s]}
               /\ life'[s] = life[s] /\ ref'[s] = ref[s]
               /\ applied'[s] = ref[s] \/ (applied'[s] = applied[s] /\ faults' # 0)
               /\ faults' = 0 => faults = 0
            \/ /\ Claims(s)' \subseteq Claims(s) \ {applied[s]}
               /\ life[s] = "deleting" /\ life'[s] = "none"
               /\ ref'[s] = None /\ applied'[s] = None /\ (faults' = 0 => faults = 0)
            \/ s \notin APIs /\ faults' # 0
<1>0. faults \in Nat
  BY BoundsAssumption DEF TypeOK
<1>1. CASE ManilaController(s)
  BY <1>1 DEF ManilaController, Deploy, Remove
<1>2. CASE ServiceInit(s) \/ ServiceGone(s)
  BY <1>2 DEF ServiceInit, ServiceGone, TypeOK, Claims
<1>3. CASE MissingTopology(s)
  BY <1>3, OwnWrites DEF MissingTopology
<1>4. CASE ServiceReconcile(s)
  BY <1>4, OwnWrites DEF ServiceReconcile, TypeOK
<1>5. CASE ServiceDelete(s)
  BY <1>5, OwnWrites DEF ServiceDelete, Forget, TypeOK
<1>6. CASE ReconcileFault(s)
  <2>1. /\ UNCHANGED <<specVars, life, ref>> /\ faults' # 0
        /\ \/ Claims(s)' \subseteq Claims(s) /\ applied' = applied
           \/ /\ Claims(s)' \subseteq (Claims(s) \ {applied[s]}) \cup {ref[s]}
              /\ applied'[s] \in {applied[s], ref[s]}
    BY <1>0, <1>6, OwnWrites DEF ReconcileFault, TypeOK
  <2> QED
    BY <2>1
<1>7. CASE DeleteFault(s)
  <2>1. UNCHANGED specVars /\ faults' # 0
    BY <1>0, <1>7 DEF DeleteFault
  <2>2. s \in APIs => /\ Claims(s)' \subseteq Claims(s) /\ UNCHANGED <<life, ref, applied>>
    BY <1>7, OwnWrites DEF DeleteFault
  <2> QED
    BY <2>1, <2>2
<1> QED
  BY <1>1, <1>2, <1>3, <1>4, <1>5, <1>6, <1>7 DEF About, ServiceController

(* A service leaves the queue when it has applied what it refers to, or is *)
(* gone.                                                                   *)
LEMMA QueueStep ==
  ASSUME TypeOK, QueueTells, [Next]_vars
  PROVE  QueueTells'
<1> SUFFICES ASSUME NEW s \in Services
             PROVE  /\ life'[s] \in {"none", "new"} => applied'[s] = None
                    /\ s \notin queue' => \/ life'[s] = "none"
                                          \/ life'[s] = "live" /\ applied'[s] = ref'[s]
  BY DEF QueueTells
<1>1. CASE ~About(s)
  BY <1>1, OthersStep DEF QueueTells
<1>2. CASE ManilaController(s)
  BY <1>2 DEF ManilaController, Deploy, Remove, TypeOK, QueueTells
<1>3. CASE ServiceController(s)
  BY <1>3 DEF ServiceController, ServiceInit, ServiceReconcile, MissingTopology, ServiceDelete,
     Forget, ServiceGone, TypeOK, QueueTells
<1>4. CASE ReconcileFault(s) \/ DeleteFault(s)
  BY <1>4 DEF ReconcileFault, DeleteFault, Forget, TypeOK, QueueTells
<1> QED
  BY <1>1, <1>2, <1>3, <1>4 DEF About

(* Without a failure the status is stored with every claim.                *)
LEMMA AppliedStep ==
  ASSUME TypeOK, ClaimsAreApplied, [Next]_vars
  PROVE  ClaimsAreApplied'
<1> SUFFICES ASSUME faults' = 0, NEW s \in Services \ Shares
             PROVE  Claims(s)' \subseteq {applied'[s]}
  BY DEF ClaimsAreApplied
<1>1. CASE ~About(s)
  BY <1>1, OthersStep DEF ClaimsAreApplied
<1>2. CASE ManilaController(s)
  BY <1>2 DEF ManilaController, Deploy, Remove, Claims, ClaimsAreApplied
<1>3. CASE About(s) /\ ~ManilaController(s)
  BY <1>3, OwnStep DEF ClaimsAreApplied
<1> QED
  BY <1>1, <1>2, <1>3

(* At rest, a service refers to what the Manila spec gives it and has      *)
(* applied it.                                                             *)
LEMMA RestingService ==
  ASSUME QueueTells, ClaimsAreNamed, AtRest, ~hasty, NEW s \in APIs
  PROVE  applied[s] = ref[s] /\ life[s] # "deleting"
<1>1. s \in Services /\ s \notin queue
  BY DEF Services, AtRest
<1>2. life[s] = "none" \/ (life[s] = "live" /\ applied[s] = ref[s])
  BY <1>1 DEF QueueTells
<1> QED
  BY <1>2 DEF ClaimsAreNamed

(* A failure leaves the old claim or the new one, and the next edit waits  *)
(* until Reconcile has been repeated.                                      *)
LEMMA NamedStep ==
  ASSUME TypeOK, QueueTells, ClaimsAreNamed, [Next]_vars
  PROVE  ClaimsAreNamed'
<1> SUFFICES ASSUME ~hasty', NEW s \in APIs
             PROVE  /\ Claims(s)' \subseteq {applied'[s], ref'[s]}
                    /\ applied'[s] # ref'[s] =>
                         life'[s] \in {"new", "live"} /\ s \in wanted' /\ ref'[s] = specRef'[s]
                    /\ life'[s] = "deleting" => s \notin wanted'
  BY DEF ClaimsAreNamed
<1>0. s \in Services /\ s \notin Shares
  BY KindsAssumption DEF Services
<1>1. CASE EditSpec
  <2>1. ~hasty /\ AtRest /\ UNCHANGED <<holders, life, ref, applied>>
    BY <1>1 DEF EditSpec
  <2>2. applied[s] = ref[s] /\ life[s] # "deleting" /\ Claims(s) \subseteq {applied[s], ref[s]}
    BY <2>1, RestingService DEF ClaimsAreNamed
  <2> QED
    BY <2>1, <2>2 DEF Claims
<1>2. CASE ~EditSpec
  <2>1. ~hasty /\ UNCHANGED <<wanted, specRef>>
    <3>1. UNCHANGED specVars
      BY <1>0, <1>2, OthersStep, OwnStep
    <3> QED
      BY <3>1 DEF specVars
  <2>2. /\ Claims(s) \subseteq {applied[s], ref[s]}
        /\ applied[s] # ref[s]
             => life[s] \in {"new", "live"} /\ s \in wanted /\ ref[s] = specRef[s]
        /\ life[s] = "deleting" => s \notin wanted
    BY <2>1 DEF ClaimsAreNamed
  <2>3. CASE ~About(s)
    BY <1>0, <2>1, <2>2, <2>3, OthersStep
  <2>4. CASE Deploy(s)
    <3>1. s \in wanted /\ applied[s] = ref[s]
      BY <2>2, <2>4 DEF Deploy
    <3>2. /\ UNCHANGED <<holders, applied>> /\ ref'[s] = specRef[s]
          /\ life'[s] \in {"new", life[s]}
      BY <1>0, <2>4 DEF Deploy, TypeOK
    <3>3. life[s] \in {"none", "new", "live", "deleting"} /\ life[s] # "deleting"
      BY <1>0, <2>2, <3>1 DEF TypeOK
    <3>4. life'[s] # "none"
      BY <1>0, <2>4 DEF Deploy, TypeOK
    <3> QED
      BY <2>1, <2>2, <3>1, <3>2, <3>3, <3>4 DEF Claims
  <2>5. CASE Remove(s)
    <3>1. s \notin wanted /\ UNCHANGED <<holders, applied, ref>>
      BY <2>5 DEF Remove
    <3> QED
      BY <2>1, <2>2, <3>1 DEF Claims
  <2>6. CASE About(s) /\ ~ManilaController(s)
    BY <1>0, <2>1, <2>2, <2>6, OwnStep
  <2> QED
    BY <2>3, <2>4, <2>5, <2>6 DEF ManilaController
<1> QED
  BY <1>1, <1>2

(* At the start there is nothing to tell.                                  *)
LEMMA InitClaimsKnown == Init => ClaimsKnown
<1> SUFFICES ASSUME Init PROVE ClaimsKnown
  OBVIOUS
<1>1. \A s \in Services : /\ Claims(s) = {} /\ life[s] = "none"
                          /\ applied[s] = None /\ ref[s] = None
  BY DEF Init, Claims
<1>2. APIs \subseteq Services
  BY DEF Services
<1> QED
  BY <1>1, <1>2 DEF ClaimsKnown, QueueTells, ClaimsAreApplied, ClaimsAreNamed

(* Every claim stays known, one way or the other.                          *)
THEOREM ClaimsStayKnown == Spec => []ClaimsKnown
<1>1. TypeOK /\ ClaimsKnown /\ [Next]_vars => ClaimsKnown'
  BY QueueStep, AppliedStep, NamedStep DEF ClaimsKnown
<1> QED
  BY <1>1, InitClaimsKnown, TypeCorrect, PTL DEF Spec

(* At rest, a ManilaAPI or a ManilaScheduler holds on to nothing that it   *)
(* does not refer to, unless it is excused.                                *)
LEMMA ClaimedAtRest ==
  ASSUME TypeOK, ClaimsKnown, AtRest, NEW s \in Services \ Shares, NEW t \in Claims(s)
  PROVE  Excused(s) \/ (s \in wanted /\ specRef[s] = t)
<1> SUFFICES ASSUME ~Excused(s) PROVE s \in wanted /\ specRef[s] = t
  OBVIOUS
<1>1. t \in Topologies /\ t # None
  BY BoundsAssumption DEF Claims, Topologies, None
<1>2. /\ life[s] \in {"none", "new"} => applied[s] = None
      /\ life[s] = "none" \/ (life[s] = "live" /\ applied[s] = ref[s])
  BY DEF ClaimsKnown, QueueTells, AtRest
<1>3. t = applied[s]
  <2>0. faults \in Nat
    BY BoundsAssumption DEF TypeOK
  <2>1. CASE faults = 0
    BY <2>1 DEF ClaimsKnown, ClaimsAreApplied
  <2>2. CASE ~hasty /\ s \in APIs
    BY <2>2, RestingService DEF ClaimsKnown, ClaimsAreNamed
  <2> QED
    BY <2>0, <2>1, <2>2 DEF Excused
<1>4. life[s] = "live" /\ ref[s] = t
  BY <1>1, <1>2, <1>3
<1> QED
  BY <1>4 DEF AtRest

(* When everything has come to rest, a Topology carries finalizers of      *)
(* those services only that refer to it; of a share any.                   *)
SharesAside ==
  AtRest => \A s \in Services \ Shares : \A t \in Claims(s) :
              Excused(s) \/ (s \in wanted /\ specRef[s] = t)

(* A ManilaAPI or ManilaScheduler leaves no finalizer behind, whatever     *)
(* edits overtake one another and however the shares come and go, and a    *)
(* ManilaAPI not when calls fail, either (ensureTopology, reconcileDelete).*)
THEOREM OnlySharesLeaveClaims == Spec => []SharesAside
<1>1. TypeOK /\ ClaimsKnown => SharesAside
  BY ClaimedAtRest DEF SharesAside
<1> QED
  BY <1>1, TypeCorrect, ClaimsStayKnown, PTL

(* So nothing is left behind where there are no shares, whose deletion     *)
(* looks for a finalizer of another name (NameOnDelete).                   *)
THEOREM NothingLeftBehind ==
  ASSUME Shares = {}
  PROVE  Spec => []NoneLeftBehind
<1>1. TypeOK /\ SharesAside => NoneLeftBehind
  <2> SUFFICES ASSUME TypeOK, SharesAside, AtRest, NEW t \in Topologies, NEW h \in holders[t]
               PROVE  Excused(h[1]) \/ (h[1] \in wanted /\ specRef[h[1]] = t)
    BY DEF NoneLeftBehind
  <2>1. h \in Finalizer
    BY DEF TypeOK
  <2>2. PICK s \in Services : h = <<s, "crName">>
    BY <2>1 DEF Finalizer
  <2>3. h[1] = s /\ t \in Claims(s) /\ s \in Services \ Shares
    BY <2>2 DEF Claims
  <2> QED
    BY <2>3 DEF SharesAside
<1> QED
  BY <1>1, TypeCorrect, OnlySharesLeaveClaims, PTL
=============================================================================
