---------------------------- MODULE ShareSet_proofs ----------------------------
(***************************************************************************)
(* Proofs about ShareSet, for any numbers of shares, edits and faults.     *)
(* CountsMatch speaks of a state in which nothing is left to do; what is   *)
(* behind it are the debts of every other state: who still has to run      *)
(* before a CR follows the spec (Followed, Awaited), before it reports     *)
(* (Reported) and before it is counted (Counted).                          *)
(***************************************************************************)
EXTENDS ShareSet, TLAPS

(* What is counted is a CR that is there to stay.                          *)
CountedLive == \A s \in counts \cup mem : cr[s] = "live"

(* The Manila CR is queued, or the last Reconcile, and the one that runs,  *)
(* saw the spec; no other CR is left, and each share it is done with has   *)
(* a CR ...                                                                *)
Followed ==
  Manila \notin queue =>
    /\ active => snap = inSpec
    /\ ~active => \A s \in Shares : cr[s] \in {"new", "live"} => s \in inSpec
    /\ \A s \in inSpec \ todo : cr[s] # "none"

(* ... whose controller has yet to begin or to end it, ...                 *)
Awaited == \A s \in Shares : cr[s] \in {"new", "deleting"} => s \in queue

(* ... or has its StatefulSet, and reports what its pods do, ...           *)
Reported ==
  \A s \in Shares : cr[s] = "live" /\ s \notin queue =>
    sts[s] = "own" /\ (s \in pods => s \in applied)

(* ... and what it reports is counted.                                     *)
Counted ==
  Manila \notin queue =>
    \A s \in (inSpec \cap applied) \ todo : cr[s] = "live" =>
      s \in IF active THEN mem ELSE counts

Faultless == CountedLive /\ Followed /\ Awaited /\ Reported /\ Counted

IInv == TypeOK /\ (~active => todo = {}) /\ (faults = 0 => Faultless)

(* The bounds are natural numbers, and Manila is not a share.              *)
LEMMA Bounds ==
  /\ NumShares \in Nat /\ MaxEdits \in Nat /\ MaxFaults \in Nat
  /\ Shares \subseteq Nat /\ Manila \notin Shares
  BY NumSharesAssumption, BoundsAssumption DEF Shares, Manila

(***************************************************************************)
(* The parts of TypeOK, by the variables they are about.                   *)
(***************************************************************************)
SetsOK ==
  /\ inSpec \subseteq Shares /\ counts \subseteq Shares /\ snap \subseteq Shares
  /\ todo \subseteq snap /\ mem \subseteq Shares
  /\ queue \subseteq Shares \cup {Manila}

ServicesOK ==
  /\ cr \in [Shares -> Life] /\ applied \subseteq Shares
  /\ sts \in [Shares -> {"none", "own", "orphan"}]
  /\ pods \subseteq Shares /\ records \subseteq Shares

FlagsOK == lost \in BOOLEAN /\ active \in BOOLEAN /\ skipped \in BOOLEAN

CountersOK == edits \in 0..MaxEdits /\ faults \in 0..MaxFaults

TypeParts == SetsOK /\ ServicesOK /\ jobs \subseteq Job /\ FlagsOK /\ CountersOK

(* They make up TypeOK.                                                    *)
LEMMA TypePartsOK == (TypeOK <=> TypeParts) /\ (TypeOK <=> TypeParts)'
  BY DEF TypeOK, TypeParts, SetsOK, ServicesOK, FlagsOK, CountersOK

(***************************************************************************)
(* The operators of the model.                                             *)
(***************************************************************************)

(* Deleting CRs: a live one in D waits for its controller, a new one goes, *)
(* all others stay as they are.                                            *)
LEMMA DeletedType ==
  ASSUME TypeOK, NEW D
  PROVE  /\ Deleted(D) \in [Shares -> Life]
         /\ \A s \in Shares : /\ s \notin D => Deleted(D)[s] = cr[s]
                              /\ Deleted(D)[s] \in {"none", "deleting", cr[s]}
                              /\ s \in D => Deleted(D)[s] \in {"none", "deleting"}
<1>1. ASSUME NEW s \in Shares
      PROVE  /\ s \notin D => Deleted(D)[s] = cr[s]
             /\ s \in D => Deleted(D)[s] \in {"none", "deleting"}
  BY DEF Deleted
<1>2. \A s \in Shares : Deleted(D)[s] \in Life
  BY <1>1 DEF TypeOK, Life
<1>3. Deleted(D) = [s \in Shares |-> Deleted(D)[s]]
  BY DEF Deleted
<1> HIDE DEF Deleted
<1> QED
  BY <1>1, <1>2, <1>3

(* What a Reconcile may start is a Job.                                    *)
LEMMA DoJobType ==
  ASSUME jobs \subseteq Job, NEW D \in SUBSET Shares
  PROVE  DoJob(D) \subseteq Job
<1>1. [name |-> D, done |-> FALSE] \in Job
  BY DEF Job
<1> QED
  BY <1>1 DEF DoJob

(* Returning leaves the controller idle.                                   *)
LEMMA ReturnType ==
  ASSUME TypeOK, NEW C \in SUBSET Shares, NEW D \in SUBSET Shares, NEW again \in BOOLEAN,
         Return(C, D, again)
  PROVE  /\ active' = FALSE /\ snap' = {} /\ todo' = {} /\ mem' = {} /\ counts' = C
         /\ queue' \subseteq Shares \cup {Manila} /\ queue \cup D \subseteq queue'
         /\ again \/ D # {} \/ C # counts => Manila \in queue'
  BY DEF TypeOK, Return

(***************************************************************************)
(* The invariant at the start.                                             *)
(***************************************************************************)
LEMMA InitInv == Init => IInv
<1> SUFFICES ASSUME Init PROVE IInv
  OBVIOUS
<1>1. SetsOK /\ FlagsOK /\ jobs \subseteq Job
  BY DEF Init, SetsOK, FlagsOK
<1>2. ServicesOK
  BY DEF Init, ServicesOK, Life
<1>3. CountersOK
  BY Bounds DEF Init, CountersOK
<1>4. /\ \A s \in Shares : cr[s] = "none"
      /\ Manila \in queue /\ counts = {} /\ mem = {} /\ todo = {}
  BY DEF Init
<1>5. Faultless
  BY <1>4 DEF Faultless, CountedLive, Followed, Awaited, Reported, Counted
<1> QED
  BY <1>1, <1>2, <1>3, <1>4, <1>5, TypePartsOK DEF IInv, TypeParts

(***************************************************************************)
(* The Manila controller.                                                  *)
(***************************************************************************)

(* Start: the Reconcile sees the spec and has every share still to do.     *)
LEMMA StartInv == ASSUME IInv, Start PROVE IInv'
<1>1. TypeParts /\ (faults = 0 => Faultless)
  BY TypePartsOK DEF IInv
<1>2. TypeParts'
  BY <1>1
     DEF Start, svcVars, jobVars, envVars, TypeParts, SetsOK, ServicesOK, FlagsOK, CountersOK
<1>3. /\ active' = TRUE /\ snap' = inSpec /\ todo' = inSpec /\ mem' = counts
      /\ queue' = queue \ {Manila}
      /\ UNCHANGED <<counts, cr, applied, sts, pods, inSpec, faults>>
  BY DEF Start, svcVars, envVars
<1>4. ASSUME faults' = 0 PROVE Faultless'
  <2>1. Faultless
    BY <1>1, <1>3, <1>4
  <2>2. CountedLive' /\ Followed' /\ Counted'
    BY <1>3, <2>1 DEF Faultless, CountedLive, Followed, Counted
  <2>3. \A s \in Shares : s \in queue' <=> s \in queue
    BY <1>3, Bounds
  <2>4. Awaited' /\ Reported'
    BY <1>3, <2>1, <2>3 DEF Faultless, Awaited, Reported
  <2> QED
    BY <2>2, <2>4 DEF Faultless
<1> QED
  BY <1>2, <1>3, <1>4, TypePartsOK DEF IInv

(* DeployShare: the share has a CR afterwards and is counted if it         *)
(* reports, or the Manila CR is queued.                                    *)
LEMMA DeployShareInv == ASSUME IInv, DeployShare PROVE IInv'
<1>1. TypeParts /\ (faults = 0 => Faultless)
  BY TypePartsOK DEF IInv
<1>2. PICK x \in todo :
        /\ active /\ active' = active
        /\ todo' = todo \ {x} /\ mem' = CountsAfter(x)
        /\ cr' = [cr EXCEPT ![x] = IF @ = "none" THEN "new" ELSE @]
        /\ queue' = IF cr[x] = "none" THEN queue \cup {x, Manila} ELSE queue
        /\ UNCHANGED <<snap, counts, applied, sts, pods, records, inSpec, faults>>
  BY DEF DeployShare, svcVars, envVars
<1>3. x \in Shares
  BY <1>1, <1>2 DEF TypeParts, SetsOK
<1>4. /\ cr' \in [Shares -> Life]
      /\ \A s \in Shares : /\ s # x \/ cr[x] # "none" => cr'[s] = cr[s]
                           /\ s = x /\ cr[x] = "none" => cr'[s] = "new"
  BY <1>1, <1>2, <1>3 DEF TypeParts, ServicesOK, Life
<1>5. /\ mem \subseteq mem' /\ mem' \subseteq mem \cup {x}
      /\ x \in mem' \/ x \in mem \/ cr[x] # "live" \/ x \notin applied
      /\ x \in mem' => x \in mem \/ cr[x] = "live"
  BY <1>2 DEF CountsAfter
<1>6. SetsOK'
  BY <1>1, <1>2, <1>3, <1>5 DEF TypeParts, SetsOK
<1>7. ServicesOK' /\ FlagsOK' /\ CountersOK' /\ jobs' \subseteq Job
  BY <1>1, <1>2, <1>4
     DEF DeployShare, svcVars, jobVars, envVars, TypeParts, ServicesOK, FlagsOK, CountersOK
<1>8. ASSUME faults' = 0 PROVE Faultless'
  <2>1. Faultless /\ mem \subseteq Shares /\ counts \subseteq Shares
        /\ inSpec \subseteq Shares
    BY <1>1, <1>2, <1>8 DEF TypeParts, SetsOK
  <2>2. \A s \in Shares : cr[s] = "live" => cr'[s] = "live"
    BY <1>4
  <2>3. CountedLive'
    BY <1>2, <1>3, <1>5, <2>1, <2>2 DEF Faultless, CountedLive
  <2>4. CASE cr[x] = "none"
    <3>1. Manila \in queue' /\ x \in queue' /\ queue \subseteq queue'
      BY <1>2, <2>4
    <3> QED
      BY <1>2, <1>4, <2>1, <2>3, <2>4, <3>1
         DEF Faultless, Followed, Awaited, Reported, Counted
  <2>5. CASE cr[x] # "none"
    <3>1. queue' = queue /\ \A s \in Shares : cr'[s] = cr[s]
      BY <1>2, <1>4, <2>5
    <3>2. Followed'
      BY <1>2, <2>1, <2>5, <3>1 DEF Faultless, Followed
    <3>3. Awaited' /\ Reported'
      BY <1>2, <2>1, <3>1 DEF Faultless, Awaited, Reported
    <3>4. Counted'
      BY <1>2, <1>5, <2>1, <3>1 DEF Faultless, Counted
    <3> QED
      BY <2>3, <3>2, <3>3, <3>4 DEF Faultless
  <2> QED
    BY <2>4, <2>5
<1> QED
  BY <1>2, <1>6, <1>7, <1>8, TypePartsOK DEF IInv, TypeParts

(* ShareCleanup: when nothing is deleted and the counts are those that are *)
(* stored, every share of the spec is counted if it reports; otherwise the *)
(* Manila CR is queued.                                                    *)
LEMMA ShareCleanupInv == ASSUME IInv, ShareCleanup PROVE IInv'
<1> DEFINE D == Dropped
           C == CountsWithout(D)
<1>1. TypeOK /\ TypeParts /\ (faults = 0 => Faultless)
  BY TypePartsOK DEF IInv
<1>2. D \in SUBSET Shares /\ C \in SUBSET Shares
  BY <1>1 DEF Dropped, CountsWithout, TypeParts, SetsOK
<1>3. /\ active /\ todo = {} /\ cr' = Deleted(D) /\ jobs' = DoJob(D)
      /\ lost' = (lost \/ (D # {} /\ jobs' = jobs))
      /\ Return(C, D, FALSE)
      /\ UNCHANGED <<skipped, applied, sts, pods, records, inSpec, edits, faults>>
  BY DEF ShareCleanup, svcVars, envVars
<1>4. /\ active' = FALSE /\ snap' = {} /\ todo' = {} /\ mem' = {} /\ counts' = C
      /\ queue' \subseteq Shares \cup {Manila} /\ queue \cup D \subseteq queue'
      /\ D # {} \/ C # counts => Manila \in queue'
  BY <1>1, <1>2, <1>3, ReturnType
<1>5. /\ cr' \in [Shares -> Life]
      /\ \A s \in Shares : /\ s \notin D => cr'[s] = cr[s]
                           /\ s \in D => cr'[s] \in {"none", "deleting"}
  BY <1>1, <1>3, DeletedType
<1>6. DoJob(D) \subseteq Job
  BY <1>1, <1>2, DoJobType DEF TypeParts
<1>7. SetsOK'
  BY <1>1, <1>2, <1>3, <1>4 DEF TypeParts, SetsOK
<1>8. ServicesOK' /\ CountersOK' /\ jobs' \subseteq Job
  BY <1>1, <1>3, <1>5, <1>6 DEF TypeParts, ServicesOK, CountersOK
<1>9. FlagsOK'
  BY <1>1, <1>3, <1>4 DEF TypeParts, FlagsOK
<1>10. ASSUME faults' = 0 PROVE Faultless'
  <2>1. Faultless /\ mem \subseteq Shares /\ inSpec \subseteq Shares
    BY <1>1, <1>3, <1>10 DEF TypeParts, SetsOK
  <2>2. \A s \in C : s \in mem /\ s \notin D
    BY DEF CountsWithout
  <2>3. CountedLive'
    BY <1>4, <1>5, <2>1, <2>2 DEF Faultless, CountedLive
  <2>4. Awaited' /\ Reported'
    BY <1>3, <1>4, <1>5, <2>1 DEF Faultless, Awaited, Reported
  <2>5. CASE Manila \in queue'
    BY <2>3, <2>4, <2>5 DEF Faultless, Followed, Counted
  <2>6. CASE Manila \notin queue'
    <3>1. /\ D = {} /\ Manila \notin queue /\ snap = inSpec
          /\ \A s \in Shares : cr'[s] = cr[s]
      BY <1>3, <1>4, <1>5, <2>1, <2>6 DEF Faultless, Followed
    <3>2. \A s \in Shares : cr[s] \in {"new", "live"} => s \in inSpec
      BY <3>1 DEF Dropped
    <3>3. Followed'
      BY <1>3, <1>4, <2>1, <3>1, <3>2 DEF Faultless, Followed
    <3>4. C = mem
      BY <3>1 DEF CountsWithout
    <3>5. Counted'
      BY <1>3, <1>4, <2>1, <3>1, <3>4 DEF Faultless, Counted
    <3> QED
      BY <2>3, <2>4, <3>3, <3>5 DEF Faultless
  <2> QED
    BY <2>5, <2>6
<1> QED
  BY <1>4, <1>7, <1>8, <1>9, <1>10, TypePartsOK DEF IInv, TypeParts

(* After a failed List or a Fault there is a fault; only the types count.  *)
LEMMA ListFailsInv == ASSUME IInv, ListFails PROVE IInv'
<1>1. TypeOK /\ TypeParts /\ faults \in Nat
  BY TypePartsOK, Bounds DEF IInv, TypeParts, CountersOK
<1>2. /\ faults < MaxFaults /\ faults' = faults + 1 /\ skipped' = TRUE
      /\ Return(mem, {}, FALSE)
      /\ UNCHANGED <<cr, applied, sts, pods, records, jobs, lost, inSpec, edits>>
  BY DEF ListFails, svcVars, jobVars
<1>3. mem \in SUBSET Shares /\ {} \in SUBSET Shares
  BY <1>1 DEF TypeParts, SetsOK
<1>4. /\ active' = FALSE /\ snap' = {} /\ todo' = {} /\ mem' = {} /\ counts' = mem
      /\ queue' \subseteq Shares \cup {Manila}
  BY <1>1, <1>2, <1>3, ReturnType
<1>5. SetsOK' /\ FlagsOK'
  BY <1>1, <1>2, <1>3, <1>4 DEF TypeParts, SetsOK, FlagsOK
<1>6. ServicesOK' /\ CountersOK' /\ jobs' \subseteq Job
  BY <1>1, <1>2, Bounds DEF TypeParts, ServicesOK, CountersOK
<1>7. faults' # 0
  BY <1>1, <1>2
<1> QED
  BY <1>4, <1>5, <1>6, <1>7, TypePartsOK DEF IInv, TypeParts

(* Likewise for a call that fails anywhere.                                *)
LEMMA FaultInv == ASSUME IInv, Fault PROVE IInv'
<1>1. TypeOK /\ TypeParts /\ faults \in Nat
  BY TypePartsOK, Bounds DEF IInv, TypeParts, CountersOK
<1>2. /\ faults < MaxFaults /\ faults' = faults + 1
      /\ UNCHANGED <<skipped, applied, sts, pods, records, inSpec, edits>>
  BY DEF Fault, svcVars
<1>3. PICK k \in 0..NumShares, started \in BOOLEAN, stored \in BOOLEAN :
        LET D == {s \in Dropped : todo = {} /\ s <= k} IN
        /\ cr' = Deleted(D)
        /\ jobs' = (IF started THEN DoJob(D) ELSE jobs)
        /\ lost' = (lost \/ (D # {} /\ jobs' = jobs))
        /\ Return(IF stored THEN CountsWithout(D) ELSE counts, D, TRUE)
  BY DEF Fault
<1> DEFINE D == {s \in Dropped : todo = {} /\ s <= k}
           C == IF stored THEN CountsWithout(D) ELSE counts
<1>4. D \in SUBSET Shares /\ C \in SUBSET Shares
  BY <1>1 DEF Dropped, CountsWithout, TypeParts, SetsOK
<1>5. /\ active' = FALSE /\ snap' = {} /\ todo' = {} /\ mem' = {} /\ counts' = C
      /\ queue' \subseteq Shares \cup {Manila}
  BY <1>1, <1>3, <1>4, ReturnType
<1>6. cr' \in [Shares -> Life]
  BY <1>1, <1>3, DeletedType
<1>7. jobs' \subseteq Job
  BY <1>1, <1>3, <1>4, DoJobType DEF TypeParts
<1>8. lost' \in BOOLEAN
  BY <1>1, <1>3 DEF TypeParts, FlagsOK
<1>9. SetsOK' /\ FlagsOK'
  BY <1>1, <1>2, <1>4, <1>5, <1>8 DEF TypeParts, SetsOK, FlagsOK
<1>10. ServicesOK' /\ CountersOK'
  BY <1>1, <1>2, <1>6, Bounds DEF TypeParts, ServicesOK, CountersOK
<1>11. faults' # 0
  BY <1>1, <1>2
<1> QED
  BY <1>5, <1>7, <1>9, <1>10, <1>11, TypePartsOK DEF IInv, TypeParts

(***************************************************************************)
(* The ManilaShare controller: it wakes the Manila controller whenever the *)
(* CR is born, dies or reports something else.                             *)
(***************************************************************************)
LEMMA ShareControllerInv ==
  ASSUME IInv, NEW x \in Shares, ShareController(x)
  PROVE  IInv'
<1>1. TypeParts /\ (~active => todo = {}) /\ (faults = 0 => Faultless)
  BY TypePartsOK DEF IInv
<1>2. UNCHANGED <<counts, pods, records, jobs, lost, active, snap, todo, mem, skipped, inSpec,
                  edits, faults>>
  BY DEF ShareController, ShareInit, ShareReconcile, ShareDelete, ShareGone, svcVars, jobVars,
         localVars, envVars
<1>3. /\ queue' \subseteq queue \cup {x, Manila} /\ queue \subseteq queue' \cup {x}
      /\ x # Manila
  BY Bounds DEF ShareController, ShareInit, ShareReconcile, ShareDelete, ShareGone
<1>4. ServicesOK' /\ \A s \in Shares \ {x} : /\ cr'[s] = cr[s] /\ sts'[s] = sts[s]
                                             /\ s \in applied' <=> s \in applied
  BY <1>1, <1>2
     DEF ShareController, ShareInit, ShareReconcile, ShareDelete, ShareGone, TypeParts,
         ServicesOK, Life
<1>5. TypeParts'
  BY <1>1, <1>2, <1>3, <1>4 DEF TypeParts, SetsOK, FlagsOK, CountersOK
<1>6. ASSUME faults' = 0 PROVE Faultless'
  <2>1. Faultless /\ ServicesOK
    BY <1>1, <1>2, <1>6 DEF TypeParts
  <2>2. \A s \in Shares \ {x} : s \in queue' <=> s \in queue
    BY <1>3, Bounds
  <2>3. \/ /\ Manila \in queue' /\ cr[x] # "live"
        \/ /\ Manila \in queue' <=> Manila \in queue
           /\ cr'[x] = cr[x] /\ (x \in applied' <=> x \in applied)
        \/ /\ Manila \in queue' /\ cr'[x] = cr[x]
    BY <1>3, <2>1
       DEF ShareController, ShareInit, ShareReconcile, ShareDelete, ShareGone, ServicesOK
  <2>4. CountedLive'
    BY <1>1, <1>2, <1>4, <2>1, <2>3 DEF Faultless, CountedLive, TypeParts, SetsOK
  <2>5. Followed'
    BY <1>1, <1>2, <1>4, <2>1, <2>3 DEF Faultless, Followed, TypeParts, SetsOK
  <2>6. Awaited' /\ Reported'
    <3>1. cr'[x] \in {"new", "deleting"} => x \in queue'
      BY <2>1
         DEF ShareController, ShareInit, ShareReconcile, ShareDelete, ShareGone, ServicesOK
    <3>2. cr'[x] = "live" /\ x \notin queue' => sts'[x] = "own" /\ (x \in pods => x \in applied')
      BY <2>1
         DEF ShareController, ShareInit, ShareReconcile, ShareDelete, ShareGone, ServicesOK
    <3> QED
      BY <1>2, <1>4, <2>1, <2>2, <3>1, <3>2 DEF Faultless, Awaited, Reported
  <2>7. Counted'
    BY <1>1, <1>2, <1>4, <2>1, <2>3 DEF Faultless, Counted, TypeParts, SetsOK
  <2> QED
    BY <2>4, <2>5, <2>6, <2>7 DEF Faultless
<1> QED
  BY <1>1, <1>2, <1>5, <1>6, TypePartsOK DEF IInv

(***************************************************************************)
(* Kubernetes, the pods, the jobs and the owner.                           *)
(***************************************************************************)

(* A StatefulSet that is collected has no CR, pods that come up queue it.  *)
LEMMA PodsInv ==
  ASSUME IInv, NEW x \in Shares, Kubernetes(x) \/ PodsUp(x)
  PROVE  IInv'
<1>1. TypeParts /\ (~active => todo = {}) /\ (faults = 0 => Faultless)
  BY TypePartsOK DEF IInv
<1>2. UNCHANGED <<inSpec, counts, cr, applied, jobs, lost, active, snap, todo, mem, skipped,
                  edits, faults>>
  BY DEF Kubernetes, CollectStatefulSet, PodsDown, PodsUp, svcVars, jobVars, localVars
<1>3. queue \subseteq queue' /\ queue' \subseteq queue \cup {x} /\ x # Manila
  BY Bounds DEF Kubernetes, CollectStatefulSet, PodsDown, PodsUp
<1>4. /\ ServicesOK'
      /\ \A s \in Shares : /\ sts[s] = "own" => sts'[s] = "own"
                           /\ s \in pods' => s \in pods \/ s \in queue'
  BY <1>1, <1>2
     DEF Kubernetes, CollectStatefulSet, PodsDown, PodsUp, TypeParts, ServicesOK, svcVars
<1>5. TypeParts'
  BY <1>1, <1>2, <1>3, <1>4 DEF TypeParts, SetsOK, FlagsOK, CountersOK
<1>6. Faultless => Faultless'
  BY <1>2, <1>3, <1>4 DEF Faultless, CountedLive, Followed, Awaited, Reported, Counted
<1> QED
  BY <1>1, <1>2, <1>5, <1>6, TypePartsOK DEF IInv

(* A job that finishes or expires, or an edit, queues the Manila CR.       *)
LEMMA OwnerInv ==
  ASSUME IInv, EditShares \/ \E j \in jobs : RunCleanup(j) \/ ExpireJob(j)
  PROVE  IInv'
<1>1. TypeParts /\ (~active => todo = {}) /\ (faults = 0 => Faultless)
  BY TypePartsOK DEF IInv
<1>2. /\ UNCHANGED <<counts, cr, applied, sts, pods, lost, active, snap, todo, mem, skipped,
                     faults>>
      /\ queue' = queue \cup {Manila}
  BY DEF EditShares, RunCleanup, ExpireJob, svcVars, jobVars, localVars
<1>3. inSpec' \subseteq Shares /\ records' \subseteq Shares
  BY <1>1 DEF EditShares, RunCleanup, ExpireJob, svcVars, TypeParts, SetsOK, ServicesOK
<1>4. jobs' \subseteq Job
  <2>1. \A j \in jobs : [j EXCEPT !.done = TRUE] \in Job
    BY <1>1 DEF TypeParts, Job
  <2> QED
    BY <1>1, <2>1 DEF EditShares, RunCleanup, ExpireJob, jobVars, TypeParts
<1>5. CountersOK'
  BY <1>1, Bounds DEF EditShares, RunCleanup, ExpireJob, TypeParts, CountersOK
<1>6. TypeParts'
  BY <1>1, <1>2, <1>3, <1>4, <1>5 DEF TypeParts, SetsOK, ServicesOK, FlagsOK
<1>7. Faultless => Faultless'
  BY <1>2, <1>3, Bounds DEF Faultless, CountedLive, Followed, Awaited, Reported, Counted
<1> QED
  BY <1>1, <1>2, <1>6, <1>7, TypePartsOK DEF IInv

(* Every action keeps the invariant.                                       *)
LEMMA NextInv == IInv /\ [Next]_vars => IInv'
<1> SUFFICES ASSUME IInv, [Next]_vars PROVE IInv'
  OBVIOUS
<1>1. CASE ManilaController
  BY <1>1, StartInv, DeployShareInv, ShareCleanupInv DEF ManilaController
<1>2. CASE ListFails \/ Fault
  BY <1>2, ListFailsInv, FaultInv
<1>3. CASE \E s \in Shares : ShareController(s) \/ Kubernetes(s) \/ PodsUp(s)
  BY <1>3, ShareControllerInv, PodsInv
<1>4. CASE EditShares \/ \E j \in jobs : RunCleanup(j) \/ ExpireJob(j)
  BY <1>4, OwnerInv
<1>5. CASE UNCHANGED vars
  BY <1>5
     DEF vars, localVars, IInv, TypeOK, Faultless, CountedLive, Followed, Awaited, Reported,
         Counted
<1> QED
  BY <1>1, <1>2, <1>3, <1>4, <1>5 DEF Next

(* The invariant holds throughout.                                         *)
THEOREM Invariance == Spec => []IInv
  BY InitInv, NextInv, PTL DEF Spec

(* Every variable of the share set keeps its type.                         *)
THEOREM TypeCorrect == Spec => []TypeOK
<1>1. IInv => TypeOK
  BY DEF IInv
<1> QED
  BY <1>1, Invariance, PTL

(* With nothing left to do and without a failure, the counts are those of  *)
(* the shares in the spec (reconcileNormal, shareCleanup).                 *)
THEOREM CountsAreRight == Spec => []CountsMatch
<1>1. IInv => CountsMatch
  <2> SUFFICES ASSUME IInv, Settled, faults = 0 PROVE counts = inSpec
    BY DEF CountsMatch
  <2>1. /\ Faultless /\ ~active /\ todo = {} /\ queue = {}
        /\ \A s \in Shares : s \in pods <=> sts[s] = "own"
        /\ counts \subseteq Shares /\ inSpec \subseteq Shares /\ cr \in [Shares -> Life]
    BY DEF IInv, TypeOK, Settled
  <2>2. \A s \in counts : s \in inSpec
    BY <2>1 DEF Faultless, CountedLive, Followed
  <2>3. \A s \in inSpec : cr[s] = "live"
    BY <2>1 DEF Faultless, Followed, Awaited, Life
  <2>4. \A s \in inSpec : s \in counts
    BY <2>1, <2>3 DEF Faultless, Reported, Counted
  <2> QED
    BY <2>2, <2>4
<1> QED
  BY <1>1, Invariance, PTL
-----------------------------------------------------------------------------
(***************************************************************************)
(* What comes of failures.  The debts to the CRs hold with them, too, but  *)
(* for a Reconcile that could not list the shares (skipped); and every     *)
(* share that was deleted is owed a cleanup job, unless it was lost.       *)
(***************************************************************************)

(* As Followed, with failures.                                             *)
Tracked ==
  Manila \notin queue =>
    /\ active => snap = inSpec
    /\ ~active /\ ~skipped => \A s \in Shares : cr[s] \in {"new", "live"} => s \in inSpec
    /\ \A s \in inSpec \ todo : cr[s] # "none"

(* A StatefulSet that is owned belongs to a CR that is there.              *)
Owned == \A s \in Shares : sts[s] = "own" => cr[s] \in {"live", "deleting"}

(* A row that nobody will need is in the name of a job that has yet to     *)
(* run; so is the share that is being deleted, which may still add one.    *)
RecordsDue ==
  /\ pods \subseteq records
  /\ ~lost => \A s \in Shares : cr[s] = "deleting" \/ (s \in records /\ cr[s] = "none")
                => \E j \in jobs : ~j.done /\ s \in j.name

Debts == Tracked /\ Awaited /\ Reported /\ Owned /\ RecordsDue

(* At the start nothing is owed.                                           *)
LEMMA InitDebts == Init => Debts
<1> SUFFICES ASSUME Init PROVE Debts
  OBVIOUS
<1>1. \A s \in Shares : cr[s] = "none" /\ sts[s] = "none"
  BY DEF Init
<1>2. Manila \in queue /\ pods = {} /\ records = {}
  BY DEF Init
<1> QED
  BY <1>1, <1>2 DEF Debts, Tracked, Awaited, Reported, Owned, RecordsDue

(* Deleting CRs in D, with a job for them or without one that is needed    *)
(* (then they are lost), keeps the debts that are not about the queue of   *)
(* the Manila CR.                                                          *)
LEMMA DeletionDebts ==
  ASSUME TypeOK, Awaited, Reported, Owned, RecordsDue, NEW D \in SUBSET Shares,
         \A s \in D : cr[s] \in {"new", "live"},
         cr' = Deleted(D), jobs' \in {jobs, DoJob(D)},
         lost' = (lost \/ (D # {} /\ jobs' = jobs)),
         queue \cup D \subseteq queue',
         UNCHANGED <<applied, sts, pods, records>>
  PROVE  Awaited' /\ Reported' /\ Owned' /\ RecordsDue'
<1>1. \A s \in Shares : /\ s \notin D => cr'[s] = cr[s]
                        /\ s \in D => cr'[s] = IF cr[s] = "new" THEN "none" ELSE "deleting"
  BY DEF Deleted
<1>2. Awaited' /\ Reported'
  BY <1>1 DEF Awaited, Reported
<1>3. Owned'
  BY <1>1 DEF Owned
<1>4. ASSUME ~lost', NEW s \in Shares, cr'[s] = "deleting" \/ (s \in records /\ cr'[s] = "none")
      PROVE  \E j \in jobs' : ~j.done /\ s \in j.name
  <2>1. jobs \subseteq jobs'
    BY DEF DoJob
  <2>2. CASE s \notin D
    <3>1. PICK j \in jobs : ~j.done /\ s \in j.name
      BY <1>1, <1>4, <2>2 DEF RecordsDue
    <3> QED
      BY <2>1, <3>1
  <2>3. CASE s \in D
    <3> DEFINE new == [name |-> D, done |-> FALSE]
    <3>1. jobs' = jobs \cup {new}
      BY <1>4, <2>3 DEF DoJob
    <3>2. ~new.done /\ s \in new.name
      BY <2>3
    <3> QED
      BY <3>1, <3>2
  <2> QED
    BY <2>2, <2>3
<1> QED
  BY <1>2, <1>3, <1>4 DEF RecordsDue

(* The Manila controller, when nothing fails.                              *)
LEMMA ManilaDebts ==
  ASSUME IInv, Debts, ManilaController
  PROVE  Debts'
<1>0. /\ TypeOK /\ Manila \notin Shares
      /\ Tracked /\ Awaited /\ Reported /\ Owned /\ RecordsDue
  BY Bounds DEF IInv, Debts
<1>1. CASE Start
  <2>1. /\ active' = TRUE /\ snap' = inSpec /\ todo' = inSpec /\ queue' = queue \ {Manila}
        /\ UNCHANGED <<cr, applied, sts, pods, records, jobs, lost, inSpec>>
    BY <1>1 DEF Start, svcVars, jobVars, envVars
  <2>2. \A s \in Shares : s \in queue' <=> s \in queue
    BY <1>0, <2>1
  <2> QED
    BY <1>0, <2>1, <2>2 DEF Debts, Tracked, Awaited, Reported, Owned, RecordsDue
<1>2. CASE DeployShare
  <2>1. PICK x \in todo :
          /\ active /\ active' = active /\ todo' = todo \ {x}
          /\ cr' = [cr EXCEPT ![x] = IF @ = "none" THEN "new" ELSE @]
          /\ queue' = IF cr[x] = "none" THEN queue \cup {x, Manila} ELSE queue
          /\ UNCHANGED <<snap, applied, sts, pods, records, jobs, lost, inSpec>>
    BY <1>2 DEF DeployShare, svcVars, jobVars, envVars
  <2>2. \A s \in Shares : cr'[s] = IF s = x /\ cr[x] = "none" THEN "new" ELSE cr[s]
    BY <1>0, <2>1 DEF TypeOK
  <2>3. queue \subseteq queue' /\ (cr[x] = "none" => x \in queue' /\ Manila \in queue')
    BY <2>1
  <2>4. Awaited' /\ Reported'
    BY <1>0, <2>1, <2>2, <2>3 DEF Awaited, Reported
  <2>5. Owned' /\ RecordsDue'
    BY <1>0, <2>1, <2>2 DEF Owned, RecordsDue
  <2>6. Tracked'
    BY <1>0, <2>1, <2>2, <2>3 DEF Tracked, TypeOK
  <2> QED
    BY <2>4, <2>5, <2>6 DEF Debts
<1>3. CASE ShareCleanup
  <2>1. /\ active /\ todo = {} /\ cr' = Deleted(Dropped) /\ jobs' = DoJob(Dropped)
        /\ lost' = (lost \/ (Dropped # {} /\ jobs' = jobs))
        /\ Return(CountsWithout(Dropped), Dropped, FALSE)
        /\ UNCHANGED <<skipped, applied, sts, pods, records, inSpec>>
    BY <1>3 DEF ShareCleanup, svcVars, envVars
  <2>2. Dropped \in SUBSET Shares /\ \A s \in Dropped : cr[s] \in {"new", "live"}
    BY DEF Dropped
  <2>3. /\ active' = FALSE /\ todo' = {} /\ queue \cup Dropped \subseteq queue'
        /\ Dropped # {} => Manila \in queue'
    BY <2>1 DEF Return
  <2>4. Awaited' /\ Reported' /\ Owned' /\ RecordsDue'
    BY <1>0, <2>1, <2>2, <2>3, DeletionDebts
  <2>5. ASSUME Manila \notin queue' PROVE Tracked'
    <3>1. Dropped = {} /\ snap = inSpec /\ Manila \notin queue
      BY <1>0, <2>1, <2>3, <2>5 DEF Tracked
    <3>2. \A s \in Shares : cr'[s] = cr[s]
      BY <2>1, <3>1 DEF Deleted
    <3>3. \A s \in Shares : cr[s] \in {"new", "live"} => s \in inSpec
      BY <3>1 DEF Dropped
    <3> QED
      BY <1>0, <2>1, <2>3, <3>1, <3>2, <3>3 DEF Tracked, TypeOK
  <2> QED
    BY <2>4, <2>5 DEF Debts, Tracked
<1> QED
  BY <1>1, <1>2, <1>3 DEF ManilaController

(* A failed List is remembered; any other failure queues the Manila CR.    *)
LEMMA FaultDebts ==
  ASSUME IInv, Debts, ListFails \/ Fault
  PROVE  Debts'
<1>0. /\ TypeOK /\ Manila \notin Shares
      /\ Tracked /\ Awaited /\ Reported /\ Owned /\ RecordsDue
  BY Bounds DEF IInv, Debts
<1>1. CASE ListFails
  <2>1. /\ active /\ todo = {} /\ skipped' = TRUE /\ active' = FALSE /\ todo' = {}
        /\ queue \subseteq queue' /\ queue' \subseteq queue \cup {Manila}
        /\ UNCHANGED <<cr, applied, sts, pods, records, jobs, lost, inSpec>>
    BY <1>1 DEF ListFails, Return, svcVars, jobVars
  <2> QED
    BY <1>0, <2>1 DEF Debts, Tracked, Awaited, Reported, Owned, RecordsDue
<1>2. CASE Fault
  <2>1. PICK k \in 0..NumShares, started \in BOOLEAN, stored \in BOOLEAN :
          LET D == {s \in Dropped : todo = {} /\ s <= k} IN
          /\ started => todo = {} /\ D = Dropped
          /\ cr' = Deleted(D)
          /\ jobs' = (IF started THEN DoJob(D) ELSE jobs)
          /\ lost' = (lost \/ (D # {} /\ jobs' = jobs))
          /\ Return(IF stored THEN CountsWithout(D) ELSE counts, D, TRUE)
    BY <1>2 DEF Fault
  <2> DEFINE D == {s \in Dropped : todo = {} /\ s <= k}
  <2>2. D \in SUBSET Shares /\ \A s \in D : cr[s] \in {"new", "live"}
    BY DEF Dropped
  <2>3. /\ Manila \in queue' /\ queue \cup D \subseteq queue'
        /\ UNCHANGED <<applied, sts, pods, records>>
    BY <1>2, <2>1 DEF Fault, Return, svcVars
  <2>4. cr' = Deleted(D) /\ jobs' \in {jobs, DoJob(D)}
        /\ lost' = (lost \/ (D # {} /\ jobs' = jobs))
    BY <2>1
  <2> HIDE DEF D
  <2>5. Awaited' /\ Reported' /\ Owned' /\ RecordsDue'
    BY <1>0, <2>2, <2>3, <2>4, DeletionDebts
  <2> QED
    BY <2>3, <2>5 DEF Debts, Tracked
<1> QED
  BY <1>1, <1>2

(* The ManilaShare controller pays the debts of its CR.                    *)
LEMMA ShareDebts ==
  ASSUME IInv, Debts, NEW x \in Shares, ShareController(x)
  PROVE  Debts'
<1>0. /\ TypeOK /\ x # Manila
      /\ Tracked /\ Awaited /\ Reported /\ Owned /\ RecordsDue
  BY Bounds DEF IInv, Debts
<1>1. UNCHANGED <<pods, records, jobs, lost, active, snap, todo, skipped, inSpec>>
  BY DEF ShareController, ShareInit, ShareReconcile, ShareDelete, ShareGone, svcVars, jobVars,
         localVars, envVars
<1>2. /\ queue' \subseteq queue \cup {x, Manila} /\ queue \subseteq queue' \cup {x}
      /\ \A s \in Shares \ {x} : /\ cr'[s] = cr[s] /\ sts'[s] = sts[s]
                                 /\ s \in applied' <=> s \in applied
  BY <1>0
     DEF ShareController, ShareInit, ShareReconcile, ShareDelete, ShareGone, TypeOK
<1>3. \/ cr[x] = "new" /\ cr'[x] = "live" /\ sts' = sts /\ {x, Manila} \subseteq queue'
      \/ /\ cr[x] = "live" /\ cr'[x] = "live" /\ sts'[x] = "own"
         /\ x \notin queue' /\ x \in pods => x \in applied'
      \/ cr[x] = "deleting" /\ cr'[x] = "none" /\ sts'[x] # "own" /\ Manila \in queue'
      \/ cr[x] = "none" /\ cr'[x] = "none" /\ sts' = sts
  <2>1. /\ \A c : [cr EXCEPT ![x] = c][x] = c
        /\ \A c : [sts EXCEPT ![x] = c][x] = c
    BY <1>0 DEF TypeOK
  <2>2. CASE ShareInit(x)
    BY <2>1, <2>2 DEF ShareInit
  <2>3. CASE ShareReconcile(x)
    BY <2>1, <2>3 DEF ShareReconcile
  <2>4. CASE ShareDelete(x)
    BY <2>1, <2>4 DEF ShareDelete
  <2>5. CASE ShareGone(x)
    BY <2>5 DEF ShareGone
  <2> QED
    BY <2>2, <2>3, <2>4, <2>5 DEF ShareController
<1>4. \A s \in Shares \ {x} : s \in queue' <=> s \in queue
  BY <1>2, Bounds
<1>5. Tracked'
  BY <1>0, <1>1, <1>2, <1>3, Bounds DEF Tracked, TypeOK
<1>6. Awaited' /\ Reported'
  BY <1>0, <1>1, <1>2, <1>3, <1>4 DEF Awaited, Reported
<1>7. Owned'
  BY <1>0, <1>2, <1>3 DEF Owned
<1>8. RecordsDue'
  BY <1>0, <1>1, <1>2, <1>3 DEF RecordsDue
<1> QED
  BY <1>5, <1>6, <1>7, <1>8 DEF Debts

(* A StatefulSet that is collected has no CR, and pods that come up belong *)
(* to a CR that is live or owed a job.                                     *)
LEMMA PodsDebts ==
  ASSUME IInv, Debts, NEW x \in Shares, Kubernetes(x) \/ PodsUp(x)
  PROVE  Debts'
<1>0. /\ TypeOK /\ x # Manila
      /\ Tracked /\ Awaited /\ Reported /\ Owned /\ RecordsDue
  BY Bounds DEF IInv, Debts
<1>1. UNCHANGED <<inSpec, cr, applied, jobs, lost, active, snap, todo, skipped>>
  BY DEF Kubernetes, CollectStatefulSet, PodsDown, PodsUp, svcVars, jobVars, localVars
<1>2. /\ queue \subseteq queue' /\ queue' \subseteq queue \cup {x}
      /\ \A s \in Shares : /\ sts[s] = "own" <=> sts'[s] = "own"
                           /\ s \in pods' => s \in pods \/ s \in queue'
  BY <1>0 DEF Kubernetes, CollectStatefulSet, PodsDown, PodsUp, TypeOK, svcVars
<1>3. /\ pods' \subseteq records'
      /\ \A s \in records' : s \in records \/ (s = x /\ sts[x] = "own")
  BY <1>0 DEF Kubernetes, CollectStatefulSet, PodsDown, PodsUp, RecordsDue, svcVars
<1>4. Tracked' /\ Awaited' /\ Reported' /\ Owned'
  BY <1>0, <1>1, <1>2 DEF Tracked, Awaited, Reported, Owned
<1>5. RecordsDue'
  BY <1>0, <1>1, <1>3 DEF RecordsDue, Owned
<1> QED
  BY <1>4, <1>5 DEF Debts

(* A cleanup job that runs leaves rows of running services only; none of   *)
(* the shares it was for is still being deleted.                           *)
LEMMA JobDebts ==
  ASSUME IInv, Debts, NEW j \in jobs, RunCleanup(j) \/ ExpireJob(j)
  PROVE  Debts'
<1>0. /\ TypeOK /\ j \in Job
      /\ Tracked /\ Awaited /\ Reported /\ Owned /\ RecordsDue
  BY DEF IInv, Debts, TypeOK
<1>1. /\ UNCHANGED <<cr, applied, sts, pods, lost, active, snap, todo, skipped, inSpec>>
      /\ queue' = queue \cup {Manila}
  BY DEF RunCleanup, ExpireJob, svcVars, localVars
<1>2. Tracked' /\ Awaited' /\ Reported' /\ Owned'
  BY <1>0, <1>1 DEF Tracked, Awaited, Reported, Owned
<1>3. CASE RunCleanup(j)
  <2>1. /\ records' = records \cap pods /\ jobs \ {j} \subseteq jobs'
        /\ \A s \in j.name : cr[s] # "deleting" /\ (s \in pods => sts[s] = "own")
    BY <1>3 DEF RunCleanup
  <2>2. ASSUME ~lost, NEW s \in Shares, cr[s] = "deleting" \/ (s \in records' /\ cr[s] = "none")
        PROVE  \E w \in jobs' : ~w.done /\ s \in w.name
    <3>1. PICK w \in jobs : ~w.done /\ s \in w.name
      BY <1>0, <2>1, <2>2 DEF RecordsDue
    <3>2. w # j
      BY <1>0, <2>1, <2>2, <3>1 DEF Owned
    <3> QED
      BY <2>1, <3>1, <3>2
  <2> QED
    BY <1>0, <1>1, <1>2, <2>1, <2>2 DEF Debts, RecordsDue
<1>4. CASE ExpireJob(j)
  <2>1. j.done /\ jobs' = jobs \ {j} /\ records' = records
    BY <1>4 DEF ExpireJob, svcVars
  <2> QED
    BY <1>0, <1>1, <1>2, <2>1 DEF Debts, RecordsDue
<1> QED
  BY <1>3, <1>4

(* Every action keeps the debts.                                           *)
LEMMA NextDebts == IInv /\ Debts /\ [Next]_vars => Debts'
<1> SUFFICES ASSUME IInv, Debts, [Next]_vars PROVE Debts'
  OBVIOUS
<1>1. CASE EditShares
  <2>1. /\ Manila \in queue' /\ queue \subseteq queue'
        /\ UNCHANGED <<cr, applied, sts, pods, records, jobs, lost>>
    BY <1>1 DEF EditShares, svcVars, jobVars
  <2> QED
    BY <2>1 DEF Debts, Tracked, Awaited, Reported, Owned, RecordsDue
<1>2. CASE UNCHANGED vars
  BY <1>2 DEF vars, svcVars, jobVars, localVars, envVars, Debts, Tracked, Awaited, Reported,
     Owned, RecordsDue
<1> QED
  BY <1>1, <1>2, ManilaDebts, FaultDebts, ShareDebts, PodsDebts, JobDebts DEF Next

(* The debts hold in every reachable state.                                *)
LEMMA DebtsHold == Spec => []Debts
<1>1. Spec => [](IInv /\ Debts)
  BY InitInv, InitDebts, NextInv, NextDebts, PTL DEF Spec
<1> QED
  BY <1>1, PTL

(* What ConvergesUnlessSkipped promises of the end.                        *)
SharesConverged == Settled /\ ~skipped => FollowsSpec

(* With nothing left to do exactly the shares of the spec have a CR, a     *)
(* StatefulSet and pods, whatever edits and failures came before, unless   *)
(* the last Reconcile could not list the shares (shareCleanup).            *)
THEOREM SharesFollowSpec == Spec => []SharesConverged
<1>1. IInv /\ Debts => SharesConverged
  <2> SUFFICES ASSUME IInv, Debts, Settled, ~skipped PROVE FollowsSpec
    BY DEF SharesConverged
  <2>1. /\ ~active /\ queue = {} /\ todo = {} /\ inSpec \subseteq Shares /\ pods \subseteq Shares
        /\ cr \in [Shares -> {"none", "new", "live", "deleting"}]
        /\ \A s \in Shares : s \in pods <=> sts[s] = "own"
    BY DEF IInv, TypeOK, Settled, Life
  <2>2. \A s \in Shares : cr[s] \in {"none", "live"} /\ (s \in inSpec <=> cr[s] = "live")
    BY <2>1 DEF Debts, Tracked, Awaited
  <2>3. \A s \in Shares : sts[s] = "own" <=> cr[s] = "live"
    BY <2>1, <2>2 DEF Debts, Reported, Owned
  <2> QED
    BY <2>1, <2>2, <2>3 DEF FollowsSpec
<1> QED
  BY <1>1, Invariance, DebtsHold, PTL

(* What RecordsCleaned promises of the end.                                *)
RecordsSettled ==
  Settled /\ ~skipped /\ ~lost /\ (\A j \in jobs : j.done) => records = inSpec

(* When, in addition, every cleanup job has run and none was lost, manila  *)
(* lists the services of exactly these shares (service-cleanup job).       *)
THEOREM RecordsFollowSpec == Spec => []RecordsSettled
<1>1. IInv /\ Debts /\ SharesConverged => RecordsSettled
  <2> SUFFICES ASSUME IInv, Debts, FollowsSpec, Settled, ~lost, \A j \in jobs : j.done
               PROVE  records = inSpec
    BY DEF SharesConverged, RecordsSettled
  <2>1. /\ records \subseteq Shares /\ queue = {} /\ inSpec = pods /\ pods \subseteq records
        /\ cr \in [Shares -> {"none", "new", "live", "deleting"}]
        /\ inSpec = {s \in Shares : cr[s] = "live"}
    BY DEF IInv, TypeOK, Life, Settled, FollowsSpec, Debts, RecordsDue
  <2>2. \A s \in records : cr[s] = "live"
    BY <2>1 DEF Debts, Awaited, RecordsDue
  <2> QED
    BY <2>1, <2>2
<1> QED
  BY <1>1, Invariance, DebtsHold, SharesFollowSpec, PTL
=============================================================================
