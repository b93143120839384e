----------------------- MODULE ServiceControllerProofs -----------------------
(***************************************************************************)
(* Proofs about ServiceController, for every set of configurations, every  *)
(* number of retries and every bound: the finalizer protocol's invariant   *)
(* IInv is inductive, and with it the type invariant, FinalizerLock and    *)
(* NoOrphan hold in every reachable state, the controller implements       *)
(* ServiceLifecycle, and no pass goes on for ever.                         *)
(***************************************************************************)
EXTENDS ServiceControllerProperties, TLAPS

-----------------------------------------------------------------------------
(* Facts about the building blocks.                                        *)

(* The record of a resource that does not exist is well-formed.            *)
LEMMA NoCRType ==
  ASSUME NEW uid \in Nat
  PROVE  NoCR(uid) \in CR /\ ~NoCR(uid).exists /\ NoCR(uid).uid = uid
         /\ ~NoCR(uid).fin /\ ~NoCR(uid).del /\ Specified(NoCR(uid))
  BY DEF NoCR, CR, AllURLs, Specified

LEMMA NoChildType == NoChild \in Child /\ ~NoChild.exists /\ NoChild.owner = 0
  BY DEF NoChild, Child, Contents

(* What the builders return for a configuration is a content.              *)
LEMMA DesiredType ==
  ASSUME NEW c \in Configs, NEW k \in Kinds
  PROVE  Desired(c, k) \in Contents
  BY DEF Contents

(* A write of one child leaves the caches in step and the others alone.    *)
LEMMA WriteChildFacts ==
  ASSUME TypeOK, CopiesInSync, NEW k \in Kinds, NEW new \in Child, WriteChild(k, new)
  PROVE  /\ child' \in [Kinds -> Child] /\ cache' = cache
         /\ fresh' \in [Kinds -> BOOLEAN] /\ missed' \in [Kinds -> BOOLEAN]
         /\ \A j \in Kinds : fresh'[j] => cache'[j] = child'[j]
         /\ child'[k] = new
         /\ \A j \in Kinds \ {k} : child'[j] = child[j]
  <1>1. child' \in [Kinds -> Child] /\ child'[k] = new /\ cache' = cache
        /\ \A j \in Kinds \ {k} : child'[j] = child[j]
    BY DEF WriteChild, TypeOK
  <1>2. fresh' \in [Kinds -> BOOLEAN] /\ missed' \in [Kinds -> BOOLEAN]
    BY DEF WriteChild, TypeOK
  <1>3. ASSUME NEW j \in Kinds, fresh'[j] PROVE cache'[j] = child'[j]
    <2>1. CASE j = k
      <3>1. fresh[k] /\ new = child[k]
        BY <1>3, <2>1 DEF WriteChild, TypeOK
      <3>2. QED  BY <1>1, <2>1, <3>1 DEF CopiesInSync
    <2>2. CASE j # k
      BY <1>1, <1>3, <2>2 DEF WriteChild, TypeOK, CopiesInSync
    <2>3. QED  BY <2>1, <2>2
  <1>4. QED  BY <1>1, <1>2, <1>3

-----------------------------------------------------------------------------
(* One step of a pass that applies children.                               *)

(* How the pass goes on: with a later call on the same snapshot, or not.   *)
PassGoesOn ==
  /\ pc' \in ApplySteps \union {"idle"}
  /\ pc' = "idle" => snap' = NoCR(0) /\ snapCurrent' = FALSE
  /\ pc' # "idle" => snap' = snap /\ snapCurrent' = snapCurrent
  /\ attempt' \in 0 .. MaxRetries - 1
  /\ result' \in {"none", "ok", "error", "exhausted"}
  /\ queued' \in BOOLEAN

(* What it did to the children: each one that exists was there before or   *)
(* names no owner or the resource of the snapshot.                         *)
ChildrenApplied ==
  /\ child' \in [Kinds -> Child] /\ cache' = cache
  /\ fresh' \in [Kinds -> BOOLEAN] /\ missed' \in [Kinds -> BOOLEAN]
  /\ \A j \in Kinds : fresh'[j] => cache'[j] = child'[j]
  /\ \A j \in Kinds : child'[j].exists =>
        \/ child'[j].owner \in {0, snap.uid}
        \/ child[j].exists /\ child'[j].owner = child[j].owner

LEMMA ContinueGoesOn ==
  ASSUME TypeOK, pc \in ApplySteps \ {"status"}, Continue
  PROVE  PassGoesOn
  BY ConstantsAssumption DEF TypeOK, ApplySteps, Continue, Following, PassGoesOn

LEMMA FailGoesOn ==
  ASSUME TypeOK, NEW r \in {"error", "exhausted"}, EndPass(r), snapCurrent' = FALSE
  PROVE  PassGoesOn
  BY ConstantsAssumption DEF TypeOK, EndPass, PassGoesOn, ApplySteps

LEMMA RetryGoesOn ==
  ASSUME TypeOK, pc \in ApplySteps, Retry
  PROVE  PassGoesOn
  <1>1. CASE RetriesLeft
    BY <1>1, ConstantsAssumption DEF Retry, RetriesLeft, PassGoesOn, TypeOK, ApplySteps
  <1>2. CASE ~RetriesLeft
    BY <1>2, FailGoesOn DEF Retry
  <1>3. QED  BY <1>1, <1>2

LEMMA UnchangedApplied ==
  ASSUME TypeOK, CopiesInSync, UNCHANGED childVars
  PROVE  ChildrenApplied
  BY DEF ChildrenApplied, childVars, TypeOK, CopiesInSync

LEMMA WrittenApplied ==
  ASSUME TypeOK, CopiesInSync, NEW k \in Kinds, NEW new \in Child, WriteChild(k, new),
         new.exists => \/ new.owner \in {0, snap.uid}
                       \/ child[k].exists /\ new.owner = child[k].owner
  PROVE  ChildrenApplied
  BY WriteChildFacts DEF ChildrenApplied, TypeOK

(* Create or update of a needed child.                                     *)
LEMMA ApplyFacts ==
  ASSUME IInv, NEW k \in Kinds, pc \in ApplySteps \ {"status"}, Apply(k)
  PROVE  PassGoesOn /\ ChildrenApplied
  <1> USE DEF IInv
  <1>1. snap \in CR /\ snap.cfg \in Configs /\ snap.uid \in Nat
    BY DEF SnapFitsStep, Guarded, ResourceShape, Specified, TypeOK, CR
  <1>2. Desired(snap.cfg, k) \in Contents
    BY <1>1, DesiredType
  <1>3. CASE CreateChild(k)
    <2>1. CASE ~child[k].exists /\ ~cache[k].exists
      <3> DEFINE new == [exists |-> TRUE, content |-> Desired(snap.cfg, k), owner |-> Owner(k)]
      <3>1. new \in Child /\ new.owner \in {0, snap.uid}
        BY <1>1, <1>2 DEF Child, Owner
      <3>2. WriteChild(k, new)
        BY <1>3, <2>1 DEF CreateChild
      <3>3. ChildrenApplied
        <4> HIDE DEF new
        <4> QED  BY <3>1, <3>2, WrittenApplied
      <3>4. PassGoesOn
        BY <1>3, <2>1, ContinueGoesOn, FailGoesOn DEF CreateChild
      <3>5. QED  BY <3>3, <3>4
    <2>2. CASE child[k].exists
      BY <1>3, <2>2, FailGoesOn, UnchangedApplied DEF CreateChild, Fail
    <2>3. QED  BY <1>3, <2>1, <2>2 DEF CreateChild
  <1>4. CASE KeepChild(k)
    BY <1>4, ContinueGoesOn, UnchangedApplied DEF KeepChild
  <1>5. CASE UpdateChild(k)
    <2>1. CASE fresh[k]
      <3> DEFINE new == [exists |-> TRUE, content |-> Desired(snap.cfg, k),
                         owner |-> IF k = "deployment" THEN child[k].owner ELSE snap.uid]
      <3>1. child[k] \in Child /\ child[k].exists
        BY <1>5, <2>1 DEF UpdateChild, CopiesInSync, TypeOK
      <3>2. new \in Child
        BY <1>1, <1>2, <3>1 DEF Child
      <3>3. new.owner = snap.uid \/ new.owner = child[k].owner
        OBVIOUS
      <3>4. WriteChild(k, new) /\ Continue
        BY <1>5, <2>1 DEF UpdateChild
      <3>5. ChildrenApplied
        <4> HIDE DEF new
        <4> QED  BY <3>1, <3>2, <3>3, <3>4, WrittenApplied
      <3>6. QED  BY <3>4, <3>5, ContinueGoesOn
    <2>2. CASE ~fresh[k] /\ child[k].exists
      BY <1>5, <2>2, RetryGoesOn, UnchangedApplied DEF UpdateChild
    <2>3. CASE ~fresh[k] /\ ~child[k].exists
      BY <1>5, <2>3, FailGoesOn, UnchangedApplied DEF UpdateChild, Fail
    <2>4. QED  BY <2>1, <2>2, <2>3
  <1>6. QED  BY <1>3, <1>4, <1>5 DEF Apply

(* Removal of a child that is not needed.                                  *)
LEMMA RemoveFacts ==
  ASSUME IInv, NEW k \in Kinds, pc \in ApplySteps \ {"status"}, RemoveChild(k)
  PROVE  PassGoesOn /\ ChildrenApplied
  <1> USE DEF IInv
  <1>1. CASE ~cache[k].exists
    BY <1>1, ContinueGoesOn, UnchangedApplied DEF RemoveChild
  <1>2. CASE cache[k].exists /\ child[k].exists
    BY <1>2, ContinueGoesOn, WrittenApplied, NoChildType DEF RemoveChild
  <1>3. CASE cache[k].exists /\ ~child[k].exists
    BY <1>3, FailGoesOn, UnchangedApplied DEF RemoveChild, Fail
  <1>4. QED  BY <1>1, <1>2, <1>3

LEMMA SkipFacts ==
  ASSUME IInv, pc \in ApplySteps \ {"status"}, Continue, UNCHANGED childVars
  PROVE  PassGoesOn /\ ChildrenApplied
  BY ContinueGoesOn, UnchangedApplied DEF IInv

(* Such a step keeps the invariant.                                        *)
LEMMA AppliedKeepsIInv ==
  ASSUME IInv, pc \in ApplySteps, PassGoesOn, ChildrenApplied, UNCHANGED <<crVars, budget>>
  PROVE  IInv'
  <1> USE DEF IInv
  <1>0. /\ cr' = cr /\ crCache' = crCache /\ crFresh' = crFresh /\ budget' = budget
        /\ cr.exists /\ cr.fin /\ cr.uid = snap.uid /\ cr \in CR
    BY DEF crVars, FinalizerLock, TypeOK
  <1>1. /\ pc' \in Steps /\ pc' \notin FinalizeSteps /\ pc' # "addFinalizer"
        /\ pc' \in ApplySteps => pc' # "idle"
    BY DEF PassGoesOn, Steps, ApplySteps, FinalizeSteps
  <1>2. snap' \in CR /\ snap'.uid <= cr.uid /\ Specified(snap')
    BY <1>0, NoCRType DEF PassGoesOn, TypeOK, ResourceShape, CR
  <1>3. TypeOK'
    BY <1>0, <1>1, <1>2 DEF TypeOK, PassGoesOn, ChildrenApplied
  <1>4. CopiesInSync'
    BY <1>0 DEF CopiesInSync, PassGoesOn, ChildrenApplied, ApplySteps
  <1>5. ResourceShape'
    BY <1>0, <1>2 DEF ResourceShape, Specified
  <1>6. SnapFitsStep' /\ FinalizerLock'
    BY <1>0, <1>1 DEF SnapFitsStep, FinalizerLock, PassGoesOn, Guarded
  <1>7. CacheLocks' /\ DeletionSticks'
    BY <1>0, <1>1 DEF CacheLocks, DeletionSticks, Guarded
  <1>8. FinalizedSoFar'
    BY <1>1 DEF FinalizedSoFar, FinalizeSteps
  <1>9. NoOrphan'
    BY <1>0 DEF NoOrphan, ChildrenApplied, Finalized, Kinds
  <1>10. QED  BY <1>3, <1>4, <1>5, <1>6, <1>7, <1>8, <1>9

-----------------------------------------------------------------------------
(* The worker's calls on the children.                                     *)
LEMMA ReconcileDeploymentStep == IInv /\ ReconcileDeployment => IInv'
  <1> SUFFICES ASSUME IInv, ReconcileDeployment PROVE IInv'
    OBVIOUS
  <1>1. pc \in ApplySteps \ {"status"} /\ "deployment" \in Kinds
    BY DEF ReconcileDeployment, ApplySteps, Kinds
  <1>2. Apply("deployment") \/ RemoveChild("deployment")
    BY DEF ReconcileDeployment
  <1>3. PassGoesOn /\ ChildrenApplied
    BY <1>1, <1>2, ApplyFacts, RemoveFacts
  <1>4. QED  BY <1>1, <1>3, AppliedKeepsIInv DEF ReconcileDeployment

LEMMA ReconcileServiceStep == IInv /\ ReconcileService => IInv'
  <1> SUFFICES ASSUME IInv, ReconcileService PROVE IInv'
    OBVIOUS
  <1>1. pc \in ApplySteps \ {"status"} /\ pc \in Kinds
    BY DEF ReconcileService, ApplySteps, Kinds, Services
  <1>2. Apply(pc) \/ (Continue /\ UNCHANGED childVars)
    BY DEF ReconcileService
  <1>3. PassGoesOn /\ ChildrenApplied
    BY <1>1, <1>2, ApplyFacts, SkipFacts
  <1>4. QED  BY <1>1, <1>3, AppliedKeepsIInv DEF ReconcileService

LEMMA CleanServiceStep == IInv /\ CleanService => IInv'
  <1> SUFFICES ASSUME IInv, CleanService PROVE IInv'
    OBVIOUS
  <1>1. pc \in ApplySteps \ {"status"} /\ KindOf[pc] \in Kinds
    BY DEF CleanService, ApplySteps, Kinds, KindOf
  <1>2. RemoveChild(KindOf[pc]) \/ (Continue /\ UNCHANGED childVars)
    BY DEF CleanService
  <1>3. PassGoesOn /\ ChildrenApplied
    BY <1>1, <1>2, RemoveFacts, SkipFacts
  <1>4. QED  BY <1>1, <1>3, AppliedKeepsIInv DEF CleanService

LEMMA ReconcileIngressStep == IInv /\ ReconcileIngress => IInv'
  <1> SUFFICES ASSUME IInv, ReconcileIngress PROVE IInv'
    OBVIOUS
  <1>1. pc \in ApplySteps \ {"status"} /\ "ingress" \in Kinds
    BY DEF ReconcileIngress, ApplySteps, Kinds
  <1>2. Apply("ingress") \/ RemoveChild("ingress")
    BY DEF ReconcileIngress
  <1>3. PassGoesOn /\ ChildrenApplied
    BY <1>1, <1>2, ApplyFacts, RemoveFacts
  <1>4. QED  BY <1>1, <1>3, AppliedKeepsIInv DEF ReconcileIngress

LEMMA ReconcileDatabaseStep == IInv /\ ReconcileDatabase => IInv'
  <1> SUFFICES ASSUME IInv, ReconcileDatabase PROVE IInv'
    OBVIOUS
  <1>1. pc \in ApplySteps \ {"status"}
    BY DEF ReconcileDatabase, ApplySteps
  <1>2. PassGoesOn /\ ChildrenApplied
    BY <1>1, SkipFacts DEF ReconcileDatabase
  <1>3. QED  BY <1>1, <1>2, AppliedKeepsIInv DEF ReconcileDatabase

(* The end of a pass, for whatever reason, that writes nothing.            *)
LEMMA EndPassKeepsIInv ==
  ASSUME IInv, NEW r \in {"ok", "error", "exhausted"}, EndPass(r), snapCurrent' = FALSE,
         UNCHANGED <<crVars, childVars>>, budget' \in [edits : Nat, disturb : Nat, faults : Nat]
  PROVE  IInv'
  <1> USE DEF IInv
  <1>1. /\ cr' = cr /\ crCache' = crCache /\ crFresh' = crFresh
        /\ child' = child /\ cache' = cache /\ fresh' = fresh /\ missed' = missed
        /\ pc' = "idle" /\ snap' = NoCR(0) /\ attempt' = 0 /\ result' = r
        /\ queued' \in BOOLEAN
    BY DEF crVars, childVars, EndPass, TypeOK
  <1>2. TypeOK'
    <2>1. snap' \in CR /\ pc' \in Steps /\ attempt' \in 0 .. MaxRetries - 1
      BY <1>1, NoCRType, ConstantsAssumption DEF Steps
    <2>2. result' \in {"none", "ok", "error", "exhausted"}
      BY <1>1
    <2>3. QED  BY <1>1, <2>1, <2>2 DEF TypeOK
  <1>3. CopiesInSync' /\ ResourceShape'
    BY <1>1, NoCRType DEF CopiesInSync, ResourceShape, Specified, TypeOK, CR
  <1>4. SnapFitsStep' /\ FinalizerLock' /\ FinalizedSoFar' /\ DeletionSticks'
    BY <1>1 DEF SnapFitsStep, FinalizerLock, FinalizedSoFar, DeletionSticks, ApplySteps,
                FinalizeSteps
  <1>5. CacheLocks' /\ NoOrphan'
    BY <1>1 DEF CacheLocks, Guarded, NoOrphan
  <1>6. QED  BY <1>2, <1>3, <1>4, <1>5

LEMMA CallFailsStep == IInv /\ CallFails => IInv'
  <1> SUFFICES ASSUME IInv, CallFails PROVE IInv'
    OBVIOUS
  <1>1. budget' \in [edits : Nat, disturb : Nat, faults : Nat]
    BY DEF CallFails, IInv, TypeOK
  <1>2. QED  BY <1>1, EndPassKeepsIInv DEF CallFails, Fail

LEMMA FinalizeChildStep == IInv /\ FinalizeChild => IInv'
  <1> SUFFICES ASSUME IInv, FinalizeChild PROVE IInv'
    OBVIOUS
  <1> USE DEF IInv
  <1> DEFINE k == KindOf[pc]
  <1>1. /\ cr' = cr /\ crCache' = crCache /\ crFresh' = crFresh /\ budget' = budget
        /\ snap' = snap /\ snapCurrent' = snapCurrent /\ attempt' = 0
        /\ result' = result /\ queued' = queued
    BY DEF FinalizeChild, Continue, crVars
  <1>2. k \in Kinds /\ pc \in FinalizeSteps /\ pc' \in FinalizeSteps
    BY DEF FinalizeChild, Continue, KindOf, Following, Kinds, FinalizeSteps
  <1>3. /\ child' \in [Kinds -> Child] /\ cache' = cache
        /\ fresh' \in [Kinds -> BOOLEAN] /\ missed' \in [Kinds -> BOOLEAN]
        /\ \A j \in Kinds : fresh'[j] => cache'[j] = child'[j]
        /\ child'[k] = NoChild
        /\ \A j \in Kinds \ {k} : child'[j] = child[j]
    BY <1>2, WriteChildFacts, NoChildType DEF FinalizeChild
  <1>4. TypeOK'
    BY <1>1, <1>2, <1>3, ConstantsAssumption DEF TypeOK, Steps
  <1>5. CopiesInSync' /\ ResourceShape'
    BY <1>1, <1>2, <1>3 DEF CopiesInSync, ResourceShape, Specified, FinalizeSteps
  <1>6. SnapFitsStep' /\ FinalizerLock' /\ DeletionSticks' /\ CacheLocks'
    BY <1>1, <1>2 DEF SnapFitsStep, FinalizerLock, DeletionSticks, CacheLocks, Guarded,
                      FinalizeSteps, ApplySteps
  <1>7. FinalizedSoFar'
    <2>1. CASE pc = "finDeployment"
      BY <2>1, <1>3, NoChildType DEF FinalizeChild, Continue, KindOf, Following, FinalizedSoFar
    <2>2. CASE pc = "finBase"
      BY <2>2, <1>3, NoChildType DEF FinalizeChild, Continue, KindOf, Following, FinalizedSoFar,
                                     Kinds
    <2>3. CASE pc = "finIngress"
      BY <2>3, <1>3, NoChildType DEF FinalizeChild, Continue, KindOf, Following, FinalizedSoFar,
                                     Kinds
    <2>4. QED  BY <2>1, <2>2, <2>3 DEF FinalizeChild
  <1>8. NoOrphan'
    BY <1>1, <1>3, NoChildType DEF NoOrphan, Finalized, Kinds
  <1>9. QED  BY <1>4, <1>5, <1>6, <1>7, <1>8
-----------------------------------------------------------------------------
(* Writes of the resource.                                                 *)

(* A write that keeps a finalizer, never undoes a deletion and counts the  *)
(* uid up for a new resource keeps the invariant.                          *)
LEMMA ClientWriteKeepsIInv ==
  ASSUME IInv, NEW new \in CR, WriteCR(new), UNCHANGED <<childVars, passVars, queued>>,
         budget' \in [edits : Nat, disturb : Nat, faults : Nat],
         new.fin \/ new.del => new.exists,
         new.del => new.fin,
         Specified(new),
         cr.exists => new.uid = cr.uid,
         ~cr.exists => new.uid > cr.uid,
         cr.exists /\ cr.fin => new.exists /\ new.fin,
         cr.del /\ new.exists => new.del
  PROVE  IInv'
  <1> USE DEF IInv
  <1>1. /\ cr' = new /\ crCache' = crCache /\ crFresh' = FALSE /\ snapCurrent' = FALSE
        /\ child' = child /\ cache' = cache /\ fresh' = fresh /\ missed' = missed
        /\ pc' = pc /\ snap' = snap /\ attempt' = attempt /\ result' = result
        /\ queued' = queued
    BY DEF WriteCR, childVars, passVars
  <1>2. cr.uid \in Nat /\ new.uid \in Nat /\ crCache.uid \in Nat /\ snap.uid \in Nat
    BY DEF TypeOK, CR
  <1>3. TypeOK'
    BY <1>1 DEF TypeOK
  <1>4. CopiesInSync' /\ ResourceShape'
    BY <1>1, <1>2 DEF CopiesInSync, ResourceShape, Specified
  <1>5. SnapFitsStep' /\ FinalizerLock' /\ FinalizedSoFar' /\ CacheLocks'
    BY <1>1 DEF SnapFitsStep, FinalizerLock, FinalizedSoFar, CacheLocks, Guarded
  <1>6. DeletionSticks'
    <2>1. ASSUME new.exists, NEW s \in {crCache, snap}, new.uid = s.uid
          PROVE  cr.exists /\ cr.uid = s.uid
      BY <2>1, <1>2 DEF ResourceShape
    <2>2. QED
      BY <1>1, <2>1 DEF DeletionSticks, ResourceShape
  <1>7. NoOrphan'
    BY <1>1 DEF NoOrphan
  <1>8. QED  BY <1>3, <1>4, <1>5, <1>6, <1>7

LEMMA CreateCRStep == IInv /\ CreateCR => IInv'
  <1> SUFFICES ASSUME IInv, CreateCR PROVE IInv'
    OBVIOUS
  <1> USE DEF IInv
  <1>1. PICK c \in Configs : WriteCR([NoCR(cr.uid + 1) EXCEPT !.exists = TRUE, !.cfg = c])
    BY DEF CreateCR
  <1> DEFINE new == [NoCR(cr.uid + 1) EXCEPT !.exists = TRUE, !.cfg = c]
  <1>2. cr.uid \in Nat /\ ~cr.exists /\ ~cr.fin /\ ~cr.del
    BY DEF CreateCR, TypeOK, CR, ResourceShape
  <1>3. new \in CR /\ new.uid = cr.uid + 1 /\ new.exists /\ ~new.fin /\ ~new.del
        /\ new.cfg = c
    <2>1. cr.uid + 1 \in Nat
      BY <1>2
    <2>2. /\ NoCR(cr.uid + 1) \in CR /\ NoCR(cr.uid + 1).uid = cr.uid + 1
          /\ ~NoCR(cr.uid + 1).fin /\ ~NoCR(cr.uid + 1).del
      BY <2>1, NoCRType
    <2>3. QED  BY <2>2 DEF CR
  <1>4. Specified(new)
    BY <1>3 DEF Specified
  <1>5. new.uid > cr.uid
    BY <1>2, <1>3
  <1>6. budget' \in [edits : Nat, disturb : Nat, faults : Nat]
        /\ UNCHANGED <<childVars, passVars, queued>>
    BY DEF CreateCR, TypeOK
  <1> HIDE DEF new
  <1>7. WriteCR(new)
    BY <1>1 DEF new
  <1>8. QED  BY <1>2, <1>3, <1>4, <1>5, <1>6, <1>7, ClientWriteKeepsIInv

LEMMA EditCRStep == IInv /\ EditCR => IInv'
  <1> SUFFICES ASSUME IInv, EditCR PROVE IInv'
    OBVIOUS
  <1> USE DEF IInv
  <1>1. PICK c \in Configs : WriteCR([cr EXCEPT !.cfg = c])
    BY DEF EditCR
  <1> DEFINE new == [cr EXCEPT !.cfg = c]
  <1>2. cr \in CR /\ cr.exists
    BY DEF EditCR, TypeOK
  <1>3. new \in CR /\ new.uid = cr.uid /\ new.exists /\ new.fin = cr.fin
        /\ new.del = cr.del /\ new.cfg = c
    BY <1>2 DEF CR
  <1>4. Specified(new)
    BY <1>3 DEF Specified
  <1>5. budget' \in [edits : Nat, disturb : Nat, faults : Nat]
        /\ UNCHANGED <<childVars, passVars, queued>>
    BY DEF EditCR, TypeOK
  <1> HIDE DEF new
  <1>6. WriteCR(new)
    BY <1>1 DEF new
  <1>7. new.del => new.fin
    BY <1>3 DEF ResourceShape
  <1>8. QED  BY <1>2, <1>3, <1>4, <1>5, <1>6, <1>7, ClientWriteKeepsIInv

LEMMA DeleteCRStep == IInv /\ DeleteCR => IInv'
  <1> SUFFICES ASSUME IInv, DeleteCR PROVE IInv'
    OBVIOUS
  <1> USE DEF IInv
  <1> DEFINE new == IF cr.fin THEN [cr EXCEPT !.del = TRUE] ELSE NoCR(cr.uid)
  <1>1. cr \in CR /\ cr.exists /\ ~cr.del /\ cr.uid \in Nat /\ Specified(cr)
    BY DEF DeleteCR, TypeOK, CR, ResourceShape
  <1>2. budget' \in [edits : Nat, disturb : Nat, faults : Nat]
        /\ UNCHANGED <<childVars, passVars, queued>>
    BY DEF DeleteCR, TypeOK
  <1>3. /\ new \in CR /\ new.uid = cr.uid /\ new.fin = cr.fin /\ new.del = cr.fin
        /\ new.exists = cr.fin /\ Specified(new)
    <2>1. CASE cr.fin
      BY <1>1, <2>1 DEF CR, Specified
    <2>2. CASE ~cr.fin
      BY <1>1, <2>2, NoCRType DEF CR
    <2>3. QED  BY <2>1, <2>2
  <1>4. WriteCR(new)
    BY DEF DeleteCR
  <1> HIDE DEF new
  <1>5. QED  BY <1>1, <1>2, <1>3, <1>4, ClientWriteKeepsIInv

(* The three writes of a pass: refused, they end it; accepted, the         *)
(* snapshot was the live resource.                                         *)
LEMMA AddFinalizerStep == IInv /\ AddFinalizer => IInv'
  <1> SUFFICES ASSUME IInv, AddFinalizer PROVE IInv'
    OBVIOUS
  <1> USE DEF IInv
  <1> DEFINE new == [snap EXCEPT !.fin = TRUE, !.ready = cr.ready, !.urls = cr.urls]
  <1>0. UNCHANGED <<childVars, budget>> /\ budget' \in [edits : Nat, disturb : Nat, faults : Nat]
    BY DEF AddFinalizer, TypeOK
  <1>1. CASE ~snapCurrent
    BY <1>0, <1>1, EndPassKeepsIInv DEF AddFinalizer, UpdateCR, Fail
  <1>2. CASE snapCurrent
    <2>1. snap = cr /\ cr \in CR /\ cr.exists /\ ~cr.fin /\ ~cr.del
      BY <1>2 DEF CopiesInSync, SnapFitsStep, AddFinalizer, TypeOK
    <2>2. /\ new \in CR /\ new.uid = cr.uid /\ new.exists /\ new.fin /\ ~new.del
          /\ new.cfg = cr.cfg
      BY <2>1 DEF CR
    <2>3. /\ cr' = new /\ crCache' = crCache /\ crFresh' = FALSE /\ snapCurrent' = FALSE
          /\ pc' = "idle" /\ snap' = NoCR(0) /\ attempt' = 0 /\ result' = "ok"
          /\ queued' \in BOOLEAN
      BY <1>2 DEF AddFinalizer, UpdateCR, WriteCR, EndPass, TypeOK
    <2>4. /\ child' = child /\ cache' = cache /\ fresh' = fresh /\ missed' = missed
          /\ budget' = budget
      BY <1>0 DEF childVars
    <2> HIDE DEF new
    <2>5. TypeOK'
      <3>1. snap' \in CR /\ pc' \in Steps /\ attempt' \in 0 .. MaxRetries - 1
        BY <2>2, <2>3, <2>4, NoCRType, ConstantsAssumption DEF Steps
      <3>2. cr' \in CR
        BY <2>2, <2>3, <2>4, NoCRType
      <3>3. QED  BY <2>2, <2>3, <2>4, <3>1, <3>2 DEF TypeOK
    <2>6. CopiesInSync' /\ ResourceShape'
      BY <2>1, <2>2, <2>3, <2>4, NoCRType DEF CopiesInSync, ResourceShape, Specified, CR
    <2>7. SnapFitsStep' /\ FinalizerLock' /\ FinalizedSoFar'
      BY <2>3 DEF SnapFitsStep, FinalizerLock, FinalizedSoFar, FinalizeSteps, ApplySteps
    <2>8. CacheLocks' /\ DeletionSticks'
      BY <2>1, <2>2, <2>3 DEF CacheLocks, DeletionSticks, Guarded, FinalizeSteps
    <2>9. NoOrphan'
      BY <2>1, <2>2, <2>3, <2>4 DEF NoOrphan
    <2>10. QED  BY <2>5, <2>6, <2>7, <2>8, <2>9
  <1>3. QED  BY <1>1, <1>2 DEF TypeOK

LEMMA RemoveFinalizerStep == IInv /\ RemoveFinalizer => IInv'
  <1> SUFFICES ASSUME IInv, RemoveFinalizer PROVE IInv'
    OBVIOUS
  <1> USE DEF IInv
  <1>0. UNCHANGED <<childVars, budget>> /\ budget' \in [edits : Nat, disturb : Nat, faults : Nat]
    BY DEF RemoveFinalizer, TypeOK
  <1>1. CASE ~snapCurrent
    BY <1>0, <1>1, EndPassKeepsIInv DEF RemoveFinalizer, UpdateCR, Fail
  <1>2. CASE snapCurrent
    <2>1. /\ snap = cr /\ cr \in CR /\ cr.exists /\ cr.fin /\ cr.del /\ cr.uid \in Nat
          /\ pc = "finRemove"
      BY <1>2 DEF CopiesInSync, SnapFitsStep, RemoveFinalizer, TypeOK, FinalizeSteps, CR
    <2>2. /\ cr' = NoCR(cr.uid) /\ crCache' = crCache /\ crFresh' = FALSE
          /\ snapCurrent' = FALSE
          /\ pc' = "idle" /\ snap' = NoCR(0) /\ attempt' = 0 /\ result' = "ok"
          /\ queued' \in BOOLEAN
      BY <1>2, <2>1 DEF RemoveFinalizer, UpdateCR, WriteCR, EndPass, TypeOK
    <2>3. /\ child' = child /\ cache' = cache /\ fresh' = fresh /\ missed' = missed
          /\ budget' = budget
      BY <1>0 DEF childVars
    <2>4. TypeOK'
      <3>1. snap' \in CR /\ pc' \in Steps /\ attempt' \in 0 .. MaxRetries - 1
        BY <2>1, <2>2, <2>3, NoCRType, ConstantsAssumption DEF Steps
      <3>2. cr' \in CR
        BY <2>1, <2>2, <2>3, NoCRType
      <3>3. QED  BY <2>1, <2>2, <2>3, <3>1, <3>2 DEF TypeOK
    <2>5. CopiesInSync' /\ ResourceShape'
      BY <2>1, <2>2, <2>3, NoCRType DEF CopiesInSync, ResourceShape, Specified
    <2>6. SnapFitsStep' /\ FinalizerLock' /\ FinalizedSoFar'
      BY <2>2 DEF SnapFitsStep, FinalizerLock, FinalizedSoFar, FinalizeSteps, ApplySteps
    <2>7. ~Guarded(crCache)
      BY <2>1 DEF CacheLocks, DeletionSticks, Guarded, FinalizeSteps
    <2>8. CacheLocks' /\ DeletionSticks'
      BY <2>1, <2>2, <2>7, NoCRType DEF CacheLocks, DeletionSticks, Guarded, FinalizeSteps
    <2>9. \A k \in Finalized : ~child[k].exists
      BY <2>1 DEF FinalizedSoFar, Finalized
    <2>10. NoOrphan'
      BY <2>3, <2>9 DEF NoOrphan
    <2>11. QED  BY <2>4, <2>5, <2>6, <2>8, <2>10
  <1>3. QED  BY <1>1, <1>2 DEF TypeOK

LEMMA UpdateStatusStep == IInv /\ UpdateStatus => IInv'
  <1> SUFFICES ASSUME IInv, UpdateStatus PROVE IInv'
    OBVIOUS
  <1> USE DEF IInv
  <1> DEFINE new == StatusOf(cr)
  <1>0. UNCHANGED <<childVars, budget>> /\ budget' \in [edits : Nat, disturb : Nat, faults : Nat]
    BY DEF UpdateStatus, TypeOK
  <1>1. CASE UNCHANGED crVars /\ snapCurrent' = FALSE /\ \E r \in {"ok", "error"} : EndPass(r)
    BY <1>0, <1>1, EndPassKeepsIInv
  <1>2. CASE WriteCR(new) /\ EndPass("ok")
    <2>1. cr \in CR /\ cr.exists /\ cr.fin /\ snap.cfg \in Configs
      BY DEF UpdateStatus, FinalizerLock, SnapFitsStep, ApplySteps, TypeOK, ResourceShape,
             Specified, Guarded
    <2>2. NewURLs(snap.cfg) \in AllURLs
      BY <2>1 DEF AllURLs
    <2>3. /\ new \in CR /\ new.uid = cr.uid /\ new.exists /\ new.fin /\ new.del = cr.del
          /\ new.cfg = cr.cfg
      BY <2>1, <2>2 DEF CR, StatusOf
    <2>4. /\ cr' = new /\ crCache' = crCache /\ crFresh' = FALSE /\ snapCurrent' = FALSE
          /\ pc' = "idle" /\ snap' = NoCR(0) /\ attempt' = 0 /\ result' = "ok"
          /\ queued' \in BOOLEAN
      BY <1>2 DEF WriteCR, EndPass, TypeOK
    <2>5. /\ child' = child /\ cache' = cache /\ fresh' = fresh /\ missed' = missed
          /\ budget' = budget
      BY <1>0 DEF childVars
    <2> HIDE DEF new
    <2>6. TypeOK'
      <3>1. snap' \in CR /\ pc' \in Steps /\ attempt' \in 0 .. MaxRetries - 1
        BY <2>3, <2>4, <2>5, NoCRType, ConstantsAssumption DEF Steps
      <3>2. cr' \in CR
        BY <2>3, <2>4, <2>5, NoCRType
      <3>3. QED  BY <2>3, <2>4, <2>5, <3>1, <3>2 DEF TypeOK
    <2>7. CopiesInSync' /\ ResourceShape'
      BY <2>1, <2>3, <2>4, <2>5, NoCRType DEF CopiesInSync, ResourceShape, Specified, CR
    <2>8. SnapFitsStep' /\ FinalizerLock' /\ FinalizedSoFar'
      BY <2>4 DEF SnapFitsStep, FinalizerLock, FinalizedSoFar, FinalizeSteps, ApplySteps
    <2>9. CacheLocks' /\ DeletionSticks'
      BY <2>1, <2>3, <2>4 DEF CacheLocks, DeletionSticks, Guarded, FinalizeSteps
    <2>10. NoOrphan'
      BY <2>1, <2>3, <2>4, <2>5 DEF NoOrphan
    <2>11. QED  BY <2>6, <2>7, <2>8, <2>9, <2>10
  <1>3. QED  BY <1>1, <1>2 DEF UpdateStatus, UpdateCR, Fail

-----------------------------------------------------------------------------
(* The beginning of a pass, the informers, the other clients' writes of    *)
(* children, and the restart.                                              *)
LEMMA BeginPassStep == IInv /\ BeginPass => IInv'
  <1> SUFFICES ASSUME IInv, BeginPass PROVE IInv'
    OBVIOUS
  <1> USE DEF IInv
  <1>1. /\ cr' = cr /\ crCache' = crCache /\ crFresh' = crFresh /\ budget' = budget
        /\ child' = child /\ cache' = cache /\ fresh' = fresh /\ missed' = missed
        /\ attempt' = attempt /\ queued' = FALSE /\ pc' = FirstStep(crCache)
        /\ cr \in CR /\ crCache \in CR
    BY DEF BeginPass, crVars, childVars, TypeOK
  <1>2. CASE FirstStep(crCache) = "idle"
    <2>1. snap' = NoCR(0) /\ snapCurrent' = FALSE /\ result' = "ok" /\ pc' = "idle"
      BY <1>1, <1>2 DEF BeginPass
    <2>2. snap' \in CR /\ pc' \in Steps
      BY <2>1, NoCRType DEF Steps
    <2>3. TypeOK'
      BY <1>1, <2>1, <2>2 DEF TypeOK
    <2>4. CopiesInSync' /\ ResourceShape'
      BY <1>1, <2>1, NoCRType DEF CopiesInSync, ResourceShape, Specified, CR
    <2>5. SnapFitsStep' /\ FinalizerLock' /\ FinalizedSoFar' /\ CacheLocks' /\ DeletionSticks'
      BY <1>1, <2>1 DEF SnapFitsStep, FinalizerLock, FinalizedSoFar, CacheLocks, DeletionSticks,
                        FinalizeSteps, ApplySteps, Guarded
    <2>6. NoOrphan'
      BY <1>1 DEF NoOrphan
    <2>7. QED  BY <2>3, <2>4, <2>5, <2>6
  <1>3. CASE FirstStep(crCache) # "idle"
    <2>1. snap' = crCache /\ snapCurrent' = crFresh /\ result' = "none"
      BY <1>3 DEF BeginPass
    <2>2. /\ crCache.exists
          /\ \/ pc' = "finDeployment" /\ crCache.fin /\ crCache.del
             \/ pc' = "addFinalizer" /\ ~crCache.fin /\ ~crCache.del
             \/ pc' \in {"database", "deployment"} /\ crCache.fin /\ ~crCache.del
      BY <1>1, <1>3 DEF FirstStep, CR
    <2>3. TypeOK'
      <3>1. pc' \in Steps
        BY <2>2 DEF Steps, FinalizeSteps, ApplySteps
      <3>2. QED  BY <1>1, <2>1, <3>1 DEF TypeOK
    <2>4. CopiesInSync' /\ ResourceShape'
      BY <1>1, <1>3, <2>1 DEF CopiesInSync, ResourceShape, Specified
    <2>5. SnapFitsStep' /\ FinalizedSoFar'
      BY <1>1, <2>1, <2>2 DEF SnapFitsStep, FinalizedSoFar, FinalizeSteps, ApplySteps, Guarded
    <2>6. FinalizerLock' /\ CacheLocks'
      BY <1>1, <2>1, <2>2 DEF FinalizerLock, CacheLocks, ApplySteps, Guarded
    <2>7. DeletionSticks'
      BY <1>1, <2>1, <2>2 DEF DeletionSticks, FinalizeSteps
    <2>8. NoOrphan'
      BY <1>1 DEF NoOrphan
    <2>9. QED  BY <2>3, <2>4, <2>5, <2>6, <2>7, <2>8
  <1>4. QED  BY <1>2, <1>3

LEMMA SyncCRStep == IInv /\ SyncCR => IInv'
  <1> SUFFICES ASSUME IInv, SyncCR PROVE IInv'
    OBVIOUS
  <1> USE DEF IInv
  <1>1. /\ cr' = cr /\ crCache' = cr /\ crFresh' = TRUE /\ budget' = budget
        /\ child' = child /\ cache' = cache /\ fresh' = fresh /\ missed' = missed
        /\ pc' = pc /\ snap' = snap /\ attempt' = attempt /\ result' = result
        /\ queued' = TRUE /\ snapCurrent' = snapCurrent
    BY DEF SyncCR, childVars, passVars
  <1>2. TypeOK' /\ CopiesInSync'
    BY <1>1 DEF TypeOK, CopiesInSync
  <1>3. ResourceShape'
    BY <1>1 DEF ResourceShape, Specified, TypeOK, CR
  <1>4. SnapFitsStep' /\ FinalizerLock' /\ FinalizedSoFar' /\ CacheLocks'
    BY <1>1 DEF SnapFitsStep, FinalizerLock, FinalizedSoFar, CacheLocks, Guarded
  <1>5. DeletionSticks' /\ NoOrphan'
    BY <1>1 DEF DeletionSticks, NoOrphan
  <1>6. QED  BY <1>2, <1>3, <1>4, <1>5

(* A step that touches neither the resource nor the pass, and takes away   *)
(* children or leaves their owners as they are.                            *)
LEMMA ChildrenMovedKeepsIInv ==
  ASSUME IInv, UNCHANGED <<crVars, passVars, snapCurrent>>,
         queued' \in BOOLEAN, budget' \in [edits : Nat, disturb : Nat, faults : Nat],
         child' \in [Kinds -> Child], cache' \in [Kinds -> Child],
         fresh' \in [Kinds -> BOOLEAN], missed' \in [Kinds -> BOOLEAN],
         \A j \in Kinds : fresh'[j] => cache'[j] = child'[j],
         \A j \in Kinds : child'[j].exists => child[j].exists /\ child'[j].owner = child[j].owner
  PROVE  IInv'
  <1> USE DEF IInv
  <1>1. /\ cr' = cr /\ crCache' = crCache /\ crFresh' = crFresh
        /\ pc' = pc /\ snap' = snap /\ attempt' = attempt /\ result' = result
        /\ snapCurrent' = snapCurrent
    BY DEF crVars, passVars
  <1>2. TypeOK' /\ CopiesInSync'
    BY <1>1 DEF TypeOK, CopiesInSync
  <1>3. ResourceShape' /\ SnapFitsStep' /\ FinalizerLock' /\ CacheLocks' /\ DeletionSticks'
    BY <1>1 DEF ResourceShape, Specified, SnapFitsStep, FinalizerLock, CacheLocks, DeletionSticks,
                Guarded
  <1>4. FinalizedSoFar' /\ NoOrphan'
    BY <1>1 DEF FinalizedSoFar, NoOrphan, Finalized, Kinds
  <1>5. QED  BY <1>2, <1>3, <1>4

LEMMA SyncChildStep ==
  ASSUME IInv, NEW k \in Kinds, SyncChild(k)
  PROVE  IInv'
  <1>1. /\ child' = child /\ budget' = budget
        /\ cache' = [cache EXCEPT ![k] = child[k]] /\ fresh' = [fresh EXCEPT ![k] = TRUE]
        /\ missed' = [missed EXCEPT ![k] = FALSE]
    BY DEF SyncChild
  <1>2. queued' \in BOOLEAN
    <2>1. queued' = (queued \/ Enqueues(k))
      BY DEF SyncChild
    <2>2. QED  BY <2>1
  <1>3. child \in [Kinds -> Child] /\ cache \in [Kinds -> Child]
        /\ fresh \in [Kinds -> BOOLEAN] /\ missed \in [Kinds -> BOOLEAN]
        /\ \A j \in Kinds : fresh[j] => cache[j] = child[j]
        /\ budget \in [edits : Nat, disturb : Nat, faults : Nat]
    BY DEF IInv, TypeOK, CopiesInSync
  <1>4. /\ child' \in [Kinds -> Child] /\ cache' \in [Kinds -> Child]
        /\ fresh' \in [Kinds -> BOOLEAN] /\ missed' \in [Kinds -> BOOLEAN]
        /\ \A j \in Kinds : fresh'[j] => cache'[j] = child'[j]
    BY <1>1, <1>3
  <1>5. UNCHANGED <<crVars, passVars, snapCurrent>>
    BY DEF SyncChild
  <1>6. budget' \in [edits : Nat, disturb : Nat, faults : Nat]
    BY DEF SyncChild, IInv, TypeOK
  <1>7. \A j \in Kinds : child'[j].exists => child[j].exists /\ child'[j].owner = child[j].owner
    <2>1. child' = child
      BY <1>1
    <2>2. QED  BY <2>1
  <1>8. QED  BY <1>2, <1>4, <1>5, <1>6, <1>7, ChildrenMovedKeepsIInv

LEMMA CollectGarbageStep ==
  ASSUME IInv, NEW k \in Kinds, CollectGarbage(k)
  PROVE  IInv'
  <1>1. TypeOK /\ CopiesInSync /\ WriteChild(k, NoChild) /\ UNCHANGED <<queued, budget>>
    BY DEF IInv, CollectGarbage
  <1>2. queued' \in BOOLEAN /\ budget' \in [edits : Nat, disturb : Nat, faults : Nat]
    BY <1>1 DEF TypeOK
  <1>3. /\ child' \in [Kinds -> Child] /\ cache' \in [Kinds -> Child]
        /\ fresh' \in [Kinds -> BOOLEAN] /\ missed' \in [Kinds -> BOOLEAN]
        /\ \A j \in Kinds : fresh'[j] => cache'[j] = child'[j]
        /\ child'[k] = NoChild /\ \A j \in Kinds \ {k} : child'[j] = child[j]
    BY <1>1, WriteChildFacts, NoChildType DEF TypeOK
  <1>4. QED  BY <1>2, <1>3, NoChildType, ChildrenMovedKeepsIInv DEF CollectGarbage

LEMMA TouchChildStep ==
  ASSUME IInv, NEW k \in Kinds, TouchChild(k)
  PROVE  IInv'
  <1>1. /\ child' = child /\ cache' = cache /\ queued' = queued
        /\ fresh' = [fresh EXCEPT ![k] = FALSE] /\ missed' \in [Kinds -> BOOLEAN]
    BY DEF TouchChild, IInv, TypeOK
  <1>2. budget' \in [edits : Nat, disturb : Nat, faults : Nat]
    BY DEF TouchChild, IInv, TypeOK
  <1>3. child \in [Kinds -> Child] /\ cache \in [Kinds -> Child] /\ queued \in BOOLEAN
        /\ fresh \in [Kinds -> BOOLEAN] /\ \A j \in Kinds : fresh[j] => cache[j] = child[j]
    BY DEF IInv, TypeOK, CopiesInSync
  <1>4. fresh' \in [Kinds -> BOOLEAN] /\ \A j \in Kinds : fresh'[j] => cache'[j] = child'[j]
    BY <1>1, <1>3
  <1>5. QED  BY <1>1, <1>2, <1>3, <1>4, ChildrenMovedKeepsIInv DEF TouchChild

LEMMA DisturbChildStep ==
  ASSUME IInv, NEW k \in Kinds, DisturbChild(k)
  PROVE  IInv'
  <1>1. PICK new \in {NoChild, [child[k] EXCEPT !.content = Drift]} : WriteChild(k, new)
    BY DEF DisturbChild
  <1>2. TypeOK /\ CopiesInSync /\ child[k] \in Child /\ child[k].exists /\ queued' = queued
    BY DEF IInv, TypeOK, DisturbChild
  <1>3. new \in Child /\ (new.exists => new.owner = child[k].owner)
    BY <1>1, <1>2, NoChildType DEF Child, Contents
  <1>4. queued' \in BOOLEAN /\ budget' \in [edits : Nat, disturb : Nat, faults : Nat]
    BY <1>2 DEF DisturbChild, TypeOK
  <1>5. /\ child' \in [Kinds -> Child] /\ cache' \in [Kinds -> Child]
        /\ fresh' \in [Kinds -> BOOLEAN] /\ missed' \in [Kinds -> BOOLEAN]
        /\ \A j \in Kinds : fresh'[j] => cache'[j] = child'[j]
        /\ child'[k] = new /\ \A j \in Kinds \ {k} : child'[j] = child[j]
    BY <1>1, <1>2, <1>3, WriteChildFacts DEF TypeOK
  <1>6. QED  BY <1>2, <1>3, <1>4, <1>5, ChildrenMovedKeepsIInv DEF DisturbChild

LEMMA CrashStep == IInv /\ Crash => IInv'
  <1> SUFFICES ASSUME IInv, Crash PROVE IInv'
    OBVIOUS
  <1> USE DEF IInv
  <1>1. /\ cr' = cr /\ crCache' = cr /\ crFresh' = TRUE /\ child' = child /\ cache' = child
        /\ fresh' = [k \in Kinds |-> TRUE] /\ missed' = [k \in Kinds |-> FALSE]
        /\ pc' = "idle" /\ snap' = NoCR(0) /\ snapCurrent' = FALSE /\ attempt' = 0
        /\ result' = "none"
    BY DEF Crash
  <1>2. queued' \in BOOLEAN
    <2>1. queued' = (cr.exists \/ \E k \in Kinds : child[k].owner # 0)
      BY DEF Crash
    <2>2. QED  BY <2>1
  <1>3. budget' \in [edits : Nat, disturb : Nat, faults : Nat]
    BY DEF Crash, TypeOK
  <1>4. snap' \in CR /\ pc' \in Steps /\ attempt' \in 0 .. MaxRetries - 1
    BY <1>1, NoCRType, ConstantsAssumption DEF Steps
  <1>5. fresh' \in [Kinds -> BOOLEAN] /\ missed' \in [Kinds -> BOOLEAN]
    BY <1>1
  <1>6. TypeOK'
    BY <1>1, <1>2, <1>3, <1>4, <1>5 DEF TypeOK
  <1>7. CopiesInSync' /\ ResourceShape'
    BY <1>1, NoCRType DEF CopiesInSync, ResourceShape, Specified, TypeOK, CR
  <1>8. SnapFitsStep' /\ FinalizerLock' /\ FinalizedSoFar' /\ CacheLocks' /\ DeletionSticks'
    BY <1>1 DEF SnapFitsStep, FinalizerLock, FinalizedSoFar, CacheLocks, DeletionSticks,
                FinalizeSteps, ApplySteps, Guarded
  <1>9. NoOrphan'
    BY <1>1 DEF NoOrphan
  <1>10. QED  BY <1>6, <1>7, <1>8, <1>9

-----------------------------------------------------------------------------
(* The theorems.                                                           *)

LEMMA InitIInv == Init => IInv
  <1> SUFFICES ASSUME Init PROVE IInv
    OBVIOUS
  <1>1. TypeOK
    <2>1. NoCR(0) \in CR /\ NoChild \in Child
      BY NoCRType, NoChildType
    <2>2. pc \in Steps /\ attempt \in 0 .. MaxRetries - 1
      BY ConstantsAssumption DEF Init, Steps
    <2>3. budget \in [edits : Nat, disturb : Nat, faults : Nat]
      BY ConstantsAssumption DEF Init
    <2>4. child \in [Kinds -> Child] /\ cache \in [Kinds -> Child]
      BY <2>1 DEF Init
    <2>5. fresh \in [Kinds -> BOOLEAN] /\ missed \in [Kinds -> BOOLEAN]
      BY DEF Init
    <2>6. QED  BY <2>1, <2>2, <2>3, <2>4, <2>5 DEF Init, TypeOK
  <1>2. CopiesInSync /\ ResourceShape
    BY NoCRType DEF Init, CopiesInSync, ResourceShape, Specified
  <1>3. SnapFitsStep /\ FinalizerLock /\ FinalizedSoFar /\ CacheLocks /\ DeletionSticks
    BY NoCRType DEF Init, SnapFitsStep, FinalizerLock, FinalizedSoFar, CacheLocks, DeletionSticks,
                FinalizeSteps, ApplySteps, Guarded
  <1>4. NoOrphan
    BY NoChildType DEF Init, NoOrphan, Finalized, Kinds
  <1>5. QED  BY <1>1, <1>2, <1>3, <1>4 DEF IInv

LEMMA StutterIInv == IInv /\ UNCHANGED vars => IInv'
  BY DEF IInv, vars, crVars, childVars, passVars, TypeOK, CopiesInSync, ResourceShape, Specified,
         SnapFitsStep, CacheLocks, Guarded, DeletionSticks, FinalizerLock, FinalizedSoFar, NoOrphan

LEMMA NextIInv == IInv /\ [Next]_vars => IInv'
  <1> SUFFICES ASSUME IInv, [Next]_vars PROVE IInv'
    OBVIOUS
  <1>1. CASE Worker
    BY <1>1, BeginPassStep, AddFinalizerStep, FinalizeChildStep, RemoveFinalizerStep,
       ReconcileDeploymentStep, ReconcileServiceStep, CleanServiceStep, ReconcileIngressStep,
       ReconcileDatabaseStep, UpdateStatusStep DEF Worker
  <1>2. CASE Cluster
    BY <1>2, SyncCRStep, SyncChildStep, CollectGarbageStep DEF Cluster
  <1>3. CASE Clients
    BY <1>3, CreateCRStep, EditCRStep, DeleteCRStep, TouchChildStep, DisturbChildStep DEF Clients
  <1>4. CASE CallFails \/ Crash
    BY <1>4, CallFailsStep, CrashStep
  <1>5. CASE UNCHANGED vars
    BY <1>5, StutterIInv
  <1>6. QED  BY <1>1, <1>2, <1>3, <1>4, <1>5 DEF Next

(* The finalizer protocol's invariant holds in every reachable state.      *)
THEOREM Invariance == Spec => []IInv
  BY InitIInv, NextIInv, PTL DEF Spec

(* Every variable keeps its type: in particular no retry loop runs past    *)
(* maxRetries and no pass stands at a call the code does not make.         *)
THEOREM TypeCorrect == Spec => []TypeOK
  <1>1. IInv => TypeOK
    BY DEF IInv
  <1>2. QED  BY <1>1, Invariance, PTL

(* While a pass applies children the resource it applies them for exists   *)
(* and is held by the finalizer (service_controller.go:121-157).           *)
THEOREM LockHolds == Spec => []FinalizerLock
  <1>1. IInv => FinalizerLock
    BY DEF IInv
  <1>2. QED  BY <1>1, Invariance, PTL

(* No Deployment, base Service or Ingress outlives the resource, whatever  *)
(* the caches, the failures and the other clients do (:191-234).           *)
THEOREM NothingOrphaned == Spec => []NoOrphan
  <1>1. IInv => NoOrphan
    BY DEF IInv
  <1>2. QED  BY <1>1, Invariance, PTL

-----------------------------------------------------------------------------
(* What one step may do to the resource.                                   *)

(* Everything but the writes of the resource leaves it alone.              *)
LEMMA OthersKeepCR ==
  ASSUME Next, cr' # cr
  PROVE  CreateCR \/ EditCR \/ DeleteCR \/ AddFinalizer \/ RemoveFinalizer \/ UpdateStatus
  BY DEF Next, Worker, Cluster, Clients, BeginPass, FinalizeChild, ReconcileDeployment,
         ReconcileService, CleanService, ReconcileIngress, ReconcileDatabase, CallFails, Crash,
         SyncCR, SyncChild, CollectGarbage, TouchChild, DisturbChild, crVars

(* The life of the resource as a step sees it: how each write of it        *)
(* changes it.                                                             *)
ResourceStep ==
  \/ /\ ~cr.exists /\ cr'.exists /\ ~cr'.fin /\ ~cr'.del /\ cr'.uid = cr.uid + 1
  \/ /\ cr.exists /\ ~cr.fin /\ ~cr.del /\ ~cr'.exists
  \/ /\ pc = "finRemove" /\ cr.exists /\ cr.fin /\ cr.del /\ ~cr'.exists
  \/ /\ cr.exists /\ cr'.exists
     /\ cr.fin => cr'.fin
     /\ cr.del => cr'.del
     /\ cr'.del => cr.fin
     /\ cr'.fin # cr.fin => ~cr.del /\ ~cr'.del
     /\ cr'.cfg # cr.cfg => budget'.edits < budget.edits
     /\ cr'.urls # cr.urls => cr'.urls = NewURLs(cr.cfg)

LEMMA WritesOfResource ==
  ASSUME IInv, Next, cr' # cr
  PROVE  ResourceStep /\ child' = child
  <1> USE DEF IInv
  <1>0. cr \in CR /\ cr.uid \in Nat /\ budget \in [edits : Nat, disturb : Nat, faults : Nat]
        /\ (cr.fin \/ cr.del => cr.exists) /\ (cr.del => cr.fin)
    BY DEF TypeOK, CR, ResourceShape
  <1>1. CASE CreateCR
    <2>1. child' = child /\ ~cr.exists
      BY <1>1 DEF CreateCR, childVars
    <2>2. PICK c \in Configs : cr' = [NoCR(cr.uid + 1) EXCEPT !.exists = TRUE, !.cfg = c]
      BY <1>1 DEF CreateCR, WriteCR
    <2>3. cr.uid + 1 \in Nat
      BY <1>0
    <2>4. /\ NoCR(cr.uid + 1) \in CR /\ NoCR(cr.uid + 1).uid = cr.uid + 1
          /\ ~NoCR(cr.uid + 1).fin /\ ~NoCR(cr.uid + 1).del
      BY <2>3, NoCRType
    <2>5. cr'.exists /\ ~cr'.fin /\ ~cr'.del /\ cr'.uid = cr.uid + 1
      BY <2>2, <2>4 DEF CR
    <2>6. QED  BY <2>1, <2>5 DEF ResourceStep
  <1>2. CASE EditCR
    <2>1. child' = child /\ cr.exists /\ budget.edits > 0
          /\ budget' = [budget EXCEPT !.edits = @ - 1]
      BY <1>2 DEF EditCR, childVars
    <2>2. PICK c \in Configs : cr' = [cr EXCEPT !.cfg = c]
      BY <1>2 DEF EditCR, WriteCR
    <2>3. budget'.edits < budget.edits
      BY <1>0, <2>1
    <2>4. /\ cr'.exists = cr.exists /\ cr'.fin = cr.fin /\ cr'.del = cr.del
          /\ cr'.urls = cr.urls
      BY <1>0, <2>2 DEF CR
    <2>5. QED  BY <1>0, <2>1, <2>3, <2>4 DEF ResourceStep
  <1>3. CASE DeleteCR
    <2>1. child' = child /\ cr.exists /\ ~cr.del
      BY <1>3 DEF DeleteCR, childVars
    <2>2. CASE cr.fin
      <3>1. cr' = [cr EXCEPT !.del = TRUE]
        BY <1>3, <2>2 DEF DeleteCR, WriteCR
      <3>2. cr'.exists = cr.exists /\ cr'.fin = cr.fin /\ cr'.cfg = cr.cfg /\ cr'.urls = cr.urls
        BY <1>0, <3>1 DEF CR
      <3>3. QED  BY <2>1, <2>2, <3>2 DEF ResourceStep
    <2>3. CASE ~cr.fin
      <3>1. cr' = NoCR(cr.uid)
        BY <1>3, <2>3 DEF DeleteCR, WriteCR
      <3>2. QED  BY <1>0, <2>1, <2>3, <3>1, NoCRType DEF ResourceStep
    <2>4. QED  BY <2>2, <2>3
  <1>4. CASE AddFinalizer
    <2>1. child' = child /\ snapCurrent /\ snap = cr /\ cr.exists /\ ~cr.fin /\ ~cr.del
      BY <1>4 DEF AddFinalizer, UpdateCR, childVars, crVars, CopiesInSync, SnapFitsStep
    <2>2. cr' = [cr EXCEPT !.fin = TRUE, !.ready = cr.ready, !.urls = cr.urls]
      BY <1>4, <2>1 DEF AddFinalizer, UpdateCR, WriteCR
    <2>3. cr'.exists /\ cr'.fin /\ ~cr'.del /\ cr'.cfg = cr.cfg /\ cr'.urls = cr.urls
      BY <1>0, <2>1, <2>2 DEF CR
    <2>4. QED  BY <2>1, <2>3 DEF ResourceStep
  <1>5. CASE RemoveFinalizer
    <2>1. child' = child /\ snapCurrent /\ snap = cr /\ cr.exists /\ cr.fin /\ cr.del
          /\ pc = "finRemove"
      BY <1>5 DEF RemoveFinalizer, UpdateCR, childVars, crVars, CopiesInSync, SnapFitsStep,
                  FinalizeSteps
    <2>2. cr' = NoCR(cr.uid)
      BY <1>5, <2>1 DEF RemoveFinalizer, UpdateCR, WriteCR
    <2>3. QED  BY <1>0, <2>1, <2>2, NoCRType DEF ResourceStep
  <1>6. CASE UpdateStatus
    <2>1. child' = child /\ snapCurrent /\ snap = cr /\ cr.exists /\ cr.fin
      BY <1>6 DEF UpdateStatus, UpdateCR, childVars, crVars, CopiesInSync, FinalizerLock,
                  ApplySteps
    <2>2. cr' = [cr EXCEPT !.ready = TRUE, !.urls = NewURLs(cr.cfg)]
      BY <1>6, <2>1 DEF UpdateStatus, UpdateCR, WriteCR, StatusOf, crVars
    <2>3. /\ cr'.exists = cr.exists /\ cr'.fin = cr.fin /\ cr'.del = cr.del
          /\ cr'.cfg = cr.cfg /\ cr'.urls = NewURLs(cr.cfg)
      BY <1>0, <2>2 DEF CR
    <2>4. QED  BY <1>0, <2>1, <2>3 DEF ResourceStep
  <1>7. QED  BY <1>1, <1>2, <1>3, <1>4, <1>5, <1>6, OthersKeepCR

(* The URLs a pass announces are those of the spec it finds when it writes *)
(* them, however stale the copy it started from (:161-185).                *)
THEOREM StatusTrue == Spec => StatusMatchesSpec
  <1>1. IInv /\ [Next]_vars =>
          [cr.exists /\ cr'.exists /\ cr'.urls # cr.urls => cr'.urls = NewURLs(cr.cfg)]_vars
    BY WritesOfResource DEF ResourceStep, vars, crVars
  <1>2. QED  BY <1>1, Invariance, PTL DEF Spec, StatusMatchesSpec

(* No write of the controller undoes a client's edit of the spec or brings *)
(* a resource back (:112, :123).                                           *)
THEOREM EditsKept == Spec => NoLostEdit
  <1> DEFINE A == /\ cr.exists /\ cr'.exists /\ cr'.cfg # cr.cfg => budget'.edits < budget.edits
                  /\ ~cr.exists /\ cr'.exists => cr'.uid = cr.uid + 1
  <1>1. IInv /\ [Next]_vars => [A]_vars
    BY WritesOfResource DEF ResourceStep, vars, crVars
  <1>2. QED  BY <1>1, Invariance, PTL DEF Spec, NoLostEdit

-----------------------------------------------------------------------------
(* The controller implements the life cycle.                               *)

LEMMA PhaseFacts ==
  /\ ~cr.exists => Phase = "absent"
  /\ cr.exists /\ cr.del => Phase = "deleting"
  /\ cr.exists /\ ~cr.del /\ cr.fin => Phase = "guarded"
  /\ cr.exists /\ ~cr.del /\ ~cr.fin => Phase = "bare"
  BY DEF Phase

LEMMA PhaseFactsPrimed ==
  /\ ~cr'.exists => Phase' = "absent"
  /\ cr'.exists /\ cr'.del => Phase' = "deleting"
  /\ cr'.exists /\ ~cr'.del /\ cr'.fin => Phase' = "guarded"
  /\ cr'.exists /\ ~cr'.del /\ ~cr'.fin => Phase' = "bare"
  BY DEF Phase

(* A step of the API server on one child at most.                          *)
OneChild(k) == \A j \in Kinds \ {k} : child'[j] = child[j]

LEMMA WriteOneChild ==
  ASSUME TypeOK, NEW k \in Kinds, NEW new, WriteChild(k, new)
  PROVE  OneChild(k)
  BY DEF WriteChild, OneChild, TypeOK

LEMMA ApplyOneChild ==
  ASSUME TypeOK, NEW k \in Kinds,
         Apply(k) \/ RemoveChild(k) \/ UNCHANGED childVars
  PROVE  OneChild(k)
  <1>1. CASE UNCHANGED childVars
    BY <1>1 DEF childVars, OneChild
  <1>2. CASE Apply(k)
    BY <1>1, <1>2, WriteOneChild DEF Apply, CreateChild, KeepChild, UpdateChild
  <1>3. CASE RemoveChild(k)
    BY <1>1, <1>3, WriteOneChild DEF RemoveChild
  <1>4. QED  BY <1>1, <1>2, <1>3

(* A step that changes a child changes one, and brings it into being only  *)
(* for a resource that holds the finalizer.                                *)
LEMMA WritesOfChildren ==
  ASSUME IInv, Next, child' # child
  PROVE  \E k \in Kinds : OneChild(k) /\ (child'[k].exists => child[k].exists \/ (cr.exists /\ cr.fin))
  <1> USE DEF IInv
  <1>1. CASE pc \in ApplySteps /\ (ReconcileDeployment \/ ReconcileService \/ CleanService
                                     \/ ReconcileIngress)
    <2>1. cr.exists /\ cr.fin
      BY <1>1 DEF FinalizerLock
    <2>2. PICK k \in Kinds : Apply(k) \/ RemoveChild(k) \/ UNCHANGED childVars
      <3>1. CASE ReconcileDeployment
        BY <3>1 DEF ReconcileDeployment, Kinds
      <3>2. CASE ReconcileService
        BY <3>2 DEF ReconcileService, Kinds, Services
      <3>3. CASE CleanService
        <4>1. KindOf[pc] \in Kinds
          BY <3>3 DEF CleanService, KindOf, Kinds
        <4>2. QED  BY <3>3, <4>1 DEF CleanService
      <3>4. CASE ReconcileIngress
        BY <3>4 DEF ReconcileIngress, Kinds
      <3>5. QED  BY <1>1, <3>1, <3>2, <3>3, <3>4
    <2>3. QED  BY <2>1, <2>2, ApplyOneChild
  <1>2. CASE FinalizeChild
    <2>1. KindOf[pc] \in Kinds /\ WriteChild(KindOf[pc], NoChild)
      BY <1>2 DEF FinalizeChild, KindOf, Kinds
    <2>2. QED  BY <2>1, WriteChildFacts, WriteOneChild, NoChildType
  <1>3. ASSUME NEW k \in Kinds, CollectGarbage(k)
        PROVE  \E j \in Kinds : OneChild(j) /\ (child'[j].exists => child[j].exists)
    BY <1>3, WriteChildFacts, WriteOneChild, NoChildType DEF CollectGarbage
  <1>4. ASSUME NEW k \in Kinds, DisturbChild(k)
        PROVE  \E j \in Kinds : OneChild(j) /\ (child'[j].exists => child[j].exists)
    BY <1>4, WriteOneChild DEF DisturbChild
  <1>5. ReconcileDeployment \/ ReconcileService \/ CleanService \/ ReconcileIngress => pc \in ApplySteps
    BY DEF ReconcileDeployment, ReconcileService, CleanService, ReconcileIngress, ApplySteps,
           Services
  <1>6. \/ ReconcileDeployment \/ ReconcileService \/ CleanService \/ ReconcileIngress
        \/ FinalizeChild
        \/ \E k \in Kinds : CollectGarbage(k) \/ DisturbChild(k)
    BY DEF Next, Worker, Cluster, Clients, BeginPass, AddFinalizer, RemoveFinalizer, UpdateStatus,
           ReconcileDatabase, CallFails, Crash, SyncCR, SyncChild, TouchChild, CreateCR, EditCR,
           DeleteCR, childVars
  <1>7. QED  BY <1>1, <1>2, <1>3, <1>4, <1>5, <1>6

(* The controller, with its caches, its failures and its clients,          *)
(* implements the finalizer's life cycle (:92-128, :191-234).              *)
THEOREM ImplementsLifecycle == Spec => LifecycleImplemented
  <1>1. Init => Abstract!Init
    <2> SUFFICES ASSUME Init PROVE Abstract!Init
      OBVIOUS
    <2>1. ~cr.exists /\ \A k \in Kinds : ~child[k].exists
      BY NoCRType, NoChildType DEF Init
    <2>2. QED  BY <2>1, PhaseFacts DEF Abstract!Init, Present
  <1>2. IInv /\ [Next]_vars => [Abstract!Next]_(Abstract!vars)
    <2> SUFFICES ASSUME IInv, [Next]_vars, ~UNCHANGED Abstract!vars PROVE Abstract!Next
      OBVIOUS
    <2>1. cr' = cr => Phase' = Phase
      BY DEF Phase
    <2>2. child' = child => Present' = Present
      BY DEF Present
    <2>3. Next /\ (cr' # cr \/ child' # child)
      BY <2>1, <2>2 DEF Abstract!vars, vars, crVars, childVars
    <2>4. CASE cr' # cr
      <3>1. ResourceStep /\ Present' = Present
        BY <2>2, <2>3, <2>4, WritesOfResource
      <3>2. Phase' # Phase
        BY <3>1 DEF Abstract!vars
      <3>3. ~cr.exists => ~cr.fin /\ ~cr.del
        BY DEF IInv, ResourceShape
      <3>4. CASE pc = "finRemove" /\ cr.exists /\ cr.fin /\ cr.del /\ ~cr'.exists
        <4>1. Present \cap Finalized = {}
          BY <3>4 DEF IInv, FinalizedSoFar, Present, Finalized
        <4>2. QED
          BY <3>1, <3>4, <4>1, PhaseFacts, PhaseFactsPrimed DEF Abstract!Next, Abstract!Release
      <3>5. CASE ~cr.exists /\ cr'.exists /\ ~cr'.fin /\ ~cr'.del
        BY <3>1, <3>5, PhaseFacts, PhaseFactsPrimed DEF Abstract!Next, Abstract!Create
      <3>6. CASE cr.exists /\ ~cr.fin /\ ~cr.del /\ ~cr'.exists
        BY <3>1, <3>6, PhaseFacts, PhaseFactsPrimed DEF Abstract!Next, Abstract!Discard
      <3>7. CASE cr.exists /\ cr'.exists /\ ~cr.fin
        <4>1. ~cr.del /\ ~cr'.del /\ cr'.fin
          BY <3>1, <3>2, <3>7, PhaseFacts, PhaseFactsPrimed DEF ResourceStep, IInv, ResourceShape
        <4>2. QED
          BY <3>1, <3>7, <4>1, PhaseFacts, PhaseFactsPrimed DEF Abstract!Next, Abstract!Guard
      <3>8. CASE cr.exists /\ cr'.exists /\ cr.fin
        <4>1. ~cr.del /\ cr'.del
          BY <3>1, <3>2, <3>8, PhaseFacts, PhaseFactsPrimed DEF ResourceStep
        <4>2. QED
          BY <3>1, <3>8, <4>1, PhaseFacts, PhaseFactsPrimed DEF Abstract!Next, Abstract!Delete
      <3>9. QED  BY <3>1, <3>4, <3>5, <3>6, <3>7, <3>8 DEF ResourceStep
    <2>5. CASE cr' = cr
      <3>1. Phase' = Phase /\ Present' # Present
        BY <2>1, <2>5 DEF Abstract!vars
      <3>2. PICK k \in Kinds : OneChild(k) /\
                  (child'[k].exists => child[k].exists \/ (cr.exists /\ cr.fin))
        BY <2>3, <2>5, WritesOfChildren
      <3>3. CASE child'[k].exists
        <4>1. ~child[k].exists
          BY <3>1, <3>2, <3>3 DEF Present, OneChild
        <4>2. Present' = Present \union {k} /\ k \notin Present
          BY <3>2, <3>3, <4>1 DEF Present, OneChild
        <4>3. Phase \in {"guarded", "deleting"}
          BY <3>2, <3>3, <4>1, PhaseFacts
        <4>4. QED  BY <3>1, <4>2, <4>3 DEF Abstract!Next, Abstract!Appear
      <3>4. CASE ~child'[k].exists
        <4>1. child[k].exists
          BY <3>1, <3>2, <3>4 DEF Present, OneChild
        <4>2. Present' = Present \ {k} /\ k \in Present
          BY <3>2, <3>4, <4>1 DEF Present, OneChild
        <4>3. QED  BY <3>1, <4>2 DEF Abstract!Next, Abstract!Vanish
      <3>5. QED  BY <3>3, <3>4
    <2>6. QED  BY <2>4, <2>5
  <1>3. QED  BY <1>1, <1>2, Invariance, PTL DEF Spec, LifecycleImplemented, Abstract!Spec

(* The resource goes away under no pass that applies its children, however *)
(* old the copy is that the pass works from (:103-118, :121-185):          *)
(* RuntimeObjects takes this for granted (Release).                        *)
HeldWhileApplied == [][cr.exists /\ ~cr'.exists => pc \notin ApplySteps]_vars

THEOREM ReleasedBetweenPasses == Spec => HeldWhileApplied
  <1>1. IInv /\ [Next]_vars => [cr.exists /\ ~cr'.exists => pc \notin ApplySteps]_vars
    <2> SUFFICES ASSUME IInv, Next, cr.exists, ~cr'.exists, pc \in ApplySteps PROVE FALSE
      OBVIOUS
    <2>1. cr.fin /\ pc # "finRemove"
      BY DEF IInv, FinalizerLock, ApplySteps
    <2>2. QED  BY <2>1, WritesOfResource DEF ResourceStep
  <1>2. QED  BY <1>1, Invariance, PTL DEF Spec, HeldWhileApplied

-----------------------------------------------------------------------------
(* Every pass ends.                                                        *)

(* The calls that follow the one a pass makes, at most.                    *)
CallsAfter ==
  CASE pc \in {"status", "addFinalizer", "finRemove"}  -> 0
    [] pc \in {"ingress", "database", "finIngress"}    -> 1
    [] pc \in {"cleanNodeport", "finBase"}             -> 2
    [] pc \in {"cleanBase", "finDeployment"}           -> 3
    [] pc = "base"                                     -> 4
    [] pc = "nodeport"                                 -> 5
    [] pc = "deployment"                               -> 6

(* Each may be made MaxRetries times.                                      *)
CallsLeft == IF pc = "idle" THEN 0 ELSE CallsAfter * MaxRetries + (MaxRetries - attempt)

(* Each call leaves the pass fewer to make, whatever it returns, and       *)
(* nothing that happens meanwhile gives it more: conflicts (:271-303,      *)
(* :364-447, :528-570) hold the only worker for a bounded number of calls. *)
PassesEnd ==
  [][pc # "idle" => CallsLeft' <= CallsLeft /\ (Worker => CallsLeft' < CallsLeft)]_vars

LEMMA CallsCounted ==
  ASSUME TypeOK, pc # "idle"
  PROVE  /\ MaxRetries \in Nat /\ attempt \in Nat /\ attempt < MaxRetries
         /\ CallsAfter \in 0 .. 6 /\ CallsAfter * MaxRetries \in Nat
         /\ CallsLeft = CallsAfter * MaxRetries + (MaxRetries - attempt)
  <1>1. MaxRetries \in Nat /\ attempt \in Nat /\ attempt < MaxRetries
    BY ConstantsAssumption DEF TypeOK
  <1>2. CallsAfter \in 0 .. 6
    BY DEF TypeOK, Steps, FinalizeSteps, ApplySteps, CallsAfter
  <1>3. CallsAfter * MaxRetries \in Nat
    <2> HIDE DEF CallsAfter
    <2>1. CallsAfter \in Nat
      BY <1>2
    <2>2. QED  BY <1>1, <2>1
  <1>4. QED  BY <1>1, <1>2, <1>3 DEF CallsLeft

LEMMA EndIsLess ==
  ASSUME TypeOK, pc # "idle", pc' = "idle"
  PROVE  CallsLeft' \in 0 .. CallsLeft - 1
  <1>1. CallsLeft' = 0
    BY DEF CallsLeft
  <1>2. QED  BY <1>1, CallsCounted

LEMMA ContinueIsLess ==
  ASSUME TypeOK, pc # "idle", Continue, pc \in DOMAIN Following
  PROVE  CallsLeft' \in 0 .. CallsLeft - 1
  <1>1. pc' = Following[pc] /\ attempt' = 0 /\ pc' # "idle"
    BY DEF Continue, Following
  <1>2. CallsAfter' \in 0 .. CallsAfter - 1
    BY <1>1 DEF Following, CallsAfter
  <1>3. MaxRetries \in Nat /\ CallsAfter \in 0 .. 6 /\ attempt \in Nat /\ attempt < MaxRetries
    BY CallsCounted
  <1>4. CallsLeft' = CallsAfter' * MaxRetries + MaxRetries
    BY <1>1, <1>3 DEF CallsLeft
  <1>5. CallsLeft = CallsAfter * MaxRetries + (MaxRetries - attempt)
    BY CallsCounted
  <1>6. ASSUME NEW m \in Nat, NEW a \in 0 .. 6, NEW b \in 0 .. a - 1, NEW n \in Nat, n < m
        PROVE  b * m + m \in 0 .. (a * m + (m - n)) - 1
    <2>1. b \in Nat /\ b * m \in Nat /\ a * m \in Nat
      BY <1>6
    <2>2. b * m + m <= a * m
      BY <1>6
    <2>3. QED  BY <1>6, <2>1, <2>2
  <1>7. QED  BY <1>2, <1>3, <1>4, <1>5, <1>6

LEMMA RetryIsLess ==
  ASSUME TypeOK, pc # "idle", Retry
  PROVE  CallsLeft' \in 0 .. CallsLeft - 1
  <1>1. CASE RetriesLeft
    <2>1. pc' = pc /\ attempt' = attempt + 1 /\ attempt + 1 < MaxRetries
      BY <1>1 DEF Retry, RetriesLeft
    <2>2. CallsAfter' = CallsAfter
      BY <2>1 DEF CallsAfter
    <2>3. CallsLeft' = CallsAfter * MaxRetries + (MaxRetries - (attempt + 1))
      BY <2>1, <2>2 DEF CallsLeft
    <2>4. QED  BY <2>1, <2>3, CallsCounted
  <1>2. CASE ~RetriesLeft
    BY <1>2, EndIsLess DEF Retry, EndPass
  <1>3. QED  BY <1>1, <1>2

(* How a call of a pass ends.                                              *)
LEMMA CallOutcome ==
  ASSUME TypeOK, pc # "idle", Worker
  PROVE  Retry \/ pc' = "idle" \/ (Continue /\ pc \in DOMAIN Following)
  <1>1. ASSUME NEW k, Apply(k) PROVE Continue \/ Retry \/ pc' = "idle"
    BY <1>1 DEF Apply, CreateChild, KeepChild, UpdateChild, EndPass, Fail
  <1>2. ASSUME NEW k, RemoveChild(k) PROVE Continue \/ pc' = "idle"
    BY <1>2 DEF RemoveChild, EndPass, Fail
  <1>3. CASE ReconcileDeployment
    BY <1>1, <1>2, <1>3 DEF ReconcileDeployment, Following
  <1>4. CASE ReconcileService
    BY <1>1, <1>4 DEF ReconcileService, Services, Following
  <1>5. CASE CleanService
    BY <1>2, <1>5 DEF CleanService, Following
  <1>6. CASE ReconcileIngress
    BY <1>1, <1>2, <1>6 DEF ReconcileIngress, Following
  <1>7. CASE ReconcileDatabase \/ FinalizeChild
    BY <1>7 DEF ReconcileDatabase, FinalizeChild, Following
  <1>8. CASE AddFinalizer \/ RemoveFinalizer \/ UpdateStatus
    BY <1>8 DEF AddFinalizer, RemoveFinalizer, UpdateStatus, UpdateCR, Fail, EndPass
  <1>9. QED
    BY <1>3, <1>4, <1>5, <1>6, <1>7, <1>8 DEF Worker, BeginPass

LEMMA NothingAdds ==
  ASSUME TypeOK, Next, ~Worker, pc # "idle"
  PROVE  CallsLeft' <= CallsLeft
  <1>1. CASE CallFails \/ Crash
    <2>1. pc' = "idle"
      BY <1>1 DEF CallFails, Crash, Fail, EndPass
    <2>2. CallsLeft' \in 0 .. CallsLeft - 1 /\ CallsLeft \in Nat
      BY <2>1, EndIsLess, CallsCounted
    <2>3. QED  BY <2>2
  <1>2. CASE UNCHANGED passVars
    <2>1. CallsLeft' = CallsLeft
      BY <1>2 DEF CallsLeft, CallsAfter, passVars
    <2>2. QED  BY <2>1, CallsCounted
  <1>3. QED
    BY <1>1, <1>2 DEF Next, Cluster, Clients, SyncCR, SyncChild, CollectGarbage, CreateCR, EditCR,
                      DeleteCR, TouchChild, DisturbChild

(* A pass makes at most seven times MaxRetries calls.                      *)
THEOREM PassesAreBounded == Spec => PassesEnd
  <1>1. TypeOK /\ [Next]_vars =>
          [pc # "idle" => CallsLeft' <= CallsLeft /\ (Worker => CallsLeft' < CallsLeft)]_vars
    <2> SUFFICES ASSUME TypeOK, Next, pc # "idle"
                 PROVE  CallsLeft' <= CallsLeft /\ (Worker => CallsLeft' < CallsLeft)
      OBVIOUS
    <2>1. CASE Worker
      <3>1. CallsLeft' \in 0 .. CallsLeft - 1
        BY <2>1, CallOutcome, RetryIsLess, EndIsLess, ContinueIsLess
      <3>2. CallsLeft \in Nat
        BY CallsCounted
      <3>3. QED  BY <3>1, <3>2
    <2>2. CASE ~Worker
      BY <2>2, NothingAdds
    <2>3. QED  BY <2>1, <2>2
  <1>2. QED  BY <1>1, TypeCorrect, PTL DEF Spec, PassesEnd

-----------------------------------------------------------------------------
(* What the life cycle promises, the controller keeps.                     *)

LEMMA LifeCycleProtects ==
  ASSUME Abstract!Protected, [Abstract!Next]_(Abstract!vars)
  PROVE  Abstract!Protected'
  BY DEF Abstract!Protected, Abstract!Next, Abstract!vars, Abstract!Create, Abstract!Discard,
         Abstract!Guard, Abstract!Delete, Abstract!Release, Abstract!Appear, Abstract!Vanish

(* Before the finalizer is set and after it is gone, none of the children  *)
(* it protects exists, however stale the passes' copies and whatever fails *)
(* (:121-128, :191-234).                                                   *)
THEOREM ChildrenProtected == Spec => []Abstract!Protected
  <1>1. Abstract!Init => Abstract!Protected
    BY DEF Abstract!Init, Abstract!Protected
  <1>2. QED
    BY <1>1, LifeCycleProtects, ImplementsLifecycle, PTL DEF LifecycleImplemented, Abstract!Spec

=============================================================================
