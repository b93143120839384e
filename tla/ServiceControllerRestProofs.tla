--------------------- MODULE ServiceControllerRestProofs ---------------------
(***************************************************************************)
(* Proof of QuietMeansSettled of ServiceControllerProperties, for all      *)
(* configurations and bounds: that events alone are enough.  Whatever a    *)
(* pass left undone has an event pending or the key in the queue (SInv).   *)
(* And of what can be said of the Deployment, where there are no events to *)
(* rely on: QuietMeansDeployed, and QuietMeansUndeployed but for one look- *)
(* up.                                                                     *)
(***************************************************************************)
EXTENDS ServiceControllerProofs

(* A copy that is behind names an owner, or a version it has missed does:  *)
(* its delivery starts a pass.                                             *)
Watched ==
  \A k \in OwnedKinds :
    /\ ~fresh[k] => cache[k].owner # 0 \/ missed[k]
    /\ child[k].exists => child[k].owner # 0
    /\ ~child[k].exists => child[k] = NoChild

Named == cr.exists => cr.uid # 0

Base == IInv /\ Watched /\ Named

(* A pass works from the newest version unless another is due.             *)
PassCurrent == pc # "idle" /\ ~queued /\ crFresh => snapCurrent

DatabaseStep == pc = "database" => snap.cfg.database

(* The kinds a pass has behind it, and those it settled or that an event   *)
(* is pending for.                                                         *)
Applied ==
  {k \in OwnedKinds :
     \/ k = "nodeport" /\ pc \in {"ingress", "status"}
     \/ k = "base" /\ pc \in {"cleanNodeport", "ingress", "status"}
     \/ k = "ingress" /\ pc = "status"
     \/ /\ Desired(snap.cfg, k) # NotNeeded
        /\ \/ k = "nodeport" /\ pc \in {"base", "cleanBase", "cleanNodeport"}
           \/ k = "base" /\ pc = "cleanBase"}

AsSnap(k) ==
  IF Desired(snap.cfg, k) = NotNeeded
    THEN ~child[k].exists
    ELSE child[k].exists /\ child[k].content = Desired(snap.cfg, k)

PassDone == {k \in OwnedKinds : AsSnap(k) \/ ~fresh[k]}
RestDone == {k \in OwnedKinds : SettledChild(k) \/ ~fresh[k]}

Progress ==
  pc \in ApplySteps /\ ~queued /\ ~snap.cfg.database => Applied \subseteq PassDone

AtRest ==
  pc = "idle" /\ ~queued /\ crFresh /\ cr.exists =>
    /\ ~cr.del /\ cr.fin /\ cr.ready /\ cr.urls = NewURLs(cr.cfg)
    /\ ~cr.cfg.database => OwnedKinds \subseteq RestDone

SInv == Base /\ PassCurrent /\ DatabaseStep /\ Progress /\ AtRest

-----------------------------------------------------------------------------
(* What a step may do to a child.                                          *)

Stays(k) ==
  /\ child'[k] = child[k] /\ cache'[k] = cache[k]
  /\ fresh'[k] = fresh[k] /\ missed'[k] = missed[k]

Written(k) ==
  /\ ~fresh'[k]
  /\ cache'[k].owner # 0 \/ missed'[k]
  /\ child'[k].exists => child'[k].owner # 0
  /\ ~child'[k].exists => child'[k] = NoChild

Delivered(k) == child'[k] = child[k] /\ fresh'[k]

LEMMA WatchedFollows ==
  ASSUME Watched, \A k \in OwnedKinds : Stays(k) \/ Written(k) \/ Delivered(k)
  PROVE  Watched'
  <1> SUFFICES ASSUME NEW k \in OwnedKinds
               PROVE  /\ ~fresh'[k] => cache'[k].owner # 0 \/ missed'[k]
                      /\ child'[k].exists => child'[k].owner # 0
                      /\ ~child'[k].exists => child'[k] = NoChild
    BY DEF Watched
  <1>1. CASE Stays(k)
    BY <1>1 DEF Watched, Stays
  <1>2. CASE Written(k)
    BY <1>2 DEF Written
  <1>3. CASE Delivered(k)
    BY <1>3 DEF Watched, Delivered
  <1>4. QED  BY <1>1, <1>2, <1>3

LEMMA WriteIsWatched ==
  ASSUME TypeOK, CopiesInSync, Watched, NEW k \in Kinds, NEW new,
         WriteChild(k, new),
         k # "deployment" => (new.exists /\ new.owner # 0) \/ new = NoChild
  PROVE  \A j \in OwnedKinds : Stays(j) \/ Written(j)
  <1> SUFFICES ASSUME NEW j \in OwnedKinds PROVE Stays(j) \/ Written(j)
    OBVIOUS
  <1>1. j \in Kinds /\ j # "deployment"
    BY DEF OwnedKinds
  <1>2. CASE j # k
    BY <1>1, <1>2 DEF WriteChild, TypeOK, Stays
  <1>3. CASE j = k /\ new = child[k]
    <2>1. child'[k] = child[k] /\ cache'[k] = cache[k] /\ fresh'[k] = fresh[k]
      BY <1>3 DEF WriteChild, TypeOK
    <2>2. missed'[k] = missed[k]
      BY <1>3 DEF WriteChild, TypeOK
    <2>3. QED  BY <1>3, <2>1, <2>2 DEF Stays
  <1>4. CASE j = k /\ new # child[k]
    <2>1. child'[k] = new /\ cache' = cache /\ ~fresh'[k]
      BY <1>4 DEF WriteChild, TypeOK
    <2>2. missed'[k] <=> (missed[k] \/ new.owner # 0)
      BY <1>4 DEF WriteChild, TypeOK
    <2>3. cache'[k].owner # 0 \/ missed'[k]
      <3>1. CASE new.owner # 0
        BY <2>2, <3>1
      <3>2. CASE new = NoChild
        <4>1. child[k].exists /\ child[k].owner # 0
          BY <1>1, <1>4, <3>2 DEF Watched
        <4>2. fresh[k] => cache[k] = child[k]
          BY DEF CopiesInSync
        <4>3. ~fresh[k] => cache[k].owner # 0 \/ missed[k]
          BY <1>1, <1>4 DEF Watched
        <4>4. QED  BY <2>1, <2>2, <4>1, <4>2, <4>3
      <3>3. QED  BY <1>1, <1>4, <3>1, <3>2
    <2>4. QED  BY <1>1, <1>4, <2>1, <2>3, NoChildType DEF Written
  <1>5. QED  BY <1>2, <1>3, <1>4

(* What a step does not settle it leaves to an event.                      *)
LEMMA PassDoneFollows ==
  ASSUME Watched, snap'.cfg = snap.cfg,
         \A k \in OwnedKinds : Stays(k) \/ Written(k) \/ (Delivered(k) /\ (fresh[k] \/ queued'))
  PROVE  queued' \/ PassDone \subseteq PassDone'
  <1> SUFFICES ASSUME NEW k \in PassDone, ~queued' PROVE k \in PassDone'
    OBVIOUS
  <1>1. k \in OwnedKinds
    BY DEF PassDone
  <1>2. CASE Stays(k)
    BY <1>1, <1>2 DEF PassDone, AsSnap, Stays
  <1>3. CASE Written(k)
    BY <1>1, <1>3 DEF PassDone, Written
  <1>4. CASE Delivered(k) /\ fresh[k]
    BY <1>1, <1>4 DEF PassDone, AsSnap, Delivered
  <1>5. QED  BY <1>1, <1>2, <1>3, <1>4

LEMMA RestDoneFollows ==
  ASSUME Watched, cr' = cr,
         \A k \in OwnedKinds : Stays(k) \/ Written(k) \/ (Delivered(k) /\ (fresh[k] \/ queued'))
  PROVE  queued' \/ RestDone \subseteq RestDone'
  <1> SUFFICES ASSUME NEW k \in RestDone, ~queued' PROVE k \in RestDone'
    OBVIOUS
  <1>1. k \in OwnedKinds
    BY DEF RestDone
  <1>2. CASE Stays(k)
    BY <1>1, <1>2 DEF RestDone, SettledChild, Stays
  <1>3. CASE Written(k)
    BY <1>1, <1>3 DEF RestDone, Written
  <1>4. CASE Delivered(k) /\ fresh[k]
    BY <1>1, <1>4 DEF RestDone, SettledChild, Delivered
  <1>5. QED  BY <1>1, <1>2, <1>3, <1>4

-----------------------------------------------------------------------------
(* Steps of everybody but the worker.                                      *)

(* Caches, garbage collector and other clients at the children.            *)
LEMMA ChildrenMove ==
  ASSUME SInv, IInv', UNCHANGED <<crVars, pc, snap, snapCurrent>>, queued => queued',
         \A k \in OwnedKinds : Stays(k) \/ Written(k) \/ (Delivered(k) /\ (fresh[k] \/ queued'))
  PROVE  SInv'
  <1>1. /\ cr' = cr /\ crFresh' = crFresh /\ pc' = pc /\ snap' = snap
        /\ snapCurrent' = snapCurrent
    BY DEF crVars
  <1>2. Base'
    BY <1>1, WatchedFollows DEF SInv, Base, Named
  <1>3. PassCurrent' /\ DatabaseStep'
    BY <1>1 DEF SInv, PassCurrent, DatabaseStep
  <1>4. Progress'
    <2>1. Applied' = Applied
      BY <1>1 DEF Applied
    <2>2. QED  BY <1>1, <2>1, PassDoneFollows DEF SInv, Base, Progress
  <1>5. AtRest'
    BY <1>1, RestDoneFollows DEF SInv, Base, AtRest
  <1>6. QED  BY <1>2, <1>3, <1>4, <1>5 DEF SInv

LEMMA SyncChildRests ==
  ASSUME SInv, IInv', NEW k \in Kinds, SyncChild(k)
  PROVE  SInv'
  <1>0. TypeOK /\ Watched
    BY DEF SInv, Base, IInv
  <1>1. ASSUME NEW j \in OwnedKinds
        PROVE  Stays(j) \/ (Delivered(j) /\ (fresh[j] \/ queued'))
    <2>1. j \in Kinds
      BY DEF OwnedKinds
    <2>2. CASE j # k
      BY <1>0, <2>1, <2>2 DEF SyncChild, TypeOK, Stays
    <2>3. CASE j = k
      <3>1. child' = child /\ fresh'[j] /\ ~fresh[j] /\ (Enqueues(k) => queued')
        BY <1>0, <2>1, <2>3 DEF SyncChild, TypeOK
      <3>2. Enqueues(k)
        BY <1>0, <2>3, <3>1 DEF Watched, Enqueues
      <3>3. QED  BY <3>1, <3>2 DEF Delivered
    <2>4. QED  BY <2>2, <2>3
  <1>2. UNCHANGED <<crVars, pc, snap, snapCurrent>> /\ (queued => queued')
    BY DEF SyncChild, passVars
  <1>3. QED  BY <1>1, <1>2, ChildrenMove

LEMMA CollectGarbageRests ==
  ASSUME SInv, IInv', NEW k \in Kinds, CollectGarbage(k)
  PROVE  SInv'
  <1>1. WriteChild(k, NoChild) /\ UNCHANGED <<crVars, pc, snap, snapCurrent, queued>>
    BY DEF CollectGarbage, passVars
  <1>2. \A j \in OwnedKinds : Stays(j) \/ Written(j)
    BY <1>1, WriteIsWatched DEF SInv, Base, IInv
  <1>3. QED  BY <1>1, <1>2, ChildrenMove

LEMMA DisturbChildRests ==
  ASSUME SInv, IInv', NEW k \in Kinds, DisturbChild(k)
  PROVE  SInv'
  <1>0. TypeOK /\ CopiesInSync /\ Watched
    BY DEF SInv, Base, IInv
  <1>1. PICK new \in {NoChild, [child[k] EXCEPT !.content = Drift]} : WriteChild(k, new)
    BY DEF DisturbChild
  <1>2. k # "deployment" => (new.exists /\ new.owner # 0) \/ new = NoChild
    <2>1. child[k] \in Child /\ child[k].exists
      BY <1>0 DEF DisturbChild, TypeOK
    <2>2. k # "deployment" => child[k].owner # 0
      BY <1>0, <2>1 DEF Watched, OwnedKinds
    <2>3. QED  BY <2>1, <2>2 DEF Child
  <1>3. \A j \in OwnedKinds : Stays(j) \/ Written(j)
    BY <1>0, <1>1, <1>2, WriteIsWatched
  <1>4. UNCHANGED <<crVars, pc, snap, snapCurrent, queued>>
    BY DEF DisturbChild, passVars
  <1>5. QED  BY <1>3, <1>4, ChildrenMove

LEMMA TouchChildRests ==
  ASSUME SInv, IInv', NEW k \in Kinds, TouchChild(k)
  PROVE  SInv'
  <1>0. TypeOK /\ Watched
    BY DEF SInv, Base, IInv
  <1>1. ASSUME NEW j \in OwnedKinds PROVE Stays(j) \/ Written(j)
    <2>1. j \in Kinds
      BY DEF OwnedKinds
    <2>2. CASE j # k
      BY <1>0, <2>1, <2>2 DEF TouchChild, TypeOK, Stays
    <2>3. CASE j = k
      <3>1. child' = child /\ cache' = cache /\ child[j].exists /\ ~fresh'[j]
        BY <1>0, <2>1, <2>3 DEF TouchChild, TypeOK
      <3>2. child[j].owner # 0
        BY <1>0, <3>1 DEF Watched
      <3>3. missed'[j]
        BY <1>0, <2>1, <2>3, <3>2 DEF TouchChild, TypeOK
      <3>4. QED  BY <3>1, <3>2, <3>3 DEF Written
    <2>4. QED  BY <2>2, <2>3
  <1>2. UNCHANGED <<crVars, pc, snap, snapCurrent, queued>>
    BY DEF TouchChild, passVars
  <1>3. QED  BY <1>1, <1>2, ChildrenMove

(* A write of the resource is an event to come.                            *)
LEMMA ResourceWritten ==
  ASSUME SInv, IInv', NEW new, WriteCR(new), new.exists => new.uid # 0,
         UNCHANGED childVars, queued' = queued \/ pc' = "idle",
         UNCHANGED passVars \/ pc' = "idle"
  PROVE  SInv'
  <1>1. cr' = new /\ ~crFresh'
    BY DEF WriteCR
  <1>2. child' = child /\ cache' = cache /\ fresh' = fresh /\ missed' = missed
    BY DEF childVars
  <1>3. Base'
    BY <1>1, <1>2 DEF SInv, Base, Watched, Named
  <1>4. PassCurrent' /\ AtRest'
    BY <1>1 DEF PassCurrent, AtRest
  <1>5. DatabaseStep' /\ Progress'
    <2>1. CASE pc' = "idle"
      BY <2>1 DEF DatabaseStep, Progress, ApplySteps
    <2>2. CASE UNCHANGED passVars /\ queued' = queued
      BY <1>2, <2>2 DEF SInv, passVars, DatabaseStep, Progress, Applied, PassDone, AsSnap
    <2>3. QED  BY <2>1, <2>2
  <1>6. QED  BY <1>3, <1>4, <1>5 DEF SInv

LEMMA ClientWritesRest ==
  ASSUME SInv, IInv', CreateCR \/ EditCR \/ DeleteCR
  PROVE  SInv'
  <1>0. cr \in CR /\ cr.uid \in Nat /\ Named
    BY DEF SInv, Base, IInv, TypeOK, CR
  <1>1. CASE CreateCR
    <2>1. PICK c \in Configs : WriteCR([NoCR(cr.uid + 1) EXCEPT !.exists = TRUE, !.cfg = c])
      BY <1>1 DEF CreateCR
    <2>2. [NoCR(cr.uid + 1) EXCEPT !.exists = TRUE, !.cfg = c].uid # 0
      BY <1>0 DEF NoCR
    <2>3. UNCHANGED <<childVars, passVars, queued>>
      BY <1>1 DEF CreateCR
    <2>4. QED  BY <2>1, <2>2, <2>3, ResourceWritten
  <1>2. CASE EditCR
    <2>1. PICK c \in Configs : WriteCR([cr EXCEPT !.cfg = c])
      BY <1>2 DEF EditCR
    <2>2. [cr EXCEPT !.cfg = c].uid # 0
      BY <1>0, <1>2 DEF EditCR, CR, Named
    <2>3. UNCHANGED <<childVars, passVars, queued>>
      BY <1>2 DEF EditCR
    <2>4. QED  BY <2>1, <2>2, <2>3, ResourceWritten
  <1>3. CASE DeleteCR
    <2> DEFINE new == IF cr.fin THEN [cr EXCEPT !.del = TRUE] ELSE NoCR(cr.uid)
    <2>1. WriteCR(new) /\ UNCHANGED <<childVars, passVars, queued>>
      BY <1>3 DEF DeleteCR
    <2>2. new.exists => new.uid # 0
      BY <1>0, <1>3, NoCRType DEF DeleteCR, CR, Named
    <2> HIDE DEF new
    <2>3. QED  BY <2>1, <2>2, ResourceWritten
  <1>4. QED  BY <1>1, <1>2, <1>3

(* An event of the resource, a failed pass and a new process put its key   *)
(* into the queue.                                                         *)
LEMMA QueuedRests ==
  ASSUME SInv, IInv', queued' \/ (~cr.exists /\ pc' = "idle"), cr' = cr,
         \/ pc' = "idle"
         \/ pc' = pc /\ snap' = snap,
         \A k \in OwnedKinds : Stays(k) \/ Written(k) \/ Delivered(k)
  PROVE  SInv'
  <1>1. Base'
    BY WatchedFollows DEF SInv, Base, Named
  <1>2. PassCurrent' /\ AtRest' /\ Progress'
    BY DEF PassCurrent, AtRest, Progress, ApplySteps
  <1>3. DatabaseStep'
    BY DEF SInv, DatabaseStep
  <1>4. QED  BY <1>1, <1>2, <1>3 DEF SInv

LEMMA UnchangedStays ==
  ASSUME UNCHANGED childVars
  PROVE  \A k \in OwnedKinds : Stays(k)
  BY DEF childVars, Stays

LEMMA SyncCRRests ==
  ASSUME SInv, IInv', SyncCR
  PROVE  SInv'
  <1>1. cr' = cr /\ queued' /\ UNCHANGED <<childVars, passVars>>
    BY DEF SyncCR
  <1>2. QED  BY <1>1, UnchangedStays, QueuedRests DEF passVars

LEMMA CallFailsRests ==
  ASSUME SInv, IInv', CallFails
  PROVE  SInv'
  <1>1. cr' = cr /\ queued' /\ pc' = "idle" /\ UNCHANGED childVars
    BY DEF CallFails, Fail, EndPass, crVars
  <1>2. QED  BY <1>1, UnchangedStays, QueuedRests

LEMMA CrashRests ==
  ASSUME SInv, IInv', Crash
  PROVE  SInv'
  <1>1. cr' = cr /\ pc' = "idle" /\ child' = child /\ (queued' \/ ~cr.exists)
    BY DEF Crash
  <1>2. \A k \in OwnedKinds : Delivered(k)
    BY <1>1 DEF Crash, Delivered, OwnedKinds
  <1>3. QED  BY <1>1, <1>2, QueuedRests

-----------------------------------------------------------------------------
(* Steps of the worker.                                                    *)

(* A call that is retried changes nothing but the count.                   *)
Repeats == UNCHANGED <<pc, snap, snapCurrent, queued>>
Ends == pc' = "idle" /\ queued'

LEMMA BeginPassRests ==
  ASSUME SInv, IInv', BeginPass
  PROVE  SInv'
  <1>0. CopiesInSync /\ ResourceShape
    BY DEF SInv, Base, IInv
  <1>1. /\ cr' = cr /\ crCache' = crCache /\ crFresh' = crFresh /\ pc' = FirstStep(crCache)
        /\ UNCHANGED childVars
    BY DEF BeginPass, crVars
  <1>2. Base'
    BY <1>1, UnchangedStays, WatchedFollows DEF SInv, Base, Named
  <1>3. CASE FirstStep(crCache) = "idle"
    <2>1. crFresh => ~cr.exists
      BY <1>0, <1>3 DEF FirstStep, CopiesInSync, ResourceShape
    <2>2. PassCurrent' /\ DatabaseStep' /\ Progress' /\ AtRest'
      BY <1>1, <1>3, <2>1 DEF PassCurrent, DatabaseStep, Progress, AtRest, ApplySteps
    <2>3. QED  BY <1>2, <2>2 DEF SInv
  <1>4. CASE FirstStep(crCache) # "idle"
    <2>1. snap' = crCache /\ snapCurrent' = crFresh
      BY <1>4 DEF BeginPass
    <2>2. /\ pc' \in {"finDeployment", "addFinalizer", "database", "deployment"}
          /\ pc' = "database" => crCache.cfg.database
      BY <1>1, <1>4 DEF FirstStep
    <2>3. Applied' = {}
      BY <2>2 DEF Applied
    <2>4. PassCurrent' /\ DatabaseStep' /\ Progress' /\ AtRest'
      BY <1>1, <2>1, <2>2, <2>3 DEF PassCurrent, DatabaseStep, Progress, AtRest
    <2>5. QED  BY <1>2, <2>4 DEF SInv
  <1>5. QED  BY <1>3, <1>4

LEMMA UpdateCRRests ==
  ASSUME SInv, IInv', NEW new, UpdateCR(new), snapCurrent => (new.exists => new.uid # 0),
         UNCHANGED childVars
  PROVE  SInv'
  <1>1. CASE snapCurrent /\ WriteCR(new) /\ EndPass("ok")
    <2>1. pc' = "idle"
      BY <1>1 DEF EndPass
    <2>2. QED  BY <1>1, <2>1, ResourceWritten
  <1>2. CASE Fail /\ UNCHANGED crVars
    <2>1. cr' = cr /\ Ends
      BY <1>2 DEF Fail, EndPass, crVars, Ends
    <2>2. QED  BY <2>1, UnchangedStays, QueuedRests DEF Ends
  <1>3. QED  BY <1>1, <1>2 DEF UpdateCR

LEMMA FinalizerRests ==
  ASSUME SInv, IInv', AddFinalizer \/ RemoveFinalizer
  PROVE  SInv'
  <1>0. /\ snap \in CR /\ (snapCurrent => snap = cr) /\ Named
        /\ cr \in CR /\ cr.uid \in Nat /\ snap.uid \in Nat
    BY DEF SInv, Base, IInv, TypeOK, CopiesInSync, CR
  <1>1. CASE AddFinalizer
    <2> DEFINE new == [snap EXCEPT !.fin = TRUE, !.ready = cr.ready, !.urls = cr.urls]
    <2>1. UpdateCR(new) /\ UNCHANGED childVars
      BY <1>1 DEF AddFinalizer
    <2>2. new.uid = snap.uid /\ new.exists = snap.exists
      BY <1>0 DEF CR
    <2>3. snapCurrent => (new.exists => new.uid # 0)
      BY <1>0, <2>2 DEF Named
    <2> HIDE DEF new
    <2>4. QED  BY <2>1, <2>3, UpdateCRRests
  <1>2. CASE RemoveFinalizer
    <2>1. UpdateCR(NoCR(snap.uid)) /\ UNCHANGED childVars /\ ~NoCR(snap.uid).exists
      BY <1>0, <1>2, NoCRType DEF RemoveFinalizer
    <2>2. QED  BY <2>1, UpdateCRRests
  <1>3. QED  BY <1>1, <1>2

LEMMA FinalizeChildRests ==
  ASSUME SInv, IInv', FinalizeChild
  PROVE  SInv'
  <1>1. KindOf[pc] \in Kinds /\ WriteChild(KindOf[pc], NoChild)
    BY DEF FinalizeChild, KindOf, Kinds
  <1>2. \A j \in OwnedKinds : Stays(j) \/ Written(j)
    BY <1>1, WriteIsWatched DEF SInv, Base, IInv
  <1>3. pc' \in {"finBase", "finIngress", "finRemove"} /\ pc # "idle"
    BY DEF FinalizeChild, Continue, Following
  <1>4. cr' = cr /\ crFresh' = crFresh /\ snapCurrent' = snapCurrent /\ queued' = queued
    BY DEF FinalizeChild, Continue, crVars
  <1>5. Base'
    BY <1>2, <1>4, WatchedFollows DEF SInv, Base, Named
  <1>6. PassCurrent' /\ DatabaseStep' /\ Progress' /\ AtRest'
    BY <1>3, <1>4 DEF SInv, PassCurrent, DatabaseStep, Progress, AtRest, ApplySteps
  <1>7. QED  BY <1>5, <1>6 DEF SInv

(* The next call of a pass that applies children.                          *)
LEMMA ContinueRests ==
  ASSUME SInv, IInv', Continue, pc \in ApplySteps \ {"status"}, UNCHANGED crVars,
         \A j \in OwnedKinds : Stays(j) \/ Written(j),
         snap.cfg.database \/ Applied' \subseteq Applied \union PassDone'
  PROVE  SInv'
  <1>1. /\ cr' = cr /\ crFresh' = crFresh /\ snap' = snap /\ snapCurrent' = snapCurrent
        /\ queued' = queued /\ pc # "idle" /\ pc' # "idle" /\ pc' # "database"
    BY DEF Continue, Following, crVars, ApplySteps
  <1>2. Base'
    BY <1>1, WatchedFollows DEF SInv, Base, Named
  <1>3. PassCurrent' /\ DatabaseStep' /\ AtRest'
    BY <1>1 DEF SInv, PassCurrent, DatabaseStep, AtRest
  <1>4. Progress'
    BY <1>1, PassDoneFollows DEF SInv, Base, Progress
  <1>5. QED  BY <1>2, <1>3, <1>4 DEF SInv

(* How a call on one child ends.                                           *)
Outcome(k) ==
  /\ \A j \in OwnedKinds : Stays(j) \/ Written(j)
  /\ \/ Ends
     \/ Repeats
     \/ Continue /\ (k \in OwnedKinds => k \in PassDone')

LEMMA ApplyOutcome ==
  ASSUME SInv, pc \in ApplySteps \ {"status"}, NEW k \in Kinds, Apply(k), Needed(k)
  PROVE  Outcome(k)
  <1>0. /\ TypeOK /\ CopiesInSync /\ Watched /\ child[k] \in Child
        /\ snap.uid # 0 /\ (k # "deployment" <=> k \in OwnedKinds)
    BY DEF SInv, Base, IInv, FinalizerLock, Named, TypeOK, OwnedKinds
  <1>1. CASE CreateChild(k)
    <2>1. CASE ~child[k].exists /\ ~cache[k].exists
      <3> DEFINE new == [exists |-> TRUE, content |-> Desired(snap.cfg, k), owner |-> Owner(k)]
      <3>1. WriteChild(k, new) /\ (Continue \/ Ends)
        BY <1>1, <2>1 DEF CreateChild, EndPass, Ends
      <3>2. k # "deployment" => new.exists /\ new.owner # 0
        BY <1>0 DEF Owner
      <3>3. child'[k] = new
        BY <1>0, <3>1 DEF WriteChild, TypeOK
      <3>4. Continue => (k \in OwnedKinds => k \in PassDone')
        BY <3>3 DEF PassDone, AsSnap, Needed, Continue
      <3> HIDE DEF new
      <3>5. \A j \in OwnedKinds : Stays(j) \/ Written(j)
        BY <1>0, <3>1, <3>2, WriteIsWatched
      <3>6. QED  BY <3>1, <3>4, <3>5 DEF Outcome
    <2>2. CASE child[k].exists
      BY <1>1, <2>2, UnchangedStays DEF CreateChild, Fail, EndPass, Ends, Outcome
    <2>3. QED  BY <1>1, <2>1, <2>2 DEF CreateChild
  <1>2. CASE KeepChild(k)
    <2>1. cache[k].exists /\ cache[k].content = Desired(snap.cfg, k) /\ Continue
          /\ UNCHANGED childVars
      BY <1>2 DEF KeepChild, Differs
    <2>2. k \in OwnedKinds => k \in PassDone'
      <3>1. CASE fresh[k]
        BY <1>0, <2>1, <3>1 DEF CopiesInSync, PassDone, AsSnap, Needed, Continue, childVars
      <3>2. CASE ~fresh[k]
        BY <2>1, <3>2 DEF PassDone, childVars
      <3>3. QED  BY <3>1, <3>2
    <2>3. QED  BY <2>1, <2>2, UnchangedStays DEF Outcome
  <1>3. CASE UpdateChild(k)
    <2>1. CASE fresh[k]
      <3> DEFINE new == [exists |-> TRUE, content |-> Desired(snap.cfg, k),
                         owner |-> IF k = "deployment" THEN child[k].owner ELSE snap.uid]
      <3>1. WriteChild(k, new) /\ Continue
        BY <1>3, <2>1 DEF UpdateChild
      <3>2. k # "deployment" => new.exists /\ new.owner # 0
        BY <1>0
      <3>3. child'[k] = new
        BY <1>0, <3>1 DEF WriteChild, TypeOK
      <3>4. k \in OwnedKinds => k \in PassDone'
        BY <3>1, <3>3 DEF PassDone, AsSnap, Needed, Continue
      <3> HIDE DEF new
      <3>5. \A j \in OwnedKinds : Stays(j) \/ Written(j)
        BY <1>0, <3>1, <3>2, WriteIsWatched
      <3>6. QED  BY <3>1, <3>4, <3>5 DEF Outcome
    <2>2. CASE ~fresh[k]
      <3>1. UNCHANGED childVars /\ (Retry \/ Fail)
        BY <1>3, <2>2 DEF UpdateChild
      <3>2. Ends \/ Repeats
        BY <3>1 DEF Retry, Fail, EndPass, Ends, Repeats
      <3>3. QED  BY <3>1, <3>2, UnchangedStays DEF Outcome
    <2>3. QED  BY <2>1, <2>2
  <1>4. QED  BY <1>1, <1>2, <1>3 DEF Apply

LEMMA RemoveOutcome ==
  ASSUME SInv, pc \in ApplySteps \ {"status"}, NEW k \in Kinds, RemoveChild(k), ~Needed(k)
  PROVE  Outcome(k)
  <1>0. TypeOK /\ CopiesInSync /\ Watched
    BY DEF SInv, Base, IInv
  <1>1. CASE ~cache[k].exists
    <2>1. Continue /\ UNCHANGED childVars
      BY <1>1 DEF RemoveChild
    <2>2. fresh[k] => ~child[k].exists
      BY <1>0, <1>1 DEF CopiesInSync
    <2>3. k \in OwnedKinds => k \in PassDone'
      BY <2>1, <2>2 DEF PassDone, AsSnap, Needed, Continue, childVars
    <2>4. QED  BY <2>1, <2>3, UnchangedStays DEF Outcome
  <1>2. CASE cache[k].exists /\ child[k].exists
    <2>1. WriteChild(k, NoChild) /\ Continue
      BY <1>2 DEF RemoveChild
    <2>2. child'[k] = NoChild
      BY <1>0, <2>1 DEF WriteChild, TypeOK
    <2>3. k \in OwnedKinds => k \in PassDone'
      BY <2>1, <2>2, NoChildType DEF PassDone, AsSnap, Needed, Continue
    <2>4. QED  BY <1>0, <2>1, <2>3, WriteIsWatched DEF Outcome
  <1>3. CASE cache[k].exists /\ ~child[k].exists
    BY <1>3, UnchangedStays DEF RemoveChild, Fail, EndPass, Ends, Outcome
  <1>4. QED  BY <1>1, <1>2, <1>3

LEMMA OutcomeRests ==
  ASSUME SInv, IInv', pc \in ApplySteps \ {"status"}, UNCHANGED crVars, NEW k \in Kinds,
         Outcome(k), Continue => Applied' \subseteq Applied \union {k}
  PROVE  SInv'
  <1>1. CASE Ends
    BY <1>1, QueuedRests DEF Outcome, Ends, crVars
  <1>2. CASE Repeats
    BY <1>2, ChildrenMove DEF Outcome, Repeats
  <1>3. CASE Continue /\ (k \in OwnedKinds => k \in PassDone')
    <2>1. Applied' \subseteq Applied \union PassDone'
      BY <1>3 DEF Applied
    <2>2. QED  BY <1>3, <2>1, ContinueRests DEF Outcome
  <1>4. QED  BY <1>1, <1>2, <1>3 DEF Outcome

(* A call on one child, or none where nothing is to be done.               *)
LEMMA AppliesRest ==
  ASSUME SInv, IInv',
         ReconcileDeployment \/ ReconcileService \/ CleanService \/ ReconcileIngress
  PROVE  SInv'
  <1>1. CASE ReconcileDeployment
    <2>1. pc = "deployment" /\ "deployment" \in Kinds /\ UNCHANGED crVars
          /\ pc \in ApplySteps \ {"status"}
      BY <1>1 DEF ReconcileDeployment, Kinds, ApplySteps
    <2>2. Outcome("deployment")
      BY <1>1, <2>1, ApplyOutcome, RemoveOutcome DEF ReconcileDeployment
    <2>3. Continue => Applied' = {}
      BY <2>1 DEF Continue, Following, Applied
    <2>4. QED  BY <2>1, <2>2, <2>3, OutcomeRests
  <1>2. CASE ReconcileService
    <2>1. pc \in {"nodeport", "base"} /\ pc \in Kinds /\ UNCHANGED crVars
          /\ pc \in ApplySteps \ {"status"}
      BY <1>2 DEF ReconcileService, Services, Kinds, ApplySteps
    <2>2. CASE Needed(pc)
      <3>1. Outcome(pc)
        BY <1>2, <2>1, <2>2, ApplyOutcome DEF ReconcileService
      <3>2. Continue => Applied' \subseteq Applied \union {pc}
        BY <2>1 DEF Continue, Following, Applied, OwnedKinds, Kinds
      <3>3. QED  BY <2>1, <3>1, <3>2, OutcomeRests
    <2>3. CASE ~Needed(pc)
      <3>1. Continue /\ UNCHANGED childVars
        BY <1>2, <2>3 DEF ReconcileService
      <3>2. Applied' \subseteq Applied
        BY <2>1, <2>3, <3>1 DEF Continue, Following, Applied, Needed
      <3>3. QED  BY <2>1, <3>1, <3>2, UnchangedStays, ContinueRests
    <2>4. QED  BY <2>2, <2>3
  <1>3. CASE CleanService
    <2>1. pc \in {"cleanBase", "cleanNodeport"} /\ KindOf[pc] \in Kinds /\ UNCHANGED crVars
          /\ pc \in ApplySteps \ {"status"}
      BY <1>3 DEF CleanService, KindOf, Kinds, ApplySteps
    <2>2. CASE ~Needed(KindOf[pc])
      <3>1. Outcome(KindOf[pc])
        BY <1>3, <2>1, <2>2, RemoveOutcome DEF CleanService
      <3>2. Continue => Applied' \subseteq Applied \union {KindOf[pc]}
        BY <2>1 DEF Continue, Following, Applied, KindOf
      <3>3. QED  BY <2>1, <3>1, <3>2, OutcomeRests
    <2>3. CASE Needed(KindOf[pc])
      <3>1. Continue /\ UNCHANGED childVars
        BY <1>3, <2>3 DEF CleanService
      <3>2. Applied' \subseteq Applied
        BY <2>1, <2>3, <3>1 DEF Continue, Following, Applied, Needed, KindOf
      <3>3. QED  BY <2>1, <3>1, <3>2, UnchangedStays, ContinueRests
    <2>4. QED  BY <2>2, <2>3
  <1>4. CASE ReconcileIngress
    <2>1. pc = "ingress" /\ "ingress" \in Kinds /\ UNCHANGED crVars
          /\ pc \in ApplySteps \ {"status"}
      BY <1>4 DEF ReconcileIngress, Kinds, ApplySteps
    <2>2. Outcome("ingress")
      BY <1>4, <2>1, ApplyOutcome, RemoveOutcome DEF ReconcileIngress
    <2>3. Continue => Applied' \subseteq Applied \union {"ingress"}
      BY <2>1 DEF Continue, Following, Applied, OwnedKinds, Kinds
    <2>4. QED  BY <2>1, <2>2, <2>3, OutcomeRests
  <1>5. QED  BY <1>1, <1>2, <1>3, <1>4

LEMMA ReconcileDatabaseRests ==
  ASSUME SInv, IInv', ReconcileDatabase
  PROVE  SInv'
  <1>1. /\ pc \in ApplySteps \ {"status"} /\ snap.cfg.database
        /\ Continue /\ UNCHANGED crVars /\ UNCHANGED childVars
    BY DEF ReconcileDatabase, ApplySteps, SInv, DatabaseStep
  <1>2. QED  BY <1>1, UnchangedStays, ContinueRests

(* The pass that comes to the end has left nothing undone.                 *)
LEMMA UpdateStatusRests ==
  ASSUME SInv, IInv', UpdateStatus
  PROVE  SInv'
  <1>0. /\ snap \in CR /\ (snapCurrent => snap = cr) /\ Named /\ Guarded(snap)
        /\ cr \in CR /\ cr.exists /\ pc = "status" /\ UNCHANGED childVars
    BY DEF SInv, Base, IInv, TypeOK, CopiesInSync, SnapFitsStep, FinalizerLock, ApplySteps,
           UpdateStatus
  <1>1. CASE StatusOf(snap) # snap
    <2>1. UpdateCR(StatusOf(cr))
      BY <1>0, <1>1 DEF UpdateStatus
    <2>2. StatusOf(cr).uid = cr.uid
      BY <1>0 DEF StatusOf, CR
    <2>3. QED  BY <1>0, <2>1, <2>2, UpdateCRRests DEF Named
  <1>2. CASE StatusOf(snap) = snap
    <2>1. EndPass("ok") /\ UNCHANGED crVars
      BY <1>0, <1>2 DEF UpdateStatus
    <2>2. /\ cr' = cr /\ crFresh' = crFresh /\ pc' = "idle" /\ queued' = queued
          /\ child' = child /\ fresh' = fresh
      BY <1>0, <2>1 DEF EndPass, SInv, Base, IInv, TypeOK, crVars, childVars
    <2>3. snap.ready /\ snap.urls = NewURLs(snap.cfg)
      BY <1>0, <1>2 DEF StatusOf, CR
    <2>4. Base'
      BY <1>0, <2>2, UnchangedStays, WatchedFollows DEF SInv, Base, Named
    <2>5. AtRest'
      <3> SUFFICES ASSUME ~queued, crFresh
                   PROVE  /\ ~cr.del /\ cr.fin /\ cr.ready /\ cr.urls = NewURLs(cr.cfg)
                          /\ ~cr.cfg.database => OwnedKinds \subseteq RestDone'
        BY <2>2 DEF AtRest
      <3>1. snap = cr
        BY <1>0 DEF SInv, PassCurrent
      <3>2. OwnedKinds \subseteq Applied
        BY <1>0 DEF Applied, OwnedKinds, Kinds
      <3>3. ~cr.cfg.database => OwnedKinds \subseteq PassDone
        BY <1>0, <3>1, <3>2 DEF SInv, Progress, ApplySteps
      <3>4. PassDone \subseteq RestDone'
        BY <2>2, <3>1 DEF PassDone, RestDone, AsSnap, SettledChild
      <3>5. QED  BY <1>0, <2>3, <3>1, <3>3, <3>4 DEF Guarded
    <2>6. PassCurrent' /\ DatabaseStep' /\ Progress'
      BY <2>2 DEF PassCurrent, DatabaseStep, Progress, ApplySteps
    <2>7. QED  BY <2>4, <2>5, <2>6 DEF SInv
  <1>3. QED  BY <1>1, <1>2

-----------------------------------------------------------------------------
LEMMA InitRests == Init => SInv
  <1> SUFFICES ASSUME Init PROVE SInv
    OBVIOUS
  <1>1. IInv /\ ~cr.exists /\ pc = "idle" /\ ~queued
    BY InitIInv, NoCRType DEF Init
  <1>2. Watched /\ Named
    BY <1>1, NoChildType DEF Init, Watched, Named, OwnedKinds
  <1>3. PassCurrent /\ DatabaseStep /\ Progress /\ AtRest
    BY <1>1 DEF PassCurrent, DatabaseStep, Progress, AtRest, ApplySteps
  <1>4. QED  BY <1>1, <1>2, <1>3 DEF SInv, Base

LEMMA NextRests == SInv /\ [Next]_vars => SInv'
  <1> SUFFICES ASSUME SInv, [Next]_vars PROVE SInv'
    OBVIOUS
  <1>0. IInv'
    BY NextIInv DEF SInv, Base
  <1>1. CASE Worker
    BY <1>0, <1>1, BeginPassRests, FinalizerRests, FinalizeChildRests, AppliesRest,
       ReconcileDatabaseRests, UpdateStatusRests DEF Worker
  <1>2. CASE Cluster
    BY <1>0, <1>2, SyncCRRests, SyncChildRests, CollectGarbageRests DEF Cluster
  <1>3. CASE Clients
    BY <1>0, <1>3, ClientWritesRest, TouchChildRests, DisturbChildRests DEF Clients
  <1>4. CASE CallFails \/ Crash
    BY <1>0, <1>4, CallFailsRests, CrashRests
  <1>5. CASE UNCHANGED vars
    <2>1. /\ UNCHANGED <<crVars, childVars, pc, snap, snapCurrent, queued>>
      BY <1>5 DEF vars, passVars
    <2>2. QED  BY <1>0, <2>1, UnchangedStays, ChildrenMove
  <1>6. QED  BY <1>1, <1>2, <1>3, <1>4, <1>5 DEF Next

(* Whatever is not as the spec asks has an event or a pass coming.         *)
THEOREM RestInvariance == Spec => []SInv
  BY InitRests, NextRests, PTL DEF Spec

(* Events alone are enough (service_controller.go:2356-2363): whenever     *)
(* nothing is pending, the finalizer, every owned child and the status are *)
(* as the spec asks, for any configurations, edits, lives of the resource, *)
(* failures, crashes and writes of others.                                 *)
THEOREM RestMeansSettled == Spec => []QuietMeansSettled
  <1>1. SInv => QuietMeansSettled
    <2> SUFFICES ASSUME SInv, Quiet, cr.exists
                 PROVE  /\ ~cr.del /\ cr.fin
                        /\ cr.ready /\ cr.urls = NewURLs(cr.cfg)
                        /\ ~cr.cfg.database => \A k \in OwnedKinds : SettledChild(k)
      BY DEF QuietMeansSettled
    <2>1. /\ ~cr.del /\ cr.fin /\ cr.ready /\ cr.urls = NewURLs(cr.cfg)
          /\ ~cr.cfg.database => OwnedKinds \subseteq RestDone
      BY DEF SInv, AtRest, Quiet
    <2>2. \A k \in RestDone : SettledChild(k)
      BY DEF RestDone, Quiet, OwnedKinds
    <2>3. QED  BY <2>1, <2>2
  <1>2. QED  BY <1>1, RestInvariance, PTL

-----------------------------------------------------------------------------
(* The Deployment is not watched: what is known of it at rest is what the  *)
(* last pass knew.                                                         *)

(* The calls that follow the one about the Deployment.                     *)
Late == ApplySteps \ {"deployment", "database"}

Resting == pc = "idle" /\ ~queued /\ crFresh /\ cr.exists

(* A pass comes to the later calls by that one, unless it is a database's; *)
(* what is at rest is what a last pass worked from.                        *)
Flow ==
  /\ pc' \in Late => snap' = snap /\ (pc \in Late \/ ReconcileDeployment \/ snap.cfg.database)
  /\ Resting' => cr' = cr /\ (Resting \/ (pc = "status" /\ snap = cr))

LEMMA KeepsFlow ==
  ASSUME UNCHANGED <<pc, snap>>,
         \/ UNCHANGED <<cr, crFresh>> /\ (queued => queued')
         \/ queued' \/ ~crFresh'
  PROVE  Flow
  BY DEF Flow, Resting

LEMMA EndsFlow ==
  ASSUME pc' = "idle", queued' \/ ~crFresh' \/ ~cr'.exists
  PROVE  Flow
  BY DEF Flow, Resting, Late, ApplySteps

LEMMA EarlyFlows ==
  ASSUME pc' \in Steps \ (Late \cup {"idle"})
  PROVE  Flow
  BY DEF Flow, Resting

LEMMA ContinueFlows ==
  ASSUME SInv, pc \in ApplySteps \ {"status"}, Continue, pc = "deployment" => ReconcileDeployment
  PROVE  Flow
  BY DEF Continue, Following, Flow, Resting, Late, ApplySteps, SInv, DatabaseStep

LEMMA ClusterFlows ==
  ASSUME Cluster \/ Clients \/ CallFails \/ Crash \/ UNCHANGED vars
  PROVE  Flow
  <1>1. CASE SyncCR \/ CreateCR \/ EditCR \/ DeleteCR \/ UNCHANGED vars
    <2>1. UNCHANGED <<pc, snap>>
      BY <1>1 DEF SyncCR, CreateCR, EditCR, DeleteCR, vars, passVars
    <2>2. queued' \/ ~crFresh' \/ UNCHANGED <<cr, crFresh, queued>>
      BY <1>1 DEF SyncCR, CreateCR, EditCR, DeleteCR, WriteCR, vars, crVars
    <2>3. QED  BY <2>1, <2>2, KeepsFlow
  <1>2. ASSUME NEW k \in Kinds,
               SyncChild(k) \/ CollectGarbage(k) \/ TouchChild(k) \/ DisturbChild(k)
        PROVE  Flow
    <2>1. UNCHANGED <<pc, snap, cr, crFresh>>
      BY <1>2 DEF SyncChild, CollectGarbage, TouchChild, DisturbChild, crVars, passVars
    <2>2. queued => queued'
      BY <1>2 DEF SyncChild, CollectGarbage, TouchChild, DisturbChild
    <2>3. QED  BY <2>1, <2>2, KeepsFlow
  <1>3. CASE CallFails \/ Crash
    BY <1>3, EndsFlow DEF CallFails, Fail, EndPass, Crash
  <1>4. QED  BY <1>1, <1>2, <1>3 DEF Cluster, Clients

(* A call that fails ends the pass with the key in the queue, one that is  *)
(* repeated changes nothing.                                               *)
LEMMA RetryOrFail ==
  ASSUME Retry \/ Fail
  PROVE  (UNCHANGED <<pc, snap, queued>>) \/ (pc' = "idle" /\ queued')
  BY DEF Retry, Fail, EndPass

LEMMA ApplyingFlows ==
  ASSUME SInv, ReconcileDeployment \/ ReconcileService \/ CleanService \/ ReconcileIngress
  PROVE  Flow
  <1>1. /\ pc \in ApplySteps \ {"status"} /\ UNCHANGED <<cr, crFresh>>
        /\ pc = "deployment" => ReconcileDeployment
    BY DEF ReconcileDeployment, ReconcileService, CleanService, ReconcileIngress, Services,
           ApplySteps, crVars
  <1>2. PICK k \in Kinds : Apply(k) \/ RemoveChild(k) \/ Continue
    BY DEF ReconcileDeployment, ReconcileService, CleanService, ReconcileIngress, Services, Kinds,
           KindOf
  <1>3. Continue \/ (UNCHANGED <<pc, snap, queued>>) \/ (pc' = "idle" /\ queued')
    BY <1>2, RetryOrFail
       DEF Apply, CreateChild, KeepChild, UpdateChild, RemoveChild, Fail, EndPass
  <1>4. QED  BY <1>1, <1>3, ContinueFlows, KeepsFlow, EndsFlow

LEMMA RestOfPassFlows ==
  ASSUME SInv,
         \/ BeginPass \/ AddFinalizer \/ FinalizeChild \/ RemoveFinalizer
         \/ ReconcileDatabase \/ UpdateStatus
  PROVE  Flow
  <1>0. CopiesInSync /\ ResourceShape /\ PassCurrent
    BY DEF SInv, Base, IInv
  <1>1. CASE BeginPass
    <2>1. UNCHANGED <<cr, crFresh>> /\ pc' = FirstStep(crCache)
      BY <1>1 DEF BeginPass, crVars
    <2>2. CASE pc' = "idle"
      <3>1. crFresh => ~cr.exists
        BY <1>0, <2>1, <2>2 DEF FirstStep, CopiesInSync, ResourceShape
      <3>2. QED  BY <2>1, <2>2, <3>1, EndsFlow
    <2>3. CASE pc' # "idle"
      <3>1. pc' \in {"finDeployment", "addFinalizer", "database", "deployment"}
        BY <2>1, <2>3 DEF FirstStep
      <3>2. QED  BY <3>1, EarlyFlows DEF Steps, FinalizeSteps, ApplySteps, Late
    <2>4. QED  BY <2>2, <2>3
  <1>2. ASSUME NEW new, UpdateCR(new) PROVE Flow
    BY <1>2, EndsFlow DEF UpdateCR, WriteCR, Fail, EndPass
  <1>3. CASE AddFinalizer \/ RemoveFinalizer
    BY <1>2, <1>3 DEF AddFinalizer, RemoveFinalizer
  <1>4. CASE FinalizeChild
    <2>1. pc' \in {"finBase", "finIngress", "finRemove"}
      BY <1>4 DEF FinalizeChild, Continue, Following
    <2>2. QED  BY <2>1, EarlyFlows DEF Steps, FinalizeSteps, ApplySteps, Late
  <1>5. CASE ReconcileDatabase
    BY <1>5, ContinueFlows DEF ReconcileDatabase, ApplySteps
  <1>6. CASE UpdateStatus
    <2>1. CASE EndPass("ok") /\ UNCHANGED crVars
      <3>1. UNCHANGED <<cr, crFresh>> /\ pc' = "idle" /\ pc = "status" /\ (queued => queued')
        BY <1>6, <2>1 DEF UpdateStatus, EndPass, crVars
      <3>2. ~queued /\ crFresh => snap = cr
        BY <1>0, <3>1 DEF PassCurrent, CopiesInSync
      <3>3. QED  BY <3>1, <3>2 DEF Flow, Resting, Late, ApplySteps
    <2>2. QED  BY <1>2, <1>6, <2>1 DEF UpdateStatus
  <1>7. QED  BY <1>1, <1>3, <1>4, <1>5, <1>6

LEMMA NextFlows == ASSUME SInv, [Next]_vars PROVE Flow
  BY ClusterFlows, ApplyingFlows, RestOfPassFlows DEF Next, Worker

LEMMA OtherChildWritten ==
  ASSUME TypeOK, NEW k \in Kinds, k # "deployment", NEW new, WriteChild(k, new)
  PROVE  child'["deployment"] = child["deployment"]
  BY DEF TypeOK, WriteChild

(* Who writes the Deployment besides reconcileDeployment.                  *)
LEMMA DeploymentWritten ==
  ASSUME SInv, [Next]_vars, ~ReconcileDeployment
  PROVE  \/ child'["deployment"] = child["deployment"]
         \/ /\ FinalizeChild \/ CollectGarbage("deployment")
            /\ child'["deployment"] = NoChild
         \/ DisturbChild("deployment")
  <1>0. TypeOK /\ "deployment" \in Kinds
    BY DEF SInv, Base, IInv, Kinds
  <1>1. ASSUME NEW k \in Kinds \ {"deployment"}, Apply(k) \/ RemoveChild(k) \/ UNCHANGED childVars
        PROVE  child'["deployment"] = child["deployment"]
    <2>1. UNCHANGED childVars \/ \E new : WriteChild(k, new)
      BY <1>1 DEF Apply, CreateChild, KeepChild, UpdateChild, RemoveChild
    <2>2. QED  BY <1>0, <2>1, OtherChildWritten DEF childVars
  <1>2. CASE ReconcileService \/ CleanService \/ ReconcileIngress
    <2>1. PICK k \in Kinds \ {"deployment"} : Apply(k) \/ RemoveChild(k) \/ UNCHANGED childVars
      BY <1>2 DEF ReconcileService, CleanService, ReconcileIngress, Services, Kinds, KindOf
    <2>2. QED  BY <1>1, <2>1
  <1>3. CASE FinalizeChild
    <2>1. KindOf[pc] \in Kinds /\ WriteChild(KindOf[pc], NoChild)
      BY <1>3 DEF FinalizeChild, KindOf, Kinds
    <2>2. CASE KindOf[pc] = "deployment"
      BY <1>0, <1>3, <2>1, <2>2 DEF WriteChild, TypeOK
    <2>3. QED  BY <1>0, <2>1, <2>2, OtherChildWritten
  <1>4. ASSUME NEW k \in Kinds, CollectGarbage(k)
        PROVE  child'["deployment"] \in {child["deployment"], NoChild}
               /\ (k # "deployment" => child'["deployment"] = child["deployment"])
    BY <1>0, <1>4 DEF CollectGarbage, WriteChild, TypeOK
  <1>5. ASSUME NEW k \in Kinds, DisturbChild(k), k # "deployment"
        PROVE  child'["deployment"] = child["deployment"]
    BY <1>0, <1>5, OtherChildWritten DEF DisturbChild
  <1>6. CASE child' = child
    BY <1>6
  <1>7. QED
    BY <1>2, <1>3, <1>4, <1>5, <1>6
       DEF Next, Worker, Cluster, Clients, BeginPass, AddFinalizer, RemoveFinalizer, UpdateStatus,
           ReconcileDatabase, CallFails, Crash, SyncCR, SyncChild, TouchChild, CreateCR, EditCR,
           DeleteCR, vars, childVars

-----------------------------------------------------------------------------
(* A Deployment that is needed stays as a pass left it where nobody else   *)
(* writes it and no pass takes a copy for good.                            *)

LeftAlone == "deployment" \in Defaulted \ Disturbed

Unowned == child["deployment"].owner = 0

Wanted(cfg) == ~cfg.database /\ Desired(cfg, "deployment") # NotNeeded

DeployedSoFar == pc \in Late /\ Wanted(snap.cfg) => AsSnap("deployment")

DeployedAtRest == Resting /\ Wanted(cr.cfg) => SettledChild("deployment")

DInv == SInv /\ Unowned /\ DeployedSoFar /\ DeployedAtRest

LEMMA ReconcileDeploymentDeploys ==
  ASSUME LeftAlone, DInv, ReconcileDeployment
  PROVE  Unowned' /\ (pc' \in Late /\ Needed("deployment") => AsSnap("deployment")')
  <1>0. TypeOK /\ "deployment" \in Kinds /\ "deployment" \in Defaulted /\ pc = "deployment"
    BY DEF DInv, SInv, Base, IInv, ReconcileDeployment, Kinds, LeftAlone
  <1>1. CASE UNCHANGED childVars /\ (Retry \/ Fail)
    <2>1. pc' \in {"deployment", "idle"}
      BY <1>0, <1>1, RetryOrFail
    <2>2. QED  BY <1>1, <2>1 DEF Late, ApplySteps, DInv, Unowned, childVars
  <1>2. ASSUME NEW o, o = 0, Continue,
               WriteChild("deployment", [exists |-> TRUE, content |-> Desired(snap.cfg, "deployment"),
                                         owner |-> o])
        PROVE  Unowned' /\ (Needed("deployment") => AsSnap("deployment")')
    <2>1. child'["deployment"] = [exists |-> TRUE, content |-> Desired(snap.cfg, "deployment"),
                                  owner |-> o]
      BY <1>0, <1>2 DEF WriteChild, TypeOK
    <2>2. snap' = snap
      BY <1>2 DEF Continue
    <2>3. QED  BY <1>2, <2>1, <2>2 DEF Unowned, AsSnap, Needed
  <1>3. CASE Needed("deployment") /\ CreateChild("deployment")
    <2>1. Owner("deployment") = 0 /\ "deployment" \notin Services
      BY DEF Owner, Services
    <2>2. QED  BY <1>1, <1>2, <1>3, <2>1 DEF CreateChild
  <1>4. CASE Needed("deployment") /\ UpdateChild("deployment")
    BY <1>1, <1>2, <1>4 DEF UpdateChild, DInv, Unowned
  <1>5. ~KeepChild("deployment")
    BY <1>0 DEF KeepChild, Differs
  <1>6. CASE ~Needed("deployment") /\ RemoveChild("deployment")
    BY <1>0, <1>6
       DEF RemoveChild, WriteChild, TypeOK, DInv, Unowned, NoChild, childVars
  <1>7. QED  BY <1>3, <1>4, <1>5, <1>6 DEF ReconcileDeployment, Apply

LEMMA NextDeploys == LeftAlone /\ DInv /\ [Next]_vars => DInv'
  <1> SUFFICES ASSUME LeftAlone, DInv, [Next]_vars PROVE DInv'
    OBVIOUS
  <1>1. SInv /\ SInv' /\ Flow
    BY NextRests, NextFlows DEF DInv
  <1>2. CASE ReconcileDeployment
    <2>1. Unowned' /\ (pc' \in Late /\ Needed("deployment") => AsSnap("deployment")')
      BY <1>2, ReconcileDeploymentDeploys
    <2>2. pc = "deployment"
      BY <1>2 DEF ReconcileDeployment
    <2>3. DeployedSoFar' /\ DeployedAtRest'
      BY <1>1, <2>1, <2>2 DEF Flow, DeployedSoFar, DeployedAtRest, Wanted, Needed, Resting
    <2>4. QED  BY <1>1, <2>1, <2>3 DEF DInv
  <1>3. CASE ~ReconcileDeployment
    <2>1. ~DisturbChild("deployment") /\ ~CollectGarbage("deployment")
      BY DEF DInv, Unowned, LeftAlone, DisturbChild, CollectGarbage, Orphaned
    <2>2. \/ child'["deployment"] = child["deployment"]
          \/ FinalizeChild /\ child'["deployment"] = NoChild
      BY <1>1, <1>3, <2>1, DeploymentWritten
    <2>3. Unowned'
      BY <2>2 DEF DInv, Unowned, NoChild
    <2>4. CASE FinalizeChild
      <3>1. pc' \in {"finBase", "finIngress", "finRemove"}
        BY <2>4 DEF FinalizeChild, Continue, Following
      <3>2. QED
        BY <1>1, <2>3, <3>1 DEF DInv, DeployedSoFar, DeployedAtRest, Resting, Late, ApplySteps
    <2>5. CASE child'["deployment"] = child["deployment"]
      <3>1. DeployedSoFar'
        BY <1>1, <1>3, <2>5 DEF Flow, DInv, DeployedSoFar, Wanted, AsSnap
      <3>2. DeployedAtRest'
        <4>1. Resting' => cr' = cr /\ (Resting \/ (pc = "status" /\ snap = cr))
          BY <1>1 DEF Flow
        <4>2. "status" \in Late
          BY DEF Late, ApplySteps
        <4>3. QED
          BY <2>5, <4>1, <4>2
             DEF DInv, DeployedSoFar, DeployedAtRest, AsSnap, SettledChild
      <3>3. QED  BY <1>1, <2>3, <3>1, <3>2 DEF DInv
    <2>6. QED  BY <2>2, <2>4, <2>5
  <1>4. QED  BY <1>2, <1>3

(* A Deployment that nobody else writes, and whose template the API server *)
(* completes so that every pass writes it (:247-301), is as the spec asks  *)
(* whenever nothing is pending, although no event of its own ever starts a *)
(* pass.                                                                   *)
THEOREM RestMeansDeployed ==
  ASSUME "deployment" \in Defaulted \ Disturbed
  PROVE  Spec => []QuietMeansDeployed
  <1>1. LeftAlone
    BY DEF LeftAlone
  <1>2. Init => DInv
    <2> SUFFICES ASSUME Init PROVE DInv
      OBVIOUS
    <2>1. SInv /\ pc = "idle" /\ ~cr.exists /\ child["deployment"] = NoChild
      BY InitRests, NoCRType DEF Init, Kinds
    <2>2. QED
      BY <2>1 DEF DInv, Unowned, NoChild, DeployedSoFar, DeployedAtRest, Resting, Late, ApplySteps
  <1>3. DInv /\ [Next]_vars => DInv'
    BY <1>1, NextDeploys
  <1>4. DInv => QuietMeansDeployed
    BY DEF DInv, DeployedAtRest, Resting, QuietMeansDeployed, Quiet, Wanted
  <1>5. QED  BY <1>2, <1>3, <1>4, PTL DEF Spec

-----------------------------------------------------------------------------
(* A Deployment that is not needed: why QuietMeansUndeployed fails.        *)

(* The pass that is to remove the Deployment (:243-260) looks for it in a  *)
(* copy that is the newest version.                                        *)
LookUpIsCurrent ==
  [][ReconcileDeployment /\ ~Needed("deployment") => fresh["deployment"]]_vars

Unwanted(cfg) == ~cfg.database /\ Desired(cfg, "deployment") = NotNeeded

GoneSoFar == pc \in Late /\ Unwanted(snap.cfg) => ~child["deployment"].exists

GoneAtRest == Resting /\ Unwanted(cr.cfg) => ~child["deployment"].exists

UInv == SInv /\ GoneSoFar /\ GoneAtRest

LEMMA RemovedWhereSeen ==
  ASSUME SInv, ReconcileDeployment, ~Needed("deployment"), fresh["deployment"], pc' \in Late
  PROVE  ~child'["deployment"].exists
  <1>1. TypeOK /\ "deployment" \in Kinds /\ cache["deployment"] = child["deployment"]
    BY DEF SInv, Base, IInv, CopiesInSync, Kinds
  <1>2. RemoveChild("deployment") /\ ~Fail
    BY DEF ReconcileDeployment, Fail, EndPass, Late, ApplySteps
  <1>3. CASE WriteChild("deployment", NoChild)
    BY <1>1, <1>3 DEF WriteChild, TypeOK, NoChild
  <1>4. QED  BY <1>1, <1>2, <1>3 DEF RemoveChild, childVars

LEMMA NextUndeploys ==
  ASSUME UInv, [Next]_vars,
         [ReconcileDeployment /\ ~Needed("deployment") => fresh["deployment"]]_vars
  PROVE  UInv'
  <1>1. SInv /\ SInv' /\ Flow
    BY NextRests, NextFlows DEF UInv
  <1>2. ~ReconcileDeployment => (child'["deployment"].exists => child["deployment"].exists)
    BY <1>1, DeploymentWritten DEF DisturbChild, NoChild
  <1>3. GoneSoFar'
    <2> SUFFICES ASSUME pc' \in Late, Unwanted(snap'.cfg) PROVE ~child'["deployment"].exists
      BY DEF GoneSoFar, Unwanted
    <2>1. snap' = snap /\ Unwanted(snap.cfg) /\ (pc \in Late \/ ReconcileDeployment)
      BY <1>1 DEF Flow, Unwanted
    <2>2. CASE ReconcileDeployment
      <3>1. pc = "deployment" /\ ~Needed("deployment")
        BY <2>1, <2>2 DEF ReconcileDeployment, Needed, Unwanted
      <3>2. pc' # pc
        BY <3>1 DEF Late
      <3>3. fresh["deployment"]
        BY <2>2, <3>1, <3>2 DEF vars, passVars
      <3>4. QED  BY <1>1, <2>2, <3>1, <3>3, RemovedWhereSeen
    <2>3. CASE ~ReconcileDeployment
      BY <1>2, <2>1, <2>3 DEF UInv, GoneSoFar
    <2>4. QED  BY <2>2, <2>3
  <1>4. GoneAtRest'
    <2> SUFFICES ASSUME Resting', Unwanted(cr'.cfg) PROVE ~child'["deployment"].exists
      BY DEF GoneAtRest, Unwanted
    <2>1. cr' = cr /\ (Resting \/ (pc = "status" /\ snap = cr)) /\ ~ReconcileDeployment
      BY <1>1 DEF Flow, Resting, ReconcileDeployment
    <2>2. "status" \in Late
      BY DEF Late, ApplySteps
    <2>3. ~child["deployment"].exists
      BY <2>1, <2>2 DEF UInv, GoneSoFar, GoneAtRest
    <2>4. QED  BY <1>2, <2>1, <2>3
  <1>5. QED  BY <1>1, <1>3, <1>4 DEF UInv

(* The comment at :243 is kept by every behaviour in which the pass that   *)
(* removes the Deployment does not look for it in an old copy, whatever    *)
(* else is stale, fails, dies or is written by others: nothing but a       *)
(* Deployment that its Get had yet to see (:244-250) is left behind.       *)
THEOREM LeftWhereUnseenOnly == Spec /\ LookUpIsCurrent => []QuietMeansUndeployed
  <1>1. Init => UInv
    <2> SUFFICES ASSUME Init PROVE UInv
      OBVIOUS
    <2>1. SInv /\ child["deployment"] = NoChild
      BY InitRests DEF Init, Kinds
    <2>2. QED  BY <2>1 DEF UInv, NoChild, GoneSoFar, GoneAtRest
  <1>2. UInv => QuietMeansUndeployed
    BY DEF UInv, GoneAtRest, Resting, QuietMeansUndeployed, Quiet, Unwanted
  <1>3. QED  BY <1>1, <1>2, NextUndeploys, PTL DEF Spec, LookUpIsCurrent

=============================================================================
