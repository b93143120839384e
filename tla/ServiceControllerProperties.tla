--------------------- MODULE ServiceControllerProperties ---------------------
(* What the controller of ServiceController guarantees.                      *)
EXTENDS ServiceController

(* The finalizer is the controller's lock (service_controller.go:121-128): *)
(* while a pass applies children, the resource it read them from still     *)
(* exists in the API server, the same one, and cannot go away: however     *)
(* stale the snapshot, it is never applied for a resource that is gone.    *)
FinalizerLock ==
  pc \in ApplySteps => cr.exists /\ cr.fin /\ cr.uid = snap.uid

(* finalizeService (:191-234) under every interleaving with stale passes,  *)
(* crashes and re-creation: no Deployment, base Service or Ingress outlives*)
(* the resource or its finalizer, and one that names an owner (:371, :423, *)
(* :535, :547) names the resource that exists now, so that the garbage     *)
(* collector never takes a child of the live resource for a dead one's.    *)
NoOrphan ==
  \A k \in Finalized :
    child[k].exists => /\ cr.exists /\ cr.fin
                       /\ child[k].owner \in {0, cr.uid}

(* The status a pass writes (:161-185) is the one of the spec it is        *)
(* written next to: no stale pass announces the URLs of an older spec.     *)
StatusMatchesSpec ==
  [][cr.exists /\ cr'.exists /\ cr'.urls # cr.urls => cr'.urls = NewURLs(cr.cfg)]_vars

(* The whole-object Updates that add and remove the finalizer (:112, :123) *)
(* never overwrite a client's edit of the spec or bring back a resource.   *)
NoLostEdit ==
  [][/\ cr.exists /\ cr'.exists /\ cr'.cfg # cr.cfg => budget'.edits < budget.edits
     /\ ~cr.exists /\ cr'.exists => cr'.uid = cr.uid + 1]_vars

(* Nothing is left to do: no event, no key, no pass.                       *)
Quiet == pc = "idle" /\ ~queued /\ crFresh /\ \A k \in Kinds : fresh[k]

SettledChild(k) ==
  IF Desired(cr.cfg, k) = NotNeeded
    THEN ~child[k].exists
    ELSE child[k].exists /\ child[k].content = Desired(cr.cfg, k)

OwnedKinds == Kinds \ {"deployment"}

(* Events alone are enough (SetupWithManager, :2356-2363): whenever        *)
(* nothing is pending, no deletion is left half-done, the finalizer is in  *)
(* place, every owned child is as the spec asks, and the status says so.   *)
(* No periodic resync is needed for it.                                    *)
QuietMeansSettled ==
  Quiet /\ cr.exists =>
    /\ ~cr.del /\ cr.fin
    /\ cr.ready /\ cr.urls = NewURLs(cr.cfg)
    /\ ~cr.cfg.database => \A k \in OwnedKinds : SettledChild(k)

(* The Deployment, as far as the code keeps up: needed and undisturbed, it *)
(* has the content the spec asks.                                          *)
QuietMeansDeployed ==
  Quiet /\ cr.exists /\ ~cr.cfg.database /\ Desired(cr.cfg, "deployment") # NotNeeded =>
    SettledChild("deployment")

(* reconcileDeployment's comment, "If the deployment is not needed, delete *)
(* any existing" (:243): at rest no Deployment is left that the spec does  *)
(* not ask for.                                                            *)
QuietMeansUndeployed ==
  Quiet /\ cr.exists /\ ~cr.cfg.database /\ Desired(cr.cfg, "deployment") = NotNeeded =>
    ~child["deployment"].exists

(* The controller implements the life cycle of ServiceLifecycle.           *)
Phase ==
  CASE ~cr.exists             -> "absent"
    [] cr.exists /\ cr.del    -> "deleting"
    [] OTHER                  -> IF cr.fin THEN "guarded" ELSE "bare"

Present == {k \in Kinds : child[k].exists}

Abstract == INSTANCE ServiceLifecycle WITH phase <- Phase, present <- Present

(* Every step of the controller, its caches and its clients is one of the  *)
(* life cycle or leaves it alone (:92-128, :191-234).                      *)
LifecycleImplemented == Abstract!Spec

-----------------------------------------------------------------------------
(* The inductive invariant behind FinalizerLock and NoOrphan.              *)

(* What a pass needs to see to apply children: such a copy of the resource *)
(* locks it, since only this controller removes the finalizer, and only    *)
(* after it saw the deletion.                                              *)
Guarded(s) == s.exists /\ s.fin /\ ~s.del

Specified(s) == s.exists => s.cfg \in Configs

CopiesInSync ==
  /\ crFresh => crCache = cr
  /\ snapCurrent => pc # "idle" /\ snap = cr
  /\ \A k \in Kinds : fresh[k] => cache[k] = child[k]

ResourceShape ==
  /\ cr.fin \/ cr.del => cr.exists
  /\ cr.del => cr.fin
  /\ crCache.uid <= cr.uid /\ snap.uid <= cr.uid
  /\ Specified(cr) /\ Specified(crCache) /\ Specified(snap)

SnapFitsStep ==
  /\ pc = "addFinalizer" => snap.exists /\ ~snap.fin /\ ~snap.del
  /\ pc \in FinalizeSteps => snap.exists /\ snap.fin /\ snap.del
  /\ pc \in ApplySteps => Guarded(snap)

CacheLocks == Guarded(crCache) => cr.exists /\ cr.fin /\ cr.uid = crCache.uid

(* A deletion once seen is never unseen: neither the API server nor the    *)
(* cache goes back to the same resource undeleted.                         *)
DeletionSticks ==
  /\ crCache.exists /\ crCache.del /\ cr.exists /\ cr.uid = crCache.uid => cr.del
  /\ pc \in FinalizeSteps =>
       \A s \in {cr, crCache} : s.exists /\ s.uid = snap.uid => s.del

FinalizedSoFar ==
  /\ pc \in {"finBase", "finIngress", "finRemove"} => ~child["deployment"].exists
  /\ pc \in {"finIngress", "finRemove"} => ~child["base"].exists
  /\ pc = "finRemove" => ~child["ingress"].exists

(* The finalizer protocol's invariant (:92-128, :191-234).                 *)
IInv ==
  /\ TypeOK
  /\ CopiesInSync /\ ResourceShape /\ SnapFitsStep
  /\ CacheLocks /\ DeletionSticks
  /\ FinalizerLock /\ FinalizedSoFar /\ NoOrphan

-----------------------------------------------------------------------------
(* The controller comes to rest: passes that trigger one another through   *)
(* their own writes and errors end when the clients stop.                  *)
Quiesces == <>[]Quiet

(* A deletion is carried through, whatever fails on the way (:103-118).    *)
DeletionCompletes ==
  \A u \in 1 .. MaxUid : (cr.del /\ cr.uid = u) ~> ~(cr.exists /\ cr.uid = u)

(* After the last resource is gone so are its children: those that are not *)
(* finalized carry an owner the garbage collector acts on (:371).          *)
ChildrenGo == <>[](~cr.exists => \A k \in Kinds : ~child[k].exists)

=============================================================================
