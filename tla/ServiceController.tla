------------------------- MODULE ServiceController -------------------------
(***************************************************************************)
(* The controller of the Service resource                                  *)
(* (internal/controller/service_controller.go) on one resource: the        *)
(* Reconcile pass with its finalizer, the generic children (Deployment,    *)
(* two core Services, Ingress) and the status, run by one worker against   *)
(* an API server that other clients write to as well.                      *)
(*                                                                         *)
(* A read goes to the informer's cache, a write to the API server.  The    *)
(* cache lags; an optimistic write (Update, Status().Update) is refused    *)
(* when the copy it started from is no longer the newest, a Delete carries *)
(* no precondition.  Resource versions are not counted: a bit per object   *)
(* says whether the cached copy (crFresh, fresh[k]) or the pass's snapshot *)
(* (snapCurrent) is still the live version, which is all that the          *)
(* comparison of two versions can tell.                                    *)
(*                                                                         *)
(* A cached Get and the write that follows it are one step: whatever       *)
(* happens between the two is a lag of the cache, and the step is taken    *)
(* with every lag.                                                         *)
(***************************************************************************)
EXTENDS ResourceBuilder

CONSTANTS
  Configs,        \* the specs a client may write
  NoConfig,       \* the spec of a resource that does not exist
  Drift,          \* a content nobody desires: another client's edit of a child
  Defaulted,      \* kinds whose spec the API server completes: never DeepEqual
  Disturbed,      \* kinds another client may edit or delete
  MaxRetries,     \* attempts of an optimistic update (5 in the code)
  MaxUid,         \* bound: how often the resource is created
  MaxEdits,       \* bound: how often its spec is edited
  MaxDisturb,     \* bound: how often another client writes a child
  MaxFaults       \* bound: how many calls fail or processes die

ASSUME ConstantsAssumption ==
  /\ MaxRetries \in Nat \ {0}
  /\ {MaxUid, MaxEdits, MaxDisturb, MaxFaults} \subseteq Nat

VARIABLES
  cr,             \* the Service resource in the API server
  crCache,        \* the informer's copy of it
  crFresh,        \* the copy is the newest version
  child,          \* the children in the API server, by kind
  cache,          \* the informers' copies of them
  fresh,          \* which of these copies are the newest version
  missed,         \* an undelivered version of the child names an owner
  queued,         \* the resource's key is in the work queue
  pc,             \* the call the running pass makes next
  snap,           \* the resource as the pass read it
  snapCurrent,    \* nobody wrote the resource since snap's version
  attempt,        \* updates refused so far in the current retry loop
  result,         \* how the last pass ended
  budget          \* what is left of the bounds

crVars == <<cr, crCache, crFresh>>
childVars == <<child, cache, fresh, missed>>
passVars == <<pc, snap, attempt, result>>
vars == <<crVars, childVars, passVars, snapCurrent, queued, budget>>

Finalized == {"deployment", "base", "ingress"}
Contents == {Desired(c, k) : c \in Configs, k \in Kinds} \union {NotNeeded, Drift}
AllURLs == {NewURLs(c) : c \in Configs} \union {<<>>}

CR == [exists : BOOLEAN, uid : Nat, cfg : Configs \union {NoConfig}, fin : BOOLEAN,
       del : BOOLEAN, ready : BOOLEAN, urls : AllURLs]

NoCR(uid) == [exists |-> FALSE, uid |-> uid, cfg |-> NoConfig, fin |-> FALSE, del |-> FALSE,
              ready |-> FALSE, urls |-> <<>>]

(* owner = 0: no controller reference; otherwise the uid it names.         *)
Child == [exists : BOOLEAN, content : Contents, owner : Nat]
NoChild == [exists |-> FALSE, content |-> NotNeeded, owner |-> 0]

(* The calls of a pass, in the order the code makes them.                  *)
FinalizeSteps == {"finDeployment", "finBase", "finIngress", "finRemove"}
ApplySteps == {"deployment", "nodeport", "base", "cleanBase", "cleanNodeport", "ingress",
               "database", "status"}
Steps == {"idle", "addFinalizer"} \union FinalizeSteps \union ApplySteps

FollowingSkipsBase ==   \* mistake: finalizeService forgets the base Service
  [finDeployment |-> "finIngress", finBase |-> "finIngress", finIngress |-> "finRemove",
   deployment |-> "nodeport", nodeport |-> "base", base |-> "cleanBase",
   cleanBase |-> "cleanNodeport", cleanNodeport |-> "ingress", ingress |-> "status",
   database |-> "status"]

Following ==
  [finDeployment |-> "finBase", finBase |-> "finIngress", finIngress |-> "finRemove",
   deployment |-> "nodeport", nodeport |-> "base", base |-> "cleanBase",
   cleanBase |-> "cleanNodeport", cleanNodeport |-> "ingress", ingress |-> "status",
   database |-> "status"]

(* The object a step is about.                                             *)
KindOf ==
  [finDeployment |-> "deployment", finBase |-> "base", finIngress |-> "ingress",
   deployment |-> "deployment", nodeport |-> "nodeport", base |-> "base",
   cleanBase |-> "base", cleanNodeport |-> "nodeport", ingress |-> "ingress"]

TypeOK ==
  /\ cr \in CR /\ crCache \in CR /\ snap \in CR
  /\ crFresh \in BOOLEAN /\ snapCurrent \in BOOLEAN /\ queued \in BOOLEAN
  /\ child \in [Kinds -> Child] /\ cache \in [Kinds -> Child]
  /\ fresh \in [Kinds -> BOOLEAN] /\ missed \in [Kinds -> BOOLEAN]
  /\ pc \in Steps
  /\ attempt \in 0 .. MaxRetries - 1
  /\ result \in {"none", "ok", "error", "exhausted"}
  /\ budget \in [edits : Nat, disturb : Nat, faults : Nat]

Init ==
  /\ cr = NoCR(0) /\ crCache = NoCR(0) /\ crFresh = TRUE
  /\ child = [k \in Kinds |-> NoChild] /\ cache = child
  /\ fresh = [k \in Kinds |-> TRUE] /\ missed = [k \in Kinds |-> FALSE]
  /\ queued = FALSE
  /\ pc = "idle" /\ snap = NoCR(0) /\ snapCurrent = FALSE /\ attempt = 0 /\ result = "none"
  /\ budget = [edits |-> MaxEdits, disturb |-> MaxDisturb, faults |-> MaxFaults]

-----------------------------------------------------------------------------
(* The API server.                                                         *)

WriteCR(new) ==
  /\ cr' = new
  /\ crFresh' = FALSE
  /\ snapCurrent' = FALSE
  /\ UNCHANGED crCache

(* A write that changes nothing makes no new version.                      *)
WriteChild(k, new) ==
  /\ child' = [child EXCEPT ![k] = new]
  /\ fresh' = [fresh EXCEPT ![k] = @ /\ new = child[k]]
  /\ missed' = [missed EXCEPT ![k] = @ \/ (new.owner # 0 /\ new # child[k])]
  /\ UNCHANGED cache

-----------------------------------------------------------------------------
(* The other clients, the garbage collector and the informers.             *)

CreateCR ==
  /\ ~cr.exists /\ cr.uid < MaxUid
  /\ \E c \in Configs :
        WriteCR([NoCR(cr.uid + 1) EXCEPT !.exists = TRUE, !.cfg = c])
  /\ UNCHANGED <<childVars, passVars, queued, budget>>

EditCR ==
  /\ cr.exists /\ budget.edits > 0
  /\ \E c \in Configs \ {cr.cfg} : WriteCR([cr EXCEPT !.cfg = c])
  /\ budget' = [budget EXCEPT !.edits = @ - 1]
  /\ UNCHANGED <<childVars, passVars, queued>>

(* With a finalizer the API server only marks the resource.                *)
DeleteCR ==
  /\ cr.exists /\ ~cr.del
  /\ WriteCR(IF cr.fin THEN [cr EXCEPT !.del = TRUE] ELSE NoCR(cr.uid))
  /\ UNCHANGED <<childVars, passVars, queued, budget>>

(* A new version with the same spec: a status write, an annotation.        *)
TouchChild(k) ==
  /\ child[k].exists /\ budget.disturb > 0
  /\ fresh' = [fresh EXCEPT ![k] = FALSE]
  /\ missed' = [missed EXCEPT ![k] = @ \/ child[k].owner # 0]
  /\ budget' = [budget EXCEPT !.disturb = @ - 1]
  /\ UNCHANGED <<crVars, passVars, child, cache, snapCurrent, queued>>

DisturbChild(k) ==
  /\ k \in Disturbed /\ child[k].exists /\ budget.disturb > 0
  /\ \E new \in {NoChild, [child[k] EXCEPT !.content = Drift]} : WriteChild(k, new)
  /\ budget' = [budget EXCEPT !.disturb = @ - 1]
  /\ UNCHANGED <<crVars, passVars, snapCurrent, queued>>

Orphaned(k) ==
  /\ child[k].exists /\ child[k].owner # 0
  /\ ~(cr.exists /\ cr.uid = child[k].owner)

CollectGarbage(k) ==
  /\ Orphaned(k)
  /\ WriteChild(k, NoChild)
  /\ UNCHANGED <<crVars, passVars, snapCurrent, queued, budget>>

(* The informer delivers the newest version and the handler of             *)
(* SetupWithManager's For() puts the key into the queue.                   *)
SyncCR ==
  /\ ~crFresh
  /\ crCache' = cr /\ crFresh' = TRUE
  /\ queued' = TRUE
  /\ UNCHANGED <<cr, childVars, passVars, snapCurrent, budget>>

(* Owns() finds the resource by the name in the controller reference of    *)
(* the old and of each new version of the child, and only by it.           *)
EnqueuesNewOwner(k) ==   \* mistake: a child that is gone has no owner to tell
  child[k].owner # 0

Enqueues(k) == cache[k].owner # 0 \/ missed[k]

SyncChild(k) ==
  /\ ~fresh[k]
  /\ cache' = [cache EXCEPT ![k] = child[k]]
  /\ fresh' = [fresh EXCEPT ![k] = TRUE]
  /\ missed' = [missed EXCEPT ![k] = FALSE]
  /\ queued' = (queued \/ Enqueues(k))
  /\ UNCHANGED <<crVars, passVars, child, snapCurrent, budget>>

-----------------------------------------------------------------------------
(* The worker.                                                             *)

(* A pass that returns an error is queued again, rate-limited.             *)
EndPassQuietly(r) ==   \* mistake: the error is logged, not returned
  /\ pc' = "idle" /\ result' = r
  /\ snap' = NoCR(0) /\ attempt' = 0
  /\ UNCHANGED queued

EndPassRequeue(r) ==   \* mistake: Result{Requeue: true} at the end of every pass
  /\ pc' = "idle" /\ result' = r
  /\ snap' = NoCR(0) /\ attempt' = 0
  /\ queued' = TRUE

EndPass(r) ==
  /\ pc' = "idle" /\ result' = r
  /\ snap' = NoCR(0) /\ attempt' = 0
  /\ queued' = (queued \/ r # "ok")

Continue ==
  /\ pc' = Following[pc]
  /\ attempt' = 0
  /\ UNCHANGED <<snap, snapCurrent, result, queued>>

(* Conflict: sleep, read again, at most MaxRetries times.                  *)
RetriesCountedFromOne == attempt < MaxRetries   \* mistake: one attempt too many

RetriesLeft == attempt + 1 < MaxRetries

Retry ==
  IF RetriesLeft
    THEN /\ attempt' = attempt + 1
         /\ UNCHANGED <<pc, snap, snapCurrent, result, queued>>
    ELSE EndPass("exhausted") /\ snapCurrent' = FALSE

Fail == EndPass("error") /\ snapCurrent' = FALSE

(* The branch Reconcile takes on the resource it read.                     *)
FirstStepUnguarded(s) ==   \* mistake: children before the finalizer
  CASE ~s.exists                            -> "idle"
    [] s.exists /\ s.del /\ s.fin           -> "finDeployment"
    [] s.exists /\ s.del /\ ~s.fin          -> "idle"
    [] OTHER -> IF s.cfg.database THEN "database" ELSE "deployment"

FirstStep(s) ==
  CASE ~s.exists                            -> "idle"
    [] s.exists /\ s.del /\ s.fin           -> "finDeployment"
    [] s.exists /\ s.del /\ ~s.fin          -> "idle"
    [] s.exists /\ ~s.del /\ ~s.fin         -> "addFinalizer"
    [] OTHER -> IF s.cfg.database THEN "database" ELSE "deployment"

BeginPass ==
  /\ pc = "idle" /\ queued
  /\ queued' = FALSE
  /\ pc' = FirstStep(crCache)
  /\ IF FirstStep(crCache) = "idle"
       THEN snap' = NoCR(0) /\ snapCurrent' = FALSE /\ result' = "ok"
       ELSE snap' = crCache /\ snapCurrent' = crFresh /\ result' = "none"
  /\ UNCHANGED <<crVars, childVars, attempt, budget>>

(* Update of the resource: spec and metadata of the snapshot, the live     *)
(* status; refused when the snapshot is not the newest version.            *)
UpdateCRBlindly(new) ==   \* mistake: written without the resource version
  WriteCR(new) /\ EndPass("ok")

UpdateCR(new) ==
  \/ /\ snapCurrent
     /\ WriteCR(new) /\ EndPass("ok")
  \/ /\ ~snapCurrent
     /\ Fail /\ UNCHANGED crVars

AddFinalizer ==
  /\ pc = "addFinalizer"
  /\ UpdateCR([snap EXCEPT !.fin = TRUE, !.ready = cr.ready, !.urls = cr.urls])
  /\ UNCHANGED <<childVars, budget>>

(* finalizeService deletes by name, without reading, and ignores NotFound. *)
FinalizeChild ==
  /\ pc \in {"finDeployment", "finBase", "finIngress"}
  /\ WriteChild(KindOf[pc], NoChild)
  /\ Continue
  /\ UNCHANGED <<crVars, budget>>

(* With its last finalizer a deleted resource is gone.                     *)
RemoveFinalizer ==
  /\ pc = "finRemove"
  /\ UpdateCR(NoCR(snap.uid))
  /\ UNCHANGED <<childVars, budget>>

-----------------------------------------------------------------------------
(* reconcileDeployment, reconcileServices, reconcileIngress.               *)

OwnerOfBaseOnly(k) ==   \* mistake: no reference on the NodePort Service
  IF k \in {"deployment", "nodeport"} THEN 0 ELSE snap.uid

Owner(k) == IF k = "deployment" THEN 0 ELSE snap.uid

Differs(k, existing) == k \in Defaulted \/ existing.content # Desired(snap.cfg, k)

(* Create.  A Service's loop is left with the NotFound of its Get still in *)
(* err, so that the pass fails although the Service was created.           *)
CreateChild(k) ==
  /\ ~cache[k].exists
  /\ \/ /\ ~child[k].exists
        /\ WriteChild(k, [exists |-> TRUE, content |-> Desired(snap.cfg, k), owner |-> Owner(k)])
        /\ IF k \in Services THEN EndPass("exhausted") /\ snapCurrent' = FALSE ELSE Continue
     \/ /\ child[k].exists   \* AlreadyExists
        /\ Fail /\ UNCHANGED childVars

KeepChild(k) ==
  /\ cache[k].exists /\ ~Differs(k, cache[k])
  /\ Continue /\ UNCHANGED childVars

(* Update.  A Service or an Ingress gets the controller reference, the     *)
(* Deployment keeps the metadata it has.                                   *)
UpdateChild(k) ==
  /\ cache[k].exists /\ Differs(k, cache[k])
  /\ \/ /\ fresh[k]
        /\ WriteChild(k, [exists |-> TRUE, content |-> Desired(snap.cfg, k),
                          owner |-> IF k = "deployment" THEN child[k].owner ELSE snap.uid])
        /\ Continue
     \/ /\ ~fresh[k] /\ child[k].exists   \* Conflict
        /\ Retry /\ UNCHANGED childVars
     \/ /\ ~fresh[k] /\ ~child[k].exists  \* NotFound
        /\ Fail /\ UNCHANGED childVars

Apply(k) == CreateChild(k) \/ KeepChild(k) \/ UpdateChild(k)

(* Get, then Delete what was found; only the Get's NotFound is ignored.    *)
RemoveChild(k) ==
  \/ /\ ~cache[k].exists
     /\ Continue /\ UNCHANGED childVars
  \/ /\ cache[k].exists /\ child[k].exists
     /\ WriteChild(k, NoChild) /\ Continue
  \/ /\ cache[k].exists /\ ~child[k].exists
     /\ Fail /\ UNCHANGED childVars

Needed(k) == Desired(snap.cfg, k) # NotNeeded

ReconcileDeployment ==
  /\ pc = "deployment"
  /\ IF Needed("deployment") THEN Apply("deployment") ELSE RemoveChild("deployment")
  /\ UNCHANGED <<crVars, budget>>

(* The desired Services, the NodePort one first, ...                       *)
ReconcileService ==
  /\ pc \in Services
  /\ IF Needed(pc) THEN Apply(pc) ELSE Continue /\ UNCHANGED childVars
  /\ UNCHANGED <<crVars, budget>>

(* ... then those no longer desired; without any port, both.               *)
CleanService ==
  /\ pc \in {"cleanBase", "cleanNodeport"}
  /\ IF Needed(KindOf[pc]) THEN Continue /\ UNCHANGED childVars ELSE RemoveChild(KindOf[pc])
  /\ UNCHANGED <<crVars, budget>>

ReconcileIngress ==
  /\ pc = "ingress"
  /\ IF Needed("ingress") THEN Apply("ingress") ELSE RemoveChild("ingress")
  /\ UNCHANGED <<crVars, budget>>

(* reconcileDatabase works on other objects than the generic children; its *)
(* failures are CallFails.                                                 *)
ReconcileDatabase ==
  /\ pc = "database"
  /\ Continue
  /\ UNCHANGED <<crVars, childVars, budget>>

StatusOf(s) == [s EXCEPT !.ready = TRUE, !.urls = NewURLs(snap.cfg)]

UpdateStatus ==
  /\ pc = "status"
  /\ \/ /\ StatusOf(snap) = snap
        /\ EndPass("ok") /\ snapCurrent' = FALSE
        /\ UNCHANGED crVars
     \/ /\ StatusOf(snap) # snap
        /\ UpdateCR(StatusOf(cr))
  /\ UNCHANGED <<childVars, budget>>

-----------------------------------------------------------------------------
(* Failures.                                                               *)

(* Any call of the pass returns another error than the ones above.         *)
CallFails ==
  /\ pc # "idle" /\ budget.faults > 0
  /\ Fail
  /\ budget' = [budget EXCEPT !.faults = @ - 1]
  /\ UNCHANGED <<crVars, childVars>>

(* The process dies between two calls; the next one lists everything and   *)
(* queues what it finds.                                                   *)
Crash ==
  /\ budget.faults > 0
  /\ pc' = "idle" /\ snap' = NoCR(0) /\ snapCurrent' = FALSE /\ attempt' = 0
  /\ result' = "none"
  /\ crCache' = cr /\ crFresh' = TRUE
  /\ cache' = child /\ fresh' = [k \in Kinds |-> TRUE] /\ missed' = [k \in Kinds |-> FALSE]
  /\ queued' = (cr.exists \/ \E k \in Kinds : child[k].owner # 0)
  /\ budget' = [budget EXCEPT !.faults = @ - 1]
  /\ UNCHANGED <<cr, child>>

Worker ==
  \/ BeginPass \/ AddFinalizer \/ FinalizeChild \/ RemoveFinalizer
  \/ ReconcileDeployment \/ ReconcileService \/ CleanService \/ ReconcileIngress
  \/ ReconcileDatabase \/ UpdateStatus

Cluster == SyncCR \/ \E k \in Kinds : SyncChild(k) \/ CollectGarbage(k)

Clients == CreateCR \/ EditCR \/ DeleteCR \/ \E k \in Kinds : TouchChild(k) \/ DisturbChild(k)

Next == Worker \/ Cluster \/ Clients \/ CallFails \/ Crash

Spec == Init /\ [][Next]_vars

(* controller-runtime keeps taking keys from the queue and every call of a *)
(* pass returns; informers keep up and the garbage collector runs.  Nothing*)
(* is assumed of the clients or of failures.                               *)
Fairness ==
  /\ WF_vars(Worker)
  /\ WF_vars(SyncCR)
  /\ \A k \in Kinds : WF_vars(SyncChild(k)) /\ WF_vars(CollectGarbage(k))

FairSpec == Spec /\ Fairness

=============================================================================
