---------------------------- MODULE RuntimeObjects ----------------------------
(***************************************************************************)
(* reconcileRuntimeObjects (internal/controller/service_controller.go):    *)
(* the objects a database's definition renders to, applied one after the   *)
(* other by one pass.                                                      *)
(*                                                                         *)
(* What happens to an object depends on its class.                         *)
(*   "plain"    HelmRepository, HelmRelease, BackupPolicy: functions of    *)
(*              their own that replace the spec and nothing else, read     *)
(*              from a cache that lags;                                    *)
(*   "known"    Deployment, Service, Ingress: the only kinds whose events  *)
(*              start a pass; changed as typed objects;                    *)
(*   "untyped"  everything else, changed as unstructured content.          *)
(* The last two are read as unstructured content, for which the client     *)
(* asks the API server: what it returns is new, until somebody writes      *)
(* before the pass does. Jobs and clusters are applied in the same         *)
(* sequence by functions that JobReconciler and DatabaseCredentials model. *)
(***************************************************************************)
EXTENDS Naturals, Sequences

CONSTANTS
  Objects,        \* the objects some version of the spec renders
  Class,          \* the class of each
  Rendered,       \* the rendering of each version of the spec, in order
  Defaulted,      \* objects the API server completes: never DeepEqual
  Reported,       \* objects whose status somebody fills in
  MaxEdits,       \* bound: edits of the spec
  MaxTouches,     \* bound: writes of others
  MaxFaults       \* bound: calls that fail, processes that die

Versions == DOMAIN Rendered

ASSUME RenderingAssumption ==
  /\ Class \in [Objects -> {"plain", "known", "untyped"}]
  /\ Rendered \in Seq(Seq(Objects)) /\ Rendered # <<>>
  /\ Defaulted \subseteq Objects /\ Reported \subseteq Objects
  /\ {MaxEdits, MaxTouches, MaxFaults} \subseteq Nat

VARIABLES
  spec,           \* the version of the resource's spec
  past,           \* the versions it had before
  ready,          \* status.deploymentStatus = "Ready"
  gone,           \* the resource has been deleted
  queued,         \* the resource's key is in the work queue
  live,           \* the objects in the API server
  cached,         \* the client's copies of them (untyped ones have none: = live)
  fresh,          \* which copies are the newest version
  missed,         \* an undelivered version of the object names the resource as owner
  pc,             \* what the running pass does next
  wanted,         \* the version of the spec the pass works from
  edited,         \* the resource was edited since the pass began
  next,           \* the place in the rendering the pass has come to
  existing,       \* the object it has read there
  newest,         \* nobody has written the object since the version it read
  budget          \* what is left of the bounds

serviceVars == <<spec, past, ready, gone>>
objectVars == <<live, cached, fresh, missed>>
passVars == <<pc, wanted, edited, next, existing, newest>>
vars == <<serviceVars, queued, objectVars, passVars, budget>>

Theirs == 0   \* a content no version of the spec asks for

(* The controller reference; marks are labels, annotations and finalizers  *)
(* of others; status is what the object's operator or the API server       *)
(* filled in: the status field, a Service's cluster IP.                    *)
Object == [exists : BOOLEAN, content : Versions \union {Theirs},
           owner : {"none", "service", "other"}, marks : BOOLEAN, status : BOOLEAN]
NoObject == [exists |-> FALSE, content |-> Theirs, owner |-> "none", marks |-> FALSE,
             status |-> FALSE]

TypeOK ==
  /\ spec \in Versions /\ past \subseteq Versions
  /\ {ready, gone, queued, edited, newest} \subseteq BOOLEAN
  /\ live \in [Objects -> Object] /\ cached \in [Objects -> Object]
  /\ fresh \in [Objects -> BOOLEAN] /\ missed \in [Objects -> BOOLEAN]
  /\ pc \in {"idle", "apply", "write", "status"} /\ wanted \in Versions
  /\ next \in IF pc \in {"apply", "write"} THEN DOMAIN Rendered[wanted] ELSE {0}
  /\ existing \in Object
  /\ budget \in [edits : Nat, touches : Nat, faults : Nat]

Init ==
  /\ spec = 1 /\ past = {} /\ ready = FALSE /\ gone = FALSE /\ queued = TRUE
  /\ live = [o \in Objects |-> NoObject] /\ cached = live
  /\ fresh = [o \in Objects |-> TRUE] /\ missed = [o \in Objects |-> FALSE]
  /\ pc = "idle" /\ wanted = 1 /\ edited = FALSE /\ next = 0
  /\ existing = NoObject /\ newest = FALSE
  /\ budget = [edits |-> MaxEdits, touches |-> MaxTouches, faults |-> MaxFaults]

-----------------------------------------------------------------------------
Current == Rendered[wanted][next]

(* A write that changes nothing makes no new version. Untyped objects have *)
(* no copy that could lag.                                                 *)
Store(o, new) ==
  /\ live' = [live EXCEPT ![o] = new]
  /\ cached' = [cached EXCEPT ![o] = IF Class[o] = "untyped" THEN new ELSE @]
  /\ fresh' = [fresh EXCEPT ![o] = @ /\ (new = live[o] \/ Class[o] = "untyped")]
  /\ missed' = [missed EXCEPT
       ![o] = @ \/ (new # live[o] /\ new.owner = "service" /\ Class[o] # "untyped")]

(* Whoever writes between the pass's read and its write overtakes it.      *)
Write(o, new) ==
  /\ Store(o, new)
  /\ newest' = (newest /\ (o = Current => new = live[o]))
  /\ UNCHANGED <<pc, wanted, edited, next, existing>>

(* Control of the pass.                                                    *)
Forget == existing' = NoObject /\ newest' = FALSE

Rest == pc' = "idle" /\ wanted' = 1 /\ edited' = FALSE /\ next' = 0 /\ Forget

EndPassRequeue(again) == Rest /\ queued' = TRUE   \* mistake: Requeue: true

EndPass(again) == Rest /\ queued' = (queued \/ again)

AtOrAfterLast(version, i) ==   \* mistake: one object too many
  IF i <= Len(Rendered[version]) + 1
    THEN pc' = "apply" /\ next' = i
    ELSE pc' = "status" /\ next' = 0

Reach(version, i) ==
  IF i \in DOMAIN Rendered[version]
    THEN pc' = "apply" /\ next' = i
    ELSE pc' = "status" /\ next' = 0

Continue == Reach(wanted, next + 1) /\ Forget /\ UNCHANGED <<wanted, edited, queued>>

FailQuietly ==   \* mistake: the error is logged and passed over
  IF pc \in {"apply", "write"} THEN Continue ELSE EndPass(TRUE)

Fail == EndPass(TRUE)

(* BuildDatabaseObjects renders the definition, to nothing at all when     *)
(* none was found.                                                         *)
Begin ==
  /\ pc = "idle" /\ queued
  /\ queued' = FALSE
  /\ IF gone
       THEN Rest
       ELSE wanted' = spec /\ Reach(spec, 1) /\ UNCHANGED <<edited, existing, newest>>
  /\ UNCHANGED <<serviceVars, objectVars, budget>>

-----------------------------------------------------------------------------
(* One object.                                                             *)

(* The desired object as rendered, and with SetControllerReference.        *)
Desired == [NoObject EXCEPT !.exists = TRUE, !.content = wanted]
Owned(o) == [o EXCEPT !.owner = "service"]

(* genericObjectNeedsUpdate compares the metadata too: an object with a    *)
(* controller reference always differs from the rendered one.              *)
NeedsUpdate(o, e) ==
  \/ o \in Defaulted \/ e.content # wanted
  \/ Class[o] = "untyped" /\ (e.owner # "none" \/ e.marks)

(* Mistakes: the reference is set before the content is replaced; the      *)
(* status is replaced as well.                                             *)
UpdatedUnowned(o, e) ==
  CASE Class[o] = "plain"   -> [e EXCEPT !.content = wanted]
    [] Class[o] = "known"   -> Owned([e EXCEPT !.content = wanted])
    [] Class[o] = "untyped" -> [Desired EXCEPT !.status = e.status]

UpdatedStatusToo(o, e) ==
  CASE Class[o] = "plain"   -> [e EXCEPT !.content = wanted]
    [] Class[o] = "known"   -> Owned([e EXCEPT !.content = wanted])
    [] Class[o] = "untyped" -> Owned(Desired)

(* updateObject keeps a known object's metadata and cluster IP;            *)
(* updateUnstructuredObject keeps the status only.                         *)
Updated(o, e) ==
  CASE Class[o] = "plain"   -> [e EXCEPT !.content = wanted]
    [] Class[o] = "known"   -> Owned([e EXCEPT !.content = wanted])
    [] Class[o] = "untyped" -> Owned([Desired EXCEPT !.status = e.status])

(* SetControllerReference refuses an object of another controller.  The    *)
(* untyped content has lost that reference before it is asked, the plain   *)
(* ones ask for the rendered object, which has none.                       *)
NeverRefused(o, e) == FALSE   \* mistake: the error is ignored

Refused(o, e) == Class[o] = "known" /\ e.owner = "other"

Read(o) == IF Class[o] = "plain" THEN cached[o] ELSE live[o]

LeaveObject(o) ==
  \/ /\ Read(o).exists /\ ~NeedsUpdate(o, Read(o))
     /\ Continue
  \/ /\ Read(o).exists /\ NeedsUpdate(o, Read(o)) /\ Refused(o, Read(o))   \* AlreadyOwned
     /\ Fail

PrepareObject(o) ==
  /\ Read(o).exists => NeedsUpdate(o, Read(o)) /\ ~Refused(o, Read(o))
  /\ pc' = "write" /\ existing' = Read(o) /\ newest' = (Class[o] = "plain" => fresh[o])
  /\ UNCHANGED <<wanted, edited, next, queued>>

GetObject ==
  /\ pc = "apply"
  /\ LeaveObject(Current) \/ PrepareObject(Current)
  /\ UNCHANGED <<serviceVars, objectVars, budget>>

CreateObject(o) ==
  /\ ~existing.exists
  /\ \/ ~live[o].exists /\ Store(o, Owned(Desired)) /\ Continue
     \/ live[o].exists /\ Fail /\ UNCHANGED objectVars   \* AlreadyExists

(* No conflict is retried within the pass.                                 *)
UpdateObject(o) ==
  /\ existing.exists
  /\ \/ newest /\ Store(o, Updated(o, existing)) /\ Continue
     \/ ~newest /\ Fail /\ UNCHANGED objectVars   \* Conflict

WriteObject ==
  /\ pc = "write"
  /\ CreateObject(Current) \/ UpdateObject(Current)
  /\ UNCHANGED <<serviceVars, budget>>

(* A status write is refused when the spec was edited meanwhile; it is the *)
(* event that starts the next pass.                                        *)
UpdateStatus ==
  /\ pc = "status"
  /\ \/ /\ ready
        /\ EndPass(FALSE) /\ UNCHANGED ready
     \/ /\ ~ready /\ ~edited
        /\ ready' = TRUE /\ EndPass(TRUE)
     \/ /\ ~ready /\ edited   \* Conflict
        /\ Fail /\ UNCHANGED ready
  /\ UNCHANGED <<spec, past, gone, objectVars, budget>>

-----------------------------------------------------------------------------
(* Failures.                                                               *)

Spend(b) == budget[b] > 0 /\ budget' = [budget EXCEPT ![b] = @ - 1]

CallFails ==
  /\ pc # "idle" /\ Spend("faults")
  /\ Fail
  /\ UNCHANGED <<serviceVars, objectVars>>

Crash ==
  /\ Spend("faults")
  /\ Rest /\ queued' = ~gone
  /\ cached' = live /\ fresh' = [o \in Objects |-> TRUE]
  /\ missed' = [o \in Objects |-> FALSE]
  /\ UNCHANGED <<serviceVars, live>>

-----------------------------------------------------------------------------
(* The cache and its events.                                               *)

Unwatched(o) == FALSE   \* mistake: Owns() is forgotten

(* SetupWithManager watches the known kinds, by their controller reference.*)
Enqueues(o) == Class[o] = "known" /\ (cached[o].owner = "service" \/ missed[o])

Sync(o) ==
  /\ ~fresh[o]
  /\ cached' = [cached EXCEPT ![o] = live[o]]
  /\ fresh' = [fresh EXCEPT ![o] = TRUE] /\ missed' = [missed EXCEPT ![o] = FALSE]
  /\ queued' = (queued \/ Enqueues(o))
  /\ UNCHANGED <<serviceVars, live, passVars, budget>>

-----------------------------------------------------------------------------
(* Others.                                                                 *)

EditService ==
  /\ ~gone /\ Spend("edits")
  /\ \E version \in Versions \ {spec} : spec' = version
  /\ past' = past \union {spec}
  /\ queued' = TRUE /\ edited' = (pc # "idle")
  /\ UNCHANGED <<ready, gone, objectVars, pc, wanted, next, existing, newest>>

(* The last step of a deletion: no pass of the resource is running that    *)
(* applies anything (FinalizerLock of ServiceControllerProperties).        *)
Release ==
  /\ ~gone /\ pc = "idle"
  /\ gone' = TRUE /\ queued' = TRUE
  /\ UNCHANGED <<spec, past, ready, objectVars, passVars, budget>>

CollectGarbage(o) ==
  /\ gone /\ live[o].exists /\ live[o].owner = "service"
  /\ Write(o, NoObject)
  /\ UNCHANGED <<serviceVars, queued, budget>>

(* The operator of an object, or the API server, fills in its status.      *)
Report(o) ==
  /\ o \in Reported /\ live[o].exists /\ ~live[o].status
  /\ Write(o, [live[o] EXCEPT !.status = TRUE])
  /\ UNCHANGED <<serviceVars, queued, budget>>

(* Somebody had an object of that name, with or without a controller.      *)
Intrude(o) ==
  /\ ~live[o].exists /\ Spend("touches")
  /\ \E c \in {Theirs, spec}, w \in {"none", "other"} :
        Write(o, [NoObject EXCEPT !.exists = TRUE, !.content = c, !.owner = w])
  /\ UNCHANGED <<serviceVars, queued>>

Touch(o) ==
  /\ live[o].exists /\ Spend("touches")
  /\ \E new \in {NoObject, [live[o] EXCEPT !.marks = TRUE],
                 [live[o] EXCEPT !.content = Theirs]} : Write(o, new)
  /\ UNCHANGED <<serviceVars, queued>>

Worker == Begin \/ GetObject \/ WriteObject \/ UpdateStatus

Next ==
  \/ Worker \/ CallFails \/ Crash
  \/ EditService \/ Release
  \/ \E o \in Objects : Sync(o) \/ CollectGarbage(o) \/ Report(o) \/ Intrude(o) \/ Touch(o)

Spec == Init /\ [][Next]_vars

(* Queue, calls, cache and garbage collector as in ServiceController.      *)
FairSpec ==
  /\ Spec
  /\ WF_vars(Worker)
  /\ \A o \in Objects : WF_vars(Sync(o)) /\ WF_vars(CollectGarbage(o))

-----------------------------------------------------------------------------
(* What the sequence guarantees.                                           *)

Undisturbed == budget.touches = MaxTouches

Quiet == pc = "idle" /\ ~queued /\ \A o \in Objects : fresh[o]

InRendering(version) == {Rendered[version][i] : i \in DOMAIN Rendered[version]}

AsAsked(o, version) == live[o].exists /\ live[o].content = version

(* When the spec is one the resource had before, an old copy of a plain    *)
(* object may pass for what is asked now.                                  *)
MayBePassedOver(o) == Class[o] = "plain" /\ spec \in past

(* An object that fails stops the pass and has it repeated (:1768-1920):   *)
(* whatever failed, died or was edited on the way, at rest every object    *)
(* of the spec in force is there, as asked and owned by the resource,      *)
(* except for a plain one after a return to an earlier spec.               *)
QuietMeansRendered ==
  Quiet /\ Undisturbed /\ ~gone =>
    \A o \in InRendering(spec) :
      MayBePassedOver(o) \/ (AsAsked(o, spec) /\ live[o].owner = "service")

(* Events of owned Deployments, Services and Ingresses (:2359-2361) repair *)
(* what others write into them, however it overlaps with the passes, their *)
(* failures, edits of the spec and the lag of the cache.                   *)
QuietMeansRepaired ==
  Quiet /\ ~gone =>
    \A o \in InRendering(spec) :
      Class[o] = "known" /\ live[o].exists /\ live[o].owner = "service" => AsAsked(o, spec)

(* The status is written last (:134-185): when Ready is announced, every   *)
(* object of the spec in force is there, as asked, whichever spec it is    *)
(* and whatever failed before (a plain object may be passed over after a   *)
(* return). A later edit leaves Ready as it is (:170).                     *)
ReadyMeansRendered ==
  [][~ready /\ ready' /\ Undisturbed =>
       \A o \in InRendering(spec) : MayBePassedOver(o) \/ AsAsked(o, spec)]_vars

(* What the object's operator or the API server has filled in meanwhile    *)
(* survives every update, stale copies included (:1133-1140, :2200-2206,   *)
(* :2275-2292).                                                            *)
StatusKept ==
  [][\A o \in Objects :
       live[o].exists /\ live[o].status /\ live'[o].exists => live'[o].status]_vars

(* No pass writes into a Deployment, Service or Ingress that another       *)
(* controller owns, however it was named or cached (:1900-1902).           *)
OthersKept ==
  [][\A o \in Objects :
       /\ Class[o] = "known" /\ live[o].exists /\ live[o].owner = "other"
       /\ [live'[o] EXCEPT !.status = live[o].status] # live[o]
       => budget'.touches < budget.touches]_vars

Blocked == \E o \in Objects : Class[o] = "known" /\ live[o].owner = "other"

(* Objects that never compare equal are written by every pass (:2049-2101),*)
(* and a pass writes what starts passes: it comes to rest all the same,    *)
(* unless an object belongs to another controller.                         *)
Quiesces == <>[](Quiet \/ Blocked)

(* There is no finalizer for these objects (:191-234), only their          *)
(* references: with the resource they all go, those of earlier versions    *)
(* of the spec included.                                                   *)
ObjectsGo == gone ~> (Undisturbed => \A o \in Objects : ~live[o].exists)

=============================================================================
