# Formal models of the Unbind operator

The repository is a Kubernetes operator (Go, controller-runtime 0.21): it watches one custom
resource, `Service` of `unbind.unbind.app/v1`, and keeps the Kubernetes objects it stands for.
This directory holds TLA+ models of it, the TLC configurations that check them on small
instances, and proofs checked by TLAPS. Line numbers without a file are those of
`src/internal/controller/service_controller.go`; "core Service" is Kubernetes' own `v1/Service`.

## 1. Inventory

| component | source | state | operations |
|---|---|---|---|
| reconcile pass | `:92-188` | the resource's metadata (finalizer, deletion timestamp), spec, status; the pass's snapshot of them | `Reconcile`: branch on deletion, finalizer, type; status |
| finalization | `:191-234` | the children | three deletes by name |
| generic children | `:237-571` | Deployment, core Services `<name>` and `<name>-nodeport`, Ingress | get, then create / update with retries / delete |
| watches | `:2356-2363` | work queue | events of the resource, and of children through their owner reference |
| resource builders | `resourcebuilder/*.go` | none (pure functions of the spec) | `BuildDeployment`, `BuildServices`, `BuildIngress` |
| database credentials | `:574-918`, `:1006-1106`, `:1256-1386`, `:1423-1557`, `:1628-1764` | generated source secret, the platform's target secret | ensure, wait, copy |
| database clusters | `:931-1003`, `:1186-1253`, `:1561-1625` | Postgresql, MySQLCluster, ClickHouseInstallation | create / update with retries, then copy credentials |
| Jobs | `:2108-2166` | a Job | create, delete and re-create |
| runtime objects | `:1109-1182`, `:1389-1419`, `:1768-2105`, `:2169-2353` | HelmRelease, HelmRepository, BackupPolicy, anything else rendered | create or update, generic comparison and merge |
| operator manager | `operator/manager.go` | HelmRepository and HelmRelease of an external operator, the CRD it brings | discover, install |
| database rendering | `resourcebuilder/database.go` | none | fetch and render a template (`unbind-api`) into a list of objects |
| command parsing | `resourcebuilder/deployment.go:244-329` | none | split a command line |
| manager | `cmd/main.go` | none of its own | flags, TLS, leader election, start |

How they interact. One worker takes the resource's key from a rate-limited queue and runs one
pass. A pass reads through the informers' cache and writes to the API server; it returns an
error to be queued again. All other interaction goes through the API server: users and the
Unbind platform edit and delete the resource and prepare the target secret, Kubernetes' own
controllers write the children, the garbage collector removes what names a dead owner, Flux
installs external operators, and those create secrets and run databases.

What is hard here:

* every decision is made from a copy that may be stale, every write may be refused, and the
  pass goes on for seconds (sleeps between retries) while the resource changes or goes away;
* the finalizer is the only protection against a pass that creates children for a resource
  that is being deleted, and the snapshot of the pass may be older than the deletion;
* the process may die between any two calls, in particular between the deletes of a
  finalization, between a generated password and its copy, between a Job's deletion and its
  re-creation, between a HelmRepository and its HelmRelease;
* no periodic requeue is asked for: whatever is not repaired by an event stays as it is (the
  informers' resync, every 10 hours by default, is a safety net nobody should count on);
* different objects are watched or not, owned or not: the Deployment is watched but not owned,
  secrets, clusters, Jobs and most runtime objects are not watched;
* a database is a list of objects applied one after the other, each with rules of its own for
  what is compared, what is kept and who may own it; any of them may fail.

What makes each component correct:

* *pass and finalizer*: children are applied only for a resource that exists and is held by
  the finalizer; nothing finalized outlives it; no edit is lost; the status is that of the
  spec it stands next to; a deletion completes;
* *generic children*: whenever nothing is pending, the children are those of the spec; the
  passes come to rest;
* *builders*: ports are served once, an Ingress routes to a port that exists, announced URLs
  are routed (not so without ports);
* *credentials*: a password in use is never replaced; target and source agree; credentials
  arrive whatever fails on the way;
* *Jobs*: a completed or unchanged Job is left alone, a changed one is replaced;
* *runtime objects*: the list is completed whatever interrupts it, status and foreign objects
  are respected, and nothing outlives the resource;
* *command parsing*: words end at unquoted spaces, and nothing of a command is lost;
* *operator manager*: interrupted installations are completed, Ready never comes first.

## 2. Modules

| module | models | checked by |
|---|---|---|
| `ResourceBuilder` | the builders as operators on a record of the fields they branch on | `ResourceBuilderMC` |
| `CommandParser` | `parseCommand`, and what `BuildDeployment` makes of its result | `ResourceBuilderMC` |
| `SequenceFilters` | the loops of both that append what they keep, as recursive functions over positions | used by the two |
| `ServiceController` | pass, finalization, generic children, API server, caches, queue; extends `ResourceBuilder`, so that what a pass wants is what the builders build | `ServiceControllerMC` |
| `ServiceControllerProperties` | its properties and the inductive invariant of the finalizer | |
| `ServiceLifecycle` | the abstract specification: four phases of a resource and the set of its children | refined by `ServiceController` |
| `DatabaseCredentials`, `DatabaseCredentialsProperties` | source, target and cluster of one database, five engines | directly |
| `CredentialsContract` | the abstract specification: one password, one delivery | refined by `DatabaseCredentials` |
| `JobReconciler` | one Job | directly |
| `RuntimeObjects` | the sequence of the rendered objects, by class of object | `RuntimeObjectsMC` |
| `OperatorManager` | installations for several resources and both engines | `OperatorManagerMC` |
| `ServiceControllerProofs`, `ServiceControllerRestProofs`, `DatabaseCredentialsProofs`, `DatabaseCredentialsRestProofs`, `JobReconcilerProofs`, `RuntimeObjectsProofs`, `OperatorManagerProofs`, `ResourceBuilderProofs` | the theorems (section 4) | TLAPS |

### ServiceController

The resource is a record (`exists, uid, cfg, fin, del, ready, urls`), a child another
(`exists, content, owner`), where the content is the value the builders return, and `owner` the
uid in the controller reference (0: none). For each object there is the API server's version,
the informer's copy, and a bit saying whether the copy is the newest version: that is all the
comparison of two resource versions can tell, so versions are not counted. `snapCurrent` is the
same bit for the snapshot a pass works from.

`pc` names the call the pass makes next; each action is one call with everything that
follows from it up to the next one:

| action | code |
|---|---|
| `BeginPass`, `FirstStep` | `Reconcile` up to the branch, `:92-142` |
| `AddFinalizer`, `RemoveFinalizer` | the Updates at `:123` and `:113`, refused on a stale snapshot |
| `FinalizeChild` | the deletes of `finalizeService` |
| `ReconcileDeployment`, `ReconcileService`, `ReconcileIngress` | `CreateChild`, `KeepChild`, `UpdateChild` or `RemoveChild` |
| `CleanService` | the clean-up of core Services no longer desired, `:451-482`; without ports, `:315-347` |
| `UpdateStatus` | `:160-185` |
| `CallFails` | any other error of a call |
| `Crash` | the process dies; the next one lists everything and queues what it finds |
| `SyncCR`, `SyncChild` | an informer delivers, the handlers of `For` and `Owns` queue the key |
| `CreateCR`, `EditCR`, `DeleteCR`, `TouchChild`, `DisturbChild`, `CollectGarbage` | everybody else |

`Retry` stands for the retry loop of `:271-301`, `:364-444`, `:528-568`: at most `MaxRetries`
refused Updates. That a created core Service ends the pass with an error is the code's
(`:377`, `:446`, see the findings).

Abstractions, and why they lose nothing the properties speak of. A cached Get and the write
that follows it are one step: what can happen between them is a lag of the cache, and the step is
taken with every lag. An informer that catches up delivers the newest version; that an earlier
one named an owner is remembered (`missed`), because the handlers look at both the old and the
new object. Foreground deletion and foreign finalizers are left out: a deleted child is gone.
Kinds in `Defaulted` never compare equal to what was built, because the API server fills in
fields (a Deployment's template, a core Service's type); an Update that changes nothing makes
no new version. Two resources that share a name prefix, the 10-hour resync, several workers
and overlapping leaders are not modelled. `reconcileDatabase` is a step without effect on the
generic children.

### ServiceLifecycle

`absent -> bare -> guarded -> deleting -> absent`; children appear only while guarded or
deleting, and the resource is released only when none of the finalized kinds is left. The
refinement mapping is `Phase` and `Present` in `ServiceControllerProperties`. It says what a
reader of the code would like to know without caches and retries: `Protected`.

### DatabaseCredentials

A secret is a record of the keys that matter: username, password, whether there is a URL and
the password spelled in it, and the source's second key (replica set key, backup password).
Passwords are numbers in the order of their generation, so that "the same password" and "a new
one" are told apart. The steps of a pass are `ensure` (`EnsureSecret`), `cluster`
(`ReconcileCluster`), two waits for the source (`AwaitSource`, after writing it or after
finding the cluster) followed by a write of the target (`WriteTarget`), and `status`. The engine
and whether `spec.kubernetesSecret` is set are chosen initially. `EnsureSecret` covers the three
ensure functions: they differ in the secret they write (`Generated`), in what is complete
(`Complete`), in whether a copy follows (`AfterGenerating`) and in the nil map. `WriteTarget`
covers the four copy functions: PostgreSQL's does not create a missing target and takes any
error for absence (`PostgresGetFails`), and takes the username from the source.

The status write is the event that starts the next pass; nothing else does, except edits,
errors and restarts. It is refused when the resource was edited since the pass began (`edited`;
`:181` writes with the resource version of the pass's copy), here as in `JobReconciler` and
`RuntimeObjects`. MySQL's and ClickHouse's second Get of the cluster (`:1239`, `:1611`) is not a step:
its result is not used, and that it may fail is `CallFails` at `await`. The target secret exists
initially or is made later by the platform, at most `MaxTargets` times (`CreateTarget`). The clusters' specs are version numbers of the resource's spec, and may
differ without an edit, as external operators complete them.

### CredentialsContract

What is promised without passes, caches and retries: the database's own password is made once
and left alone, what clients read is completed once, with a password that was really made, and
only others take something away. The mapping is `Contract` in `DatabaseCredentialsProperties`: the
source is the secret the engine generates into, which for Redis is the target, so that nothing is
left to deliver; for PostgreSQL and MySQL it is the external operator's step that is the
contract's `Generate`.

### RuntimeObjects

`reconcileRuntimeObjects` (`:1768-1929`) applies the rendered objects in order. What happens to
one depends on its class: HelmRepository, HelmRelease and BackupPolicy ("plain") have functions
that replace the spec and nothing else; Deployments, Services and Ingresses ("known") are changed as
typed objects and are the only ones watched; everything else ("untyped") is changed as unstructured
content. Plain objects are read as typed ones, from the cache; the other two classes are read as
unstructured content (`:1942-1948`), for which the default client asks the API server, so that
`Read` is the live object for them. What may happen between that read and the write that follows is
why both are steps: `GetObject` reads the object the pass has come to (`Current`) and either goes on
(`Continue`), ends the pass with an error that is retried (`Fail`), or remembers what it read
(`existing`) and whether it is still the newest version (`newest`); `WriteObject` creates or updates
from that, and is refused when somebody else wrote in between. The operators name what the classes
differ in:

| operator | code |
|---|---|
| `NeedsUpdate` | `objectNeedsUpdate`, `:1978-2054`; `genericObjectNeedsUpdate`, `:2056-2105`, which compares the metadata of untyped objects too; the comparisons of `:1131`, `:1169` |
| `Updated` | `updateObject`, from `:2169`, keeps a known object's metadata and cluster IP; `updateUnstructuredObject`, up to `:2296`, keeps status, cluster IP and what the API server put into the metadata, and nothing of others |
| `Refused` | `SetControllerReference` on the existing object, which fails when another controller owns it |

The content of an object is the version of the spec it was rendered from, or `Theirs`; `marks`
stands for labels, annotations and finalizers of others; `status` for what the object's
operator or the API server filled in (the status field, a Service's cluster IP). `Release` is
the last step of a deletion: it needs no pass running, which is what `FinalizerLock` of
`ServiceController` proves. Jobs and clusters come in the same sequence and have
modules of their own.

### Returns to an earlier spec

`returned` in `DatabaseCredentials` and `JobReconciler` says that the last edit brought back a spec
the resource had before; `RuntimeObjects` keeps the earlier versions (`past`). They exist because of a
hazard: the pass of the edit in between writes an object, the cache has not seen that yet, and the
next pass finds in the cache the still older object, which is equal to what it wants. It skips the
write and settles, and nothing watches clusters, Jobs and plain objects, so that they keep the
content of the edit that was taken back. The properties about the content of those objects
(`QuietMeansSettled` of Jobs, the clusters' spec in `QuietMeansDelivered`, and by `MayBePassedOver` the
plain objects in `QuietMeansRendered` and `ReadyMeansRendered`) therefore make an exception after a
return, for these objects and no others; everything else is checked with returns, edits in the
middle of a pass included. Watched kinds are repaired by the late event, which is what
`ServiceController` shows with spec values that do come back, and what is read from the API server
is never that old.

`ReadyMeansRendered` is about the moment in which Ready is announced, for whichever spec is in force
then. It cannot be about every later state: an edit leaves Ready as it is until the pass for
the new spec has come to its end, and `:170` sets it only where it is not set yet. After an edit
Ready therefore says that some spec was applied completely, not that the last one was.

### JobReconciler, OperatorManager, ResourceBuilder, CommandParser

`JobReconciler` has the Job's spec version and whether it completed; `defaulted` says whether
the API server completes the containers. The wait for the deleted Job counts a read that fails as one
that still finds it (`StillWaiting`, `:2149-2157`). `OperatorManager` has, per engine, the HelmRepository,
the HelmRelease and the CRD, and per resource its cluster; Creates and discovery go to the API
server, so there is no cache. `ResourceBuilder`'s configurations keep the fields that decide
which objects exist, how ports split and what the Ingress routes; all other fields of the pod
only decorate it and are represented by the image value. Two entries may have the same port
number: the names the builder gives (`service.go:31`) contain the protocol, and a port with a NodePort
and one without go to different Services. `ResourceBuilderMC` walks through the
configurations field by field; its `TypeOK` is the set of all of them, of any length.

`CommandParser` has the loop over characters as a recursive function of the position (`Loop`,
each round of it `Read`, its end `Words`) over letters, the two quotes, the space and one character
for all shell operators; a shell prefix is a field of its own, and "bash -c " is to the code what
"sh -c " is. The reference definition does not loop: a position is inside quotes by how many
quotes come before it, a word is the piece between two consecutive unquoted spaces
(`WordsByPosition`). `Panics` says where the code's slice would. The loops are recursive functions
and not the library's `SelectSeq` and `FoldLeft`, because those are recursive *operators* and take
operators as parameters: nothing can be proved about what they compute.

## 3. Runs

| run | instance | shows |
|---|---|---|
| `builders` | 2 ports, 2 hosts, NodePorts, all configurations; command lines of up to 5 characters (31,604 states) | `PortsServedOnce`, `DefaultBackendServed`, `RoutedAnnounced`, `CommandsSplit`, `CommandsWhole` |
| `safety` | full and NodePort-only specs, 2 lives, 1 edit, 1 foreign write of the Deployment or the NodePort Service, 1 fault (1.9 M states) | `TypeOK`, `FinalizerLock`, `NoOrphan`, `QuietMeansSettled`, `IInv`, `NoLostEdit`, `LifecycleImplemented` |
| `settling` | four kinds of specs, 1 life, 1 edit, 1 foreign write of an owned child, 1 fault, fair (405 k) | `QuietMeansDeployed`, `StatusMatchesSpec`, `Quiesces`, `DeletionCompletes`, `ChildrenGo` |
| `credentials` | five engines, 1 edit, 1 return, 1 late target, 1 foreign write, 1 lost password, 1 fault, fair (1.4 M) | `TypeOK`, `URLHasPassword`, `Agreement`, `QuietMeansProvisioned`, `QuietMeansDelivered`, `PasswordsKept`, `PassesEnd`, `Arrives`, `ContractImplemented` |
| `jobs` | 2 edits, 1 return, 2 faults, with and without defaulting (9964) | `TypeOK`, `QuietMeansSettled`, `Settles` |
| `operators` | two resources on MySQL, one on ClickHouse, 1 loss, 1 fault (4224) | `QuietMeansClustered`, `ReadyMeansClustered`, `Installs` |
| `objects` | one object of each class, two versions of the rendering in different orders, 2 edits (an edit and a return, or not), 1 foreign write, 1 fault, fair (498 k) | `TypeOK`, `QuietMeansRendered`, `QuietMeansRepaired`, `ReadyMeansRendered`, `StatusKept`, `OthersKept`, `Quiesces`, `ObjectsGo` |

Bounds and why they suffice. A hazard of the finalizer protocol needs a stale pass, a deletion
and possibly a namesake created afterwards: two lives have them all, and a copy from the first
can meet the second at any step. One edit makes every cached and every held spec differ from the
live one, and a second life may bring the first spec back. One foreign write makes one copy
stale at any moment, and the two runs together expose every child to it; one fault puts a failure
or a crash between any two calls. `MaxRetries` and `MaxWaits` are 2 or 3 in passing runs (5 and
10 in the code): the rounds of a loop do not differ, so a loop that is left by exhaustion is
reached sooner, and the runs for findings use the code's numbers or do not depend on them.
`CHECK_DEADLOCK FALSE` is given where the bounds let the system stop: once clients have nothing
left to do and nothing is queued, it should. Exhaustion of the clients' budgets is also what
lets "at rest" and "eventually" mean something: the clients stop, the controller has to finish.
Command lines of five characters hold a quoted space with something on both sides, a quote
inside the other quotes, and a quote that is never closed. Two edits between the two versions of `objects` are the shortest history
with a return in it. Bounds on edits, faults and foreign writes are constants that guard the actions
of others: the theorems hold for any natural numbers in their place.

Fairness. The worker, and every call it makes, goes on (controller-runtime keeps taking keys
and every request returns); informers keep up; the garbage collector, Flux and the external
operators do their work. In `OperatorManager` each key is served under strong fairness: a key
that failed waits longer, up to a bound, but other keys do not keep it out. Nothing is assumed
of clients, of failures, or of a Job's pods.

Findings, one run each, expected to violate what a comment of the code says:

| run | property | what happens |
|---|---|---|
| `undeployed` | `QuietMeansUndeployed` | a stale NotFound (`:247`) leaves a Deployment nobody asks for (`:243`), and no event repairs it because it is created without an owner reference (`:276`) |
| `backend` | `DefaultBackendIsServicePort` | the default backend can be a NodePort's port, which the Service `<name>` does not have (`ingress.go:23`) |
| `mongo` | `MongoDelivered` | a failure between the generated secret and the copy is never repaired (`:749`) |
| `postgres` | `PostgresDelivered` | a failed read of the target counts as success (`:1051`, against `:978`) |
| `job_stale` | `CompletedKept` | a Job that completed meanwhile is deleted (`:2138`) |

`undeployed` is why the Deployment is not in `QuietMeansSettled`, and has a weaker property of
its own, `QuietMeansDeployed`, under which nobody else writes it. `mongo` and `postgres` are why
`QuietMeansDelivered` is stated for MySQL and ClickHouse; it is about resources that were
databases from the start.

Other disagreements between code and comments, met while modelling and followed by the models,
that need no search:

* a successful Create of a core Service leaves the loop with the NotFound of the Get in `err`,
  and the pass ends with "failed to update service ... after 5 retries" (`:377`, `:447`);
  `CreateChild` does so, and the passing runs show that later passes make up for it;
* `<name>-nodeport` is not among the objects `finalizeService` makes sure "they're gone before
  finalizer is removed" (`:197`); `ChildrenGo` shows that the garbage collector takes it;
* without ports no Ingress is built (`ingress.go:14`), but with hosts and the public flag `status.urls`,
  "the external URLs where the service is accessible" (`service_types.go:159`), announces them
  (`:162`): `RoutedAnnounced` says that this is the one case in which announced and routed hosts
  differ, and that they do differ there;
* a MongoDB or ClickHouse source secret without any key makes `ensure...Secret` assign into a nil
  map (`:775`, against "Generate missing passwords", `:769`): `EnsureSecret` ends in "panic";
* a Job read back carries containers completed by the API server, so `DeepEqual` (`:2139`) is
  false for an unchanged spec and a running Job is started over: `Replaceable` in `JobReconciler`;
* "Preserve existing metadata and immutable fields" (`:2251`) introduces an update of untyped
  objects that keeps six fields of the metadata and no labels, annotations, finalizers or owners of
  others: `Updated`;
* the pass that creates a MySQL cluster does not copy its credentials (`:1209`, against "try to copy
  credentials", `:1236`), which matters when no later pass comes: a resource that was Ready as
  something else before it became a MySQL database;
* a known object of another controller is refused (`:1900`), an untyped one is taken over, and the
  spec of a plain one is overwritten and its owner left (`:1135`): `Refused`, `Updated`;
* a definition that is not found is no error (`database.go:22`): nothing is rendered, and the
  resource becomes Ready with nothing behind it;
* a missing key of the definition's parameters is nil, not "" (`database.go:35`), so that the
  default storage size is never applied; the renderer compares MongoDB's name without regard to
  case (`database.go:159`), the controller with it (`:593`);
* `sh -c "a" && "b"` begins and ends with a quote, so that its outer quotes go although they do
  not belong together (`deployment.go:270`), and after a shell prefix a lone quote panics
  (`deployment.go:272`): `Quoted` and `Panics`, both of which `CommandsWhole` leaves aside.

Mistakes. Definitions marked "mistake" in the modules are not used by the specifications: each
is a plausible error in the place of the definition it precedes (a forgotten Service in
`finalizeService`, an Update without a resource version, an error logged instead of returned,
`<=` for `<`). For every property of a passing run PROJECT.json names one, and TLC finds the
property violated with it.

## 4. Proofs

Eight modules hold the proofs, for every value of the constants: every set of configurations,
renderings, engines and services, every bound. They rest on the assumptions the modules name
(`ConstantsAssumption`, `DatabaseAssumption`, `JobAssumption`, `RenderingAssumption` and the like:
bounds are natural numbers, loops make at least one attempt, a rendering is a sequence of
sequences of objects, an error is not a Service (`NotNeededAssumption`), a letter is neither a
quote nor a space (`LettersAssumption`)) and on nothing else. Where a theorem has a hypothesis on
behaviours, it is named in the table and spelled out below.

| module | theorem | statement |
|---|---|---|
| `ServiceControllerProofs` | `Invariance`, `TypeCorrect` | `Spec => []IInv`, `Spec => []TypeOK` |
| | `LockHolds`, `NothingOrphaned` | `Spec => []FinalizerLock`, `Spec => []NoOrphan` |
| | `StatusTrue`, `EditsKept` | `Spec => StatusMatchesSpec`, `Spec => NoLostEdit` |
| | `ImplementsLifecycle` | `Spec => LifecycleImplemented` |
| | `ChildrenProtected`, `ReleasedBetweenPasses` | `Spec => []Abstract!Protected`, `Spec => HeldWhileApplied` |
| | `PassesAreBounded` | `Spec => PassesEnd` |
| `ServiceControllerRestProofs` | `RestInvariance`, `RestMeansSettled` | `Spec => []SInv`, `Spec => []QuietMeansSettled` |
| | `RestMeansDeployed` | `Spec => []QuietMeansDeployed`, where the API server completes Deployments and nobody else writes them |
| | `LeftWhereUnseenOnly` | `Spec /\ LookUpIsCurrent => []QuietMeansUndeployed` |
| `DatabaseCredentialsProofs` | `Invariance`, `TypeCorrect` | `Spec => []CInv`, `Spec => []TypeOK` |
| | `URLTrue`, `TargetsAgree` | `Spec => []URLHasPassword`, `Spec => []Agreement` |
| | `PasswordsStay`, `ImplementsContract` | `Spec => PasswordsKept`, `Spec => ContractImplemented` |
| | `NothingInvented`, `CredentialsLeftAlone` | `Spec => []Contract!NoInvention`, `Spec => Contract!LeftAlone` |
| | `PassesAreBounded` | `Spec => PassesEnd` |
| `DatabaseCredentialsRestProofs` | `RestInvariance` | `Spec => []DInv` |
| | `RestMeansProvisioned`, `RestMeansDelivered` | `Spec => []QuietMeansProvisioned`, `Spec => []QuietMeansDelivered` |
| | `PostgresLosesUnfoundTargetsOnly` | `Spec /\ [][CopyFindsTarget]_vars => []PostgresDelivered` |
| | `MongoLosesInTheGapOnly` | `Spec /\ CopyFollows => []MongoDelivered` |
| `JobReconcilerProofs` | `Invariance`, `TypeCorrect`, `RestMeansSettled` | `Spec => []JInv`, `Spec => []TypeOK`, `Spec => []QuietMeansSettled` |
| | `CompletedLostToAStaleCopy`, `PassesAreBounded` | `Spec => LostToAStaleCopy`, `Spec => PassesEnd` |
| `OperatorManagerProofs` | `Invariance`, `ClusterBeforeReady`, `RestMeansClustered` | `Spec => []OInv`, `Spec => []ReadyMeansClustered`, `Spec => []QuietMeansClustered` |
| | `PassesAreBounded` | `Spec => PassesEnd` |
| `RuntimeObjectsProofs` | `TypeCorrect`, `StatusStays`, `OthersStay` | `Spec => []TypeOK`, `Spec => StatusKept`, `Spec => OthersKept` |
| | `RenderingInvariance`, `RestMeansRendered`, `ReadyIsTrue` | `Spec => []RInv`, `Spec => []QuietMeansRendered`, `Spec => ReadyMeansRendered` |
| | `RepairInvariance`, `RestMeansRepaired` | `Spec => []WInv`, `Spec => []QuietMeansRepaired` |
| | `PassesAreBounded` | `Spec => PassesEnd` |
| `ResourceBuilderProofs` | `PortsAreServedOnce`, `DefaultBackendIsServed`, `RoutedAreAnnounced` | `Spec => []PortsServedOnce`, `Spec => []DefaultBackendServed`, `Spec => []RoutedAnnounced` |
| | `BackendMissedByTheFirstPortOnly` | `Spec => []BackendMissedExactly` |
| | `CommandsAreSplit`, `CommandsAreWhole` | `Spec => []CommandsSplit`, `Spec => []CommandsWhole` |

**The finalizer** (`IInv`). `FinalizerLock` is not inductive: a pass begins from the cache, so one
must know that a *cached* copy with the finalizer and without a deletion timestamp guarantees the
live resource still has the finalizer (`CacheLocks`). That holds because only this controller
removes the finalizer, only after having read the resource as being deleted, and a deletion
once seen is never unseen: while a pass finalizes, every copy of the same life has the
timestamp (`DeletionSticks`), so there is no older copy left in the cache to start from.
This step rests on the single worker: two passes at once could be at different copies. The
rest of `IInv` says that freshness bits are truthful (`CopiesInSync`), that uids only grow and a
timestamp needs a finalizer (`ResourceShape`), what the snapshot looks like at each step
(`SnapFitsStep`), and what has been deleted so far (`FinalizedSoFar`), which with the lock gives
`NoOrphan`. `StatusTrue` and `EditsKept` then follow from `CopiesInSync`: an accepted Update
started from the live version. `ImplementsLifecycle` maps each action to a step of
`ServiceLifecycle` or a stutter under `IInv`.

**Children at rest** (`SInv`). Nothing in the code checks a child twice, so what must be invariant
is that anything undone still has the queue or an event to rely on. `Watched`: a copy that is
behind names an owner, or a version it has missed does, so that its delivery starts a pass.
`PassCurrent`: a pass works from the newest spec unless another pass is due. `Progress`: the kinds a
pass has behind it are as its snapshot wants them, or have an event pending. `AtRest`: with
nothing pending, so are all of them. The Deployment has no owner and so no events; `DInv` adds
that it is as wanted wherever a pass has been past it (`Late`) and at rest (`Resting`), which needs
that it never compares equal (a stale copy cannot be taken for good) and that nobody else writes
it: the assumption of `RestMeansDeployed`. `UInv` says the same of an unwanted one, where only the
look-up has to be current. How a pass gets from one such place to the next is the same in both
(`NextFlows`).

**Credentials** (`CInv`). A password in use is safe because every copy of the source's password,
the cache's, the one a pass holds and the target's, is missing or the live one (`CopiesAgree`), and
a generated password is only written over a copy that is the newest version. `Step` is
proved once for every action and says which secret changes and how; the action properties and the
refinement follow from it.

**Credentials at rest** (`DInv`). Nothing watches secrets or clusters, so that only errors, edits
and the status write start a further pass. What others have not touched only grows
(`SourceGrows`, `TargetGrows`, `ClusterGrows`), so that a copy which has something to show tells the
truth, however old. `Provisioned`, `Clustered` and `DeliveredSoFar` say from which step on the
credentials, the cluster and the delivery are owed: for the delivery that is the status of a
resource that is Ready already, because the status of any other leads to one more pass.
`ClusterCurrent` adds the spec, as long as no return is made.

**Jobs** (`JInv`). A copy that would end a pass too early, one of the spec wanted, is of the newest
spec only if the live Job is (`NewestIsThere`), because a pass of an older spec is never followed by
an older one: this is what a return to an earlier spec breaks. Completion is final for a Job
(`CompleteIsFinal`), so a stale complete copy is not wrong.

**Operators** (`OInv`). A resource that is not Ready is in the queue or being worked at
(`Attended`), and the status comes last; both for any number of resources that share an
installation.

**Runtime objects.** One lemma, `NextIsObjectStep`, says what a step may do to an object: it stays,
the pass applies it, the collector takes it, or somebody else writes it. `RInv` is about the time
before anybody interferes: objects behind a pass are placed (`Progress`) unless it was edited under,
and then another follows (`PassCurrent`); no copy shows the spec in force, if it is a new one, before
the object has it (`NewestIsThere`). What a pass holds between its read and its write is as old as a
copy and is treated as one. `WInv` is about all times, and weaker: an owned
object of a watched kind is as asked once a pass has been past it, or its copy is behind and then
the version not yet seen brings an event.

**Builders and parser.** The properties are about what functions compute, so that the theorems
first say it of every configuration and every command line, whatever their length, and the type
invariant carries it over to the states of `ResourceBuilderMC`. An induction over data cannot be cited (the library's theorems take
the statement as an operator), but it can be made: `Induction` says of any *set* of naturals that
has 0 and every successor that it is all of `Nat`, from the library's theorem that a nonempty set of
naturals has a least element; `SequenceInduction` and the existence of the recursive functions
follow, and each loop is then proved with the set of positions at which its invariant holds. For
`Kept`: what has been kept is, in order, what was selected of the positions passed. For the parser
there are two: `Gathered`, that the letters and operators of the words and of the rest are those of
the text read so far (`CommandsAreWhole`), and `SplitSoFar`, that the words finished are the nonempty
pieces before the last unquoted space and the rest is the piece after it (`CommandsAreSplit`,
which is stated where the reference is: without a shell prefix or operators, with one kind of
quote).

**The findings, exactly.** A counterexample shows that something can go wrong; these theorems say
when it does. Where a hypothesis excludes a step, everything the model has besides that step is
allowed: other failures, crashes, stale copies, edits.

* `BackendMissedByTheFirstPortOnly`: the default backend is missing if and only if there is an
  Ingress, some host gives no port, the *first* port asks for a NodePort, and no port without a
  NodePort has the same number (`FirstNumberServed`). The list of ports is any; equal numbers are
  allowed.
* `LeftWhereUnseenOnly`: an unwanted Deployment is left behind only by a `reconcileDeployment` that
  looked for it in a copy behind the API server's version (`LookUpIsCurrent` excludes that one
  step). All other copies may be as stale as they like and others may write what they like.
* `PostgresLosesUnfoundTargetsOnly`: as long as others write into none of the three objects
  (`Undisturbed`), the copy has been made at rest wherever each copy that was due found its target
  (`CopyFindsTarget`). There are three ways not to find it: the one Get at `:1045` fails, the platform
  makes the target after the copy was due, or the cache has not seen it yet. The last two are
  true NotFounds, and no event makes up for them either.
* `MongoLosesInTheGapOnly`: if the pass that generated the source goes on to the copy
  (`CopyFollows`), it has been made at rest, again as long as others write into none of the
  objects. A failed call or a crash between the two is not the only way to break that: the wait
  for the source counts its attempts, and a cache that lags longer than that ends the pass too.
* `CompletedLostToAStaleCopy`: a completed Job disappears only if the cache is behind and shows
  the Job as not complete.

**Bounded passes.** "No call makes a pass longer" is a liveness property in disguise that can be
proved: `CallsLeft` is the number of calls a pass may still make, no step of others raises it and
each step of the worker lowers it (`PassesEnd`), for every number of retries and waits. It bounds
what one resource can cost the only worker; that a worker with something to do takes its next step
is fairness and stays with TLC. A pass of the generic path makes at most `7 * MaxRetries` calls, one
over a Job `MaxWaits + 3`, one over a rendering two for each object and one more, one that installs an
operator five: nothing there waits for Flux.

**Consequences of the abstract specifications.** `NothingInvented` and `CredentialsLeftAlone` are
proved of `CredentialsContract` alone, `ChildrenProtected` of `ServiceLifecycle` alone, in a few lines
each, and carried over by `ImplementsContract` and `ImplementsLifecycle`: that is what the abstract
specifications are for. `ReleasedBetweenPasses` carries a result the other way, from
`ServiceController` to the guard of `Release` in `RuntimeObjects`.

Each fact has a lemma per action or group of actions; the theorems combine them.

Only model-checked: the liveness properties (`Quiesces`, `DeletionCompletes`, `ChildrenGo`,
`Arrives`, `Settles`, `Installs`, `ObjectsGo`), for which the prover has no rules of fairness and
`ENABLED`. Every safety property of a passing run has its theorem.

## 5. Not modelled

* Database rendering: that a spec renders to a sequence of objects, to none, or fails, is in
  `RuntimeObjects`; how the parameters are prepared and what the template library makes of them is
  string processing behind a network fetch.
* The manager process, API types and manifests, generated code and tests: no state and no
  decisions of their own. Leader election is why one process runs the passes.
* Probes, volumes, resources and the other decorations of the pod: values handed through.
* `genericUpdateObject` and the ConfigMap and Secret cases of the two switches: the objects of
  those kinds are read as unstructured, so that they are reached only if the renderer returned an
  unstructured object of a typed kind.
* Time: sleeps are steps without duration, so that one resource's waits delaying all others (one
  worker) is bounded in calls (`PassesEnd`) and not in seconds.
* Two resources at once, except in `OperatorManager`: they share nothing but names, and a
  collision of names (`x` with a NodePort and `x-nodeport`) is a hazard without a property.

## 6. Plan

Done: `ResourceBuilder`, `CommandParser`, `ServiceController` with `ServiceLifecycle`,
`DatabaseCredentials` with `CredentialsContract`, `JobReconciler`, `RuntimeObjects`,
`OperatorManager`, and the proofs of every safety property the passing runs check.

1. Two resources with one worker: collisions of names, and the delay of one by the waits of the
   other as a bound on steps.
2. `RuntimeObjects` composed with `OperatorManager` (the cluster's kind exists only when its CRD
   does) and with the finalizer, instead of the assumption in `Release`.
3. Two processes for the moment in which leadership changes hands.
