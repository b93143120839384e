-------------------------- MODULE OperatorManager --------------------------
(***************************************************************************)
(* The installation of the external operators that MySQL and ClickHouse    *)
(* need (internal/operator/manager.go), within the passes of the resources *)
(* that ask for it.                                                        *)
(*                                                                         *)
(* A pass asks the API server's discovery whether the operator's CRD is    *)
(* served.  If not it creates a HelmRepository and a HelmRelease and goes  *)
(* on at once; Flux installs the chart, and with it the CRD, some time     *)
(* later.  Until then the cluster of the resource cannot be created.       *)
(***************************************************************************)
EXTENDS Naturals

CONSTANTS
  Services,       \* the Service resources of type database
  EngineOf,       \* the engine of each
  MaxLosses,      \* bound: deletions of a repository or a release by others
  MaxFaults       \* bound: calls that fail, processes that die

Engines == {"mysql", "clickhouse"}

ASSUME OperatorAssumption ==
  EngineOf \in [Services -> Engines] /\ {MaxLosses, MaxFaults} \subseteq Nat

VARIABLES
  repo,           \* the HelmRepository of an engine's operator exists
  release,        \* its HelmRelease exists
  crd,            \* the CRD of the engine's clusters is served
  cluster,        \* the cluster of a resource exists
  ready,          \* the resource's status is Ready
  queue,          \* the keys in the work queue
  pass,           \* the resource the worker is at
  pc,             \* the call its pass makes next
  budget          \* what is left of the bounds

installVars == <<repo, release, crd>>
serviceVars == <<cluster, ready>>
vars == <<installVars, serviceVars, queue, pass, pc, budget>>

Steps == {"idle", "check", "repository", "release", "cluster", "status"}

Init ==
  /\ repo = [e \in Engines |-> FALSE] /\ release = repo /\ crd = repo
  /\ cluster = [s \in Services |-> FALSE] /\ ready = cluster
  /\ queue = Services
  /\ pass \in Services /\ pc = "idle"
  /\ budget = [losses |-> MaxLosses, faults |-> MaxFaults]

Engine == EngineOf[pass]

Goto(step) == pc' = step /\ UNCHANGED <<queue, pass>>

EndPassQuietly(failed) ==   \* mistake: the error is logged, not returned
  pc' = "idle" /\ UNCHANGED <<queue, pass>>

EndPass(failed) ==
  /\ pc' = "idle" /\ UNCHANGED pass
  /\ queue' = IF failed THEN queue \union {pass} ELSE queue

-----------------------------------------------------------------------------
(* One worker takes the keys in any order.                                 *)
Begin(s) ==
  /\ pc = "idle" /\ s \in queue
  /\ queue' = queue \ {s} /\ pass' = s /\ pc' = "check"
  /\ UNCHANGED <<installVars, serviceVars, budget>>

IsOperatorInstalled ==
  /\ pc = "check"
  /\ Goto(IF crd[Engine] THEN "cluster" ELSE "repository")
  /\ UNCHANGED <<installVars, serviceVars, budget>>

(* What exists is left as it is.                                           *)
TakenIsRefused(exists) ==   \* mistake: AlreadyExists is returned as an error
  ~exists

AlreadyExistsIgnored(exists) == TRUE

CreateHelmRepository ==
  /\ pc = "repository"
  /\ repo' = [repo EXCEPT ![Engine] = TRUE]
  /\ IF AlreadyExistsIgnored(repo[Engine]) THEN Goto("release") ELSE EndPass(TRUE)
  /\ UNCHANGED <<release, crd, serviceVars, budget>>

(* Nobody waits for the chart to be installed.                             *)
CreateHelmRelease ==
  /\ pc = "release"
  /\ release' = [release EXCEPT ![Engine] = TRUE]
  /\ IF AlreadyExistsIgnored(release[Engine]) THEN Goto("cluster") ELSE EndPass(TRUE)
  /\ UNCHANGED <<repo, crd, serviceVars, budget>>

NoSuchKindIgnored == Goto("status")   \* mistake: the error is logged, not returned

NoSuchKind == EndPass(TRUE)

(* reconcileRuntimeObjects, as far as this module is concerned: without    *)
(* the CRD there is no such kind.                                          *)
CreateCluster ==
  /\ pc = "cluster"
  /\ IF crd[Engine]
       THEN cluster' = [cluster EXCEPT ![pass] = TRUE] /\ Goto("status")
       ELSE NoSuchKind /\ UNCHANGED cluster
  /\ UNCHANGED <<installVars, ready, budget>>

UpdateStatus ==
  /\ pc = "status"
  /\ ready' = [ready EXCEPT ![pass] = TRUE]
  /\ EndPass(~ready[pass])   \* the write is an event
  /\ UNCHANGED <<installVars, cluster, budget>>

-----------------------------------------------------------------------------
Spend(b) == budget[b] > 0 /\ budget' = [budget EXCEPT ![b] = @ - 1]

CallFails ==
  /\ pc # "idle" /\ Spend("faults")
  /\ EndPass(TRUE)
  /\ UNCHANGED <<installVars, serviceVars>>

Crash ==
  /\ Spend("faults")
  /\ pc' = "idle" /\ queue' = Services
  /\ UNCHANGED <<installVars, serviceVars, pass>>

(* Flux needs the release and the repository it names.                     *)
InstallChart(e) ==
  /\ repo[e] /\ release[e] /\ ~crd[e]
  /\ crd' = [crd EXCEPT ![e] = TRUE]
  /\ UNCHANGED <<repo, release, serviceVars, queue, pass, pc, budget>>

(* Others delete what Flux has not installed yet.                          *)
Lose(e) ==
  /\ ~crd[e] /\ Spend("losses")
  /\ \/ repo[e] /\ repo' = [repo EXCEPT ![e] = FALSE] /\ UNCHANGED release
     \/ release[e] /\ release' = [release EXCEPT ![e] = FALSE] /\ UNCHANGED repo
  /\ UNCHANGED <<crd, serviceVars, queue, pass, pc>>

Worker ==
  \/ IsOperatorInstalled \/ CreateHelmRepository \/ CreateHelmRelease
  \/ CreateCluster \/ UpdateStatus

Next ==
  \/ Worker \/ CallFails \/ Crash
  \/ \E s \in Services : Begin(s)
  \/ \E e \in Engines : InstallChart(e) \/ Lose(e)

Spec == Init /\ [][Next]_vars

(* The rate-limited queue starves no key: one that failed waits longer     *)
(* before its next turn than one that did not.                             *)
FairSpec ==
  /\ Spec
  /\ WF_vars(Worker)
  /\ \A s \in Services : SF_vars(Begin(s))
  /\ \A e \in Engines : WF_vars(InstallChart(e))

-----------------------------------------------------------------------------
(* At rest every resource that asked for an operator has its cluster, and  *)
(* the status says Ready: no failure between the steps of an installation  *)
(* (manager.go:120-189, :192-286) is taken for success.                    *)
QuietMeansClustered ==
  pc = "idle" /\ queue = {} => \A s \in Services : cluster[s] /\ ready[s]

(* A resource is never Ready before its cluster could be created           *)
(* (service_controller.go:584-590 before :168).                            *)
ReadyMeansClustered == \A s \in Services : ready[s] => cluster[s]

(* Every installation is completed, also one that was interrupted between  *)
(* the repository and the release, or whose half was deleted before Flux   *)
(* acted on it (manager.go:36-51).                                         *)
Installs == <>[](\A s \in Services : cluster[s])

=============================================================================
