------------------------ MODULE DatabaseCredentials ------------------------
(***************************************************************************)
(* How the credentials of a database come about and reach the secret its   *)
(* clients read (internal/controller/service_controller.go, the database   *)
(* path of Reconcile).                                                     *)
(*                                                                         *)
(* Three objects: the "source" secret that the database itself uses, the   *)
(* "cluster", the resource an external operator runs the database from,    *)
(* and the "target" secret, spec.kubernetesSecret.  The controller         *)
(* generates the source for MongoDB and ClickHouse, writes a password      *)
(* straight into the target for Redis, and waits for the external operator *)
(* to make the source for PostgreSQL and MySQL.  Then it copies.           *)
(*                                                                         *)
(* Reads go to a cache that lags, writes to the API server, as in          *)
(* ServiceController; none of the three objects is watched, so that only   *)
(* the resource itself and failed passes start a pass.                     *)
(***************************************************************************)
EXTENDS Naturals

CONSTANTS
  Engines,        \* the values of spec.config.database.type to consider
  MaxWaits,       \* reads of a missing source secret in one pass (10)
  MaxRetries,     \* updates of the cluster in one pass (5)
  MaxEdits,       \* bound: edits of the spec that ask for something new
  MaxReturns,     \* bound: edits that go back to what was asked for before
  MaxTargets,     \* bound: target secrets that the platform makes after the resource
  MaxTouches,     \* bound: writes of others that change no password
  MaxLosses,      \* bound: writes of others that destroy a password
  MaxFaults       \* bound: calls that fail, processes that die

AllEngines == {"redis", "mongodb", "clickhouse", "postgres", "mysql"}

ASSUME DatabaseAssumption ==
  /\ Engines \subseteq AllEngines
  /\ {MaxWaits, MaxRetries} \subseteq Nat \ {0}
  /\ {MaxEdits, MaxReturns, MaxTargets, MaxTouches, MaxLosses, MaxFaults} \subseteq Nat

VARIABLES
  engine,         \* spec.config.database.type
  named,          \* spec.kubernetesSecret is not empty
  spec,           \* the version of the rest of the spec
  returned,       \* it is one the resource had before
  ready,          \* status.deploymentStatus = "Ready"
  queued,         \* the resource's key is in the work queue
  live,           \* the objects in the API server
  cached,         \* the client's copies of them
  fresh,          \* which copies are the newest version
  issued,         \* the passwords made so far
  pc,             \* the call the running pass makes next
  wanted,         \* the version of the spec the pass works from
  edited,         \* the resource was edited since the pass began
  held,           \* the source secret the pass read
  attempt,        \* failed rounds of the current retry loop
  result,         \* how the last pass ended
  budget          \* what is left of the bounds

objectVars == <<live, cached, fresh, issued>>
serviceVars == <<engine, named, spec, returned, ready>>
passVars == <<pc, wanted, edited, held, attempt, result>>
vars == <<serviceVars, objectVars, queued, passVars, budget>>

(* A secret by the keys that matter: DATABASE_USERNAME, _PASSWORD, _URL    *)
(* with the password spelled in it, and the source's second key.  0 stands *)
(* for a missing password.                                                 *)
Secret == [exists : BOOLEAN, username : BOOLEAN, password : Nat, url : BOOLEAN, inURL : Nat,
           other : BOOLEAN]
NoSecret == [exists |-> FALSE, username |-> FALSE, password |-> 0, url |-> FALSE, inURL |-> 0,
             other |-> FALSE]
EmptySecret == [NoSecret EXCEPT !.exists = TRUE]
Cluster == [exists : BOOLEAN, spec : Nat]

Objects == {"source", "target", "cluster"}
Stored == [source : Secret, target : Secret, cluster : Cluster]

Steps == {"idle", "ensure", "ensureAwait", "ensureWrite", "cluster", "await", "write", "status"}

(* The failed rounds a retry loop may have behind it.                      *)
Limit(step) ==
  CASE step = "cluster"                   -> MaxRetries
    [] step \in {"ensureAwait", "await"}  -> MaxWaits
    [] OTHER                              -> 1

TypeOK ==
  /\ engine \in Engines /\ {named, returned, ready, queued, edited} \subseteq BOOLEAN
  /\ {spec, issued, wanted} \subseteq Nat
  /\ live \in Stored /\ cached \in Stored /\ fresh \in [Objects -> BOOLEAN]
  /\ pc \in Steps /\ held \in Secret
  /\ attempt \in Nat /\ attempt < Limit(pc)
  /\ result \in {"none", "ok", "error", "panic"}
  /\ budget \in [edits : 0 .. MaxEdits, returns : Nat, targets : Nat, touches : Nat,
                 losses : Nat, faults : Nat]

(* The platform makes the target secret before the resource, or later      *)
(* (CreateTarget), or never.                                               *)
Init ==
  /\ engine \in Engines /\ named \in BOOLEAN /\ spec = 0 /\ returned = FALSE /\ ready = FALSE
  /\ queued = TRUE
  /\ \E target \in {NoSecret, EmptySecret} :
        live = [source |-> NoSecret, target |-> target,
                cluster |-> [exists |-> FALSE, spec |-> 0]]
  /\ cached = live /\ fresh = [o \in Objects |-> TRUE] /\ issued = 0
  /\ pc = "idle" /\ wanted = 0 /\ edited = FALSE /\ held = NoSecret /\ attempt = 0
  /\ result = "none"
  /\ budget = [edits |-> MaxEdits, returns |-> MaxReturns, targets |-> MaxTargets,
               touches |-> MaxTouches, losses |-> MaxLosses, faults |-> MaxFaults]

-----------------------------------------------------------------------------
Write(o, new) ==
  /\ live' = [live EXCEPT ![o] = new]
  /\ fresh' = [fresh EXCEPT ![o] = @ /\ new = live[o]]
  /\ UNCHANGED cached

(* Control of the pass.                                                    *)
Rest(r) ==
  /\ pc' = "idle" /\ result' = r /\ held' = NoSecret /\ attempt' = 0
  /\ wanted' = 0 /\ edited' = FALSE

EndPassQuietly(r) == Rest(r) /\ UNCHANGED queued   \* mistake: the error is logged, not returned

EndPass(r) == Rest(r) /\ queued' = (queued \/ r # "ok")

Fail == EndPass("error")

Goto(step) ==
  /\ pc' = step /\ attempt' = 0
  /\ held' = IF step \in {"ensureWrite", "write"} THEN held ELSE NoSecret
  /\ UNCHANGED <<queued, wanted, edited, result>>

Again ==
  /\ attempt' = attempt + 1
  /\ UNCHANGED <<queued, pc, wanted, edited, held, result>>

(* Create is refused when the object exists, Update when the copy it was   *)
(* made from is not the newest version.                                    *)
CreateOr(o, new, next, password) ==
  \/ /\ ~live[o].exists
     /\ Write(o, new) /\ issued' = password /\ next
  \/ /\ live[o].exists
     /\ Fail /\ UNCHANGED objectVars

UpdateOr(o, new, next, password) ==
  \/ /\ fresh[o]
     /\ Write(o, new) /\ issued' = password /\ next
  \/ /\ ~fresh[o]
     /\ Fail /\ UNCHANGED objectVars

Begin ==
  /\ pc = "idle" /\ queued
  /\ queued' = FALSE /\ wanted' = spec /\ result' = "none"
  /\ pc' = CASE engine \in {"mongodb", "clickhouse"} -> "ensure"
             [] engine = "redis"                     -> IF named THEN "ensure" ELSE "status"
             [] OTHER                                -> "cluster"
  /\ UNCHANGED <<serviceVars, objectVars, edited, held, attempt, budget>>

-----------------------------------------------------------------------------
(* ensureRedisSecret, ensureMongoDBSecret, ensureClickhouseSecret.         *)

Generated == IF engine = "redis" THEN "target" ELSE "source"

AfterEnsure == IF engine = "clickhouse" THEN "cluster" ELSE "status"

(* What follows a write of the source, and only a write.                   *)
AfterGenerating == IF engine # "redis" /\ named THEN "ensureAwait" ELSE AfterEnsure

Complete(s) == s.password # 0 /\ (engine # "redis" => s.other)

NewPassword == issued + 1

Fresh == [EmptySecret EXCEPT !.password = NewPassword, !.other = engine # "redis"]

FilledAnew(s) ==   \* mistake: one missing key regenerates both
  IF engine = "redis"
    THEN [s EXCEPT !.username = TRUE, !.password = NewPassword, !.url = TRUE,
                   !.inURL = NewPassword]
    ELSE [s EXCEPT !.password = NewPassword, !.other = TRUE]

Filled(s) ==
  IF engine = "redis"
    THEN [s EXCEPT !.username = TRUE, !.password = NewPassword, !.url = TRUE,
                   !.inURL = NewPassword]
    ELSE [s EXCEPT !.password = IF @ # 0 THEN @ ELSE NewPassword, !.other = TRUE]

(* Without any key the decoded secret has a nil map.  Redis makes one; the *)
(* others write into it, and controller-runtime turns the panic into an    *)
(* error.                                                                  *)
NilData(s) == ~s.username /\ s.password = 0 /\ ~s.url /\ ~s.other

EnsureSecret ==
  LET o == Generated
      s == cached[o]
  IN  /\ pc = "ensure"
      /\ \/ /\ ~s.exists
            /\ CreateOr(o, Fresh, Goto(AfterGenerating), NewPassword)
         \/ /\ s.exists /\ Complete(s)
            /\ Goto(AfterEnsure) /\ UNCHANGED objectVars
         \/ /\ s.exists /\ ~Complete(s) /\ NilData(s) /\ engine # "redis"
            /\ EndPass("panic") /\ UNCHANGED objectVars
         \/ /\ s.exists /\ ~Complete(s) /\ (NilData(s) => engine = "redis")
            /\ UpdateOr(o, Filled(s), Goto(AfterGenerating),
                        IF s.password = 0 THEN NewPassword ELSE issued)
      /\ UNCHANGED <<serviceVars, budget>>

-----------------------------------------------------------------------------
(* reconcilePostgresql, reconcileMySQLCluster,                             *)
(* reconcileClickhouseInstallation: the pass that creates the cluster does *)
(* not copy, a later one does.  MySQL and ClickHouse read the cluster once *)
(* more before they copy, to no use: only that the read may fail matters,  *)
(* as CallFails at "await" has it.                                         *)

NeverAwaited == "status"   \* mistake: MySQL's copy is forgotten

AfterCluster == IF named THEN "await" ELSE "status"

(* The specs may differ without an edit: the cluster's own defaults.       *)
ReconcileCluster ==
  LET c == cached["cluster"]
      new == [exists |-> TRUE, spec |-> wanted]
  IN  /\ pc = "cluster"
      /\ \/ /\ ~c.exists
            /\ CreateOr("cluster", new, Goto("status"), issued)
         \/ /\ c.exists /\ c.spec = wanted
            /\ Goto(AfterCluster) /\ UNCHANGED objectVars
         \/ /\ c.exists /\ fresh["cluster"]
            /\ Write("cluster", new) /\ UNCHANGED issued
            /\ Goto(AfterCluster)
         \/ /\ c.exists /\ ~fresh["cluster"]   \* Conflict
            /\ IF attempt + 1 < MaxRetries THEN Again ELSE Fail
            /\ UNCHANGED objectVars
      /\ UNCHANGED <<serviceVars, budget>>

-----------------------------------------------------------------------------
(* copyPostgresCredentials, copyMySQLCredentials, copyMongoDBCredentials,  *)
(* copyClickhouseCredentials.                                              *)

WaitsCountedFromOne == attempt < MaxWaits   \* mistake: retries <= 10

WaitsLeft == attempt + 1 < MaxWaits

AwaitSource ==
  /\ pc \in {"ensureAwait", "await"}
  /\ IF cached["source"].exists
       THEN /\ pc' = (IF pc = "await" THEN "write" ELSE "ensureWrite")
            /\ held' = cached["source"] /\ attempt' = 0
            /\ UNCHANGED <<queued, wanted, edited, result>>
       ELSE IF WaitsLeft THEN Again ELSE Fail
  /\ UNCHANGED <<serviceVars, objectVars, budget>>

HasCredentials(s) == s.username /\ s.password # 0 /\ s.url

(* A key the source lacks is not copied; the URL spells whatever password  *)
(* the target then has.                                                    *)
CopiedURLOfSource(s) ==   \* mistake: the URL is built from the source
  [s EXCEPT !.exists = TRUE,
            !.username = (engine # "postgres" \/ held.username \/ @),
            !.password = IF held.password # 0 THEN held.password ELSE @,
            !.url = TRUE,
            !.inURL = held.password]

Copied(s) ==
  LET password == IF held.password # 0 THEN held.password ELSE s.password
  IN  [s EXCEPT !.exists = TRUE,
                !.username = (engine # "postgres" \/ held.username \/ @),
                !.password = password,
                !.url = TRUE,
                !.inURL = password]

AfterCopy == IF pc = "ensureWrite" THEN AfterEnsure ELSE "status"

WriteTarget ==
  LET s == cached["target"]
  IN  /\ pc \in {"ensureWrite", "write"}
      /\ \/ /\ ~s.exists /\ engine = "postgres"
            /\ Goto(AfterCopy) /\ UNCHANGED objectVars
         \/ /\ ~s.exists /\ engine # "postgres"
            /\ CreateOr("target", Copied(NoSecret), Goto(AfterCopy), issued)
         \/ /\ s.exists /\ HasCredentials(s)
            /\ Goto(AfterCopy) /\ UNCHANGED objectVars
         \/ /\ s.exists /\ ~HasCredentials(s)
            /\ UpdateOr("target", Copied(s), Goto(AfterCopy), issued)
      /\ UNCHANGED <<serviceVars, budget>>

(* The write of the status is the event that starts the next pass; it is   *)
(* refused when the resource was edited meanwhile.                         *)
UpdateStatus ==
  /\ pc = "status"
  /\ \/ ready /\ EndPass("ok") /\ UNCHANGED ready
     \/ ~ready /\ ~edited /\ ready' = TRUE /\ Rest("ok") /\ queued' = TRUE
     \/ ~ready /\ edited /\ Fail /\ UNCHANGED ready   \* Conflict
  /\ UNCHANGED <<engine, named, spec, returned, objectVars, budget>>

-----------------------------------------------------------------------------
(* Failures.                                                               *)

Spend(b) == budget[b] > 0 /\ budget' = [budget EXCEPT ![b] = @ - 1]

CallFails ==
  /\ pc # "idle" /\ Spend("faults")
  /\ Fail
  /\ UNCHANGED <<serviceVars, objectVars>>

(* Any error of the Get of the target counts as its absence.               *)
PostgresGetFails ==
  /\ engine = "postgres" /\ pc = "write" /\ Spend("faults")
  /\ Goto("status")
  /\ UNCHANGED <<serviceVars, objectVars>>

Crash ==
  /\ Spend("faults")
  /\ Rest("none") /\ queued' = TRUE
  /\ cached' = live /\ fresh' = [o \in Objects |-> TRUE]
  /\ UNCHANGED <<serviceVars, live, issued>>

-----------------------------------------------------------------------------
(* The cache, the external operator, the clients.                          *)

Sync(o) ==
  /\ ~fresh[o]
  /\ cached' = [cached EXCEPT ![o] = live[o]]
  /\ fresh' = [fresh EXCEPT ![o] = TRUE]
  /\ UNCHANGED <<serviceVars, live, issued, queued, passVars, budget>>

(* Zalando's or MOCO's operator makes the source once there is a cluster.  *)
ExternalOperator ==
  /\ engine \in {"postgres", "mysql"}
  /\ live["cluster"].exists /\ ~live["source"].exists
  /\ Write("source", [EmptySecret EXCEPT !.username = engine = "postgres",
                                         !.password = NewPassword, !.other = TRUE])
  /\ issued' = NewPassword
  /\ UNCHANGED <<serviceVars, queued, passVars, budget>>

(* The versions so far are 0 .. Newest.                                    *)
Newest == MaxEdits - budget.edits

Edited ==
  /\ queued' = TRUE /\ edited' = (pc # "idle")
  /\ UNCHANGED <<engine, named, ready, objectVars, pc, wanted, held, attempt, result>>

EditService ==
  /\ Spend("edits")
  /\ spec' = Newest + 1 /\ returned' = FALSE /\ Edited

ReturnService ==
  /\ Spend("returns")
  /\ spec' \in 0 .. Newest \ {spec} /\ returned' = TRUE /\ Edited

CreateTarget ==
  /\ ~live["target"].exists /\ Spend("targets")
  /\ Write("target", EmptySecret)
  /\ UNCHANGED <<serviceVars, queued, issued, passVars>>

(* Others write an object, and may drop a key that holds no password.      *)
Touch(o) ==
  /\ live[o].exists /\ Spend("touches")
  /\ \E new \in CASE o = "cluster" -> {live[o]}
                  [] o = "source"  -> {live[o], [live[o] EXCEPT !.other = FALSE]}
                  [] o = "target"  -> {live[o], [live[o] EXCEPT !.url = FALSE, !.inURL = 0]} :
        live' = [live EXCEPT ![o] = new]
  /\ fresh' = [fresh EXCEPT ![o] = FALSE]
  /\ UNCHANGED <<serviceVars, cached, queued, issued, passVars>>

Lose(o) ==
  /\ o # "cluster" /\ live[o].exists /\ Spend("losses")
  /\ \E new \in {NoSecret, EmptySecret, [live[o] EXCEPT !.password = 0]} : Write(o, new)
  /\ UNCHANGED <<serviceVars, queued, issued, passVars>>

Worker ==
  Begin \/ EnsureSecret \/ ReconcileCluster \/ AwaitSource \/ WriteTarget \/ UpdateStatus

Next ==
  \/ Worker
  \/ CallFails \/ PostgresGetFails \/ Crash
  \/ ExternalOperator \/ EditService \/ ReturnService \/ CreateTarget
  \/ \E o \in Objects : Sync(o) \/ Touch(o) \/ Lose(o)

Spec == Init /\ [][Next]_vars

(* Queue and calls as in ServiceController; the external operator does its *)
(* work.                                                                   *)
FairSpec ==
  /\ Spec
  /\ WF_vars(Worker) /\ WF_vars(ExternalOperator)
  /\ \A o \in Objects : WF_vars(Sync(o))

=============================================================================
