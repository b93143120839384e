-------------------- MODULE DatabaseCredentialsRestProofs --------------------
(***************************************************************************)
(* Proofs of QuietMeansProvisioned and QuietMeansDelivered of              *)
(* DatabaseCredentialsProperties, for all engines and bounds: nothing      *)
(* watches secrets or clusters, so that what a pass leaves undone must     *)
(* have the key in the queue (DInv). Then the causes of the two comments   *)
(* the code does not keep: PostgresDelivered and MongoDelivered hold in    *)
(* every behaviour without one particular step.                            *)
(***************************************************************************)
EXTENDS DatabaseCredentialsProofs

Provided(s) == s.exists /\ s.password # 0 /\ s.other

(* What others have not touched only grows; so a copy that has something   *)
(* to show says that the API server has it too.                            *)
SourceGrows ==
  Undisturbed /\ engine # "redis" =>
    /\ live["source"].exists => Provided(live["source"])
    /\ cached["source"].exists => Provided(cached["source"]) /\ live["source"].exists
    /\ pc \in {"ensureWrite", "write"} => held.password # 0

TargetGrows ==
  /\ Undisturbed /\ engine = "redis" /\ cached["target"].password # 0 =>
       live["target"].password # 0
  /\ Undisturbed /\ engine # "redis" /\ cached["target"].exists /\ HasCredentials(cached["target"])
     => Delivered

ClusterGrows == cached["cluster"].exists => live["cluster"].exists

Spent == budget.touches <= MaxTouches

(* Where nothing is left to start a pass.                                  *)
AtRest == pc = "idle" /\ ~queued

EngineFits == pc \in {"ensure", "ensureAwait", "ensureWrite"} => engine \notin {"mysql", "postgres"}

Generates == engine \in {"mongodb", "clickhouse"} \/ (engine = "redis" /\ named)

GeneratedThere == live[Generated].exists /\ Complete(live[Generated])

(* When the generated credentials must be there.                           *)
ProvisionDue == Generates /\ (pc \notin {"idle", "ensure"} \/ AtRest)

Provisioned == Undisturbed /\ ProvisionDue => GeneratedThere

Copying == engine \in {"mysql", "clickhouse"}

(* The pass that creates the cluster does not copy, but then the resource  *)
(* is not ready, and the status the pass writes starts the next one.       *)
ClusterDue == Copying /\ (ready \/ pc \in {"await", "write", "status"} \/ AtRest)

Clustered == ClusterDue => live["cluster"].exists

DeliveryDue == Copying /\ named /\ ((pc = "status" /\ ready) \/ AtRest)

DeliveredSoFar == Undisturbed /\ DeliveryDue => Delivered

(* A cluster of the newest version was written by a pass of the newest     *)
(* version, and unless the spec went back no other comes after it.         *)
Versioned ==
  /\ {spec, wanted, live["cluster"].spec, cached["cluster"].spec} \subseteq 0 .. Newest
  /\ ~returned => spec = Newest
  /\ ~returned /\ pc # "idle" /\ wanted # Newest =>
       Newest \notin {live["cluster"].spec, cached["cluster"].spec}
  /\ ~returned /\ cached["cluster"].spec = Newest => live["cluster"].spec = Newest

PassCurrent == pc # "idle" /\ ~queued => wanted = spec

CurrentDue ==
  Copying /\ ~returned /\ ~queued /\ pc \in {"await", "write", "status", "idle"}

ClusterCurrent == CurrentDue => live["cluster"].spec = spec

DInv ==
  /\ CInv /\ SourceGrows /\ TargetGrows /\ ClusterGrows /\ Spent
  /\ EngineFits /\ Provisioned /\ Clustered /\ DeliveredSoFar
  /\ Versioned /\ PassCurrent /\ ClusterCurrent

-----------------------------------------------------------------------------
(* What a step may do to the objects.                                      *)

Grow ==
  /\ engine' = engine /\ named' = named
  /\ budget'.touches <= budget.touches
  /\ live["cluster"].exists => live'["cluster"].exists
  /\ Undisturbed' =>
       /\ engine # "redis" /\ live'["source"] # live["source"] => Provided(live'["source"])
       /\ engine = "redis" /\ live["target"].password # 0 => live'["target"].password # 0
       /\ engine # "redis" /\ Delivered => Delivered'

HeldStep ==
  pc' \in {"ensureWrite", "write"} =>
    \/ pc \in {"ensureWrite", "write"} /\ held' = held
    \/ cached["source"].exists /\ held' = cached["source"]

LEMMA UndisturbedBefore ==
  ASSUME CInv, Spent, Step, budget'.touches <= budget.touches
  PROVE  Spent' /\ (Undisturbed' => Undisturbed)
  <1>1. /\ MaxLosses \in Nat /\ budget.losses \in Nat /\ budget'.losses \in Nat
        /\ budget'.losses <= budget.losses /\ budget.losses <= MaxLosses
        /\ MaxTouches \in Nat /\ budget.touches \in Nat /\ budget'.touches \in Nat
    BY DatabaseAssumption DEF CInv, TypeOK, Step, ServiceStep, Budget
  <1>2. QED  BY <1>1 DEF Spent, Undisturbed

LEMMA GrowthKept ==
  ASSUME CInv, CInv', SourceGrows, TargetGrows, ClusterGrows, Spent, Step, Grow, HeldStep
  PROVE  SourceGrows' /\ TargetGrows' /\ ClusterGrows' /\ Spent'
  <1>1. Spent' /\ (Undisturbed' => Undisturbed)
    BY UndisturbedBefore DEF Grow
  <1>2. \A o \in Objects : cached'[o] \in {cached[o], live[o]}
    BY DEF Step, CacheStep
  <1>3. /\ cached'["source"] \in {cached["source"], live["source"]}
        /\ cached'["target"] \in {cached["target"], live["target"]}
        /\ cached'["cluster"] \in {cached["cluster"], live["cluster"]}
    BY <1>2 DEF Objects
  <1>4. ClusterGrows'
    BY <1>3 DEF ClusterGrows, Grow
  <1>5. TargetGrows'
    <2>1. ASSUME Undisturbed', engine = "redis", cached'["target"].password # 0
          PROVE  live'["target"].password # 0
      BY <1>1, <1>3, <2>1 DEF TargetGrows, Grow
    <2>2. ASSUME Undisturbed', engine # "redis", cached'["target"].exists,
                 HasCredentials(cached'["target"])
          PROVE  Delivered'
      <3>1. Delivered
        BY <1>1, <1>3, <2>2 DEF TargetGrows, Delivered
      <3>2. QED  BY <2>2, <3>1 DEF Grow
    <2>3. engine' = engine
      BY DEF Grow
    <2>4. HasCredentials(cached["target"])' = HasCredentials(cached'["target"])
      BY DEF HasCredentials
    <2>5. QED  BY <2>1, <2>2, <2>3, <2>4 DEF TargetGrows
  <1>6. SourceGrows'
    <2> SUFFICES ASSUME Undisturbed', engine # "redis"
                 PROVE  /\ live'["source"].exists => Provided(live'["source"])
                        /\ cached'["source"].exists =>
                             Provided(cached'["source"]) /\ live'["source"].exists
                        /\ pc' \in {"ensureWrite", "write"} => held'.password # 0
      BY DEF SourceGrows, Grow, Provided
    <2>1. /\ live["source"].exists => Provided(live["source"])
          /\ cached["source"].exists => Provided(cached["source"]) /\ live["source"].exists
          /\ pc \in {"ensureWrite", "write"} => held.password # 0
      BY <1>1 DEF SourceGrows
    <2>2. live'["source"] = live["source"] \/ Provided(live'["source"])
      BY DEF Grow
    <2>3. live["source"].exists => live'["source"].exists
      BY <2>2 DEF Provided
    <2>4. pc' \in {"ensureWrite", "write"} => held'.password # 0
      BY <2>1 DEF HeldStep, Provided
    <2>5. QED  BY <1>3, <2>1, <2>2, <2>3, <2>4
  <1>7. QED  BY <1>1, <1>4, <1>5, <1>6

LEMMA UntouchedGrows ==
  ASSUME CInv, UNCHANGED <<live, engine, named>>, budget'.touches <= budget.touches
  PROVE  Grow
  BY DEF Grow, Delivered, HasCredentials

LEMMA TouchesStay == CInv /\ UNCHANGED budget => budget'.touches <= budget.touches
  BY DEF CInv, TypeOK

LEMMA NotInto ==
  ASSUME NEW step \in Steps, step \notin {"ensureWrite", "write"},
         Goto(step) \/ Fail \/ EndPass("panic") \/ EndPass("ok") \/ Again
  PROVE  HeldStep
  BY DEF Goto, Fail, EndPass, Rest, Again, HeldStep

LEMMA EnsureSecretGrows ==
  ASSUME CInv, SourceGrows, Spent, EnsureSecret
  PROVE  Grow /\ HeldStep
  <1> DEFINE o == Generated
             s == cached[o]
  <1>1. o \in Secrets /\ o \in Objects /\ s \in Secret /\ live[o] \in Secret
        /\ (engine # "redis" => o = "source") /\ (engine = "redis" => o = "target")
    BY GeneratedIsSecret, StoredFields DEF CInv, Secrets, Objects, Generated
  <1>2. UNCHANGED <<engine, named, budget>> /\ budget'.touches <= budget.touches
    BY TouchesStay DEF EnsureSecret, serviceVars
  <1>3. /\ AfterEnsure \in Steps /\ AfterEnsure \notin {"ensureWrite", "write"}
        /\ AfterGenerating \in Steps /\ AfterGenerating \notin {"ensureWrite", "write"}
    BY DEF AfterEnsure, AfterGenerating, Steps
  <1>4. HeldStep
    <2>1. Goto(AfterEnsure) \/ Goto(AfterGenerating) \/ Fail \/ EndPass("panic")
      BY DEF EnsureSecret, CreateOr, UpdateOr
    <2>2. QED  BY <1>3, <2>1, NotInto
  <1>5. CASE UNCHANGED objectVars
    BY <1>2, <1>4, <1>5, UntouchedGrows DEF objectVars
  <1>6. ASSUME NEW new \in Secret, Write(o, new), new.password # 0,
               engine # "redis" /\ Undisturbed => Provided(new)
        PROVE  Grow
    <2>1. live'[o] = new /\ \A p \in Objects \ {o} : live'[p] = live[p]
      BY <1>1, <1>6, WriteSecretFacts
    <2>2. live'["cluster"] = live["cluster"]
      BY <1>1, <2>1 DEF Objects, Secrets
    <2>3. Undisturbed' = Undisturbed
      BY <1>2 DEF Undisturbed
    <2>4. CASE engine = "redis"
      BY <1>1, <1>2, <1>6, <2>1, <2>2, <2>4 DEF Grow
    <2>5. CASE engine # "redis"
      <3>1. live'["source"] = new /\ live'["target"] = live["target"]
        BY <1>1, <2>1, <2>5 DEF Objects
      <3>2. QED
        BY <1>2, <1>6, <2>2, <2>3, <2>5, <3>1 DEF Grow, Delivered, HasCredentials
    <2>6. QED  BY <2>4, <2>5
  <1>7. CASE Write(o, Fresh)
    <2>1. Fresh \in Secret /\ Fresh.exists /\ Fresh.password = issued + 1 /\ issued \in Nat
      BY GeneratedIsSecret DEF CInv, TypeOK
    <2>2. engine # "redis" => Fresh.other
      BY DEF Fresh, EmptySecret, NoSecret
    <2>3. QED  BY <1>4, <1>6, <1>7, <2>1, <2>2 DEF Provided
  <1>8. CASE s.exists /\ ~Complete(s) /\ Write(o, Filled(s))
    <2>1. /\ Filled(s) \in Secret /\ Filled(s).exists /\ issued \in Nat
          /\ s.password = 0 => Filled(s).password = issued + 1
          /\ s.password # 0 => engine # "redis" /\ Filled(s).password = s.password
      BY <1>1, <1>8, FilledFacts DEF CInv, TypeOK
    <2>2. ~(engine # "redis" /\ Undisturbed)
      BY <1>1, <1>8 DEF SourceGrows, Complete, Provided
    <2>3. QED  BY <1>4, <1>6, <1>8, <2>1, <2>2
  <1>9. QED
    BY <1>4, <1>5, <1>7, <1>8 DEF EnsureSecret, CreateOr, UpdateOr

LEMMA ClusterWritten ==
  ASSUME CInv, NEW new \in Cluster, Write("cluster", new)
  PROVE  /\ live'["cluster"] = new
         /\ live'["source"] = live["source"] /\ live'["target"] = live["target"]
  BY DEF CInv, TypeOK, Stored, Write

LEMMA ReconcileClusterGrows ==
  ASSUME CInv, ReconcileCluster
  PROVE  Grow /\ HeldStep
  <1> DEFINE new == [exists |-> TRUE, spec |-> wanted]
  <1>1. UNCHANGED <<engine, named, budget>> /\ budget'.touches <= budget.touches
    BY TouchesStay DEF ReconcileCluster, serviceVars
  <1>2. HeldStep
    <2>1. Goto(AfterCluster) \/ Goto("status") \/ Fail \/ Again
      BY DEF ReconcileCluster, CreateOr
    <2>2. AfterCluster \in {"await", "status"} /\ {"await", "status"} \subseteq Steps
      BY DEF AfterCluster, Steps
    <2>3. QED  BY <2>1, <2>2, NotInto
  <1>3. CASE UNCHANGED objectVars
    BY <1>1, <1>2, <1>3, UntouchedGrows DEF objectVars
  <1>4. CASE Write("cluster", new)
    <2>1. new \in Cluster /\ new.exists
      BY DEF CInv, TypeOK, Cluster
    <2>2. /\ live'["cluster"] = new
          /\ live'["source"] = live["source"] /\ live'["target"] = live["target"]
      BY <1>4, <2>1, ClusterWritten
    <2>3. QED  BY <1>1, <1>2, <2>1, <2>2 DEF Grow, Delivered, HasCredentials
  <1>5. QED
    BY <1>3, <1>4 DEF ReconcileCluster, CreateOr, objectVars, Write

LEMMA AwaitSourceGrows ==
  ASSUME CInv, AwaitSource
  PROVE  Grow /\ HeldStep
  <1>1. Grow
    BY TouchesStay, UntouchedGrows DEF AwaitSource, serviceVars, objectVars
  <1>2. HeldStep
    BY DEF AwaitSource, HeldStep, Again, Fail, EndPass, Rest
  <1>3. QED  BY <1>1, <1>2

LEMMA WriteTargetGrows ==
  ASSUME CInv, WriteTarget
  PROVE  Grow /\ HeldStep
  <1>1. UNCHANGED <<engine, named, budget>> /\ budget'.touches <= budget.touches
        /\ engine # "redis"
    BY TouchesStay DEF WriteTarget, serviceVars, CInv, NotRedisLate, LateSteps
  <1>2. HeldStep
    <2>1. Goto(AfterCopy) \/ Fail
      BY DEF WriteTarget, CreateOr, UpdateOr
    <2>2. AfterCopy \in Steps /\ AfterCopy \notin {"ensureWrite", "write"}
      BY DEF AfterCopy, AfterEnsure, Steps
    <2>3. QED  BY <2>1, <2>2, NotInto
  <1>3. CASE UNCHANGED objectVars
    BY <1>1, <1>2, <1>3, UntouchedGrows DEF objectVars
  <1>4. ASSUME NEW old \in Secret, Write("target", Copied(old)), ~Delivered
        PROVE  Grow
    <2>1. Copied(old) \in Secret
      BY CopiedFacts
    <2>2. live'["source"] = live["source"] /\ live'["cluster"] = live["cluster"]
      BY <1>4, <2>1, WriteSecretFacts DEF Secrets, Objects
    <2>3. QED  BY <1>1, <1>4, <2>2 DEF Grow
  <1>5. CASE ~live["target"].exists /\ Write("target", Copied(NoSecret))
    BY <1>2, <1>4, <1>5, SecretForms DEF Delivered
  <1>6. CASE /\ ~HasCredentials(cached["target"]) /\ fresh["target"]
             /\ Write("target", Copied(cached["target"]))
    BY <1>2, <1>4, <1>6, StoredFields DEF Delivered, CInv, Copies, Secrets, Objects
  <1>7. QED
    BY <1>3, <1>5, <1>6 DEF WriteTarget, CreateOr, UpdateOr

LEMMA ControlGrows ==
  ASSUME CInv, Begin \/ UpdateStatus \/ CallFails \/ PostgresGetFails \/ Crash
  PROVE  Grow /\ HeldStep
  <1>1. UNCHANGED <<live, engine, named>>
    BY DEF Begin, UpdateStatus, CallFails, PostgresGetFails, Crash, serviceVars, objectVars
  <1>2. budget'.touches <= budget.touches
    BY TouchesStay DEF CInv, TypeOK, Begin, UpdateStatus, CallFails, PostgresGetFails, Crash, Spend
  <1>3. HeldStep
    BY DEF Begin, UpdateStatus, CallFails, PostgresGetFails, Crash, HeldStep, Fail, EndPass, Rest, Goto
  <1>4. QED  BY <1>1, <1>2, <1>3, UntouchedGrows

LEMMA HeldStays == UNCHANGED <<pc, held>> => HeldStep
  BY DEF HeldStep

LEMMA UntouchingGrow ==
  ASSUME CInv, EditService \/ ReturnService \/ (\E o \in Objects : Sync(o)) \/ UNCHANGED vars
  PROVE  Grow /\ HeldStep
  <1>1. UNCHANGED <<live, engine, named>> /\ UNCHANGED <<pc, held>>
    BY DEF EditService, ReturnService, Edited, Sync, vars, serviceVars, objectVars, passVars
  <1>2. budget'.touches <= budget.touches
    BY TouchesStay DEF CInv, TypeOK, EditService, ReturnService, Sync, vars, Spend
  <1>3. QED  BY <1>1, <1>2, UntouchedGrows, HeldStays

LEMMA ExternalOperatorGrows ==
  ASSUME CInv, ExternalOperator
  PROVE  Grow /\ HeldStep
  <1> DEFINE new == [EmptySecret EXCEPT !.username = engine = "postgres",
                                        !.password = NewPassword, !.other = TRUE]
  <1>1. UNCHANGED <<engine, named, budget>> /\ budget'.touches <= budget.touches
        /\ engine # "redis" /\ HeldStep
    BY TouchesStay, HeldStays DEF ExternalOperator, serviceVars, passVars
  <1>2. NewPassword \in Nat /\ NewPassword # 0
    BY DEF CInv, TypeOK, NewPassword
  <1>3. new \in Secret /\ Provided(new)
    BY <1>2 DEF EmptySecret, NoSecret, Secret, Provided
  <1>4. Write("source", new) /\ "source" \in Secrets
    BY DEF ExternalOperator, Secrets
  <1> HIDE DEF new
  <1>5. /\ live'["source"] = new
        /\ live'["target"] = live["target"] /\ live'["cluster"] = live["cluster"]
    BY <1>3, <1>4, WriteSecretFacts DEF Objects
  <1>6. QED  BY <1>1, <1>3, <1>5 DEF Grow, Delivered, HasCredentials

LEMMA CreateTargetGrows ==
  ASSUME CInv, CreateTarget
  PROVE  Grow /\ HeldStep
  <1>1. UNCHANGED <<engine, named>> /\ budget'.touches <= budget.touches /\ HeldStep
    BY HeldStays DEF CreateTarget, Spend, serviceVars, passVars, CInv, TypeOK
  <1>2. /\ live'["source"] = live["source"] /\ live'["cluster"] = live["cluster"]
    BY SecretForms, WriteSecretFacts DEF CreateTarget, Secrets, Objects
  <1>3. ~Delivered /\ live["target"].password = 0
    BY DEF CreateTarget, Delivered, CInv, AbsentIsEmpty, Secrets
  <1>4. QED  BY <1>1, <1>2, <1>3 DEF Grow

(* Once others write, nothing is claimed of secrets any more.              *)
LEMMA DisturbersShow ==
  ASSUME CInv, Spent, \E o \in Objects : Touch(o) \/ Lose(o)
  PROVE  ~Undisturbed'
  <1>1. /\ MaxLosses \in Nat /\ budget.losses \in Nat /\ budget.losses <= MaxLosses
        /\ MaxTouches \in Nat /\ budget.touches \in Nat /\ budget.touches <= MaxTouches
    BY DatabaseAssumption DEF CInv, TypeOK, Spent
  <1>2. CASE Spend("touches")
    BY <1>1, <1>2 DEF Spend, Undisturbed, CInv, TypeOK
  <1>3. CASE Spend("losses")
    BY <1>1, <1>3 DEF Spend, Undisturbed, CInv, TypeOK
  <1>4. QED  BY <1>2, <1>3 DEF Touch, Lose

LEMMA DisturbedGrows ==
  ASSUME CInv, Spent, \E o \in Objects : Touch(o) \/ Lose(o)
  PROVE  Grow /\ HeldStep
  <1>1. UNCHANGED <<engine, named>> /\ HeldStep
    BY HeldStays DEF Touch, Lose, serviceVars, passVars
  <1>2. budget'.touches <= budget.touches /\ ~Undisturbed'
    <2>1. ASSUME NEW b \in {"touches", "losses"}, Spend(b)
          PROVE  budget'.touches <= budget.touches
      BY <2>1 DEF CInv, TypeOK, Spend
    <2>2. budget'.touches <= budget.touches
      BY <2>1 DEF Touch, Lose
    <2>3. QED  BY <2>2, DisturbersShow
  <1>3. live'["cluster"] = live["cluster"]
    <2>1. live \in Stored
      BY DEF CInv, TypeOK
    <2>2. CASE \E o \in Objects : Touch(o)
      BY <2>1, <2>2 DEF Touch, Stored, Objects
    <2>3. CASE \E o \in Objects : Lose(o)
      BY <2>1, <2>3 DEF Lose, Write, Stored, Objects
    <2>4. QED  BY <2>2, <2>3
  <1>4. QED  BY <1>1, <1>2, <1>3 DEF Grow

LEMMA NextGrows == CInv /\ SourceGrows /\ Spent /\ [Next]_vars => Grow /\ HeldStep
  BY EnsureSecretGrows, ReconcileClusterGrows, AwaitSourceGrows, WriteTargetGrows, ControlGrows,
     UntouchingGrow, ExternalOperatorGrows, CreateTargetGrows, DisturbedGrows DEF Next, Worker
-----------------------------------------------------------------------------
(* How far the pass has come.                                              *)

FlowStep ==
  /\ EngineFits'
  /\ ProvisionDue' => ProvisionDue \/ (Undisturbed' => GeneratedThere')
  /\ ClusterDue' => ClusterDue \/ live'["cluster"].exists
  /\ DeliveryDue' => DeliveryDue \/ (Undisturbed' => Delivered')

Flow == EngineFits /\ Provisioned /\ Clustered /\ DeliveredSoFar

Growing == CInv /\ SourceGrows /\ TargetGrows /\ ClusterGrows /\ Spent

LEMMA FlowKept ==
  ASSUME CInv, CInv', Spent, Flow, Step, Grow, FlowStep
  PROVE  Flow'
  <1>1. Undisturbed' => Undisturbed
    BY UndisturbedBefore DEF Grow
  <1>2. ASSUME Undisturbed', Generates, GeneratedThere PROVE GeneratedThere'
    <2>1. Generated' = Generated /\ engine' = engine
      BY DEF Generated, Grow
    <2>2. CASE engine = "redis"
      <3>1. live'["target"].password # 0
        BY <1>2, <2>1, <2>2 DEF GeneratedThere, Generated, Complete, Grow
      <3>2. live'["target"].exists
        BY <3>1 DEF CInv, AbsentIsEmpty, Secrets
      <3>3. QED  BY <2>1, <2>2, <3>1, <3>2 DEF GeneratedThere, Generated, Complete
    <2>3. CASE engine # "redis"
      <3>1. live'["source"] = live["source"] \/ Provided(live'["source"])
        BY <1>2, <2>3 DEF Grow
      <3>2. live'["source"].exists /\ live'["source"].password # 0 /\ live'["source"].other
        BY <1>2, <2>3, <3>1 DEF GeneratedThere, Generated, Complete, Provided
      <3>3. QED  BY <2>1, <2>3, <3>2 DEF GeneratedThere, Generated, Complete
    <2>4. QED  BY <2>2, <2>3
  <1>3. Provisioned'
    <2>1. ProvisionDue => Generates
      BY DEF ProvisionDue
    <2>2. QED  BY <1>1, <1>2, <2>1 DEF Flow, FlowStep, Provisioned
  <1>4. Clustered'
    BY DEF Flow, FlowStep, Clustered, Grow
  <1>5. DeliveredSoFar'
    BY <1>1 DEF Flow, FlowStep, DeliveredSoFar, DeliveryDue, Copying, Grow
  <1>6. QED  BY <1>3, <1>4, <1>5 DEF Flow, FlowStep

LEMMA OthersFlow ==
  ASSUME Flow, UNCHANGED <<engine, named, ready, pc>>, queued => queued'
  PROVE  FlowStep
  BY DEF Flow, FlowStep, EngineFits, ProvisionDue, Generates, ClusterDue, DeliveryDue, Copying, AtRest

LEMMA EndingFlows ==
  ASSUME UNCHANGED <<engine, named, ready>>, pc' = "idle", queued'
  PROVE  FlowStep
  BY DEF FlowStep, EngineFits, ProvisionDue, ClusterDue, DeliveryDue, Copying, AtRest

LEMMA FailFlows == UNCHANGED serviceVars /\ (Fail \/ EndPass("panic")) => FlowStep
  BY EndingFlows DEF Fail, EndPass, Rest, serviceVars

LEMMA BeginFlows == CInv /\ Begin => FlowStep
  <1> SUFFICES ASSUME CInv, Begin PROVE FlowStep
    OBVIOUS
  <1>1. engine \in AllEngines /\ UNCHANGED <<engine, named, ready>>
    BY DatabaseAssumption DEF CInv, TypeOK, Begin, serviceVars
  <1>2. /\ pc' = "ensure" => engine \notin {"mysql", "postgres"}
        /\ pc' = "status" => engine = "redis" /\ ~named
        /\ pc' = "cluster" => engine \in {"mysql", "postgres"}
        /\ pc' \in {"ensure", "status", "cluster"}
    BY <1>1 DEF Begin, AllEngines
  <1>3. QED
    BY <1>1, <1>2 DEF FlowStep, EngineFits, ProvisionDue, Generates, ClusterDue, DeliveryDue,
                      Copying, AtRest

LEMMA FreshIsComplete == CInv => Fresh.exists /\ Complete(Fresh)
  <1> SUFFICES ASSUME CInv PROVE Fresh.exists /\ Complete(Fresh)
    OBVIOUS
  <1>1. Fresh.exists /\ Fresh.password = issued + 1 /\ issued \in Nat
    BY GeneratedIsSecret DEF CInv, TypeOK
  <1>2. engine # "redis" => Fresh.other
    BY DEF Fresh, EmptySecret, NoSecret
  <1>3. QED  BY <1>1, <1>2 DEF Complete

LEMMA FilledIsComplete ==
  ASSUME CInv, NEW s \in Secret, ~Complete(s), s.exists
  PROVE  Complete(Filled(s))
  <1>1. /\ issued \in Nat /\ s.password \in Nat
        /\ s.password = 0 => Filled(s).password = issued + 1
        /\ s.password # 0 => Filled(s).password = s.password
    BY FilledFacts DEF CInv, TypeOK, Secret
  <1>2. engine # "redis" => Filled(s).other
    BY DEF Filled, Secret
  <1>3. QED  BY <1>1, <1>2 DEF Complete

LEMMA EnsureSecretFlows == Growing /\ Flow /\ EnsureSecret => FlowStep
  <1> SUFFICES ASSUME Growing, Flow, EnsureSecret PROVE FlowStep
    OBVIOUS
  <1> DEFINE o == Generated
             s == cached[o]
  <1>1. CInv /\ o \in Secrets /\ s \in Secret /\ live[o] \in Secret
    BY GeneratedIsSecret, StoredFields DEF Growing, CInv
  <1>2. /\ UNCHANGED <<engine, named, ready>> /\ UNCHANGED serviceVars /\ o' = o
        /\ pc = "ensure" /\ engine \notin {"mysql", "postgres"}
    BY DEF EnsureSecret, serviceVars, Generated, Flow, EngineFits
  <1>3. ASSUME Goto(AfterEnsure) \/ Goto(AfterGenerating),
               Undisturbed' /\ Generates => GeneratedThere'
        PROVE  FlowStep
    <2>1. pc' \in {"ensureAwait", "cluster", "status"} /\ (pc' = "status" => ~Copying)
      BY <1>2, <1>3 DEF Goto, AfterEnsure, AfterGenerating, Copying
    <2>2. QED
      BY <1>2, <1>3, <2>1 DEF FlowStep, EngineFits, ProvisionDue, Generates, ClusterDue,
                              DeliveryDue, Copying, AtRest
  <1>4. CASE Fail \/ EndPass("panic")
    BY <1>2, <1>4, FailFlows
  <1>5. CASE Goto(AfterEnsure) /\ s.exists /\ Complete(s) /\ UNCHANGED objectVars
    <2>1. ASSUME Undisturbed PROVE live[o].exists /\ Complete(live[o])
      <3>1. CASE engine = "redis"
        BY <1>1, <1>5, <2>1, <3>1
           DEF Growing, TargetGrows, Complete, Generated, CInv, AbsentIsEmpty, Secrets
      <3>2. CASE engine # "redis"
        BY <1>5, <2>1, <3>2 DEF Growing, SourceGrows, Complete, Generated, Provided
      <3>3. QED  BY <3>1, <3>2
    <2>2. Undisturbed' = Undisturbed
      BY DEF EnsureSecret, Undisturbed
    <2>3. GeneratedThere' = GeneratedThere
      BY <1>2, <1>5 DEF GeneratedThere, objectVars, Complete
    <2>4. QED  BY <1>3, <1>5, <2>1, <2>2, <2>3 DEF GeneratedThere
  <1>6. ASSUME NEW new \in Secret, Write(o, new), new.exists, Complete(new)
        PROVE  GeneratedThere'
    <2>1. live'[o] = new
      BY <1>1, <1>6, WriteSecretFacts
    <2>2. QED  BY <1>2, <1>6, <2>1 DEF GeneratedThere, Complete
  <1>7. CASE Write(o, Fresh) /\ Goto(AfterGenerating)
    BY <1>1, <1>3, <1>6, <1>7, FreshIsComplete, GeneratedIsSecret
  <1>8. CASE s.exists /\ ~Complete(s) /\ Write(o, Filled(s)) /\ Goto(AfterGenerating)
    BY <1>1, <1>3, <1>6, <1>8, FilledIsComplete, FilledFacts
  <1>9. QED
    BY <1>4, <1>5, <1>7, <1>8 DEF EnsureSecret, CreateOr, UpdateOr

LEMMA ReconcileClusterFlows == Growing /\ Flow /\ ReconcileCluster => FlowStep
  <1> SUFFICES ASSUME Growing, Flow, ReconcileCluster PROVE FlowStep
    OBVIOUS
  <1> DEFINE c == cached["cluster"]
             new == [exists |-> TRUE, spec |-> wanted]
  <1>1. UNCHANGED <<engine, named, ready>> /\ UNCHANGED serviceVars /\ pc = "cluster"
    BY DEF ReconcileCluster, serviceVars
  <1>2. Generates => ProvisionDue
    BY <1>1 DEF ProvisionDue
  <1>3. ASSUME NEW step \in {"await", "status"}, Goto(step), live'["cluster"].exists,
               step = "status" => ~named \/ ~ready \/ ~Copying
        PROVE  FlowStep
    BY <1>1, <1>2, <1>3 DEF FlowStep, EngineFits, ProvisionDue, Generates, ClusterDue, DeliveryDue,
                            Copying, AtRest, Goto
  <1>4. AfterCluster \in {"await", "status"} /\ (AfterCluster = "status" => ~named)
    BY DEF AfterCluster
  <1>5. CASE Fail
    BY <1>1, <1>5, FailFlows
  <1>6. CASE Again
    BY <1>1, <1>6, OthersFlow DEF Again
  <1>7. CASE c.exists /\ Goto(AfterCluster) /\ UNCHANGED objectVars
    BY <1>3, <1>4, <1>7 DEF Growing, ClusterGrows, objectVars
  <1>8. ASSUME Write("cluster", new) PROVE live'["cluster"].exists
    <2>1. new \in Cluster /\ new.exists
      BY DEF Growing, CInv, TypeOK, Cluster
    <2>2. QED  BY <1>8, <2>1, ClusterWritten DEF Growing
  <1>9. CASE Write("cluster", new) /\ Goto(AfterCluster)
    BY <1>3, <1>4, <1>8, <1>9
  <1>10. CASE Write("cluster", new) /\ Goto("status") /\ ~live["cluster"].exists
    BY <1>3, <1>8, <1>10 DEF Flow, Clustered, ClusterDue
  <1>11. QED
    BY <1>5, <1>6, <1>7, <1>9, <1>10 DEF ReconcileCluster, CreateOr

LEMMA AwaitSourceFlows == Flow /\ AwaitSource => FlowStep
  <1> SUFFICES ASSUME Flow, AwaitSource PROVE FlowStep
    OBVIOUS
  <1>1. UNCHANGED <<engine, named, ready>> /\ UNCHANGED serviceVars
    BY DEF AwaitSource, serviceVars
  <1>2. CASE Fail
    BY <1>1, <1>2, FailFlows
  <1>3. CASE Again
    BY <1>1, <1>3, OthersFlow DEF Again
  <1>4. CASE \/ pc = "await" /\ pc' = "write"
             \/ pc = "ensureAwait" /\ pc' = "ensureWrite"
    BY <1>1, <1>4 DEF Flow, FlowStep, EngineFits, ProvisionDue, Generates, ClusterDue, DeliveryDue,
                      Copying, AtRest
  <1>5. QED  BY <1>2, <1>3, <1>4 DEF AwaitSource

LEMMA CopiedIsDelivered ==
  ASSUME CInv, NEW s \in Secret, engine # "postgres", held.password # 0
  PROVE  Copied(s).exists /\ HasCredentials(Copied(s))
  <1>1. Copied(s).exists /\ Copied(s).password # 0
    BY CopiedFacts
  <1>2. Copied(s).username /\ Copied(s).url
    BY DEF Copied, Secret
  <1>3. QED  BY <1>1, <1>2 DEF HasCredentials

(* A pass that leaves the copying behind without an error has copied.      *)
LEMMA CopyDelivers ==
  ASSUME Growing, WriteTarget, Goto(AfterCopy), engine # "postgres", Undisturbed
  PROVE  Delivered'
  <1> DEFINE s == cached["target"]
  <1>1. /\ engine' = engine /\ pc \in {"ensureWrite", "write"} /\ engine # "redis" /\ CInv
        /\ pc' # "idle" /\ s \in Secret
    BY StoredFields
       DEF WriteTarget, Goto, AfterCopy, AfterEnsure, serviceVars, Growing, CInv, NotRedisLate,
           LateSteps, Secrets
  <1>2. held.password # 0
    BY <1>1 DEF Growing, SourceGrows
  <1>3. CASE s.exists /\ HasCredentials(s) /\ UNCHANGED objectVars
    <2>1. Delivered
      BY <1>1, <1>3 DEF Growing, TargetGrows
    <2>2. QED  BY <1>3, <2>1 DEF Delivered, HasCredentials, objectVars
  <1>4. ASSUME NEW old \in Secret, Write("target", Copied(old))
        PROVE  Delivered'
    <2>1. Copied(old).exists /\ HasCredentials(Copied(old)) /\ Copied(old) \in Secret
      BY <1>1, <1>2, CopiedIsDelivered, CopiedFacts
    <2>2. live'["target"] = Copied(old)
      BY <1>1, <1>4, <2>1, WriteSecretFacts DEF Secrets
    <2>3. QED  BY <2>1, <2>2 DEF Delivered, HasCredentials
  <1>5. QED
    BY <1>1, <1>3, <1>4, SecretForms DEF WriteTarget, CreateOr, UpdateOr, Fail, EndPass, Rest

LEMMA WriteTargetFlows == Growing /\ Flow /\ WriteTarget => FlowStep
  <1> SUFFICES ASSUME Growing, Flow, WriteTarget PROVE FlowStep
    OBVIOUS
  <1>1. /\ UNCHANGED <<engine, named, ready>> /\ UNCHANGED serviceVars
        /\ pc \in {"ensureWrite", "write"} /\ Undisturbed' = Undisturbed
    BY DEF WriteTarget, serviceVars, Undisturbed
  <1>2. CASE Goto(AfterCopy)
    <2>1. /\ pc' \in {"cluster", "status"}
          /\ pc' = "status" /\ Copying => pc = "write"
      BY <1>1, <1>2 DEF Goto, AfterCopy, AfterEnsure, Copying, Flow, EngineFits
    <2>2. Copying /\ Undisturbed => Delivered'
      BY <1>2, CopyDelivers DEF Copying
    <2>3. Generates => ProvisionDue
      BY <1>1 DEF ProvisionDue
    <2>4. QED
      BY <1>1, <2>1, <2>2, <2>3 DEF FlowStep, EngineFits, ProvisionDue, Generates, ClusterDue,
                                    DeliveryDue, Copying, AtRest
  <1>3. CASE Fail
    BY <1>1, <1>3, FailFlows
  <1>4. QED  BY <1>2, <1>3 DEF WriteTarget, CreateOr, UpdateOr

LEMMA UpdateStatusFlows == CInv /\ Flow /\ UpdateStatus => FlowStep
  <1> SUFFICES ASSUME CInv, Flow, UpdateStatus PROVE FlowStep
    OBVIOUS
  <1>1. /\ UNCHANGED <<engine, named>> /\ pc = "status" /\ pc' = "idle"
        /\ \/ ready /\ ready' /\ queued' = queued
           \/ ~ready /\ queued'
    BY DEF UpdateStatus, Fail, EndPass, Rest, CInv, TypeOK
  <1>2. QED
    BY <1>1 DEF FlowStep, EngineFits, ProvisionDue, Generates, ClusterDue, DeliveryDue, Copying, AtRest

LEMMA FailuresFlow == CallFails \/ PostgresGetFails \/ Crash => FlowStep
  <1>1. CallFails => FlowStep
    BY FailFlows DEF CallFails
  <1>2. ASSUME PostgresGetFails PROVE FlowStep
    <2>1. engine' = engine /\ engine = "postgres" /\ pc' = "status"
      BY <1>2 DEF PostgresGetFails, Goto, serviceVars
    <2>2. QED
      BY <2>1 DEF FlowStep, EngineFits, ProvisionDue, Generates, ClusterDue, DeliveryDue, Copying
  <1>3. Crash => FlowStep
    BY EndingFlows DEF Crash, Rest, serviceVars
  <1>4. QED  BY <1>1, <1>2, <1>3

LEMMA OtherActionsFlow ==
  ASSUME Flow,
         \/ ExternalOperator \/ EditService \/ ReturnService \/ CreateTarget \/ UNCHANGED vars
         \/ \E o \in Objects : Sync(o) \/ Touch(o) \/ Lose(o)
  PROVE  FlowStep
  <1>1. UNCHANGED <<engine, named, ready, pc>>
    BY DEF ExternalOperator, EditService, ReturnService, Edited, CreateTarget, Sync, Touch, Lose,
           vars, serviceVars, passVars
  <1>2. queued' = queued \/ queued' = TRUE
    BY DEF ExternalOperator, EditService, ReturnService, Edited, CreateTarget, Sync, Touch, Lose,
           vars
  <1>3. QED  BY <1>1, <1>2, OthersFlow

LEMMA NextFlows == Growing /\ Flow /\ [Next]_vars => FlowStep
  BY BeginFlows, EnsureSecretFlows, ReconcileClusterFlows, AwaitSourceFlows, WriteTargetFlows,
     UpdateStatusFlows, FailuresFlow, OtherActionsFlow DEF Next, Worker, Growing
-----------------------------------------------------------------------------
(* Versions of the spec.                                                   *)

Current == Versioned /\ PassCurrent /\ ClusterCurrent

SameVersions ==
  /\ UNCHANGED <<engine, spec, returned>> /\ budget'.edits = budget.edits
  /\ live'["cluster"] = live["cluster"]

LEMMA NewestIsNat == CInv => Newest \in Nat /\ {spec, wanted} \subseteq Nat
                             /\ live["cluster"].spec \in Nat /\ cached["cluster"].spec \in Nat
  BY DatabaseAssumption DEF CInv, TypeOK, Newest, Stored, Cluster

LEMMA SameCurrent ==
  ASSUME CInv, CInv', Step, Current, SameVersions,
         \/ pc' = "idle" /\ wanted' \in {0, wanted}
         \/ pc # "idle" /\ wanted' = wanted
         \/ wanted' = spec,
         pc' # "idle" /\ ~queued' => wanted' = spec,
         CurrentDue' => CurrentDue \/ live["cluster"].spec = spec
  PROVE  Current'
  <1>1. Newest' = Newest /\ 0 \in 0 .. Newest
    BY NewestIsNat DEF SameVersions, Newest
  <1>2. /\ cached'["cluster"] \in {cached["cluster"], live["cluster"]}
        /\ live'["cluster"] = live["cluster"]
    BY DEF Step, CacheStep, SameVersions, Objects
  <1>3. Versioned'
    BY <1>1, <1>2 DEF Current, Versioned, SameVersions
  <1>4. PassCurrent'
    BY DEF PassCurrent, SameVersions
  <1>5. ClusterCurrent'
    BY <1>2 DEF Current, ClusterCurrent, SameVersions
  <1>6. QED  BY <1>3, <1>4, <1>5 DEF Current

LEMMA OthersCurrent ==
  ASSUME CInv, CInv', Step, Current, SameVersions, UNCHANGED <<pc, wanted, queued>>
  PROVE  Current'
  <1>1. pc' # "idle" /\ ~queued' => wanted' = spec
    BY DEF Current, PassCurrent
  <1>2. CurrentDue' => CurrentDue
    BY DEF CurrentDue, Copying, SameVersions
  <1>3. QED  BY <1>1, <1>2, SameCurrent

LEMMA EndingCurrent ==
  ASSUME CInv, CInv', Step, Current, SameVersions, pc' = "idle", wanted' = 0, queued'
  PROVE  Current'
  BY SameCurrent DEF CurrentDue

LEMMA FailCurrent ==
  ASSUME CInv, CInv', Step, Current, SameVersions, Fail \/ EndPass("panic")
  PROVE  Current'
  BY EndingCurrent DEF Fail, EndPass, Rest

(* A pass goes on without a look at the cluster.                           *)
LEMMA PassCurrentKept ==
  ASSUME CInv, CInv', Step, Current, SameVersions, pc # "idle", UNCHANGED <<wanted, queued>>,
         Copying /\ pc' \in {"await", "write", "status", "idle"} => pc \in {"await", "write", "status"}
  PROVE  Current'
  <1>1. pc' # "idle" /\ ~queued' => wanted' = spec
    BY DEF Current, PassCurrent
  <1>2. CurrentDue' => CurrentDue
    BY DEF CurrentDue, Copying, SameVersions
  <1>3. QED  BY <1>1, <1>2, SameCurrent

LEMMA UntouchedVersions ==
  UNCHANGED <<serviceVars, live, budget>> => SameVersions
  BY DEF serviceVars, SameVersions

LEMMA SecretVersions ==
  ASSUME CInv, NEW o \in Secrets, NEW new, Write(o, new) \/ live' = [live EXCEPT ![o] = new],
         UNCHANGED <<serviceVars, budget>>
  PROVE  SameVersions
  <1>1. live'["cluster"] = live["cluster"]
    BY DEF Write, CInv, TypeOK, Stored, Secrets
  <1>2. QED  BY <1>1 DEF serviceVars, SameVersions

LEMMA BeginCurrent ==
  ASSUME CInv, CInv', Step, Current, Begin
  PROVE  Current'
  <1>1. SameVersions /\ wanted' = spec /\ engine \in AllEngines /\ pc' # "idle" /\ ~queued'
    BY UntouchedVersions, DatabaseAssumption DEF Begin, objectVars, CInv, TypeOK
  <1>2. Copying => pc' \in {"ensure", "cluster"}
    BY <1>1 DEF Begin, Copying, AllEngines
  <1>3. ~CurrentDue'
    BY <1>1, <1>2 DEF CurrentDue, Copying, SameVersions
  <1>4. QED  BY <1>1, <1>3, SameCurrent

LEMMA EnsureSecretCurrent ==
  ASSUME CInv, CInv', Step, Current, EngineFits, EnsureSecret
  PROVE  Current'
  <1>1. SameVersions
    <2>1. Generated \in Secrets /\ UNCHANGED <<serviceVars, budget>>
      BY GeneratedIsSecret DEF EnsureSecret
    <2>2. UNCHANGED objectVars \/ \E new : Write(Generated, new)
      BY DEF EnsureSecret, CreateOr, UpdateOr
    <2>3. QED  BY <2>1, <2>2, UntouchedVersions, SecretVersions DEF objectVars
  <1>2. pc = "ensure" /\ engine # "mysql"
    BY DEF EnsureSecret, EngineFits
  <1>3. Goto(AfterEnsure) \/ Goto(AfterGenerating) \/ Fail \/ EndPass("panic")
    BY DEF EnsureSecret, CreateOr, UpdateOr
  <1>4. CASE Goto(AfterEnsure) \/ Goto(AfterGenerating)
    <2>1. UNCHANGED <<wanted, queued>>
      BY <1>4 DEF Goto
    <2>2. Copying => pc' \in {"cluster", "ensureAwait"}
      BY <1>2, <1>4 DEF Goto, Copying, AfterEnsure, AfterGenerating
    <2>3. QED  BY <1>1, <1>2, <2>1, <2>2, PassCurrentKept
  <1>5. QED  BY <1>1, <1>3, <1>4, FailCurrent

LEMMA ReconcileClusterCurrent ==
  ASSUME CInv, CInv', Step, Current, ReconcileCluster
  PROVE  Current'
  <1> DEFINE c == cached["cluster"]
             new == [exists |-> TRUE, spec |-> wanted]
  <1>1. UNCHANGED <<serviceVars, budget>> /\ pc = "cluster"
    BY DEF ReconcileCluster
  <1>2. AfterCluster # "idle"
    BY DEF AfterCluster
  <1>3. CASE UNCHANGED objectVars /\ Fail
    BY <1>1, <1>3, UntouchedVersions, FailCurrent DEF objectVars
  <1>4. CASE UNCHANGED objectVars /\ Again
    BY <1>1, <1>4, UntouchedVersions, OthersCurrent DEF objectVars, Again
  <1>5. CASE UNCHANGED objectVars /\ c.spec = wanted /\ Goto(AfterCluster)
    <2>1. SameVersions /\ UNCHANGED <<wanted, queued, returned, spec>>
      BY <1>1, <1>5, UntouchedVersions DEF objectVars, Goto, serviceVars
    <2>2. pc' # "idle" /\ ~queued' => wanted' = spec
      BY <1>1, <2>1 DEF Current, PassCurrent
    <2>3. ASSUME ~queued, ~returned PROVE live["cluster"].spec = spec
      <3>1. wanted = spec /\ spec = Newest
        BY <1>1, <2>3 DEF Current, PassCurrent, Versioned
      <3>2. QED  BY <1>5, <2>3, <3>1 DEF Current, Versioned
    <2>4. CurrentDue' => live["cluster"].spec = spec
      BY <2>1, <2>3 DEF CurrentDue
    <2>5. QED  BY <1>1, <2>1, <2>2, <2>4, SameCurrent
  <1>6. CASE Write("cluster", new) /\ (Goto(AfterCluster) \/ Goto("status"))
    <2>1. live'["cluster"].spec = wanted /\ cached' = cached
      <3>1. new \in Cluster /\ new.spec = wanted
        BY DEF CInv, TypeOK, Cluster
      <3>2. QED  BY <1>6, <3>1, ClusterWritten DEF Write
    <2>2. UNCHANGED <<wanted, queued, returned, spec, budget>> /\ Newest' = Newest
      BY <1>1, <1>6 DEF Goto, serviceVars, Newest
    <2>3. Versioned'
      BY <1>1, <2>1, <2>2 DEF Current, Versioned
    <2>4. PassCurrent'
      BY <1>1, <2>2 DEF Current, PassCurrent
    <2>5. ClusterCurrent'
      BY <1>1, <2>1, <2>2 DEF Current, PassCurrent, ClusterCurrent, CurrentDue
    <2>6. QED  BY <2>3, <2>4, <2>5 DEF Current
  <1>7. QED
    BY <1>3, <1>4, <1>5, <1>6 DEF ReconcileCluster, CreateOr

LEMMA AwaitSourceCurrent ==
  ASSUME CInv, CInv', Step, Current, AwaitSource
  PROVE  Current'
  <1>1. SameVersions
    BY UntouchedVersions DEF AwaitSource, objectVars
  <1>2. CASE Fail
    BY <1>1, <1>2, FailCurrent
  <1>3. CASE Again
    BY <1>1, <1>3, OthersCurrent DEF Again
  <1>4. CASE /\ UNCHANGED <<wanted, queued>>
             /\ \/ pc = "await" /\ pc' = "write"
                \/ pc = "ensureAwait" /\ pc' = "ensureWrite"
    BY <1>1, <1>4, PassCurrentKept
  <1>5. QED  BY <1>2, <1>3, <1>4 DEF AwaitSource

LEMMA WriteTargetCurrent ==
  ASSUME CInv, CInv', Step, Current, EngineFits, WriteTarget
  PROVE  Current'
  <1>1. SameVersions
    <2>1. "target" \in Secrets /\ UNCHANGED <<serviceVars, budget>>
      BY DEF WriteTarget, Secrets
    <2>2. UNCHANGED objectVars \/ \E new : Write("target", new)
      BY DEF WriteTarget, CreateOr, UpdateOr
    <2>3. QED  BY <2>1, <2>2, UntouchedVersions, SecretVersions DEF objectVars
  <1>2. pc \in {"ensureWrite", "write"} /\ (Goto(AfterCopy) \/ Fail)
    BY DEF WriteTarget, CreateOr, UpdateOr
  <1>3. CASE Goto(AfterCopy)
    <2>1. UNCHANGED <<wanted, queued>>
      BY <1>3 DEF Goto
    <2>2. Copying /\ pc = "ensureWrite" => pc' = "cluster"
      BY <1>2, <1>3 DEF Goto, Copying, AfterCopy, AfterEnsure, EngineFits
    <2>3. QED  BY <1>1, <1>2, <2>1, <2>2, PassCurrentKept
  <1>4. QED  BY <1>1, <1>2, <1>3, FailCurrent

LEMMA UpdateStatusCurrent ==
  ASSUME CInv, CInv', Step, Current, UpdateStatus
  PROVE  Current'
  <1>1. /\ SameVersions /\ pc = "status" /\ pc' = "idle" /\ wanted' = 0
        /\ queued' = queued \/ queued'
    BY DEF UpdateStatus, Fail, EndPass, Rest, SameVersions, objectVars, CInv, TypeOK
  <1>2. CurrentDue' => CurrentDue \/ live["cluster"].spec = spec
    BY <1>1 DEF CurrentDue, Copying, SameVersions
  <1>3. QED  BY <1>1, <1>2, SameCurrent

LEMMA FailuresCurrent ==
  ASSUME CInv, CInv', Step, Current, CallFails \/ PostgresGetFails \/ Crash
  PROVE  Current'
  <1>1. SameVersions
    BY DEF CallFails, PostgresGetFails, Crash, Spend, SameVersions, serviceVars, objectVars, CInv, TypeOK
  <1>2. CASE CallFails
    BY <1>1, <1>2, FailCurrent DEF CallFails
  <1>3. CASE PostgresGetFails
    BY <1>1, <1>3, PassCurrentKept DEF PostgresGetFails, Goto, Copying
  <1>4. CASE Crash
    BY <1>1, <1>4, EndingCurrent DEF Crash, Rest
  <1>5. QED  BY <1>2, <1>3, <1>4

LEMMA EditsCurrent ==
  ASSUME CInv, CInv', Step, Current, EditService \/ ReturnService
  PROVE  Current'
  <1>1. /\ UNCHANGED <<live, cached, pc, wanted>> /\ queued'
    BY DEF EditService, ReturnService, Edited, objectVars
  <1>2. PassCurrent' \/ pc' # "idle"
    BY <1>1 DEF PassCurrent
  <1>3. CASE EditService
    <2>1. /\ Newest' = Newest + 1 /\ spec' = Newest' /\ ~returned'
      BY <1>3, DatabaseAssumption DEF EditService, Spend, Newest, CInv, TypeOK
    <2>2. Versioned'
      BY <1>1, <2>1, NewestIsNat DEF Current, Versioned
    <2>3. QED  BY <1>1, <2>2 DEF Current, PassCurrent, ClusterCurrent, CurrentDue
  <1>4. CASE ReturnService
    <2>1. Newest' = Newest /\ spec' \in 0 .. Newest /\ returned'
      BY <1>4 DEF ReturnService, Spend, Newest, CInv, TypeOK
    <2>2. Versioned'
      BY <1>1, <2>1 DEF Current, Versioned
    <2>3. QED  BY <1>1, <2>2 DEF Current, PassCurrent, ClusterCurrent, CurrentDue
  <1>5. QED  BY <1>3, <1>4

LEMMA OtherActionsCurrent ==
  ASSUME CInv, CInv', Step, Current,
         \/ ExternalOperator \/ CreateTarget \/ UNCHANGED vars
         \/ \E o \in Objects : Sync(o) \/ Touch(o) \/ Lose(o)
  PROVE  Current'
  <1>1. UNCHANGED <<pc, wanted, queued, engine, spec, returned>>
    BY DEF ExternalOperator, CreateTarget, Sync, Touch, Lose, vars, serviceVars, passVars
  <1>2. budget'.edits = budget.edits
    BY DEF ExternalOperator, CreateTarget, Sync, Touch, Lose, vars, Spend, CInv, TypeOK
  <1>3. live'["cluster"] = live["cluster"]
    <2>1. live \in Stored
      BY DEF CInv, TypeOK
    <2>2. CASE ExternalOperator \/ CreateTarget
      BY <2>1, <2>2 DEF ExternalOperator, CreateTarget, Write, Stored
    <2>3. CASE \E o \in Objects : Touch(o)
      BY <2>1, <2>3 DEF Touch, Stored, Objects
    <2>4. CASE \E o \in Objects : Lose(o)
      BY <2>1, <2>4 DEF Lose, Write, Stored, Objects
    <2>5. QED  BY <2>2, <2>3, <2>4 DEF Sync, vars, objectVars
  <1>4. QED  BY <1>1, <1>2, <1>3, OthersCurrent DEF SameVersions

LEMMA NextCurrent ==
  ASSUME CInv, CInv', Step, Current, EngineFits, [Next]_vars
  PROVE  Current'
  BY BeginCurrent, EnsureSecretCurrent, ReconcileClusterCurrent, AwaitSourceCurrent,
     WriteTargetCurrent, UpdateStatusCurrent, FailuresCurrent, EditsCurrent,
     OtherActionsCurrent DEF Next, Worker

-----------------------------------------------------------------------------
(* The invariant, and what it means at rest.                               *)

LEMMA InitRests == Init => DInv
  <1> SUFFICES ASSUME Init PROVE DInv
    OBVIOUS
  <1>1. CInv
    BY InitIsGood
  <1>2. /\ live["source"] = NoSecret /\ live["target"] \in {NoSecret, EmptySecret}
        /\ live["cluster"] = [exists |-> FALSE, spec |-> 0] /\ cached = live
        /\ pc = "idle" /\ queued /\ ~ready /\ spec = 0 /\ wanted = 0
    BY DEF Init
  <1>3. SourceGrows /\ TargetGrows /\ ClusterGrows
    BY <1>2, SecretForms DEF SourceGrows, TargetGrows, ClusterGrows, NoSecret
  <1>4. Spent /\ Newest = 0
    BY DatabaseAssumption DEF Init, Spent, Newest
  <1>5. EngineFits /\ Provisioned /\ Clustered /\ DeliveredSoFar
    BY <1>2 DEF EngineFits, Provisioned, ProvisionDue, Clustered, ClusterDue, DeliveredSoFar,
                DeliveryDue, AtRest
  <1>6. Versioned /\ PassCurrent /\ ClusterCurrent
    BY <1>2, <1>4 DEF Versioned, PassCurrent, ClusterCurrent
  <1>7. QED  BY <1>1, <1>3, <1>4, <1>5, <1>6 DEF DInv

LEMMA NextRests == DInv /\ [Next]_vars => DInv'
  <1> SUFFICES ASSUME DInv, [Next]_vars PROVE DInv'
    OBVIOUS
  <1>1. CInv /\ Growing /\ Flow /\ Current /\ EngineFits
    BY DEF DInv, Growing, Flow, Current
  <1>2. Step /\ CInv'
    BY <1>1, NextIsStep, StepKeepsInvariant
  <1>3. Grow /\ HeldStep
    BY <1>1, NextGrows DEF Growing
  <1>4. SourceGrows' /\ TargetGrows' /\ ClusterGrows' /\ Spent'
    BY <1>1, <1>2, <1>3, GrowthKept DEF Growing
  <1>5. Flow'
    BY <1>1, <1>2, <1>3, NextFlows, FlowKept DEF Growing
  <1>6. Current'
    BY <1>1, <1>2, NextCurrent
  <1>7. QED  BY <1>2, <1>4, <1>5, <1>6 DEF DInv, Flow, Current

(* The inductive invariant: nothing that a pass should have made is        *)
(* missing while neither a pass nor the queue would make it (:574-626,     *)
(* :134-185).                                                              *)
THEOREM RestInvariance == Spec => []DInv
  <1>1. Init => DInv
    BY InitRests
  <1>2. DInv /\ [Next]_vars => DInv'
    BY NextRests
  <1>3. QED  BY <1>1, <1>2, PTL DEF Spec

(* At rest a database whose credentials the controller generates has them, *)
(* for every bound on failures, crashes and edits (:592-611).              *)
THEOREM RestMeansProvisioned == Spec => []QuietMeansProvisioned
  <1>1. DInv => QuietMeansProvisioned
    BY DEF DInv, QuietMeansProvisioned, Quiet, Provisioned, ProvisionDue, Generates, AtRest,
           GeneratedThere
  <1>2. QED  BY <1>1, RestInvariance, PTL

(* At rest MySQL's and ClickHouse's clusters are of the spec asked for and *)
(* their credentials have arrived, for every bound (:931-1003, :1186-1253, *)
(* :1561-1625).                                                            *)
THEOREM RestMeansDelivered == Spec => []QuietMeansDelivered
  <1>1. DInv => QuietMeansDelivered
    BY DEF DInv, QuietMeansDelivered, Quiet, Clustered, ClusterDue, DeliveredSoFar, DeliveryDue,
           ClusterCurrent, CurrentDue, Copying, AtRest
  <1>2. QED  BY <1>1, RestInvariance, PTL

-----------------------------------------------------------------------------
(* PostgreSQL's credentials: why QuietMeansDelivered leaves them out.  The *)
(* copy takes a target that it does not find for one that nobody wants     *)
(* filled: its read failed, or the target had not been made, or not come   *)
(* to the cache.  That is the only way in which they fail to arrive.       *)

CopyFindsTarget ==
  engine = "postgres" /\ pc = "write" /\ pc' = "status" =>
    cached["target"].exists /\ ~PostgresGetFails

PostgresClusterDue == ready \/ pc \in {"await", "write", "status"} \/ AtRest

PostgresDeliveryDue == named /\ ((pc = "status" /\ ready) \/ AtRest)

(* The operator's secret has a name for the user.                          *)
PostgresKnown ==
  Undisturbed =>
    /\ live["source"].exists => live["source"].username
    /\ cached["source"].exists => cached["source"].username
    /\ pc = "write" => held.username

PInv ==
  engine = "postgres" =>
    /\ PostgresKnown
    /\ PostgresClusterDue => live["cluster"].exists
    /\ Undisturbed /\ PostgresDeliveryDue => Delivered

LEMMA PostgresObjects ==
  ASSUME DInv, engine = "postgres", [Next]_vars, Undisturbed'
  PROVE  live'["source"] = live["source"] \/ live'["source"].username
  <1>1. CInv /\ Spent /\ ~EnsureSecret
    BY DEF DInv, EngineFits, EnsureSecret
  <1>2. CASE UNCHANGED live
    BY <1>2
  <1>3. CASE ReconcileCluster /\ ~UNCHANGED live
    <2>1. Write("cluster", [exists |-> TRUE, spec |-> wanted])
      BY <1>3 DEF ReconcileCluster, CreateOr, objectVars
    <2>2. [exists |-> TRUE, spec |-> wanted] \in Cluster
      BY <1>1 DEF CInv, TypeOK, Cluster
    <2>3. QED  BY <1>1, <2>1, <2>2, ClusterWritten
  <1>4. CASE WriteTarget /\ ~UNCHANGED live
    <2>1. cached["target"].exists /\ fresh["target"] /\ Write("target", Copied(cached["target"]))
      BY <1>4 DEF WriteTarget, CreateOr, UpdateOr, objectVars
    <2>2. cached["target"] = live["target"] /\ cached["target"] \in Secret
      BY <1>1, <2>1, StoredFields DEF CInv, Copies, Objects, Secrets
    <2>3. Copied(cached["target"]) \in Secret
      BY <1>1, <2>2, CopiedFacts
    <2>4. live'["source"] = live["source"]
      BY <1>1, <2>1, <2>3, WriteSecretFacts DEF Secrets, Objects
    <2>5. QED  BY <2>1, <2>2, <2>4
  <1>5. CASE ExternalOperator
    <2> DEFINE hasName == engine = "postgres"
               new == [EmptySecret EXCEPT !.username = hasName,
                                          !.password = NewPassword, !.other = TRUE]
    <2>0. hasName /\ hasName \in BOOLEAN
      OBVIOUS
    <2> HIDE DEF hasName
    <2>1. new \in Secret /\ new.username
      <3>1. new.username = hasName
        BY DEF EmptySecret, NoSecret
      <3>2. new.username
        BY <2>0, <3>1, Zenon
      <3>3. NewPassword \in Nat
        BY <1>1 DEF CInv, TypeOK, NewPassword
      <3>4. new \in Secret
        BY <2>0, <3>3 DEF EmptySecret, NoSecret, Secret
      <3>5. QED  BY <3>2, <3>4
    <2>2. Write("source", new) /\ "source" \in Secrets
      BY <1>5 DEF ExternalOperator, Secrets, hasName
    <2> HIDE DEF new
    <2>3. live'["source"] = new
      BY <1>1, <2>1, <2>2, WriteSecretFacts DEF Objects
    <2>4. QED  BY <2>1, <2>3
  <1>6. CASE CreateTarget
    BY <1>1, <1>6, SecretForms, WriteSecretFacts DEF CreateTarget, Secrets, Objects
  <1>7. CASE \E o \in Objects : Touch(o) \/ Lose(o)
    BY <1>1, <1>7, DisturbersShow
  <1>8. QED
    BY <1>1, <1>2, <1>3, <1>4, <1>5, <1>6, <1>7
       DEF Next, Worker, Begin, AwaitSource, UpdateStatus, CallFails, PostgresGetFails, Crash,
           EditService, ReturnService, Edited, Sync, vars, objectVars

(* How far the pass has come.                                              *)
PostgresFlow ==
  /\ PostgresClusterDue' => PostgresClusterDue \/ live'["cluster"].exists
  /\ Undisturbed' /\ PostgresDeliveryDue' => (Undisturbed /\ PostgresDeliveryDue) \/ Delivered'

LEMMA PostgresEnding ==
  ASSUME ready' = ready, pc' = "idle", queued'
  PROVE  PostgresFlow
  BY DEF PostgresFlow, PostgresClusterDue, PostgresDeliveryDue, AtRest

LEMMA PostgresClusterFlows ==
  ASSUME DInv, PInv, engine = "postgres", ReconcileCluster
  PROVE  PostgresFlow
  <1>1. pc = "cluster" /\ UNCHANGED <<named, ready>> /\ CInv
    BY DEF DInv, ReconcileCluster, serviceVars
  <1>2. CASE Fail
    BY <1>1, <1>2, PostgresEnding DEF Fail, EndPass, Rest
  <1>3. CASE Again
    BY <1>1, <1>3 DEF Again, PostgresFlow, PostgresClusterDue, PostgresDeliveryDue, AtRest
  <1>4. ASSUME Write("cluster", [exists |-> TRUE, spec |-> wanted]) PROVE live'["cluster"].exists
    <2>1. [exists |-> TRUE, spec |-> wanted] \in Cluster
      BY <1>1 DEF CInv, TypeOK, Cluster
    <2>2. QED  BY <1>1, <1>4, <2>1, ClusterWritten
  <1>5. CASE ~live["cluster"].exists /\ live'["cluster"].exists /\ Goto("status")
    <2>1. ~ready
      BY <1>5 DEF PInv, PostgresClusterDue
    <2>2. QED
      BY <1>1, <1>5, <2>1
         DEF Goto, PostgresFlow, PostgresDeliveryDue, AtRest
  <1>6. CASE live'["cluster"].exists /\ Goto(AfterCluster)
    BY <1>1, <1>6 DEF Goto, AfterCluster, PostgresFlow, PostgresDeliveryDue, AtRest
  <1>7. cached["cluster"].exists => live["cluster"].exists
    BY DEF DInv, ClusterGrows
  <1>8. QED
    BY <1>2, <1>3, <1>4, <1>5, <1>6, <1>7 DEF ReconcileCluster, CreateOr, objectVars

LEMMA PostgresCopyFlows ==
  ASSUME DInv, PInv, engine = "postgres", [Next]_vars, WriteTarget, CopyFindsTarget
  PROVE  PostgresFlow
  <1>1. pc = "write" /\ UNCHANGED <<engine, named, ready, budget>> /\ CInv
    BY DEF DInv, EngineFits, WriteTarget, serviceVars
  <1>2. CASE Fail
    BY <1>1, <1>2, PostgresEnding DEF Fail, EndPass, Rest
  <1>3. PostgresClusterDue
    BY <1>1 DEF PostgresClusterDue
  <1>4. ASSUME Undisturbed', Goto(AfterCopy) PROVE Delivered'
    <2>1. Undisturbed /\ pc' = "status"
      BY <1>1, <1>4 DEF Undisturbed, Goto, AfterCopy
    <2>2. cached["target"].exists /\ held.username /\ held.password # 0
      BY <1>1, <2>1 DEF CopyFindsTarget, PInv, PostgresKnown, DInv, SourceGrows
    <2>3. CASE HasCredentials(cached["target"]) /\ UNCHANGED objectVars
      BY <2>1, <2>2, <2>3 DEF DInv, TargetGrows, Delivered, objectVars, HasCredentials
    <2>4. CASE Write("target", Copied(cached["target"]))
      <3>1. cached["target"] \in Secret /\ held \in Secret
        BY <1>1, StoredFields DEF CInv, TypeOK, Secrets
      <3>2. Copied(cached["target"]) \in Secret
        BY <3>1, <1>1, CopiedFacts
      <3>3. live'["target"] = Copied(cached["target"])
        BY <1>1, <2>4, <3>2, WriteSecretFacts DEF Secrets
      <3>4. /\ Copied(cached["target"]).exists /\ Copied(cached["target"]).username
            /\ Copied(cached["target"]).password = held.password
            /\ Copied(cached["target"]).url
        BY <2>2, <3>1 DEF Copied, Secret
      <3>5. QED  BY <2>2, <3>3, <3>4 DEF Delivered, HasCredentials
    <2>5. QED
      BY <1>1, <1>4, <2>2, <2>3, <2>4 DEF WriteTarget, UpdateOr, Fail, EndPass, Rest, Goto, AfterCopy
  <1>5. CASE Goto(AfterCopy)
    BY <1>1, <1>3, <1>4, <1>5 DEF PostgresFlow, PostgresDeliveryDue
  <1>6. QED  BY <1>2, <1>5 DEF WriteTarget, CreateOr, UpdateOr

LEMMA PostgresNextFlows ==
  ASSUME DInv, PInv, engine = "postgres", Next, CopyFindsTarget
  PROVE  PostgresFlow
  <1>1. CASE Begin
    BY <1>1 DEF Begin, serviceVars, PostgresFlow, PostgresClusterDue, PostgresDeliveryDue, AtRest
  <1>2. CASE AwaitSource
    <2>1. pc = "await" /\ UNCHANGED ready /\ (Fail \/ Again \/ pc' = "write")
      BY <1>2 DEF AwaitSource, DInv, EngineFits, serviceVars
    <2>2. CASE Fail
      BY <2>1, <2>2, PostgresEnding DEF Fail, EndPass, Rest
    <2>3. CASE Again \/ pc' = "write"
      BY <2>1, <2>3 DEF Again, PostgresFlow, PostgresClusterDue, PostgresDeliveryDue, AtRest
    <2>4. QED  BY <2>1, <2>2, <2>3
  <1>3. CASE UpdateStatus
    <2>1. pc = "status" /\ pc' = "idle" /\ UNCHANGED <<named, live, budget>>
      BY <1>3 DEF UpdateStatus, Fail, EndPass, Rest, objectVars
    <2>2. ready \/ queued'
      BY <1>3 DEF UpdateStatus, Fail, EndPass, Rest
    <2>3. QED
      BY <2>1, <2>2
         DEF PostgresFlow, PostgresClusterDue, PostgresDeliveryDue, AtRest, Undisturbed
  <1>4. CASE CallFails \/ Crash
    BY <1>4, PostgresEnding DEF CallFails, Crash, Fail, EndPass, Rest, serviceVars
  <1>5. ASSUME UNCHANGED <<named, ready, pc>>, queued => queued',
               Undisturbed' => Undisturbed
        PROVE  PostgresFlow
    BY <1>5 DEF PostgresFlow, PostgresClusterDue, PostgresDeliveryDue, AtRest
  <1>6. CASE \/ ExternalOperator \/ EditService \/ ReturnService \/ CreateTarget
             \/ \E o \in Objects : Sync(o) \/ Touch(o) \/ Lose(o)
    <2>1. UNCHANGED <<named, ready, pc>>
      BY <1>6 DEF ExternalOperator, EditService, ReturnService, Edited, CreateTarget, Sync, Touch,
                  Lose, serviceVars, passVars
    <2>2. queued' = queued \/ queued'
      BY <1>6 DEF ExternalOperator, EditService, ReturnService, Edited, CreateTarget, Sync, Touch,
                  Lose
    <2>3. Undisturbed' => Undisturbed
      BY NextIsStep, NextGrows, UndisturbedBefore DEF DInv, Grow
    <2>4. QED  BY <1>5, <2>1, <2>2, <2>3
  <1>7. ~PostgresGetFails
    BY DEF PostgresGetFails, Goto, CopyFindsTarget
  <1>8. QED
    BY <1>1, <1>2, <1>3, <1>4, <1>6, <1>7, PostgresClusterFlows, PostgresCopyFlows
       DEF Next, Worker, DInv, EngineFits, EnsureSecret

LEMMA PostgresKept ==
  ASSUME DInv, PInv, [Next]_vars, [CopyFindsTarget]_vars
  PROVE  PInv'
  <1>1. Step /\ Grow /\ HeldStep /\ (Undisturbed' => Undisturbed)
    BY NextIsStep, NextGrows, UndisturbedBefore DEF DInv, Grow
  <1>2. SUFFICES ASSUME engine = "postgres"
                 PROVE  /\ PostgresKnown'
                        /\ PostgresClusterDue' => live'["cluster"].exists
                        /\ Undisturbed' /\ PostgresDeliveryDue' => Delivered'
    BY <1>1 DEF PInv, Grow
  <1>3. PostgresFlow \/ UNCHANGED vars
    BY <1>2, PostgresNextFlows
  <1>4. PostgresKnown'
    <2> SUFFICES ASSUME Undisturbed' PROVE PostgresKnown'
      BY DEF PostgresKnown
    <2>1. live'["source"] = live["source"] \/ live'["source"].username
      BY <1>2, PostgresObjects
    <2>2. cached'["source"] \in {cached["source"], live["source"]}
      BY <1>1 DEF Step, CacheStep, Objects
    <2>3. pc' = "write" => held'.username
      <3>1. CASE pc \in {"ensureWrite", "write"} /\ held' = held
        BY <1>1, <1>2, <3>1 DEF PInv, PostgresKnown, DInv, EngineFits
      <3>2. CASE cached["source"].exists /\ held' = cached["source"]
        BY <1>1, <1>2, <3>2 DEF PInv, PostgresKnown
      <3>3. QED  BY <1>1, <3>1, <3>2 DEF HeldStep
    <2>4. QED  BY <1>1, <1>2, <2>1, <2>2, <2>3 DEF PInv, PostgresKnown
  <1>5. PostgresClusterDue' => live'["cluster"].exists
    <2>1. CASE PostgresFlow
      BY <1>1, <1>2, <2>1 DEF PostgresFlow, PInv, Grow
    <2>2. CASE UNCHANGED vars
      BY <1>2, <2>2 DEF PInv, PostgresClusterDue, AtRest, vars, serviceVars, objectVars, passVars
    <2>3. QED  BY <1>3, <2>1, <2>2
  <1>6. Undisturbed' /\ PostgresDeliveryDue' => Delivered'
    <2>1. CASE PostgresFlow
      BY <1>1, <1>2, <2>1 DEF PostgresFlow, PInv, Grow
    <2>2. CASE UNCHANGED vars
      BY <1>2, <2>2 DEF PInv, PostgresDeliveryDue, AtRest, Undisturbed, Delivered, HasCredentials,
                        vars, serviceVars, objectVars, passVars
    <2>3. QED  BY <1>3, <2>1, <2>2
  <1>7. QED  BY <1>4, <1>5, <1>6

(* "If we have a target secret, try to copy credentials" (:978): at rest a *)
(* target lacks them only when a copy did not find it (:1045-1051), because*)
(* the read failed, the target was made later, or the cache had not seen   *)
(* it: no other failure, crash, stale copy, edit or order of events leaves *)
(* it empty.                                                               *)
THEOREM PostgresLosesUnfoundTargetsOnly ==
  Spec /\ [][CopyFindsTarget]_vars => []PostgresDelivered
  <1>1. Init => PInv
    BY SecretForms DEF Init, PInv, PostgresKnown, PostgresClusterDue, PostgresDeliveryDue, AtRest,
                       NoSecret
  <1>2. PInv => PostgresDelivered
    BY DEF PInv, PostgresDelivered, PostgresDeliveryDue, Quiet, AtRest
  <1>3. QED  BY <1>1, <1>2, PostgresKept, RestInvariance, PTL DEF Spec

-----------------------------------------------------------------------------
(* MongoDB's credentials: the copy belongs to the pass that generates the  *)
(* source (:749, :796), and no later pass makes it up.                     *)

CopyUnderWay == pc \in {"ensureAwait", "ensureWrite"}

(* A pass that has generated the source makes the copy: the wait does not  *)
(* run out, no call fails and the process does not die in between.         *)
CopyFollows == [][CopyUnderWay => pc' # "idle"]_vars

MInv ==
  engine = "mongodb" /\ named /\ Undisturbed /\ live["source"].exists => Delivered \/ CopyUnderWay

LEMMA MongoSourceMade ==
  ASSUME Growing, engine = "mongodb", named, Next, Undisturbed',
         ~live["source"].exists, live'["source"].exists
  PROVE  CopyUnderWay'
  <1>1. CInv /\ Spent /\ live' # live
    BY DEF Growing
  <1>2. CASE ReconcileCluster
    <2>1. Write("cluster", [exists |-> TRUE, spec |-> wanted])
      BY <1>1, <1>2 DEF ReconcileCluster, CreateOr, objectVars
    <2>2. [exists |-> TRUE, spec |-> wanted] \in Cluster
      BY <1>1 DEF CInv, TypeOK, Cluster
    <2>3. QED  BY <1>1, <2>1, <2>2, ClusterWritten
  <1>3. CASE WriteTarget
    <2>1. PICK old \in Secret : Write("target", Copied(old))
      BY <1>1, <1>3, StoredFields, SecretForms
         DEF WriteTarget, CreateOr, UpdateOr, objectVars, CInv, Secrets
    <2>2. Copied(old) \in Secret
      BY <1>1, CopiedFacts
    <2>3. QED  BY <1>1, <2>1, <2>2, WriteSecretFacts DEF Secrets, Objects
  <1>4. CASE EnsureSecret
    <2>1. Goto(AfterGenerating)
      BY <1>1, <1>4 DEF EnsureSecret, CreateOr, UpdateOr, objectVars
    <2>2. QED  BY <2>1 DEF Goto, AfterGenerating, CopyUnderWay
  <1>5. CASE CreateTarget
    BY <1>1, <1>5, SecretForms, WriteSecretFacts DEF CreateTarget, Secrets, Objects
  <1>6. CASE \E o \in Objects : Touch(o) \/ Lose(o)
    BY <1>1, <1>6, DisturbersShow
  <1>7. QED
    BY <1>1, <1>2, <1>3, <1>4, <1>5, <1>6
       DEF Next, Worker, Begin, AwaitSource, UpdateStatus, CallFails, PostgresGetFails, Crash,
           ExternalOperator, EditService, ReturnService, Edited, Sync, objectVars

LEMMA MongoCopyLeft ==
  ASSUME Growing, engine = "mongodb", Undisturbed, Next, CopyUnderWay, ~CopyUnderWay', pc' # "idle"
  PROVE  Delivered'
  <1>1. WriteTarget
    BY DEF CopyUnderWay, Next, Worker, Begin, EnsureSecret, ReconcileCluster, AwaitSource,
           UpdateStatus, CallFails, PostgresGetFails, Crash, ExternalOperator, EditService,
           ReturnService, Edited, CreateTarget, Sync, Touch, Lose, passVars, Again, Fail, EndPass, Rest
  <1>2. Goto(AfterCopy)
    BY <1>1 DEF WriteTarget, CreateOr, UpdateOr, Fail, EndPass, Rest
  <1>3. QED  BY <1>1, <1>2, CopyDelivers

LEMMA MongoKept ==
  ASSUME DInv, MInv, [Next]_vars, [CopyUnderWay => pc' # "idle"]_vars
  PROVE  MInv'
  <1>1. Growing /\ Grow /\ (Undisturbed' => Undisturbed)
    BY NextIsStep, NextGrows, UndisturbedBefore DEF DInv, Growing, Grow
  <1>2. SUFFICES ASSUME engine = "mongodb", named, Undisturbed', Undisturbed, live'["source"].exists
                 PROVE  Delivered' \/ CopyUnderWay'
    BY <1>1 DEF MInv, Grow
  <1>3. CASE UNCHANGED vars
    BY <1>2, <1>3 DEF MInv, Delivered, HasCredentials, CopyUnderWay, vars, objectVars, passVars
  <1>4. CASE Next /\ ~live["source"].exists
    BY <1>1, <1>2, <1>4, MongoSourceMade
  <1>5. CASE Next /\ live["source"].exists
    <2>1. CASE Delivered
      BY <1>1, <1>2, <2>1 DEF Grow
    <2>2. CASE CopyUnderWay /\ ~CopyUnderWay'
      <3>1. pc' # "idle"
        BY <2>2 DEF CopyUnderWay, vars, passVars
      <3>2. QED  BY <1>1, <1>2, <1>5, <2>2, <3>1, MongoCopyLeft
    <2>3. QED  BY <1>2, <1>5, <2>1, <2>2 DEF MInv
  <1>6. QED  BY <1>3, <1>4, <1>5

(* The comments at :749 and :796 are kept by every behaviour in which the  *)
(* pass that generates the source gets to copy it, whatever else fails,    *)
(* lags or is edited: as long as others leave the secrets alone, the gap   *)
(* between the two calls is the only cause of the violation.               *)
THEOREM MongoLosesInTheGapOnly == Spec /\ CopyFollows => []MongoDelivered
  <1>1. Init => MInv
    BY SecretForms DEF Init, MInv, NoSecret
  <1>2. DInv /\ MInv => MongoDelivered
    BY DEF DInv, Provisioned, ProvisionDue, Generates, GeneratedThere, Generated, MInv,
           CopyUnderWay, MongoDelivered, Quiet, AtRest
  <1>3. QED
    BY <1>1, <1>2, MongoKept, RestInvariance, PTL DEF Spec, CopyFollows

=============================================================================
