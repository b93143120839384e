---------------------- MODULE DatabaseCredentialsProofs ----------------------
(***************************************************************************)
(* Proofs about DatabaseCredentials, for all engines and every bound: what *)
(* any step may do to the passwords (Step), the inductive invariant it     *)
(* keeps (CInv), and from the two the safety properties and the contract.  *)
(***************************************************************************)
EXTENDS DatabaseCredentialsProperties, TLAPS

Secrets == {"source", "target"}

Copies == \A o \in Objects : fresh[o] => cached[o] = live[o]

AbsentIsEmpty == \A o \in Secrets : ~live[o].exists => live[o].password = 0

(* The calls only the engines with a secret of their own come to.          *)
LateSteps == {"ensureAwait", "ensureWrite", "cluster", "await", "write"}

NotRedisLate == pc \in LateSteps => engine # "redis"

(* Whatever copy of a password is about, it was made.                      *)
PasswordsMade ==
  /\ \A o \in Secrets : live[o].password <= issued /\ cached[o].password <= issued
  /\ held.password <= issued

(* Every copy of the source's password is missing or the password.         *)
CopiesAgree ==
  engine # "redis" /\ budget.losses = MaxLosses =>
    {cached["source"].password, held.password, live["target"].password}
      \subseteq {0, live["source"].password}

CInv ==
  /\ TypeOK /\ Copies /\ AbsentIsEmpty /\ NotRedisLate
  /\ PasswordsMade /\ CopiesAgree /\ URLHasPassword
  /\ budget.losses <= MaxLosses

-----------------------------------------------------------------------------
(* What a step may do.                                                     *)

Budget == [edits : 0 .. MaxEdits, returns : Nat, targets : Nat, touches : Nat,
           losses : Nat, faults : Nat]

ServiceStep ==
  /\ engine' = engine /\ spec' \in Nat /\ {named', returned', ready'} \subseteq BOOLEAN
  /\ budget' \in Budget
  /\ budget'.losses <= budget.losses

PassStep ==
  /\ {queued', edited'} \subseteq BOOLEAN /\ wanted' \in Nat
  /\ pc' \in Steps /\ (pc' \in LateSteps => engine # "redis")
  /\ held' \in Secret
  /\ held'.password \in {0, held.password, cached["source"].password}
  /\ attempt' \in Nat /\ attempt' < Limit(pc')
  /\ result' \in {"none", "ok", "error", "panic"}

CacheStep ==
  /\ cached' \in Stored /\ \A o \in Objects : cached'[o] \in {cached[o], live[o]}
  /\ fresh' \in [Objects -> BOOLEAN]

(* The four things that happen to passwords.                               *)
Keeps ==
  /\ issued' = issued
  /\ \A o \in Secrets : live'[o].password = live[o].password

Makes ==
  /\ issued' = issued + 1
  /\ live[Generated].password = 0 /\ live'[Generated].password = issued'
  /\ \A o \in Secrets \ {Generated} : live'[o] = live[o]

Delivers ==
  /\ issued' = issued /\ engine # "redis" /\ ~HasCredentials(live["target"])
  /\ live'["source"] = live["source"]
  /\ held.password # 0 /\ live'["target"].password = held.password

Loses ==
  /\ issued' = issued /\ budget'.losses < budget.losses
  /\ \E o \in Secrets :
       /\ live'[o].password = 0 /\ ~HasCredentials(live'[o])
       /\ \A p \in Secrets \ {o} : live'[p] = live[p]

ObjectStep ==
  /\ live' \in Stored
  /\ Copies' /\ AbsentIsEmpty' /\ URLHasPassword'
  /\ Keeps \/ Makes \/ Delivers \/ Loses

Step == ServiceStep /\ PassStep /\ CacheStep /\ ObjectStep

(* A step leaves the objects alone, or writes one of them.                 *)
LEMMA StoredFields ==
  ASSUME TypeOK
  PROVE  /\ \A o \in Secrets : live[o] \in Secret /\ cached[o] \in Secret
         /\ live["cluster"] \in Cluster /\ cached["cluster"] \in Cluster
  BY DEF TypeOK, Stored, Secrets

LEMMA LimitPositive == \A step \in Steps : Limit(step) \in Nat /\ 0 < Limit(step)
  BY DatabaseAssumption DEF Limit

LEMMA SecretForms ==
  /\ NoSecret \in Secret /\ EmptySecret \in Secret
  /\ NoSecret.password = 0 /\ EmptySecret.password = 0 /\ EmptySecret.exists
  /\ ~EmptySecret.username
  /\ ~HasCredentials(NoSecret) /\ ~HasCredentials(EmptySecret)
  BY DEF NoSecret, EmptySecret, Secret, HasCredentials

LEMMA ObjectsUntouched ==
  ASSUME CInv, UNCHANGED <<objectVars, engine>>
  PROVE  CacheStep /\ ObjectStep
  BY DEF CInv, TypeOK, objectVars, CacheStep, ObjectStep, Keeps, Copies, AbsentIsEmpty,
         URLHasPassword, HasCredentials

LEMMA WriteSecretFacts ==
  ASSUME CInv, NEW o \in Secrets, NEW new \in Secret, Write(o, new)
  PROVE  /\ CacheStep /\ live' \in Stored /\ Copies'
         /\ live'[o] = new /\ \A p \in Objects \ {o} : live'[p] = live[p]
  <1>1. o \in Objects /\ live \in Stored /\ cached \in Stored /\ fresh \in [Objects -> BOOLEAN]
    BY DEF CInv, TypeOK, Secrets, Objects
  <1>2. /\ live' = [live EXCEPT ![o] = new] /\ cached' = cached
        /\ fresh' = [fresh EXCEPT ![o] = @ /\ new = live[o]]
    BY DEF Write
  <1>3. live' \in Stored /\ live'[o] = new /\ \A p \in Objects \ {o} : live'[p] = live[p]
    BY <1>1, <1>2 DEF Stored, Secrets, Objects
  <1>4. fresh' \in [Objects -> BOOLEAN]
    BY <1>1, <1>2
  <1>5. CacheStep
    BY <1>1, <1>2, <1>4 DEF CacheStep
  <1>6. ASSUME NEW p \in Objects, fresh'[p] PROVE cached'[p] = live'[p]
    <2>1. CASE p = o
      <3>1. fresh[o] /\ new = live[o]
        BY <1>1, <1>2, <1>6, <2>1
      <3>2. QED  BY <1>1, <1>2, <1>3, <2>1, <3>1 DEF CInv, Copies
    <2>2. CASE p # o
      BY <1>1, <1>2, <1>3, <1>6, <2>2 DEF CInv, Copies
    <2>3. QED  BY <2>1, <2>2
  <1>7. QED  BY <1>3, <1>5, <1>6 DEF Copies

LEMMA WriteClusterFacts ==
  ASSUME CInv, NEW new \in Cluster, Write("cluster", new), UNCHANGED <<issued, engine>>
  PROVE  CacheStep /\ ObjectStep
  <1>1. live \in Stored /\ cached \in Stored /\ fresh \in [Objects -> BOOLEAN]
    BY DEF CInv, TypeOK
  <1>2. /\ live' = [live EXCEPT !["cluster"] = new] /\ cached' = cached
        /\ fresh' = [fresh EXCEPT !["cluster"] = @ /\ new = live["cluster"]]
    BY DEF Write
  <1>3. live' \in Stored /\ live'["cluster"] = new
        /\ live'["source"] = live["source"] /\ live'["target"] = live["target"]
    BY <1>1, <1>2 DEF Stored
  <1>4. fresh' \in [Objects -> BOOLEAN] /\ CacheStep
    BY <1>1, <1>2 DEF CacheStep
  <1>5. ASSUME NEW p \in Objects, fresh'[p] PROVE cached'[p] = live'[p]
    <2>1. CASE p = "cluster"
      <3>1. fresh[p] /\ new = live["cluster"]
        BY <1>1, <1>2, <1>5, <2>1
      <3>2. QED  BY <1>2, <1>3, <2>1, <3>1 DEF CInv, Copies
    <2>2. CASE p # "cluster"
      BY <1>1, <1>2, <1>3, <1>5, <2>2 DEF CInv, Copies, Objects
    <2>3. QED  BY <2>1, <2>2
  <1>6. Keeps /\ AbsentIsEmpty' /\ URLHasPassword'
    BY <1>3 DEF Keeps, AbsentIsEmpty, URLHasPassword, HasCredentials, Secrets, CInv
  <1>7. QED  BY <1>3, <1>4, <1>5, <1>6 DEF ObjectStep, Copies


LEMMA SecretWritten ==
  ASSUME CInv, NEW o \in Secrets, NEW new \in Secret, Write(o, new), engine' = engine,
         new.exists \/ new.password = 0,
         o = "target" /\ HasCredentials(new) => new.inURL = new.password,
         Keeps \/ Makes \/ Delivers \/ Loses
  PROVE  CacheStep /\ ObjectStep
  <1>1. /\ CacheStep /\ live' \in Stored /\ Copies'
        /\ live'[o] = new /\ \A p \in Objects \ {o} : live'[p] = live[p]
    BY WriteSecretFacts
  <1>2. AbsentIsEmpty'
    BY <1>1 DEF AbsentIsEmpty, CInv, Secrets, Objects
  <1>3. URLHasPassword'
    <2>1. CASE o = "target"
      BY <1>1, <2>1 DEF URLHasPassword, HasCredentials
    <2>2. CASE o = "source"
      BY <1>1, <2>2 DEF URLHasPassword, HasCredentials, CInv, Objects
    <2>3. QED  BY <2>1, <2>2 DEF Secrets
  <1>4. QED  BY <1>1, <1>2, <1>3 DEF ObjectStep

-----------------------------------------------------------------------------
(* How the pass goes on.                                                   *)

LEMMA GotoStep ==
  ASSUME CInv, NEW step \in Steps, step \in LateSteps => engine # "redis", Goto(step)
  PROVE  PassStep
  BY LimitPositive, SecretForms DEF CInv, TypeOK, Goto, PassStep

LEMMA EndPassStep ==
  ASSUME CInv, NEW r \in {"ok", "error", "panic"}, EndPass(r)
  PROVE  PassStep
  <1>1. {queued', edited'} \subseteq BOOLEAN
    BY DEF EndPass, Rest
  <1>2. QED  BY <1>1, LimitPositive, SecretForms DEF EndPass, Rest, PassStep, Steps, LateSteps

LEMMA FailStep == CInv /\ Fail => PassStep
  BY EndPassStep DEF Fail

LEMMA AgainStep ==
  ASSUME CInv, attempt + 1 < Limit(pc), Again
  PROVE  PassStep
  BY DEF CInv, TypeOK, Again, PassStep, NotRedisLate

LEMMA ServiceUntouched ==
  ASSUME CInv, UNCHANGED <<serviceVars, budget>>
  PROVE  ServiceStep
  BY DEF CInv, TypeOK, serviceVars, ServiceStep, Budget

-----------------------------------------------------------------------------
(* The calls of a pass.                                                    *)

LEMMA BeginIsStep == CInv /\ Begin => Step
  <1> SUFFICES ASSUME CInv, Begin PROVE Step
    OBVIOUS
  <1>1. CacheStep /\ ObjectStep
    BY ObjectsUntouched DEF Begin, serviceVars
  <1>2. ServiceStep
    BY ServiceUntouched DEF Begin
  <1>3. pc' \in Steps /\ (pc' \in LateSteps => engine # "redis") /\ attempt' = attempt
    BY DEF Begin, Steps, LateSteps
  <1>4. attempt = 0
    BY DEF CInv, TypeOK, Limit, Begin
  <1>5. PassStep
    BY <1>3, <1>4, LimitPositive DEF CInv, TypeOK, Begin, PassStep
  <1>6. QED  BY <1>1, <1>2, <1>5 DEF Step

LEMMA KeysSet ==
  ASSUME NEW s \in Secret, NEW p \in Nat, NEW b \in BOOLEAN
  PROVE  \E new \in Secret :
           /\ new = [s EXCEPT !.password = p, !.other = b]
           /\ new.password = p /\ new.exists = s.exists /\ new.username = s.username
  <1> DEFINE new == [s EXCEPT !.password = p, !.other = b]
  <1>1. new \in Secret /\ new.password = p /\ new.exists = s.exists /\ new.username = s.username
    BY DEF Secret
  <1>2. QED  BY <1>1

LEMMA AllKeysSet ==
  ASSUME NEW s \in Secret, NEW p \in Nat
  PROVE  \E new \in Secret :
           /\ new = [s EXCEPT !.username = TRUE, !.password = p, !.url = TRUE, !.inURL = p]
           /\ new.password = p /\ new.inURL = p /\ new.exists = s.exists
  <1> DEFINE new == [s EXCEPT !.username = TRUE, !.password = p, !.url = TRUE, !.inURL = p]
  <1>1. new \in Secret /\ new.password = p /\ new.inURL = p /\ new.exists = s.exists
    BY DEF Secret
  <1>2. QED  BY <1>1

LEMMA GeneratedIsSecret ==
  /\ Generated \in Secrets
  /\ CInv => Fresh \in Secret /\ Fresh.exists /\ Fresh.password = issued + 1
             /\ ~HasCredentials(Fresh)
  <1>1. Generated \in Secrets
    BY DEF Generated, Secrets
  <1>2. ASSUME CInv
        PROVE  Fresh \in Secret /\ Fresh.exists /\ Fresh.password = issued + 1 /\ ~Fresh.username
    <2>1. EmptySecret \in Secret /\ EmptySecret.exists /\ ~EmptySecret.username
      BY SecretForms
    <2>2. NewPassword \in Nat /\ NewPassword = issued + 1
      BY <1>2 DEF CInv, TypeOK, NewPassword
    <2>3. CASE engine # "redis"
      <3>1. Fresh = [EmptySecret EXCEPT !.password = NewPassword, !.other = TRUE]
        BY <2>3 DEF Fresh
      <3>2. PICK new \in Secret :
              /\ new = [EmptySecret EXCEPT !.password = NewPassword, !.other = TRUE]
              /\ new.password = NewPassword /\ new.exists = EmptySecret.exists
              /\ new.username = EmptySecret.username
        BY <2>1, <2>2, KeysSet
      <3>3. QED  BY <2>1, <2>2, <3>1, <3>2
    <2>4. CASE engine = "redis"
      <3>1. Fresh = [EmptySecret EXCEPT !.password = NewPassword, !.other = FALSE]
        BY <2>4 DEF Fresh
      <3>2. PICK new \in Secret :
              /\ new = [EmptySecret EXCEPT !.password = NewPassword, !.other = FALSE]
              /\ new.password = NewPassword /\ new.exists = EmptySecret.exists
              /\ new.username = EmptySecret.username
        BY <2>1, <2>2, KeysSet
      <3>3. QED  BY <2>1, <2>2, <3>1, <3>2
    <2>5. QED  BY <2>3, <2>4
  <1>3. QED  BY <1>1, <1>2 DEF HasCredentials

LEMMA FilledFacts ==
  ASSUME CInv, NEW s \in Secret, ~Complete(s), s.exists
  PROVE  /\ Filled(s) \in Secret /\ Filled(s).exists
         /\ s.password = 0 => Filled(s).password = issued + 1
         /\ s.password # 0 => engine # "redis" /\ Filled(s).password = s.password
         /\ engine = "redis" => Filled(s).inURL = Filled(s).password
  <1>0. NewPassword \in Nat /\ NewPassword = issued + 1 /\ s.password \in Nat
    BY DEF CInv, TypeOK, NewPassword, Secret
  <1>1. CASE engine = "redis"
    <2>1. Filled(s) = [s EXCEPT !.username = TRUE, !.password = NewPassword, !.url = TRUE,
                                !.inURL = NewPassword]
      BY <1>1 DEF Filled
    <2>2. s.password = 0
      BY <1>1 DEF Complete
    <2>3. PICK new \in Secret :
            /\ new = [s EXCEPT !.username = TRUE, !.password = NewPassword, !.url = TRUE,
                               !.inURL = NewPassword]
            /\ new.password = NewPassword /\ new.inURL = NewPassword /\ new.exists = s.exists
      BY <1>0, AllKeysSet
    <2>4. Filled(s) = new
      BY <2>1, <2>3
    <2>5. QED  BY <1>0, <1>1, <2>2, <2>3, <2>4
  <1>2. CASE engine # "redis"
    <2>1. CASE s.password # 0
      <3>1. Filled(s) = [s EXCEPT !.password = s.password, !.other = TRUE]
        BY <1>2, <2>1 DEF Filled, Secret
      <3>2. PICK new \in Secret :
              /\ new = [s EXCEPT !.password = s.password, !.other = TRUE]
              /\ new.password = s.password /\ new.exists = s.exists
        BY <1>0, KeysSet
      <3>3. QED  BY <1>0, <1>2, <2>1, <3>1, <3>2
    <2>2. CASE s.password = 0
      <3>1. Filled(s) = [s EXCEPT !.password = NewPassword, !.other = TRUE]
        BY <1>2, <2>2 DEF Filled, Secret
      <3>2. PICK new \in Secret :
              /\ new = [s EXCEPT !.password = NewPassword, !.other = TRUE]
              /\ new.password = NewPassword /\ new.exists = s.exists
        BY <1>0, KeysSet
      <3>3. QED  BY <1>0, <1>2, <2>2, <3>1, <3>2
    <2>3. QED  BY <2>1, <2>2
  <1>3. QED  BY <1>1, <1>2

LEMMA EnsureSecretIsStep == CInv /\ EnsureSecret => Step
  <1> SUFFICES ASSUME CInv, EnsureSecret PROVE Step
    OBVIOUS
  <1> DEFINE o == Generated
             s == cached[o]
  <1>1. o \in Secrets /\ o \in Objects /\ s \in Secret /\ live[o] \in Secret
        /\ (engine # "redis" => o = "source") /\ (engine = "redis" => o = "target")
    BY GeneratedIsSecret, StoredFields DEF CInv, Secrets, Objects, Generated
  <1>2. ServiceStep /\ engine' = engine
    BY ServiceUntouched DEF EnsureSecret, serviceVars
  <1>3. AfterEnsure \in Steps /\ (AfterEnsure \in LateSteps => engine # "redis")
        /\ AfterGenerating \in Steps /\ (AfterGenerating \in LateSteps => engine # "redis")
    BY DEF AfterEnsure, AfterGenerating, Steps, LateSteps
  <1>4. CASE Fail /\ UNCHANGED objectVars
    BY <1>2, <1>4, FailStep, ObjectsUntouched DEF Step
  <1>5. CASE EndPass("panic") /\ UNCHANGED objectVars
    BY <1>2, <1>5, EndPassStep, ObjectsUntouched DEF Step
  <1>6. CASE Goto(AfterEnsure) /\ UNCHANGED objectVars
    BY <1>2, <1>3, <1>6, GotoStep, ObjectsUntouched DEF Step
  <1>7. CASE /\ ~live[o].exists
             /\ Write(o, Fresh) /\ issued' = NewPassword /\ Goto(AfterGenerating)
    <2>1. live[o].password = 0
      BY <1>1, <1>7 DEF CInv, AbsentIsEmpty
    <2>2. Fresh \in Secret /\ Fresh.exists /\ Fresh.password = issued + 1 /\ ~HasCredentials(Fresh)
      BY GeneratedIsSecret
    <2>3. live'[o] = Fresh /\ \A p \in Objects \ {o} : live'[p] = live[p]
      BY <1>1, <1>7, <2>2, WriteSecretFacts
    <2>4. Makes
      BY <1>1, <1>7, <2>1, <2>2, <2>3 DEF Makes, NewPassword, Secrets, Objects
    <2>5. CacheStep /\ ObjectStep
      BY <1>1, <1>2, <1>7, <2>2, <2>4, SecretWritten
    <2>6. QED  BY <1>2, <1>3, <1>7, <2>5, GotoStep DEF Step
  <1>8. CASE /\ s.exists /\ ~Complete(s) /\ fresh[o]
             /\ Write(o, Filled(s)) /\ Goto(AfterGenerating)
             /\ issued' = IF s.password = 0 THEN NewPassword ELSE issued
    <2>1. s = live[o]
      BY <1>1, <1>8 DEF CInv, Copies
    <2>2. /\ Filled(s) \in Secret /\ Filled(s).exists
          /\ s.password = 0 => Filled(s).password = issued + 1
          /\ s.password # 0 => engine # "redis" /\ Filled(s).password = s.password
          /\ engine = "redis" => Filled(s).inURL = Filled(s).password
      BY <1>1, <1>8, FilledFacts
    <2>3. live'[o] = Filled(s) /\ \A p \in Objects \ {o} : live'[p] = live[p]
      BY <1>1, <1>8, <2>2, WriteSecretFacts
    <2>4. Keeps \/ Makes
      <3>1. CASE s.password = 0
        BY <1>1, <1>8, <2>1, <2>2, <2>3, <3>1 DEF Makes, NewPassword, Secrets, Objects
      <3>2. CASE s.password # 0
        BY <1>1, <1>8, <2>1, <2>2, <2>3, <3>2 DEF Keeps, Secrets, Objects
      <3>3. QED  BY <3>1, <3>2
    <2>5. CacheStep /\ ObjectStep
      BY <1>1, <1>2, <1>8, <2>2, <2>4, SecretWritten
    <2>6. QED  BY <1>2, <1>3, <1>8, <2>5, GotoStep DEF Step
  <1>9. QED
    BY <1>4, <1>5, <1>6, <1>7, <1>8 DEF EnsureSecret, CreateOr, UpdateOr

LEMMA ReconcileClusterIsStep == CInv /\ ReconcileCluster => Step
  <1> SUFFICES ASSUME CInv, ReconcileCluster PROVE Step
    OBVIOUS
  <1> DEFINE new == [exists |-> TRUE, spec |-> wanted]
  <1>1. ServiceStep /\ engine' = engine /\ pc = "cluster" /\ engine # "redis"
    BY ServiceUntouched DEF ReconcileCluster, serviceVars, CInv, NotRedisLate, LateSteps
  <1>2. AfterCluster \in Steps /\ "status" \in Steps /\ new \in Cluster
    BY DEF AfterCluster, Steps, Cluster, CInv, TypeOK
  <1>3. CASE Fail /\ UNCHANGED objectVars
    BY <1>1, <1>3, FailStep, ObjectsUntouched DEF Step
  <1>4. CASE Goto(AfterCluster) /\ UNCHANGED objectVars
    BY <1>1, <1>2, <1>4, GotoStep, ObjectsUntouched DEF Step
  <1>5. CASE Again /\ UNCHANGED objectVars /\ attempt + 1 < MaxRetries
    <2>1. Limit(pc) = MaxRetries
      BY <1>1 DEF Limit
    <2>2. QED  BY <1>1, <1>5, <2>1, AgainStep, ObjectsUntouched DEF Step
  <1>6. CASE Write("cluster", new) /\ issued' = issued /\ Goto("status")
    BY <1>1, <1>2, <1>6, GotoStep, WriteClusterFacts DEF Step
  <1>7. CASE Write("cluster", new) /\ issued' = issued /\ Goto(AfterCluster)
    BY <1>1, <1>2, <1>7, GotoStep, WriteClusterFacts DEF Step
  <1>8. QED
    BY <1>3, <1>4, <1>5, <1>6, <1>7 DEF ReconcileCluster, CreateOr

LEMMA AwaitSourceIsStep == CInv /\ AwaitSource => Step
  <1> SUFFICES ASSUME CInv, AwaitSource PROVE Step
    OBVIOUS
  <1>1. ServiceStep /\ CacheStep /\ ObjectStep /\ engine # "redis"
    BY ServiceUntouched, ObjectsUntouched
       DEF AwaitSource, serviceVars, CInv, NotRedisLate, LateSteps
  <1>2. CASE Fail
    BY <1>1, <1>2, FailStep DEF Step
  <1>3. CASE Again /\ WaitsLeft
    <2>1. Limit(pc) = MaxWaits
      BY DEF Limit, AwaitSource
    <2>2. QED  BY <1>1, <1>3, <2>1, AgainStep DEF Step, WaitsLeft
  <1>4. CASE /\ pc' \in {"write", "ensureWrite"} /\ held' = cached["source"] /\ attempt' = 0
             /\ UNCHANGED <<queued, wanted, edited, result>>
    <2>1. pc' \in Steps /\ cached["source"] \in Secret
      BY <1>4, StoredFields DEF Steps, CInv, Secrets
    <2>2. PassStep
      <3>1. {queued', edited'} \subseteq BOOLEAN
        BY <1>4 DEF CInv, TypeOK
      <3>2. QED  BY <1>1, <1>4, <2>1, <3>1, LimitPositive DEF PassStep, CInv, TypeOK
    <2>3. QED  BY <1>1, <2>2 DEF Step
  <1>5. QED  BY <1>2, <1>3, <1>4 DEF AwaitSource

LEMMA CopiedFacts ==
  ASSUME CInv, NEW s \in Secret
  PROVE  /\ Copied(s) \in Secret /\ Copied(s).exists
         /\ Copied(s).inURL = Copied(s).password
         /\ Copied(s).password = IF held.password # 0 THEN held.password ELSE s.password
  <1> DEFINE p == IF held.password # 0 THEN held.password ELSE s.password
             u == engine # "postgres" \/ held.username \/ s.username
  <1>1. held \in Secret /\ p \in Nat /\ u \in BOOLEAN
    BY DEF CInv, TypeOK, Secret
  <1>2. Copied(s) = [s EXCEPT !.exists = TRUE, !.username = u, !.password = p, !.url = TRUE,
                              !.inURL = p]
    BY DEF Copied
  <1> HIDE DEF p, u
  <1>3. QED  BY <1>1, <1>2 DEF Secret, p

LEMMA WriteTargetIsStep == CInv /\ WriteTarget => Step
  <1> SUFFICES ASSUME CInv, WriteTarget PROVE Step
    OBVIOUS
  <1> DEFINE s == cached["target"]
  <1>1. ServiceStep /\ engine' = engine /\ engine # "redis"
    BY ServiceUntouched DEF WriteTarget, serviceVars, CInv, NotRedisLate, LateSteps
  <1>2. /\ AfterCopy \in Steps /\ s \in Secret /\ live["target"] \in Secret
        /\ "target" \in Secrets /\ "target" \in Objects
    BY StoredFields DEF AfterCopy, AfterEnsure, Steps, CInv, Secrets, Objects
  <1>3. CASE Fail /\ UNCHANGED objectVars
    BY <1>1, <1>3, FailStep, ObjectsUntouched DEF Step
  <1>4. CASE Goto(AfterCopy) /\ UNCHANGED objectVars
    BY <1>1, <1>2, <1>4, GotoStep, ObjectsUntouched DEF Step
  <1>5. ASSUME NEW old \in Secret, old.password = live["target"].password,
               ~HasCredentials(live["target"]),
               Write("target", Copied(old)), issued' = issued, Goto(AfterCopy)
        PROVE  Step
    <2>1. /\ Copied(old) \in Secret /\ Copied(old).exists
          /\ Copied(old).inURL = Copied(old).password
          /\ Copied(old).password = IF held.password # 0 THEN held.password ELSE old.password
      BY CopiedFacts
    <2>2. live'["target"] = Copied(old) /\ live'["source"] = live["source"]
      BY <1>2, <1>5, <2>1, WriteSecretFacts DEF Objects
    <2>3. Keeps \/ Delivers
      BY <1>1, <1>5, <2>1, <2>2 DEF Keeps, Delivers, Secrets
    <2>4. CacheStep /\ ObjectStep
      BY <1>1, <1>2, <1>5, <2>1, <2>3, SecretWritten
    <2>5. QED  BY <1>1, <1>2, <1>5, <2>4, GotoStep DEF Step
  <1>6. CASE /\ ~live["target"].exists
             /\ Write("target", Copied(NoSecret)) /\ issued' = issued /\ Goto(AfterCopy)
    <2>1. NoSecret \in Secret /\ NoSecret.password = live["target"].password
      BY <1>2, <1>6, SecretForms DEF CInv, AbsentIsEmpty
    <2>2. ~HasCredentials(live["target"])
      BY <1>2, <1>6 DEF CInv, AbsentIsEmpty, HasCredentials
    <2>3. QED  BY <1>5, <1>6, <2>1, <2>2
  <1>7. CASE /\ ~HasCredentials(s) /\ fresh["target"]
             /\ Write("target", Copied(s)) /\ issued' = issued /\ Goto(AfterCopy)
    <2>1. s = live["target"]
      BY <1>2, <1>7 DEF CInv, Copies
    <2>2. QED  BY <1>2, <1>5, <1>7, <2>1
  <1>8. QED
    BY <1>3, <1>4, <1>6, <1>7 DEF WriteTarget, CreateOr, UpdateOr

LEMMA UpdateStatusIsStep == CInv /\ UpdateStatus => Step
  <1> SUFFICES ASSUME CInv, UpdateStatus PROVE Step
    OBVIOUS
  <1>1. CacheStep /\ ObjectStep /\ ServiceStep
    <2>1. CacheStep /\ ObjectStep
      BY ObjectsUntouched DEF UpdateStatus
    <2>2. ready' = ready \/ ready' = TRUE
      BY DEF UpdateStatus
    <2>3. {ready', named', returned'} \subseteq BOOLEAN
      BY <2>2 DEF UpdateStatus, CInv, TypeOK
    <2>4. ServiceStep
      BY <2>3 DEF UpdateStatus, ServiceStep, CInv, TypeOK, Budget
    <2>5. QED  BY <2>1, <2>4
  <1>2. CASE EndPass("ok")
    BY <1>1, <1>2, EndPassStep DEF Step
  <1>3. CASE Rest("ok") /\ queued' = TRUE
    <2>1. {queued', edited'} \subseteq BOOLEAN
      BY <1>3 DEF Rest
    <2>2. PassStep
      BY <1>3, <2>1, LimitPositive, SecretForms DEF Rest, PassStep, Steps, LateSteps
    <2>3. QED  BY <1>1, <2>2 DEF Step
  <1>4. CASE Fail
    BY <1>1, <1>4, FailStep DEF Step
  <1>5. QED  BY <1>2, <1>3, <1>4 DEF UpdateStatus

-----------------------------------------------------------------------------
(* Failures, caches and other clients.                                     *)

LEMMA SpendFacts ==
  ASSUME CInv, NEW b \in {"edits", "returns", "targets", "touches", "losses", "faults"},
         Spend(b)
  PROVE  /\ budget' \in Budget
         /\ budget'.losses <= budget.losses
         /\ b = "losses" => budget'.losses < budget.losses
  BY DatabaseAssumption DEF CInv, TypeOK, Spend, Budget

LEMMA PassUntouched ==
  ASSUME CInv, UNCHANGED passVars, queued' \in BOOLEAN
  PROVE  PassStep
  BY DEF CInv, TypeOK, passVars, PassStep, NotRedisLate

LEMMA FailuresAreSteps == CInv /\ (CallFails \/ PostgresGetFails \/ Crash) => Step
  <1> SUFFICES ASSUME CInv, CallFails \/ PostgresGetFails \/ Crash PROVE Step
    OBVIOUS
  <1>1. ServiceStep /\ engine' = engine
    BY SpendFacts DEF CallFails, PostgresGetFails, Crash, serviceVars, ServiceStep, CInv, TypeOK
  <1>2. CASE CallFails
    BY <1>1, <1>2, FailStep, ObjectsUntouched DEF Step, CallFails
  <1>3. CASE PostgresGetFails
    <2>1. "status" \in Steps /\ "status" \notin LateSteps
      BY DEF Steps, LateSteps
    <2>2. QED  BY <1>1, <1>3, <2>1, GotoStep, ObjectsUntouched DEF Step, PostgresGetFails
  <1>4. CASE Crash
    <2>1. PassStep
      <3>1. {queued', edited'} \subseteq BOOLEAN
        BY <1>4 DEF Crash, Rest
      <3>2. QED
        BY <1>4, <3>1, LimitPositive, SecretForms DEF Crash, Rest, PassStep, Steps, LateSteps
    <2>2. CacheStep
      BY <1>4 DEF Crash, CacheStep, CInv, TypeOK
    <2>3. ObjectStep
      BY <1>1, <1>4 DEF Crash, ObjectStep, CInv, TypeOK, Copies, AbsentIsEmpty, URLHasPassword,
                HasCredentials, Keeps
    <2>4. QED  BY <1>1, <2>1, <2>2, <2>3 DEF Step
  <1>5. QED  BY <1>2, <1>3, <1>4

LEMMA SyncIsStep == ASSUME NEW o \in Objects PROVE CInv /\ Sync(o) => Step
  <1> SUFFICES ASSUME CInv, Sync(o) PROVE Step
    OBVIOUS
  <1>1. ServiceStep /\ PassStep /\ engine' = engine
    BY ServiceUntouched, PassUntouched DEF Sync, serviceVars, CInv, TypeOK
  <1>2. /\ cached' = [cached EXCEPT ![o] = live[o]] /\ cached \in Stored /\ live \in Stored
        /\ fresh' = [fresh EXCEPT ![o] = TRUE] /\ fresh \in [Objects -> BOOLEAN]
        /\ live' = live /\ issued' = issued
    BY DEF Sync, CInv, TypeOK
  <1>3. cached'[o] = live[o] /\ \A p \in Objects \ {o} : cached'[p] = cached[p]
    BY <1>2 DEF Stored, Objects
  <1>4. cached' \in Stored
    BY <1>2 DEF Stored, Objects
  <1>5. CacheStep
    BY <1>2, <1>3, <1>4 DEF CacheStep
  <1>6. Copies'
    BY <1>2, <1>3 DEF Copies, CInv
  <1>7. ObjectStep
    BY <1>1, <1>2, <1>6 DEF ObjectStep, CInv, AbsentIsEmpty, URLHasPassword, HasCredentials, Keeps
  <1>8. QED  BY <1>1, <1>5, <1>7 DEF Step

LEMMA ExternalOperatorIsStep == CInv /\ ExternalOperator => Step
  <1> SUFFICES ASSUME CInv, ExternalOperator PROVE Step
    OBVIOUS
  <1> DEFINE new == [EmptySecret EXCEPT !.username = engine = "postgres",
                                        !.password = NewPassword, !.other = TRUE]
  <1>1. ServiceStep /\ PassStep /\ engine' = engine /\ Generated = "source"
    BY ServiceUntouched, PassUntouched
       DEF ExternalOperator, serviceVars, CInv, TypeOK, Generated
  <1>2. NewPassword \in Nat /\ NewPassword = issued + 1
    BY DEF CInv, TypeOK, NewPassword
  <1>3. new \in Secret /\ new.exists /\ new.password = issued + 1
    BY <1>2 DEF EmptySecret, NoSecret, Secret
  <1>4. /\ ~live["source"].exists /\ Write("source", new) /\ issued' = issued + 1
        /\ "source" \in Secrets
    BY <1>2 DEF ExternalOperator, Secrets
  <1> HIDE DEF new
  <1>5. live'["source"] = new /\ live'["target"] = live["target"]
    BY <1>3, <1>4, WriteSecretFacts DEF Objects
  <1>6. Makes
    BY <1>1, <1>3, <1>4, <1>5 DEF Makes, Secrets, CInv, AbsentIsEmpty
  <1>7. CacheStep /\ ObjectStep
    BY <1>1, <1>3, <1>4, <1>6, SecretWritten
  <1>8. QED  BY <1>1, <1>7 DEF Step

LEMMA EditsAreSteps == CInv /\ (EditService \/ ReturnService) => Step
  <1> SUFFICES ASSUME CInv, EditService \/ ReturnService PROVE Step
    OBVIOUS
  <1>1. CacheStep /\ ObjectStep
    BY ObjectsUntouched DEF EditService, ReturnService, Edited
  <1>2. PassStep
    <2>1. {queued', edited'} \subseteq BOOLEAN
      BY DEF EditService, ReturnService, Edited
    <2>2. QED
      BY <2>1 DEF EditService, ReturnService, Edited, CInv, TypeOK, PassStep, NotRedisLate
  <1>3. ServiceStep
    <2>1. Newest \in Nat
      BY DatabaseAssumption DEF CInv, TypeOK, Newest
    <2>2. spec' \in Nat
      BY <2>1 DEF EditService, ReturnService
    <2>3. returned' \in BOOLEAN
      BY Zenon DEF EditService, ReturnService
    <2>4. budget' \in Budget /\ budget'.losses <= budget.losses
      BY SpendFacts DEF EditService, ReturnService
    <2>5. QED
      BY <2>2, <2>3, <2>4 DEF EditService, ReturnService, Edited, ServiceStep, CInv, TypeOK
  <1>4. QED  BY <1>1, <1>2, <1>3 DEF Step

LEMMA CreateTargetIsStep == CInv /\ CreateTarget => Step
  <1> SUFFICES ASSUME CInv, CreateTarget PROVE Step
    OBVIOUS
  <1>1. PassStep /\ engine' = engine
    BY PassUntouched DEF CreateTarget, serviceVars, CInv, TypeOK
  <1>2. ServiceStep
    BY SpendFacts DEF CreateTarget, serviceVars, ServiceStep, CInv, TypeOK
  <1>3. /\ ~live["target"].exists /\ Write("target", EmptySecret) /\ issued' = issued
        /\ "target" \in Secrets
    BY DEF CreateTarget, Secrets
  <1>4. live'["target"] = EmptySecret /\ live'["source"] = live["source"]
    BY <1>3, SecretForms, WriteSecretFacts DEF Objects
  <1>5. Keeps
    BY <1>3, <1>4, SecretForms DEF Keeps, Secrets, CInv, AbsentIsEmpty
  <1>6. CacheStep /\ ObjectStep
    BY <1>1, <1>3, <1>5, SecretForms, SecretWritten
  <1>7. QED  BY <1>1, <1>2, <1>6 DEF Step

LEMMA TouchIsStep == ASSUME NEW o \in Objects PROVE CInv /\ Touch(o) => Step
  <1> SUFFICES ASSUME CInv, Touch(o) PROVE Step
    OBVIOUS
  <1>1. PassStep /\ engine' = engine /\ issued' = issued
    BY PassUntouched DEF Touch, serviceVars, CInv, TypeOK
  <1>2. ServiceStep
    BY SpendFacts DEF Touch, serviceVars, ServiceStep, CInv, TypeOK
  <1>3. /\ live \in Stored /\ live["source"] \in Secret /\ live["target"] \in Secret
        /\ live["cluster"] \in Cluster
    BY StoredFields DEF CInv, TypeOK, Secrets
  <1>4. PICK new \in CASE o = "cluster" -> {live[o]}
                       [] o = "source"  -> {live[o], [live[o] EXCEPT !.other = FALSE]}
                       [] o = "target"  -> {live[o], [live[o] EXCEPT !.url = FALSE, !.inURL = 0]} :
          live' = [live EXCEPT ![o] = new]
    BY DEF Touch
  <1>5. /\ \A q \in Objects : live'[q] = IF q = o THEN new ELSE live[q]
        /\ live' = [source  |-> IF o = "source" THEN new ELSE live["source"],
                    target  |-> IF o = "target" THEN new ELSE live["target"],
                    cluster |-> IF o = "cluster" THEN new ELSE live["cluster"]]
    BY <1>3, <1>4 DEF Stored, Objects
  <1>6. CacheStep /\ Copies'
    <2>1. /\ cached' = cached /\ cached \in Stored /\ fresh \in [Objects -> BOOLEAN]
          /\ fresh' = [fresh EXCEPT ![o] = FALSE]
      BY DEF Touch, CInv, TypeOK
    <2>2. \A q \in Objects : fresh'[q] => q # o /\ fresh[q]
      BY <2>1
    <2>3. Copies'
      BY <1>5, <2>1, <2>2 DEF Copies, CInv
    <2>4. CacheStep
      BY <2>1 DEF CacheStep
    <2>5. QED  BY <2>3, <2>4
  <1>7. ASSUME o = "cluster"
        PROVE  live' \in Stored /\ Keeps /\ AbsentIsEmpty' /\ URLHasPassword'
    <2>1. live' = live
      BY <1>3, <1>4, <1>5, <1>7 DEF Stored
    <2>2. QED
      BY <1>1, <1>3, <2>1 DEF Keeps, Stored, CInv, TypeOK, AbsentIsEmpty, URLHasPassword, HasCredentials
  <1>8. ASSUME o = "source"
        PROVE  live' \in Stored /\ Keeps /\ AbsentIsEmpty' /\ URLHasPassword'
    <2>1. /\ new \in Secret /\ new.password = live["source"].password
          /\ new.exists = live["source"].exists
      BY <1>3, <1>4, <1>8 DEF Secret
    <2>2. live' \in Stored /\ live'["source"] = new /\ live'["target"] = live["target"]
      BY <1>3, <1>5, <1>8, <2>1 DEF Stored, Objects
    <2>3. QED
      BY <1>1, <1>3, <2>1, <2>2 DEF Keeps, CInv, AbsentIsEmpty, URLHasPassword, HasCredentials, Secrets
  <1>9. ASSUME o = "target"
        PROVE  live' \in Stored /\ Keeps /\ AbsentIsEmpty' /\ URLHasPassword'
    <2>1. /\ new \in Secret /\ new.password = live["target"].password
          /\ new.exists = live["target"].exists
          /\ new = live["target"] \/ ~new.url
      <3>1. new = live["target"] \/ new = [live["target"] EXCEPT !.url = FALSE, !.inURL = 0]
        BY <1>4, <1>9
      <3>2. ASSUME new = [live["target"] EXCEPT !.url = FALSE, !.inURL = 0]
            PROVE  /\ new \in Secret /\ ~new.url /\ new.exists = live["target"].exists
                   /\ new.password = live["target"].password
        BY <1>3, <3>2 DEF Secret
      <3>3. QED  BY <1>3, <3>1, <3>2
    <2>2. live' \in Stored /\ live'["target"] = new /\ live'["source"] = live["source"]
      BY <1>3, <1>5, <1>9, <2>1 DEF Stored, Objects
    <2>3. QED
      BY <1>1, <1>3, <2>1, <2>2 DEF Keeps, CInv, AbsentIsEmpty, URLHasPassword, HasCredentials, Secrets
  <1>10. ObjectStep
    BY <1>6, <1>7, <1>8, <1>9 DEF ObjectStep, Objects
  <1>11. QED  BY <1>1, <1>2, <1>6, <1>10 DEF Step

LEMMA LoseIsStep == ASSUME NEW o \in Objects PROVE CInv /\ Lose(o) => Step
  <1> SUFFICES ASSUME CInv, Lose(o) PROVE Step
    OBVIOUS
  <1>1. PassStep /\ engine' = engine /\ issued' = issued
    BY PassUntouched DEF Lose, serviceVars, CInv, TypeOK
  <1>2. ServiceStep /\ budget'.losses < budget.losses
    BY SpendFacts DEF Lose, serviceVars, ServiceStep, CInv, TypeOK
  <1>3. o \in Secrets /\ live[o] \in Secret
    BY StoredFields DEF Lose, Objects, Secrets, CInv
  <1>4. PICK new \in {NoSecret, EmptySecret, [live[o] EXCEPT !.password = 0]} : Write(o, new)
    BY DEF Lose
  <1>5. new \in Secret /\ new.password = 0 /\ ~HasCredentials(new)
    <2>1. CASE new = [live[o] EXCEPT !.password = 0]
      BY <1>3, <2>1 DEF Secret, HasCredentials
    <2>2. QED  BY <1>4, <2>1, SecretForms
  <1>6. live'[o] = new /\ \A q \in Objects \ {o} : live'[q] = live[q]
    BY <1>3, <1>4, <1>5, WriteSecretFacts
  <1>7. Loses
    BY <1>1, <1>2, <1>3, <1>5, <1>6 DEF Loses, Secrets, Objects
  <1>8. CacheStep /\ ObjectStep
    BY <1>1, <1>3, <1>4, <1>5, <1>7, SecretWritten
  <1>9. QED  BY <1>1, <1>2, <1>8 DEF Step

LEMMA StutterIsStep == CInv /\ UNCHANGED vars => Step
  <1> SUFFICES ASSUME CInv, UNCHANGED vars PROVE Step
    OBVIOUS
  <1>1. CacheStep /\ ObjectStep
    BY ObjectsUntouched DEF vars, serviceVars
  <1>2. ServiceStep /\ PassStep
    BY ServiceUntouched, PassUntouched DEF vars, passVars, CInv, TypeOK
  <1>3. QED  BY <1>1, <1>2 DEF Step

LEMMA NextIsStep == CInv /\ [Next]_vars => Step
  BY BeginIsStep, EnsureSecretIsStep, ReconcileClusterIsStep, AwaitSourceIsStep,
     WriteTargetIsStep, UpdateStatusIsStep, FailuresAreSteps, SyncIsStep,
     ExternalOperatorIsStep, EditsAreSteps, CreateTargetIsStep, TouchIsStep, LoseIsStep,
     StutterIsStep DEF Next, Worker

-----------------------------------------------------------------------------
(* The invariant is inductive.                                             *)

LEMMA StepBounds ==
  CInv /\ Step => /\ issued' \in Nat /\ issued <= issued'
                  /\ budget'.losses <= MaxLosses
                  /\ budget'.losses = MaxLosses => budget.losses = MaxLosses /\ ~Loses
  <1> SUFFICES ASSUME CInv, Step
      PROVE  /\ issued' \in Nat /\ issued <= issued'
             /\ budget'.losses <= MaxLosses
             /\ budget'.losses = MaxLosses => budget.losses = MaxLosses /\ ~Loses
    OBVIOUS
  <1>1. issued' \in Nat /\ issued <= issued'
    BY DEF CInv, TypeOK, Step, ObjectStep, Keeps, Makes, Delivers, Loses
  <1>2. /\ MaxLosses \in Nat /\ budget.losses \in Nat /\ budget'.losses \in Nat
        /\ budget'.losses <= budget.losses /\ budget.losses <= MaxLosses
    BY DatabaseAssumption DEF CInv, TypeOK, Step, ServiceStep, Budget
  <1>3. Loses => budget'.losses < budget.losses
    BY DEF Loses
  <1>4. QED  BY <1>1, <1>2, <1>3

LEMMA StepKeepsType == CInv /\ Step => TypeOK'
  <1> SUFFICES ASSUME CInv, Step PROVE TypeOK'
    OBVIOUS
  <1>1. issued' \in Nat
    BY StepBounds
  <1>2. /\ engine' \in Engines /\ {named', returned', ready', queued', edited'} \subseteq BOOLEAN
        /\ {spec', wanted'} \subseteq Nat
    BY DEF Step, ServiceStep, PassStep, CInv, TypeOK
  <1>3. live' \in Stored /\ cached' \in Stored /\ fresh' \in [Objects -> BOOLEAN]
    BY DEF Step, ObjectStep, CacheStep
  <1>4. /\ pc' \in Steps /\ held' \in Secret /\ attempt' \in Nat /\ attempt' < Limit(pc')
        /\ result' \in {"none", "ok", "error", "panic"}
        /\ budget' \in Budget
    BY DEF Step, ServiceStep, PassStep
  <1>5. Limit(pc)' = Limit(pc')
    BY DEF Limit
  <1>6. QED  BY <1>1, <1>2, <1>3, <1>4, <1>5 DEF TypeOK, Budget

LEMMA CopiesWereThere ==
  ASSUME CInv, Step
  PROVE  /\ cached'["source"] \in {cached["source"], live["source"]}
         /\ \A o \in Secrets : cached'[o].password \in {cached[o].password, live[o].password}
         /\ held'.password \in {0, held.password, cached["source"].password}
  BY DEF Step, CacheStep, PassStep, Objects, Secrets

LEMMA StepKeepsPasswordsMade == CInv /\ Step => PasswordsMade'
  <1> SUFFICES ASSUME CInv, Step PROVE PasswordsMade'
    OBVIOUS
  <1>1. /\ issued \in Nat /\ issued' \in Nat /\ issued <= issued' /\ held.password \in Nat
        /\ \A o \in Secrets : live[o].password \in Nat /\ cached[o].password \in Nat
    BY StepBounds, StoredFields DEF CInv, TypeOK, Secret
  <1>2. /\ held.password <= issued
        /\ \A o \in Secrets : live[o].password <= issued /\ cached[o].password <= issued
    BY DEF CInv, PasswordsMade
  <1>3. ASSUME NEW o \in Secrets PROVE live'[o].password <= issued'
    <2>1. CASE Keeps
      BY <1>1, <1>2, <2>1 DEF Keeps
    <2>2. CASE Makes
      BY <1>1, <1>2, <2>2 DEF Makes
    <2>3. CASE Delivers
      BY <1>1, <1>2, <2>3 DEF Delivers, Secrets
    <2>4. CASE Loses
      BY <1>1, <1>2, <2>4 DEF Loses
    <2>5. QED  BY <2>1, <2>2, <2>3, <2>4 DEF Step, ObjectStep
  <1>4. ASSUME NEW o \in Secrets PROVE cached'[o].password <= issued'
    BY <1>1, <1>2, CopiesWereThere
  <1>5. held'.password <= issued'
    <2>1. "source" \in Secrets
      BY DEF Secrets
    <2>2. QED  BY <1>1, <1>2, <2>1, CopiesWereThere
  <1>6. QED  BY <1>3, <1>4, <1>5 DEF PasswordsMade

LEMMA StepKeepsAgreement == CInv /\ Step => CopiesAgree'
  <1> SUFFICES ASSUME CInv, Step, engine' # "redis", budget'.losses = MaxLosses
      PROVE  {cached'["source"].password, held'.password, live'["target"].password}
               \subseteq {0, live'["source"].password}
    BY DEF CopiesAgree
  <1> DEFINE p == live["source"].password
  <1>1. engine # "redis" /\ budget.losses = MaxLosses /\ ~Loses
    BY StepBounds DEF Step, ServiceStep
  <1>2. {cached["source"].password, held.password, live["target"].password} \subseteq {0, p}
    BY <1>1 DEF CInv, CopiesAgree
  <1>3. {cached'["source"].password, held'.password} \subseteq {0, p}
    BY <1>2, CopiesWereThere
  <1>4. CASE Keeps
    BY <1>2, <1>3, <1>4 DEF Keeps, Secrets
  <1>5. CASE Makes
    <2>1. p = 0 /\ live'["target"] = live["target"]
      BY <1>1, <1>5 DEF Makes, Generated, Secrets
    <2>2. QED  BY <1>2, <1>3, <2>1
  <1>6. CASE Delivers
    BY <1>2, <1>3, <1>6 DEF Delivers
  <1>7. QED  BY <1>1, <1>4, <1>5, <1>6 DEF Step, ObjectStep

LEMMA StepKeepsInvariant == CInv /\ Step => CInv'
  <1> SUFFICES ASSUME CInv, Step PROVE CInv'
    OBVIOUS
  <1>1. Copies' /\ AbsentIsEmpty' /\ URLHasPassword'
    BY DEF Step, ObjectStep
  <1>2. NotRedisLate'
    BY DEF Step, PassStep, ServiceStep, NotRedisLate
  <1>3. budget'.losses <= MaxLosses
    BY StepBounds
  <1>4. QED
    BY <1>1, <1>2, <1>3, StepKeepsType, StepKeepsPasswordsMade, StepKeepsAgreement DEF CInv

LEMMA InitIsGood == Init => CInv
  <1> SUFFICES ASSUME Init PROVE CInv
    OBVIOUS
  <1>1. PICK target \in {NoSecret, EmptySecret} :
          live = [source |-> NoSecret, target |-> target, cluster |-> [exists |-> FALSE, spec |-> 0]]
    BY DEF Init
  <1>2. /\ live["source"] = NoSecret /\ live["target"] = target
        /\ target \in Secret /\ target.password = 0 /\ ~HasCredentials(target)
    BY <1>1, SecretForms
  <1>3. live \in Stored /\ cached = live
    BY <1>1, <1>2, SecretForms DEF Stored, Cluster, Init
  <1>4. TypeOK
    <2>1. budget \in Budget
      BY DatabaseAssumption DEF Init, Budget
    <2>2. pc \in Steps /\ attempt \in Nat /\ attempt < Limit(pc)
      BY LimitPositive DEF Init, Steps
    <2>3. fresh \in [Objects -> BOOLEAN] /\ held \in Secret
      BY SecretForms DEF Init
    <2>4. /\ engine \in Engines /\ {spec, issued, wanted} \subseteq Nat
          /\ result \in {"none", "ok", "error", "panic"}
      BY DEF Init
    <2>5. /\ named \in BOOLEAN /\ returned \in BOOLEAN /\ ready \in BOOLEAN
          /\ queued \in BOOLEAN /\ edited \in BOOLEAN
      BY Zenon DEF Init
    <2>6. QED  BY <1>3, <2>1, <2>2, <2>3, <2>4, <2>5 DEF TypeOK, Budget
  <1>5. Copies /\ AbsentIsEmpty /\ NotRedisLate /\ URLHasPassword
    BY <1>2, <1>3, SecretForms
       DEF Init, Copies, AbsentIsEmpty, NotRedisLate, LateSteps, URLHasPassword, Secrets
  <1>6. PasswordsMade /\ CopiesAgree
    BY <1>2, <1>3, SecretForms DEF Init, PasswordsMade, CopiesAgree, Secrets
  <1>7. budget.losses <= MaxLosses
    BY DatabaseAssumption DEF Init
  <1>8. QED  BY <1>4, <1>5, <1>6, <1>7 DEF CInv

(* What a copy, however old, says of the passwords is still true of them.  *)
THEOREM Invariance == Spec => []CInv
  <1>1. CInv /\ [Next]_vars => CInv'
    BY NextIsStep, StepKeepsInvariant
  <1>2. QED  BY <1>1, InitIsGood, PTL DEF Spec

-----------------------------------------------------------------------------
(* What follows from it.                                                   *)

(* Retry loops stay within their bounds and every variable keeps its type. *)
THEOREM TypeCorrect == Spec => []TypeOK
  <1>1. CInv => TypeOK
    BY DEF CInv
  <1>2. QED  BY <1>1, Invariance, PTL

(* The URL of the target never spells another password than the target     *)
(* holds.                                                                  *)
THEOREM URLTrue == Spec => []URLHasPassword
  <1>1. CInv => URLHasPassword
    BY DEF CInv
  <1>2. QED  BY <1>1, Invariance, PTL

(* Unless others destroy a password, complete targets agree with the       *)
(* source.                                                                 *)
THEOREM TargetsAgree == Spec => []Agreement
  <1>1. CInv => Agreement
    BY DEF CInv, CopiesAgree, Agreement, HasCredentials
  <1>2. QED  BY <1>1, Invariance, PTL

(* No step of the controller replaces a password it generated.             *)
THEOREM PasswordsStay == Spec => PasswordsKept
  <1>1. ASSUME CInv, Step,
               live[Generated].password # 0, live'[Generated].password # live[Generated].password
        PROVE  budget'.losses < budget.losses
    <2>1. Generated \in Secrets
      BY GeneratedIsSecret
    <2>2. CASE Keeps
      BY <1>1, <2>1, <2>2 DEF Keeps
    <2>3. CASE Makes
      BY <1>1, <2>3 DEF Makes
    <2>4. CASE Delivers
      BY <1>1, <2>4 DEF Delivers, Generated
    <2>5. CASE Loses
      BY <2>5 DEF Loses
    <2>6. QED  BY <1>1, <2>2, <2>3, <2>4, <2>5 DEF Step, ObjectStep
  <1>2. CInv /\ [Next]_vars =>
          [/\ engine \in {"redis", "mongodb", "clickhouse"}
           /\ live[Generated].password # 0
           /\ live'[Generated].password # live[Generated].password
           => budget'.losses < budget.losses]_vars
    BY <1>1, NextIsStep
  <1>3. QED  BY <1>2, Invariance, PTL DEF Spec, PasswordsKept

LEMMA StepIsContractStep == CInv /\ Step => [Contract!Next]_(Contract!vars)
  <1> SUFFICES ASSUME CInv, Step PROVE Contract!Next \/ UNCHANGED Contract!vars
    OBVIOUS
  <1> USE DEF Contract!Next, Contract!vars, SourcePassword, TargetPassword, TargetComplete
  <1>1. /\ engine' = engine
        /\ engine = "redis" => Generated = "target"
        /\ engine # "redis" => Generated = "source"
    BY DEF Step, ServiceStep, Generated
  <1>2. Generated' = Generated
    BY <1>1 DEF Generated
  <1>3. CASE Keeps
    <2>1. issued' = issued /\ SourcePassword' = SourcePassword /\ TargetPassword' = TargetPassword
      BY <1>1, <1>2, <1>3, GeneratedIsSecret DEF Keeps, Secrets
    <2>2. CASE TargetComplete' /\ ~TargetComplete
      BY <2>1, <2>2 DEF Contract!Deliver
    <2>3. CASE ~TargetComplete' /\ TargetComplete
      BY <2>1, <2>3 DEF Contract!LoseTarget
    <2>4. CASE TargetComplete' <=> TargetComplete
      BY <2>1, <2>4
    <2>5. QED  BY <2>2, <2>3, <2>4
  <1>4. CASE Makes
    <2>1. /\ SourcePassword = 0 /\ issued' = issued + 1 /\ SourcePassword' = issued'
          /\ TargetPassword' = TargetPassword /\ TargetComplete' = TargetComplete
      BY <1>1, <1>2, <1>4 DEF Makes, Secrets, HasCredentials
    <2>2. QED  BY <2>1 DEF Contract!Generate
  <1>5. CASE Delivers
    <2>1. /\ issued' = issued /\ SourcePassword' = SourcePassword /\ ~TargetComplete
          /\ TargetPassword' = held.password
      BY <1>1, <1>2, <1>5 DEF Delivers
    <2>2. held.password \in 1 .. issued /\ TargetComplete' \in BOOLEAN
      BY <1>5 DEF Delivers, CInv, TypeOK, PasswordsMade, Secret
    <2>3. QED  BY <2>1, <2>2 DEF Contract!Deliver
  <1>6. CASE Loses
    <2>1. PICK o \in Secrets : /\ live'[o].password = 0 /\ ~HasCredentials(live'[o])
                              /\ \A p \in Secrets \ {o} : live'[p] = live[p]
      BY <1>6 DEF Loses
    <2>2. issued' = issued
      BY <1>6 DEF Loses
    <2>3. CASE o = Generated
      BY <1>1, <1>2, <2>1, <2>2, <2>3 DEF Contract!LoseSource, Secrets, HasCredentials
    <2>4. CASE o # Generated
      BY <1>1, <1>2, <2>1, <2>2, <2>4, GeneratedIsSecret
         DEF Contract!LoseTarget, Secrets, HasCredentials
    <2>5. QED  BY <2>3, <2>4
  <1>7. QED  BY <1>3, <1>4, <1>5, <1>6 DEF Step, ObjectStep

(* The database path implements the contract: for any engine and bounds,   *)
(* whatever the order of passes, caches, operators and other clients.      *)
THEOREM ImplementsContract == Spec => ContractImplemented
  <1>1. Init => Contract!Init
    <2>1. Init => live["source"].password = 0 /\ live["target"].password = 0
      BY SecretForms DEF Init
    <2>2. QED
      BY <2>1, SecretForms DEF Init, Contract!Init, SourcePassword, TargetPassword, TargetComplete, Generated,
         HasCredentials
  <1>2. CInv /\ [Next]_vars => [Contract!Next]_(Contract!vars)
    BY NextIsStep, StepIsContractStep
  <1>3. QED  BY <1>1, <1>2, Invariance, PTL DEF Spec, ContractImplemented, Contract!Spec

-----------------------------------------------------------------------------
(* What the contract's promises say of the database path.                  *)

Numbered == {issued, SourcePassword, TargetPassword} \subseteq Nat

LEMMA ContractKeepsMade ==
  ASSUME Numbered, Contract!NoInvention, [Contract!Next]_(Contract!vars)
  PROVE  Numbered' /\ Contract!NoInvention'
  BY DEF Numbered, Contract!NoInvention, Contract!Next, Contract!vars, Contract!Generate,
         Contract!Deliver, Contract!LoseSource, Contract!LoseTarget

(* No secret ever holds a password that nobody made (:629-918, :1006-1764).*)
THEOREM NothingInvented == Spec => []Contract!NoInvention
  <1>1. Contract!Init => Numbered /\ Contract!NoInvention
    BY DEF Contract!Init, Numbered, Contract!NoInvention
  <1>2. Contract!Spec => []Contract!NoInvention
    BY <1>1, ContractKeepsMade, PTL DEF Contract!Spec
  <1>3. QED  BY <1>2, ImplementsContract, PTL DEF ContractImplemented

(* Credentials are not exchanged under those who use them: a complete      *)
(* target, and a generated password, change only by way of their absence   *)
(* (:1093-1106, :1364-1386, :1531-1557, :1736-1764).                       *)
THEOREM CredentialsLeftAlone == Spec => Contract!LeftAlone
  <1>1. [Contract!Next]_(Contract!vars) =>
          [/\ SourcePassword # 0 /\ SourcePassword' # 0 => SourcePassword' = SourcePassword
           /\ TargetComplete /\ TargetComplete' => TargetPassword' = TargetPassword]_(Contract!vars)
    BY DEF Contract!Next, Contract!vars, Contract!Generate,
           Contract!Deliver, Contract!LoseSource, Contract!LoseTarget
  <1>2. Contract!Spec => Contract!LeftAlone
    BY <1>1, PTL DEF Contract!Spec, Contract!LeftAlone
  <1>3. QED  BY <1>2, ImplementsContract, PTL DEF ContractImplemented

-----------------------------------------------------------------------------
(* Every pass ends.                                                        *)

LEMMA CallsCounted ==
  ASSUME TypeOK
  PROVE  /\ MaxWaits \in Nat /\ MaxRetries \in Nat /\ attempt \in Nat /\ CallsLeft \in Nat
         /\ pc \in {"await", "ensureAwait"} => attempt < MaxWaits
         /\ pc = "cluster" => attempt < MaxRetries
         /\ pc # "idle" => 0 < CallsLeft
  <1>1. MaxWaits \in Nat /\ MaxRetries \in Nat /\ attempt \in Nat /\ attempt < Limit(pc)
    BY DatabaseAssumption DEF TypeOK
  <1>2. /\ pc \in {"await", "ensureAwait"} => attempt < MaxWaits
        /\ pc = "cluster" => attempt < MaxRetries
    BY <1>1 DEF Limit
  <1>3. CallsLeft \in Nat /\ (pc # "idle" => 0 < CallsLeft)
    BY <1>1, <1>2 DEF CallsLeft, TypeOK, Steps
  <1>4. QED  BY <1>1, <1>2, <1>3


LEMMA EndingIsLess ==
  ASSUME CInv, pc # "idle", pc' = "idle"
  PROVE  CallsLeft' \in 0 .. CallsLeft - 1
  <1>1. CallsLeft' = 0
    BY DEF CallsLeft
  <1>2. CallsLeft \in Nat /\ 0 < CallsLeft
    BY CallsCounted DEF CInv
  <1>3. QED  BY <1>1, <1>2

LEMMA AgainIsLess ==
  ASSUME CInv, Again, pc \in {"await", "ensureAwait", "cluster"}
  PROVE  CallsLeft' \in 0 .. CallsLeft - 1
  BY CallsCounted DEF CInv, CallsLeft, Again

(* The steps in the order in which a pass comes to them.                   *)
Forward ==
  \/ pc = "ensure" /\ pc' \in {"ensureAwait", "cluster", "status"}
  \/ pc = "ensureAwait" /\ pc' = "ensureWrite"
  \/ pc = "ensureWrite" /\ pc' \in {"cluster", "status"}
  \/ pc = "cluster" /\ pc' \in {"await", "status"}
  \/ pc = "await" /\ pc' = "write"
  \/ pc = "write" /\ pc' = "status"

LEMMA ForwardIsLess ==
  ASSUME CInv, Forward, attempt' = 0
  PROVE  CallsLeft' \in 0 .. CallsLeft - 1
  BY CallsCounted DEF CInv, CallsLeft, Forward

LEMMA CallsGetFewer ==
  ASSUME CInv, pc # "idle", Worker
  PROVE  CallsLeft' \in 0 .. CallsLeft - 1
  <1>1. CASE EnsureSecret
    <2>1. \/ Goto(AfterGenerating) \/ Goto(AfterEnsure)
          \/ Fail \/ EndPass("panic")
      BY <1>1 DEF EnsureSecret, CreateOr, UpdateOr
    <2>2. /\ AfterGenerating \in {"ensureAwait", "cluster", "status"}
          /\ AfterEnsure \in {"cluster", "status"}
      BY DEF AfterGenerating, AfterEnsure
    <2>3. QED
      BY <1>1, <2>1, <2>2, EndingIsLess, ForwardIsLess
         DEF EnsureSecret, Forward, Goto, Fail, EndPass, Rest
  <1>2. CASE ReconcileCluster
    <2>1. Goto(AfterCluster) \/ Goto("status") \/ Fail \/ Again
      BY <1>2 DEF ReconcileCluster, CreateOr
    <2>2. AfterCluster \in {"await", "status"}
      BY DEF AfterCluster
    <2>3. QED
      BY <1>2, <2>1, <2>2, EndingIsLess, ForwardIsLess, AgainIsLess
         DEF ReconcileCluster, Forward, Goto, Fail, EndPass, Rest
  <1>3. CASE AwaitSource
    BY <1>3, EndingIsLess, ForwardIsLess, AgainIsLess
       DEF AwaitSource, Forward, Fail, EndPass, Rest
  <1>4. CASE WriteTarget
    <2>1. Goto(AfterCopy) \/ Fail
      BY <1>4 DEF WriteTarget, CreateOr, UpdateOr
    <2>2. AfterCopy \in {"cluster", "status"} /\ (pc = "write" => AfterCopy = "status")
      BY DEF AfterCopy, AfterEnsure
    <2>3. QED
      BY <1>4, <2>1, <2>2, EndingIsLess, ForwardIsLess
         DEF WriteTarget, Forward, Goto, Fail, EndPass, Rest
  <1>5. CASE UpdateStatus
    BY <1>5, EndingIsLess DEF UpdateStatus, Fail, EndPass, Rest
  <1>6. QED  BY <1>1, <1>2, <1>3, <1>4, <1>5 DEF Worker, Begin

LEMMA NothingAddsCalls ==
  ASSUME CInv, pc # "idle", Next, ~Worker
  PROVE  CallsLeft' <= CallsLeft
  <1>1. CASE CallFails \/ Crash
    <2>1. pc' = "idle"
      BY <1>1 DEF CallFails, Crash, Fail, EndPass, Rest
    <2>2. QED  BY <2>1, EndingIsLess, CallsCounted DEF CInv
  <1>2. CASE PostgresGetFails
    BY <1>2, CallsCounted DEF PostgresGetFails, Goto, CInv, CallsLeft
  <1>3. CASE UNCHANGED <<pc, attempt>>
    <2>1. CallsLeft' = CallsLeft
      BY <1>3 DEF CallsLeft
    <2>2. QED  BY <2>1, CallsCounted DEF CInv
  <1>4. QED
    BY <1>1, <1>2, <1>3 DEF Next, ExternalOperator, EditService, ReturnService, Edited,
                            CreateTarget, Sync, Touch, Lose, passVars

(* Whatever the caches show and the calls return, a pass makes at most     *)
(* CallsLeft more calls (:1014-1042, :1264-1292, :1431-1459, :1636-1664).  *)
THEOREM PassesAreBounded == Spec => PassesEnd
  <1>1. CInv /\ [Next]_vars =>
          [pc # "idle" => CallsLeft' <= CallsLeft /\ (Worker => CallsLeft' < CallsLeft)]_vars
    <2> SUFFICES ASSUME CInv, Next, pc # "idle"
                 PROVE  CallsLeft' <= CallsLeft /\ (Worker => CallsLeft' < CallsLeft)
      OBVIOUS
    <2>1. CASE Worker
      BY <2>1, CallsGetFewer, CallsCounted DEF CInv
    <2>2. CASE ~Worker
      BY <2>2, NothingAddsCalls
    <2>3. QED  BY <2>1, <2>2
  <1>2. QED  BY <1>1, Invariance, PTL DEF Spec, PassesEnd

=============================================================================
