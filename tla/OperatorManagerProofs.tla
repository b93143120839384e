------------------------ MODULE OperatorManagerProofs ------------------------
(***************************************************************************)
(* Proofs about OperatorManager, for any resources and bounds: at rest     *)
(* every resource has its cluster, none is Ready before it, and no pass    *)
(* waits for an installation.                                              *)
(***************************************************************************)
EXTENDS OperatorManager, TLAPS

TypeInv ==
  /\ {repo, release, crd} \subseteq [Engines -> BOOLEAN]
  /\ cluster \in [Services -> BOOLEAN] /\ ready \in [Services -> BOOLEAN]
  /\ queue \subseteq Services /\ pass \in Services /\ pc \in Steps

(* A resource that is not done is in the queue, or the worker is at it.    *)
Done(s) == cluster[s] /\ ready[s]
UnderWay(s) == s \in queue \/ (pc # "idle" /\ pass = s)
Attended == \A s \in Services : Done(s) \/ UnderWay(s)

(* The status is written last.                                             *)
StatusLast == pc = "status" => cluster[pass]

OInv == TypeInv /\ Attended /\ StatusLast /\ ReadyMeansClustered

-----------------------------------------------------------------------------
(* How the pass goes on.                                                   *)

LEMMA GotoKeepsAttention ==
  ASSUME OInv, pc # "idle", NEW step \in Steps \ {"idle"}, Goto(step),
         UNCHANGED ready, \A s \in Services : cluster[s] => cluster'[s]
  PROVE  Attended' /\ queue' = queue /\ pass' = pass /\ pc' = step
  BY DEF OInv, Attended, Done, UnderWay, Goto, TypeInv

LEMMA FailKeeps ==
  ASSUME OInv, EndPass(TRUE), UNCHANGED <<installVars, serviceVars>>
  PROVE  OInv'
  <1>1. queue' = queue \union {pass} /\ pc' = "idle" /\ pass' = pass
    BY DEF EndPass
  <1>2. TypeInv'
    BY <1>1 DEF OInv, TypeInv, Steps, serviceVars, installVars
  <1>3. Attended'
    BY <1>1 DEF OInv, Attended, Done, UnderWay, serviceVars
  <1>4. StatusLast' /\ ReadyMeansClustered'
    BY <1>1 DEF OInv, StatusLast, ReadyMeansClustered, serviceVars
  <1>5. QED  BY <1>2, <1>3, <1>4 DEF OInv

LEMMA InitIsGood == Init => OInv
  BY OperatorAssumption
     DEF Init, OInv, TypeInv, Steps, Attended, Done, UnderWay, StatusLast, ReadyMeansClustered

-----------------------------------------------------------------------------
LEMMA BeginKeeps == ASSUME OInv, NEW s \in Services, Begin(s) PROVE OInv'
  <1>1. TypeInv'
    BY DEF OInv, TypeInv, Begin, Steps, installVars, serviceVars
  <1>2. Attended'
    BY DEF OInv, Attended, Done, UnderWay, Begin, serviceVars
  <1>3. StatusLast' /\ ReadyMeansClustered'
    BY DEF OInv, StatusLast, ReadyMeansClustered, Begin, serviceVars
  <1>4. QED  BY <1>1, <1>2, <1>3 DEF OInv

(* The three calls that make no cluster.                                   *)
LEMMA InstallationKeeps ==
  ASSUME OInv, IsOperatorInstalled \/ CreateHelmRepository \/ CreateHelmRelease
  PROVE  OInv'
  <1>1. EngineOf[pass] \in Engines
    BY OperatorAssumption DEF OInv, TypeInv
  <1>2. PICK step \in {"cluster", "repository", "release"} : Goto(step)
    BY DEF IsOperatorInstalled, CreateHelmRepository, CreateHelmRelease, AlreadyExistsIgnored
  <1>3. UNCHANGED serviceVars /\ pc # "idle"
    BY DEF IsOperatorInstalled, CreateHelmRepository, CreateHelmRelease
  <1>4. Attended' /\ queue' = queue /\ pass' = pass /\ pc' = step
    BY <1>2, <1>3, GotoKeepsAttention DEF Steps, serviceVars
  <1>5. {repo', release', crd'} \subseteq [Engines -> BOOLEAN]
    BY <1>1 DEF OInv, TypeInv, IsOperatorInstalled, CreateHelmRepository, CreateHelmRelease,
              installVars, Engine
  <1>6. TypeInv'
    BY <1>3, <1>4, <1>5 DEF OInv, TypeInv, Steps, serviceVars
  <1>7. StatusLast' /\ ReadyMeansClustered'
    BY <1>2, <1>3, <1>4 DEF OInv, StatusLast, ReadyMeansClustered, serviceVars
  <1>8. QED  BY <1>4, <1>6, <1>7 DEF OInv

LEMMA CreateClusterKeeps == ASSUME OInv, CreateCluster PROVE OInv'
  <1>1. CASE ~crd[Engine]
    BY <1>1, FailKeeps DEF CreateCluster, NoSuchKind, serviceVars
  <1>2. CASE crd[Engine]
    <2>1. /\ cluster' = [cluster EXCEPT ![pass] = TRUE] /\ Goto("status")
          /\ UNCHANGED <<installVars, ready>>
      BY <1>2 DEF CreateCluster
    <2>2. /\ cluster' \in [Services -> BOOLEAN] /\ cluster'[pass]
          /\ \A s \in Services : cluster[s] => cluster'[s]
      BY <2>1 DEF OInv, TypeInv
    <2>3. Attended' /\ queue' = queue /\ pass' = pass /\ pc' = "status"
      BY <2>1, <2>2, GotoKeepsAttention DEF CreateCluster, Steps
    <2>4. TypeInv'
      BY <2>1, <2>2, <2>3 DEF OInv, TypeInv, Steps, installVars
    <2>5. StatusLast' /\ ReadyMeansClustered'
      BY <2>1, <2>2, <2>3 DEF OInv, StatusLast, ReadyMeansClustered
    <2>6. QED  BY <2>3, <2>4, <2>5 DEF OInv
  <1>3. QED  BY <1>1, <1>2

LEMMA UpdateStatusKeeps == ASSUME OInv, UpdateStatus PROVE OInv'
  <1>1. /\ cluster[pass] /\ cluster' = cluster /\ pass' = pass /\ pc' = "idle"
        /\ ready' = [ready EXCEPT ![pass] = TRUE]
        /\ queue' = IF ~ready[pass] THEN queue \union {pass} ELSE queue
        /\ UNCHANGED installVars
    BY DEF OInv, StatusLast, UpdateStatus, EndPass
  <1>2. /\ ready' \in [Services -> BOOLEAN] /\ ready'[pass]
        /\ \A s \in Services \ {pass} : ready'[s] = ready[s]
    BY <1>1 DEF OInv, TypeInv
  <1>3. TypeInv'
    BY <1>1, <1>2 DEF OInv, TypeInv, Steps, installVars
  <1>4. Attended'
    BY <1>1, <1>2 DEF OInv, Attended, Done, UnderWay
  <1>5. StatusLast' /\ ReadyMeansClustered'
    BY <1>1, <1>2 DEF OInv, StatusLast, ReadyMeansClustered
  <1>6. QED  BY <1>3, <1>4, <1>5 DEF OInv

LEMMA CrashKeeps == ASSUME OInv, Crash PROVE OInv'
  BY DEF OInv, TypeInv, Steps, Attended, Done, UnderWay, StatusLast, ReadyMeansClustered, Crash,
         installVars, serviceVars

(* Flux and the others do not touch the resources, the queue or the pass.  *)
LEMMA OthersKeep ==
  ASSUME OInv, UNCHANGED <<serviceVars, queue, pass, pc>>,
         {repo', release', crd'} \subseteq [Engines -> BOOLEAN]
  PROVE  OInv'
  BY DEF OInv, TypeInv, Attended, Done, UnderWay, StatusLast, ReadyMeansClustered, serviceVars

LEMMA NextKeeps == OInv /\ [Next]_vars => OInv'
  <1> SUFFICES ASSUME OInv, [Next]_vars PROVE OInv'
    OBVIOUS
  <1>1. CASE Worker
    BY <1>1, InstallationKeeps, CreateClusterKeeps, UpdateStatusKeeps DEF Worker
  <1>2. CASE CallFails
    BY <1>2, FailKeeps DEF CallFails
  <1>3. CASE Crash
    BY <1>3, CrashKeeps
  <1>4. CASE \E s \in Services : Begin(s)
    BY <1>4, BeginKeeps
  <1>5. ASSUME NEW e \in Engines, InstallChart(e) \/ Lose(e) PROVE OInv'
    <2>1. {repo', release', crd'} \subseteq [Engines -> BOOLEAN]
      BY <1>5 DEF OInv, TypeInv, InstallChart, Lose
    <2>2. QED  BY <1>5, <2>1, OthersKeep DEF InstallChart, Lose
  <1>6. CASE UNCHANGED vars
    <2>1. {repo', release', crd'} \subseteq [Engines -> BOOLEAN]
      BY <1>6 DEF OInv, TypeInv, vars, installVars
    <2>2. QED  BY <1>6, <2>1, OthersKeep DEF vars
  <1>7. QED  BY <1>1, <1>2, <1>3, <1>4, <1>5, <1>6 DEF Next

THEOREM Invariance == Spec => []OInv
  BY InitIsGood, NextKeeps, PTL DEF Spec

(* A resource is never Ready before its cluster could be created.          *)
THEOREM ClusterBeforeReady == Spec => []ReadyMeansClustered
  <1>1. OInv => ReadyMeansClustered
    BY DEF OInv
  <1>2. QED  BY <1>1, Invariance, PTL

(* At rest every resource that asked for an operator has its cluster and   *)
(* is Ready, whatever failed, died or was deleted before.                  *)
THEOREM RestMeansClustered == Spec => []QuietMeansClustered
  <1>1. OInv => QuietMeansClustered
    BY DEF OInv, Attended, Done, UnderWay, QuietMeansClustered
  <1>2. QED  BY <1>1, Invariance, PTL

-----------------------------------------------------------------------------
(* No pass waits for an installation.                                      *)

(* The calls a pass may still make, at most.                               *)
CallsLeft ==
  CASE pc = "idle"       -> 0
    [] pc = "status"     -> 1
    [] pc = "cluster"    -> 2
    [] pc = "release"    -> 3
    [] pc = "repository" -> 4
    [] pc = "check"      -> 5

(* Each call leaves the pass fewer to make, whatever it returns: nothing   *)
(* between the discovery and the status (manager.go:36-51) waits for Flux. *)
PassesEnd ==
  [][pc # "idle" => CallsLeft' <= CallsLeft /\ (Worker => CallsLeft' < CallsLeft)]_vars

(* A pass makes at most five calls, however long Flux takes.               *)
THEOREM PassesAreBounded == Spec => PassesEnd
  <1>1. TypeInv /\ [Next]_vars
          => [pc # "idle" => CallsLeft' <= CallsLeft /\ (Worker => CallsLeft' < CallsLeft)]_vars
    <2> SUFFICES ASSUME TypeInv, Next, pc # "idle"
                 PROVE  CallsLeft' <= CallsLeft /\ (Worker => CallsLeft' < CallsLeft)
      OBVIOUS
    <2>1. pc \in Steps
      BY DEF TypeInv
    <2>2. CallsLeft \in 1 .. 5
      BY <2>1 DEF Steps, CallsLeft
    <2>3. ASSUME pc' = "idle" PROVE CallsLeft' = 0
      BY <2>3 DEF CallsLeft
    <2>4. ASSUME pc' = pc PROVE CallsLeft' = CallsLeft
      BY <2>4 DEF CallsLeft
    <2>5. ASSUME Worker PROVE CallsLeft' \in 0 .. CallsLeft - 1
      <3>1. CASE IsOperatorInstalled
        BY <3>1 DEF IsOperatorInstalled, Goto, CallsLeft
      <3>2. CASE CreateHelmRepository
        BY <3>2 DEF CreateHelmRepository, Goto, EndPass, CallsLeft
      <3>3. CASE CreateHelmRelease
        BY <3>3 DEF CreateHelmRelease, Goto, EndPass, CallsLeft
      <3>4. CASE CreateCluster
        BY <3>4 DEF CreateCluster, Goto, NoSuchKind, EndPass, CallsLeft
      <3>5. CASE UpdateStatus
        BY <3>5 DEF UpdateStatus, EndPass, CallsLeft
      <3>6. QED  BY <2>5, <3>1, <3>2, <3>3, <3>4, <3>5 DEF Worker
    <2>6. Worker \/ pc' = "idle" \/ pc' = pc
      BY DEF Next, CallFails, Crash, EndPass, Begin, InstallChart, Lose
    <2>7. CASE Worker
      BY <2>2, <2>5, <2>7
    <2>8. CASE ~Worker
      BY <2>2, <2>3, <2>4, <2>6, <2>8
    <2>9. QED  BY <2>7, <2>8
  <1>2. OInv => TypeInv
    BY DEF OInv
  <1>3. QED  BY <1>1, <1>2, Invariance, PTL DEF Spec, PassesEnd

=============================================================================
