-------------------------- MODULE JobReconcilerProofs --------------------------
(***************************************************************************)
(* Proofs about JobReconciler, for every bound: at rest the Job asked for  *)
(* is there.  What makes a decision from a stale copy safe is that only    *)
(* the controller writes Jobs, that it leaves a complete one alone, and    *)
(* that no two passes run at once.                                         *)
(***************************************************************************)
EXTENDS JobReconciler, TLAPS

(* Versions are made by edits alone, and the newest is asked for unless    *)
(* the resource has returned to an earlier one.                            *)
Versioned ==
  /\ job.spec <= Newest /\ cached.spec <= Newest
  /\ ~returned => spec = Newest

CompleteExists == (job.complete => job.exists) /\ (cached.complete => cached.exists)

(* What a copy, however old, says of the Job that is there.                *)
CompleteIsFinal == cached.complete => job = cached
NewestIsThere ==
  ~returned /\ ~defaulted /\ cached.exists /\ cached.spec = Newest =>
    job.exists /\ job.spec = Newest

(* The pass that makes the Job of the newest version is the first to ask   *)
(* for it.                                                                 *)
NewestIsWanted ==
  /\ ~returned /\ pc # "idle"
  /\ (job.exists /\ job.spec = Newest) \/ (cached.exists /\ cached.spec = Newest)
  => wanted = Newest

PassCurrent == ~returned /\ ~queued /\ pc # "idle" => wanted = spec

(* A pass comes to the status with a Job, and leaves it at that.           *)
PassSettles == ~queued /\ pc \in {"idle", "status"} => Settled

JInv ==
  /\ TypeOK /\ Versioned /\ CompleteExists
  /\ CompleteIsFinal /\ NewestIsThere /\ NewestIsWanted /\ PassCurrent /\ PassSettles

LEMMA JobForms ==
  /\ NoJob \in Job /\ ~NoJob.exists /\ ~NoJob.complete /\ NoJob.spec = 0
  /\ wanted \in Nat => /\ Desired \in Job /\ Desired.exists /\ ~Desired.complete
                       /\ Desired.spec = wanted
  BY DEF NoJob, Desired, Job

LEMMA Numbers ==
  ASSUME TypeOK
  PROVE  /\ Newest \in Nat /\ spec \in Nat /\ wanted \in Nat /\ wanted <= Newest /\ 0 < MaxWaits
         /\ job \in Job /\ cached \in Job /\ job.spec \in Nat /\ cached.spec \in Nat
  BY JobAssumption DEF TypeOK, Newest, Job

LEMMA InitIsGood == Init => JInv
  <1> SUFFICES ASSUME Init PROVE JInv
    OBVIOUS
  <1>1. Newest = 0
    BY JobAssumption DEF Init, Newest
  <1>2. TypeOK
    <2>1. budget \in [edits : 0 .. MaxEdits, returns : Nat, faults : Nat]
      BY JobAssumption DEF Init
    <2>2. {returned, ready, queued, fresh, edited} \subseteq BOOLEAN
      BY Zenon DEF Init
    <2>3. QED  BY <1>1, <2>1, <2>2, JobAssumption, JobForms DEF Init, TypeOK
  <1>3. Versioned /\ CompleteExists
    BY <1>1, JobForms DEF Init, Versioned, CompleteExists
  <1>4. QED
    BY <1>2, <1>3, JobForms
       DEF Init, JInv, CompleteIsFinal, NewestIsThere, NewestIsWanted, PassCurrent, PassSettles

-----------------------------------------------------------------------------
(* Steps that leave the Job and its copy alone.                            *)

LEMMA FailKeeps ==
  ASSUME JInv, EndPass(TRUE), UNCHANGED <<defaulted, spec, returned, ready, jobVars>>,
         budget' \in [edits : 0 .. MaxEdits, returns : Nat, faults : Nat],
         budget'.edits = budget.edits
  PROVE  JInv'
  <1>1. /\ pc' = "idle" /\ wanted' = 0 /\ edited' = FALSE /\ attempt' = 0 /\ queued' = TRUE
        /\ Newest' = Newest
        /\ UNCHANGED <<defaulted, spec, returned, ready, job, cached, fresh>>
    BY Zenon DEF EndPass, Rest, jobVars, Newest
  <1>2. TypeOK'
    <2>1. queued' \in BOOLEAN /\ edited' \in BOOLEAN
      BY <1>1
    <2>2. 0 \in 0 .. MaxWaits - 1 /\ 0 \in 0 .. Newest
      BY Numbers, JobAssumption DEF JInv
    <2>3. QED  BY <1>1, <2>1, <2>2 DEF JInv, TypeOK
  <1>3. Versioned' /\ CompleteExists' /\ CompleteIsFinal' /\ NewestIsThere'
    BY <1>1 DEF JInv, Versioned, CompleteExists, CompleteIsFinal, NewestIsThere
  <1>4. NewestIsWanted' /\ PassCurrent' /\ PassSettles'
    BY <1>1 DEF NewestIsWanted, PassCurrent, PassSettles
  <1>5. QED  BY <1>2, <1>3, <1>4 DEF JInv

LEMMA GotoKeeps ==
  ASSUME JInv, NEW step \in {"wait", "create", "status"}, pc # "idle", Goto(step),
         step = "status" /\ ~queued => Settled,
         UNCHANGED <<defaulted, spec, returned, ready, jobVars>>,
         budget' \in [edits : 0 .. MaxEdits, returns : Nat, faults : Nat],
         budget'.edits = budget.edits
  PROVE  JInv'
  <1>1. /\ pc' = step /\ attempt' = 0 /\ Newest' = Newest
        /\ UNCHANGED <<defaulted, spec, returned, ready, job, cached, fresh, queued, wanted, edited>>
    BY DEF Goto, jobVars, Newest
  <1>2. TypeOK'
    <2>1. 0 \in 0 .. MaxWaits - 1
      BY JobAssumption
    <2>2. QED  BY <1>1, <2>1 DEF JInv, TypeOK
  <1>3. Versioned' /\ CompleteExists' /\ CompleteIsFinal' /\ NewestIsThere'
    BY <1>1 DEF JInv, Versioned, CompleteExists, CompleteIsFinal, NewestIsThere
  <1>4. NewestIsWanted' /\ PassCurrent' /\ PassSettles'
    BY <1>1 DEF JInv, NewestIsWanted, PassCurrent, PassSettles, Settled
  <1>5. QED  BY <1>2, <1>3, <1>4 DEF JInv

-----------------------------------------------------------------------------
(* The two writes of the controller.                                       *)

LEMMA CreationKeeps ==
  ASSUME JInv, pc # "idle", ~job.exists, Write(Desired), Goto("status"),
         UNCHANGED <<defaulted, spec, returned, ready, budget>>
  PROVE  JInv'
  <1>1. /\ pc' = "status" /\ attempt' = 0 /\ Newest' = Newest /\ job' = Desired /\ fresh' = FALSE
        /\ UNCHANGED <<defaulted, spec, returned, ready, cached, queued, wanted, edited, budget>>
    BY DEF Goto, Write, Newest
  <1>2. Desired \in Job /\ Desired.exists /\ ~Desired.complete /\ Desired.spec = wanted
    BY Numbers, JobForms DEF JInv
  <1>3. TypeOK'
    <2>1. 0 \in 0 .. MaxWaits - 1
      BY JobAssumption
    <2>2. fresh' \in BOOLEAN
      BY <1>1
    <2>3. QED  BY <1>1, <1>2, <2>1, <2>2 DEF JInv, TypeOK
  <1>4. ~cached.complete
    BY DEF JInv, CompleteIsFinal, CompleteExists
  <1>5. Versioned' /\ CompleteExists' /\ CompleteIsFinal'
    BY <1>1, <1>2, <1>4, Numbers DEF JInv, Versioned, CompleteExists, CompleteIsFinal
  <1>6. NewestIsThere'
    BY <1>1 DEF JInv, NewestIsThere
  <1>7. NewestIsWanted' /\ PassCurrent' /\ PassSettles'
    BY <1>1, <1>2 DEF JInv, NewestIsWanted, PassCurrent, PassSettles, Settled, Versioned
  <1>8. QED  BY <1>3, <1>5, <1>6, <1>7 DEF JInv

LEMMA DeletionKeeps ==
  ASSUME JInv, pc # "idle", cached.exists, Replaceable, Write(NoJob), Goto("wait"),
         UNCHANGED <<defaulted, spec, returned, ready, budget>>
  PROVE  JInv'
  <1>1. /\ pc' = "wait" /\ attempt' = 0 /\ Newest' = Newest /\ job' = NoJob /\ fresh' = FALSE
        /\ UNCHANGED <<defaulted, spec, returned, ready, cached, queued, wanted, edited, budget>>
    BY DEF Goto, Write, Newest
  <1>2. TypeOK'
    <2>1. 0 \in 0 .. MaxWaits - 1
      BY JobAssumption
    <2>2. fresh' \in BOOLEAN
      BY <1>1
    <2>3. QED  BY <1>1, <2>1, <2>2, JobForms DEF JInv, TypeOK
  <1>3. ~cached.complete /\ (~defaulted => cached.spec # wanted)
    BY DEF Replaceable
  <1>4. Versioned' /\ CompleteExists' /\ CompleteIsFinal'
    BY <1>1, <1>3, JobForms, Numbers DEF JInv, Versioned, CompleteExists, CompleteIsFinal
  <1>5. NewestIsThere'
    BY <1>1, <1>3 DEF JInv, NewestIsThere, NewestIsWanted
  <1>6. NewestIsWanted' /\ PassCurrent' /\ PassSettles'
    BY <1>1, JobForms DEF JInv, NewestIsWanted, PassCurrent, PassSettles
  <1>7. QED  BY <1>2, <1>4, <1>5, <1>6 DEF JInv

(* A Job that the pass keeps because of a copy is there as the copy says.  *)
LEMMA KeptIsSettled ==
  ASSUME JInv, pc # "idle", cached.exists, ~Replaceable, ~queued
  PROVE  Settled
  <1>1. CASE cached.complete
    BY <1>1 DEF JInv, CompleteIsFinal, CompleteExists, Settled
  <1>2. CASE ~defaulted /\ cached.spec = wanted
    BY <1>2 DEF JInv, NewestIsThere, PassCurrent, Versioned, Settled
  <1>3. QED  BY <1>1, <1>2 DEF Replaceable

LEMMA CreateJobKeeps ==
  ASSUME JInv, pc # "idle", CreateJob, UNCHANGED <<defaulted, spec, returned, ready, budget>>
  PROVE  JInv'
  <1>1. CASE ~job.exists /\ Write(Desired) /\ Goto("status")
    BY <1>1, CreationKeeps
  <1>2. CASE EndPass(TRUE) /\ UNCHANGED jobVars
    BY <1>2, FailKeeps DEF JInv, TypeOK
  <1>3. QED  BY <1>1, <1>2 DEF CreateJob

LEMMA GetJobKeeps == ASSUME JInv, GetJob PROVE JInv'
  <1>1. pc # "idle" /\ UNCHANGED <<defaulted, spec, returned, ready, budget>>
    BY DEF GetJob
  <1>2. CASE CreateJob
    BY <1>1, <1>2, CreateJobKeeps
  <1>3. CASE cached.exists /\ ~Replaceable /\ Goto("status") /\ UNCHANGED jobVars
    BY <1>1, <1>3, KeptIsSettled, GotoKeeps DEF JInv, TypeOK
  <1>4. CASE cached.exists /\ Replaceable /\ Write(NoJob) /\ Goto("wait")
    BY <1>1, <1>4, DeletionKeeps
  <1>5. CASE EndPass(TRUE) /\ UNCHANGED jobVars
    BY <1>1, <1>5, FailKeeps DEF JInv, TypeOK
  <1>6. QED  BY <1>2, <1>3, <1>4, <1>5 DEF GetJob

LEMMA StillWaitingKeeps ==
  ASSUME JInv, pc = "wait", StillWaiting, UNCHANGED <<defaulted, spec, returned, ready, jobVars>>,
         budget' \in [edits : 0 .. MaxEdits, returns : Nat, faults : Nat],
         budget'.edits = budget.edits
  PROVE  JInv'
  <1>1. pc = "wait" /\ UNCHANGED <<defaulted, spec, returned, ready, jobVars>>
    OBVIOUS
  <1>2. CASE Goto("create")
    BY <1>1, <1>2, GotoKeeps
  <1>3. CASE WaitsLeft /\ attempt' = attempt + 1 /\ UNCHANGED <<pc, wanted, edited, queued>>
    <2>1. Newest' = Newest /\ UNCHANGED <<job, cached, fresh>>
      BY <1>1 DEF Newest, jobVars
    <2>2. attempt' \in 0 .. MaxWaits - 1
      BY <1>3, JobAssumption DEF JInv, TypeOK, WaitsLeft
    <2>3. TypeOK'
      BY <1>1, <1>3, <2>1, <2>2 DEF JInv, TypeOK
    <2>4. /\ Versioned' /\ CompleteExists' /\ CompleteIsFinal' /\ NewestIsThere'
          /\ NewestIsWanted' /\ PassCurrent' /\ PassSettles'
      BY <1>1, <1>3, <2>1
         DEF JInv, Versioned, CompleteExists, CompleteIsFinal, NewestIsThere, NewestIsWanted,
             PassCurrent, PassSettles
    <2>5. QED  BY <2>3, <2>4 DEF JInv
  <1>4. QED  BY <1>2, <1>3 DEF StillWaiting, AfterWaits

LEMMA AwaitDeletionKeeps == ASSUME JInv, AwaitDeletion PROVE JInv'
  <1>1. /\ pc = "wait" /\ UNCHANGED <<defaulted, spec, returned, ready, jobVars, budget>>
        /\ budget' \in [edits : 0 .. MaxEdits, returns : Nat, faults : Nat]
        /\ budget'.edits = budget.edits
    BY DEF AwaitDeletion, JInv, TypeOK
  <1>2. CASE StillWaiting
    BY <1>1, <1>2, StillWaitingKeeps
  <1>3. CASE Goto("create")
    BY <1>1, <1>3, GotoKeeps
  <1>4. QED  BY <1>2, <1>3 DEF AwaitDeletion

LEMMA UpdateStatusKeeps == ASSUME JInv, UpdateStatus PROVE JInv'
  <1>1. /\ pc = "status" /\ pc' = "idle" /\ wanted' = 0 /\ edited' = FALSE /\ attempt' = 0
        /\ Newest' = Newest /\ UNCHANGED <<defaulted, spec, returned, job, cached, fresh, budget>>
        /\ ready' \in {ready, TRUE}
        /\ queued' = (queued \/ FALSE) \/ queued' = (queued \/ TRUE)
    BY Zenon DEF UpdateStatus, EndPass, Rest, Newest, jobVars
  <1>2. TypeOK'
    <2>1. queued' \in BOOLEAN /\ ready' \in BOOLEAN /\ edited' \in BOOLEAN
      BY <1>1, Zenon DEF JInv, TypeOK
    <2>2. 0 \in 0 .. MaxWaits - 1 /\ 0 \in 0 .. Newest
      BY Numbers, JobAssumption DEF JInv
    <2>3. QED  BY <1>1, <2>1, <2>2 DEF JInv, TypeOK
  <1>3. Versioned' /\ CompleteExists' /\ CompleteIsFinal' /\ NewestIsThere'
    BY <1>1 DEF JInv, Versioned, CompleteExists, CompleteIsFinal, NewestIsThere
  <1>4. NewestIsWanted' /\ PassCurrent' /\ PassSettles'
    BY <1>1 DEF JInv, NewestIsWanted, PassCurrent, PassSettles, Settled
  <1>5. QED  BY <1>2, <1>3, <1>4 DEF JInv

LEMMA BeginKeeps == ASSUME JInv, Begin PROVE JInv'
  <1>1. /\ pc = "idle" /\ pc' = "get" /\ queued' = FALSE /\ wanted' = spec /\ Newest' = Newest
        /\ UNCHANGED <<defaulted, spec, returned, ready, job, cached, fresh, edited, attempt, budget>>
    BY DEF Begin, Newest, jobVars
  <1>2. TypeOK'
    <2>1. queued' \in BOOLEAN
      BY <1>1
    <2>2. QED  BY <1>1, <2>1 DEF JInv, TypeOK
  <1>3. Versioned' /\ CompleteExists' /\ CompleteIsFinal' /\ NewestIsThere'
    BY <1>1 DEF JInv, Versioned, CompleteExists, CompleteIsFinal, NewestIsThere
  <1>4. NewestIsWanted' /\ PassCurrent' /\ PassSettles'
    BY <1>1 DEF JInv, NewestIsWanted, PassCurrent, PassSettles, Versioned
  <1>5. QED  BY <1>2, <1>3, <1>4 DEF JInv

-----------------------------------------------------------------------------
(* Failures, edits, the Job's pods, the cache.                             *)

LEMMA SpendFacts ==
  ASSUME JInv, NEW b \in {"edits", "returns", "faults"}, Spend(b)
  PROVE  /\ budget' \in [edits : 0 .. MaxEdits, returns : Nat, faults : Nat]
         /\ b # "edits" => budget'.edits = budget.edits /\ Newest' = Newest
         /\ b = "edits" => Newest' = Newest + 1
  BY JobAssumption DEF JInv, TypeOK, Spend, Newest

LEMMA CallFailsKeeps == ASSUME JInv, CallFails PROVE JInv'
  BY SpendFacts, FailKeeps, StillWaitingKeeps DEF CallFails

LEMMA CrashKeeps == ASSUME JInv, Crash PROVE JInv'
  <1>1. /\ pc' = "idle" /\ wanted' = 0 /\ edited' = FALSE /\ attempt' = 0 /\ queued' = TRUE
        /\ cached' = job /\ fresh' = TRUE /\ Newest' = Newest
        /\ budget' \in [edits : 0 .. MaxEdits, returns : Nat, faults : Nat]
        /\ UNCHANGED <<defaulted, spec, returned, ready, job>>
    BY SpendFacts DEF Crash, Rest
  <1>2. TypeOK'
    <2>1. queued' \in BOOLEAN /\ fresh' \in BOOLEAN /\ edited' \in BOOLEAN
      BY <1>1
    <2>2. 0 \in 0 .. MaxWaits - 1 /\ 0 \in 0 .. Newest
      BY Numbers, JobAssumption DEF JInv
    <2>3. QED  BY <1>1, <2>1, <2>2 DEF JInv, TypeOK
  <1>3. QED
    BY <1>1, <1>2
       DEF JInv, Versioned, CompleteExists, CompleteIsFinal, NewestIsThere, NewestIsWanted,
           PassCurrent, PassSettles

LEMMA EditServiceKeeps == ASSUME JInv, EditService PROVE JInv'
  <1>1. /\ spec' = Newest + 1 /\ Newest' = Newest + 1 /\ returned' = FALSE /\ queued' = TRUE
        /\ budget' \in [edits : 0 .. MaxEdits, returns : Nat, faults : Nat]
        /\ edited' = (pc # "idle")
        /\ UNCHANGED <<defaulted, ready, job, cached, fresh, pc, wanted, attempt>>
    BY SpendFacts DEF EditService, Edited, jobVars
  <1>2. TypeOK'
    <2>1. queued' \in BOOLEAN /\ returned' \in BOOLEAN /\ edited' \in BOOLEAN
      BY <1>1
    <2>2. spec' \in 0 .. Newest' /\ wanted' \in 0 .. Newest'
      BY <1>1, Numbers DEF JInv, TypeOK
    <2>3. QED  BY <1>1, <2>1, <2>2 DEF JInv, TypeOK
  <1>3. job.spec < Newest' /\ cached.spec < Newest'
    BY <1>1, Numbers DEF JInv, Versioned
  <1>4. Versioned' /\ CompleteExists' /\ CompleteIsFinal' /\ NewestIsThere' /\ NewestIsWanted'
    BY <1>1, <1>3, Numbers
       DEF JInv, Versioned, CompleteExists, CompleteIsFinal, NewestIsThere, NewestIsWanted
  <1>5. PassCurrent' /\ PassSettles'
    BY <1>1 DEF PassCurrent, PassSettles
  <1>6. QED  BY <1>2, <1>4, <1>5 DEF JInv

LEMMA ReturnServiceKeeps == ASSUME JInv, ReturnService PROVE JInv'
  <1>1. /\ spec' \in 0 .. Newest /\ Newest' = Newest /\ returned' = TRUE /\ queued' = TRUE
        /\ budget' \in [edits : 0 .. MaxEdits, returns : Nat, faults : Nat]
        /\ edited' = (pc # "idle")
        /\ UNCHANGED <<defaulted, ready, job, cached, fresh, pc, wanted, attempt>>
    BY SpendFacts DEF ReturnService, Edited, jobVars
  <1>2. TypeOK'
    <2>1. queued' \in BOOLEAN /\ returned' \in BOOLEAN /\ edited' \in BOOLEAN
      BY <1>1
    <2>2. QED  BY <1>1, <2>1 DEF JInv, TypeOK
  <1>3. QED
    BY <1>1, <1>2
       DEF JInv, Versioned, CompleteExists, CompleteIsFinal, NewestIsThere, NewestIsWanted,
           PassCurrent, PassSettles

LEMMA CompleteKeeps == ASSUME JInv, Complete PROVE JInv'
  <1>1. /\ job' = [job EXCEPT !.complete = TRUE] /\ fresh' = FALSE /\ Newest' = Newest
        /\ UNCHANGED <<defaulted, spec, returned, ready, cached, queued, pc, wanted, edited, attempt, budget>>
    BY DEF Complete, Write, passVars, Newest
  <1>2. /\ job' \in Job /\ job'.complete /\ job.exists /\ job'.exists /\ job'.spec = job.spec
        /\ ~job.complete
    BY <1>1, Numbers DEF JInv, Job, Complete
  <1>3. TypeOK'
    <2>1. fresh' \in BOOLEAN
      BY <1>1
    <2>2. QED  BY <1>1, <1>2, <2>1 DEF JInv, TypeOK
  <1>4. Versioned' /\ CompleteExists' /\ NewestIsThere' /\ NewestIsWanted' /\ PassCurrent'
    BY <1>1, <1>2
       DEF JInv, Versioned, CompleteExists, NewestIsThere, NewestIsWanted, PassCurrent
  <1>5. CompleteIsFinal' /\ PassSettles'
    BY <1>1, <1>2 DEF JInv, CompleteIsFinal, PassSettles, Settled
  <1>6. QED  BY <1>3, <1>4, <1>5 DEF JInv

LEMMA SyncKeeps == ASSUME JInv, Sync PROVE JInv'
  <1>1. /\ cached' = job /\ fresh' = TRUE /\ Newest' = Newest
        /\ UNCHANGED <<defaulted, spec, returned, ready, job, queued, pc, wanted, edited, attempt, budget>>
    BY DEF Sync, passVars, Newest
  <1>2. TypeOK'
    <2>1. fresh' \in BOOLEAN
      BY <1>1
    <2>2. QED  BY <1>1, <2>1 DEF JInv, TypeOK
  <1>3. QED
    BY <1>1, <1>2
       DEF JInv, Versioned, CompleteExists, CompleteIsFinal, NewestIsThere, NewestIsWanted,
           PassCurrent, PassSettles, Settled

LEMMA StutterKeeps == ASSUME JInv, UNCHANGED vars PROVE JInv'
  BY DEF JInv, TypeOK, Newest, Versioned, CompleteExists, CompleteIsFinal, NewestIsThere,
         NewestIsWanted, PassCurrent, PassSettles, Settled, vars, jobVars, passVars

LEMMA NextKeeps == JInv /\ [Next]_vars => JInv'
  <1> SUFFICES ASSUME JInv, [Next]_vars PROVE JInv'
    OBVIOUS
  <1>1. CASE RecreateJob
    BY <1>1, CreateJobKeeps DEF RecreateJob
  <1>2. QED
    BY <1>1, BeginKeeps, GetJobKeeps, AwaitDeletionKeeps, UpdateStatusKeeps, CallFailsKeeps,
       CrashKeeps, EditServiceKeeps, ReturnServiceKeeps, CompleteKeeps, SyncKeeps, StutterKeeps
       DEF Next, Worker

(* What a stale copy may still say of the Job holds in every reachable     *)
(* state.                                                                  *)
THEOREM Invariance == Spec => []JInv
  BY InitIsGood, NextKeeps, PTL DEF Spec

(* The waits stay within their bound and every variable keeps its type.    *)
THEOREM TypeCorrect == Spec => []TypeOK
  <1>1. JInv => TypeOK
    BY DEF JInv
  <1>2. QED  BY <1>1, Invariance, PTL

(* At rest the Job asked for is there, however stale the copies were that  *)
(* the passes decided from.                                                *)
THEOREM RestMeansSettled == Spec => []QuietMeansSettled
  <1>1. JInv => QuietMeansSettled
    BY DEF JInv, PassSettles, QuietMeansSettled
  <1>2. QED  BY <1>1, Invariance, PTL

-----------------------------------------------------------------------------
(* What is lost, and why.  Delete carries no precondition (:2139-2144): it *)
(* is decided from the copy and takes whatever Job is there.               *)
FreshIsCurrent == fresh => cached = job

CurrentOrComplete == FreshIsCurrent /\ CompleteExists

(* A Job that has completed is deleted by no call but one that was decided *)
(* from a copy which had yet to show the completion (:2106, :2138-2144):   *)
(* neither a crash nor a refused call nor an edit costs a finished Job.    *)
LostToAStaleCopy == [][job.complete /\ ~job'.exists => ~fresh /\ ~cached.complete]_vars

LEMMA FreshStaysCurrent == FreshIsCurrent /\ [Next]_vars => FreshIsCurrent'
  <1> SUFFICES ASSUME FreshIsCurrent, [Next]_vars PROVE FreshIsCurrent'
    OBVIOUS
  <1>1. ASSUME NEW new, Write(new) PROVE FreshIsCurrent'
    BY <1>1 DEF FreshIsCurrent, Write
  <1>2. ASSUME UNCHANGED jobVars PROVE FreshIsCurrent'
    BY <1>2 DEF FreshIsCurrent, jobVars
  <1>3. ASSUME CreateJob PROVE FreshIsCurrent'
    BY <1>1, <1>2, <1>3 DEF CreateJob
  <1>4. CASE Begin \/ AwaitDeletion \/ UpdateStatus \/ CallFails \/ EditService
             \/ ReturnService \/ UNCHANGED vars
    BY <1>2, <1>4 DEF Begin, AwaitDeletion, UpdateStatus, CallFails, EditService,
                      ReturnService, vars
  <1>5. CASE GetJob
    BY <1>1, <1>2, <1>3, <1>5 DEF GetJob
  <1>6. CASE RecreateJob
    BY <1>3, <1>6 DEF RecreateJob
  <1>7. CASE Complete
    BY <1>1, <1>7 DEF Complete
  <1>8. CASE Crash \/ Sync
    BY <1>8 DEF FreshIsCurrent, Crash, Sync
  <1>9. QED  BY <1>4, <1>5, <1>6, <1>7, <1>8 DEF Next, Worker

LEMMA OnlyDeletionLoses ==
  ASSUME CurrentOrComplete, job.complete, ~job'.exists, [Next]_vars
  PROVE  GetJob /\ cached.exists /\ Replaceable
  <1>1. job.exists
    BY DEF CurrentOrComplete, CompleteExists
  <1>2. ~CreateJob
    BY <1>1 DEF CreateJob, jobVars
  <1>3. job' # job
    BY <1>1
  <1>4. GetJob
    <2>1. ~(Begin \/ AwaitDeletion \/ UpdateStatus \/ CallFails \/ EditService \/ ReturnService)
      BY <1>3 DEF Begin, AwaitDeletion, UpdateStatus, CallFails, EditService, ReturnService, jobVars
    <2>2. ~(RecreateJob \/ Complete \/ Crash \/ Sync \/ UNCHANGED vars)
      BY <1>2, <1>3 DEF RecreateJob, Complete, Crash, Sync, vars, jobVars
    <2>3. QED  BY <2>1, <2>2 DEF Next, Worker
  <1>5. QED  BY <1>2, <1>3, <1>4 DEF GetJob, jobVars

(* The finding about CompletedKept, with its cause: the stale copy is the  *)
(* only one there is.                                                      *)
THEOREM CompletedLostToAStaleCopy == Spec => LostToAStaleCopy
  <1>1. Init => FreshIsCurrent
    BY DEF Init, FreshIsCurrent
  <1>2. Spec => []FreshIsCurrent
    BY <1>1, FreshStaysCurrent, PTL DEF Spec
  <1>3. JInv /\ FreshIsCurrent => CurrentOrComplete
    BY DEF JInv, CurrentOrComplete
  <1>4. CurrentOrComplete /\ [Next]_vars
        => [job.complete /\ ~job'.exists => ~fresh /\ ~cached.complete]_vars
    <2> SUFFICES ASSUME CurrentOrComplete, [Next]_vars, job.complete, ~job'.exists
                 PROVE  ~fresh /\ ~cached.complete
      OBVIOUS
    <2>1. ~cached.complete
      BY OnlyDeletionLoses DEF Replaceable
    <2>2. QED  BY <2>1 DEF CurrentOrComplete, FreshIsCurrent
  <1>5. QED  BY <1>2, <1>3, <1>4, Invariance, PTL DEF Spec, LostToAStaleCopy

-----------------------------------------------------------------------------
(* The calls a pass can still make.                                        *)
CallsLeft ==
  CASE pc = "idle"   -> 0
    [] pc = "status" -> 1
    [] pc = "create" -> 2
    [] pc = "wait"   -> 2 + (MaxWaits - attempt)
    [] pc = "get"    -> 3 + MaxWaits

(* Each call leaves the pass fewer to make, whatever it returns: the wait  *)
(* for a Job to disappear (:2147-2157) holds the only worker no longer     *)
(* than its ten reads, also when the Job never goes.                       *)
PassesEnd ==
  [][pc # "idle" => CallsLeft' <= CallsLeft /\ (Worker => CallsLeft' < CallsLeft)]_vars

LEMMA CallsCounted ==
  ASSUME TypeOK
  PROVE  /\ MaxWaits \in Nat /\ attempt \in Nat /\ attempt < MaxWaits
         /\ CallsLeft \in Nat /\ (pc # "idle" => 0 < CallsLeft)
  <1>1. MaxWaits \in Nat /\ attempt \in Nat /\ attempt < MaxWaits
    BY JobAssumption DEF TypeOK
  <1>2. QED  BY <1>1 DEF TypeOK, CallsLeft

LEMMA EndIsLess ==
  ASSUME TypeOK, pc # "idle", pc' = "idle"
  PROVE  CallsLeft' \in 0 .. CallsLeft - 1
  <1>1. CallsLeft' = 0
    BY DEF CallsLeft
  <1>2. QED  BY <1>1, CallsCounted

LEMMA GotoIsLess ==
  ASSUME TypeOK, NEW step \in {"wait", "create", "status"}, Goto(step),
         \/ pc = "get"
         \/ pc = "wait" /\ step # "wait"
         \/ pc = "create" /\ step = "status"
  PROVE  CallsLeft' \in 0 .. CallsLeft - 1
  <1>1. pc' = step /\ attempt' = 0
    BY DEF Goto
  <1>2. QED  BY <1>1, CallsCounted DEF CallsLeft

LEMMA WaitIsLess ==
  ASSUME TypeOK, pc = "wait", StillWaiting
  PROVE  CallsLeft' \in 0 .. CallsLeft - 1
  <1>1. CASE WaitsLeft
    <2>1. pc = "wait" /\ pc' = "wait" /\ attempt' = attempt + 1 /\ attempt + 1 < MaxWaits
      BY <1>1 DEF StillWaiting, WaitsLeft
    <2>2. QED  BY <2>1, CallsCounted DEF CallsLeft
  <1>2. CASE ~WaitsLeft
    BY <1>2, GotoIsLess DEF StillWaiting, AfterWaits
  <1>3. QED  BY <1>1, <1>2

LEMMA CreationIsLess ==
  ASSUME TypeOK, CreateJob, pc \in {"get", "create"}
  PROVE  CallsLeft' \in 0 .. CallsLeft - 1
  BY GotoIsLess, EndIsLess DEF CreateJob, EndPass, Rest

LEMMA CallIsLess ==
  ASSUME TypeOK, Worker, pc # "idle"
  PROVE  CallsLeft' \in 0 .. CallsLeft - 1
  <1>1. CASE GetJob
    BY <1>1, CreationIsLess, GotoIsLess, EndIsLess DEF GetJob, EndPass, Rest
  <1>2. CASE AwaitDeletion
    BY <1>2, WaitIsLess, GotoIsLess DEF AwaitDeletion
  <1>3. CASE RecreateJob
    BY <1>3, CreationIsLess DEF RecreateJob
  <1>4. CASE UpdateStatus
    BY <1>4, EndIsLess DEF UpdateStatus, EndPass, Rest
  <1>5. QED  BY <1>1, <1>2, <1>3, <1>4 DEF Worker, Begin

LEMMA NothingAdds ==
  ASSUME TypeOK, [Next]_vars, ~Worker, pc # "idle"
  PROVE  CallsLeft' <= CallsLeft
  <1>1. CASE pc' = "idle"
    BY <1>1, EndIsLess, CallsCounted
  <1>2. CASE UNCHANGED <<pc, wanted, attempt>>
    <2>1. CallsLeft' = CallsLeft
      BY <1>2 DEF CallsLeft
    <2>2. QED  BY <2>1, CallsCounted
  <1>3. CASE CallFails
    <2>1. CASE pc = "wait"
      BY <1>3, <2>1, WaitIsLess, CallsCounted DEF CallFails
    <2>2. CASE pc # "wait"
      BY <1>1, <1>3, <2>2 DEF CallFails, EndPass, Rest
    <2>3. QED  BY <2>1, <2>2
  <1>4. QED
    BY <1>1, <1>2, <1>3 DEF Next, Rest, Crash, EditService, ReturnService, Complete, Sync, passVars, vars

(* A pass over a Job makes at most MaxWaits + 3 calls.                     *)
THEOREM PassesAreBounded == Spec => PassesEnd
  <1>1. TypeOK /\ [Next]_vars =>
          [pc # "idle" => CallsLeft' <= CallsLeft /\ (Worker => CallsLeft' < CallsLeft)]_vars
    <2> SUFFICES ASSUME TypeOK, [Next]_vars, pc # "idle"
                 PROVE  CallsLeft' <= CallsLeft /\ (Worker => CallsLeft' < CallsLeft)
      OBVIOUS
    <2>1. CASE Worker
      BY <2>1, CallIsLess, CallsCounted
    <2>2. CASE ~Worker
      BY <2>2, NothingAdds
    <2>3. QED  BY <2>1, <2>2
  <1>2. QED  BY <1>1, TypeCorrect, PTL DEF Spec, PassesEnd

=============================================================================
