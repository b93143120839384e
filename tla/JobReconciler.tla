--------------------------- MODULE JobReconciler ---------------------------
(***************************************************************************)
(* reconcileJob (internal/controller/service_controller.go): a Job whose   *)
(* containers differ from the rendered ones and which has not completed is *)
(* deleted and created anew.  The Job is read from a cache that lags and   *)
(* is not watched; Delete carries no precondition.                         *)
(***************************************************************************)
EXTENDS Naturals

CONSTANTS
  Defaulting,     \* whether the API server completes the containers: what may be
  MaxWaits,       \* reads of a Job that is to disappear (10)
  MaxEdits,       \* bound: edits that ask for something new
  MaxReturns,     \* bound: edits that go back to what was asked for before
  MaxFaults       \* bound: calls that fail, processes that die

ASSUME JobAssumption ==
  Defaulting \subseteq BOOLEAN /\ MaxWaits \in Nat \ {0} /\ {MaxEdits, MaxReturns, MaxFaults} \subseteq Nat

VARIABLES
  defaulted,      \* completed containers are never DeepEqual to the rendered ones
  spec,           \* the version of the resource's spec
  returned,       \* it is one the resource had before
  ready,          \* its status is Ready
  queued,         \* its key is in the work queue
  job,            \* the Job in the API server
  cached,         \* the client's copy
  fresh,          \* the copy is the newest version
  pc,             \* the call the running pass makes next
  wanted,         \* the version of the spec the pass works from
  edited,         \* the resource was edited since the pass began
  attempt,        \* reads made while waiting
  budget          \* what is left of the bounds

jobVars == <<job, cached, fresh>>
passVars == <<pc, wanted, edited, attempt>>
vars == <<defaulted, spec, returned, ready, queued, jobVars, passVars, budget>>

(* complete: a condition Complete or Failed is True.                       *)
Job == [exists : BOOLEAN, spec : Nat, complete : BOOLEAN]
NoJob == [exists |-> FALSE, spec |-> 0, complete |-> FALSE]
Desired == [exists |-> TRUE, spec |-> wanted, complete |-> FALSE]

(* The versions so far are 0 .. Newest.                                    *)
Newest == MaxEdits - budget.edits

TypeOK ==
  /\ defaulted \in Defaulting /\ spec \in 0 .. Newest
  /\ {returned, ready, queued, fresh, edited} \subseteq BOOLEAN
  /\ {job, cached} \subseteq Job
  /\ pc \in {"idle", "get", "wait", "create", "status"} /\ wanted \in 0 .. Newest
  /\ attempt \in 0 .. MaxWaits - 1
  /\ budget \in [edits : 0 .. MaxEdits, returns : Nat, faults : Nat]

Init ==
  /\ defaulted \in Defaulting /\ spec = 0 /\ returned = FALSE /\ ready = FALSE /\ queued = TRUE
  /\ job = NoJob /\ cached = NoJob /\ fresh = TRUE
  /\ pc = "idle" /\ wanted = 0 /\ edited = FALSE /\ attempt = 0
  /\ budget = [edits |-> MaxEdits, returns |-> MaxReturns, faults |-> MaxFaults]

Write(new) == job' = new /\ fresh' = FALSE /\ UNCHANGED cached

Goto(step) == pc' = step /\ attempt' = 0 /\ UNCHANGED <<queued, wanted, edited>>

Rest == pc' = "idle" /\ wanted' = 0 /\ edited' = FALSE /\ attempt' = 0

EndPassQuietly(again) == Rest /\ UNCHANGED queued   \* mistake: the error is logged, not returned

EndPass(again) == Rest /\ queued' = (queued \/ again)

-----------------------------------------------------------------------------
Begin ==
  /\ pc = "idle" /\ queued
  /\ queued' = FALSE /\ pc' = "get" /\ wanted' = spec
  /\ UNCHANGED <<defaulted, spec, returned, ready, jobVars, edited, attempt, budget>>

CreateJob ==
  \/ /\ ~job.exists
     /\ Write(Desired) /\ Goto("status")
  \/ /\ job.exists   \* AlreadyExists
     /\ EndPass(TRUE) /\ UNCHANGED jobVars

Replaceable == ~cached.complete /\ (defaulted \/ cached.spec # wanted)

GetJob ==
  /\ pc = "get"
  /\ \/ /\ ~cached.exists
        /\ CreateJob
     \/ /\ cached.exists /\ ~Replaceable
        /\ Goto("status") /\ UNCHANGED jobVars
     \/ /\ cached.exists /\ Replaceable
        /\ IF job.exists
             THEN Write(NoJob) /\ Goto("wait")
             ELSE EndPass(TRUE) /\ UNCHANGED jobVars   \* NotFound is an error
  /\ UNCHANGED <<defaulted, spec, returned, ready, budget>>

WaitsCountedFromOne == attempt < MaxWaits   \* mistake: retries <= 10

WaitsLeft == attempt + 1 < MaxWaits

(* The last read is followed by the creation whatever it returned.         *)
GiveUp == "status"   \* mistake: a Job that does not go is taken for settled

AfterWaits == "create"

StillWaiting ==
  IF WaitsLeft
    THEN attempt' = attempt + 1 /\ UNCHANGED <<pc, wanted, edited, queued>>
    ELSE Goto(AfterWaits)

AwaitDeletion ==
  /\ pc = "wait"
  /\ IF cached.exists THEN StillWaiting ELSE Goto("create")
  /\ UNCHANGED <<defaulted, spec, returned, ready, jobVars, budget>>

RecreateJob ==
  /\ pc = "create"
  /\ CreateJob
  /\ UNCHANGED <<defaulted, spec, returned, ready, budget>>

(* The write of the status is the event that starts the next pass; it is   *)
(* refused when the resource was edited meanwhile.                         *)
UpdateStatus ==
  /\ pc = "status"
  /\ \/ ready /\ EndPass(FALSE) /\ UNCHANGED ready
     \/ ~ready /\ ~edited /\ ready' = TRUE /\ EndPass(TRUE)
     \/ ~ready /\ edited /\ EndPass(TRUE) /\ UNCHANGED ready   \* Conflict
  /\ UNCHANGED <<defaulted, spec, returned, jobVars, budget>>

-----------------------------------------------------------------------------
Spend(b) == budget[b] > 0 /\ budget' = [budget EXCEPT ![b] = @ - 1]

(* The wait takes any error but NotFound for a Job that is still there.    *)
CallFails ==
  /\ pc # "idle" /\ Spend("faults")
  /\ IF pc = "wait" THEN StillWaiting ELSE EndPass(TRUE)
  /\ UNCHANGED <<defaulted, spec, returned, ready, jobVars>>

Crash ==
  /\ Spend("faults")
  /\ Rest /\ queued' = TRUE
  /\ cached' = job /\ fresh' = TRUE
  /\ UNCHANGED <<defaulted, spec, returned, ready, job>>

Edited == queued' = TRUE /\ edited' = (pc # "idle")

EditService ==
  /\ Spend("edits")
  /\ spec' = Newest + 1 /\ returned' = FALSE /\ Edited
  /\ UNCHANGED <<defaulted, ready, jobVars, pc, wanted, attempt>>

ReturnService ==
  /\ Spend("returns")
  /\ spec' \in 0 .. Newest \ {spec} /\ returned' = TRUE /\ Edited
  /\ UNCHANGED <<defaulted, ready, jobVars, pc, wanted, attempt>>

(* The Job's pods finish, or fail for good.                                *)
Complete ==
  /\ job.exists /\ ~job.complete
  /\ Write([job EXCEPT !.complete = TRUE])
  /\ UNCHANGED <<defaulted, spec, returned, ready, queued, passVars, budget>>

Sync ==
  /\ ~fresh
  /\ cached' = job /\ fresh' = TRUE
  /\ UNCHANGED <<defaulted, spec, returned, ready, queued, job, passVars, budget>>

Worker == Begin \/ GetJob \/ AwaitDeletion \/ RecreateJob \/ UpdateStatus

Next == Worker \/ CallFails \/ Crash \/ EditService \/ ReturnService \/ Complete \/ Sync

Spec == Init /\ [][Next]_vars

(* Nothing is assumed of the Job's pods: they may run for ever.            *)
FairSpec == Spec /\ WF_vars(Worker) /\ WF_vars(Sync)

-----------------------------------------------------------------------------
(* A stale copy of an earlier Job passes for the Job of a spec that the    *)
(* resource has returned to.                                               *)
Settled == returned \/ (job.exists /\ (job.complete \/ job.spec = spec))

(* At rest there is a Job, of the spec asked for unless it has completed:  *)
(* no stale read, refused call or crash between Delete and Create leaves   *)
(* the resource without one (:2139-2162), also not after a return, once    *)
(* something new is asked for.                                             *)
QuietMeansSettled == pc = "idle" /\ ~queued /\ fresh => Settled

(* That rest is reached, although each replacement is made from a stale    *)
(* copy and the wait for the deletion is bounded (:2147-2157).             *)
Settles == <>[]Settled

(* "If the job has a different spec and hasn't completed, delete and       *)
(* recreate it" (:2138): a Job that has completed is not deleted.          *)
CompletedKept == [][job.complete => job'.exists]_vars

=============================================================================
