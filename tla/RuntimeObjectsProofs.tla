------------------------- MODULE RuntimeObjectsProofs -------------------------
(***************************************************************************)
(* Proofs about RuntimeObjects, for every rendering, class and bound.  One *)
(* lemma says what a step may do to the objects and to their copies        *)
(* (ObjectStep); the two action properties follow from it, and the         *)
(* invariants from it and the control of the pass: RInv while nobody       *)
(* interferes, WInv at all times.                                          *)
(***************************************************************************)
EXTENDS RuntimeObjects, TLAPS

Copies == \A o \in Objects : fresh[o] => cached[o] = live[o]

(* What the pass has read is what there is, unless somebody has overtaken  *)
(* it.                                                                     *)
ReadIsLive == newest => pc = "write" /\ existing = live[Current]

(* A known object of another controller has ended the pass at the read.    *)
Unrefused ==
  pc = "write" /\ existing.exists /\ Class[Current] = "known" => existing.owner # "other"

Base == TypeOK /\ Copies /\ ReadIsLive /\ Unrefused /\ budget.touches <= MaxTouches

-----------------------------------------------------------------------------
(* Types.                                                                  *)

LEMMA Renderings ==
  /\ Versions \subseteq Nat \ {0} /\ 1 \in Versions
  /\ \A v \in Versions : 1 .. v \subseteq Versions
  /\ \A v \in Versions : Rendered[v] \in Seq(Objects)
  /\ \A v \in Versions : DOMAIN Rendered[v] \subseteq Nat \ {0}
  /\ \A v \in Versions : \A i \in DOMAIN Rendered[v] : Rendered[v][i] \in Objects
  <1>1. /\ Rendered \in Seq(Seq(Objects)) /\ Len(Rendered) \in Nat /\ Versions = 1 .. Len(Rendered)
        /\ Len(Rendered) # 0
    BY RenderingAssumption DEF Versions
  <1>2. \A v \in Versions : Rendered[v] \in Seq(Objects)
    BY <1>1
  <1>3. ASSUME NEW s \in Seq(Objects)
        PROVE  DOMAIN s \subseteq Nat \ {0} /\ \A i \in DOMAIN s : s[i] \in Objects
    BY <1>3
  <1>4. Versions \subseteq Nat \ {0} /\ 1 \in Versions /\ \A v \in Versions : 1 .. v \subseteq Versions
    BY <1>1
  <1>5. QED  BY <1>2, <1>3, <1>4

LEMMA ObjectForms ==
  /\ NoObject \in Object /\ ~NoObject.exists
  /\ wanted \in Versions =>
       /\ Desired \in Object /\ Desired.exists /\ Desired.content = wanted
       /\ Owned(Desired) \in Object /\ Owned(Desired).exists
       /\ Owned(Desired).content = wanted /\ Owned(Desired).owner = "service"
  BY DEF NoObject, Desired, Owned, Object

LEMMA CurrentObject ==
  ASSUME TypeOK, pc \in {"apply", "write"}
  PROVE  Current \in Objects /\ next \in DOMAIN Rendered[wanted] /\ wanted \in Versions
  BY Renderings DEF TypeOK, Current

LEMMA UpdatedFacts ==
  ASSUME TypeOK, NEW o \in Objects, NEW old \in Object, old.exists
  PROVE  /\ Updated(o, old) \in Object /\ Updated(o, old).exists
         /\ Updated(o, old).content = wanted /\ Updated(o, old).status = old.status
         /\ Updated(o, old).owner = IF Class[o] = "plain" THEN old.owner ELSE "service"
  <1>1. wanted \in Versions /\ Class[o] \in {"plain", "known", "untyped"}
    BY RenderingAssumption DEF TypeOK
  <1>2. CASE Class[o] = "plain"
    <2>1. Updated(o, old) = [old EXCEPT !.content = wanted]
      BY <1>2 DEF Updated
    <2>2. QED  BY <1>1, <1>2, <2>1 DEF Object
  <1>3. CASE Class[o] = "known"
    <2>1. Updated(o, old) = [[old EXCEPT !.content = wanted] EXCEPT !.owner = "service"]
      BY <1>3 DEF Updated, Owned
    <2>2. QED  BY <1>1, <1>3, <2>1 DEF Object
  <1>4. CASE Class[o] = "untyped"
    <2>1. Updated(o, old) = [[Desired EXCEPT !.status = old.status] EXCEPT !.owner = "service"]
      BY <1>4 DEF Updated, Owned
    <2>2. Desired \in Object /\ Desired.exists /\ Desired.content = wanted
      BY <1>1, ObjectForms
    <2>3. QED  BY <1>1, <1>4, <2>1, <2>2 DEF Object
  <1>5. QED  BY <1>1, <1>2, <1>3, <1>4

-----------------------------------------------------------------------------
(* What a step does to one object: its content stays, the pass applies it, *)
(* the collector takes it, or somebody else writes it.                     *)

Same(o) ==
  /\ live'[o].exists = live[o].exists /\ live'[o].content = live[o].content
  /\ live'[o].owner = live[o].owner
  /\ [live'[o] EXCEPT !.status = live[o].status] = live[o]
  /\ live[o].status => live'[o].status

Applied(o) ==
  /\ pc = "write" /\ o = Current
  /\ live'[o].exists /\ live'[o].content = wanted
  /\ live'[o].owner = "service" \/ (live[o].exists /\ live'[o].owner = live[o].owner)
  /\ live[o].exists => live'[o].status = live[o].status
  /\ live[o].exists /\ Class[o] = "known" => live[o].owner # "other"

Collected(o) == gone /\ live[o].owner = "service" /\ live'[o] = NoObject

Disturbed(o) ==
  /\ budget'.touches < budget.touches
  /\ live[o].exists /\ live'[o].exists => live'[o].status = live[o].status

Budget == [edits : Nat, touches : Nat, faults : Nat]

ObjectStep ==
  /\ live' \in [Objects -> Object] /\ cached' \in [Objects -> Object]
  /\ fresh' \in [Objects -> BOOLEAN] /\ missed' \in [Objects -> BOOLEAN]
  /\ Copies'
  /\ budget' \in Budget /\ budget'.touches <= budget.touches
  /\ \A o \in Objects : cached'[o] \in {cached[o], live[o], live'[o]}
  /\ \A o \in Objects : Same(o) \/ Applied(o) \/ Collected(o) \/ Disturbed(o)

LEMMA SameAlways ==
  ASSUME TypeOK, NEW o \in Objects, live'[o] = live[o]
  PROVE  Same(o)
  BY DEF TypeOK, Same, Object

LEMMA ObjectsUntouched ==
  ASSUME Base, UNCHANGED objectVars, budget' \in Budget, budget'.touches <= budget.touches
  PROVE  ObjectStep
  <1>1. \A o \in Objects : Same(o)
    BY SameAlways DEF Base, objectVars
  <1>2. Copies'
    BY DEF Base, Copies, objectVars
  <1>3. QED  BY <1>1, <1>2 DEF ObjectStep, Base, TypeOK, objectVars

LEMMA BudgetUntouched ==
  ASSUME Base, UNCHANGED budget
  PROVE  budget' \in Budget /\ budget'.touches <= budget.touches
  BY DEF Base, TypeOK, Budget

LEMMA SpendFacts ==
  ASSUME Base, NEW b \in {"edits", "touches", "faults"}, Spend(b)
  PROVE  /\ budget' \in Budget /\ budget'.touches <= budget.touches
         /\ b = "touches" => budget'.touches < budget.touches
  BY DEF Base, TypeOK, Spend, Budget

LEMMA Stored ==
  ASSUME Base, NEW o \in Objects, NEW new \in Object, Store(o, new)
  PROVE  /\ live' \in [Objects -> Object] /\ cached' \in [Objects -> Object]
         /\ fresh' \in [Objects -> BOOLEAN] /\ missed' \in [Objects -> BOOLEAN]
         /\ live'[o] = new /\ cached'[o] = IF Class[o] = "untyped" THEN new ELSE cached[o]
         /\ fresh'[o] = (fresh[o] /\ (new = live[o] \/ Class[o] = "untyped"))
         /\ missed'[o] = (missed[o] \/ (new # live[o] /\ new.owner = "service" /\ Class[o] # "untyped"))
         /\ \A p \in Objects \ {o} : /\ live'[p] = live[p] /\ cached'[p] = cached[p]
                                      /\ fresh'[p] = fresh[p] /\ missed'[p] = missed[p]
  BY DEF Store, Base, TypeOK

LEMMA Written ==
  ASSUME Base, NEW o \in Objects, NEW new \in Object, Store(o, new),
         budget' \in Budget, budget'.touches <= budget.touches,
         live'[o] = new => Same(o) \/ Applied(o) \/ Collected(o) \/ Disturbed(o)
  PROVE  ObjectStep
  <1>1. Copies'
    <2>1. ASSUME NEW p \in Objects, fresh'[p] PROVE cached'[p] = live'[p]
      <3>1. CASE p = o
        BY <2>1, <3>1, Stored DEF Base, Copies
      <3>2. CASE p # o
        BY <2>1, <3>2, Stored DEF Base, Copies
      <3>3. QED  BY <3>1, <3>2
    <2>2. QED  BY <2>1 DEF Copies
  <1>2. \A p \in Objects : Same(p) \/ Applied(p) \/ Collected(p) \/ Disturbed(p)
    BY Stored, SameAlways DEF Base
  <1>3. \A p \in Objects : cached'[p] \in {cached[p], live[p], live'[p]}
    BY Stored
  <1>4. QED  BY <1>1, <1>2, <1>3, Stored DEF ObjectStep

-----------------------------------------------------------------------------
LEMMA GetObjectStep == ASSUME Base, GetObject PROVE ObjectStep
  BY ObjectsUntouched, BudgetUntouched DEF GetObject

(* The pass writes only what nobody has written since it read.             *)
LEMMA WriteObjectStep == ASSUME Base, WriteObject PROVE ObjectStep
  <1> DEFINE o == Current
  <1>1. /\ pc = "write" /\ o \in Objects /\ wanted \in Versions
        /\ live[o] \in Object /\ existing \in Object
        /\ budget' \in Budget /\ budget'.touches <= budget.touches
    BY CurrentObject, BudgetUntouched DEF WriteObject, Base, TypeOK
  <1>2. CASE UNCHANGED objectVars
    BY <1>1, <1>2, ObjectsUntouched
  <1>3. CASE ~live[o].exists /\ Store(o, Owned(Desired))
    <2>1. live'[o] = Owned(Desired) => Applied(o)
      BY <1>1, <1>3, ObjectForms DEF Applied
    <2>2. QED  BY <1>1, <1>3, <2>1, ObjectForms, Written
  <1>4. CASE existing.exists /\ newest /\ Store(o, Updated(o, existing))
    <2>1. existing = live[o] /\ (Class[o] = "known" => live[o].owner # "other")
      BY <1>1, <1>4 DEF Base, ReadIsLive, Unrefused
    <2>2. /\ Updated(o, existing) \in Object /\ Updated(o, existing).exists
          /\ Updated(o, existing).content = wanted
          /\ Updated(o, existing).status = live[o].status
          /\ Updated(o, existing).owner = IF Class[o] = "plain" THEN live[o].owner ELSE "service"
      BY <1>1, <1>4, <2>1, UpdatedFacts DEF Base
    <2>3. live'[o] = Updated(o, existing) => Applied(o)
      BY <1>1, <1>4, <2>1, <2>2 DEF Applied
    <2>4. QED  BY <1>1, <1>4, <2>2, <2>3, Written
  <1>5. QED
    BY <1>2, <1>3, <1>4 DEF WriteObject, CreateObject, UpdateObject

LEMMA CrashStep == ASSUME Base, Crash PROVE ObjectStep
  <1>1. /\ cached' = live /\ live' = live
        /\ fresh' = [o \in Objects |-> TRUE] /\ missed' = [o \in Objects |-> FALSE]
    BY DEF Crash
  <1>2. \A o \in Objects : Same(o)
    BY <1>1, SameAlways DEF Base
  <1>3. budget' \in Budget /\ budget'.touches <= budget.touches
    BY SpendFacts DEF Crash
  <1>4. Copies'
    BY <1>1 DEF Copies
  <1>5. QED  BY <1>1, <1>2, <1>3, <1>4 DEF ObjectStep, Base, TypeOK

LEMMA SyncStep == ASSUME Base, NEW o \in Objects, Sync(o) PROVE ObjectStep
  <1>1. /\ cached' = [cached EXCEPT ![o] = live[o]] /\ live' = live
        /\ fresh' = [fresh EXCEPT ![o] = TRUE] /\ missed' = [missed EXCEPT ![o] = FALSE]
        /\ budget' = budget
    BY DEF Sync
  <1>2. \A p \in Objects : Same(p)
    BY <1>1, SameAlways DEF Base
  <1>3. cached' \in [Objects -> Object] /\ \A p \in Objects : cached'[p] \in {cached[p], live[p], live'[p]}
    BY <1>1 DEF Base, TypeOK
  <1>4. Copies'
    BY <1>1 DEF Copies, Base, TypeOK
  <1>5. QED  BY <1>1, <1>2, <1>3, <1>4, BudgetUntouched DEF ObjectStep, Base, TypeOK

LEMMA OthersStep ==
  ASSUME Base, NEW o \in Objects, CollectGarbage(o) \/ Report(o) \/ Intrude(o) \/ Touch(o)
  PROVE  ObjectStep
  <1>0. live[o] \in Object /\ spec \in Versions
    BY DEF Base, TypeOK
  <1>1. CASE CollectGarbage(o)
    <2>1. /\ Store(o, NoObject) /\ gone /\ live[o].owner = "service"
          /\ budget' \in Budget /\ budget'.touches <= budget.touches
      BY <1>1, BudgetUntouched DEF CollectGarbage, Write
    <2>2. QED  BY <2>1, ObjectForms, Written DEF Collected
  <1>2. CASE Report(o)
    <2>1. /\ Store(o, [live[o] EXCEPT !.status = TRUE])
          /\ budget' \in Budget /\ budget'.touches <= budget.touches
      BY <1>2, BudgetUntouched DEF Report, Write
    <2>2. [live[o] EXCEPT !.status = TRUE] \in Object
      BY <1>0 DEF Object
    <2>3. live'[o] = [live[o] EXCEPT !.status = TRUE] => Same(o)
      BY <1>0 DEF Object, Same
    <2>4. QED  BY <2>1, <2>2, <2>3, Written
  <1>3. CASE Intrude(o)
    <2>1. PICK c \in {Theirs, spec}, w \in {"none", "other"} :
            Store(o, [NoObject EXCEPT !.exists = TRUE, !.content = c, !.owner = w])
      BY <1>3 DEF Intrude, Write
    <2>2. [NoObject EXCEPT !.exists = TRUE, !.content = c, !.owner = w] \in Object
      BY <1>0 DEF Object, NoObject
    <2>3. /\ budget' \in Budget /\ budget'.touches <= budget.touches
          /\ budget'.touches < budget.touches /\ ~live[o].exists
      BY <1>3, SpendFacts DEF Intrude
    <2>4. QED  BY <2>1, <2>2, <2>3, Written DEF Disturbed
  <1>4. CASE Touch(o)
    <2>1. PICK new \in {NoObject, [live[o] EXCEPT !.marks = TRUE],
                        [live[o] EXCEPT !.content = Theirs]} : Store(o, new)
      BY <1>4 DEF Touch, Write
    <2>2. new \in Object /\ (new.exists => new.status = live[o].status)
      BY <1>0, <2>1, ObjectForms DEF Object
    <2>3. /\ budget' \in Budget /\ budget'.touches <= budget.touches
          /\ budget'.touches < budget.touches
      BY <1>4, SpendFacts DEF Touch
    <2>4. live'[o] = new => Disturbed(o)
      BY <2>2, <2>3 DEF Disturbed
    <2>5. QED  BY <2>1, <2>2, <2>3, <2>4, Written
  <1>5. QED  BY <1>1, <1>2, <1>3, <1>4

LEMMA NextIsObjectStep == ASSUME Base, [Next]_vars PROVE ObjectStep
  <1>1. CASE Begin \/ UpdateStatus \/ Release \/ UNCHANGED vars
    BY <1>1, ObjectsUntouched, BudgetUntouched DEF Begin, UpdateStatus, Release, vars
  <1>2. CASE CallFails \/ EditService
    BY <1>2, ObjectsUntouched, SpendFacts DEF CallFails, EditService
  <1>3. QED
    BY <1>1, <1>2, GetObjectStep, WriteObjectStep, CrashStep, SyncStep, OthersStep
       DEF Next, Worker

-----------------------------------------------------------------------------
(* The control of the pass keeps the types.                                *)

ControlStep ==
  /\ spec' \in Versions /\ past' \subseteq Versions
  /\ ready' \in BOOLEAN /\ gone' \in BOOLEAN
  /\ queued' \in BOOLEAN /\ edited' \in BOOLEAN /\ newest' \in BOOLEAN
  /\ pc' \in {"idle", "apply", "write", "status"} /\ wanted' \in Versions
  /\ next' \in IF pc' \in {"apply", "write"} THEN DOMAIN Rendered[wanted'] ELSE {0}
  /\ existing' \in Object

LEMMA ControlTypes ==
  ASSUME Base
  PROVE  /\ spec \in Versions /\ wanted \in Versions /\ past \subseteq Versions
         /\ ready \in BOOLEAN /\ gone \in BOOLEAN
         /\ queued \in BOOLEAN /\ edited \in BOOLEAN /\ newest \in BOOLEAN
         /\ existing \in Object
  BY DEF Base, TypeOK

LEMMA ForgetControl == ASSUME Forget PROVE existing' \in Object /\ newest' \in BOOLEAN
  <1>1. newest' \in BOOLEAN
    BY Zenon DEF Forget
  <1>2. QED  BY <1>1, ObjectForms DEF Forget

LEMMA RestControl ==
  ASSUME Base, Rest, queued' \in BOOLEAN, ready' \in BOOLEAN, UNCHANGED <<spec, past, gone>>
  PROVE  ControlStep
  <1>1. edited' \in BOOLEAN
    BY Zenon DEF Rest
  <1>2. QED  BY <1>1, ControlTypes, Renderings, ForgetControl DEF Rest, ControlStep

LEMMA ReachControl ==
  ASSUME Base, NEW version \in Versions, NEW i \in Nat, Reach(version, i), wanted' = version,
         queued' \in BOOLEAN, UNCHANGED <<serviceVars, edited>>,
         existing' \in Object, newest' \in BOOLEAN
  PROVE  ControlStep
  BY ControlTypes DEF Reach, ControlStep, serviceVars

LEMMA ContinueControl ==
  ASSUME Base, pc \in {"apply", "write"}, Continue, UNCHANGED serviceVars
  PROVE  ControlStep
  <1>1. next \in DOMAIN Rendered[wanted] /\ wanted \in Versions
    BY CurrentObject DEF Base
  <1>2. next + 1 \in Nat
    BY <1>1, Renderings
  <1>3. queued' \in BOOLEAN
    BY ControlTypes DEF Continue
  <1>4. QED  BY <1>1, <1>2, <1>3, ReachControl, ForgetControl DEF Continue

LEMMA EndPassControl ==
  ASSUME Base, NEW again \in BOOLEAN, EndPass(again), ready' \in BOOLEAN,
         UNCHANGED <<spec, past, gone>>
  PROVE  ControlStep
  <1>1. queued' \in BOOLEAN
    BY ControlTypes, Zenon DEF EndPass
  <1>2. QED  BY <1>1, RestControl DEF EndPass

LEMMA SamePassControl ==
  ASSUME Base, UNCHANGED <<serviceVars, pc, wanted, edited, next, existing>>,
         newest' \in BOOLEAN, queued' \in BOOLEAN
  PROVE  ControlStep
  BY DEF Base, TypeOK, ControlStep, serviceVars

LEMMA PrepareControl ==
  ASSUME Base, pc = "apply", NEW o \in Objects, o = Current, PrepareObject(o),
         UNCHANGED serviceVars
  PROVE  ControlStep
  <1>1. newest' \in BOOLEAN
    BY Zenon DEF PrepareObject
  <1>2. existing' \in Object
    BY DEF PrepareObject, Read, Base, TypeOK
  <1>3. next' \in DOMAIN Rendered[wanted'] /\ wanted' \in Versions
    BY CurrentObject DEF PrepareObject, Base
  <1>4. QED  BY <1>1, <1>2, <1>3, ControlTypes DEF PrepareObject, ControlStep, serviceVars

LEMMA NextIsControlStep == ASSUME Base, [Next]_vars PROVE ControlStep
  <1>0. TRUE \in BOOLEAN /\ FALSE \in BOOLEAN
    OBVIOUS
  <1>1. CASE Begin
    <2>1. queued' \in BOOLEAN /\ 1 \in Nat
      BY <1>1 DEF Begin
    <2>2. CASE gone
      BY <1>1, <2>1, <2>2, RestControl, ControlTypes DEF Begin, serviceVars
    <2>3. CASE ~gone
      BY <1>1, <2>1, <2>3, ReachControl, ControlTypes DEF Begin
    <2>4. QED  BY <2>2, <2>3
  <1>2. CASE GetObject \/ WriteObject
    <2>1. pc \in {"apply", "write"} /\ UNCHANGED serviceVars
      BY <1>2 DEF GetObject, WriteObject
    <2>2. CASE Continue
      BY <2>1, <2>2, ContinueControl
    <2>3. CASE Fail
      BY <1>0, <2>1, <2>3, EndPassControl, ControlTypes DEF Fail, serviceVars
    <2>4. CASE pc = "apply" /\ PrepareObject(Current)
      BY <2>1, <2>4, CurrentObject, PrepareControl DEF Base
    <2>5. QED
      BY <1>2, <2>2, <2>3, <2>4 DEF GetObject, LeaveObject, WriteObject, CreateObject, UpdateObject
  <1>3. CASE UpdateStatus
    <2>1. ready' \in BOOLEAN
      BY <1>3, ControlTypes, Zenon DEF UpdateStatus
    <2>2. EndPass(TRUE) \/ EndPass(FALSE)
      BY <1>3 DEF UpdateStatus, Fail
    <2>3. QED  BY <1>0, <1>3, <2>1, <2>2, EndPassControl DEF UpdateStatus
  <1>4. CASE CallFails
    BY <1>0, <1>4, EndPassControl, ControlTypes DEF CallFails, Fail, serviceVars
  <1>5. CASE Crash
    <2>1. queued' \in BOOLEAN
      BY <1>5, Zenon DEF Crash
    <2>2. QED  BY <1>5, <2>1, RestControl, ControlTypes DEF Crash, serviceVars
  <1>6. CASE EditService
    <2>1. queued' \in BOOLEAN /\ edited' \in BOOLEAN
      BY <1>6, Zenon DEF EditService
    <2>2. spec' \in Versions /\ past' \subseteq Versions
      BY <1>6, ControlTypes DEF EditService
    <2>3. QED  BY <1>6, <2>1, <2>2 DEF EditService, ControlStep, Base, TypeOK
  <1>7. CASE Release
    <2>1. gone' \in BOOLEAN /\ queued' \in BOOLEAN
      BY <1>7, Zenon DEF Release
    <2>2. QED  BY <1>7, <2>1 DEF Release, passVars, ControlStep, Base, TypeOK
  <1>8. ASSUME NEW o \in Objects, Sync(o) PROVE ControlStep
    <2>1. queued' \in BOOLEAN
      BY <1>8, ControlTypes, Zenon DEF Sync
    <2>2. QED  BY <1>8, <2>1, SamePassControl, ControlTypes DEF Sync, passVars
  <1>9. ASSUME NEW o \in Objects, CollectGarbage(o) \/ Report(o) \/ Intrude(o) \/ Touch(o)
        PROVE  ControlStep
    <2>1. PICK new : Write(o, new)
      BY <1>9 DEF CollectGarbage, Report, Intrude, Touch
    <2>2. newest' \in BOOLEAN
      BY <2>1, Zenon DEF Write
    <2>3. UNCHANGED <<serviceVars, queued>>
      BY <1>9 DEF CollectGarbage, Report, Intrude, Touch
    <2>4. QED  BY <2>1, <2>2, <2>3, SamePassControl, ControlTypes DEF Write
  <1>10. CASE UNCHANGED vars
    BY <1>10, SamePassControl, ControlTypes DEF vars, passVars
  <1>11. QED
    BY <1>1, <1>2, <1>3, <1>4, <1>5, <1>6, <1>7, <1>8, <1>9, <1>10 DEF Next, Worker

(* What the pass has read, and may write.                                  *)
ReadHolds == ReadIsLive /\ Unrefused

LEMMA ReadKept == ASSUME Base, [Next]_vars PROVE ReadHolds'
  <1>0. ReadHolds
    BY DEF Base, ReadHolds
  <1>1. CASE UNCHANGED <<passVars, live>>
    BY <1>0, <1>1 DEF ReadHolds, ReadIsLive, Unrefused, Current, passVars
  <1>2. CASE newest' = FALSE /\ pc' # "write"
    BY <1>2 DEF ReadHolds, ReadIsLive, Unrefused
  <1>3. CASE Rest \/ Continue \/ Begin
    <2>1. newest' = FALSE \/ newest' = newest
      BY <1>3, Zenon DEF Rest, Continue, Forget, Begin
    <2>2. pc' # "write" /\ (newest' = FALSE \/ pc = "idle")
      BY <1>3, <2>1 DEF Rest, Continue, Forget, Reach, Begin
    <2>3. newest' = FALSE
      BY <1>0, <2>1, <2>2, ControlTypes DEF ReadHolds, ReadIsLive
    <2>4. QED  BY <1>2, <2>2, <2>3
  <1>4. CASE GetObject /\ PrepareObject(Current)
    <2>1. /\ pc = "apply" /\ Current \in Objects /\ Current' = Current /\ live' = live
          /\ pc' = "write" /\ existing' = Read(Current)
          /\ newest' = (Class[Current] = "plain" => fresh[Current])
          /\ Read(Current).exists =>
               NeedsUpdate(Current, Read(Current)) /\ ~Refused(Current, Read(Current))
      BY <1>4, CurrentObject DEF GetObject, PrepareObject, objectVars, Base, Current
    <2>2. newest' => existing' = live[Current]
      BY <2>1 DEF Read, Base, Copies
    <2>3. ReadIsLive'
      BY <2>1, <2>2 DEF ReadIsLive
    <2>4. Unrefused'
      BY <2>1 DEF Unrefused, Refused
    <2>5. QED  BY <2>3, <2>4 DEF ReadHolds
  <1>5. CASE EditService
    BY <1>0, <1>5 DEF EditService, ReadHolds, ReadIsLive, Unrefused, Current, objectVars
  <1>6. ASSUME NEW o \in Objects, NEW new, Write(o, new) PROVE ReadHolds'
    <2>1. /\ newest' = (newest /\ (o = Current => new = live[o]))
          /\ pc' = pc /\ existing' = existing /\ Current' = Current
          /\ live' = [live EXCEPT ![o] = new]
      BY <1>6 DEF Write, Store, Current
    <2>2. ASSUME newest' PROVE pc = "write" /\ existing = live'[Current]
      <3>1. newest /\ (o = Current => new = live[o])
        BY <2>1, <2>2
      <3>2. pc = "write" /\ existing = live[Current]
        BY <1>0, <3>1 DEF ReadHolds, ReadIsLive
      <3>3. Current \in Objects
        BY <3>2, CurrentObject DEF Base
      <3>4. live'[Current] = live[Current]
        BY <2>1, <3>1, <3>3 DEF Base, TypeOK
      <3>5. QED  BY <3>2, <3>4
    <2>3. QED  BY <1>0, <2>1, <2>2 DEF ReadHolds, ReadIsLive, Unrefused
  <1>7. QED
    BY <1>1, <1>3, <1>4, <1>5, <1>6
       DEF Next, Worker, GetObject, LeaveObject, WriteObject, CreateObject, UpdateObject,
           UpdateStatus, CallFails, Fail, EndPass, Crash, Release, Sync, CollectGarbage,
           Report, Intrude, Touch, objectVars, vars

LEMMA BaseKept == Base /\ [Next]_vars => Base'
  <1> SUFFICES ASSUME Base, [Next]_vars PROVE Base'
    OBVIOUS
  <1>1. ObjectStep /\ ControlStep /\ ReadHolds'
    BY NextIsObjectStep, NextIsControlStep, ReadKept
  <1>2. TypeOK'
    BY <1>1 DEF ObjectStep, ControlStep, TypeOK, Budget
  <1>3. budget'.touches <= MaxTouches
    BY <1>1, RenderingAssumption DEF ObjectStep, Budget, Base, TypeOK
  <1>4. QED  BY <1>1, <1>2, <1>3 DEF Base, ObjectStep, ReadHolds

LEMMA InitIsTyped == Init => Base
  <1> SUFFICES ASSUME Init PROVE Base
    OBVIOUS
  <1>1. live \in [Objects -> Object] /\ cached \in [Objects -> Object] /\ existing \in Object
    BY ObjectForms DEF Init
  <1>2. /\ fresh \in [Objects -> BOOLEAN] /\ missed \in [Objects -> BOOLEAN]
        /\ budget \in Budget
    BY RenderingAssumption DEF Init, Budget
  <1>3. ready \in BOOLEAN /\ gone \in BOOLEAN /\ queued \in BOOLEAN /\ edited \in BOOLEAN
    BY Zenon DEF Init
  <1>4. newest \in BOOLEAN /\ ~newest
    BY Zenon DEF Init
  <1>5. TypeOK
    BY <1>1, <1>2, <1>3, <1>4, Renderings DEF Init, TypeOK, Budget
  <1>6. budget.touches <= MaxTouches
    BY RenderingAssumption DEF Init
  <1>7. QED  BY <1>4, <1>5, <1>6 DEF Base, Copies, Init, ReadIsLive, Unrefused

(* A copy that is up to date shows the object as it is, in every reachable *)
(* state.                                                                  *)
THEOREM BaseInvariance == Spec => []Base
  BY InitIsTyped, BaseKept, PTL DEF Spec

(* The pass never reaches past the end of its rendering and every variable *)
(* keeps its type.                                                         *)
THEOREM TypeCorrect == Spec => []TypeOK
  <1>1. Base => TypeOK
    BY DEF Base
  <1>2. QED  BY <1>1, BaseInvariance, PTL

(* No update loses what the object's operator has filled in.               *)
THEOREM StatusStays == Spec => StatusKept
  <1>1. ASSUME Base, [Next]_vars, NEW o \in Objects,
               live[o].exists, live[o].status, live'[o].exists
        PROVE  live'[o].status
    <2>1. Same(o) \/ Applied(o) \/ Collected(o) \/ Disturbed(o)
      BY <1>1, NextIsObjectStep DEF ObjectStep
    <2>2. QED  BY <1>1, <2>1, ObjectForms DEF Same, Applied, Collected, Disturbed
  <1>2. Base /\ [Next]_vars =>
          [\A o \in Objects :
             live[o].exists /\ live[o].status /\ live'[o].exists => live'[o].status]_vars
    BY <1>1
  <1>3. QED  BY <1>2, BaseInvariance, PTL DEF Spec, StatusKept

(* No pass writes into a watched object of another controller.             *)
THEOREM OthersStay == Spec => OthersKept
  <1>1. ASSUME Base, [Next]_vars, NEW o \in Objects,
               Class[o] = "known", live[o].exists, live[o].owner = "other",
               [live'[o] EXCEPT !.status = live[o].status] # live[o]
        PROVE  budget'.touches < budget.touches
    <2>1. Same(o) \/ Applied(o) \/ Collected(o) \/ Disturbed(o)
      BY <1>1, NextIsObjectStep DEF ObjectStep
    <2>2. QED  BY <1>1, <2>1 DEF Same, Applied, Collected, Disturbed
  <1>2. Base /\ [Next]_vars =>
          [\A o \in Objects :
             /\ Class[o] = "known" /\ live[o].exists /\ live[o].owner = "other"
             /\ [live'[o] EXCEPT !.status = live[o].status] # live[o]
             => budget'.touches < budget.touches]_vars
    BY <1>1
  <1>3. QED  BY <1>2, BaseInvariance, PTL DEF Spec, OthersKept

-----------------------------------------------------------------------------
(* The rendering, as long as nobody interferes.                            *)

Calm == Undisturbed /\ ~gone

Alive == (pc # "idle" => ~gone) /\ (pc = "idle" => ~edited)

Asked == past \union {spec}

(* Whatever there is the controller has made, of some version so far.      *)
OursOnly ==
  /\ pc # "idle" => wanted \in Asked
  /\ \A o \in Objects :
       /\ live[o].exists => live[o].owner = "service" /\ live[o].content \in Asked
       /\ cached[o].exists => live[o].exists /\ cached[o].content \in Asked

(* The objects of the spec in force, and those the copies show; those that *)
(* may be passed over count as placed.                                     *)
Here == {o \in Objects : live[o].exists /\ live[o].content = spec}
Seen == {o \in Objects : cached[o].exists /\ cached[o].content = spec}
Placed == {o \in Objects : MayBePassedOver(o) \/ (o \in Here /\ live[o].owner = "service")}

(* A version that is asked for the first time: a copy, however old, of     *)
(* such an object tells the truth, and only passes for that version make   *)
(* one.                                                                    *)
NewestIsThere == spec \notin past => Seen \subseteq Here
NewestIsWanted == spec \notin past /\ pc # "idle" /\ Here # {} => wanted = spec

(* A pass that nobody has edited the spec under works for the spec in      *)
(* force; after an edit another one follows.                               *)
PassCurrent == pc # "idle" => IF edited THEN queued ELSE wanted = spec

AllPlaced == InRendering(spec) \subseteq Placed

(* How far the pass for the spec in force has come.                        *)
Progress ==
  /\ pc \in {"apply", "write"} /\ ~edited =>
       \A i \in 1 .. next - 1 : Rendered[wanted][i] \in Placed
  /\ pc = "status" /\ ~edited => AllPlaced
  /\ pc = "idle" /\ ~queued => AllPlaced

CalmFacts == OursOnly /\ NewestIsThere /\ NewestIsWanted /\ PassCurrent /\ Progress

RInv == Base /\ Alive /\ (Calm => CalmFacts)

LEMMA AliveKept == ASSUME Alive, [Next]_vars PROVE Alive'
  <1>1. CASE Rest
    BY <1>1 DEF Alive, Rest
  <1>2. CASE EditService
    BY <1>2, Zenon DEF Alive, EditService
  <1>3. CASE UNCHANGED <<gone, pc, edited>>
    BY <1>3 DEF Alive
  <1>4. CASE Begin
    BY <1>4 DEF Alive, Begin, Rest, Reach, serviceVars
  <1>5. CASE GetObject \/ WriteObject
    <2>1. pc \in {"apply", "write"} /\ gone' = gone
      BY <1>5 DEF GetObject, WriteObject, serviceVars
    <2>2. Rest \/ (pc' # "idle" /\ edited' = edited)
      BY <1>5 DEF GetObject, LeaveObject, PrepareObject, WriteObject, CreateObject,
                  UpdateObject, Continue, Reach, Fail, EndPass
    <2>3. QED  BY <1>1, <2>1, <2>2 DEF Alive
  <1>6. CASE UpdateStatus \/ CallFails \/ Crash
    BY <1>1, <1>6 DEF UpdateStatus, CallFails, Fail, EndPass, Crash
  <1>7. CASE Release
    BY <1>7 DEF Alive, Release, passVars
  <1>8. ASSUME NEW o \in Objects,
               Sync(o) \/ CollectGarbage(o) \/ Report(o) \/ Intrude(o) \/ Touch(o)
        PROVE  Alive'
    BY <1>3, <1>8
       DEF Sync, CollectGarbage, Report, Intrude, Touch, Write, serviceVars, passVars
  <1>9. CASE UNCHANGED vars
    BY <1>3, <1>9 DEF serviceVars, passVars, vars
  <1>10. QED
    BY <1>2, <1>4, <1>5, <1>6, <1>7, <1>8, <1>9 DEF Next, Worker

LEMMA CalmWas ==
  ASSUME Base, [Next]_vars, Calm'
  PROVE  Calm /\ \A o \in Objects : Same(o) \/ Applied(o)
  <1>1. ObjectStep
    BY NextIsObjectStep
  <1>2. budget.touches = MaxTouches /\ budget'.touches = budget.touches
    BY <1>1, RenderingAssumption DEF Calm, Undisturbed, ObjectStep, Budget, Base, TypeOK
  <1>3. ~gone
    BY DEF Calm, Next, Worker, Begin, GetObject, WriteObject, UpdateStatus, CallFails, Crash,
           EditService, Release, Sync, CollectGarbage, Report, Intrude, Touch, serviceVars, vars
  <1>4. \A o \in Objects : ~Collected(o) /\ ~Disturbed(o)
    BY <1>2, <1>3, RenderingAssumption DEF Collected, Disturbed
  <1>5. QED  BY <1>1, <1>2, <1>3, <1>4 DEF Calm, Undisturbed, ObjectStep

(* Nothing but the pass's version comes; what is placed stays placed,      *)
(* unless the pass works for another version.                              *)
LEMMA ObjectsFollow ==
  ASSUME RInv, [Next]_vars, Calm', UNCHANGED <<spec, past>>
  PROVE  /\ pc = "idle" \/ wanted = spec => Placed \subseteq Placed'
         /\ pc' = "idle" \/ wanted' = spec \/ (wanted' = wanted /\ pc # "idle") =>
              OursOnly' /\ NewestIsWanted'
         /\ NewestIsThere'
  <1>1. Calm /\ CalmFacts /\ Base /\ TypeOK
    BY CalmWas DEF RInv, Base
  <1>2. Asked' = Asked /\ spec \in Asked
    BY DEF Asked
  <1>3. ASSUME NEW o \in Objects
        PROVE  /\ live[o].exists => live'[o].exists
               /\ live'[o].exists => live'[o].owner = "service" /\ live'[o].content \in Asked
               /\ o \in Here' => o \in Here \/ (pc = "write" /\ wanted = spec)
               /\ o \in Here => o \in Here' \/ (pc = "write" /\ wanted # spec)
               /\ (pc = "idle" \/ wanted = spec) /\ o \in Placed => o \in Placed'
    <2>1. /\ live[o].exists => live[o].owner = "service" /\ live[o].content \in Asked
          /\ pc # "idle" => wanted \in Asked
      BY <1>1 DEF CalmFacts, OursOnly
    <2>2. CASE Same(o)
      BY <1>2, <2>1, <2>2 DEF Same, Here, Placed, MayBePassedOver
    <2>3. CASE Applied(o)
      <3>1. /\ pc = "write" /\ live'[o].exists /\ live'[o].content = wanted
            /\ live'[o].owner = "service" /\ wanted \in Asked
        BY <2>1, <2>3 DEF Applied
      <3>2. QED  BY <1>2, <2>1, <3>1 DEF Here, Placed, MayBePassedOver
    <2>4. QED  BY <2>2, <2>3, CalmWas DEF RInv
  <1>4. \A o \in Objects : cached'[o] = cached[o] \/ cached'[o] = live[o] \/ cached'[o] = live'[o]
    BY NextIsObjectStep DEF RInv, ObjectStep
  <1>5. ASSUME NEW o \in Objects, cached'[o].exists
        PROVE  live'[o].exists /\ cached'[o].content \in Asked
    BY <1>1, <1>3, <1>4, <1>5 DEF CalmFacts, OursOnly
  <1>6. pc = "idle" \/ wanted = spec => Placed \subseteq Placed'
    BY <1>3 DEF Placed
  <1>7. NewestIsThere'
    <2>1. ASSUME spec \notin past, NEW o \in Objects, o \in Here PROVE o \in Here'
      BY <1>1, <1>3, <2>1 DEF CalmFacts, NewestIsWanted
    <2>2. ASSUME spec \notin past, NEW o \in Objects, o \in Seen' PROVE o \in Here'
      <3>1. cached'[o].exists /\ cached'[o].content = spec
        BY <2>2 DEF Seen
      <3>2. CASE cached'[o] = cached[o] \/ cached'[o] = live[o]
        <4>1. o \in Here
          BY <1>1, <2>2, <3>1, <3>2 DEF CalmFacts, NewestIsThere, Seen, Here
        <4>2. QED  BY <2>1, <2>2, <4>1
      <3>3. CASE cached'[o] = live'[o]
        BY <3>1, <3>3 DEF Here
      <3>4. QED  BY <1>4, <3>2, <3>3
    <2>3. QED  BY <2>2 DEF NewestIsThere, Seen
  <1>8. ASSUME pc' = "idle" \/ wanted' = spec \/ (wanted' = wanted /\ pc # "idle")
        PROVE  OursOnly' /\ NewestIsWanted'
    <2>1. pc' # "idle" => wanted' \in Asked
      BY <1>1, <1>2, <1>8 DEF CalmFacts, OursOnly
    <2>2. OursOnly'
      BY <1>2, <1>3, <1>5, <2>1 DEF OursOnly
    <2>3. NewestIsWanted'
      BY <1>1, <1>3, <1>8 DEF NewestIsWanted, CalmFacts, Here
    <2>4. QED  BY <2>2, <2>3
  <1>9. QED  BY <1>6, <1>7, <1>8

LEMMA PlacedFollow ==
  ASSUME RInv, [Next]_vars, Calm', UNCHANGED <<spec, past>>, pc = "idle" \/ wanted = spec, AllPlaced
  PROVE  AllPlaced'
  BY ObjectsFollow DEF AllPlaced, InRendering

-----------------------------------------------------------------------------
(* Where the pass goes.                                                    *)

LEMMA RestKeeps ==
  ASSUME RInv, [Next]_vars, Calm', UNCHANGED <<spec, past>>, Rest,
         queued' \/ (AllPlaced /\ (pc = "idle" \/ wanted = spec))
  PROVE  CalmFacts'
  <1>1. pc' = "idle"
    BY DEF Rest
  <1>2. PassCurrent' /\ Progress'
    BY <1>1, PlacedFollow DEF PassCurrent, Progress
  <1>3. QED  BY <1>1, <1>2, ObjectsFollow DEF CalmFacts

LEMMA SamePassKeeps ==
  ASSUME RInv, [Next]_vars, Calm', UNCHANGED <<serviceVars, wanted, edited, next>>,
         queued => queued', pc' = pc \/ {pc, pc'} \subseteq {"apply", "write"}
  PROVE  CalmFacts'
  <1>1. Calm /\ CalmFacts /\ Base /\ TypeOK
    BY CalmWas DEF RInv, Base
  <1>2. UNCHANGED <<spec, past>> /\ wanted' = wanted /\ edited' = edited /\ next' = next
    BY DEF serviceVars
  <1>3. OursOnly' /\ NewestIsWanted' /\ NewestIsThere'
    BY <1>2, ObjectsFollow
  <1>4. PassCurrent'
    BY <1>1, <1>2 DEF PassCurrent, CalmFacts
  <1>5. Progress'
    <2>1. ASSUME pc \in {"apply", "write"}, ~edited, NEW i \in 1 .. next - 1
          PROVE  Rendered[wanted][i] \in Placed'
      <3>1. wanted = spec
        BY <1>1, <2>1 DEF CalmFacts, PassCurrent
      <3>2. QED  BY <1>1, <1>2, <2>1, <3>1, ObjectsFollow DEF CalmFacts, Progress
    <2>2. ASSUME (pc = "status" /\ ~edited) \/ (pc = "idle" /\ ~queued) PROVE AllPlaced'
      BY <1>1, <1>2, <2>2, PlacedFollow DEF CalmFacts, Progress, PassCurrent
    <2>3. /\ pc' \in {"apply", "write"} => pc \in {"apply", "write"}
          /\ pc' = "status" => pc = "status"
          /\ pc' = "idle" => pc = "idle"
      OBVIOUS
    <2>4. pc' \in {"apply", "write"} /\ ~edited' =>
            \A i \in 1 .. next' - 1 : Rendered[wanted'][i] \in Placed'
      BY <1>2, <2>1, <2>3
    <2>5. QED  BY <1>2, <2>2, <2>3, <2>4 DEF Progress
  <1>6. QED  BY <1>3, <1>4, <1>5 DEF CalmFacts

(* A pass that is about to write has not gone on.                          *)
LEMMA NotBoth ==
  ASSUME Base, pc \in {"apply", "write"}, Continue, NEW o, PrepareObject(o)
  PROVE  FALSE
  <1>1. next \in Nat /\ next' = next /\ pc' = "write"
    BY CurrentObject, Renderings DEF PrepareObject, Base
  <1>2. QED  BY <1>1 DEF Continue, Reach

(* The object the pass has just been at.                                   *)
LEMMA CurrentPlaced ==
  ASSUME RInv, [Next]_vars, Calm', GetObject \/ WriteObject, Continue, wanted = spec,
         NEW o \in Objects, o = Current
  PROVE  o \in Placed'
  <1>1. Calm /\ CalmFacts /\ Base /\ TypeOK
    BY CalmWas DEF RInv, Base
  <1>2. pc \in {"apply", "write"} /\ UNCHANGED <<spec, past>>
    BY DEF GetObject, WriteObject, serviceVars
  <1>3. CASE pc = "apply" /\ Read(o).exists /\ ~NeedsUpdate(o, Read(o)) /\ UNCHANGED objectVars
    <2>1. Read(o).content = spec
      BY <1>3 DEF NeedsUpdate
    <2>2. CASE MayBePassedOver(o)
      BY <1>2, <2>2 DEF Placed, MayBePassedOver
    <2>3. CASE ~MayBePassedOver(o)
      <3>1. o \in Here
        BY <1>1, <1>3, <2>1, <2>3
           DEF Read, MayBePassedOver, Here, Seen, CalmFacts, NewestIsThere
      <3>2. o \in Placed
        BY <1>1, <3>1 DEF Placed, Here, CalmFacts, OursOnly
      <3>3. QED  BY <1>2, <3>2, ObjectsFollow
    <2>4. QED  BY <2>2, <2>3
  <1>4. CASE Store(o, Owned(Desired))
    <2>1. wanted \in Versions
      BY <1>1 DEF TypeOK
    <2>2. live'[o] = Owned(Desired)
      BY <1>1, <1>4, <2>1, ObjectForms, Stored
    <2>3. QED  BY <1>2, <2>1, <2>2, ObjectForms DEF Placed, Here
  <1>5. CASE existing.exists /\ newest /\ Store(o, Updated(o, existing))
    <2>1. existing \in Object /\ existing = live[o] /\ live[o].owner = "service"
      BY <1>1, <1>5 DEF TypeOK, Base, ReadIsLive, CalmFacts, OursOnly
    <2>2. /\ Updated(o, existing) \in Object /\ Updated(o, existing).exists
          /\ Updated(o, existing).content = wanted /\ Updated(o, existing).owner = "service"
      BY <1>1, <1>5, <2>1, UpdatedFacts
    <2>3. live'[o] = Updated(o, existing)
      BY <1>1, <1>5, <2>2, Stored
    <2>4. QED  BY <1>2, <2>2, <2>3 DEF Placed, Here
  <1>6. CASE Fail
    BY <1>2, <1>6 DEF Fail, EndPass, Rest, Continue, Reach
  <1>7. CASE PrepareObject(o)
    BY <1>1, <1>2, <1>7, NotBoth
  <1>8. QED
    BY <1>3, <1>4, <1>5, <1>6, <1>7
       DEF GetObject, LeaveObject, WriteObject, CreateObject, UpdateObject

LEMMA ContinueKeeps ==
  ASSUME RInv, [Next]_vars, Calm', GetObject \/ WriteObject, Continue
  PROVE  CalmFacts'
  <1>1. Calm /\ CalmFacts /\ Base /\ TypeOK
    BY CalmWas DEF RInv, Base
  <1>2. /\ pc \in {"apply", "write"} /\ UNCHANGED <<spec, past>> /\ wanted' = wanted
        /\ edited' = edited /\ queued' = queued
    BY DEF GetObject, WriteObject, Continue, serviceVars
  <1>3. OursOnly' /\ NewestIsWanted' /\ NewestIsThere'
    BY <1>2, ObjectsFollow
  <1>4. PassCurrent'
    BY <1>1, <1>2 DEF PassCurrent, CalmFacts
  <1>5. PICK o \in Objects : o = Current
    BY <1>1, <1>2, CurrentObject
  <1>6. /\ next \in Nat /\ DOMAIN Rendered[wanted] = 1 .. Len(Rendered[wanted])
        /\ Len(Rendered[wanted]) \in Nat /\ next \in DOMAIN Rendered[wanted]
    BY <1>1, <1>2, CurrentObject, Renderings
  <1>7. ASSUME ~edited, NEW i \in 1 .. next PROVE Rendered[wanted][i] \in Placed'
    <2>1. wanted = spec
      BY <1>1, <1>2, <1>7 DEF CalmFacts, PassCurrent
    <2>2. CASE i = next
      BY <1>5, <2>1, <2>2, CurrentPlaced DEF Current
    <2>3. CASE i # next
      <3>1. i \in 1 .. next - 1
        BY <1>6, <2>3
      <3>2. QED  BY <1>1, <1>2, <1>7, <2>1, <3>1, ObjectsFollow DEF CalmFacts, Progress
    <2>4. QED  BY <2>2, <2>3
  <1>8. Progress'
    <2>1. CASE next + 1 \in DOMAIN Rendered[wanted]
      <3>1. pc' = "apply" /\ next' = next + 1
        BY <2>1 DEF Continue, Reach
      <3>2. 1 .. next' - 1 = 1 .. next
        BY <1>6, <3>1
      <3>3. QED  BY <1>2, <1>7, <3>1, <3>2 DEF Progress
    <2>2. CASE next + 1 \notin DOMAIN Rendered[wanted]
      <3>1. pc' = "status"
        BY <2>2 DEF Continue, Reach
      <3>2. DOMAIN Rendered[wanted] = 1 .. next
        BY <1>6, <2>2
      <3>3. ~edited => wanted = spec
        BY <1>1, <1>2 DEF CalmFacts, PassCurrent
      <3>4. ~edited => AllPlaced'
        BY <1>2, <1>7, <3>2, <3>3 DEF AllPlaced, InRendering
      <3>5. QED  BY <1>2, <3>1, <3>4 DEF Progress
    <2>3. QED  BY <2>1, <2>2
  <1>9. QED  BY <1>3, <1>4, <1>8 DEF CalmFacts

LEMMA BeginKeeps == ASSUME RInv, [Next]_vars, Calm', Begin PROVE CalmFacts'
  <1>1. Calm /\ CalmFacts /\ Base /\ TypeOK
    BY CalmWas DEF RInv, Base
  <1>2. wanted' = spec /\ Reach(spec, 1) /\ UNCHANGED <<spec, past, edited>> /\ pc = "idle"
    BY <1>1 DEF Begin, Calm, serviceVars
  <1>3. OursOnly' /\ NewestIsWanted' /\ NewestIsThere'
    BY <1>2, ObjectsFollow
  <1>4. PassCurrent'
    BY <1>2 DEF PassCurrent, RInv, Alive
  <1>5. Progress'
    <2>1. DOMAIN Rendered[spec] = 1 .. Len(Rendered[spec]) /\ Len(Rendered[spec]) \in Nat
      BY <1>1, Renderings DEF TypeOK
    <2>2. CASE 1 \in DOMAIN Rendered[spec]
      BY <1>2, <2>2 DEF Progress, Reach
    <2>3. CASE 1 \notin DOMAIN Rendered[spec]
      <3>1. DOMAIN Rendered[spec] = {} /\ pc' = "status"
        BY <1>2, <2>1, <2>3 DEF Reach
      <3>2. QED  BY <1>2, <3>1 DEF Progress, AllPlaced, InRendering
    <2>4. QED  BY <2>2, <2>3
  <1>6. QED  BY <1>3, <1>4, <1>5 DEF CalmFacts

LEMMA UpdateStatusKeeps == ASSUME RInv, [Next]_vars, Calm', UpdateStatus PROVE CalmFacts'
  <1>1. Calm /\ CalmFacts
    BY CalmWas DEF RInv
  <1>2. pc = "status" /\ UNCHANGED <<spec, past>> /\ Rest
    BY DEF UpdateStatus, EndPass, Fail
  <1>3. queued \/ (AllPlaced /\ wanted = spec)
    BY <1>1, <1>2 DEF CalmFacts, PassCurrent, Progress
  <1>4. queued => queued'
    BY DEF UpdateStatus, EndPass, Fail
  <1>5. QED  BY <1>2, <1>3, <1>4, RestKeeps

LEMMA EditKeeps == ASSUME RInv, [Next]_vars, Calm', EditService PROVE CalmFacts'
  <1>1. Calm /\ CalmFacts /\ Base /\ TypeOK
    BY CalmWas DEF RInv, Base
  <1>2. /\ spec' # spec /\ past' = past \union {spec} /\ queued' /\ edited' = (pc # "idle")
        /\ UNCHANGED <<live, cached, pc, wanted, next>>
    BY DEF EditService, objectVars
  <1>3. Asked \subseteq past' /\ past' \subseteq Asked'
    BY <1>2 DEF Asked
  <1>4. OursOnly'
    BY <1>1, <1>2, <1>3 DEF CalmFacts, OursOnly
  <1>5. spec' \notin past' => Here' = {} /\ Seen' = {}
    BY <1>1, <1>2, <1>3 DEF CalmFacts, OursOnly, Here, Seen
  <1>6. NewestIsThere' /\ NewestIsWanted'
    BY <1>5 DEF NewestIsThere, NewestIsWanted
  <1>7. PassCurrent' /\ Progress'
    BY <1>2 DEF PassCurrent, Progress
  <1>8. QED  BY <1>4, <1>6, <1>7 DEF CalmFacts

LEMMA RenderingKept == RInv /\ [Next]_vars => RInv'
  <1> SUFFICES ASSUME RInv, [Next]_vars, Calm' PROVE CalmFacts'
    BY BaseKept, AliveKept DEF RInv
  <1>1. CASE Begin
    BY <1>1, BeginKeeps
  <1>2. CASE GetObject \/ WriteObject
    <2>1. CASE Continue
      BY <1>2, <2>1, ContinueKeeps
    <2>2. CASE Fail
      BY <1>2, <2>2, RestKeeps DEF Fail, EndPass, GetObject, WriteObject, serviceVars
    <2>3. CASE GetObject /\ PrepareObject(Current)
      <3>1. /\ pc = "apply" /\ pc' = "write"
            /\ UNCHANGED <<serviceVars, wanted, edited, next>> /\ queued' = queued
        BY <2>3 DEF GetObject, PrepareObject
      <3>2. QED  BY <3>1, SamePassKeeps
    <2>4. QED
      BY <1>2, <2>1, <2>2, <2>3 DEF GetObject, LeaveObject, WriteObject, CreateObject, UpdateObject
  <1>3. CASE UpdateStatus
    BY <1>3, UpdateStatusKeeps
  <1>4. CASE CallFails
    BY <1>4, RestKeeps DEF CallFails, Fail, EndPass, serviceVars
  <1>5. CASE Crash
    BY <1>5, CalmWas, RestKeeps DEF Crash, serviceVars, Calm, RInv
  <1>6. CASE EditService
    BY <1>6, EditKeeps
  <1>7. CASE Release
    BY <1>7 DEF Release, Calm
  <1>8. ASSUME NEW o \in Objects,
               Sync(o) \/ CollectGarbage(o) \/ Report(o) \/ Intrude(o) \/ Touch(o)
        PROVE  CalmFacts'
    <2>1. UNCHANGED <<serviceVars, pc, wanted, edited, next>>
      BY <1>8 DEF Sync, CollectGarbage, Report, Intrude, Touch, Write, passVars
    <2>2. queued => queued'
      BY <1>8 DEF Sync, CollectGarbage, Report, Intrude, Touch
    <2>3. QED  BY <2>1, <2>2, SamePassKeeps
  <1>9. CASE UNCHANGED vars
    BY <1>9, SamePassKeeps DEF vars, passVars
  <1>10. QED
    BY <1>1, <1>2, <1>3, <1>4, <1>5, <1>6, <1>7, <1>8, <1>9 DEF Next, Worker

LEMMA InitIsRendering == Init => RInv
  <1> SUFFICES ASSUME Init PROVE RInv
    OBVIOUS
  <1>1. \A o \in Objects : ~live[o].exists /\ ~cached[o].exists
    BY ObjectForms DEF Init
  <1>2. OursOnly /\ NewestIsThere /\ NewestIsWanted
    BY <1>1 DEF Init, OursOnly, NewestIsThere, NewestIsWanted, Here, Seen
  <1>3. PassCurrent /\ Progress /\ Alive
    BY DEF Init, PassCurrent, Progress, Alive
  <1>4. QED  BY <1>2, <1>3, InitIsTyped DEF RInv, CalmFacts

(* What a pass has behind it is placed, as long as nobody interferes.      *)
THEOREM RenderingInvariance == Spec => []RInv
  BY InitIsRendering, RenderingKept, PTL DEF Spec

(* At rest every object of the spec in force is there, as asked and owned, *)
(* but for plain ones after a return to an earlier spec.                   *)
THEOREM RestMeansRendered == Spec => []QuietMeansRendered
  <1>1. RInv => QuietMeansRendered
    BY DEF RInv, CalmFacts, Calm, Progress, AllPlaced, Placed, Here, AsAsked, Quiet,
           QuietMeansRendered
  <1>2. QED  BY <1>1, RenderingInvariance, PTL

(* Whichever spec is in force when Ready is announced, its objects are     *)
(* there.                                                                  *)
THEOREM ReadyIsTrue == Spec => ReadyMeansRendered
  <1>1. ASSUME RInv, Next, ~ready, ready', Undisturbed, NEW o \in InRendering(spec)
        PROVE  MayBePassedOver(o) \/ AsAsked(o, spec)
    <2>1. UpdateStatus
      BY <1>1 DEF Next, Worker, Begin, GetObject, WriteObject, CallFails, Crash, EditService,
                  Release, Sync, CollectGarbage, Report, Intrude, Touch, serviceVars
    <2>2. pc = "status" /\ ~edited
      BY <1>1, <2>1 DEF UpdateStatus
    <2>3. AllPlaced
      BY <1>1, <2>2 DEF RInv, Alive, Calm, CalmFacts, Progress
    <2>4. QED  BY <1>1, <2>3 DEF AllPlaced, Placed, Here, AsAsked
  <1>2. RInv /\ [Next]_vars =>
          [~ready /\ ready' /\ Undisturbed =>
             \A o \in InRendering(spec) : MayBePassedOver(o) \/ AsAsked(o, spec)]_vars
    BY <1>1
  <1>3. QED  BY <1>2, RenderingInvariance, PTL DEF Spec, ReadyMeansRendered

-----------------------------------------------------------------------------
(* What the events repair.  Others may now interfere at will: an object    *)
(* that the resource owns, and whose newest version the cache holds, is as *)
(* asked once a pass has been past it; where the cache lags, the version   *)
(* it has not seen yet brings an event of the resource.                    *)

Watched ==
  \A o \in Objects :
    Class[o] = "known" /\ live[o].owner = "service" /\ ~fresh[o] => Enqueues(o)

Repaired(o) ==
  Class[o] = "known" /\ fresh[o] /\ live[o].exists /\ live[o].owner = "service" =>
    live[o].content = spec

(* Where no further pass is due.                                           *)
RepairedSoFar ==
  /\ pc # "idle" => wanted = spec
  /\ pc \in {"apply", "write"} => \A i \in 1 .. next - 1 : Repaired(Rendered[spec][i])
  /\ pc \notin {"apply", "write"} => \A o \in InRendering(spec) : Repaired(o)

WInv == Base /\ Watched /\ (queued \/ gone \/ RepairedSoFar)

(* An object and its copy stay, a new version comes, the cache catches up, *)
(* or the process starts anew.                                             *)
Still(o) ==
  live'[o] = live[o] /\ cached'[o] = cached[o] /\ fresh'[o] = fresh[o] /\ missed'[o] = missed[o]

Renewed(o) ==
  /\ ~fresh'[o] /\ cached'[o] = cached[o]
  /\ missed[o] \/ live'[o].owner = "service" => missed'[o]

Delivered(o) ==
  live'[o] = live[o] /\ fresh'[o] /\ (queued \/ Enqueues(o) => queued')

Restarted(o) == live'[o] = live[o] /\ fresh'[o] /\ (queued' \/ gone')

Outlook ==
  \A o \in Objects : Class[o] = "known" => Still(o) \/ Renewed(o) \/ Delivered(o) \/ Restarted(o)

LEMMA StoreOutlook ==
  ASSUME Base, NEW o \in Objects, NEW new \in Object, Store(o, new)
  PROVE  Outlook
  <1>1. ASSUME NEW p \in Objects, p # o PROVE Still(p)
    BY <1>1, Stored DEF Still
  <1>2. CASE new = live[o]
    <2>1. Class[o] = "known" => Still(o)
      BY <1>2, Stored DEF Still, Base, TypeOK
    <2>2. QED  BY <1>1, <2>1 DEF Outlook
  <1>3. CASE new # live[o]
    <2>1. Class[o] = "known" => Renewed(o)
      BY <1>3, Stored DEF Renewed
    <2>2. QED  BY <1>1, <2>1 DEF Outlook
  <1>4. QED  BY <1>2, <1>3

(* What the others write is an object.                                     *)
LEMMA OthersStore ==
  ASSUME Base, NEW o \in Objects, CollectGarbage(o) \/ Report(o) \/ Intrude(o) \/ Touch(o)
  PROVE  \E new \in Object : Store(o, new)
  <1>1. live[o] \in Object /\ spec \in Versions
    BY DEF Base, TypeOK
  <1>2. CASE CollectGarbage(o)
    BY <1>2, ObjectForms DEF CollectGarbage, Write
  <1>3. CASE Report(o)
    <2>1. [live[o] EXCEPT !.status = TRUE] \in Object
      BY <1>1 DEF Object
    <2>2. QED  BY <1>3, <2>1 DEF Report, Write
  <1>4. CASE Intrude(o)
    <2>1. PICK c \in {Theirs, spec}, w \in {"none", "other"} :
            Store(o, [NoObject EXCEPT !.exists = TRUE, !.content = c, !.owner = w])
      BY <1>4 DEF Intrude, Write
    <2>2. [NoObject EXCEPT !.exists = TRUE, !.content = c, !.owner = w] \in Object
      BY <1>1 DEF Object, NoObject
    <2>3. QED  BY <2>1, <2>2
  <1>5. CASE Touch(o)
    <2>1. PICK new \in {NoObject, [live[o] EXCEPT !.marks = TRUE],
                        [live[o] EXCEPT !.content = Theirs]} : Store(o, new)
      BY <1>5 DEF Touch, Write
    <2>2. new \in Object
      BY <1>1, <2>1, ObjectForms DEF Object
    <2>3. QED  BY <2>1, <2>2
  <1>6. QED  BY <1>2, <1>3, <1>4, <1>5

LEMMA NextOutlook == ASSUME Base, [Next]_vars PROVE Outlook
  <1>1. CASE UNCHANGED objectVars
    BY <1>1 DEF objectVars, Outlook, Still
  <1>2. CASE WriteObject
    <2>1. Current \in Objects /\ wanted \in Versions /\ existing \in Object
      BY <1>2, CurrentObject DEF WriteObject, Base, TypeOK
    <2>2. CASE Store(Current, Owned(Desired))
      BY <2>1, <2>2, ObjectForms, StoreOutlook
    <2>3. CASE existing.exists /\ Store(Current, Updated(Current, existing))
      BY <2>1, <2>3, UpdatedFacts, StoreOutlook DEF Base
    <2>4. QED
      BY <1>1, <1>2, <2>2, <2>3 DEF WriteObject, CreateObject, UpdateObject
  <1>3. CASE Crash
    BY <1>3, ControlTypes DEF Crash, serviceVars, Outlook, Restarted
  <1>4. ASSUME NEW o \in Objects, Sync(o) PROVE Outlook
    <2>1. /\ live' = live /\ cached' = [cached EXCEPT ![o] = live[o]]
          /\ fresh' = [fresh EXCEPT ![o] = TRUE] /\ missed' = [missed EXCEPT ![o] = FALSE]
      BY <1>4 DEF Sync
    <2>2. Delivered(o)
      BY <1>4, <2>1 DEF Sync, Delivered, Base, TypeOK
    <2>3. \A p \in Objects \ {o} : Still(p)
      BY <2>1 DEF Still, Base, TypeOK
    <2>4. QED  BY <2>2, <2>3 DEF Outlook
  <1>5. ASSUME NEW o \in Objects, CollectGarbage(o) \/ Report(o) \/ Intrude(o) \/ Touch(o)
        PROVE  Outlook
    BY <1>5, OthersStore, StoreOutlook
  <1>6. QED
    BY <1>1, <1>2, <1>3, <1>4, <1>5
       DEF Next, Worker, Begin, GetObject, UpdateStatus, CallFails, EditService, Release, vars

LEMMA WatchedKept == ASSUME Base, Watched, [Next]_vars PROVE Watched'
  BY NextOutlook
     DEF Watched, Outlook, Still, Renewed, Delivered, Restarted, Enqueues

LEMMA RepairsStay ==
  ASSUME Base, Watched, [Next]_vars, spec' = spec, ~queued', ~gone'
  PROVE  \A o \in Objects : Repaired(o) => Repaired(o)'
  BY NextOutlook
     DEF Watched, Outlook, Still, Renewed, Delivered, Restarted, Repaired

(* The object the pass has just been at.                                   *)
LEMMA CurrentRepaired ==
  ASSUME Base, GetObject \/ WriteObject, Continue, wanted = spec,
         NEW o \in Objects, o = Current, Class[o] = "known"
  PROVE  Repaired(o)'
  <1>1. pc \in {"apply", "write"} /\ spec' = spec /\ wanted \in Versions
    BY DEF GetObject, WriteObject, serviceVars, Base, TypeOK
  <1>2. CASE ~NeedsUpdate(o, Read(o)) /\ UNCHANGED objectVars
    <2>1. live[o].content = wanted /\ live' = live
      BY <1>2 DEF Read, NeedsUpdate, objectVars
    <2>2. QED  BY <1>1, <2>1 DEF Repaired
  <1>3. CASE Store(o, Owned(Desired))
    <2>1. live'[o] = Owned(Desired)
      BY <1>1, <1>3, ObjectForms, Stored
    <2>2. QED  BY <1>1, <2>1, ObjectForms DEF Repaired
  <1>4. CASE existing.exists /\ Store(o, Updated(o, existing))
    <2>1. Updated(o, existing) \in Object /\ Updated(o, existing).content = wanted
      BY <1>4, UpdatedFacts DEF Base, TypeOK
    <2>2. live'[o] = Updated(o, existing)
      BY <1>4, <2>1, Stored
    <2>3. QED  BY <1>1, <2>1, <2>2 DEF Repaired
  <1>5. CASE Fail
    BY <1>1, <1>5 DEF Fail, EndPass, Rest, Continue, Reach
  <1>6. CASE PrepareObject(o)
    BY <1>1, <1>6, NotBoth
  <1>7. QED
    BY <1>2, <1>3, <1>4, <1>5, <1>6
       DEF GetObject, LeaveObject, WriteObject, CreateObject, UpdateObject

LEMMA ContinueRepairs ==
  ASSUME WInv, [Next]_vars, GetObject \/ WriteObject, Continue, ~queued', ~gone'
  PROVE  RepairedSoFar'
  <1>1. /\ pc \in {"apply", "write"} /\ wanted = spec /\ Base
        /\ \A i \in 1 .. next - 1 : Repaired(Rendered[spec][i])
    BY DEF WInv, RepairedSoFar, GetObject, WriteObject, Continue, serviceVars
  <1>2. wanted' = spec /\ spec' = spec
    BY <1>1 DEF GetObject, WriteObject, Continue, serviceVars
  <1>3. /\ next \in DOMAIN Rendered[spec] /\ next \in Nat
        /\ DOMAIN Rendered[spec] = 1 .. Len(Rendered[spec]) /\ Len(Rendered[spec]) \in Nat
        /\ \A i \in DOMAIN Rendered[spec] : Rendered[spec][i] \in Objects
    <2>1. spec \in Versions /\ next \in DOMAIN Rendered[spec]
      BY <1>1, CurrentObject DEF Base
    <2>2. QED  BY <2>1, Renderings
  <1>4. ASSUME NEW i \in 1 .. next PROVE Repaired(Rendered[spec][i])'
    <2>1. PICK o \in Objects : o = Rendered[spec][i]
      BY <1>3
    <2>2. Repaired(o)'
      <3>1. CASE i = next
        <4>1. Class[o] = "known" => Repaired(o)'
          BY <1>1, <2>1, <3>1, CurrentRepaired DEF Current
        <4>2. QED  BY <4>1 DEF Repaired
      <3>2. CASE i # next
        <4>1. i \in 1 .. next - 1
          BY <1>3, <3>2
        <4>2. QED  BY <1>1, <1>2, <2>1, <4>1, RepairsStay DEF WInv
      <3>3. QED  BY <3>1, <3>2
    <2>3. QED  BY <1>2, <2>1, <2>2 DEF Repaired
  <1>5. CASE next + 1 \in DOMAIN Rendered[spec]
    <2>1. pc' = "apply" /\ next' = next + 1
      BY <1>1, <1>5 DEF Continue, Reach
    <2>2. 1 .. next' - 1 = 1 .. next
      BY <1>3, <2>1
    <2>3. QED  BY <1>2, <1>4, <2>1, <2>2 DEF RepairedSoFar
  <1>6. CASE next + 1 \notin DOMAIN Rendered[spec]
    <2>1. pc' = "status"
      BY <1>1, <1>6 DEF Continue, Reach
    <2>2. DOMAIN Rendered[spec] = 1 .. next
      BY <1>3, <1>6
    <2>3. \A o \in InRendering(spec)' : Repaired(o)'
      BY <1>2, <1>4, <2>2 DEF InRendering, Repaired
    <2>4. QED  BY <1>2, <2>1, <2>3 DEF RepairedSoFar
  <1>7. QED  BY <1>5, <1>6

(* Where the pass is left alone, or ends with nothing more to do.          *)
LEMMA SoFarStays ==
  ASSUME WInv, [Next]_vars, RepairedSoFar, UNCHANGED spec, ~queued', ~gone',
         \/ UNCHANGED <<wanted, next>> /\ (pc' = pc \/ {pc, pc'} \subseteq {"apply", "write"})
         \/ pc = "status" /\ Rest
  PROVE  RepairedSoFar'
  <1>1. /\ spec \in Versions /\ Base /\ Watched
        /\ \A i \in DOMAIN Rendered[spec] : Rendered[spec][i] \in Objects
    BY Renderings DEF WInv, Base, TypeOK
  <1>2. ASSUME NEW o \in Objects, Repaired(o) PROVE Repaired(o)'
    BY <1>1, <1>2, RepairsStay
  <1>3. ASSUME pc' \notin {"apply", "write"} PROVE \A o \in InRendering(spec) : Repaired(o)'
    <2>1. pc \notin {"apply", "write"}
      BY <1>3
    <2>2. QED  BY <1>1, <1>2, <2>1 DEF RepairedSoFar, InRendering
  <1>4. ASSUME pc' \in {"apply", "write"}
        PROVE  \A i \in 1 .. next' - 1 : Repaired(Rendered[spec][i])'
    <2>1. pc \in {"apply", "write"} /\ next' = next /\ wanted = spec
      BY <1>4 DEF RepairedSoFar, Rest
    <2>2. next \in DOMAIN Rendered[spec]
      BY <1>1, <2>1, CurrentObject DEF Base
    <2>3. 1 .. next - 1 \subseteq DOMAIN Rendered[spec]
      <3>1. DOMAIN Rendered[spec] = 1 .. Len(Rendered[spec]) /\ Len(Rendered[spec]) \in Nat
        BY <1>1, Renderings
      <3>2. QED  BY <2>2, <3>1
    <2>4. ASSUME NEW i \in 1 .. next - 1 PROVE Repaired(Rendered[spec][i])'
      <3>1. PICK o \in Objects : o = Rendered[spec][i]
        BY <1>1, <2>3
      <3>2. Repaired(o)'
        BY <1>2, <2>1, <3>1 DEF RepairedSoFar
      <3>3. QED  BY <3>1, <3>2 DEF Repaired
    <2>5. QED  BY <2>1, <2>4
  <1>5. pc' # "idle" => wanted' = spec
    BY DEF RepairedSoFar, Rest
  <1>6. QED  BY <1>3, <1>4, <1>5 DEF RepairedSoFar, InRendering

LEMMA BeginRepairs ==
  ASSUME WInv, Begin, ~gone'
  PROVE  RepairedSoFar'
  <1>1. wanted' = spec /\ spec' = spec /\ Reach(spec, 1) /\ spec \in Versions
    BY DEF Begin, serviceVars, WInv, Base, TypeOK
  <1>2. DOMAIN Rendered[spec] = 1 .. Len(Rendered[spec]) /\ Len(Rendered[spec]) \in Nat
    BY <1>1, Renderings
  <1>3. CASE 1 \in DOMAIN Rendered[spec]
    BY <1>1, <1>3 DEF Reach, RepairedSoFar
  <1>4. CASE 1 \notin DOMAIN Rendered[spec]
    <2>1. DOMAIN Rendered[spec] = {} /\ pc' = "status"
      BY <1>1, <1>2, <1>4 DEF Reach
    <2>2. QED  BY <1>1, <2>1 DEF RepairedSoFar, InRendering
  <1>5. QED  BY <1>3, <1>4

LEMMA RepairKept == WInv /\ [Next]_vars => WInv'
  <1> SUFFICES ASSUME WInv, [Next]_vars, ~queued', ~gone' PROVE RepairedSoFar'
    BY BaseKept, WatchedKept DEF WInv
  <1>1. CASE Begin
    BY <1>1, BeginRepairs
  <1>2. CASE GetObject \/ WriteObject
    <2>1. CASE Continue
      BY <1>2, <2>1, ContinueRepairs
    <2>2. CASE Fail
      BY <2>2 DEF Fail, EndPass
    <2>3. CASE GetObject /\ PrepareObject(Current)
      <3>1. /\ {pc, pc'} \subseteq {"apply", "write"} /\ UNCHANGED <<spec, wanted, next>>
            /\ queued' = queued /\ gone' = gone
        BY <2>3 DEF GetObject, PrepareObject, serviceVars
      <3>2. QED  BY <3>1, SoFarStays DEF WInv
    <2>4. QED
      BY <1>2, <2>1, <2>2, <2>3 DEF GetObject, LeaveObject, WriteObject, CreateObject, UpdateObject
  <1>3. CASE UpdateStatus
    <2>1. ~queued /\ ~gone /\ pc = "status" /\ Rest /\ UNCHANGED spec
      BY <1>3 DEF UpdateStatus, Fail, EndPass
    <2>2. QED  BY <2>1, SoFarStays DEF WInv
  <1>4. CASE CallFails \/ Crash
    <2>1. ASSUME CallFails PROVE queued'
      BY <2>1 DEF CallFails, Fail, EndPass
    <2>2. ASSUME Crash PROVE queued'
      BY <2>2, ControlTypes DEF Crash, serviceVars, WInv
    <2>3. QED  BY <1>4, <2>1, <2>2
  <1>5. CASE EditService \/ Release
    BY <1>5 DEF EditService, Release
  <1>6. ASSUME NEW o \in Objects,
               Sync(o) \/ CollectGarbage(o) \/ Report(o) \/ Intrude(o) \/ Touch(o)
        PROVE  RepairedSoFar'
    <2>1. UNCHANGED <<serviceVars, pc, wanted, next>>
      BY <1>6 DEF Sync, CollectGarbage, Report, Intrude, Touch, Write, passVars
    <2>2. queued => queued'
      BY <1>6 DEF Sync, CollectGarbage, Report, Intrude, Touch
    <2>3. QED  BY <2>1, <2>2, SoFarStays DEF WInv, serviceVars
  <1>7. CASE UNCHANGED vars
    BY <1>7, SoFarStays DEF vars, serviceVars, passVars, WInv
  <1>8. QED
    BY <1>1, <1>2, <1>3, <1>4, <1>5, <1>6, <1>7 DEF Next, Worker

LEMMA InitIsRepaired == Init => WInv
  <1> SUFFICES ASSUME Init PROVE WInv
    OBVIOUS
  <1>1. Watched /\ queued
    BY DEF Init, Watched
  <1>2. QED  BY <1>1, InitIsTyped DEF WInv

(* Whatever others have done to an owned and watched object has an event   *)
(* or a pass coming.                                                       *)
THEOREM RepairInvariance == Spec => []WInv
  BY InitIsRepaired, RepairKept, PTL DEF Spec

(* At rest what the resource owns of the watched kinds is as asked, with   *)
(* any number of writes of others, edits, failures and crashes.            *)
THEOREM RestMeansRepaired == Spec => []QuietMeansRepaired
  <1>1. WInv => QuietMeansRepaired
    <2> SUFFICES ASSUME WInv, Quiet, ~gone, NEW o \in InRendering(spec), Class[o] = "known",
                        live[o].exists, live[o].owner = "service"
                 PROVE  AsAsked(o, spec)
      BY DEF QuietMeansRepaired
    <2>1. o \in Objects
      BY Renderings DEF InRendering, WInv, Base, TypeOK
    <2>2. QED  BY <2>1 DEF WInv, RepairedSoFar, Repaired, Quiet, AsAsked
  <1>2. QED  BY <1>1, RepairInvariance, PTL

-----------------------------------------------------------------------------
(* The calls a pass can still make.                                        *)
CallsLeft ==
  CASE pc = "idle"   -> 0
    [] pc = "status" -> 1
    [] pc = "write"  -> 2 + 2 * (Len(Rendered[wanted]) - next)
    [] pc = "apply"  -> 3 + 2 * (Len(Rendered[wanted]) - next)

(* Two calls for every object of the rendering and one for the status      *)
(* (:1768-1920, :134-185): nothing is retried within a pass, and no edit   *)
(* or event lengthens one that runs.                                       *)
PassesEnd ==
  [][pc # "idle" => CallsLeft' <= CallsLeft /\ (Worker => CallsLeft' < CallsLeft)]_vars

LEMMA CallsCounted ==
  ASSUME Base
  PROVE  /\ pc \in {"apply", "write"} =>
              /\ Len(Rendered[wanted]) \in Nat /\ next \in Nat
              /\ DOMAIN Rendered[wanted] = 1 .. Len(Rendered[wanted])
              /\ next <= Len(Rendered[wanted])
         /\ CallsLeft \in Nat /\ (pc # "idle" => 0 < CallsLeft)
  <1>1. ASSUME pc \in {"apply", "write"}
        PROVE  /\ Len(Rendered[wanted]) \in Nat /\ next \in Nat
               /\ DOMAIN Rendered[wanted] = 1 .. Len(Rendered[wanted])
               /\ next <= Len(Rendered[wanted])
    <2>1. Rendered[wanted] \in Seq(Objects) /\ next \in DOMAIN Rendered[wanted]
      BY <1>1, Renderings DEF Base, TypeOK
    <2>2. QED  BY <2>1
  <1>2. pc \in {"idle", "apply", "write", "status"}
    BY DEF Base, TypeOK
  <1>3. ASSUME pc \in {"apply", "write"} PROVE CallsLeft \in Nat /\ 0 < CallsLeft
    <2>1. PICK len \in Nat, i \in Nat : len = Len(Rendered[wanted]) /\ i = next /\ i <= len
      BY <1>1, <1>3
    <2>2. CallsLeft = 2 + 2 * (len - i) \/ CallsLeft = 3 + 2 * (len - i)
      BY <1>3, <2>1 DEF CallsLeft
    <2>3. QED  BY <2>1, <2>2
  <1>4. CASE pc \in {"idle", "status"}
    BY <1>1, <1>4 DEF CallsLeft
  <1>5. QED  BY <1>1, <1>2, <1>3, <1>4

LEMMA EndIsLess ==
  ASSUME Base, pc # "idle", pc' = "idle"
  PROVE  CallsLeft' \in 0 .. CallsLeft - 1
  <1>1. CallsLeft' = 0
    BY DEF CallsLeft
  <1>2. QED  BY <1>1, CallsCounted

LEMMA ContinueIsLess ==
  ASSUME Base, pc \in {"apply", "write"}, Continue
  PROVE  CallsLeft' \in 0 .. CallsLeft - 1
  <1>1. CASE pc' = "apply" /\ next' = next + 1 /\ next + 1 \in DOMAIN Rendered[wanted] /\ wanted' = wanted
    <2>1. PICK len \in Nat, i \in Nat : len = Len(Rendered[wanted]) /\ i = next /\ i + 1 <= len
      BY <1>1, CallsCounted
    <2>2. CallsLeft = 2 + 2 * (len - i) \/ CallsLeft = 3 + 2 * (len - i)
      BY <2>1 DEF CallsLeft
    <2>3. CallsLeft' = 3 + 2 * (len - (i + 1))
      BY <1>1, <2>1 DEF CallsLeft
    <2>4. QED  BY <2>1, <2>2, <2>3
  <1>2. CASE pc' = "status"
    BY <1>2, CallsCounted DEF CallsLeft
  <1>3. QED  BY <1>1, <1>2 DEF Continue, Reach

LEMMA CallIsLess ==
  ASSUME Base, Worker, pc # "idle"
  PROVE  CallsLeft' \in 0 .. CallsLeft - 1
  <1>1. CASE GetObject \/ WriteObject
    <2>1. \/ pc \in {"apply", "write"} /\ (Continue \/ Fail)
          \/ pc = "apply" /\ pc' = "write" /\ UNCHANGED <<wanted, next>>
      BY <1>1 DEF GetObject, LeaveObject, PrepareObject, WriteObject, CreateObject, UpdateObject
    <2>2. CASE pc = "apply" /\ pc' = "write" /\ UNCHANGED <<wanted, next>>
      BY <2>2, CallsCounted DEF CallsLeft
    <2>3. QED  BY <2>1, <2>2, ContinueIsLess, EndIsLess DEF Fail, EndPass, Rest
  <1>2. CASE UpdateStatus
    BY <1>2, EndIsLess DEF UpdateStatus, Fail, EndPass, Rest
  <1>3. QED  BY <1>1, <1>2 DEF Worker, Begin

LEMMA NothingAdds ==
  ASSUME Base, Next, ~Worker, pc # "idle"
  PROVE  CallsLeft' <= CallsLeft
  <1>1. CASE pc' = "idle"
    BY <1>1, EndIsLess, CallsCounted
  <1>2. CASE UNCHANGED <<pc, wanted, next>>
    <2>1. CallsLeft' = CallsLeft
      BY <1>2 DEF CallsLeft
    <2>2. QED  BY <2>1, CallsCounted
  <1>3. QED
    BY <1>1, <1>2 DEF Next, CallFails, Fail, EndPass, Rest, Crash, EditService, Release,
                      Sync, CollectGarbage, Report, Intrude, Touch, Write, passVars

(* A pass makes at most one call more than the longest rendering has       *)
(* objects twice.                                                          *)
THEOREM PassesAreBounded == Spec => PassesEnd
  <1>1. Base /\ [Next]_vars =>
          [pc # "idle" => CallsLeft' <= CallsLeft /\ (Worker => CallsLeft' < CallsLeft)]_vars
    <2> SUFFICES ASSUME Base, Next, pc # "idle"
                 PROVE  CallsLeft' <= CallsLeft /\ (Worker => CallsLeft' < CallsLeft)
      OBVIOUS
    <2>1. CASE Worker
      BY <2>1, CallIsLess, CallsCounted
    <2>2. CASE ~Worker
      BY <2>2, NothingAdds
    <2>3. QED  BY <2>1, <2>2
  <1>2. QED  BY <1>1, BaseInvariance, PTL DEF Spec, PassesEnd

=============================================================================
