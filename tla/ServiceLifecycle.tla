--------------------------- MODULE ServiceLifecycle ---------------------------
(***************************************************************************)
(* What the finalizer protocol of the Service controller promises, without *)
(* passes, caches or retries: children come into being only while the      *)
(* resource is guarded by the finalizer, and the finalizer is given up     *)
(* only when none of the Finalized ones is left.                           *)
(***************************************************************************)
CONSTANTS Kinds, Finalized

VARIABLES
  phase,     \* of the resource: absent, bare (no finalizer), guarded, deleting
  present    \* the kinds of children that exist

vars == <<phase, present>>

TypeOK ==
  /\ phase \in {"absent", "bare", "guarded", "deleting"}
  /\ present \subseteq Kinds

Init == phase = "absent" /\ present = {}

Create == phase = "absent" /\ phase' = "bare" /\ UNCHANGED present

Discard == phase = "bare" /\ phase' = "absent" /\ UNCHANGED present

Guard == phase = "bare" /\ phase' = "guarded" /\ UNCHANGED present

Delete == phase = "guarded" /\ phase' = "deleting" /\ UNCHANGED present

Release ==
  /\ phase = "deleting" /\ present \cap Finalized = {}
  /\ phase' = "absent" /\ UNCHANGED present

(* A pass that began before the deletion may still add children during it. *)
Appear(k) ==
  /\ phase \in {"guarded", "deleting"} /\ k \notin present
  /\ present' = present \union {k} /\ UNCHANGED phase

Vanish(k) ==
  /\ k \in present
  /\ present' = present \ {k} /\ UNCHANGED phase

Next == Create \/ Discard \/ Guard \/ Delete \/ Release \/ \E k \in Kinds : Appear(k) \/ Vanish(k)

Spec == Init /\ [][Next]_vars

(* Nothing the finalizer protects exists without it.                       *)
Protected == phase \in {"absent", "bare"} => present \cap Finalized = {}

=============================================================================
