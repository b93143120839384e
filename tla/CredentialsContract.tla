-------------------------- MODULE CredentialsContract --------------------------
(***************************************************************************)
(* What the database path promises about passwords, without passes,        *)
(* caches, secrets and retries: the database's own password is made once   *)
(* and then left alone; what clients read is completed once, with a        *)
(* password that was really made, and then left alone; only others take    *)
(* something away.                                                         *)
(***************************************************************************)
EXTENDS Naturals

VARIABLES
  issued,     \* how many passwords have been made: they are 1 .. issued
  source,     \* the database's password, 0 for none
  target,     \* the password clients find, 0 for none
  complete    \* clients find everything they need

vars == <<issued, source, target, complete>>

TypeOK == {issued, source, target} \subseteq Nat /\ complete \in BOOLEAN

Init == issued = 0 /\ source = 0 /\ target = 0 /\ complete = FALSE

Generate ==
  /\ source = 0
  /\ issued' = issued + 1 /\ source' = issued'
  /\ UNCHANGED <<target, complete>>

Deliver ==
  /\ ~complete
  /\ target' \in {target} \union 1 .. issued
  /\ complete' \in BOOLEAN
  /\ UNCHANGED <<issued, source>>

LoseSource == source' = 0 /\ UNCHANGED <<issued, target, complete>>

LoseTarget ==
  /\ target' \in {target, 0} /\ complete' = FALSE
  /\ UNCHANGED <<issued, source>>

Next == Generate \/ Deliver \/ LoseSource \/ LoseTarget

Spec == Init /\ [][Next]_vars

(* Nobody reads a password that was never made.                            *)
NoInvention == source <= issued /\ target <= issued

(* A password is not exchanged for another under those who use it.         *)
LeftAlone ==
  [][/\ source # 0 /\ source' # 0 => source' = source
     /\ complete /\ complete' => target' = target]_vars

=============================================================================
