-------------------------- MODULE SequenceFilters --------------------------
(***************************************************************************)
(* The loops that build one slice out of another: for each element, append *)
(* it or leave it.  Written as a recursive function over the positions,    *)
(* because the provers know nothing of SelectSeq but its name.             *)
(***************************************************************************)
EXTENDS Naturals, Sequences

(* What the loop has appended after each position: the elements of s at    *)
(* the positions in P.                                                     *)
KeptUpTo(s, P) ==
  LET kept[i \in 0 .. Len(s)] ==
        IF i = 0 THEN <<>>
        ELSE IF i \in P THEN Append(kept[i - 1], s[i]) ELSE kept[i - 1]
  IN  kept

KeptAt(s, P) == KeptUpTo(s, P)[Len(s)]

Kept(s, S) == KeptAt(s, {i \in DOMAIN s : s[i] \in S})

=============================================================================
