------------------------------ MODULE MC_Ui ------------------------------
(***************************************************************************)
(* Two subscriptions, of which the first may have two domains and the other *)
(* has none; two changes, with one message between start and result and a   *)
(* channel of one place, so that a worker is blocked by a reader that is    *)
(* late.  The domains are interchangeable.                                  *)
(***************************************************************************)
EXTENDS Ui, TLC

CONSTANTS s1, s2, d1, d2

MC_Subs == {s1, s2}
MC_DomainsOf == [s \in MC_Subs |-> IF s = s1 THEN {d1, d2} ELSE {}]
MC_Operations == 1..2
MC_Symmetry == Permutations({d1, d2})
=============================================================================
