----------------------------- MODULE MC_PhpFpm -----------------------------
(* PhpFpm with three versions of PHP, two sites and three operations.      *)
EXTENDS PhpFpm, TLC

CONSTANTS v1, v2, v3, s1, s2

Set(s, v) == [kind |-> "set", site |-> s, version |-> v]
Create == [kind |-> "create", site |-> s1]
Delete(s) == [kind |-> "delete", site |-> s]

(* The life of a site, also of one that is deleted under another version   *)
(* and made anew, the same change twice, a change back and forth, two sites *)
(* that move to one version, and two creations.                            *)
MCWishes ==
  {<<Create, Set(s1, v2), Delete(s1)>>, <<Set(s1, v2), Set(s1, v2), Delete(s1)>>,
   <<Set(s1, v2), Set(s1, v3), Set(s1, v1)>>, <<Set(s1, v2), Set(s2, v2), Delete(s1)>>,
   <<Create, Create, Set(s1, v3)>>}

(* A new site, or one of the default version, which the other site runs,   *)
(* too.                                                                    *)
MCBefore == {(s1 :> v) @@ (s2 :> v1) : v \in {NoRow, v1}}

(* A site of another version, which may be made anew.                      *)
MCRecreated == {<<Delete(s1), Create, Set(s1, v2)>>}
MCElsewhere == {(s1 :> v2) @@ (s2 :> v1)}

=============================================================================
