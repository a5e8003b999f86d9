----------------------------- MODULE MCSessions -----------------------------
(* Instances of Sessions for model checking.                               *)
EXTENDS Sessions, TLC

CONSTANTS e1, e2, b1, b2

\* Two people with a browser each.
TwoOwners == b1 :> e1 @@ b2 :> e2

\* One person with two browsers.
OneOwner == b1 :> e1 @@ b2 :> e1

\* Requests name accounts and tokens, and are compared and never ordered.
Symmetry == Permutations(Requests)
=============================================================================
