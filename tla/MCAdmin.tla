------------------------------ MODULE MCAdmin -------------------------------
(* Instances of Admin for model checking.                                  *)
EXTENDS Admin, TLC

CONSTANTS e1, e2, b1, b2

\* Two people with a browser each.
TwoOwners == b1 :> e1 @@ b2 :> e2

\* Requests name tokens; requests and accounts are compared and never ordered.
\* The two people may be swapped, each with the browser that is theirs.
Symmetry ==
  Permutations(Requests) \union Permutations(UserIds)
    \union {e1 :> e2 @@ e2 :> e1 @@ b1 :> b2 @@ b2 :> b1}
=============================================================================
