----------------------------- MODULE MCBackend ------------------------------
(* Instances of Backend for model checking.                                *)
EXTENDS Backend, TLC

CONSTANTS e1, b1

\* One person with one browser.
OneOwner == b1 :> e1

\* Requests name documents; requests and passwords are compared and never
\* ordered.
Symmetry == Permutations(Requests) \union Permutations(Passwords)
=============================================================================
