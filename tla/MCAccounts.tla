----------------------------- MODULE MCAccounts -----------------------------
(* Instances of Accounts for model checking.                               *)
EXTENDS Accounts, TLC

\* Requests, addresses, codes and passwords are compared and never ordered.
Symmetry ==
  Permutations(Requests) \union Permutations(Emails)
    \union Permutations(Codes) \union Permutations(Passwords)
=============================================================================
