---------------------------- MODULE MCOtpService ----------------------------
(* Instances of OtpService for model checking.                             *)
EXTENDS OtpService, TLC

\* Requests, addresses and codes are compared and never ordered.
Symmetry ==
  Permutations(Requests) \union Permutations(Emails) \union Permutations(Codes)
=============================================================================
