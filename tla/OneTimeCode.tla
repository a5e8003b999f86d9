---------------------------- MODULE OneTimeCode -----------------------------
(***************************************************************************)
(* What one-time passwords promise: an address has at most one valid code, *)
(* and a verification is a single step that needs that code and uses it    *)
(* up.  OtpService implements this when clients wait for their replies.    *)
(***************************************************************************)
CONSTANTS Addresses, IssuedCodes, None

VARIABLES
  valid,    \* the code an address has
  issued,   \* the codes that were ever issued
  admitted  \* the codes whose verification got through, and has not failed since

codeVars == <<valid, issued, admitted>>

CodeInit ==
  /\ valid = [a \in Addresses |-> None]
  /\ issued = {}
  /\ admitted = {}

\* An address without a code is issued one that was never issued before.
Issue(a) ==
  /\ valid[a] = None
  /\ valid'[a] \in IssuedCodes
  /\ valid'[a] \notin issued
  /\ valid' = [valid EXCEPT ![a] = valid'[a]]
  /\ issued' = issued \union {valid'[a]}
  /\ UNCHANGED admitted

\* The next send revokes it.
Revoke(a) ==
  /\ valid' = [valid EXCEPT ![a] = None]
  /\ UNCHANGED <<issued, admitted>>

Admit(a) ==
  /\ valid[a] # None
  /\ admitted' = admitted \union {valid[a]}
  /\ valid' = [valid EXCEPT ![a] = None]
  /\ UNCHANGED issued

\* An error or a crash: the client is not told, and has to ask for a new code.
Retract ==
  /\ admitted' \in SUBSET admitted
  /\ UNCHANGED <<valid, issued>>

CodeNext ==
  \/ \E a \in Addresses : Issue(a) \/ Revoke(a) \/ Admit(a)
  \/ Retract

CodeSpec == CodeInit /\ [][CodeNext]_codeVars
=============================================================================
