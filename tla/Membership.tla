----------------------------- MODULE Membership -----------------------------
(***************************************************************************)
(* What registration, Google login and changePassword promise together: a  *)
(* person has no account, or one, which stays; it has the password of a    *)
(* registration that was on offer, or none when it comes from Google.      *)
(* Accounts, and Backend with Google login, implement this when clients    *)
(* wait for their replies.                                                 *)
(***************************************************************************)
CONSTANTS Addresses, Secrets, None

VARIABLES
  held,    \* the passwords of the accounts of an address; None: by Google
  offered  \* the passwords of its registrations

membershipVars == <<held, offered>>

MembershipInit ==
  /\ held \in [Addresses -> {{}, {None}} \union {{p} : p \in Secrets}]
  /\ offered = [a \in Addresses |-> {}]

\* A registration is for who has no account, and replaces the one before.
Offer(a, p) ==
  /\ held[a] = {} /\ offered[a] = {}
  /\ offered' = [offered EXCEPT ![a] = {p}]
  /\ UNCHANGED held

Withdraw(a) ==
  /\ offered' = [offered EXCEPT ![a] = {}]
  /\ UNCHANGED held

Join(a) ==
  /\ held[a] = {}
  /\ \E p \in offered[a] \union {None} : held' = [held EXCEPT ![a] = {p}]
  /\ UNCHANGED offered

Change(a, p) ==
  /\ held[a] \notin {{}, {None}, {p}}
  /\ held' = [held EXCEPT ![a] = {p}]
  /\ UNCHANGED offered

MembershipNext ==
  \E a \in Addresses :
    \/ Withdraw(a) \/ Join(a)
    \/ \E p \in Secrets : Offer(a, p) \/ Change(a, p)

MembershipSpec == MembershipInit /\ [][MembershipNext]_membershipVars
=============================================================================
