------------------------------ MODULE Accounts ------------------------------
(***************************************************************************)
(* The account lifecycle: UserService (register, verifyUser) and           *)
(* ForgotService (forgotOtp, changePassword) with the two controllers that *)
(* call them, composed with the one-time passwords of OtpService.          *)
(*                                                                         *)
(*   POST users/register      users, unverifiedusers, then sendOtp         *)
(*   POST users/verify-otp    verifyOtp, then unverifiedusers, users       *)
(*   POST auth/forgotOtp      users, then sendOtp                          *)
(*   PATCH auth/changePassword  users                                      *)
(*                                                                         *)
(* Neither collection has a unique index on email, so nothing but the      *)
(* order of the calls keeps an address from having two documents.          *)
(***************************************************************************)
EXTENDS OtpService

CONSTANT Passwords

ASSUME AccountsAssumption ==
  /\ Requests \cap Emails = {}
  /\ Nil \notin Requests \union Passwords

VARIABLES
  users,            \* the users collection
  unverifiedUsers,  \* the unverifiedusers collection
  password,         \* body.password of a registration or a change
  draft,            \* unverifiedUser: the registration a verification read
  account           \* user: the account changePassword read

accountVars == <<users, unverifiedUsers, password, draft, account>>
vars == <<serverVars, otpVars, accountVars>>

\* A bcrypt hash keeps what was hashed, and how often.
Hash(pw) == [text |-> pw.text, hashes |-> pw.hashes + 1]
Plain(p) == [text |-> p, hashes |-> 0]
StoredPassword == [text : Passwords, hashes : Nat]

\* A document's id names the request that created it, or the address when the
\* account is older than the behaviour.
UserDoc ==
  [id : Requests \union Emails, email : Emails,
   password : StoredPassword \union {Nil}, isGoogle : BOOLEAN]
UnverifiedUserDoc == [id : Requests, email : Emails, password : StoredPassword]

ASSUME AccountDocsAssumption ==
  Nil \notin StoredPassword /\ Nil \notin UserDoc /\ Nil \notin UnverifiedUserDoc

\* The accounts a database may hold at the start: registered, or by Google.
Founders ==
  LET Registered(e, p) == [id |-> e, email |-> e,
                           password |-> Hash(Plain(p)), isGoogle |-> FALSE]
      ByGoogle(e) == [id |-> e, email |-> e, password |-> Nil, isGoogle |-> TRUE]
  IN {Registered(e, p) : e \in Emails, p \in Passwords}
       \union {ByGoogle(e) : e \in Emails}

AtMostOneFor(docs, e) ==
  \A d1, d2 \in docs : d1.email = e /\ d2.email = e => d1 = d2

AccountsInit ==
  /\ OtpServiceInit
  /\ users \in SUBSET Founders
  /\ \A e \in Emails : AtMostOneFor(users, e)
  /\ unverifiedUsers = {}
  /\ password = [r \in Requests |-> Nil]
  /\ draft = [r \in Requests |-> Nil]
  /\ account = [r \in Requests |-> Nil]

\* findByEmail and findUnverifiedUser are findOne without a sort, and
\* deleteUnverifiedUser is deleteOne: any matching document.
UsersOf(e) == {u \in users : u.email = e}
UnverifiedOf(e) == {u \in unverifiedUsers : u.email = e}

\* A bug: the filter is forgotten.
DeleteAnyUnverified(e) ==
  \/ unverifiedUsers = {} /\ unverifiedUsers' = unverifiedUsers
  \/ \E u \in unverifiedUsers : unverifiedUsers' = unverifiedUsers \ {u}

DeleteUnverifiedUser(e) ==
  \/ UnverifiedOf(e) = {} /\ unverifiedUsers' = unverifiedUsers
  \/ \E u \in UnverifiedOf(e) : unverifiedUsers' = unverifiedUsers \ {u}

-----------------------------------------------------------------------------
(* POST users/register                                                     *)

Register(r, e, p) ==
  /\ Arrive(r, "register", e, "findVerified")
  /\ password' = [password EXCEPT ![r] = p]
  /\ UNCHANGED <<otpVars, users, unverifiedUsers, draft, account>>

\* The catch of register turns its own ConflictException into a
\* InternalServerErrorException.
RegisterFindsVerified(r) ==
  /\ pc[r] = "findVerified"
  /\ \/ UsersOf(email[r]) # {} /\ Reply(r, "serverError")
     \/ UsersOf(email[r]) = {} /\ Goto(r, "findUnverified")
  /\ UNCHANGED <<otpVars, accountVars>>

RegisterFindsUnverified(r) ==
  /\ pc[r] = "findUnverified"
  /\ \/ UnverifiedOf(email[r]) # {} /\ Goto(r, "deleteUnverified")
     \/ UnverifiedOf(email[r]) = {} /\ Goto(r, "createUnverified")
  /\ UNCHANGED <<otpVars, accountVars>>

\* A bug: the old registration stays.
KeepsUnverified(r) ==
  /\ pc[r] = "deleteUnverified"
  /\ Goto(r, "createUnverified")
  /\ UNCHANGED <<otpVars, accountVars>>

ReplaceUnverified(r) ==
  /\ pc[r] = "deleteUnverified"
  /\ DeleteUnverifiedUser(email[r])
  /\ Goto(r, "createUnverified")
  /\ UNCHANGED <<otpVars, users, password, draft, account>>

\* The unverified schema has no hook: the password is stored as it came.
CreateUnverified(r) ==
  /\ pc[r] = "createUnverified"
  /\ unverifiedUsers' = unverifiedUsers \union
       {[id |-> r, email |-> email[r], password |-> Plain(password[r])]}
  /\ CallSendOtp(r, email[r])
  /\ Goto(r, "deleteOtps")
  /\ UNCHANGED <<otps, code, got, mailed, users, password, draft, account>>

-----------------------------------------------------------------------------
(* POST users/verify-otp, which goes on where verifyOtp returns.           *)

VerifyOtp(r, e, c) ==
  /\ Arrive(r, "verify-otp", e, "findOtp")
  /\ code' = [code EXCEPT ![r] = c]
  /\ UNCHANGED <<otps, got, mailed, older, accountVars>>

\* A bug: the filter is forgotten.
VerifyFindsAnyone(r) ==
  /\ pc[r] = "otpVerified"
  /\ route[r] = "verify-otp"
  /\ \E u \in unverifiedUsers : draft' = [draft EXCEPT ![r] = u]
  /\ Goto(r, "checkVerified")
  /\ UNCHANGED <<otpVars, users, unverifiedUsers, password, account>>

VerifyFindsUnverified(r) ==
  /\ pc[r] = "otpVerified"
  /\ route[r] = "verify-otp"
  /\ \/ /\ UnverifiedOf(email[r]) = {}
        /\ Reply(r, "serverError")
        /\ UNCHANGED draft
     \/ \E u \in UnverifiedOf(email[r]) :
          /\ draft' = [draft EXCEPT ![r] = u]
          /\ Goto(r, "checkVerified")
  /\ UNCHANGED <<otpVars, users, unverifiedUsers, password, account>>

\* A bug: the second check is left out, because register made it.
TrustsRegister(r) ==
  /\ pc[r] = "checkVerified"
  /\ Goto(r, "createUser")
  /\ UNCHANGED <<otpVars, accountVars>>

VerifyFindsVerified(r) ==
  /\ pc[r] = "checkVerified"
  /\ \/ UsersOf(email[r]) # {} /\ Reply(r, "serverError")
     \/ UsersOf(email[r]) = {} /\ Goto(r, "createUser")
  /\ UNCHANGED <<otpVars, accountVars>>

\* save() runs the schema's pre-save hook, which hashes the password.
CreateUser(r) ==
  /\ pc[r] = "createUser"
  /\ users' = users \union
       {[id |-> r, email |-> draft[r].email,
         password |-> Hash(draft[r].password), isGoogle |-> FALSE]}
  /\ Goto(r, "dropUnverified")
  /\ UNCHANGED <<otpVars, unverifiedUsers, password, draft, account>>

\* A bug: the registration is left behind.
ForgetsUnverified(r) ==
  /\ pc[r] = "dropUnverified"
  /\ Reply(r, "ok")
  /\ UNCHANGED <<otpVars, accountVars>>

DropUnverified(r) ==
  /\ pc[r] = "dropUnverified"
  /\ DeleteUnverifiedUser(email[r])
  /\ Reply(r, "ok")
  /\ UNCHANGED <<otpVars, users, password, draft, account>>

-----------------------------------------------------------------------------
(* POST auth/forgotOtp                                                     *)

ForgotOtp(r, e) ==
  /\ Arrive(r, "forgotOtp", e, "findForgetful")
  /\ UNCHANGED <<otpVars, accountVars>>

ForgotFindsUser(r) ==
  /\ pc[r] = "findForgetful"
  /\ \/ UsersOf(email[r]) = {} /\ Reply(r, "unauthorized")
     \/ UsersOf(email[r]) # {} /\ Goto(r, "findGoogleUser")
  /\ UNCHANGED <<otpVars, accountVars>>

ForgotFindsGoogleUser(r) ==
  /\ pc[r] = "findGoogleUser"
  /\ \/ /\ \E u \in UsersOf(email[r]) : u.isGoogle
        /\ Reply(r, "unauthorized")
        /\ UNCHANGED older
     \/ /\ \A u \in UsersOf(email[r]) : ~u.isGoogle
        /\ CallSendOtp(r, email[r])
        /\ Goto(r, "deleteOtps")
  /\ UNCHANGED <<otps, code, got, mailed, accountVars>>

-----------------------------------------------------------------------------
(* PATCH auth/changePassword                                               *)

ChangePassword(r, e, p) ==
  /\ Arrive(r, "changePassword", e, "findOwner")
  /\ password' = [password EXCEPT ![r] = p]
  /\ UNCHANGED <<otpVars, users, unverifiedUsers, draft, account>>

\* A bug: the null check comes too late.
ChecksUserLater(r) ==
  /\ pc[r] = "findOwner"
  /\ \/ UsersOf(email[r]) = {} /\ UNCHANGED account
     \/ \E u \in UsersOf(email[r]) : account' = [account EXCEPT ![r] = u]
  /\ Goto(r, "comparePassword")
  /\ UNCHANGED <<otpVars, users, unverifiedUsers, password, draft>>

\* The log line reads user.password before the null check: an address without
\* an account ends in a TypeError.
ChangeFindsUser(r) ==
  /\ pc[r] = "findOwner"
  /\ \/ /\ UsersOf(email[r]) = {}
        /\ Reply(r, "serverError")
        /\ UNCHANGED account
     \/ \E u \in UsersOf(email[r]) :
          /\ account' = [account EXCEPT ![r] = u]
          /\ Goto(r, "comparePassword")
  /\ UNCHANGED <<otpVars, users, unverifiedUsers, password, draft>>

\* A bug: any password is new enough.
SkipsCompare(r) ==
  /\ pc[r] = "comparePassword"
  /\ Goto(r, "updateUser")
  /\ UNCHANGED <<otpVars, accountVars>>

\* A bug: an account without a password is given one.
AllowsFirstPassword(r) ==
  /\ pc[r] = "comparePassword"
  /\ IF account[r].password = Hash(Plain(password[r]))
     THEN Reply(r, "badRequest")
     ELSE Goto(r, "updateUser")
  /\ UNCHANGED <<otpVars, accountVars>>

\* bcrypt.compare rejects when the account has no password, and matches only
\* what was hashed once.
ComparePassword(r) ==
  /\ pc[r] = "comparePassword"
  /\ \/ account[r].password = Nil /\ Reply(r, "serverError")
     \/ account[r].password = Hash(Plain(password[r])) /\ Reply(r, "badRequest")
     \/ /\ account[r].password \notin {Nil, Hash(Plain(password[r]))}
        /\ Goto(r, "updateUser")
  /\ UNCHANGED <<otpVars, accountVars>>

\* A bug: user.save(), whose hook hashes the hash.
SavesUser(r) ==
  /\ pc[r] = "updateUser"
  /\ \E u \in UsersOf(email[r]) :
       users' = (users \ {u}) \union
                  {[u EXCEPT !.password = Hash(Hash(Plain(password[r])))]}
  /\ Reply(r, "ok")
  /\ UNCHANGED <<otpVars, unverifiedUsers, password, draft, account>>

\* findOneAndUpdate looks the account up again, by email, and runs no hook.
UpdateUser(r) ==
  /\ pc[r] = "updateUser"
  /\ \/ UsersOf(email[r]) = {} /\ users' = users
     \/ \E u \in UsersOf(email[r]) :
          users' = (users \ {u}) \union
                     {[u EXCEPT !.password = Hash(Plain(password[r]))]}
  /\ Reply(r, "ok")
  /\ UNCHANGED <<otpVars, unverifiedUsers, password, draft, account>>

-----------------------------------------------------------------------------

AccountArrival(r) ==
  \E e \in Emails :
    \/ ForgotOtp(r, e)
    \/ \E c \in Codes : VerifyOtp(r, e, c)
    \/ \E p \in Passwords : Register(r, e, p) \/ ChangePassword(r, e, p)

AccountHandler(r) ==
  \/ RegisterFindsVerified(r) \/ RegisterFindsUnverified(r)
  \/ ReplaceUnverified(r) \/ CreateUnverified(r)
  \/ VerifyFindsUnverified(r) \/ VerifyFindsVerified(r)
  \/ CreateUser(r) \/ DropUnverified(r)
  \/ ForgotFindsUser(r) \/ ForgotFindsGoogleUser(r)
  \/ ChangeFindsUser(r) \/ ComparePassword(r) \/ UpdateUser(r)

Handler(r) ==
  \/ AccountHandler(r)
  \/ OtpHandler(r) /\ UNCHANGED accountVars

AccountsNext ==
  \/ \E r \in Requests : AccountArrival(r) \/ Handler(r)
  \/ \E r \in Requests : OtpArrival(r) /\ UNCHANGED accountVars
  \/ Environment /\ UNCHANGED <<otpVars, accountVars>>

AccountsSafety == AccountsInit /\ [][AccountsNext]_vars

AccountsSpec == AccountsSafety /\ \A r \in Requests : WF_vars(Handler(r))

-----------------------------------------------------------------------------
(* Properties that hold however requests overlap, fail and crash.          *)

AccountLabels ==
  {"findVerified", "findUnverified", "deleteUnverified", "createUnverified",
   "checkVerified", "createUser", "dropUnverified",
   "findForgetful", "findGoogleUser",
   "findOwner", "comparePassword", "updateUser"}

AccountVarsTypeOK ==
  /\ users \in SUBSET UserDoc
  /\ unverifiedUsers \in SUBSET UnverifiedUserDoc
  /\ password \in [Requests -> Passwords \union {Nil}]
  /\ draft \in [Requests -> UnverifiedUserDoc \union {Nil}]
  /\ account \in [Requests -> UserDoc \union {Nil}]
  /\ \A r \in Requests :
       /\ pc[r] \in {"checkVerified", "createUser"} => draft[r] # Nil
       /\ pc[r] \in {"comparePassword", "updateUser"} => account[r] # Nil

\* The documents have the shapes of the schemas, and no handler goes on to use
\* a document that its query did not find.
AccountsTypeOK ==
  ServerTypeOK(OtpLabels \union AccountLabels) /\ OtpVarsTypeOK /\ AccountVarsTypeOK

\* An account that is new was created by a verification of its address that
\* presented a code some send had saved for that address, and it holds the
\* password, hashed, of a registration of that address, unless changed since.
AccountFromCode ==
  \A u \in users : u.id \in Requests =>
    LET s == got[u.id].id
        d == draft[u.id]
    IN /\ route[u.id] = "verify-otp"
       /\ email[u.id] = u.email
       /\ email[s] = u.email
       /\ route[s] \in SendRoutes
       /\ got[s].otp = code[u.id]
       /\ got[u.id] \notin otps
       /\ route[d.id] = "register"
       /\ email[d.id] = u.email
       /\ d.password = Plain(password[d.id])

\* r may be about to put a registration in the place of one it has deleted, or
\* has been stopped before it could.
Replacing(r) ==
  /\ route[r] = "register"
  /\ pc[r] \in {"createUnverified", "lost"} \/ reply[r] = "serverError"

\* A registration the client was told of stays until there is an account: a
\* later register may replace it, and fail half way, but no other address's
\* requests and no failed or crashed verification lose it.
RegistrationKept ==
  \A r \in Requests : route[r] = "register" /\ reply[r] = "ok" =>
    \/ UnverifiedOf(email[r]) # {}
    \/ UsersOf(email[r]) # {}
    \/ \E q \in Requests \ {r} : email[q] = email[r] /\ Replacing(q)

\* Every password an account holds is hashed exactly once, as login compares
\* it, and was submitted for that address by a registration or a change, or is
\* the one it had at the start.
PasswordWasSubmitted ==
  \A u \in users : u.password # Nil =>
    \/ u \in Founders
    \/ \E r \in Requests :
         /\ route[r] \in {"register", "changePassword"}
         /\ email[r] = u.email
         /\ u.password = Hash(Plain(password[r]))

-----------------------------------------------------------------------------
(* Properties that need clients to wait: with Overlapping the calls of two  *)
(* requests for one address interleave, and each of these can fail.         *)

\* "Registers a new user if the email is not already taken": an address never
\* has two accounts.
OneAccountPerEmail == \A e \in Emails : AtMostOneFor(users, e)

\* register replaces the registration that an address has.
OneRegistrationPerEmail == \A e \in Emails : AtMostOneFor(unverifiedUsers, e)

\* verifyUser converts a registration: when it has succeeded, its address has an
\* account and no registration is left, nor is a later register able to store one.
VerifiedLeavesNoRegistration ==
  \A r \in Requests : route[r] = "verify-otp" /\ reply[r] = "ok" =>
    UsersOf(email[r]) # {} /\ UnverifiedOf(email[r]) = {}

\* r, a change of the password, succeeds in this step.
ChangeAnswered(r) ==
  route[r] = "changePassword" /\ reply[r] = Nil /\ reply'[r] = "ok"

\* The address of r has an account that login lets in with the password of r.
HoldsNew(r) == \E u \in UsersOf(email[r]) : u.password = Hash(Plain(password[r]))

\* "Changes the user's password if the new password is different from the old
\* one": the step that answers a change stores the new password, hashed once,
\* in the account of the address, which held another until then.
ChangeReallyChanges ==
  [][\A r \in Requests : ChangeAnswered(r) => ~HoldsNew(r) /\ HoldsNew(r)']_vars

\* What an account of address e was made with: a password, or Google.
HeldBy(e) ==
  {p \in Passwords : \E u \in UsersOf(e) : u.password = Hash(Plain(p))}
    \union {u.password : u \in {v \in UsersOf(e) : v.password = Nil}}
OfferedTo(e) == {p \in Passwords : \E u \in UnverifiedOf(e) : u.password = Plain(p)}

M == INSTANCE Membership WITH
  Addresses <- Emails, Secrets <- Passwords, None <- Nil,
  held <- [e \in Emails |-> HeldBy(e)],
  offered <- [e \in Emails |-> OfferedTo(e)]

\* The handlers' separate finds, inserts and deletes come to this when clients
\* wait: an address joins once, with the password of the one registration it
\* has or through Google, and from then on only changePassword touches it.
ImplementsMembership == M!MembershipSpec
=============================================================================
