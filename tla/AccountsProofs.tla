--------------------------- MODULE AccountsProofs ---------------------------
(***************************************************************************)
(* What TLAPS proves about Accounts for any number of requests, addresses, *)
(* codes and passwords, overlapping and failing in any way.                *)
(***************************************************************************)
EXTENDS Accounts, OtpServiceProofs

\* The steps of the handlers of Accounts.  The invariant is stated for any set
\* L of labels that has these, for the modules that add handlers.
HandlerLabels == OtpLabels \union AccountLabels

-----------------------------------------------------------------------------
(* The inductive invariant: that of OtpService, and what follows.          *)

\* Before a handler calls sendOtp, it has saved no code.
BeforeSend == {"findVerified", "findUnverified", "deleteUnverified",
               "createUnverified", "findForgetful", "findGoogleUser"}

\* A handler is at the steps of its endpoint, with the body it came with.
AccountsOnTheirWay ==
  \A r \in Requests :
    /\ pc[r] \in {"findVerified", "findUnverified", "deleteUnverified",
                  "createUnverified"} => route[r] = "register"
    /\ pc[r] \in {"checkVerified", "createUser", "dropUnverified"} =>
         route[r] = "verify-otp"
    /\ pc[r] \in {"findForgetful", "findGoogleUser"} => route[r] = "forgotOtp"
    /\ pc[r] \in {"findOwner", "comparePassword", "updateUser"} =>
         route[r] = "changePassword"
    /\ pc[r] \in BeforeSend => got[r] = Nil
    /\ pc[r] = "idle" => draft[r] = Nil
    /\ pc[r] # "idle" /\ route[r] \in {"register", "changePassword"} =>
         password[r] \in Passwords
    /\ pc[r] \in AccountLabels => email[r] \in Emails

\* d is a registration that request d.id made, which is past createUnverified.
WasMade(d) ==
  /\ pc[d.id] \in {"deleteOtps", "saveOtp", "mailOtp", "replied", "lost"}
  /\ route[d.id] = "register"
  /\ email[d.id] = d.email
  /\ d.password = Plain(password[d.id])

EveryRegistrationWasMade ==
  /\ \A d \in unverifiedUsers : WasMade(d)
  /\ \A r \in Requests : draft[r] # Nil =>
       WasMade(draft[r]) /\ draft[r].email = email[r]

\* The account a verification created: its code was compared, and is spent for
\* good, since nobody saves the same document again.  (Accounts that Google
\* creates have no code; they come in with Backend.)
WasVerified(u) ==
  /\ pc[u.id] \in {"dropUnverified", "replied", "lost"}
  /\ route[u.id] = "verify-otp"
  /\ email[u.id] = u.email
  /\ got[u.id] # Nil
  /\ got[u.id].otp = code[u.id]
  /\ got[u.id] \notin otps
  /\ draft[u.id] # Nil

EveryAccountWasVerified ==
  \A u \in users : u.id \in Requests /\ ~ u.isGoogle => WasVerified(u)

\* A password comes from the start or from a request that has arrived.
WasSubmitted(u) ==
  \/ u \in Founders
  \/ \E r \in Requests :
       /\ pc[r] # "idle"
       /\ route[r] \in {"register", "changePassword"}
       /\ email[r] = u.email
       /\ u.password = Hash(Plain(password[r]))

EveryPasswordWasSubmitted ==
  \A u \in users : u.password # Nil => WasSubmitted(u)

\* The registration of r exists, or what became of it does.
HasRegistered(r) ==
  route[r] = "register" /\ (pc[r] \in {"deleteOtps", "saveOtp", "mailOtp"} \/ reply[r] = "ok")

EveryRegistrationKept ==
  /\ \A r \in Requests : HasRegistered(r) =>
       \/ UnverifiedOf(email[r]) # {}
       \/ UsersOf(email[r]) # {}
       \/ \E q \in Requests \ {r} : email[q] = email[r] /\ Replacing(q)
  /\ \A r \in Requests : pc[r] = "dropUnverified" => UsersOf(email[r]) # {}

AccountsInv(L) ==
  /\ OtpInv(L)
  /\ AccountVarsTypeOK
  /\ AccountsOnTheirWay
  /\ EveryRegistrationWasMade
  /\ EveryAccountWasVerified
  /\ EveryPasswordWasSubmitted
  /\ EveryRegistrationKept

\* A password that is stored has the shape of one, hashed or not.
LEMMA PasswordTypes ==
  /\ \A p \in Passwords : Plain(p) \in StoredPassword
  /\ \A pw \in StoredPassword : Hash(pw) \in StoredPassword
BY DEF Plain, Hash, StoredPassword

-----------------------------------------------------------------------------
(* The part of OtpService.                                                 *)

\* A handler that leaves the codes alone, from a step after verifyOtp or before
\* sendOtp to another, or to its reply, keeps the invariant of OtpService.
LEMMA OtherStepInv ==
  ASSUME NEW L, HandlerLabels \subseteq L,
         OtpInv(L), AccountsOnTheirWay, NEW r \in Requests, UNCHANGED otpVars,
         pc[r] \in AccountLabels \union {"otpVerified"},
         \/ \E l \in AccountLabels : Goto(r, l) /\ (l \in BeforeSend => got[r] = Nil)
         \/ Reply(r, "ok") /\ pc[r] \in {"dropUnverified", "updateUser"}
         \/ \E o \in Outcomes \ {"ok"} : Reply(r, o)
  PROVE  OtpInv(L)'
<1> USE ServerAssumption, OtpAssumption
    DEF OtpInv, otpVars, Goto, Reply, HandlerLabels, AccountLabels, BeforeSend
<1>1. ServerInv(L)' /\ OtpVarsTypeOK'
  BY DEF ServerInv, OtpVarsTypeOK, OtpLabels, AtRest, Outcomes
<1>2. EveryDocWasSaved' /\ GotOfItsAddress' /\ OnItsWay'
  BY DEF EveryDocWasSaved, WasSaved, GotOfItsAddress, OnItsWay, ServerInv,
     OtpVarsTypeOK, OtpDoc
<1>3. AcceptedMatches' /\ OlderDeleted' /\ SpentCodeIsGone'
  BY DEF AcceptedMatches, OlderDeleted, Saved, SpentCodeIsGone, Spent,
    Accepted,
     ServerInv, AtRest, AccountsOnTheirWay, OnItsWay, VerifyRoutes
<1> QED BY <1>1, <1>2, <1>3

\* So does the arrival of a request that has no code to verify.
LEMMA OtherArrivalInv ==
  ASSUME NEW L, HandlerLabels \subseteq L,
         OtpInv(L), NEW r \in Requests, UNCHANGED otpVars, NEW e \in Emails,
         NEW rt, rt \notin VerifyRoutes, NEW l \in {"findVerified",
         "findForgetful", "findOwner"}, Arrive(r, rt, e, l)
  PROVE  OtpInv(L)'
<1> USE ServerAssumption, OtpAssumption
    DEF OtpInv, otpVars, Arrive, HandlerLabels, AccountLabels
<1>1. ServerInv(L)' /\ OtpVarsTypeOK'
  BY DEF ServerInv, OtpVarsTypeOK, AtRest
<1>2. EveryDocWasSaved' /\ GotOfItsAddress' /\ OnItsWay'
  BY DEF EveryDocWasSaved, WasSaved, GotOfItsAddress, OnItsWay, ServerInv,
     OtpVarsTypeOK, OtpDoc
<1>3. AcceptedMatches' /\ OlderDeleted' /\ SpentCodeIsGone'
  BY DEF AcceptedMatches, OlderDeleted, Saved, SpentCodeIsGone, Spent,
    Accepted,
     ServerInv, OnItsWay
<1> QED BY <1>1, <1>2, <1>3

\* And that of one that has: it is a call of verifyOtp.
LEMMA VerifyArrivalInv ==
  ASSUME NEW L, HandlerLabels \subseteq L,
         OtpInv(L), NEW r \in Requests, NEW e \in Emails, NEW c \in Codes,
         VerifyOtp(r, e, c)
  PROVE  OtpInv(L)'
<1> USE ServerAssumption, OtpAssumption DEF OtpInv, VerifyOtp, Arrive,
      HandlerLabels
<1>1. ServerInv(L)' /\ OtpVarsTypeOK'
  BY DEF ServerInv, OtpVarsTypeOK, OtpLabels
<1>2. EveryDocWasSaved' /\ GotOfItsAddress' /\ OnItsWay'
  BY DEF EveryDocWasSaved, WasSaved, GotOfItsAddress, OnItsWay, VerifyRoutes,
     ServerInv
<1>3. AcceptedMatches' /\ OlderDeleted' /\ SpentCodeIsGone'
  BY DEF AcceptedMatches, Accepted, OlderDeleted, Saved, SpentCodeIsGone,
    Spent,
     OnItsWay, SendRoutes, AtRest, Outcomes
<1> QED BY <1>1, <1>2, <1>3

\* A handler that goes on to sendOtp notes the codes there are.
LEMMA CallSendInv ==
  ASSUME NEW L, HandlerLabels \subseteq L,
         OtpInv(L), AccountsOnTheirWay, NEW r \in Requests,
         pc[r] \in {"createUnverified", "findGoogleUser"},
         CallSendOtp(r, email[r]), Goto(r, "deleteOtps"),
         UNCHANGED <<otps, code, got, mailed>>
  PROVE  OtpInv(L)'
<1> USE ServerAssumption, OtpAssumption
    DEF OtpInv, CallSendOtp, OtpsOf, Goto, HandlerLabels, OtpLabels, AccountLabels
<1>1. ServerInv(L)' /\ OtpVarsTypeOK'
  BY DEF ServerInv, OtpVarsTypeOK
<1>2. EveryDocWasSaved' /\ GotOfItsAddress' /\ OnItsWay'
  BY DEF EveryDocWasSaved, WasSaved, GotOfItsAddress, OnItsWay, ServerInv,
     OtpVarsTypeOK, OtpDoc, AccountsOnTheirWay, SendRoutes, BeforeSend
<1>3. AcceptedMatches' /\ OlderDeleted' /\ SpentCodeIsGone'
  BY DEF AcceptedMatches, OlderDeleted, Saved, SpentCodeIsGone, Spent,
    Accepted,
     AccountsOnTheirWay, BeforeSend, VerifyRoutes
<1> QED BY <1>1, <1>2, <1>3

-----------------------------------------------------------------------------
(* The part of Accounts.                                                   *)

\* Every arrival and every step of a handler of Accounts keeps the invariant.
LEMMA AccountStepInv ==
  ASSUME NEW L, HandlerLabels \subseteq L,
         AccountsInv(L), NEW r \in Requests, AccountArrival(r) \/ AccountHandler(r)
  PROVE  AccountsInv(L)'
<1> USE ServerAssumption, OtpAssumption, AccountsAssumption,
       AccountDocsAssumption DEF AccountsInv
<1>1. CASE \E e \in Emails, p \in Passwords : Register(r, e, p)
  <2> USE <1>1 DEF Register
  <2>1. OtpInv(L)'
    BY OtherArrivalInv DEF VerifyRoutes
  <2> USE DEF Arrive, otpVars, accountVars
  <2>2. AccountVarsTypeOK' /\ AccountsOnTheirWay'
    BY DEF OtpInv, ServerInv, AccountVarsTypeOK, AccountsOnTheirWay,
      OnItsWay, BeforeSend, AccountLabels
  <2>3. EveryRegistrationWasMade'
    BY DEF OtpInv, ServerInv, AccountVarsTypeOK, AccountsOnTheirWay,
      EveryRegistrationWasMade, WasMade, UnverifiedUserDoc
  <2>4. EveryAccountWasVerified'
    BY DEF OtpInv, ServerInv, AccountVarsTypeOK, AccountsOnTheirWay,
      EveryAccountWasVerified, WasVerified, UserDoc
  <2>5. EveryPasswordWasSubmitted'
    BY DEF OtpInv, ServerInv, AccountVarsTypeOK, AccountsOnTheirWay,
      EveryPasswordWasSubmitted, WasSubmitted, UserDoc
  <2>6. EveryRegistrationKept'
    BY DEF OtpInv, ServerInv, AccountVarsTypeOK, AccountsOnTheirWay,
      OnItsWay, Outcomes, EveryRegistrationKept, HasRegistered, Replacing,
      UsersOf, UnverifiedOf
  <2> QED BY <2>1, <2>2, <2>3, <2>4, <2>5, <2>6
<1>2. CASE \E e \in Emails, c \in Codes : VerifyOtp(r, e, c)
  <2> USE <1>2 DEF VerifyOtp
  <2>1. OtpInv(L)'
    BY VerifyArrivalInv
  <2> USE DEF Arrive, otpVars, accountVars
  <2>2. AccountVarsTypeOK' /\ AccountsOnTheirWay'
    BY DEF OtpInv, ServerInv, AccountVarsTypeOK, AccountsOnTheirWay,
      OnItsWay, BeforeSend, AccountLabels
  <2>3. EveryRegistrationWasMade'
    BY DEF OtpInv, ServerInv, AccountVarsTypeOK, AccountsOnTheirWay,
      EveryRegistrationWasMade, WasMade, UnverifiedUserDoc
  <2>4. EveryAccountWasVerified'
    BY DEF OtpInv, ServerInv, AccountVarsTypeOK, AccountsOnTheirWay,
      EveryAccountWasVerified, WasVerified, UserDoc
  <2>5. EveryPasswordWasSubmitted'
    BY DEF OtpInv, ServerInv, AccountVarsTypeOK, AccountsOnTheirWay,
      EveryPasswordWasSubmitted, WasSubmitted, UserDoc
  <2>6. EveryRegistrationKept'
    BY DEF OtpInv, ServerInv, AccountVarsTypeOK, AccountsOnTheirWay,
      OnItsWay, Outcomes, EveryRegistrationKept, HasRegistered, Replacing,
      UsersOf, UnverifiedOf
  <2> QED BY <2>1, <2>2, <2>3, <2>4, <2>5, <2>6
<1>3. CASE \E e \in Emails : ForgotOtp(r, e)
  <2> USE <1>3 DEF ForgotOtp
  <2>1. OtpInv(L)'
    BY OtherArrivalInv DEF VerifyRoutes
  <2> USE DEF Arrive, otpVars, accountVars
  <2>2. AccountVarsTypeOK' /\ AccountsOnTheirWay'
    BY DEF OtpInv, ServerInv, AccountVarsTypeOK, AccountsOnTheirWay,
      OnItsWay, BeforeSend, AccountLabels
  <2>3. EveryRegistrationWasMade'
    BY DEF OtpInv, ServerInv, AccountVarsTypeOK, AccountsOnTheirWay,
      EveryRegistrationWasMade, WasMade, UnverifiedUserDoc
  <2>4. EveryAccountWasVerified'
    BY DEF OtpInv, ServerInv, AccountVarsTypeOK, AccountsOnTheirWay,
      EveryAccountWasVerified, WasVerified, UserDoc
  <2>5. EveryPasswordWasSubmitted'
    BY DEF OtpInv, ServerInv, AccountVarsTypeOK, AccountsOnTheirWay,
      EveryPasswordWasSubmitted, WasSubmitted, UserDoc
  <2>6. EveryRegistrationKept'
    BY DEF OtpInv, ServerInv, AccountVarsTypeOK, AccountsOnTheirWay,
      OnItsWay, Outcomes, EveryRegistrationKept, HasRegistered, Replacing,
      UsersOf, UnverifiedOf
  <2> QED BY <2>1, <2>2, <2>3, <2>4, <2>5, <2>6
<1>4. CASE \E e \in Emails, p \in Passwords : ChangePassword(r, e, p)
  <2> USE <1>4 DEF ChangePassword
  <2>1. OtpInv(L)'
    BY OtherArrivalInv DEF VerifyRoutes
  <2> USE DEF Arrive, otpVars, accountVars
  <2>2. AccountVarsTypeOK' /\ AccountsOnTheirWay'
    BY DEF OtpInv, ServerInv, AccountVarsTypeOK, AccountsOnTheirWay,
      OnItsWay, BeforeSend, AccountLabels
  <2>3. EveryRegistrationWasMade'
    BY DEF OtpInv, ServerInv, AccountVarsTypeOK, AccountsOnTheirWay,
      EveryRegistrationWasMade, WasMade, UnverifiedUserDoc
  <2>4. EveryAccountWasVerified'
    BY DEF OtpInv, ServerInv, AccountVarsTypeOK, AccountsOnTheirWay,
      EveryAccountWasVerified, WasVerified, UserDoc
  <2>5. EveryPasswordWasSubmitted'
    BY DEF OtpInv, ServerInv, AccountVarsTypeOK, AccountsOnTheirWay,
      EveryPasswordWasSubmitted, WasSubmitted, UserDoc
  <2>6. EveryRegistrationKept'
    BY DEF OtpInv, ServerInv, AccountVarsTypeOK, AccountsOnTheirWay,
      OnItsWay, Outcomes, EveryRegistrationKept, HasRegistered, Replacing,
      UsersOf, UnverifiedOf
  <2> QED BY <2>1, <2>2, <2>3, <2>4, <2>5, <2>6
<1>5. CASE RegisterFindsVerified(r)
  <2> USE <1>5 DEF RegisterFindsVerified
  <2>1. OtpInv(L)'
    BY OtherStepInv DEF AccountLabels, Outcomes, BeforeSend,
      AccountsOnTheirWay,
       accountVars, OtpInv, OnItsWay
  <2> USE DEF Goto, Reply, otpVars, accountVars
  <2>2. AccountVarsTypeOK' /\ AccountsOnTheirWay'
    BY DEF OtpInv, ServerInv, AccountVarsTypeOK, AccountsOnTheirWay,
      OnItsWay, BeforeSend, AccountLabels
  <2>3. EveryRegistrationWasMade'
    BY DEF OtpInv, ServerInv, AccountVarsTypeOK, AccountsOnTheirWay,
      EveryRegistrationWasMade, WasMade, UnverifiedUserDoc
  <2>4. EveryAccountWasVerified'
    BY DEF OtpInv, ServerInv, AccountVarsTypeOK, AccountsOnTheirWay,
      EveryAccountWasVerified, WasVerified, UserDoc
  <2>5. EveryPasswordWasSubmitted'
    BY DEF OtpInv, ServerInv, AccountVarsTypeOK, AccountsOnTheirWay,
      EveryPasswordWasSubmitted, WasSubmitted, UserDoc
  <2>6. EveryRegistrationKept'
    BY DEF OtpInv, ServerInv, AccountVarsTypeOK, AccountsOnTheirWay,
      OnItsWay, Outcomes, EveryRegistrationKept, HasRegistered, Replacing,
      UsersOf, UnverifiedOf
  <2> QED BY <2>1, <2>2, <2>3, <2>4, <2>5, <2>6
<1>6. CASE RegisterFindsUnverified(r)
  <2> USE <1>6 DEF RegisterFindsUnverified
  <2>1. OtpInv(L)'
    BY OtherStepInv DEF AccountLabels, Outcomes, BeforeSend,
      AccountsOnTheirWay,
       accountVars, OtpInv, OnItsWay
  <2> USE DEF Goto, otpVars, accountVars
  <2>2. AccountVarsTypeOK' /\ AccountsOnTheirWay'
    BY DEF OtpInv, ServerInv, AccountVarsTypeOK, AccountsOnTheirWay,
      OnItsWay, BeforeSend, AccountLabels
  <2>3. EveryRegistrationWasMade'
    BY DEF OtpInv, ServerInv, AccountVarsTypeOK, AccountsOnTheirWay,
      EveryRegistrationWasMade, WasMade, UnverifiedUserDoc
  <2>4. EveryAccountWasVerified'
    BY DEF OtpInv, ServerInv, AccountVarsTypeOK, AccountsOnTheirWay,
      EveryAccountWasVerified, WasVerified, UserDoc
  <2>5. EveryPasswordWasSubmitted'
    BY DEF OtpInv, ServerInv, AccountVarsTypeOK, AccountsOnTheirWay,
      EveryPasswordWasSubmitted, WasSubmitted, UserDoc
  <2>6. EveryRegistrationKept'
    BY DEF OtpInv, ServerInv, AccountVarsTypeOK, AccountsOnTheirWay,
      OnItsWay, Outcomes, EveryRegistrationKept, HasRegistered, Replacing,
      UsersOf, UnverifiedOf
  <2> QED BY <2>1, <2>2, <2>3, <2>4, <2>5, <2>6
<1>7. CASE ReplaceUnverified(r)
  <2> USE <1>7 DEF ReplaceUnverified
  <2>1. OtpInv(L)'
    BY OtherStepInv DEF AccountLabels, Outcomes, BeforeSend,
      AccountsOnTheirWay,
       accountVars, OtpInv, OnItsWay
  <2> USE DEF Goto, DeleteUnverifiedUser, otpVars, accountVars
  <2>2. AccountVarsTypeOK' /\ AccountsOnTheirWay'
    BY DEF OtpInv, ServerInv, AccountVarsTypeOK, AccountsOnTheirWay,
      OnItsWay, BeforeSend, AccountLabels
  <2>3. EveryRegistrationWasMade'
    BY DEF OtpInv, ServerInv, AccountVarsTypeOK, AccountsOnTheirWay,
      EveryRegistrationWasMade, WasMade, UnverifiedUserDoc
  <2>4. EveryAccountWasVerified'
    BY DEF OtpInv, ServerInv, AccountVarsTypeOK, AccountsOnTheirWay,
      EveryAccountWasVerified, WasVerified, UserDoc
  <2>5. EveryPasswordWasSubmitted'
    BY DEF OtpInv, ServerInv, AccountVarsTypeOK, AccountsOnTheirWay,
      EveryPasswordWasSubmitted, WasSubmitted, UserDoc
  <2>6. EveryRegistrationKept'
    <3>1. \A q \in Requests :
            email[q] # email[r] => UnverifiedOf(email[q])' = UnverifiedOf(email[q])
      BY DEF UnverifiedOf
    <3>2. \A q \in Requests : /\ HasRegistered(q)' => HasRegistered(q) /\ q # r
                              /\ Replacing(q) => Replacing(q)'
      BY DEF HasRegistered, Replacing, OtpInv, ServerInv, OnItsWay, Outcomes
    <3>3. Replacing(r)'
      BY DEF Replacing, AccountsOnTheirWay, OtpInv, ServerInv
    <3> QED BY <3>1, <3>2, <3>3 DEF EveryRegistrationKept, UsersOf, OtpInv,
               ServerInv
  <2> QED BY <2>1, <2>2, <2>3, <2>4, <2>5, <2>6
<1>8. CASE CreateUnverified(r)
  <2> USE <1>8 DEF CreateUnverified
  <2>1. OtpInv(L)'
    BY CallSendInv
  <2> USE DEF Goto, CallSendOtp, otpVars, accountVars
  <2>2. AccountVarsTypeOK' /\ AccountsOnTheirWay'
    <3>1. Plain(password[r]) \in StoredPassword
      BY PasswordTypes DEF AccountsOnTheirWay
    <3> QED BY <3>1 DEF OtpInv, ServerInv, AccountVarsTypeOK,
              AccountsOnTheirWay,
               UnverifiedUserDoc, BeforeSend, AccountLabels
  <2>3. EveryRegistrationWasMade'
    BY DEF OtpInv, ServerInv, AccountVarsTypeOK, AccountsOnTheirWay,
      EveryRegistrationWasMade, WasMade, UnverifiedUserDoc
  <2>4. EveryAccountWasVerified'
    BY DEF OtpInv, ServerInv, AccountVarsTypeOK, AccountsOnTheirWay,
      EveryAccountWasVerified, WasVerified, UserDoc
  <2>5. EveryPasswordWasSubmitted'
    BY DEF OtpInv, ServerInv, AccountVarsTypeOK, AccountsOnTheirWay,
      EveryPasswordWasSubmitted, WasSubmitted, UserDoc
  <2>6. EveryRegistrationKept'
    <3> DEFINE d == [id |-> r, email |-> email[r], password |-> Plain(password[r])]
    <3>0. unverifiedUsers' = unverifiedUsers \union {d} /\ d.email = email[r]
      OBVIOUS
    <3> HIDE DEF d
    <3>1. /\ UnverifiedOf(email[r])' # {}
          /\ \A q \in Requests :
               UnverifiedOf(email[q]) # {} => UnverifiedOf(email[q])' # {}
      BY <3>0 DEF UnverifiedOf
    <3>2. \A q \in Requests \ {r} : /\ HasRegistered(q)' => HasRegistered(q)
                                    /\ Replacing(q) => Replacing(q)'
      BY DEF HasRegistered, Replacing, OtpInv, ServerInv
    <3> QED BY <3>1, <3>2 DEF EveryRegistrationKept, UsersOf, OtpInv,
               ServerInv
  <2> QED BY <2>1, <2>2, <2>3, <2>4, <2>5, <2>6
<1>9. CASE VerifyFindsUnverified(r)
  <2> USE <1>9 DEF VerifyFindsUnverified
  <2>1. OtpInv(L)'
    BY OtherStepInv DEF AccountLabels, Outcomes, BeforeSend,
      AccountsOnTheirWay,
       accountVars, OtpInv, OnItsWay
  <2> USE DEF Goto, Reply, UnverifiedOf, otpVars, accountVars
  <2>2. AccountVarsTypeOK' /\ AccountsOnTheirWay'
    BY DEF OtpInv, ServerInv, AccountVarsTypeOK, AccountsOnTheirWay,
      OnItsWay, BeforeSend, AccountLabels
  <2>3. EveryRegistrationWasMade'
    BY DEF OtpInv, ServerInv, AccountVarsTypeOK, AccountsOnTheirWay,
      EveryRegistrationWasMade, WasMade, UnverifiedUserDoc
  <2>4. EveryAccountWasVerified'
    BY DEF OtpInv, ServerInv, AccountVarsTypeOK, AccountsOnTheirWay,
      EveryAccountWasVerified, WasVerified, UserDoc
  <2>5. EveryPasswordWasSubmitted'
    BY DEF OtpInv, ServerInv, AccountVarsTypeOK, AccountsOnTheirWay,
      EveryPasswordWasSubmitted, WasSubmitted, UserDoc
  <2>6. EveryRegistrationKept'
    BY DEF OtpInv, ServerInv, AccountVarsTypeOK, AccountsOnTheirWay,
      OnItsWay, Outcomes, EveryRegistrationKept, HasRegistered, Replacing,
      UsersOf, UnverifiedOf
  <2> QED BY <2>1, <2>2, <2>3, <2>4, <2>5, <2>6
<1>10. CASE VerifyFindsVerified(r)
  <2> USE <1>10 DEF VerifyFindsVerified
  <2>1. OtpInv(L)'
    BY OtherStepInv DEF AccountLabels, Outcomes, BeforeSend,
      AccountsOnTheirWay,
       accountVars, OtpInv, OnItsWay
  <2> USE DEF Goto, Reply, otpVars, accountVars
  <2>2. AccountVarsTypeOK' /\ AccountsOnTheirWay'
    BY DEF OtpInv, ServerInv, AccountVarsTypeOK, AccountsOnTheirWay,
      OnItsWay, BeforeSend, AccountLabels
  <2>3. EveryRegistrationWasMade'
    BY DEF OtpInv, ServerInv, AccountVarsTypeOK, AccountsOnTheirWay,
      EveryRegistrationWasMade, WasMade, UnverifiedUserDoc
  <2>4. EveryAccountWasVerified'
    BY DEF OtpInv, ServerInv, AccountVarsTypeOK, AccountsOnTheirWay,
      EveryAccountWasVerified, WasVerified, UserDoc
  <2>5. EveryPasswordWasSubmitted'
    BY DEF OtpInv, ServerInv, AccountVarsTypeOK, AccountsOnTheirWay,
      EveryPasswordWasSubmitted, WasSubmitted, UserDoc
  <2>6. EveryRegistrationKept'
    BY DEF OtpInv, ServerInv, AccountVarsTypeOK, AccountsOnTheirWay,
      OnItsWay, Outcomes, EveryRegistrationKept, HasRegistered, Replacing,
      UsersOf, UnverifiedOf
  <2> QED BY <2>1, <2>2, <2>3, <2>4, <2>5, <2>6
<1>11. CASE CreateUser(r)
  <2> USE <1>11 DEF CreateUser
  <2>1. OtpInv(L)'
    BY OtherStepInv DEF AccountLabels, Outcomes, BeforeSend,
      AccountsOnTheirWay,
       accountVars, OtpInv, OnItsWay
  <2> USE DEF Goto, otpVars, accountVars
  <2>2. AccountVarsTypeOK' /\ AccountsOnTheirWay'
    <3>1. draft[r] \in UnverifiedUserDoc /\ Hash(draft[r].password) \in StoredPassword
      BY PasswordTypes DEF AccountVarsTypeOK, UnverifiedUserDoc
    <3>2. [id |-> r, email |-> draft[r].email,
           password |-> Hash(draft[r].password), isGoogle |-> FALSE] \in UserDoc
      BY <3>1 DEF UserDoc, UnverifiedUserDoc
    <3> QED BY <3>2 DEF OtpInv, ServerInv, AccountVarsTypeOK,
              AccountsOnTheirWay,
               BeforeSend, AccountLabels
  <2>3. EveryRegistrationWasMade'
    BY DEF OtpInv, ServerInv, AccountVarsTypeOK, AccountsOnTheirWay,
      EveryRegistrationWasMade, WasMade, UnverifiedUserDoc
  <2>4. EveryAccountWasVerified'
    <3>1. route[r] = "verify-otp" /\ draft[r] # Nil /\ draft[r].email = email[r]
      BY DEF AccountsOnTheirWay, AccountVarsTypeOK, EveryRegistrationWasMade
    <3>2. Spent(r)
      BY <3>1 DEF Spent, Accepted, VerifyRoutes, AtRest
    <3>3. got[r] # Nil /\ got[r].otp = code[r] /\ got[r] \notin otps
      BY <3>2 DEF Spent, OtpInv, AcceptedMatches, SpentCodeIsGone
    <3>4. \A u \in users : u.id \in Requests /\ ~ u.isGoogle => WasVerified(u)'
      BY DEF EveryAccountWasVerified, WasVerified, OtpInv, ServerInv
    <3> QED BY <3>1, <3>3, <3>4 DEF EveryAccountWasVerified, WasVerified,
              OtpInv,
               ServerInv
  <2>5. EveryPasswordWasSubmitted'
    <3>1. /\ draft[r] \in UnverifiedUserDoc /\ WasMade(draft[r])
          /\ draft[r].email = email[r]
      BY DEF AccountVarsTypeOK, EveryRegistrationWasMade
    <3>2. \A u \in users : u.password # Nil => WasSubmitted(u)'
      BY DEF EveryPasswordWasSubmitted, WasSubmitted, OtpInv, ServerInv
    <3>3. WasSubmitted([id |-> r, email |-> draft[r].email,
                        password |-> Hash(draft[r].password), isGoogle |-> FALSE])'
      BY <3>1 DEF WasSubmitted, WasMade, UnverifiedUserDoc, OtpInv,
        ServerInv
    <3> QED BY <3>2, <3>3 DEF EveryPasswordWasSubmitted
  <2>6. EveryRegistrationKept'
    <3> DEFINE u == [id |-> r, email |-> draft[r].email,
                     password |-> Hash(draft[r].password), isGoogle |-> FALSE]
    <3>0. users' = users \union {u} /\ u.email = email[r]
      BY DEF AccountVarsTypeOK, EveryRegistrationWasMade
    <3> HIDE DEF u
    <3>1. /\ UsersOf(email[r])' # {}
          /\ \A q \in Requests : UsersOf(email[q]) # {} => UsersOf(email[q])' # {}
      BY <3>0 DEF UsersOf
    <3>2. \A q \in Requests : /\ HasRegistered(q)' => HasRegistered(q)
                              /\ Replacing(q) => Replacing(q)'
      BY DEF HasRegistered, Replacing, OtpInv, OnItsWay, ServerInv
    <3> QED BY <3>1, <3>2 DEF EveryRegistrationKept, UnverifiedOf, OtpInv,
               ServerInv
  <2> QED BY <2>1, <2>2, <2>3, <2>4, <2>5, <2>6
<1>12. CASE DropUnverified(r)
  <2> USE <1>12 DEF DropUnverified
  <2>1. OtpInv(L)'
    BY OtherStepInv DEF AccountLabels, Outcomes, BeforeSend,
      AccountsOnTheirWay,
       accountVars, OtpInv, OnItsWay
  <2> USE DEF Reply, DeleteUnverifiedUser, otpVars, accountVars
  <2>2. AccountVarsTypeOK' /\ AccountsOnTheirWay'
    BY DEF OtpInv, ServerInv, AccountVarsTypeOK, AccountsOnTheirWay,
      OnItsWay, BeforeSend, AccountLabels
  <2>3. EveryRegistrationWasMade'
    BY DEF OtpInv, ServerInv, AccountVarsTypeOK, AccountsOnTheirWay,
      EveryRegistrationWasMade, WasMade, UnverifiedUserDoc
  <2>4. EveryAccountWasVerified'
    BY DEF OtpInv, ServerInv, AccountVarsTypeOK, AccountsOnTheirWay,
      EveryAccountWasVerified, WasVerified, UserDoc
  <2>5. EveryPasswordWasSubmitted'
    BY DEF OtpInv, ServerInv, AccountVarsTypeOK, AccountsOnTheirWay,
      EveryPasswordWasSubmitted, WasSubmitted, UserDoc
  <2>6. EveryRegistrationKept'
    BY DEF OtpInv, ServerInv, AccountVarsTypeOK, AccountsOnTheirWay,
      OnItsWay, Outcomes, EveryRegistrationKept, HasRegistered, Replacing,
      UsersOf, UnverifiedOf
  <2> QED BY <2>1, <2>2, <2>3, <2>4, <2>5, <2>6
<1>13. CASE ForgotFindsUser(r)
  <2> USE <1>13 DEF ForgotFindsUser
  <2>1. OtpInv(L)'
    BY OtherStepInv DEF AccountLabels, Outcomes, BeforeSend,
      AccountsOnTheirWay,
       accountVars, OtpInv, OnItsWay
  <2> USE DEF Goto, Reply, otpVars, accountVars
  <2>2. AccountVarsTypeOK' /\ AccountsOnTheirWay'
    BY DEF OtpInv, ServerInv, AccountVarsTypeOK, AccountsOnTheirWay,
      OnItsWay, BeforeSend, AccountLabels
  <2>3. EveryRegistrationWasMade'
    BY DEF OtpInv, ServerInv, AccountVarsTypeOK, AccountsOnTheirWay,
      EveryRegistrationWasMade, WasMade, UnverifiedUserDoc
  <2>4. EveryAccountWasVerified'
    BY DEF OtpInv, ServerInv, AccountVarsTypeOK, AccountsOnTheirWay,
      EveryAccountWasVerified, WasVerified, UserDoc
  <2>5. EveryPasswordWasSubmitted'
    BY DEF OtpInv, ServerInv, AccountVarsTypeOK, AccountsOnTheirWay,
      EveryPasswordWasSubmitted, WasSubmitted, UserDoc
  <2>6. EveryRegistrationKept'
    BY DEF OtpInv, ServerInv, AccountVarsTypeOK, AccountsOnTheirWay,
      OnItsWay, Outcomes, EveryRegistrationKept, HasRegistered, Replacing,
      UsersOf, UnverifiedOf
  <2> QED BY <2>1, <2>2, <2>3, <2>4, <2>5, <2>6
<1>14. CASE ForgotFindsGoogleUser(r)
  <2> USE <1>14 DEF ForgotFindsGoogleUser
  <2>1. OtpInv(L)'
    BY OtherStepInv, CallSendInv DEF Outcomes, accountVars, otpVars,
      AccountLabels
  <2> USE DEF Goto, Reply, CallSendOtp, otpVars, accountVars
  <2>2. AccountVarsTypeOK' /\ AccountsOnTheirWay'
    BY DEF OtpInv, ServerInv, AccountVarsTypeOK, AccountsOnTheirWay,
      OnItsWay, BeforeSend, AccountLabels
  <2>3. EveryRegistrationWasMade'
    BY DEF OtpInv, ServerInv, AccountVarsTypeOK, AccountsOnTheirWay,
      EveryRegistrationWasMade, WasMade, UnverifiedUserDoc
  <2>4. EveryAccountWasVerified'
    BY DEF OtpInv, ServerInv, AccountVarsTypeOK, AccountsOnTheirWay,
      EveryAccountWasVerified, WasVerified, UserDoc
  <2>5. EveryPasswordWasSubmitted'
    BY DEF OtpInv, ServerInv, AccountVarsTypeOK, AccountsOnTheirWay,
      EveryPasswordWasSubmitted, WasSubmitted, UserDoc
  <2>6. EveryRegistrationKept'
    BY DEF OtpInv, ServerInv, AccountVarsTypeOK, AccountsOnTheirWay,
      OnItsWay, Outcomes, EveryRegistrationKept, HasRegistered, Replacing,
      UsersOf, UnverifiedOf
  <2> QED BY <2>1, <2>2, <2>3, <2>4, <2>5, <2>6
<1>15. CASE ChangeFindsUser(r)
  <2> USE <1>15 DEF ChangeFindsUser
  <2>1. OtpInv(L)'
    BY OtherStepInv DEF AccountLabels, Outcomes, BeforeSend,
      AccountsOnTheirWay,
       accountVars, OtpInv, OnItsWay
  <2> USE DEF Goto, Reply, UsersOf, otpVars, accountVars
  <2>2. AccountVarsTypeOK' /\ AccountsOnTheirWay'
    BY DEF OtpInv, ServerInv, AccountVarsTypeOK, AccountsOnTheirWay,
      OnItsWay, BeforeSend, AccountLabels
  <2>3. EveryRegistrationWasMade'
    BY DEF OtpInv, ServerInv, AccountVarsTypeOK, AccountsOnTheirWay,
      EveryRegistrationWasMade, WasMade, UnverifiedUserDoc
  <2>4. EveryAccountWasVerified'
    BY DEF OtpInv, ServerInv, AccountVarsTypeOK, AccountsOnTheirWay,
      EveryAccountWasVerified, WasVerified, UserDoc
  <2>5. EveryPasswordWasSubmitted'
    BY DEF OtpInv, ServerInv, AccountVarsTypeOK, AccountsOnTheirWay,
      EveryPasswordWasSubmitted, WasSubmitted, UserDoc
  <2>6. EveryRegistrationKept'
    BY DEF OtpInv, ServerInv, AccountVarsTypeOK, AccountsOnTheirWay,
      OnItsWay, Outcomes, EveryRegistrationKept, HasRegistered, Replacing,
      UsersOf, UnverifiedOf
  <2> QED BY <2>1, <2>2, <2>3, <2>4, <2>5, <2>6
<1>16. CASE ComparePassword(r)
  <2> USE <1>16 DEF ComparePassword
  <2>1. OtpInv(L)'
    BY OtherStepInv DEF AccountLabels, Outcomes, BeforeSend,
      AccountsOnTheirWay,
       accountVars, OtpInv, OnItsWay
  <2> USE DEF Goto, Reply, otpVars, accountVars
  <2>2. AccountVarsTypeOK' /\ AccountsOnTheirWay'
    BY DEF OtpInv, ServerInv, AccountVarsTypeOK, AccountsOnTheirWay,
      OnItsWay, BeforeSend, AccountLabels
  <2>3. EveryRegistrationWasMade'
    BY DEF OtpInv, ServerInv, AccountVarsTypeOK, AccountsOnTheirWay,
      EveryRegistrationWasMade, WasMade, UnverifiedUserDoc
  <2>4. EveryAccountWasVerified'
    BY DEF OtpInv, ServerInv, AccountVarsTypeOK, AccountsOnTheirWay,
      EveryAccountWasVerified, WasVerified, UserDoc
  <2>5. EveryPasswordWasSubmitted'
    BY DEF OtpInv, ServerInv, AccountVarsTypeOK, AccountsOnTheirWay,
      EveryPasswordWasSubmitted, WasSubmitted, UserDoc
  <2>6. EveryRegistrationKept'
    BY DEF OtpInv, ServerInv, AccountVarsTypeOK, AccountsOnTheirWay,
      OnItsWay, Outcomes, EveryRegistrationKept, HasRegistered, Replacing,
      UsersOf, UnverifiedOf
  <2> QED BY <2>1, <2>2, <2>3, <2>4, <2>5, <2>6
<1>17. CASE UpdateUser(r)
  <2> USE <1>17 DEF UpdateUser
  <2>1. OtpInv(L)'
    BY OtherStepInv DEF AccountLabels
  <2> USE DEF Reply, otpVars
  <2> DEFINE new == Hash(Plain(password[r]))
  <2>2. \/ users' = users
        \/ \E u \in users : /\ u.email = email[r]
                            /\ users' = (users \ {u}) \union {[u EXCEPT !.password = new]}
    BY DEF UsersOf
  <2>3. /\ new \in StoredPassword
        /\ route[r] = "changePassword"
        /\ email[r] \in Emails
    BY PasswordTypes DEF AccountsOnTheirWay, AccountLabels
  <2>4. \A u \in UserDoc : LET v == [u EXCEPT !.password = new]
                           IN /\ v \in UserDoc /\ v.id = u.id /\ v.email = u.email
                              /\ v.password = new /\ v.isGoogle = u.isGoogle
    BY <2>3 DEF UserDoc
  <2> HIDE DEF new
  <2>5. \A v \in users' : \/ v \in users
                          \/ /\ v \in UserDoc /\ v.email = email[r] /\ v.password = new
                             /\ \E u \in users : /\ v.id = u.id /\ v.email = u.email
                                                /\ v.isGoogle = u.isGoogle
    <3>1. CASE users' = users
      BY <3>1
    <3>2. CASE users' # users
      <4>1. PICK u \in users :
              /\ u.email = email[r]
              /\ users' = (users \ {u}) \union {[u EXCEPT !.password = new]}
        BY <3>2, <2>2
      <4>2. u \in UserDoc
        BY DEF AccountVarsTypeOK
      <4> QED BY <4>1, <4>2, <2>4
    <3> QED BY <3>1, <3>2
  <2>6. AccountVarsTypeOK' /\ AccountsOnTheirWay'
    BY <2>5 DEF OtpInv, ServerInv, AccountVarsTypeOK, AccountsOnTheirWay,
       BeforeSend, AccountLabels
  <2>7. EveryRegistrationWasMade'
    BY DEF OtpInv, ServerInv, AccountVarsTypeOK, EveryRegistrationWasMade,
       WasMade, UnverifiedUserDoc
  <2>8. EveryAccountWasVerified'
    <3>1. \A u \in users : u.id \in Requests /\ ~ u.isGoogle => WasVerified(u)'
      BY DEF EveryAccountWasVerified, WasVerified, OtpInv, ServerInv
    <3> QED BY <2>5, <3>1 DEF EveryAccountWasVerified, WasVerified
  <2>9. EveryPasswordWasSubmitted'
    <3>1. \A u \in users : u.password # Nil => WasSubmitted(u)'
      BY DEF EveryPasswordWasSubmitted, WasSubmitted, OtpInv, ServerInv
    <3>2. \A v : v.email = email[r] /\ v.password = new => WasSubmitted(v)'
      BY <2>3 DEF WasSubmitted, OtpInv, ServerInv, new
    <3> QED BY <2>5, <3>1, <3>2 DEF EveryPasswordWasSubmitted
  <2>10. EveryRegistrationKept'
    <3>1. \A e \in Emails : UsersOf(e) # {} => UsersOf(e)' # {}
      BY <2>2, <2>4 DEF UsersOf, AccountVarsTypeOK
    <3>2. \A q \in Requests : /\ HasRegistered(q)' => HasRegistered(q)
                              /\ Replacing(q) => Replacing(q)'
                              /\ HasRegistered(q) => email[q] \in Emails
                              /\ pc[q] = "dropUnverified" => email[q] \in Emails
      BY <2>3 DEF HasRegistered, Replacing, OtpInv, OnItsWay, ServerInv,
         SendRoutes, Outcomes, AccountsOnTheirWay, AccountLabels
    <3>3. \A q \in Requests : HasRegistered(q) => pc[q] # "idle"
      BY DEF HasRegistered, OtpInv, OnItsWay, Outcomes
    <3> QED BY <3>1, <3>2, <3>3 DEF EveryRegistrationKept, UnverifiedOf,
              OtpInv,
               ServerInv
  <2> QED BY <2>1, <2>6, <2>7, <2>8, <2>9, <2>10
<1> QED
  BY <1>1, <1>2, <1>3, <1>4, <1>5, <1>6, <1>7, <1>8, <1>9, <1>10, <1>11,
    <1>12, <1>13, <1>14, <1>15, <1>16, <1>17
     DEF AccountArrival, AccountHandler

-----------------------------------------------------------------------------
(* The steps of OtpService and of the environment.                         *)

\* Every arrival and every step of a handler of OtpService keeps the invariant.
\* A code that has been used up is not saved again, so the accounts keep their
\* verifications.
LEMMA AccountOtpStepInv ==
  ASSUME NEW L, HandlerLabels \subseteq L,
         AccountsInv(L), NEW r \in Requests, OtpArrival(r) \/ OtpHandler(r),
         UNCHANGED accountVars
  PROVE  AccountsInv(L)'
<1> USE ServerAssumption, OtpAssumption, AccountsAssumption,
       AccountDocsAssumption DEF AccountsInv
<1>0. OtpInv(L)'
  BY OtpStepInv DEF HandlerLabels
<1>1. CASE \E e \in Emails : ResendOtp(r, e)
  <2> USE <1>1 DEF ResendOtp, Arrive, CallSendOtp, accountVars, otpVars
  <2>1. AccountVarsTypeOK' /\ AccountsOnTheirWay'
    BY DEF OtpInv, ServerInv, OtpVarsTypeOK, AccountVarsTypeOK,
       AccountsOnTheirWay, OnItsWay, BeforeSend, AccountLabels
  <2>2. EveryRegistrationWasMade'
    BY DEF OtpInv, ServerInv, AccountVarsTypeOK, EveryRegistrationWasMade,
       WasMade, UnverifiedUserDoc, AccountsOnTheirWay
  <2>3. EveryAccountWasVerified'
    BY DEF OtpInv, ServerInv, OtpVarsTypeOK, AccountVarsTypeOK,
       EveryAccountWasVerified, WasVerified, UserDoc, EveryDocWasSaved, WasSaved
  <2>4. EveryPasswordWasSubmitted'
    BY DEF OtpInv, ServerInv, EveryPasswordWasSubmitted, WasSubmitted
  <2>5. EveryRegistrationKept'
    BY DEF OtpInv, ServerInv, OnItsWay, Outcomes, EveryRegistrationKept,
       HasRegistered, Replacing, UsersOf, UnverifiedOf, SendRoutes, VerifyRoutes
  <2> QED BY <1>0, <2>1, <2>2, <2>3, <2>4, <2>5
<1>2. CASE \E e \in Emails, c \in Codes : VerifyForgotOtp(r, e, c)
  <2> USE <1>2 DEF VerifyForgotOtp, Arrive, accountVars, otpVars
  <2>1. AccountVarsTypeOK' /\ AccountsOnTheirWay'
    BY DEF OtpInv, ServerInv, OtpVarsTypeOK, AccountVarsTypeOK,
       AccountsOnTheirWay, OnItsWay, BeforeSend, AccountLabels
  <2>2. EveryRegistrationWasMade'
    BY DEF OtpInv, ServerInv, AccountVarsTypeOK, EveryRegistrationWasMade,
       WasMade, UnverifiedUserDoc, AccountsOnTheirWay
  <2>3. EveryAccountWasVerified'
    BY DEF OtpInv, ServerInv, OtpVarsTypeOK, AccountVarsTypeOK,
       EveryAccountWasVerified, WasVerified, UserDoc, EveryDocWasSaved, WasSaved
  <2>4. EveryPasswordWasSubmitted'
    BY DEF OtpInv, ServerInv, EveryPasswordWasSubmitted, WasSubmitted
  <2>5. EveryRegistrationKept'
    BY DEF OtpInv, ServerInv, OnItsWay, Outcomes, EveryRegistrationKept,
       HasRegistered, Replacing, UsersOf, UnverifiedOf, SendRoutes, VerifyRoutes
  <2> QED BY <1>0, <2>1, <2>2, <2>3, <2>4, <2>5
<1>3. CASE DeleteOtps(r)
  <2> USE <1>3 DEF DeleteOtps, DeleteByEmail, Goto, accountVars, otpVars
  <2>1. AccountVarsTypeOK' /\ AccountsOnTheirWay'
    BY DEF OtpInv, ServerInv, OtpVarsTypeOK, AccountVarsTypeOK,
       AccountsOnTheirWay, OnItsWay, BeforeSend, AccountLabels
  <2>2. EveryRegistrationWasMade'
    BY DEF OtpInv, ServerInv, AccountVarsTypeOK, EveryRegistrationWasMade,
       WasMade, UnverifiedUserDoc, AccountsOnTheirWay
  <2>3. EveryAccountWasVerified'
    BY DEF OtpInv, ServerInv, OtpVarsTypeOK, AccountVarsTypeOK,
       EveryAccountWasVerified, WasVerified, UserDoc, EveryDocWasSaved, WasSaved
  <2>4. EveryPasswordWasSubmitted'
    BY DEF OtpInv, ServerInv, EveryPasswordWasSubmitted, WasSubmitted
  <2>5. EveryRegistrationKept'
    BY DEF OtpInv, ServerInv, OnItsWay, Outcomes, EveryRegistrationKept,
       HasRegistered, Replacing, UsersOf, UnverifiedOf, SendRoutes, VerifyRoutes
  <2> QED BY <1>0, <2>1, <2>2, <2>3, <2>4, <2>5
<1>4. CASE SaveOtp(r)
  <2> USE <1>4 DEF SaveOtp, Goto, accountVars, otpVars
  <2>1. AccountVarsTypeOK' /\ AccountsOnTheirWay'
    BY DEF OtpInv, ServerInv, OtpVarsTypeOK, AccountVarsTypeOK,
       AccountsOnTheirWay, OnItsWay, BeforeSend, AccountLabels
  <2>2. EveryRegistrationWasMade'
    BY DEF OtpInv, ServerInv, AccountVarsTypeOK, EveryRegistrationWasMade,
       WasMade, UnverifiedUserDoc, AccountsOnTheirWay
  <2>3. EveryAccountWasVerified'
    BY DEF OtpInv, ServerInv, OtpVarsTypeOK, AccountVarsTypeOK,
       EveryAccountWasVerified, WasVerified, UserDoc, EveryDocWasSaved, WasSaved
  <2>4. EveryPasswordWasSubmitted'
    BY DEF OtpInv, ServerInv, EveryPasswordWasSubmitted, WasSubmitted
  <2>5. EveryRegistrationKept'
    BY DEF OtpInv, ServerInv, OnItsWay, Outcomes, EveryRegistrationKept,
       HasRegistered, Replacing, UsersOf, UnverifiedOf, SendRoutes, VerifyRoutes
  <2> QED BY <1>0, <2>1, <2>2, <2>3, <2>4, <2>5
<1>5. CASE MailOtp(r)
  <2> USE <1>5 DEF MailOtp, Reply, accountVars, otpVars
  <2>1. AccountVarsTypeOK' /\ AccountsOnTheirWay'
    BY DEF OtpInv, ServerInv, OtpVarsTypeOK, AccountVarsTypeOK,
       AccountsOnTheirWay, OnItsWay, BeforeSend, AccountLabels
  <2>2. EveryRegistrationWasMade'
    BY DEF OtpInv, ServerInv, AccountVarsTypeOK, EveryRegistrationWasMade,
       WasMade, UnverifiedUserDoc, AccountsOnTheirWay
  <2>3. EveryAccountWasVerified'
    BY DEF OtpInv, ServerInv, OtpVarsTypeOK, AccountVarsTypeOK,
       EveryAccountWasVerified, WasVerified, UserDoc, EveryDocWasSaved, WasSaved
  <2>4. EveryPasswordWasSubmitted'
    BY DEF OtpInv, ServerInv, EveryPasswordWasSubmitted, WasSubmitted
  <2>5. EveryRegistrationKept'
    BY DEF OtpInv, ServerInv, OnItsWay, Outcomes, EveryRegistrationKept,
       HasRegistered, Replacing, UsersOf, UnverifiedOf, SendRoutes, VerifyRoutes
  <2> QED BY <1>0, <2>1, <2>2, <2>3, <2>4, <2>5
<1>6. CASE FindOtp(r)
  <2> USE <1>6 DEF FindOtp, Goto, Reply, OtpsOf, accountVars, otpVars
  <2>1. AccountVarsTypeOK' /\ AccountsOnTheirWay'
    BY DEF OtpInv, ServerInv, OtpVarsTypeOK, AccountVarsTypeOK,
       AccountsOnTheirWay, OnItsWay, BeforeSend, AccountLabels
  <2>2. EveryRegistrationWasMade'
    BY DEF OtpInv, ServerInv, AccountVarsTypeOK, EveryRegistrationWasMade,
       WasMade, UnverifiedUserDoc, AccountsOnTheirWay
  <2>3. EveryAccountWasVerified'
    BY DEF OtpInv, ServerInv, OtpVarsTypeOK, AccountVarsTypeOK,
       EveryAccountWasVerified, WasVerified, UserDoc, EveryDocWasSaved, WasSaved
  <2>4. EveryPasswordWasSubmitted'
    BY DEF OtpInv, ServerInv, EveryPasswordWasSubmitted, WasSubmitted
  <2>5. EveryRegistrationKept'
    BY DEF OtpInv, ServerInv, OnItsWay, Outcomes, EveryRegistrationKept,
       HasRegistered, Replacing, UsersOf, UnverifiedOf, SendRoutes, VerifyRoutes
  <2> QED BY <1>0, <2>1, <2>2, <2>3, <2>4, <2>5
<1>7. CASE CheckOtp(r)
  <2> USE <1>7 DEF CheckOtp, Goto, Reply, accountVars, otpVars
  <2>1. AccountVarsTypeOK' /\ AccountsOnTheirWay'
    BY DEF OtpInv, ServerInv, OtpVarsTypeOK, AccountVarsTypeOK,
       AccountsOnTheirWay, OnItsWay, BeforeSend, AccountLabels
  <2>2. EveryRegistrationWasMade'
    BY DEF OtpInv, ServerInv, AccountVarsTypeOK, EveryRegistrationWasMade,
       WasMade, UnverifiedUserDoc, AccountsOnTheirWay
  <2>3. EveryAccountWasVerified'
    BY DEF OtpInv, ServerInv, OtpVarsTypeOK, AccountVarsTypeOK,
       EveryAccountWasVerified, WasVerified, UserDoc, EveryDocWasSaved, WasSaved
  <2>4. EveryPasswordWasSubmitted'
    BY DEF OtpInv, ServerInv, EveryPasswordWasSubmitted, WasSubmitted
  <2>5. EveryRegistrationKept'
    BY DEF OtpInv, ServerInv, OnItsWay, Outcomes, EveryRegistrationKept,
       HasRegistered, Replacing, UsersOf, UnverifiedOf, SendRoutes, VerifyRoutes
  <2> QED BY <1>0, <2>1, <2>2, <2>3, <2>4, <2>5
<1>8. CASE ConsumeOtp(r)
  <2> USE <1>8 DEF ConsumeOtp, DeleteByEmail, Goto, accountVars, otpVars
  <2>1. AccountVarsTypeOK' /\ AccountsOnTheirWay'
    BY DEF OtpInv, ServerInv, OtpVarsTypeOK, AccountVarsTypeOK,
       AccountsOnTheirWay, OnItsWay, BeforeSend, AccountLabels
  <2>2. EveryRegistrationWasMade'
    BY DEF OtpInv, ServerInv, AccountVarsTypeOK, EveryRegistrationWasMade,
       WasMade, UnverifiedUserDoc, AccountsOnTheirWay
  <2>3. EveryAccountWasVerified'
    BY DEF OtpInv, ServerInv, OtpVarsTypeOK, AccountVarsTypeOK,
       EveryAccountWasVerified, WasVerified, UserDoc, EveryDocWasSaved, WasSaved
  <2>4. EveryPasswordWasSubmitted'
    BY DEF OtpInv, ServerInv, EveryPasswordWasSubmitted, WasSubmitted
  <2>5. EveryRegistrationKept'
    BY DEF OtpInv, ServerInv, OnItsWay, Outcomes, EveryRegistrationKept,
       HasRegistered, Replacing, UsersOf, UnverifiedOf, SendRoutes, VerifyRoutes
  <2> QED BY <1>0, <2>1, <2>2, <2>3, <2>4, <2>5
<1>9. CASE ReplyVerified(r)
  <2> USE <1>9 DEF ReplyVerified, Reply, accountVars, otpVars
  <2>1. AccountVarsTypeOK' /\ AccountsOnTheirWay'
    BY DEF OtpInv, ServerInv, OtpVarsTypeOK, AccountVarsTypeOK,
       AccountsOnTheirWay, OnItsWay, BeforeSend, AccountLabels
  <2>2. EveryRegistrationWasMade'
    BY DEF OtpInv, ServerInv, AccountVarsTypeOK, EveryRegistrationWasMade,
       WasMade, UnverifiedUserDoc, AccountsOnTheirWay
  <2>3. EveryAccountWasVerified'
    BY DEF OtpInv, ServerInv, OtpVarsTypeOK, AccountVarsTypeOK,
       EveryAccountWasVerified, WasVerified, UserDoc, EveryDocWasSaved, WasSaved
  <2>4. EveryPasswordWasSubmitted'
    BY DEF OtpInv, ServerInv, EveryPasswordWasSubmitted, WasSubmitted
  <2>5. EveryRegistrationKept'
    BY DEF OtpInv, ServerInv, OnItsWay, Outcomes, EveryRegistrationKept,
       HasRegistered, Replacing, UsersOf, UnverifiedOf, SendRoutes, VerifyRoutes
  <2> QED BY <1>0, <2>1, <2>2, <2>3, <2>4, <2>5
<1> QED
  BY <1>1, <1>2, <1>3, <1>4, <1>5, <1>6, <1>7, <1>8, <1>9
     DEF OtpArrival, OtpHandler

\* So do failures, crashes and the passing of time: a register that is stopped
\* between its delete and its insert is the one that RegistrationKept excepts.
LEMMA AccountEnvironmentInv ==
  ASSUME NEW L, HandlerLabels \subseteq L,
         AccountsInv(L), Environment \/ UNCHANGED serverVars,
         UNCHANGED <<otpVars, accountVars>>
  PROVE  AccountsInv(L)'
<1> USE ServerAssumption, AccountsAssumption, AccountDocsAssumption
    DEF AccountsInv, otpVars, accountVars
<1>0. OtpInv(L)'
  BY OtpEnvironmentInv
<1>1. CASE \E r \in Requests : Fail(r)
  <2> USE <1>1 DEF Fail, Reply, InFlight, AtRest
  <2>1. AccountVarsTypeOK' /\ AccountsOnTheirWay'
    BY DEF OtpInv, ServerInv, AccountVarsTypeOK, AccountsOnTheirWay,
       OnItsWay, BeforeSend, AccountLabels
  <2>2. EveryRegistrationWasMade'
    BY DEF OtpInv, ServerInv, AccountVarsTypeOK, EveryRegistrationWasMade,
       WasMade, UnverifiedUserDoc
  <2>3. EveryAccountWasVerified'
    BY DEF OtpInv, ServerInv, AccountVarsTypeOK, EveryAccountWasVerified,
       WasVerified, UserDoc
  <2>4. EveryPasswordWasSubmitted'
    BY DEF OtpInv, ServerInv, EveryPasswordWasSubmitted, WasSubmitted
  <2>5. EveryRegistrationKept'
    BY DEF OtpInv, ServerInv, OnItsWay, Outcomes, EveryRegistrationKept,
       HasRegistered, Replacing, UsersOf, UnverifiedOf
  <2> QED BY <1>0, <2>1, <2>2, <2>3, <2>4, <2>5
<1>2. CASE Crash
  <2> USE <1>2 DEF Crash, InFlight, AtRest
  <2>1. AccountVarsTypeOK' /\ AccountsOnTheirWay'
    BY DEF OtpInv, ServerInv, AccountVarsTypeOK, AccountsOnTheirWay,
       OnItsWay, BeforeSend, AccountLabels
  <2>2. EveryRegistrationWasMade'
    BY DEF OtpInv, ServerInv, AccountVarsTypeOK, EveryRegistrationWasMade,
       WasMade, UnverifiedUserDoc
  <2>3. EveryAccountWasVerified'
    BY DEF OtpInv, ServerInv, AccountVarsTypeOK, EveryAccountWasVerified,
       WasVerified, UserDoc
  <2>4. EveryPasswordWasSubmitted'
    BY DEF OtpInv, ServerInv, EveryPasswordWasSubmitted, WasSubmitted
  <2>5. EveryRegistrationKept'
    BY DEF OtpInv, ServerInv, OnItsWay, Outcomes, EveryRegistrationKept,
       HasRegistered, Replacing, UsersOf, UnverifiedOf
  <2> QED BY <1>0, <2>1, <2>2, <2>3, <2>4, <2>5
<1>3. CASE Tick \/ Rest \/ UNCHANGED serverVars
  <2> USE <1>3 DEF Tick, Rest, serverVars, AtRest
  <2>1. AccountVarsTypeOK' /\ AccountsOnTheirWay'
    BY DEF OtpInv, ServerInv, AccountVarsTypeOK, AccountsOnTheirWay,
       OnItsWay, BeforeSend, AccountLabels
  <2>2. EveryRegistrationWasMade'
    BY DEF OtpInv, ServerInv, AccountVarsTypeOK, EveryRegistrationWasMade,
       WasMade, UnverifiedUserDoc
  <2>3. EveryAccountWasVerified'
    BY DEF OtpInv, ServerInv, AccountVarsTypeOK, EveryAccountWasVerified,
       WasVerified, UserDoc
  <2>4. EveryPasswordWasSubmitted'
    BY DEF OtpInv, ServerInv, EveryPasswordWasSubmitted, WasSubmitted
  <2>5. EveryRegistrationKept'
    BY DEF OtpInv, ServerInv, OnItsWay, Outcomes, EveryRegistrationKept,
       HasRegistered, Replacing, UsersOf, UnverifiedOf
  <2> QED BY <1>0, <2>1, <2>2, <2>3, <2>4, <2>5
<1> QED
  BY <1>1, <1>2, <1>3 DEF Environment

\* The database of the start, whose accounts are older than any request.
LEMMA AccountInitInv ==
  ASSUME NEW L, HandlerLabels \subseteq L,
         AccountsInit
  PROVE  AccountsInv(L)
<1> USE ServerAssumption, OtpAssumption, AccountsAssumption,
       AccountDocsAssumption
<1>1. OtpInv(L)
  BY OtpInitInv DEF AccountsInit
<1>2. \A u \in Founders : u \in UserDoc /\ u.id \in Emails
  <2>1. \A p \in Passwords : Hash(Plain(p)) \in StoredPassword
    BY PasswordTypes
  <2>2. \A u : (\E e \in Emails, p \in Passwords :
                u = [id |-> e, email |-> e, password |-> Hash(Plain(p)),
                     isGoogle |-> FALSE])
              => u \in UserDoc /\ u.id \in Emails
    BY <2>1 DEF UserDoc
  <2>3. \A u : (\E e \in Emails :
                u = [id |-> e, email |-> e, password |-> Nil, isGoogle |-> TRUE])
              => u \in UserDoc /\ u.id \in Emails
    BY DEF UserDoc
  <2> QED BY <2>2, <2>3 DEF Founders
<1>3. AccountVarsTypeOK
  BY <1>2 DEF AccountsInit, OtpServiceInit, ServerInit, AccountVarsTypeOK
<1>4. AccountsOnTheirWay /\ EveryRegistrationWasMade
  BY DEF AccountsInit, OtpServiceInit, ServerInit, OtpInit, AccountsOnTheirWay,
     BeforeSend, AccountLabels, EveryRegistrationWasMade
<1>5. EveryAccountWasVerified /\ EveryPasswordWasSubmitted
  BY <1>2 DEF AccountsInit, EveryAccountWasVerified,
     EveryPasswordWasSubmitted, WasSubmitted
<1>6. EveryRegistrationKept
  BY DEF AccountsInit, OtpServiceInit, ServerInit, Outcomes,
     EveryRegistrationKept, HasRegistered
<1> QED BY <1>1, <1>3, <1>4, <1>5, <1>6 DEF AccountsInv

-----------------------------------------------------------------------------
(* The theorems.                                                           *)

\* The invariant holds of every behaviour.
THEOREM AccountsInvariance == AccountsSpec => []AccountsInv(HandlerLabels)
<1>1. AccountsInv(HandlerLabels) /\ [AccountsNext]_vars => AccountsInv(HandlerLabels)'
  <2> SUFFICES ASSUME AccountsInv(HandlerLabels), [AccountsNext]_vars
               PROVE  AccountsInv(HandlerLabels)'
    OBVIOUS
  <2>1. ASSUME NEW r \in Requests, AccountArrival(r) \/ Handler(r)
        PROVE  AccountsInv(HandlerLabels)'
    BY <2>1, AccountStepInv, AccountOtpStepInv DEF Handler
  <2>2. ASSUME NEW r \in Requests, OtpArrival(r), UNCHANGED accountVars
        PROVE  AccountsInv(HandlerLabels)'
    BY <2>2, AccountOtpStepInv
  <2>3. CASE /\ Environment \/ UNCHANGED serverVars
             /\ UNCHANGED <<otpVars, accountVars>>
    BY <2>3, AccountEnvironmentInv
  <2> QED BY <2>1, <2>2, <2>3 DEF AccountsNext, vars
<1>2. AccountsInit => AccountsInv(HandlerLabels)
  BY AccountInitInv
<1> QED BY <1>1, <1>2, PTL DEF AccountsSpec, AccountsSafety

\* Without other handlers, an account that is new is a verification's, and
\* whoever calls has an address.
NothingForeign ==
  Addressed /\ \A u \in users : u.id \in Requests => ~ u.isGoogle

\* No step of Accounts brings in anything else.
LEMMA AccountsNothingForeign == AccountsSpec => []NothingForeign
<1>1. AccountsInit => NothingForeign
  BY AccountsAssumption
     DEF AccountsInit, OtpServiceInit, ServerInit, Founders, NothingForeign,
         Addressed
<1>2. ASSUME AccountsInv(HandlerLabels), NothingForeign, [AccountsNext]_vars
      PROVE  NothingForeign'
  <2>0. /\ OtpInv(HandlerLabels) /\ AccountVarsTypeOK /\ Addressed
        /\ \A u \in users : u.id \in Requests => ~ u.isGoogle
    BY <1>2 DEF NothingForeign, AccountsInv
  <2>1. ASSUME NEW r \in Requests, AccountArrival(r) \/ AccountHandler(r)
        PROVE  Addressed'
    <3>1. CASE \E e \in Emails : \E rt, l : Arrive(r, rt, e, l)
      BY <2>0, <3>1 DEF OtpInv, ServerInv, Addressed, Arrive
    <3>2. CASE pc[r] # "idle" /\ \E l : Goto(r, l) \/ Reply(r, l)
      BY <2>0, <3>2 DEF OtpInv, ServerInv, Addressed, Goto, Reply
    <3>3. AccountArrival(r) => \E e \in Emails : \E rt, l : Arrive(r, rt, e, l)
      BY DEF AccountArrival, Register, VerifyOtp, ForgotOtp, ChangePassword
    <3>4. AccountHandler(r) => pc[r] # "idle" /\ \E l : Goto(r, l) \/ Reply(r, l)
      BY DEF AccountHandler, RegisterFindsVerified, RegisterFindsUnverified,
         ReplaceUnverified, CreateUnverified, VerifyFindsUnverified,
         VerifyFindsVerified, CreateUser, DropUnverified, ForgotFindsUser,
         ForgotFindsGoogleUser, ChangeFindsUser, ComparePassword, UpdateUser
    <3> QED BY <2>1, <3>1, <3>2, <3>3, <3>4
  <2>2. ASSUME NEW r \in Requests, AccountArrival(r) \/ AccountHandler(r),
               ~ CreateUser(r), ~ UpdateUser(r)
        PROVE  users' = users
    BY <2>2 DEF AccountArrival, Register, VerifyOtp, ForgotOtp, ChangePassword,
       AccountHandler, RegisterFindsVerified, RegisterFindsUnverified,
       ReplaceUnverified, CreateUnverified, VerifyFindsUnverified,
       VerifyFindsVerified, DropUnverified, ForgotFindsUser,
       ForgotFindsGoogleUser, ChangeFindsUser, ComparePassword, accountVars
  <2>3. ASSUME NEW r \in Requests, CreateUser(r)
        PROVE  (\A u \in users : u.id \in Requests => ~ u.isGoogle)'
    BY <2>0, <2>3 DEF CreateUser
  <2>4. ASSUME NEW r \in Requests, UpdateUser(r)
        PROVE  (\A u \in users : u.id \in Requests => ~ u.isGoogle)'
    <3>1. \A u \in users : LET v == [u EXCEPT !.password = Hash(Plain(password[r]))]
                          IN v.id = u.id /\ v.isGoogle = u.isGoogle
      BY <2>0 DEF AccountVarsTypeOK, UserDoc
    <3> QED BY <2>0, <2>4, <3>1 DEF UpdateUser, UsersOf
  <2>5. ASSUME \/ \E r \in Requests : OtpArrival(r) \/ OtpHandler(r)
               \/ Environment \/ UNCHANGED serverVars
        PROVE  Addressed'
    BY <2>0, <2>5, OtpStepAddressed
  <2> QED
    BY <1>2, <2>0, <2>1, <2>2, <2>3, <2>4, <2>5
       DEF AccountsNext, Handler, accountVars, vars, NothingForeign
<1> QED
  BY <1>1, <1>2, AccountsInvariance, PTL DEF AccountsSpec, AccountsSafety

\* The documents have the shapes of the schemas, and no handler goes on to use
\* a document that its query did not find.
THEOREM AccountsTypes == AccountsSpec => []AccountsTypeOK
<1>1. AccountsInv(HandlerLabels) /\ NothingForeign => AccountsTypeOK
  BY DEF AccountsInv, OtpInv, ServerInv, HandlerLabels, NothingForeign,
    Addressed,
     AccountsTypeOK, ServerTypeOK
<1> QED BY <1>1, AccountsInvariance, AccountsNothingForeign, PTL

\* Every new account has a code that was sent to its address and a password
\* that was registered for it.
THEOREM AccountsFromCodes == AccountsSpec => []AccountFromCode
<1>1. ASSUME AccountsInv(HandlerLabels), NothingForeign PROVE AccountFromCode
  <2> USE <1>1 DEF AccountsInv, NothingForeign
  <2>1. \A u \in users : u.id \in Requests =>
          LET s == got[u.id].id
          IN /\ route[u.id] = "verify-otp"
             /\ email[u.id] = u.email
             /\ email[s] = u.email
             /\ route[s] \in SendRoutes
             /\ got[s].otp = code[u.id]
             /\ got[u.id] \notin otps
    BY DEF EveryAccountWasVerified, WasVerified, OtpInv, EveryDocWasSaved,
       WasSaved, GotOfItsAddress
  <2>2. \A u \in users : u.id \in Requests =>
          LET d == draft[u.id]
          IN /\ route[d.id] = "register"
             /\ email[d.id] = u.email
             /\ d.password = Plain(password[d.id])
    BY DEF EveryAccountWasVerified, WasVerified, EveryRegistrationWasMade,
       WasMade
  <2> QED BY <2>1, <2>2 DEF AccountFromCode
<1> QED BY <1>1, AccountsInvariance, AccountsNothingForeign, PTL

\* A registration the client was told of stays until there is an account.
THEOREM AccountsRegistrationKept == AccountsSpec => []RegistrationKept
<1>1. AccountsInv(HandlerLabels) => RegistrationKept
  BY DEF AccountsInv, EveryRegistrationKept, HasRegistered, RegistrationKept
<1> QED BY <1>1, AccountsInvariance, PTL

\* Every password in the database was submitted for its address, and hashed
\* exactly once.
THEOREM AccountsPasswordSubmitted == AccountsSpec => []PasswordWasSubmitted
<1>1. AccountsInv(HandlerLabels) => PasswordWasSubmitted
  BY DEF AccountsInv, EveryPasswordWasSubmitted, WasSubmitted,
     PasswordWasSubmitted
<1> QED BY <1>1, AccountsInvariance, PTL
=============================================================================
