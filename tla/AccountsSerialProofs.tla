------------------------ MODULE AccountsSerialProofs ------------------------
(***************************************************************************)
(* What TLAPS proves about Accounts when clients wait for their replies:   *)
(* an address has at most one account and one registration, and Accounts   *)
(* implements Membership.                                                  *)
(***************************************************************************)
EXTENDS AccountsProofs

-----------------------------------------------------------------------------
(* The inductive invariant: while a handler runs, no other one is about its *)
(* address, so what it has found out is still true when it acts on it.      *)

\* q is a verification whose client has been told that it has an account.
Verified(q) == route[q] = "verify-otp" /\ reply[q] = "ok"

\* What the handler of q relies on.
StillTrueFor(q) ==
  /\ pc[q] \in {"findUnverified", "deleteUnverified", "createUnverified",
                "createUser"} => UsersOf(email[q]) = {}
  /\ pc[q] = "createUnverified" => UnverifiedOf(email[q]) = {}
  /\ pc[q] \in {"checkVerified", "createUser"} =>
       draft[q] \in UnverifiedOf(email[q])
  /\ pc[q] \in {"comparePassword", "updateUser"} =>
       account[q] \in UsersOf(email[q])
  /\ pc[q] = "updateUser" =>
       account[q].password \notin {Nil, Hash(Plain(password[q]))}
  /\ Verified(q) => UsersOf(email[q]) # {} /\ UnverifiedOf(email[q]) = {}

OneDocumentFor(e) == AtMostOneFor(users, e) /\ AtMostOneFor(unverifiedUsers, e)

AccountsSerialInv ==
  /\ Alone
  /\ \A q \in Requests : StillTrueFor(q)
  /\ \A e \in Emails : OneDocumentFor(e)

\* A step of r that touches documents of its own address only, and takes no
\* account away, leaves what the others rely on.
LEMMA StepOfOne ==
  ASSUME NEW L, AccountsInv(L), AccountsSerialInv, NEW r \in Requests,
         \A q \in InFlight \ {r} : email[q] # email'[r],
         \A q \in Requests \ {r} :
           /\ pc'[q] = pc[q] /\ email'[q] = email[q]
           /\ route'[q] = route[q] /\ reply'[q] = reply[q]
           /\ password'[q] = password[q]
           /\ draft'[q] = draft[q] /\ account'[q] = account[q],
         \A e \in Emails \ {email'[r]} :
           UsersOf(e)' = UsersOf(e) /\ UnverifiedOf(e)' = UnverifiedOf(e),
         \A e \in Emails : UsersOf(e) # {} =>
           UsersOf(e)' # {} /\ (UnverifiedOf(e) = {} => UnverifiedOf(e)' = {}),
         StillTrueFor(r)',
         OneDocumentFor(email[r])'
  PROVE  AccountsSerialInv'
<1>1. Alone'
  BY DEF AccountsSerialInv, Alone, InFlight
<1>2. \A q \in Requests \ {r} : StillTrueFor(q)'
  <2> SUFFICES ASSUME NEW q \in Requests \ {r}
               PROVE  StillTrueFor(q)'
    OBVIOUS
  <2>1. StillTrueFor(q)
    BY DEF AccountsSerialInv
  <2>2. CASE q \in InFlight
    <3>1. email[q] # email'[r] /\ (pc[q] \in AccountLabels => email[q] \in Emails)
      BY <2>2 DEF AccountsInv, AccountsOnTheirWay
    <3>2. ~ Verified(q)
      BY <2>2, ServerAssumption
         DEF Verified, AccountsInv, OtpInv, OnItsWay, Outcomes, InFlight, AtRest
    <3> QED BY <2>1, <3>1, <3>2 DEF StillTrueFor, Verified, AccountLabels
  <2>3. CASE q \notin InFlight
    <3>1. Verified(q) => email[q] \in Emails
      BY ServerAssumption DEF Verified, AccountsInv, OtpInv, ServerInv,
         OnItsWay, Outcomes, VerifyRoutes
    <3> QED BY <2>1, <2>3, <3>1 DEF StillTrueFor, Verified, InFlight, AtRest
  <2> QED BY <2>2, <2>3
<1>3. \A e \in Emails \ {email'[r]} : OneDocumentFor(e)'
  BY DEF AccountsSerialInv, OneDocumentFor, AtMostOneFor, UsersOf, UnverifiedOf
<1> QED BY <1>1, <1>2, <1>3 DEF AccountsSerialInv

\* The requests at the steps of Accounts are about an address.
LEMMA HandlersAddressed ==
  ASSUME NEW L, AccountsInv(L), NEW r \in Requests, pc[r] \in HandlerLabels
  PROVE  email[r] \in Emails /\ pc[r] \notin AtRest
BY DEF AccountsInv, AccountsOnTheirWay, OtpInv, ServerInv, OnItsWay,
   HandlerLabels, OtpLabels, AccountLabels, AtRest

\* The step of a handler that writes no document.
LEMMA ReadingStep ==
  ASSUME NEW L, AccountsInv(L), AccountsSerialInv, NEW r \in Requests,
         pc[r] \in HandlerLabels,
         UNCHANGED <<users, unverifiedUsers, password>>,
         \A q \in Requests \ {r} : draft'[q] = draft[q] /\ account'[q] = account[q],
         (\E l : Goto(r, l)) \/ (\E o : Reply(r, o)),
         StillTrueFor(r)'
  PROVE  AccountsSerialInv'
<1>0. email[r] \in Emails /\ pc[r] \notin AtRest
  BY HandlersAddressed
<1> USE DEF AccountsInv, OtpInv, ServerInv, Goto, Reply
<1>1. email'[r] = email[r] /\ email[r] \in Emails
  BY <1>0
<1>2. \A q \in InFlight \ {r} : email[q] # email[r]
  BY <1>0 DEF AccountsSerialInv, Alone, InFlight
<1>3. \A e \in Emails : UsersOf(e)' = UsersOf(e) /\ UnverifiedOf(e)' = UnverifiedOf(e)
  BY DEF UsersOf, UnverifiedOf
<1>4. OneDocumentFor(email[r])'
  BY <1>1 DEF AccountsSerialInv, OneDocumentFor
<1>5. \A q \in Requests \ {r} :
        /\ pc'[q] = pc[q] /\ email'[q] = email[q]
        /\ route'[q] = route[q] /\ reply'[q] = reply[q]
  OBVIOUS
<1> HIDE DEF AccountsInv
<1> QED BY <1>1, <1>2, <1>3, <1>4, <1>5, StepOfOne

\* So is an arrival, which waits until its address is free.
LEMMA ArrivalStep ==
  ASSUME NEW L, AccountsInv(L), AccountsSerialInv, ~Overlapping, NEW r \in Requests,
         UNCHANGED <<users, unverifiedUsers, draft, account>>,
         \A q \in Requests \ {r} : password'[q] = password[q],
         NEW e \in Emails, NEW rt, NEW l, Arrive(r, rt, e, l),
         l \in {"findVerified", "findOtp", "findForgetful", "findOwner",
                "deleteOtps"}
  PROVE  AccountsSerialInv'
<1> USE DEF AccountsInv, OtpInv, ServerInv, Arrive
<1>1. email'[r] = e
  OBVIOUS
<1>2. \A q \in InFlight \ {r} : email[q] # e
  OBVIOUS
<1>3. \A a \in Emails : UsersOf(a)' = UsersOf(a) /\ UnverifiedOf(a)' = UnverifiedOf(a)
  BY DEF UsersOf, UnverifiedOf
<1>4. OneDocumentFor(email[r])'
  BY <1>1 DEF AccountsSerialInv, OneDocumentFor
<1>5. StillTrueFor(r)'
  BY ServerAssumption DEF StillTrueFor, Verified, OnItsWay, Outcomes
<1> HIDE DEF AccountsInv
<1> QED BY <1>1, <1>2, <1>3, <1>4, <1>5, StepOfOne

-----------------------------------------------------------------------------
(* Every step keeps the invariant.                                         *)

\* The steps of registration, verification and recovery keep the invariant.
LEMMA AccountStepSerial ==
  ASSUME NEW L, AccountsInv(L), AccountsSerialInv, ~Overlapping, NEW r \in Requests,
         AccountArrival(r) \/ AccountHandler(r)
  PROVE  AccountsSerialInv'
<1> USE ServerAssumption, AccountsAssumption, AccountDocsAssumption
<1>0. /\ StillTrueFor(r)
      /\ pc[r] \in HandlerLabels =>
           /\ email[r] \in Emails /\ OneDocumentFor(email[r])
           /\ \A q \in InFlight \ {r} : email[q] # email[r]
           /\ reply[r] = Nil
  <2>1. pc[r] \in HandlerLabels => email[r] \in Emails /\ pc[r] \notin AtRest
    BY HandlersAddressed
  <2> QED BY <2>1 DEF AccountsSerialInv, AccountsInv, OtpInv, AtRest, Alone,
             InFlight, OnItsWay
<1>1. CASE AccountArrival(r)
  BY <1>1, ArrivalStep DEF AccountArrival, Register, VerifyOtp, ForgotOtp,
     ChangePassword, AccountsInv, OtpInv, AccountVarsTypeOK, accountVars
<1>2. CASE RegisterFindsVerified(r)
  <2> USE <1>2 DEF RegisterFindsVerified, accountVars
  <2>1. StillTrueFor(r)'
    BY <1>0 DEF StillTrueFor, Verified, UsersOf, UnverifiedOf, Goto, Reply,
       AccountsInv, OtpInv, ServerInv, OnItsWay, AccountVarsTypeOK, AtRest,
       AccountsOnTheirWay
  <2>2. pc[r] \in HandlerLabels
    BY DEF HandlerLabels, OtpLabels, AccountLabels
  <2>3. \A q \in Requests \ {r} : draft'[q] = draft[q] /\ account'[q] = account[q]
    BY DEF AccountsInv, AccountVarsTypeOK
  <2> QED BY <2>1, <2>2, <2>3, ReadingStep
<1>3. CASE RegisterFindsUnverified(r)
  <2> USE <1>3 DEF RegisterFindsUnverified, accountVars
  <2>1. StillTrueFor(r)'
    BY <1>0 DEF StillTrueFor, Verified, UsersOf, UnverifiedOf, Goto, Reply,
       AccountsInv, OtpInv, ServerInv, OnItsWay, AccountVarsTypeOK, AtRest,
       AccountsOnTheirWay
  <2>2. pc[r] \in HandlerLabels
    BY DEF HandlerLabels, OtpLabels, AccountLabels
  <2>3. \A q \in Requests \ {r} : draft'[q] = draft[q] /\ account'[q] = account[q]
    BY DEF AccountsInv, AccountVarsTypeOK
  <2> QED BY <2>1, <2>2, <2>3, ReadingStep
<1>4. CASE VerifyFindsUnverified(r)
  <2> USE <1>4 DEF VerifyFindsUnverified, accountVars
  <2>1. StillTrueFor(r)'
    BY <1>0 DEF StillTrueFor, Verified, UsersOf, UnverifiedOf, Goto, Reply,
       AccountsInv, OtpInv, ServerInv, OnItsWay, AccountVarsTypeOK, AtRest,
       AccountsOnTheirWay
  <2>2. pc[r] \in HandlerLabels
    BY DEF HandlerLabels, OtpLabels, AccountLabels
  <2>3. \A q \in Requests \ {r} : draft'[q] = draft[q] /\ account'[q] = account[q]
    BY DEF AccountsInv, AccountVarsTypeOK
  <2> QED BY <2>1, <2>2, <2>3, ReadingStep
<1>5. CASE VerifyFindsVerified(r)
  <2> USE <1>5 DEF VerifyFindsVerified, accountVars
  <2>1. StillTrueFor(r)'
    BY <1>0 DEF StillTrueFor, Verified, UsersOf, UnverifiedOf, Goto, Reply,
       AccountsInv, OtpInv, ServerInv, OnItsWay, AccountVarsTypeOK, AtRest,
       AccountsOnTheirWay
  <2>2. pc[r] \in HandlerLabels
    BY DEF HandlerLabels, OtpLabels, AccountLabels
  <2>3. \A q \in Requests \ {r} : draft'[q] = draft[q] /\ account'[q] = account[q]
    BY DEF AccountsInv, AccountVarsTypeOK
  <2> QED BY <2>1, <2>2, <2>3, ReadingStep
<1>6. CASE ForgotFindsUser(r)
  <2> USE <1>6 DEF ForgotFindsUser, accountVars
  <2>1. StillTrueFor(r)'
    BY <1>0 DEF StillTrueFor, Verified, UsersOf, UnverifiedOf, Goto, Reply,
       AccountsInv, OtpInv, ServerInv, OnItsWay, AccountVarsTypeOK, AtRest,
       AccountsOnTheirWay
  <2>2. pc[r] \in HandlerLabels
    BY DEF HandlerLabels, OtpLabels, AccountLabels
  <2>3. \A q \in Requests \ {r} : draft'[q] = draft[q] /\ account'[q] = account[q]
    BY DEF AccountsInv, AccountVarsTypeOK
  <2> QED BY <2>1, <2>2, <2>3, ReadingStep
<1>7. CASE ForgotFindsGoogleUser(r)
  <2> USE <1>7 DEF ForgotFindsGoogleUser, accountVars
  <2>1. StillTrueFor(r)'
    BY <1>0 DEF StillTrueFor, Verified, UsersOf, UnverifiedOf, Goto, Reply,
       AccountsInv, OtpInv, ServerInv, OnItsWay, AccountVarsTypeOK, AtRest,
       AccountsOnTheirWay
  <2>2. pc[r] \in HandlerLabels
    BY DEF HandlerLabels, OtpLabels, AccountLabels
  <2>3. \A q \in Requests \ {r} : draft'[q] = draft[q] /\ account'[q] = account[q]
    BY DEF AccountsInv, AccountVarsTypeOK
  <2> QED BY <2>1, <2>2, <2>3, ReadingStep
<1>8. CASE ChangeFindsUser(r)
  <2> USE <1>8 DEF ChangeFindsUser, accountVars
  <2>1. StillTrueFor(r)'
    BY <1>0 DEF StillTrueFor, Verified, UsersOf, UnverifiedOf, Goto, Reply,
       AccountsInv, OtpInv, ServerInv, OnItsWay, AccountVarsTypeOK, AtRest,
       AccountsOnTheirWay
  <2>2. pc[r] \in HandlerLabels
    BY DEF HandlerLabels, OtpLabels, AccountLabels
  <2>3. \A q \in Requests \ {r} : draft'[q] = draft[q] /\ account'[q] = account[q]
    BY DEF AccountsInv, AccountVarsTypeOK
  <2> QED BY <2>1, <2>2, <2>3, ReadingStep
<1>9. CASE ComparePassword(r)
  <2> USE <1>9 DEF ComparePassword, accountVars
  <2>1. StillTrueFor(r)'
    BY <1>0 DEF StillTrueFor, Verified, UsersOf, UnverifiedOf, Goto, Reply,
       AccountsInv, OtpInv, ServerInv, OnItsWay, AccountVarsTypeOK, AtRest,
       AccountsOnTheirWay
  <2>2. pc[r] \in HandlerLabels
    BY DEF HandlerLabels, OtpLabels, AccountLabels
  <2>3. \A q \in Requests \ {r} : draft'[q] = draft[q] /\ account'[q] = account[q]
    BY DEF AccountsInv, AccountVarsTypeOK
  <2> QED BY <2>1, <2>2, <2>3, ReadingStep
<1>10. CASE ReplaceUnverified(r)
  <2> USE <1>10 DEF ReplaceUnverified, DeleteUnverifiedUser
  <2>1. /\ pc[r] \in HandlerLabels
        /\ email' = email
        /\ \A q \in Requests \ {r} :
             /\ pc'[q] = pc[q]
             /\ route'[q] = route[q] /\ reply'[q] = reply[q]
             /\ password'[q] = password[q]
             /\ draft'[q] = draft[q] /\ account'[q] = account[q]
    BY DEF Goto, Reply, HandlerLabels, AccountLabels, AccountsInv, OtpInv,
       ServerInv
  <2>2. \A e \in Emails \ {email[r]} : UnverifiedOf(e)' = UnverifiedOf(e)
    BY DEF UnverifiedOf
  <2>3. \A e \in Emails : UsersOf(e)' = UsersOf(e)
    BY DEF UsersOf
  <2>4. UnverifiedOf(email[r])' = {}
    BY <1>0, <2>1 DEF OneDocumentFor, AtMostOneFor, UnverifiedOf
  <2>5. StillTrueFor(r)'
    BY <1>0, <2>1, <2>3, <2>4 DEF StillTrueFor, Verified, Goto, AccountsInv,
       OtpInv, ServerInv
  <2>6. OneDocumentFor(email[r])'
    BY <1>0, <2>1, <2>4 DEF OneDocumentFor, AtMostOneFor, UnverifiedOf
  <2> QED BY <1>0, <2>1, <2>2, <2>3, <2>4, <2>5, <2>6, StepOfOne
<1>11. CASE CreateUnverified(r)
  <2> USE <1>11 DEF CreateUnverified
  <2>1. /\ pc[r] \in HandlerLabels
        /\ email' = email
        /\ \A q \in Requests \ {r} :
             /\ pc'[q] = pc[q]
             /\ route'[q] = route[q] /\ reply'[q] = reply[q]
             /\ password'[q] = password[q]
             /\ draft'[q] = draft[q] /\ account'[q] = account[q]
    BY DEF Goto, Reply, HandlerLabels, AccountLabels, AccountsInv, OtpInv,
       ServerInv
  <2>2. \A e \in Emails \ {email[r]} : UnverifiedOf(e)' = UnverifiedOf(e)
    BY DEF UnverifiedOf
  <2>3. \A e \in Emails : UsersOf(e)' = UsersOf(e)
    BY DEF UsersOf
  <2>4. UsersOf(email[r]) = {}
    BY <1>0 DEF StillTrueFor
  <2>5. StillTrueFor(r)'
    BY <1>0, <2>1 DEF StillTrueFor, Verified, Goto, AccountsInv, OtpInv,
       ServerInv, AtRest
  <2>6. OneDocumentFor(email[r])'
    BY <1>0, <2>1 DEF StillTrueFor, OneDocumentFor, AtMostOneFor, UnverifiedOf
  <2> QED BY <1>0, <2>1, <2>2, <2>3, <2>4, <2>5, <2>6, StepOfOne
<1>12. CASE CreateUser(r)
  <2> USE <1>12 DEF CreateUser
  <2>1. /\ pc[r] \in HandlerLabels
        /\ email' = email
        /\ \A q \in Requests \ {r} :
             /\ pc'[q] = pc[q]
             /\ route'[q] = route[q] /\ reply'[q] = reply[q]
             /\ password'[q] = password[q]
             /\ draft'[q] = draft[q] /\ account'[q] = account[q]
    BY DEF Goto, Reply, HandlerLabels, AccountLabels, AccountsInv, OtpInv,
       ServerInv
  <2>0. UsersOf(email[r]) = {} /\ draft[r] \in UnverifiedOf(email[r])
    BY <1>0 DEF StillTrueFor
  <2>2. \A e \in Emails : UnverifiedOf(e)' = UnverifiedOf(e)
    BY DEF UnverifiedOf
  <2>3. \A e \in Emails \ {email[r]} : UsersOf(e)' = UsersOf(e)
    BY <2>0 DEF UsersOf, UnverifiedOf
  <2>5. StillTrueFor(r)'
    BY <1>0, <2>1 DEF StillTrueFor, Verified, Goto, AccountsInv, OtpInv,
       ServerInv, AtRest
  <2>6. OneDocumentFor(email[r])'
    BY <1>0, <2>0, <2>1 DEF OneDocumentFor, AtMostOneFor, UsersOf
  <2> QED BY <1>0, <2>0, <2>1, <2>2, <2>3, <2>5, <2>6, StepOfOne
<1>13. CASE DropUnverified(r)
  <2> USE <1>13 DEF DropUnverified, DeleteUnverifiedUser
  <2>1. /\ pc[r] \in HandlerLabels
        /\ email' = email
        /\ \A q \in Requests \ {r} :
             /\ pc'[q] = pc[q]
             /\ route'[q] = route[q] /\ reply'[q] = reply[q]
             /\ password'[q] = password[q]
             /\ draft'[q] = draft[q] /\ account'[q] = account[q]
    BY DEF Goto, Reply, HandlerLabels, AccountLabels, AccountsInv, OtpInv,
       ServerInv
  <2>2. \A e \in Emails \ {email[r]} : UnverifiedOf(e)' = UnverifiedOf(e)
    BY DEF UnverifiedOf
  <2>3. \A e \in Emails : UsersOf(e)' = UsersOf(e)
    BY DEF UsersOf
  <2>4. UnverifiedOf(email[r])' = {}
    BY <1>0, <2>1 DEF OneDocumentFor, AtMostOneFor, UnverifiedOf
  <2>7. UsersOf(email[r])' # {}
    BY <1>0, <2>1, <2>3 DEF AccountsInv, EveryRegistrationKept
  <2>5. StillTrueFor(r)'
    BY <1>0, <2>1, <2>4, <2>7 DEF StillTrueFor, Verified, Reply, AccountsInv,
       OtpInv, ServerInv
  <2>6. OneDocumentFor(email[r])'
    BY <1>0, <2>1, <2>4 DEF OneDocumentFor, AtMostOneFor, UnverifiedOf
  <2> QED BY <1>0, <2>1, <2>2, <2>3, <2>4, <2>5, <2>6, StepOfOne
<1>14. CASE UpdateUser(r)
  <2> USE <1>14 DEF UpdateUser
  <2>1. /\ pc[r] \in HandlerLabels
        /\ email' = email
        /\ \A q \in Requests \ {r} :
             /\ pc'[q] = pc[q]
             /\ route'[q] = route[q] /\ reply'[q] = reply[q]
             /\ password'[q] = password[q]
             /\ draft'[q] = draft[q] /\ account'[q] = account[q]
    BY DEF Goto, Reply, HandlerLabels, AccountLabels, AccountsInv, OtpInv,
       ServerInv
  <2>0. account[r] \in users /\ account[r].email = email[r] /\ account[r] \in UserDoc
    BY <1>0 DEF StillTrueFor, UsersOf, AccountsInv, AccountVarsTypeOK
  <2> DEFINE v == [account[r] EXCEPT !.password = Hash(Plain(password[r]))]
  <2>7. users' = (users \ {account[r]}) \union {v}
    BY <1>0, <2>0, <2>1 DEF UsersOf, OneDocumentFor, AtMostOneFor
  <2>8. v.email = email[r]
    BY <2>0 DEF UserDoc
  <2> HIDE DEF v
  <2>2. \A e \in Emails : UnverifiedOf(e)' = UnverifiedOf(e)
    BY DEF UnverifiedOf
  <2>3. \A e \in Emails \ {email[r]} : UsersOf(e)' = UsersOf(e)
    BY <2>0, <2>7, <2>8 DEF UsersOf
  <2>4. UsersOf(email[r])' = {v}
    BY <1>0, <2>0, <2>1, <2>7, <2>8 DEF UsersOf, OneDocumentFor, AtMostOneFor
  <2>5. StillTrueFor(r)'
    BY <1>0, <2>1 DEF StillTrueFor, Verified, Reply, AccountsInv,
       AccountsOnTheirWay, OtpInv, ServerInv
  <2>6. OneDocumentFor(email[r])'
    BY <1>0, <2>1, <2>4 DEF OneDocumentFor, AtMostOneFor, UsersOf
  <2> QED BY <1>0, <2>1, <2>2, <2>3, <2>4, <2>5, <2>6, StepOfOne
<1> QED
  BY <1>1, <1>2, <1>3, <1>4, <1>5, <1>6, <1>7, <1>8, <1>9, <1>10, <1>11,
    <1>12, <1>13, <1>14
     DEF AccountHandler

\* So do the steps of the one-time passwords, which touch no account.
LEMMA AccountOtpStepSerial ==
  ASSUME NEW L, AccountsInv(L), AccountsSerialInv, ~Overlapping, NEW r \in Requests,
         OtpArrival(r) \/ OtpHandler(r), UNCHANGED accountVars
  PROVE  AccountsSerialInv'
<1> USE ServerAssumption DEF accountVars
<1>1. CASE OtpArrival(r)
  BY <1>1, ArrivalStep DEF OtpArrival, ResendOtp, VerifyForgotOtp
<1>2. CASE OtpHandler(r)
  <2> USE <1>2 DEF OtpHandler, DeleteOtps, SaveOtp, MailOtp, FindOtp, CheckOtp,
          ConsumeOtp, ReplyVerified, Goto, Reply
  <2>1. /\ pc[r] \in HandlerLabels
        /\ \E o : Goto(r, o) \/ Reply(r, o)
    BY DEF HandlerLabels, OtpLabels
  <2>2. StillTrueFor(r)'
    <3>1. pc'[r] \in {"saveOtp", "mailOtp", "checkOtp", "consumeOtp",
                     "otpVerified", "replied"}
      BY DEF AccountsInv, OtpInv, ServerInv
    <3>2. /\ reply'[r] = "ok" => MailOtp(r) \/ ReplyVerified(r)
          /\ MailOtp(r) => route[r] \in SendRoutes
          /\ route'[r] = route[r]
      BY DEF AccountsInv, OtpInv, ServerInv, OnItsWay, Outcomes
    <3>3. ~ Verified(r)'
      BY <3>2 DEF Verified, SendRoutes
    <3> QED BY <3>1, <3>3 DEF StillTrueFor
  <2> QED BY <2>1, <2>2, ReadingStep
<1> QED BY <1>1, <1>2

\* Faults and the clock end handlers, and leave the documents alone.
LEMMA AccountEnvironmentSerial ==
  ASSUME NEW L, AccountsInv(L), AccountsSerialInv, Environment \/ UNCHANGED serverVars,
         UNCHANGED accountVars
  PROVE  AccountsSerialInv'
<1> USE ServerAssumption DEF accountVars, Environment, Fail, Reply, Crash,
      Tick,
        Rest, InFlight, AtRest, serverVars, AccountsInv, OtpInv, ServerInv
<1>1. \A q \in Requests : pc'[q] \in {pc[q], "replied", "lost"}
  OBVIOUS
<1>2. Alone'
  BY <1>1 DEF AccountsSerialInv, Alone
<1>3. \A q \in Requests : reply'[q] = "ok" => reply[q] = "ok"
  OBVIOUS
<1>4. \A q \in Requests : StillTrueFor(q)'
  BY <1>1, <1>3 DEF AccountsSerialInv, StillTrueFor, Verified, UsersOf,
     UnverifiedOf
<1>5. \A e \in Emails : OneDocumentFor(e)'
  BY DEF AccountsSerialInv, OneDocumentFor
<1> QED BY <1>2, <1>4, <1>5 DEF AccountsSerialInv

\* The invariant holds in the first state, where no handler runs.
LEMMA AccountInitSerial ==
  ASSUME AccountsInit
  PROVE  AccountsSerialInv
BY ServerAssumption DEF AccountsInit, OtpServiceInit, ServerInit, Outcomes,
   AccountsSerialInv, Alone, InFlight, AtRest, StillTrueFor, Verified,
   OneDocumentFor, AtMostOneFor

-----------------------------------------------------------------------------
(* The theorems.                                                           *)

\* When clients wait, every step keeps the invariant.
LEMMA AccountsNextSerial ==
  ASSUME ~Overlapping, AccountsInv(HandlerLabels), AccountsSerialInv, [AccountsNext]_vars
  PROVE  AccountsSerialInv'
<1>1. ASSUME NEW r \in Requests, AccountArrival(r) \/ Handler(r)
      PROVE  AccountsSerialInv'
  BY <1>1, AccountStepSerial, AccountOtpStepSerial DEF Handler
<1>2. ASSUME NEW r \in Requests, OtpArrival(r), UNCHANGED accountVars
      PROVE  AccountsSerialInv'
  BY <1>2, AccountOtpStepSerial
<1>3. CASE (Environment \/ UNCHANGED serverVars) /\ UNCHANGED accountVars
  BY <1>3, AccountEnvironmentSerial
<1> QED BY <1>1, <1>2, <1>3 DEF AccountsNext, vars

\* What a handler has found out about its address stays true.
THEOREM AccountsSerialInvariance ==
  ASSUME ~Overlapping
  PROVE  AccountsSpec => []AccountsSerialInv
<1>1. AccountsInv(HandlerLabels) /\ AccountsSerialInv /\ [AccountsNext]_vars
        => AccountsSerialInv'
  BY AccountsNextSerial
<1> QED
  BY <1>1, AccountInitSerial, AccountsInvariance, PTL
     DEF AccountsSpec, AccountsSafety

\* An address has at most one account.
THEOREM AccountsOneAccount ==
  ASSUME ~Overlapping
  PROVE  AccountsSpec => []OneAccountPerEmail
<1>1. AccountsSerialInv => OneAccountPerEmail
  BY DEF AccountsSerialInv, OneDocumentFor, OneAccountPerEmail
<1>2. AccountsSpec => []AccountsSerialInv
  BY AccountsSerialInvariance
<1> QED BY <1>1, <1>2, PTL

\* An address has at most one registration.
THEOREM AccountsOneRegistration ==
  ASSUME ~Overlapping
  PROVE  AccountsSpec => []OneRegistrationPerEmail
<1>1. AccountsSerialInv => OneRegistrationPerEmail
  BY DEF AccountsSerialInv, OneDocumentFor, OneRegistrationPerEmail
<1>2. AccountsSpec => []AccountsSerialInv
  BY AccountsSerialInvariance
<1> QED BY <1>1, <1>2, PTL

\* An address that has been verified has an account and keeps no registration.
THEOREM AccountsVerified ==
  ASSUME ~Overlapping
  PROVE  AccountsSpec => []VerifiedLeavesNoRegistration
<1>1. AccountsSerialInv => VerifiedLeavesNoRegistration
  BY DEF AccountsSerialInv, StillTrueFor, Verified,
     VerifiedLeavesNoRegistration
<1>2. AccountsSpec => []AccountsSerialInv
  BY AccountsSerialInvariance
<1> QED BY <1>1, <1>2, PTL

\* Only a handler that is through with its update tells the client that the
\* password has changed, and the password it writes is another one.
LEMMA ChangeChanges ==
  ASSUME AccountsInv(HandlerLabels), AccountsSerialInv, [AccountsNext]_vars,
         NEW r \in Requests, ChangeAnswered(r)
  PROVE  ~HoldsNew(r) /\ HoldsNew(r)'
<1> USE ServerAssumption DEF Outcomes
<1>1. UpdateUser(r)
  <2> USE DEF ChangeAnswered, Goto, Reply, Arrive, AccountsInv, OtpInv, ServerInv, vars,
          serverVars
  <2>1. ASSUME NEW q \in Requests, AccountArrival(q) \/ OtpArrival(q)
        PROVE  FALSE
    BY <2>1 DEF AccountArrival, Register, VerifyOtp, ForgotOtp, ChangePassword,
       OtpArrival, ResendOtp, VerifyForgotOtp
  <2>2. ASSUME NEW q \in Requests, OtpHandler(q)
        PROVE  FALSE
    BY <2>2 DEF OtpHandler, DeleteOtps, SaveOtp, MailOtp, FindOtp, CheckOtp,
       ConsumeOtp, ReplyVerified, OnItsWay, SendRoutes
  <2>3. ASSUME NEW q \in Requests, AccountHandler(q)
        PROVE  UpdateUser(r)
    BY <2>3 DEF AccountHandler, RegisterFindsVerified, RegisterFindsUnverified,
       ReplaceUnverified, CreateUnverified, VerifyFindsUnverified,
       VerifyFindsVerified, CreateUser, DropUnverified, ForgotFindsUser,
       ForgotFindsGoogleUser, ChangeFindsUser, ComparePassword, UpdateUser,
       AccountsOnTheirWay
  <2>4. ASSUME Environment
        PROVE  FALSE
    BY <2>4 DEF Environment, Fail, Crash, Tick, Rest
  <2> QED BY <2>1, <2>2, <2>3, <2>4 DEF AccountsNext, Handler
<1>2. /\ account[r] \in UsersOf(email[r]) /\ OneDocumentFor(email[r])
      /\ account[r].password # Hash(Plain(password[r]))
  BY <1>1 DEF AccountsSerialInv, StillTrueFor, UpdateUser, AccountsInv,
     AccountsOnTheirWay, AccountLabels
<1>3. account[r] \in UserDoc
  BY <1>2 DEF UsersOf, AccountsInv, AccountVarsTypeOK
<1>4. UsersOf(email[r]) = {account[r]} /\ account[r] \in users
  BY <1>2 DEF UsersOf, OneDocumentFor, AtMostOneFor
<1>5. ~HoldsNew(r)
  BY <1>2, <1>4 DEF HoldsNew
<1>6. HoldsNew(r)'
  <2> DEFINE v == [account[r] EXCEPT !.password = Hash(Plain(password[r]))]
  <2>1. v.email = email[r] /\ v.password = Hash(Plain(password[r]))
    BY <1>2, <1>3 DEF UserDoc, UsersOf
  <2>2. v \in users' /\ email' = email /\ password' = password
    BY <1>1, <1>4 DEF UpdateUser, UsersOf, Reply
  <2> HIDE DEF v
  <2> QED BY <2>1, <2>2 DEF HoldsNew, UsersOf
<1> QED BY <1>5, <1>6

\* A change of password that succeeds stores the new password in the account of
\* its address, which held another one until then.
THEOREM AccountsChange ==
  ASSUME ~Overlapping
  PROVE  AccountsSpec => ChangeReallyChanges
<1>1. AccountsInv(HandlerLabels) /\ AccountsSerialInv /\ [AccountsNext]_vars =>
        [\A r \in Requests : ChangeAnswered(r) => ~HoldsNew(r) /\ HoldsNew(r)']_vars
  BY ChangeChanges
<1>2. AccountsSpec => []AccountsSerialInv
  BY AccountsSerialInvariance
<1> QED
  BY <1>1, <1>2, AccountsInvariance, PTL
     DEF AccountsSpec, AccountsSafety, ChangeReallyChanges

-----------------------------------------------------------------------------
(* Accounts implements Membership.                                         *)

\* The password an account was given, before it was hashed.
PasswordOf(u) == IF u.password = Nil THEN Nil ELSE u.password.text

\* What an account's password is.
LEMMA HeldIsHashed ==
  ASSUME NEW L, AccountsInv(L), NEW e \in Emails
  PROVE  \A u \in UsersOf(e) : u.password # Nil =>
           \E p \in Passwords : u.password = Hash(Plain(p))
<1>1. \A u \in Founders : u.password # Nil =>
        \E p \in Passwords : u.password = Hash(Plain(p))
  BY DEF Founders
<1>2. \A r \in Requests :
        pc[r] # "idle" /\ route[r] \in {"register", "changePassword"} =>
          password[r] \in Passwords
  BY DEF AccountsInv, AccountsOnTheirWay
<1> QED
  BY <1>1, <1>2 DEF AccountsInv, EveryPasswordWasSubmitted, WasSubmitted,
    UsersOf

\* One account is mapped to its one password, one registration likewise.
LEMMA WhatIsHeld ==
  ASSUME NEW L, AccountsInv(L), NEW e \in Emails, OneDocumentFor(e)
  PROVE  /\ UsersOf(e) = {} => HeldBy(e) = {}
         /\ \A u \in UsersOf(e) :
              HeldBy(e) = {PasswordOf(u)} /\ PasswordOf(u) \in Passwords \union {Nil}
         /\ UnverifiedOf(e) = {} => OfferedTo(e) = {}
         /\ \A d \in UnverifiedOf(e) :
              OfferedTo(e) = {d.password.text} /\ d.password.text \in Passwords
<1> USE AccountsAssumption
<1>1. \A u \in UsersOf(e) : u.password # Nil =>
        \E p \in Passwords : u.password = Hash(Plain(p))
  BY HeldIsHashed
<1>2. \A d \in UnverifiedOf(e) : \E p \in Passwords : d.password = Plain(p)
  BY DEF AccountsInv, EveryRegistrationWasMade, WasMade, UnverifiedOf,
     AccountsOnTheirWay, AccountVarsTypeOK, UnverifiedUserDoc
<1>3. \A p \in Passwords :
        /\ Hash(Plain(p)).text = p /\ Plain(p).text = p
        /\ \A q \in Passwords : /\ Hash(Plain(p)) = Hash(Plain(q)) => p = q
                                /\ Plain(p) = Plain(q) => p = q
  BY DEF Hash, Plain
<1>4. \A p \in Passwords : Hash(Plain(p)) # Nil
  BY PasswordTypes, AccountDocsAssumption
<1>5. \A u \in UsersOf(e) : UsersOf(e) = {u}
  BY DEF OneDocumentFor, AtMostOneFor, UsersOf
<1>6. \A d \in UnverifiedOf(e) : UnverifiedOf(e) = {d}
  BY DEF OneDocumentFor, AtMostOneFor, UnverifiedOf
<1>7. \A u \in UsersOf(e) :
        HeldBy(e) = {PasswordOf(u)} /\ PasswordOf(u) \in Passwords \union {Nil}
  <2> SUFFICES ASSUME NEW u \in UsersOf(e)
               PROVE  HeldBy(e) = {PasswordOf(u)} /\ PasswordOf(u) \in Passwords \union {Nil}
    OBVIOUS
  <2>1. CASE u.password = Nil
    BY <2>1, <1>4, <1>5 DEF HeldBy, PasswordOf
  <2>2. CASE u.password # Nil
    <3>1. PICK p \in Passwords : u.password = Hash(Plain(p))
      BY <2>2, <1>1
    <3> QED BY <2>2, <3>1, <1>3, <1>5 DEF HeldBy, PasswordOf
  <2> QED BY <2>1, <2>2
<1>8. \A d \in UnverifiedOf(e) :
        OfferedTo(e) = {d.password.text} /\ d.password.text \in Passwords
  BY <1>2, <1>3, <1>6 DEF OfferedTo
<1>9. /\ UsersOf(e) = {} => HeldBy(e) = {}
      /\ UnverifiedOf(e) = {} => OfferedTo(e) = {}
  BY DEF HeldBy, OfferedTo
<1> QED BY <1>7, <1>8, <1>9

\* Passwords that differ have hashes that differ.
LEMMA HashedOnce ==
  \A p \in Passwords :
    /\ Hash(Plain(p)) # Nil
    /\ \A q \in Passwords : Hash(Plain(p)) = Hash(Plain(q)) => p = q
BY PasswordTypes, AccountDocsAssumption DEF Hash, Plain

\* What is held and on offer is a matter of the documents.
LEMMA HeldUnmoved ==
  ASSUME NEW e \in Emails
  PROVE  /\ UsersOf(e)' = UsersOf(e) => HeldBy(e)' = HeldBy(e)
         /\ UnverifiedOf(e)' = UnverifiedOf(e) => OfferedTo(e)' = OfferedTo(e)
BY DEF HeldBy, OfferedTo

\* A step that touches the accounts, or the registrations, of one address
\* changes what is held, or on offer, there.
LEMMA HeldMoves ==
  ASSUME NEW a \in Emails, NEW S
  PROVE  /\ /\ HeldBy(a)' = S
            /\ \A e \in Emails \ {a} : UsersOf(e)' = UsersOf(e)
            => [e \in Emails |-> HeldBy(e)]'
                 = [[e \in Emails |-> HeldBy(e)] EXCEPT ![a] = S]
         /\ /\ OfferedTo(a)' = S
            /\ \A e \in Emails \ {a} : UnverifiedOf(e)' = UnverifiedOf(e)
            => [e \in Emails |-> OfferedTo(e)]'
                 = [[e \in Emails |-> OfferedTo(e)] EXCEPT ![a] = S]
BY HeldUnmoved

\* Every step of a handler of Accounts is one of Membership.
LEMMA AccountStepImplements ==
  ASSUME NEW L, AccountsInv(L), AccountsSerialInv, AccountsInv(L)', AccountsSerialInv',
         NEW r \in Requests, AccountArrival(r) \/ AccountHandler(r)
  PROVE  M!MembershipNext \/ UNCHANGED M!membershipVars
<1> DEFINE H == [e \in Emails |-> HeldBy(e)]
           O == [e \in Emails |-> OfferedTo(e)]
<1>0. /\ pc[r] \in AccountLabels => email[r] \in Emails
      /\ StillTrueFor(r)
      /\ \A e \in Emails : OneDocumentFor(e) /\ OneDocumentFor(e)'
  BY DEF AccountsSerialInv, AccountsInv, AccountsOnTheirWay
<1>1. ASSUME \A e \in Emails : UsersOf(e)' = UsersOf(e)
      PROVE  H' = H
  BY <1>1, HeldUnmoved
<1>2. ASSUME \A e \in Emails : UnverifiedOf(e)' = UnverifiedOf(e)
      PROVE  O' = O
  BY <1>2, HeldUnmoved
<1>3. ASSUME UNCHANGED <<users, unverifiedUsers>>
      PROVE  UNCHANGED M!membershipVars
  BY <1>1, <1>2, <1>3 DEF UsersOf, UnverifiedOf, M!membershipVars
<1>4. CASE ReplaceUnverified(r) \/ DropUnverified(r)
  <2>1. /\ email[r] \in Emails
        /\ DeleteUnverifiedUser(email[r])
        /\ users' = users /\ email' = email
    BY <1>0, <1>4 DEF AccountLabels, ReplaceUnverified, DropUnverified, Goto,
      Reply
  <2> USE <2>1 DEF DeleteUnverifiedUser
  <2>2. \A e \in Emails \ {email[r]} : UnverifiedOf(e)' = UnverifiedOf(e)
    BY DEF UnverifiedOf
  <2>3. UnverifiedOf(email[r])' = {}
    BY <1>0, <2>1 DEF OneDocumentFor, AtMostOneFor, UnverifiedOf
  <2>4. OfferedTo(email[r])' = {}
    BY <2>3 DEF OfferedTo
  <2>5. O' = [O EXCEPT ![email[r]] = {}]
    BY <2>1, <2>2, <2>4, HeldMoves
  <2>6. H' = H
    BY <1>1 DEF UsersOf
  <2> QED BY <2>1, <2>5, <2>6 DEF M!MembershipNext, M!Withdraw
<1>5. CASE CreateUnverified(r)
  <2> USE <1>5 DEF CreateUnverified
  <2>1. email[r] \in Emails /\ password[r] \in Passwords /\ email' = email
    BY <1>0 DEF AccountLabels, AccountsInv, AccountsOnTheirWay, Goto, Reply
  <2>2. UsersOf(email[r]) = {} /\ UnverifiedOf(email[r]) = {}
    BY <1>0 DEF StillTrueFor
  <2>3. \A e \in Emails \ {email[r]} : UnverifiedOf(e)' = UnverifiedOf(e)
    BY DEF UnverifiedOf
  <2>4. HeldBy(email[r]) = {} /\ OfferedTo(email[r]) = {}
    BY <1>0, <2>1, <2>2, WhatIsHeld
  <2>5. OfferedTo(email[r])' = {password[r]}
    <3>1. UnverifiedOf(email[r])' = {[id |-> r, email |-> email[r],
                                      password |-> Plain(password[r])]}
      BY <2>1, <2>2 DEF UnverifiedOf
    <3>2. \A p, q \in Passwords : Plain(p) = Plain(q) => p = q
      BY DEF Plain
    <3> QED BY <2>1, <3>1, <3>2 DEF OfferedTo
  <2>6. O' = [O EXCEPT ![email[r]] = {password[r]}]
    BY <2>1, <2>3, <2>5, HeldMoves
  <2>7. H' = H
    BY <1>1 DEF UsersOf
  <2> QED BY <2>1, <2>4, <2>6, <2>7 DEF M!MembershipNext, M!Offer
<1>6. CASE CreateUser(r)
  <2> USE <1>6 DEF CreateUser
  <2>1. email[r] \in Emails /\ email' = email
    BY <1>0 DEF AccountLabels, Goto
  <2>2. UsersOf(email[r]) = {} /\ draft[r] \in UnverifiedOf(email[r])
    BY <1>0 DEF StillTrueFor
  <2>3. \A e \in Emails \ {email[r]} : UsersOf(e)' = UsersOf(e)
    BY <2>2 DEF UsersOf, UnverifiedOf
  <2>4. PICK p \in Passwords : draft[r].password = Plain(p)
    BY <2>2 DEF AccountsInv, EveryRegistrationWasMade, WasMade, UnverifiedOf,
       AccountsOnTheirWay, AccountVarsTypeOK, UnverifiedUserDoc
  <2>5. HeldBy(email[r]) = {} /\ OfferedTo(email[r]) = {p}
    BY <1>0, <2>1, <2>2, <2>4, WhatIsHeld DEF Plain
  <2>6. HeldBy(email[r])' = {p}
    <3> DEFINE u == [id |-> r, email |-> draft[r].email,
                     password |-> Hash(draft[r].password), isGoogle |-> FALSE]
    <3>1. UsersOf(email[r])' = {u} /\ u.password = Hash(Plain(p))
      BY <2>1, <2>2, <2>4 DEF UsersOf, UnverifiedOf
    <3> HIDE DEF u
    <3> QED BY <2>1, <3>1, HashedOnce DEF HeldBy
  <2>7. H' = [H EXCEPT ![email[r]] = {p}]
    BY <2>1, <2>3, <2>6, HeldMoves
  <2>8. O' = O
    BY <1>2 DEF UnverifiedOf
  <2> QED BY <2>1, <2>5, <2>7, <2>8 DEF M!MembershipNext, M!Join
<1>7. CASE UpdateUser(r)
  <2> USE <1>7 DEF UpdateUser
  <2>1. email[r] \in Emails /\ password[r] \in Passwords /\ email' = email
    BY <1>0 DEF AccountLabels, AccountsInv, AccountsOnTheirWay, Goto, Reply
  <2>2. /\ account[r] \in UsersOf(email[r])
        /\ account[r].password \notin {Nil, Hash(Plain(password[r]))}
    BY <1>0 DEF StillTrueFor
  <2>3. account[r] \in users /\ account[r].email = email[r] /\ account[r] \in UserDoc
    BY <2>2 DEF UsersOf, AccountsInv, AccountVarsTypeOK
  <2> DEFINE v == [account[r] EXCEPT !.password = Hash(Plain(password[r]))]
  <2>4. users' = (users \ {account[r]}) \union {v}
    BY <1>0, <2>1, <2>2 DEF UsersOf, OneDocumentFor, AtMostOneFor
  <2>5. v.email = email[r] /\ v.password = Hash(Plain(password[r]))
    BY <2>3 DEF UserDoc
  <2> HIDE DEF v
  <2>6. \A e \in Emails \ {email[r]} : UsersOf(e)' = UsersOf(e)
    BY <2>3, <2>4, <2>5 DEF UsersOf
  <2>7. HeldBy(email[r]) \notin {{}, {Nil}, {password[r]}}
    <3>1. HeldBy(email[r]) = {account[r].password.text}
      BY <1>0, <2>1, <2>2, WhatIsHeld DEF PasswordOf
    <3>2. \E p \in Passwords : account[r].password = Hash(Plain(p))
      BY <1>0, <2>1, <2>2, HeldIsHashed
    <3> QED BY <2>1, <2>2, <3>1, <3>2, AccountsAssumption DEF Hash, Plain
  <2>8. HeldBy(email[r])' = {password[r]}
    <3>1. UsersOf(email[r])' = {v}
      BY <1>0, <2>1, <2>3, <2>4, <2>5 DEF UsersOf, OneDocumentFor, AtMostOneFor
    <3> QED BY <2>1, <2>5, <3>1, HashedOnce DEF HeldBy
  <2>9. H' = [H EXCEPT ![email[r]] = {password[r]}]
    BY <2>1, <2>6, <2>8, HeldMoves
  <2>10. O' = O
    BY <1>2 DEF UnverifiedOf
  <2> QED BY <2>1, <2>7, <2>9, <2>10 DEF M!MembershipNext, M!Change
<1>8. ASSUME AccountArrival(r) \/ AccountHandler(r),
             ~ (ReplaceUnverified(r) \/ DropUnverified(r)), ~ CreateUnverified(r),
             ~ CreateUser(r), ~ UpdateUser(r)
      PROVE  UNCHANGED <<users, unverifiedUsers>>
  BY <1>8 DEF AccountArrival, Register, VerifyOtp, ForgotOtp, ChangePassword,
     AccountHandler, RegisterFindsVerified, RegisterFindsUnverified,
     VerifyFindsUnverified, VerifyFindsVerified, ForgotFindsUser,
     ForgotFindsGoogleUser, ChangeFindsUser, ComparePassword, accountVars
<1> QED BY <1>3, <1>4, <1>5, <1>6, <1>7, <1>8

\* The accounts of the start are members, and nothing is on offer.
LEMMA AccountInitImplements ==
  ASSUME AccountsInit
  PROVE  M!MembershipInit
<1>1. AccountsInv(HandlerLabels) /\ AccountsSerialInv
  BY AccountInitInv, AccountInitSerial
<1>2. \A e \in Emails : HeldBy(e) \in {{}, {Nil}} \union {{p} : p \in Passwords}
  BY <1>1, WhatIsHeld DEF AccountsSerialInv
<1>3. \A e \in Emails : OfferedTo(e) = {}
  BY DEF AccountsInit, OfferedTo, UnverifiedOf
<1> QED BY <1>2, <1>3 DEF M!MembershipInit

\* Who touches neither accounts nor registrations changes nothing that
\* Membership sees.
LEMMA MembershipStutters ==
  ASSUME UNCHANGED <<users, unverifiedUsers>>
  PROVE  UNCHANGED M!membershipVars
BY HeldUnmoved DEF UsersOf, UnverifiedOf, M!membershipVars

\* When clients wait, Accounts implements Membership.
THEOREM AccountsImplementMembership ==
  ASSUME ~Overlapping
  PROVE  AccountsSpec => ImplementsMembership
<1> DEFINE Inv == AccountsInv(HandlerLabels) /\ AccountsSerialInv
<1>1. AccountsInit => M!MembershipInit
  BY AccountInitImplements
<1>2. Inv /\ Inv' /\ [AccountsNext]_vars => [M!MembershipNext]_M!membershipVars
  BY MembershipStutters, AccountStepImplements
     DEF AccountsNext, Handler, accountVars, vars
<1>3. AccountsSpec => []AccountsSerialInv
  BY AccountsSerialInvariance
<1> QED
  BY <1>1, <1>2, <1>3, AccountsInvariance, PTL
     DEF AccountsSpec, AccountsSafety, ImplementsMembership, M!MembershipSpec
=============================================================================
