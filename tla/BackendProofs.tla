---------------------------- MODULE BackendProofs ----------------------------
(***************************************************************************)
(* What TLAPS proves about Backend, where accounts, sessions and trips     *)
(* share one process: for any number of requests, addresses, browsers and  *)
(* trip names, that the shapes of the documents survive every interleaving *)
(* and, for clients that wait, what a person's password is and that the    *)
(* accounts still implement Membership.                                    *)
(***************************************************************************)
EXTENDS Backend, AccountsSerialProofs

-----------------------------------------------------------------------------
(* The inductive invariant for every interleaving: that of Accounts, for    *)
(* more labels, and what the handlers of Sessions and Trip rely on.         *)

SessionRoutes == {"login", "google-login", "refresh", "logout", "getUserDetails"}

BackendLabels == HandlerLabels \union S!SessionLabels \union T!TripLabels

\* The handlers of sessions and trips are at the steps of their endpoints, and
\* their requests come from somebody.
OthersOnTheirWay ==
  \A r \in Requests :
    /\ pc[r] \in {"findUser", "compare"} => route[r] = "login"
    /\ pc[r] \in {"fetchDetails", "findGoogle", "createGoogle"} =>
         route[r] = "google-login"
    /\ pc[r] \in {"findToken", "findTokenUser"} => route[r] = "refresh"
    /\ pc[r] = "guard" => route[r] \in {"logout", "getUserDetails"}
    /\ pc[r] \in {"deleteToken", "clearCookies"} => route[r] = "logout"
    /\ pc[r] = "findDetails" => route[r] = "getUserDetails"
    /\ pc[r] \in {"matchToken", "insertToken", "setCookies"} =>
         route[r] \in {"login", "google-login", "refresh"}
    /\ pc[r] \in S!SessionLabels => email[r] \in Emails
    /\ pc[r] \in T!TripLabels => route[r] = "create" /\ email[r] \in Emails

UserIds == {u.id : u \in users}

\* Whoever a request, a token or a block is about has an account, and accounts
\* stay.
AccountsStay ==
  /\ blocked \subseteq UserIds
  /\ userId \in [Requests -> UserIds \union {Nil}]
  /\ \A r \in Requests : pc[r] \in S!ActsForUser => userId[r] # Nil
  /\ \A d \in refreshTokens : d.userId \in UserIds
  /\ \A r \in Requests : pc[r] = "compare" => account[r] # Nil

SessionDocsOK ==
  /\ refreshTokens \subseteq S!TokenDoc
  /\ jar \in [Browsers -> S!Cookies]

BackendInv ==
  /\ AccountsInv(BackendLabels)
  /\ OthersOnTheirWay
  /\ AccountsStay
  /\ SessionDocsOK

-----------------------------------------------------------------------------
(* The inductive invariant for clients that wait.                          *)

\* What the login or the trip of q relies on.
OtherStillTrueFor(q) ==
  /\ pc[q] = "createGoogle" => UsersOf(email[q]) = {}
  /\ pc[q] = "compare" => account[q] \in UsersOf(email[q])
  /\ pc[q] = "saveTrip" =>
       \A d \in trips : email[d.id] = email[q] => d.tripName # tripName[q]

\* The account that the verification q has created holds its registration's
\* password, which q is about to tell the client is good.
StillToldFor(q) ==
  pc[q] = "dropUnverified" =>
    /\ draft[q] # Nil
    /\ \A u \in UsersOf(email[q]) : u.password = Hash(draft[q].password)

\* The password somebody was told is theirs is the one of their account.
SecretIsHeld ==
  /\ secret \in [Emails -> Passwords \union {Nil}]
  /\ \A e \in Emails : secret[e] # Nil =>
       /\ UsersOf(e) # {}
       /\ \A u \in UsersOf(e) : u.password = Hash(Plain(secret[e]))

\* A login that is past the comparison has presented it.
PresentedSecret(q) ==
  /\ route[q] = "login"
  /\ pc[q] \in {"matchToken", "insertToken", "setCookies"}
  /\ secret[email[q]] # Nil
  => password[q] = secret[email[q]]

\* A trip is named by the request that saved it.
TripsNamed == \A d \in trips : d.id \in Requests /\ pc[d.id] # "idle"

BackendSerialInv ==
  /\ AccountsSerialInv
  /\ \A q \in Requests :
       OtherStillTrueFor(q) /\ StillToldFor(q) /\ PresentedSecret(q)
  /\ SecretIsHeld
  /\ GoogleHasNoPassword
  /\ TripsNamed
  /\ OwnTripsDiffer

-----------------------------------------------------------------------------
(* What the steps of the three services have in common.                    *)

OtherRoutes == SessionRoutes \union {"create"}
OtherLabels == S!SessionLabels \union T!TripLabels

\* A step of request r that moves it through its own handler: an arrival at one
\* of routes, a step to one of labels, or a reply.
MovesWithin(r, routes, labels) ==
  \/ \E rt \in routes, e \in Emails, l \in labels : Arrive(r, rt, e, l)
  \/ /\ pc[r] \in labels
     /\ (\E l \in labels : Goto(r, l)) \/ (\E o \in Outcomes : Reply(r, o))

\* The steps of sessions and of trips stay among their own labels.
LEMMA OthersMove ==
  ASSUME BackendInv, NEW r \in Requests,
         LoginSteps(r) \/ SessionSteps(r) \/ TripSteps(r)
  PROVE  MovesWithin(r, OtherRoutes, OtherLabels)
<1> USE BackendAssumption
    DEF MovesWithin, OtherRoutes, SessionRoutes, OtherLabels, S!SessionLabels,
        T!TripLabels, Outcomes
<1>1. CASE LoginSteps(r)
  BY <1>1 DEF LoginSteps, Login, LoginFindsUser, LoginComparesPassword,
     GoogleCreatesUser, S!Login, S!Call, S!Arrive, Arrive, S!LoginFindsUser,
     S!ComparePassword, S!CreateGoogleUser, S!GotoAs, S!Goto, S!Reply, Goto,
     Reply, S!InFlight, InFlight, S!AtRest, AtRest, S!DatedCalls, DatedCalls
<1>2. CASE SessionSteps(r)
  <2>1. CASE \E b \in Browsers : \/ S!GoogleLogin(r, b) \/ S!Refresh(r, b)
                                 \/ S!Logout(r, b) \/ S!GetUserDetails(r, b)
    BY <2>1 DEF S!GoogleLogin, S!Refresh, S!Logout, S!GetUserDetails, S!Call,
       S!Arrive, Arrive, S!InFlight, InFlight, S!AtRest, AtRest
  <2>2. CASE S!Guard(r)
    <3>1. route[r] \in {"logout", "getUserDetails"} /\ pc[r] = "guard"
      BY <2>2 DEF S!Guard, BackendInv, OthersOnTheirWay
    <3>2. S!Guarded[route[r]] \in {"deleteToken", "findDetails"}
      BY <3>1 DEF S!Guarded
    <3> QED BY <2>2, <3>1, <3>2 DEF S!Guard, S!GotoAs, S!Goto, S!Reply, Goto,
              Reply, S!DatedCalls, DatedCalls
  <2>3. CASE S!FetchDetails(r) \/ S!GoogleFindsUser(r) \/ S!RefreshFindsToken(r)
             \/ S!RefreshFindsUser(r) \/ S!MatchToken(r)
    BY <2>3 DEF S!FetchDetails, S!GoogleFindsUser, S!RefreshFindsToken,
       S!RefreshFindsUser, S!MatchToken, S!GotoAs, S!Goto, S!Reply, Goto, Reply,
       S!DatedCalls, DatedCalls
  <2>4. CASE S!InsertToken(r) \/ S!SetTokenCookies(r) \/ S!DeleteToken(r)
             \/ S!ClearTokenCookies(r) \/ S!FindDetails(r)
    BY <2>4 DEF S!InsertToken, S!SetTokenCookies, S!DeleteToken,
       S!ClearTokenCookies, S!FindDetails, S!Goto, S!Reply, Goto, Reply,
       S!DatedCalls, DatedCalls
  <2> QED BY <1>2, <2>1, <2>2, <2>3, <2>4 DEF SessionSteps
<1>3. CASE TripSteps(r)
  BY <1>3 DEF TripSteps, T!TripArrival, T!CreateTrip, T!Arrive, Arrive,
     T!TripHandler, T!FindTrip, T!SaveTrip, T!ReplyTrip, T!Goto, T!Reply, Goto,
     Reply, T!InFlight, InFlight, T!AtRest, AtRest, T!DatedCalls, DatedCalls
<1> QED BY <1>1, <1>2, <1>3

\* The account that googleLogin creates.
GoogleUser(r) ==
  [id |-> r, email |-> email[r], password |-> Nil, isGoogle |-> TRUE]

\* What such a step does to the state of Accounts: a login keeps the password
\* it came with and the account it has read, and one through Google may create
\* an account.
KeepsAccounts(r) ==
  /\ UNCHANGED <<otpVars, unverifiedUsers, draft, now>>
  /\ password' \in [Requests -> Passwords \union {Nil}]
  /\ account' \in [Requests -> UserDoc \union {Nil}]
  /\ \A q \in Requests \ {r} : password'[q] = password[q] /\ account'[q] = account[q]
  /\ \/ users' = users
     \/ /\ pc[r] = "createGoogle" /\ Goto(r, "matchToken")
        /\ users' = users \union {GoogleUser(r)}

\* The steps of sessions and of trips are of that kind.
LEMMA OthersKeepAccounts ==
  ASSUME BackendInv, NEW r \in Requests,
         LoginSteps(r) \/ SessionSteps(r) \/ TripSteps(r)
  PROVE  KeepsAccounts(r)
<1>0. AccountVarsTypeOK
  BY DEF BackendInv, AccountsInv
<1>1. now' = now
  BY OthersMove DEF MovesWithin, Arrive, Goto, Reply
<1>2. CASE SessionSteps(r) \/ TripSteps(r)
  BY <1>0, <1>1, <1>2 DEF SessionSteps, TripSteps, accountVars, KeepsAccounts,
     AccountVarsTypeOK
<1>3. CASE LoginSteps(r)
  <2>1. CASE \E b \in Browsers, p \in Passwords : Login(r, b, p)
    BY <1>0, <1>1, <2>1 DEF Login, KeepsAccounts, AccountVarsTypeOK
  <2>2. CASE LoginFindsUser(r)
    BY <1>0, <1>1, <2>2 DEF LoginFindsUser, KeepsAccounts, AccountVarsTypeOK,
       UsersOf
  <2>3. CASE LoginComparesPassword(r)
    BY <1>0, <1>1, <2>3 DEF LoginComparesPassword, accountVars, KeepsAccounts,
       AccountVarsTypeOK
  <2>4. CASE GoogleCreatesUser(r)
    BY <1>0, <1>1, <2>4 DEF GoogleCreatesUser, S!CreateGoogleUser, S!GotoAs,
       S!Goto, Goto, S!DatedCalls, DatedCalls, KeepsAccounts,
       AccountVarsTypeOK, GoogleUser
  <2> QED BY <1>3, <2>1, <2>2, <2>3, <2>4 DEF LoginSteps
<1> QED BY <1>2, <1>3

\* And so keep the invariant of Accounts, for no such request is a
\* registration, a verification or a change.
LEMMA OthersKeepAccountsInv ==
  ASSUME BackendInv, NEW r \in Requests, MovesWithin(r, OtherRoutes, OtherLabels),
         KeepsAccounts(r)
  PROVE  AccountsInv(BackendLabels)'
<1> USE ServerAssumption, OtpAssumption, AccountsAssumption,
        AccountDocsAssumption DEF otpVars
<1>0. /\ OtpInv(BackendLabels) /\ AccountVarsTypeOK /\ AccountsOnTheirWay
      /\ EveryRegistrationWasMade /\ EveryAccountWasVerified
      /\ EveryPasswordWasSubmitted /\ EveryRegistrationKept
  BY DEF BackendInv, AccountsInv
<1>1. /\ pc' = [pc EXCEPT ![r] = pc'[r]]
      /\ route' = [route EXCEPT ![r] = route'[r]]
      /\ email' = [email EXCEPT ![r] = email'[r]]
      /\ reply' = [reply EXCEPT ![r] = reply'[r]]
      /\ pc'[r] \in OtherLabels \union {"replied"}
      /\ pc[r] \in OtherLabels \union {"idle"}
      /\ route'[r] \in OtherRoutes /\ route'[r] \in Routes \union {Nil}
      /\ pc[r] # "idle" => route'[r] = route[r] /\ email'[r] = email[r]
      /\ email'[r] \in Emails \union {Nil}
      /\ reply'[r] \in Outcomes \union {Nil}
      /\ pc'[r] # "replied" => reply'[r] = reply[r]
      /\ dated' = dated \/ dated' = [dated EXCEPT ![r] = now]
  <2>1. pc[r] \in OtherLabels => route[r] \in OtherRoutes
    BY <1>0 DEF BackendInv, OthersOnTheirWay, OtherLabels, S!SessionLabels,
       T!TripLabels, OtherRoutes, SessionRoutes
  <2> QED BY <1>0, <2>1 DEF MovesWithin, Arrive, Goto, Reply, OtpInv, ServerInv
<1> USE <1>1 DEF OtherLabels, S!SessionLabels, T!TripLabels, OtherRoutes,
        SessionRoutes, KeepsAccounts
<1>2. ServerInv(BackendLabels)' /\ OtpVarsTypeOK'
  BY <1>0 DEF OtpInv, ServerInv, OtpVarsTypeOK, BackendLabels, HandlerLabels,
     AtRest, SendRoutes, VerifyRoutes
<1>3. EveryDocWasSaved' /\ GotOfItsAddress' /\ OnItsWay'
  BY <1>0 DEF OtpInv, ServerInv, OtpVarsTypeOK, EveryDocWasSaved, WasSaved,
     GotOfItsAddress, OnItsWay, OtpDoc, SendRoutes, VerifyRoutes
<1>4. AcceptedMatches' /\ OlderDeleted' /\ SpentCodeIsGone'
  BY <1>0 DEF OtpInv, ServerInv, OnItsWay, AcceptedMatches, OlderDeleted,
    Saved,
     SpentCodeIsGone, Spent, Accepted, SendRoutes, VerifyRoutes
<1>5. users \subseteq users' /\ \A u \in users' \ users : u = GoogleUser(r)
  OBVIOUS
<1>6. GoogleUser(r) \in UserDoc \/ users' = users
  BY <1>0 DEF BackendInv, OthersOnTheirWay, GoogleUser, UserDoc
<1>7. AccountVarsTypeOK' /\ AccountsOnTheirWay'
  BY <1>0, <1>5, <1>6 DEF AccountVarsTypeOK, AccountsOnTheirWay, BeforeSend,
     AccountLabels, OtpInv, ServerInv
<1>8. EveryRegistrationWasMade'
  BY <1>0 DEF EveryRegistrationWasMade, WasMade, AccountVarsTypeOK,
     AccountsOnTheirWay, UnverifiedUserDoc, OtpInv, ServerInv
<1>9. EveryAccountWasVerified' /\ EveryPasswordWasSubmitted'
  BY <1>0, <1>5 DEF EveryAccountWasVerified, WasVerified,
     EveryPasswordWasSubmitted, WasSubmitted, GoogleUser, AccountVarsTypeOK,
     UserDoc, OtpInv, ServerInv
<1>10. EveryRegistrationKept'
  BY <1>0, <1>5 DEF EveryRegistrationKept, HasRegistered, Replacing, UsersOf,
     UnverifiedOf, OtpInv, ServerInv, OnItsWay, Outcomes
<1> QED
  BY <1>2, <1>3, <1>4, <1>7, <1>8, <1>9, <1>10 DEF AccountsInv, OtpInv

AccountRoutes == SendRoutes \union VerifyRoutes \union {"changePassword"}

\* The steps of registration, verification and recovery stay among theirs.
LEMMA AccountsMove ==
  ASSUME NEW r \in Requests, AccountArrival(r) \/ OtpArrival(r) \/ Handler(r)
  PROVE  MovesWithin(r, AccountRoutes, HandlerLabels)
<1> USE DEF MovesWithin, AccountRoutes, SendRoutes, VerifyRoutes,
      HandlerLabels,
        OtpLabels, AccountLabels, Outcomes
<1>1. CASE AccountArrival(r)
  BY <1>1 DEF AccountArrival, Register, VerifyOtp, ForgotOtp, ChangePassword
<1>2. CASE AccountHandler(r)
  BY <1>2 DEF AccountHandler, RegisterFindsVerified, RegisterFindsUnverified,
     ReplaceUnverified, CreateUnverified, VerifyFindsUnverified,
     VerifyFindsVerified, CreateUser, DropUnverified, ForgotFindsUser,
     ForgotFindsGoogleUser, ChangeFindsUser, ComparePassword, UpdateUser
<1>3. CASE OtpHandler(r)
  BY <1>3 DEF OtpHandler, DeleteOtps, SaveOtp, MailOtp, FindOtp, CheckOtp,
     ConsumeOtp, ReplyVerified
<1>4. CASE OtpArrival(r)
  BY <1>4 DEF OtpArrival, ResendOtp, VerifyForgotOtp
<1> QED BY <1>1, <1>2, <1>3, <1>4 DEF Handler

\* A step that stays among labels and routes moves nobody else.
LEMMA MovesOne ==
  ASSUME BackendInv, NEW r \in Requests, NEW routes, NEW labels,
         MovesWithin(r, routes, labels), "idle" \notin labels
  PROVE  /\ pc' = [pc EXCEPT ![r] = pc'[r]]
         /\ route' = [route EXCEPT ![r] = route'[r]]
         /\ email' = [email EXCEPT ![r] = email'[r]]
         /\ reply' = [reply EXCEPT ![r] = reply'[r]]
         /\ pc'[r] \in labels \union {"replied"}
         /\ pc[r] \in labels \union {"idle"}
         /\ pc[r] = "idle" => route'[r] \in routes
         /\ pc[r] # "idle" => route'[r] = route[r] /\ email'[r] = email[r]
         /\ email'[r] \in Emails \union {Nil}
         /\ pc'[r] # "replied" => reply'[r] = reply[r]
         /\ now' = now
         /\ dated' = dated \/ dated' = [dated EXCEPT ![r] = now]
<1>1. ServerInv(BackendLabels)
  BY DEF BackendInv, AccountsInv, OtpInv
<1> QED BY <1>1 DEF MovesWithin, Arrive, Goto, Reply, ServerInv

\* Those steps take no account away, and read documents for themselves only.
LEMMA AccountsGrow ==
  ASSUME AccountVarsTypeOK, NEW r \in Requests,
         AccountArrival(r) \/ (OtpArrival(r) /\ UNCHANGED accountVars) \/ Handler(r)
  PROVE  /\ UserIds \subseteq UserIds'
         /\ ~ CreateUser(r) /\ ~ UpdateUser(r) => users' = users
         /\ \A q \in Requests \ {r} :
              /\ password'[q] = password[q] /\ draft'[q] = draft[q]
              /\ account'[q] = account[q]
<1>1. \A q \in Requests \ {r} :
        /\ password'[q] = password[q] /\ draft'[q] = draft[q]
        /\ account'[q] = account[q]
  <2>1. \/ UNCHANGED password
        \/ \E p \in Passwords : password' = [password EXCEPT ![r] = p]
    BY DEF Handler, AccountArrival, Register, VerifyOtp, ForgotOtp,
       ChangePassword, AccountHandler, RegisterFindsVerified,
       RegisterFindsUnverified, ReplaceUnverified, CreateUnverified,
       VerifyFindsUnverified, VerifyFindsVerified, CreateUser, DropUnverified,
       ForgotFindsUser, ForgotFindsGoogleUser, ChangeFindsUser, ComparePassword,
       UpdateUser, accountVars
  <2>2. UNCHANGED draft \/ \E u : draft' = [draft EXCEPT ![r] = u]
    BY DEF Handler, AccountArrival, Register, VerifyOtp, ForgotOtp,
       ChangePassword, AccountHandler, RegisterFindsVerified,
       RegisterFindsUnverified, ReplaceUnverified, CreateUnverified,
       VerifyFindsUnverified, VerifyFindsVerified, CreateUser, DropUnverified,
       ForgotFindsUser, ForgotFindsGoogleUser, ChangeFindsUser, ComparePassword,
       UpdateUser, accountVars
  <2>3. UNCHANGED account \/ \E u : account' = [account EXCEPT ![r] = u]
    BY DEF Handler, AccountArrival, Register, VerifyOtp, ForgotOtp,
       ChangePassword, AccountHandler, RegisterFindsVerified,
       RegisterFindsUnverified, ReplaceUnverified, CreateUnverified,
       VerifyFindsUnverified, VerifyFindsVerified, CreateUser, DropUnverified,
       ForgotFindsUser, ForgotFindsGoogleUser, ChangeFindsUser, ComparePassword,
       UpdateUser, accountVars
  <2> QED BY <2>1, <2>2, <2>3 DEF AccountVarsTypeOK
<1>2. ~ CreateUser(r) /\ ~ UpdateUser(r) => users' = users
  BY DEF Handler, AccountArrival, Register, VerifyOtp, ForgotOtp,
     ChangePassword, AccountHandler, RegisterFindsVerified,
     RegisterFindsUnverified, ReplaceUnverified, CreateUnverified,
     VerifyFindsUnverified, VerifyFindsVerified, DropUnverified,
     ForgotFindsUser, ForgotFindsGoogleUser, ChangeFindsUser, ComparePassword,
     accountVars
<1>3. CASE CreateUser(r)
  BY <1>1, <1>3 DEF CreateUser, UserIds, UpdateUser
<1>4. CASE UpdateUser(r)
  <2>1. \A u \in users :
          [u EXCEPT !.password = Hash(Plain(password[r]))].id = u.id
    BY DEF AccountVarsTypeOK, UserDoc
  <2> QED BY <1>1, <1>4, <2>1 DEF UpdateUser, UsersOf, UserIds
<1> QED BY <1>1, <1>2, <1>3, <1>4 DEF UserIds

\* So every step of theirs keeps the invariant of the whole.
LEMMA AccountsKeepInv ==
  ASSUME BackendInv, NEW r \in Requests, AccountSteps(r)
  PROVE  BackendInv'
<1>1. AccountsInv(BackendLabels)'
  <2>1. HandlerLabels \subseteq BackendLabels
    BY DEF BackendLabels
  <2>2. AccountsInv(BackendLabels)
    BY DEF BackendInv
  <2>3. CASE AccountArrival(r) \/ AccountHandler(r)
    BY <2>1, <2>2, <2>3, AccountStepInv
  <2>4. CASE (OtpArrival(r) \/ OtpHandler(r)) /\ UNCHANGED accountVars
    BY <2>1, <2>2, <2>4, AccountOtpStepInv
  <2> QED BY <2>3, <2>4 DEF AccountSteps, Handler
<1>2. MovesWithin(r, AccountRoutes, HandlerLabels)
  BY AccountsMove DEF AccountSteps
<1>3. /\ pc' = [pc EXCEPT ![r] = pc'[r]]
      /\ route' = [route EXCEPT ![r] = route'[r]]
      /\ email' = [email EXCEPT ![r] = email'[r]]
      /\ pc'[r] \in HandlerLabels \union {"replied"}
  BY <1>2, MovesOne DEF HandlerLabels, OtpLabels, AccountLabels
<1>4. OthersOnTheirWay'
  BY <1>3 DEF BackendInv, AccountsInv, OtpInv, ServerInv, OthersOnTheirWay,
     HandlerLabels, OtpLabels, AccountLabels, S!SessionLabels, T!TripLabels
<1>5. AccountsStay'
  <2>1. /\ UserIds \subseteq UserIds'
        /\ \A q \in Requests \ {r} : account'[q] = account[q]
    BY AccountsGrow DEF BackendInv, AccountsInv, AccountSteps
  <2>2. blocked' = blocked /\ userId' = userId /\ refreshTokens' = refreshTokens
    BY DEF AccountSteps
  <2> QED
    BY <1>3, <2>1, <2>2 DEF BackendInv, AccountsInv, OtpInv, ServerInv,
       AccountsStay, S!ActsForUser, HandlerLabels, OtpLabels, AccountLabels
<1>6. SessionDocsOK'
  BY DEF BackendInv, SessionDocsOK, AccountSteps, S!TokenDoc, S!Cookies,
     S!AccessToken, S!RefreshCookie
<1> QED BY <1>1, <1>4, <1>5, <1>6 DEF BackendInv

\* A step of sessions or trips keeps what the handlers rely on when it does so
\* for the request it moves.
LEMMA OthersKeepInvFor ==
  ASSUME BackendInv, NEW r \in Requests,
         LoginSteps(r) \/ SessionSteps(r) \/ TripSteps(r),
         SessionDocsOK',
         blocked' = blocked, userId' \in [Requests -> UserIds' \union {Nil}],
         \A q \in Requests \ {r} : userId'[q] = userId[q],
         pc'[r] \in S!ActsForUser => userId'[r] # Nil,
         pc'[r] = "compare" => account'[r] # Nil,
         \A d \in refreshTokens' : d.userId \in UserIds',
         \A l \in OtherLabels : pc'[r] = l =>
           /\ l \in {"findUser", "compare"} => route'[r] = "login"
           /\ l \in {"fetchDetails", "findGoogle", "createGoogle"} =>
                route'[r] = "google-login"
           /\ l \in {"findToken", "findTokenUser"} => route'[r] = "refresh"
           /\ l = "guard" => route'[r] \in {"logout", "getUserDetails"}
           /\ l \in {"deleteToken", "clearCookies"} => route'[r] = "logout"
           /\ l = "findDetails" => route'[r] = "getUserDetails"
           /\ l \in {"matchToken", "insertToken", "setCookies"} =>
                route'[r] \in {"login", "google-login", "refresh"}
           /\ l \in S!SessionLabels => email'[r] \in Emails
           /\ l \in T!TripLabels => route'[r] = "create" /\ email'[r] \in Emails
  PROVE  BackendInv'
<1>1. MovesWithin(r, OtherRoutes, OtherLabels) /\ KeepsAccounts(r)
  BY OthersMove, OthersKeepAccounts
<1>2. AccountsInv(BackendLabels)'
  BY <1>1, OthersKeepAccountsInv
<1>3. /\ pc' = [pc EXCEPT ![r] = pc'[r]]
      /\ route' = [route EXCEPT ![r] = route'[r]]
      /\ email' = [email EXCEPT ![r] = email'[r]]
      /\ pc'[r] \in OtherLabels \union {"replied"}
  BY <1>1, MovesOne DEF OtherLabels, S!SessionLabels, T!TripLabels
<1>4. OthersOnTheirWay'
  BY <1>3 DEF BackendInv, AccountsInv, OtpInv, ServerInv, OthersOnTheirWay,
     OtherLabels, S!SessionLabels, T!TripLabels
<1>5. UserIds \subseteq UserIds'
  BY <1>1 DEF KeepsAccounts, UserIds
<1>6. AccountsStay'
  BY <1>1, <1>3, <1>5 DEF BackendInv, AccountsInv, OtpInv, ServerInv,
     AccountsStay, KeepsAccounts
<1> QED BY <1>2, <1>4, <1>6 DEF BackendInv

\* Sessions sees the same accounts as Accounts does.
LEMMA SeenIds ==
  {u.id : u \in {[id |-> v.id, email |-> v.email] : v \in users}} = UserIds
<1> DEFINE P == {[id |-> v.id, email |-> v.email] : v \in users}
<1>1. \A v \in users : [id |-> v.id, email |-> v.email] \in P
  OBVIOUS
<1>2. \A u \in P : \E v \in users : u = [id |-> v.id, email |-> v.email]
  OBVIOUS
<1> HIDE DEF P
<1>3. ASSUME NEW v \in users
      PROVE  v.id \in {u.id : u \in P}
  <2> DEFINE w == [id |-> v.id, email |-> v.email]
  <2>1. w \in P /\ w.id = v.id
    BY <1>1
  <2> HIDE DEF w
  <2> QED BY <2>1
<1>4. \A u \in P : u.id \in UserIds
  BY <1>2 DEF UserIds
<1>5. {u.id : u \in P} = UserIds
  BY <1>3, <1>4 DEF UserIds
<1> QED BY <1>5 DEF P

\* Every step of a login, of the other calls of Sessions and of a trip keeps the
\* invariant of the whole.
LEMMA OthersKeepInv ==
  ASSUME BackendInv, NEW r \in Requests,
         LoginSteps(r) \/ SessionSteps(r) \/ TripSteps(r)
  PROVE  BackendInv'
<1> USE BackendAssumption, ServerAssumption, AccountsAssumption,
        AccountDocsAssumption
<1>0. /\ SessionDocsOK /\ AccountsStay /\ OthersOnTheirWay /\ AccountVarsTypeOK
      /\ ServerInv(BackendLabels)
  BY DEF BackendInv, AccountsInv, OtpInv
<1>1. /\ {u.id : u \in {[id |-> v.id, email |-> v.email] : v \in users}} = UserIds
      /\ UserIds \subseteq Requests \union Emails
      /\ UserIds \subseteq UserIds' /\ Nil \notin UserIds
  <2>1. users \subseteq users'
    BY OthersKeepAccounts DEF KeepsAccounts
  <2>2. UserIds \subseteq UserIds'
    BY <2>1 DEF UserIds
  <2>3. UserIds \subseteq Requests \union Emails
    BY <1>0 DEF UserIds, AccountVarsTypeOK, UserDoc
  <2>4. {u.id : u \in {[id |-> v.id, email |-> v.email] : v \in users}} = UserIds
    BY SeenIds
  <2> QED BY <2>2, <2>3, <2>4
<1>2. ASSUME UNCHANGED <<blocked, refreshTokens, jar>>
      PROVE  /\ SessionDocsOK' /\ blocked' = blocked
             /\ \A d \in refreshTokens' : d.userId \in UserIds'
  BY <1>0, <1>1, <1>2 DEF SessionDocsOK, AccountsStay, S!TokenDoc, S!Cookies,
     S!AccessToken, S!RefreshCookie
<1>3. ASSUME userId' = userId
      PROVE  /\ userId' \in [Requests -> UserIds' \union {Nil}]
             /\ \A q \in Requests \ {r} : userId'[q] = userId[q]
  BY <1>0, <1>1, <1>3 DEF AccountsStay
<1> USE DEF OtherLabels, S!SessionLabels, T!TripLabels, S!ActsForUser
<1>4. CASE \E b \in Browsers, p \in Passwords : Login(r, b, p)
  BY <1>0, <1>2, <1>3, <1>4, OthersKeepInvFor DEF Login, S!Login, S!Call,
     S!Arrive, ServerInv
<1>5. CASE LoginFindsUser(r)
  BY <1>0, <1>1, <1>2, <1>5, OthersKeepInvFor DEF LoginFindsUser, UsersOf,
     S!LoginFindsUser, S!UsersOf, S!GotoAs, S!Goto, S!Reply, ServerInv,
     AccountsStay, OthersOnTheirWay, AccountVarsTypeOK
<1>6. CASE LoginComparesPassword(r)
  BY <1>0, <1>2, <1>3, <1>6, OthersKeepInvFor DEF LoginComparesPassword,
     S!ComparePassword, S!sessionVars, S!Goto, S!Reply, ServerInv, AccountsStay,
     OthersOnTheirWay
<1>7. CASE GoogleCreatesUser(r)
  <2>1. r \in UserIds'
    <3>1. GoogleUser(r) \in users' /\ GoogleUser(r).id = r
      BY <1>7 DEF GoogleCreatesUser, GoogleUser
    <3> QED BY <3>1 DEF UserIds
  <2> QED
    BY <1>0, <1>1, <1>2, <1>7, <2>1, OthersKeepInvFor DEF GoogleCreatesUser,
       S!CreateGoogleUser, S!GotoAs, S!Goto, ServerInv, AccountsStay,
       OthersOnTheirWay
<1>8. CASE /\ SessionSteps(r)
           /\ \E b \in Browsers : \/ S!GoogleLogin(r, b) \/ S!Refresh(r, b)
                                 \/ S!Logout(r, b) \/ S!GetUserDetails(r, b)
  <2>1. PICK b \in Browsers : \/ S!GoogleLogin(r, b) \/ S!Refresh(r, b)
                              \/ S!Logout(r, b) \/ S!GetUserDetails(r, b)
    BY <1>8
  <2>2. SessionSteps(r) /\ Owner[b] \in Emails
    BY <1>8
  <2> USE DEF S!Call, S!Arrive, ServerInv
  <2>3. CASE S!GoogleLogin(r, b)
    BY <1>0, <1>2, <1>3, <2>2, <2>3, OthersKeepInvFor DEF S!GoogleLogin
  <2>4. CASE S!Refresh(r, b)
    BY <1>0, <1>2, <1>3, <2>2, <2>4, OthersKeepInvFor DEF S!Refresh
  <2>5. CASE S!Logout(r, b)
    BY <1>0, <1>2, <1>3, <2>2, <2>5, OthersKeepInvFor DEF S!Logout
  <2>6. CASE S!GetUserDetails(r, b)
    BY <1>0, <1>2, <1>3, <2>2, <2>6, OthersKeepInvFor DEF S!GetUserDetails
  <2> QED BY <2>1, <2>3, <2>4, <2>5, <2>6
<1>9. CASE SessionSteps(r) /\ S!FetchDetails(r)
  BY <1>0, <1>2, <1>3, <1>9, OthersKeepInvFor DEF SessionSteps, S!FetchDetails,
     S!sessionVars, S!Goto, S!Reply, ServerInv, AccountsStay, OthersOnTheirWay
<1>10. CASE SessionSteps(r) /\ S!GoogleFindsUser(r)
  BY <1>0, <1>1, <1>2, <1>10, OthersKeepInvFor DEF SessionSteps,
     S!GoogleFindsUser, S!UsersOf, S!GotoAs, S!Goto, ServerInv, AccountsStay,
     OthersOnTheirWay
<1>11. CASE SessionSteps(r) /\ S!RefreshFindsToken(r)
  BY <1>0, <1>1, <1>2, <1>11, OthersKeepInvFor DEF SessionSteps,
     S!RefreshFindsToken, S!GotoAs, S!Goto, S!Reply, ServerInv, AccountsStay,
     OthersOnTheirWay
<1>12. CASE SessionSteps(r) /\ S!RefreshFindsUser(r)
  BY <1>0, <1>2, <1>3, <1>12, OthersKeepInvFor DEF SessionSteps,
     S!RefreshFindsUser, S!sessionVars, S!Goto, S!Reply, ServerInv,
     AccountsStay, OthersOnTheirWay
<1>13. CASE SessionSteps(r) /\ S!MatchToken(r)
  <2>1. \A d \in refreshTokens : /\ S!NewToken(r, d.id, d.userId) \in S!TokenDoc
                                 /\ S!NewToken(r, d.id, d.userId).userId = d.userId
    BY <1>0 DEF SessionDocsOK, S!NewToken, S!TokenDoc, ServerInv
  <2>2. /\ SessionDocsOK' /\ blocked' = blocked
        /\ \A d \in refreshTokens' : d.userId \in UserIds'
    BY <1>0, <1>1, <1>13, <2>1 DEF S!MatchToken, S!Matches, S!TokensOf,
       SessionDocsOK, AccountsStay
  <2> QED
    BY <1>0, <1>3, <1>13, <2>2, OthersKeepInvFor DEF SessionSteps,
      S!MatchToken,
       S!Goto, ServerInv, AccountsStay, OthersOnTheirWay
<1>14. CASE SessionSteps(r) /\ S!InsertToken(r)
  <2>1. userId[r] \in UserIds
    BY <1>0, <1>14 DEF AccountsStay, S!InsertToken
  <2>2. /\ S!NewToken(r, r, userId[r]) \in S!TokenDoc
        /\ S!NewToken(r, r, userId[r]).userId = userId[r]
    BY <1>0, <1>1, <2>1 DEF S!NewToken, S!TokenDoc, ServerInv
  <2>3. /\ SessionDocsOK' /\ blocked' = blocked
        /\ \A d \in refreshTokens' : d.userId \in UserIds'
    BY <1>0, <1>1, <1>14, <2>1, <2>2 DEF S!InsertToken, SessionDocsOK,
       AccountsStay
  <2> QED
    BY <1>0, <1>3, <1>14, <2>3, OthersKeepInvFor DEF SessionSteps,
      S!InsertToken,
       S!Goto, ServerInv, AccountsStay, OthersOnTheirWay
<1>15. CASE SessionSteps(r) /\ S!SetTokenCookies(r)
  <2>1. userId[r] \in UserIds
    BY <1>0, <1>15 DEF AccountsStay, S!SetTokenCookies
  <2>2. [access |-> [userId |-> userId[r], exp |-> now + AccessLifetime],
         refresh |-> [token |-> r, exp |-> now + RefreshLifetime]] \in S!Cookies
    BY <1>0, <1>1, <2>1 DEF S!Cookies, S!AccessToken, S!RefreshCookie,
      ServerInv
  <2>3. /\ SessionDocsOK' /\ blocked' = blocked
        /\ \A d \in refreshTokens' : d.userId \in UserIds'
    BY <1>0, <1>1, <1>15, <2>2 DEF S!SetTokenCookies, SessionDocsOK,
      AccountsStay
  <2> QED
    BY <1>0, <1>3, <1>15, <2>3, OthersKeepInvFor DEF SessionSteps,
       S!SetTokenCookies, S!Reply, ServerInv, AccountsStay
<1>16. CASE SessionSteps(r) /\ S!Guard(r)
  <2>1. \/ route[r] = "logout" /\ S!Guarded[route[r]] = "deleteToken"
        \/ route[r] = "getUserDetails" /\ S!Guarded[route[r]] = "findDetails"
    BY <1>0, <1>16 DEF S!Guard, S!Guarded, OthersOnTheirWay
  <2> QED
    BY <1>0, <1>1, <1>2, <1>16, <2>1, OthersKeepInvFor DEF SessionSteps,
      S!Guard,
       S!GotoAs, S!Goto, S!Reply, ServerInv, AccountsStay, OthersOnTheirWay
<1>17. CASE SessionSteps(r) /\ S!DeleteToken(r)
  <2>1. /\ SessionDocsOK' /\ blocked' = blocked
        /\ \A d \in refreshTokens' : d.userId \in UserIds'
    BY <1>0, <1>1, <1>17 DEF S!DeleteToken, SessionDocsOK, AccountsStay
  <2> QED
    BY <1>0, <1>3, <1>17, <2>1, OthersKeepInvFor DEF SessionSteps,
      S!DeleteToken,
       S!Goto, ServerInv, AccountsStay, OthersOnTheirWay
<1>18. CASE SessionSteps(r) /\ S!ClearTokenCookies(r)
  <2>1. /\ SessionDocsOK' /\ blocked' = blocked
        /\ \A d \in refreshTokens' : d.userId \in UserIds'
    BY <1>0, <1>1, <1>18 DEF S!ClearTokenCookies, S!NoCookies, S!Cookies,
       SessionDocsOK, AccountsStay
  <2> QED
    BY <1>0, <1>3, <1>18, <2>1, OthersKeepInvFor DEF SessionSteps,
       S!ClearTokenCookies, S!Reply, ServerInv, AccountsStay
<1>19. CASE TripSteps(r)
  BY <1>0, <1>2, <1>3, <1>19, OthersKeepInvFor DEF TripSteps, T!TripArrival,
     T!CreateTrip, T!TripHandler, T!FindTrip, T!SaveTrip, T!ReplyTrip, T!Arrive,
     T!Goto, T!Reply, sessionVars, ServerInv, OthersOnTheirWay
<1>20. CASE SessionSteps(r) /\ S!FindDetails(r)
  BY <1>0, <1>2, <1>3, <1>20, OthersKeepInvFor DEF SessionSteps, S!FindDetails,
     S!sessionVars, S!Reply, ServerInv, AccountsStay, OthersOnTheirWay
<1> QED
  BY <1>4, <1>5, <1>6, <1>7, <1>8, <1>9, <1>10, <1>11, <1>12, <1>13, <1>14,
     <1>15, <1>16, <1>17, <1>18, <1>19, <1>20 DEF LoginSteps, SessionSteps

\* So do an admin's, the faults and the clock.
LEMMA AroundKeepInv ==
  ASSUME BackendInv,
         \/ UpdateStatus
         \/ /\ Environment \/ UNCHANGED serverVars
            /\ UNCHANGED <<otpVars, accountVars, sessionVars, tripVars, secret>>
  PROVE  BackendInv'
<1>0. /\ SessionDocsOK /\ AccountsStay /\ OthersOnTheirWay
      /\ ServerInv(BackendLabels) /\ AccountsInv(BackendLabels)
      /\ HandlerLabels \subseteq BackendLabels
  BY DEF BackendInv, AccountsInv, OtpInv, BackendLabels
<1>1. CASE UpdateStatus
  <2>1. UNCHANGED <<serverVars, otpVars, accountVars, refreshTokens, jar, userId>>
    BY <1>1 DEF UpdateStatus, S!UpdateStatus, S!serverVars, serverVars
  <2>2. blocked' \subseteq UserIds
    <3>1. \A u \in users : [id |-> u.id, email |-> u.email].id \in UserIds
      BY DEF UserIds
    <3> QED BY <1>0, <1>1, <3>1 DEF UpdateStatus, S!UpdateStatus, AccountsStay
  <2>3. AccountsInv(BackendLabels)'
    BY <1>0, <2>1, AccountEnvironmentInv
  <2> QED
    BY <1>0, <2>1, <2>2, <2>3 DEF BackendInv, SessionDocsOK, AccountsStay,
       OthersOnTheirWay, UserIds, serverVars, accountVars
<1>2. CASE /\ Environment \/ UNCHANGED serverVars
           /\ UNCHANGED <<otpVars, accountVars, sessionVars, tripVars, secret>>
  <2>1. AccountsInv(BackendLabels)'
    BY <1>0, <1>2, AccountEnvironmentInv
  <2>2. UNCHANGED <<route, email>> /\ \A q \in Requests : pc'[q] \in {pc[q], "replied", "lost"}
    BY <1>0, <1>2 DEF Environment, Fail, Reply, Crash, Tick, Rest, serverVars,
       InFlight, ServerInv
  <2> QED
    BY <1>0, <1>2, <2>1, <2>2 DEF BackendInv, SessionDocsOK, AccountsStay,
       OthersOnTheirWay, UserIds, accountVars, sessionVars, S!ActsForUser,
       S!SessionLabels, T!TripLabels
<1> QED BY <1>1, <1>2

\* The first state has the accounts of the start and nothing else.
LEMMA BackendInitInv ==
  ASSUME BackendInit
  PROVE  BackendInv
<1> USE DEF BackendInit
<1>1. AccountsInv(BackendLabels)
  BY AccountInitInv DEF BackendLabels
<1>2. OthersOnTheirWay
  BY DEF AccountsInit, OtpServiceInit, ServerInit, OthersOnTheirWay,
     S!SessionLabels, T!TripLabels
<1>3. AccountsStay
  BY DEF AccountsInit, OtpServiceInit, ServerInit, AccountsStay, S!ActsForUser
<1>4. SessionDocsOK
  BY DEF SessionDocsOK, S!NoCookies, S!Cookies
<1> QED BY <1>1, <1>2, <1>3, <1>4 DEF BackendInv

-----------------------------------------------------------------------------
(* The theorems for every interleaving.                                    *)

\* The steps of the three services, of an admin and of the environment keep
\* the invariant.
LEMMA BackendNextInv ==
  ASSUME BackendInv, [BackendNext]_backendVars
  PROVE  BackendInv'
<1>1. CASE \E r \in Requests : LoginSteps(r) \/ SessionSteps(r) \/ TripSteps(r)
  BY <1>1, OthersKeepInv
<1>2. CASE \E r \in Requests : AccountSteps(r)
  BY <1>2, AccountsKeepInv
<1>3. CASE \/ UpdateStatus
           \/ /\ Environment \/ UNCHANGED serverVars
              /\ UNCHANGED <<otpVars, accountVars, sessionVars, tripVars, secret>>
  BY <1>3, AroundKeepInv
<1> QED BY <1>1, <1>2, <1>3 DEF BackendNext, backendVars, vars

\* The invariant holds of every behaviour of the whole.
THEOREM BackendInvariance == BackendSafety => []BackendInv
BY BackendInitInv, BackendNextInv, PTL DEF BackendSafety

\* The services keep their shapes in one process: whoever is blocked, has a
\* refresh token stored or is acted for has an account, and no handler uses a
\* document that another has not left it.
THEOREM BackendTypes == BackendSafety => []BackendTypeOK
<1>1. ASSUME BackendInv
      PROVE  BackendTypeOK
  <2>1. pc \in [Requests -> AtRest \union OtpLabels \union AccountLabels
                              \union S!SessionLabels \union T!TripLabels]
    BY <1>1 DEF BackendInv, AccountsInv, OtpInv, ServerInv, BackendLabels,
       HandlerLabels
  <2>2. AccountVarsTypeOK /\ \A r \in Requests : pc[r] = "compare" => account[r] # Nil
    BY <1>1 DEF BackendInv, AccountsInv, AccountsStay
  <2>3. \A v \in users : [id |-> v.id, email |-> v.email] \in S!UserDoc
    BY <2>2 DEF AccountVarsTypeOK, UserDoc, S!UserDoc
  <2>4. S!StoreTypeOK /\ S!UserKnown
    BY <1>1, <2>3, SeenIds DEF BackendInv, AccountsStay, SessionDocsOK,
       S!StoreTypeOK, S!UserKnown
  <2>5. \A d \in refreshTokens : \E u \in users : u.id = d.userId
    BY <1>1 DEF BackendInv, AccountsStay, UserIds
  <2> QED BY <2>1, <2>2, <2>4, <2>5 DEF BackendTypeOK
<1> QED BY <1>1, BackendInvariance, PTL

\* Sessions, Google accounts and trips do not disturb what Accounts promises
\* under every interleaving: codes are spent, revoked and presented as OtpService
\* has them, registrations stay until there is an account, and passwords are
\* those that were submitted for the address.
THEOREM BackendKeepsPromises ==
  BackendSafety => [](/\ SpentCodeIsGone /\ OlderCodesRevoked
                      /\ AcceptedCodeWasIssued
                      /\ RegistrationKept /\ PasswordWasSubmitted)
<1>1. ASSUME BackendInv
      PROVE  /\ SpentCodeIsGone /\ OlderCodesRevoked /\ AcceptedCodeWasIssued
             /\ RegistrationKept /\ PasswordWasSubmitted
  <2>0. AccountsInv(BackendLabels) /\ OtpInv(BackendLabels)
    BY <1>1 DEF BackendInv, AccountsInv
  <2>1. SpentCodeIsGone /\ OlderCodesRevoked
    BY <2>0 DEF OtpInv, OlderDeleted, OlderCodesRevoked
  <2>2. AcceptedCodeWasIssued
    BY <2>0 DEF OtpInv, AcceptedMatches, EveryDocWasSaved, WasSaved,
       GotOfItsAddress, AcceptedCodeWasIssued
  <2>3. RegistrationKept /\ PasswordWasSubmitted
    BY <2>0 DEF AccountsInv, EveryRegistrationKept, HasRegistered,
       RegistrationKept, EveryPasswordWasSubmitted, WasSubmitted,
       PasswordWasSubmitted
  <2> QED BY <2>1, <2>2, <2>3
<1> QED BY <1>1, BackendInvariance, PTL

-----------------------------------------------------------------------------
(* When clients wait: one step at a time.                                  *)

\* A step of r that touches the accounts and the secret of its own address only,
\* and adds no trip but its own, keeps the invariant when it does so for r.
LEMMA StepOfOneBackend ==
  ASSUME BackendInv, BackendSerialInv, AccountsSerialInv', NEW r \in Requests,
         \A q \in InFlight \ {r} : email[q] # email'[r],
         \A q \in Requests \ {r} :
           /\ pc'[q] = pc[q] /\ email'[q] = email[q] /\ route'[q] = route[q]
           /\ password'[q] = password[q] /\ draft'[q] = draft[q]
           /\ account'[q] = account[q] /\ tripName'[q] = tripName[q],
         secret' \in [Emails -> Passwords \union {Nil}],
         \A e \in Emails \ {email'[r]} :
           UsersOf(e)' = UsersOf(e) /\ secret'[e] = secret[e],
         \A d \in trips' : d \in trips \/ d.id = r,
         OtherStillTrueFor(r)', StillToldFor(r)', PresentedSecret(r)',
         email'[r] \in Emails /\ secret'[email'[r]] # Nil =>
           /\ UsersOf(email[r])' # {}
           /\ \A u \in UsersOf(email[r])' :
                u.password = Hash(Plain(secret'[email'[r]])),
         GoogleHasNoPassword', TripsNamed', OwnTripsDiffer'
  PROVE  BackendSerialInv'
<1>1. ASSUME NEW q \in Requests \ {r}
      PROVE  OtherStillTrueFor(q)' /\ StillToldFor(q)' /\ PresentedSecret(q)'
  <2>1. OtherStillTrueFor(q) /\ StillToldFor(q) /\ PresentedSecret(q)
    BY DEF BackendSerialInv
  <2>2. CASE pc[q] \in AtRest
    BY <2>2 DEF OtherStillTrueFor, StillToldFor, PresentedSecret, AtRest
  <2>3. CASE pc[q] \notin AtRest
    <3>1. email[q] # email'[r]
      BY <2>3 DEF InFlight
    <3>2. /\ pc[q] \in S!SessionLabels \union {"dropUnverified"} => email[q] \in Emails
          /\ \A d \in trips' : d \in trips \/ d.id = r
          /\ \A d \in trips : d.id \in Requests
      BY DEF BackendInv, OthersOnTheirWay, AccountsInv, AccountsOnTheirWay,
         AccountLabels, BackendSerialInv, TripsNamed
    <3> QED
      BY <2>1, <3>1, <3>2 DEF OtherStillTrueFor, StillToldFor, PresentedSecret,
         S!SessionLabels
  <2> QED BY <2>2, <2>3
<1>2. SecretIsHeld'
  <2>1. SecretIsHeld
    BY DEF BackendSerialInv
  <2> QED BY <2>1 DEF SecretIsHeld
<1> QED BY <1>1, <1>2 DEF BackendSerialInv

\* A step that stays among its labels and routes has its address to itself.
LEMMA MovesAlone ==
  ASSUME BackendInv, AccountsSerialInv, ~Overlapping, NEW r \in Requests,
         NEW routes, NEW labels, MovesWithin(r, routes, labels),
         labels \cap AtRest = {}
  PROVE  /\ \A q \in InFlight \ {r} : email[q] # email'[r]
         /\ \A q \in Requests \ {r} :
              /\ pc'[q] = pc[q] /\ email'[q] = email[q]
              /\ route'[q] = route[q] /\ reply'[q] = reply[q]
<1>1. ServerInv(BackendLabels) /\ Alone /\ "idle" \notin labels
  BY DEF BackendInv, AccountsInv, OtpInv, AccountsSerialInv, AtRest
<1>2. \A q \in Requests \ {r} :
        /\ pc'[q] = pc[q] /\ email'[q] = email[q]
        /\ route'[q] = route[q] /\ reply'[q] = reply[q]
  BY <1>1, MovesOne DEF ServerInv
<1>3. \A q \in InFlight \ {r} : email[q] # email'[r]
  <2>1. CASE \E rt \in routes, e \in Emails, l \in labels : Arrive(r, rt, e, l)
    BY <1>1, <2>1 DEF Arrive, ServerInv
  <2>2. CASE pc[r] \in labels /\ email' = email
    BY <1>1, <2>2 DEF Alone, InFlight
  <2> QED BY <2>1, <2>2 DEF MovesWithin, Goto, Reply
<1> QED BY <1>2, <1>3

\* What logins and trips do keeps the invariant of Accounts for clients that
\* wait: the account that Google brings in is the first of its address.
LEMMA OthersKeepAccountsSerial ==
  ASSUME BackendInv, AccountsSerialInv, ~Overlapping, NEW r \in Requests,
         MovesWithin(r, OtherRoutes, OtherLabels), KeepsAccounts(r),
         OtherStillTrueFor(r)
  PROVE  AccountsSerialInv'
<1>0. /\ AccountsInv(BackendLabels) /\ AccountVarsTypeOK /\ ServerInv(BackendLabels)
      /\ AccountsInv(BackendLabels)'
  BY OthersKeepAccountsInv DEF BackendInv, AccountsInv, OtpInv
<1>1. /\ \A q \in InFlight \ {r} : email[q] # email'[r]
      /\ \A q \in Requests \ {r} :
           /\ pc'[q] = pc[q] /\ email'[q] = email[q]
           /\ route'[q] = route[q] /\ reply'[q] = reply[q]
  BY MovesAlone DEF OtherLabels, S!SessionLabels, T!TripLabels, AtRest
<1>2. \A q \in Requests \ {r} :
        /\ password'[q] = password[q]
        /\ draft'[q] = draft[q] /\ account'[q] = account[q]
  BY DEF KeepsAccounts
<1>3. \A e \in Emails : UnverifiedOf(e)' = UnverifiedOf(e)
  BY DEF KeepsAccounts, UnverifiedOf
<1>4. users' = users \/ /\ users' = users \union {GoogleUser(r)}
                        /\ email' = email /\ UsersOf(email[r]) = {}
  BY DEF KeepsAccounts, OtherStillTrueFor, Goto
<1>5. /\ \A e \in Emails \ {email'[r]} : UsersOf(e)' = UsersOf(e)
      /\ \A e \in Emails : UsersOf(e) # {} => UsersOf(e)' # {}
  BY <1>4 DEF UsersOf, GoogleUser
<1>6. OneDocumentFor(email[r])'
  <2>1. CASE email'[r] \in Emails
    BY <1>3, <1>4, <2>1 DEF AccountsSerialInv, OneDocumentFor, AtMostOneFor,
       UsersOf, UnverifiedOf, KeepsAccounts
  <2>2. CASE email'[r] \notin Emails
    BY <1>0, <2>2 DEF OneDocumentFor, AtMostOneFor, AccountsInv,
       AccountVarsTypeOK, UserDoc, UnverifiedUserDoc
  <2> QED BY <2>1, <2>2
<1>7. StillTrueFor(r)'
  <2>1. pc'[r] \in OtherLabels \union {"replied"} /\ route'[r] \in OtherRoutes
    BY <1>0, MovesOne DEF OtherLabels, S!SessionLabels, T!TripLabels,
      OtherRoutes,
       SessionRoutes, BackendInv, OthersOnTheirWay
  <2> QED
    BY <2>1 DEF StillTrueFor, Verified, OtherLabels, S!SessionLabels,
       T!TripLabels, OtherRoutes, SessionRoutes
<1> QED BY <1>0, <1>1, <1>2, <1>3, <1>5, <1>6, <1>7, StepOfOne

\* A password can be told from its hash.
LEMMA HashTells ==
  \A p, q : Hash(Plain(p)) = Hash(Plain(q)) => p = q
BY DEF Hash, Plain

\* Registration, verification and recovery keep the invariant: a verification
\* tells its client the password it has put in the account it created, and a
\* change the one it has written.
LEMMA AccountsKeepSerial ==
  ASSUME BackendInv, BackendInv', BackendSerialInv, ~Overlapping,
         NEW r \in Requests, AccountSteps(r)
  PROVE  BackendSerialInv'
<1> USE ServerAssumption, AccountsAssumption, AccountDocsAssumption
<1>0. /\ AccountsInv(BackendLabels) /\ AccountVarsTypeOK /\ ServerInv(BackendLabels)
      /\ AccountsOnTheirWay /\ OnItsWay
      /\ AccountsSerialInv /\ StillTrueFor(r) /\ SecretIsHeld
      /\ OtherStillTrueFor(r) /\ StillToldFor(r) /\ PresentedSecret(r)
      /\ \/ AccountArrival(r) \/ Handler(r)
         \/ OtpArrival(r) /\ UNCHANGED accountVars
      /\ TripsNamed /\ OwnTripsDiffer /\ GoogleHasNoPassword
  BY DEF BackendInv, AccountsInv, OtpInv, BackendSerialInv, AccountsSerialInv,
     AccountSteps
<1>1. AccountsSerialInv'
  BY <1>0, AccountStepSerial, AccountOtpStepSerial DEF Handler
<1>2. MovesWithin(r, AccountRoutes, HandlerLabels)
  BY <1>0, AccountsMove
<1>3. HandlerLabels \cap AtRest = {} /\ "idle" \notin HandlerLabels
  BY DEF HandlerLabels, OtpLabels, AccountLabels, AtRest
<1>4. /\ \A q \in InFlight \ {r} : email[q] # email'[r]
      /\ \A q \in Requests \ {r} :
           /\ pc'[q] = pc[q] /\ email'[q] = email[q] /\ route'[q] = route[q]
  BY <1>0, <1>2, <1>3, MovesAlone
<1>5. /\ pc'[r] \in HandlerLabels \union {"replied"}
      /\ pc[r] \in HandlerLabels \union {"idle"}
      /\ pc[r] # "idle" => email'[r] = email[r] /\ route'[r] = route[r]
      /\ pc'[r] # "replied" => reply'[r] = reply[r]
  BY <1>2, <1>3, MovesOne
<1>6. /\ ~ CreateUser(r) /\ ~ UpdateUser(r) => users' = users
      /\ \A q \in Requests \ {r} :
           /\ password'[q] = password[q] /\ draft'[q] = draft[q]
           /\ account'[q] = account[q]
  BY <1>0, AccountsGrow
<1>7. /\ trips' = trips /\ tripName' = tripName
      /\ \A d \in trips' : d \in trips \/ d.id = r
      /\ TripsNamed' /\ OwnTripsDiffer'
  <2>1. trips' = trips /\ tripName' = tripName
    BY DEF AccountSteps, tripVars
  <2>2. \A q \in Requests :
          pc[q] # "idle" => pc'[q] # "idle" /\ email'[q] = email[q]
    BY <1>3, <1>4, <1>5
  <2> QED BY <1>0, <2>1, <2>2 DEF TripsNamed, OwnTripsDiffer, T!OwnTripsDiffer
<1>8. OtherStillTrueFor(r)' /\ PresentedSecret(r)'
  BY <1>5 DEF OtherStillTrueFor, PresentedSecret, HandlerLabels, OtpLabels,
     AccountLabels
<1>9. CASE CreateUser(r)
  <2>1. /\ UsersOf(email[r]) = {} /\ draft[r] \in UnverifiedOf(email[r])
        /\ email[r] \in Emails /\ email' = email /\ pc'[r] = "dropUnverified"
        /\ draft' = draft
    BY <1>0, <1>9 DEF StillTrueFor, AccountsOnTheirWay, AccountLabels,
      CreateUser,
       Goto, ServerInv
  <2>2. secret' = secret /\ secret[email[r]] = Nil
    BY <1>0, <2>1 DEF SecretIsHeld, AccountSteps, Learns
  <2> DEFINE u == [id |-> r, email |-> draft[r].email,
                   password |-> Hash(draft[r].password), isGoogle |-> FALSE]
  <2>3. users' = users \union {u} /\ u.email = email[r]
    BY <1>9, <2>1 DEF CreateUser, UnverifiedOf
  <2>4. u.password # Nil /\ ~ u.isGoogle /\ u.password = Hash(draft[r].password)
    BY <1>0, <2>1, PasswordTypes DEF UnverifiedOf, AccountVarsTypeOK,
       UnverifiedUserDoc
  <2> HIDE DEF u
  <2>5. /\ UsersOf(email[r])' = {u}
        /\ \A e \in Emails \ {email'[r]} : UsersOf(e)' = UsersOf(e)
    BY <2>1, <2>3 DEF UsersOf
  <2>6. StillToldFor(r)'
    BY <1>0, <2>1, <2>4, <2>5 DEF StillToldFor, AccountVarsTypeOK, UnverifiedOf
  <2>7. GoogleHasNoPassword'
    BY <1>0, <2>3, <2>4 DEF GoogleHasNoPassword
  <2>8. secret' \in [Emails -> Passwords \union {Nil}]
    BY <1>0, <2>2 DEF SecretIsHeld
  <2> QED
    BY <1>1, <1>4, <1>6, <1>7, <1>8, <2>1, <2>2, <2>5, <2>6, <2>7, <2>8,
       StepOfOneBackend
<1>10. CASE UpdateUser(r)
  <2>1. /\ account[r] \in UsersOf(email[r]) /\ OneDocumentFor(email[r])
        /\ account[r].password # Nil /\ account[r] \in UserDoc
        /\ password[r] \in Passwords /\ route[r] = "changePassword"
        /\ email[r] \in Emails /\ email' = email /\ route' = route
        /\ pc'[r] = "replied" /\ reply'[r] = "ok"
    BY <1>0, <1>10 DEF StillTrueFor, AccountsOnTheirWay, AccountLabels,
       AccountsSerialInv, UpdateUser, Reply, ServerInv, UsersOf,
       AccountVarsTypeOK
  <2>2. secret' = [secret EXCEPT ![email[r]] = password[r]]
    BY <2>1 DEF AccountSteps, Learns
  <2> DEFINE u == [account[r] EXCEPT !.password = Hash(Plain(password[r]))]
  <2>3. users' = (users \ {account[r]}) \union {u}
    BY <1>10, <2>1 DEF UpdateUser, UsersOf, OneDocumentFor, AtMostOneFor
  <2>4. /\ u.email = email[r] /\ u.password = Hash(Plain(password[r]))
        /\ u.isGoogle = account[r].isGoogle
    BY <2>1 DEF UsersOf, UserDoc
  <2>5. u.password # Nil /\ ~ u.isGoogle
    BY <1>0, <2>1, <2>4, HashedOnce DEF GoogleHasNoPassword, UsersOf
  <2> HIDE DEF u
  <2>6. /\ UsersOf(email[r])' = {u}
        /\ \A e \in Emails \ {email'[r]} : UsersOf(e)' = UsersOf(e)
    BY <2>1, <2>3, <2>4 DEF UsersOf, OneDocumentFor, AtMostOneFor
  <2>7. StillToldFor(r)'
    BY <2>1 DEF StillToldFor
  <2>8. GoogleHasNoPassword'
    BY <1>0, <2>3, <2>5 DEF GoogleHasNoPassword
  <2>9. /\ secret' \in [Emails -> Passwords \union {Nil}]
        /\ \A e \in Emails \ {email'[r]} : secret'[e] = secret[e]
        /\ secret'[email[r]] = password[r]
    BY <1>0, <2>1, <2>2 DEF SecretIsHeld
  <2> QED
    BY <1>1, <1>4, <1>6, <1>7, <1>8, <2>1, <2>4, <2>6, <2>7, <2>8, <2>9,
       StepOfOneBackend
<1>11. CASE DropUnverified(r)
  <2>1. /\ email[r] \in Emails /\ email' = email /\ route[r] = "verify-otp"
        /\ pc[r] = "dropUnverified" /\ pc'[r] = "replied" /\ reply'[r] = "ok"
        /\ draft[r] # Nil /\ UsersOf(email[r]) # {}
        /\ \A u \in UsersOf(email[r]) : u.password = Hash(draft[r].password)
    BY <1>0, <1>11 DEF AccountsOnTheirWay, AccountLabels, AccountsInv,
       EveryRegistrationKept, StillToldFor, DropUnverified, Reply, ServerInv
  <2> DEFINE p == password[draft[r].id]
  <2>2. draft[r].password = Plain(p) /\ p \in Passwords
    BY <1>0, <2>1 DEF AccountsInv, EveryRegistrationWasMade, WasMade,
       AccountsOnTheirWay, AccountVarsTypeOK, UnverifiedUserDoc
  <2>3. secret' = [secret EXCEPT ![email[r]] = p]
    BY <2>1 DEF AccountSteps, Learns
  <2> HIDE DEF p
  <2>4. /\ secret' \in [Emails -> Passwords \union {Nil}]
        /\ \A e \in Emails \ {email'[r]} : secret'[e] = secret[e]
        /\ secret'[email[r]] = p
    BY <1>0, <2>1, <2>2, <2>3 DEF SecretIsHeld
  <2>5. users' = users /\ \A e \in Emails : UsersOf(e)' = UsersOf(e)
    BY <1>11 DEF DropUnverified, UsersOf
  <2>6. StillToldFor(r)' /\ GoogleHasNoPassword'
    BY <1>0, <2>1, <2>5 DEF StillToldFor, GoogleHasNoPassword
  <2> QED
    BY <1>1, <1>4, <1>6, <1>7, <1>8, <2>1, <2>2, <2>4, <2>5, <2>6,
       StepOfOneBackend
<1>12. CASE ~ CreateUser(r) /\ ~ UpdateUser(r) /\ ~ DropUnverified(r)
  <2>1. users' = users /\ \A e : UsersOf(e)' = UsersOf(e)
    BY <1>6, <1>12 DEF UsersOf
  <2>2. pc'[r] # "dropUnverified"
    BY <1>0, <1>12 DEF AccountArrival, Register, VerifyOtp, ForgotOtp,
       ChangePassword, OtpArrival, ResendOtp, VerifyForgotOtp, Arrive, Handler, AccountHandler, RegisterFindsVerified,
       RegisterFindsUnverified, ReplaceUnverified, CreateUnverified,
       VerifyFindsUnverified, VerifyFindsVerified, ForgotFindsUser,
       ForgotFindsGoogleUser, ChangeFindsUser, ComparePassword, OtpHandler,
       DeleteOtps, SaveOtp, MailOtp, FindOtp, CheckOtp, ConsumeOtp,
       ReplyVerified, Goto, Reply, ServerInv
  <2>3. pc'[r] = "replied" /\ reply'[r] = "ok" =>
          route[r] \notin {"verify-otp", "changePassword"}
    BY <1>0, <1>12 DEF AccountArrival, Register, VerifyOtp, ForgotOtp,
       ChangePassword, OtpArrival, ResendOtp, VerifyForgotOtp, Arrive, Handler, AccountHandler, RegisterFindsVerified,
       RegisterFindsUnverified, ReplaceUnverified, CreateUnverified,
       VerifyFindsUnverified, VerifyFindsVerified, ForgotFindsUser,
       ForgotFindsGoogleUser, ChangeFindsUser, ComparePassword, OtpHandler,
       DeleteOtps, SaveOtp, MailOtp, FindOtp, CheckOtp, ConsumeOtp,
       ReplyVerified, Goto, Reply, ServerInv, OnItsWay, SendRoutes
  <2>4. secret' = secret
    BY <2>3 DEF AccountSteps, Learns
  <2>5. StillToldFor(r)' /\ GoogleHasNoPassword'
    BY <1>0, <2>1, <2>2 DEF StillToldFor, GoogleHasNoPassword
  <2>6. /\ secret' \in [Emails -> Passwords \union {Nil}]
        /\ email'[r] \in Emails /\ secret'[email'[r]] # Nil =>
             /\ UsersOf(email[r])' # {}
             /\ \A u \in UsersOf(email[r])' :
                  u.password = Hash(Plain(secret'[email'[r]]))
    BY <1>0, <2>1, <2>4 DEF SecretIsHeld, UsersOf
  <2> QED
    BY <1>1, <1>4, <1>6, <1>7, <1>8, <2>1, <2>4, <2>5, <2>6, StepOfOneBackend
<1> QED BY <1>9, <1>10, <1>11, <1>12

\* A login or a trip keeps the invariant when it does so for itself: it leaves
\* what others were told, and the one account it may create is new.
LEMMA OthersKeepSerialFor ==
  ASSUME BackendInv, BackendSerialInv, ~Overlapping, NEW r \in Requests,
         LoginSteps(r) \/ SessionSteps(r) \/ TripSteps(r),
         \A q \in Requests \ {r} : tripName'[q] = tripName[q],
         \A d \in trips' : d \in trips \/ d.id = r,
         OtherStillTrueFor(r)', PresentedSecret(r)', TripsNamed', OwnTripsDiffer'
  PROVE  BackendSerialInv'
<1>0. /\ AccountVarsTypeOK /\ AccountsSerialInv /\ SecretIsHeld
      /\ OtherStillTrueFor(r) /\ GoogleHasNoPassword
  BY DEF BackendInv, AccountsInv, BackendSerialInv
<1>1. MovesWithin(r, OtherRoutes, OtherLabels) /\ KeepsAccounts(r)
  BY OthersMove, OthersKeepAccounts
<1>2. AccountsSerialInv'
  BY <1>0, <1>1, OthersKeepAccountsSerial
<1>3. /\ \A q \in InFlight \ {r} : email[q] # email'[r]
      /\ \A q \in Requests \ {r} :
           /\ pc'[q] = pc[q] /\ email'[q] = email[q] /\ route'[q] = route[q]
  BY <1>0, <1>1, MovesAlone DEF OtherLabels, S!SessionLabels, T!TripLabels,
    AtRest
<1>4. \A q \in Requests \ {r} :
        /\ password'[q] = password[q] /\ draft'[q] = draft[q]
        /\ account'[q] = account[q]
  BY <1>1 DEF KeepsAccounts
<1>5. secret' = secret
  BY DEF LoginSteps, SessionSteps, TripSteps
<1>6. users' = users \/ /\ users' = users \union {GoogleUser(r)}
                        /\ email' = email /\ UsersOf(email[r]) = {}
  BY <1>0, <1>1 DEF KeepsAccounts, OtherStillTrueFor, Goto
<1>7. \A e \in Emails \ {email'[r]} : UsersOf(e)' = UsersOf(e)
  BY <1>6 DEF UsersOf, GoogleUser
<1>8. /\ secret' \in [Emails -> Passwords \union {Nil}]
      /\ email'[r] \in Emails /\ secret'[email'[r]] # Nil =>
           /\ UsersOf(email[r])' # {}
           /\ \A u \in UsersOf(email[r])' :
                u.password = Hash(Plain(secret'[email'[r]]))
  BY <1>0, <1>5, <1>6 DEF SecretIsHeld, UsersOf
<1>9. GoogleHasNoPassword'
  BY <1>0, <1>6 DEF GoogleHasNoPassword, GoogleUser
<1>10. StillToldFor(r)'
  <2>1. pc'[r] \in OtherLabels \union {"replied"}
    BY <1>1, MovesOne DEF OtherLabels, S!SessionLabels, T!TripLabels
  <2> QED BY <2>1 DEF StillToldFor, OtherLabels, S!SessionLabels, T!TripLabels
<1> QED
  BY <1>2, <1>3, <1>4, <1>5, <1>7, <1>8, <1>9, <1>10, StepOfOneBackend

\* Every login and every trip does so.
LEMMA OthersKeepSerial ==
  ASSUME BackendInv, BackendSerialInv, ~Overlapping, NEW r \in Requests,
         LoginSteps(r) \/ SessionSteps(r) \/ TripSteps(r)
  PROVE  BackendSerialInv'
<1> USE ServerAssumption, AccountsAssumption, AccountDocsAssumption
<1>0. /\ AccountVarsTypeOK /\ ServerInv(BackendLabels) /\ OthersOnTheirWay
      /\ AccountsSerialInv /\ SecretIsHeld /\ AccountsStay
      /\ OtherStillTrueFor(r) /\ PresentedSecret(r)
      /\ TripsNamed /\ OwnTripsDiffer /\ OnItsWay
  BY DEF BackendInv, AccountsInv, OtpInv, BackendSerialInv
<1>1. ASSUME UNCHANGED tripVars
      PROVE  /\ tripName' = tripName
             /\ \A d \in trips' : d \in trips \/ d.id = r
             /\ TripsNamed' /\ OwnTripsDiffer'
  <2>1. \A q \in Requests :
          pc[q] # "idle" => pc'[q] # "idle" /\ email'[q] = email[q]
    <3>1. MovesWithin(r, OtherRoutes, OtherLabels)
      BY OthersMove
    <3>2. "idle" \notin OtherLabels
      BY DEF OtherLabels, S!SessionLabels, T!TripLabels
    <3> QED BY <1>0, <3>1, <3>2, MovesOne DEF ServerInv
  <2> QED
    BY <1>0, <1>1, <2>1 DEF tripVars, TripsNamed, OwnTripsDiffer, T!OwnTripsDiffer
<1>2. Nil \notin UserIds
  BY <1>0 DEF UserIds, AccountVarsTypeOK, UserDoc
<1>3. CASE LoginSteps(r) /\ \E b \in Browsers, p \in Passwords : Login(r, b, p)
  BY <1>0, <1>1, <1>3, OthersKeepSerialFor DEF LoginSteps, Login, S!Login,
    S!Call,
     S!Arrive, ServerInv, OtherStillTrueFor, PresentedSecret
<1>4. CASE LoginSteps(r) /\ LoginFindsUser(r)
  <2>1. /\ email' = email
        /\ pc'[r] # "replied" => pc'[r] = "compare" /\ userId'[r] # Nil
    BY <1>0, <1>2, <1>4, SeenIds DEF LoginFindsUser, S!LoginFindsUser,
      S!UsersOf,
       S!GotoAs, S!Goto, S!Reply, ServerInv, AccountsStay
  <2>2. pc'[r] = "compare" => account'[r] \in UsersOf(email[r])
    BY <1>0, <1>4, <2>1 DEF LoginFindsUser, AccountVarsTypeOK
  <2>3. UsersOf(email[r])' = UsersOf(email[r])
    BY <1>4, <2>1 DEF LoginFindsUser, UsersOf
  <2> QED
    BY <1>1, <1>4, <2>1, <2>2, <2>3, OthersKeepSerialFor DEF LoginSteps,
       OtherStillTrueFor, PresentedSecret
<1>5. CASE LoginSteps(r) /\ LoginComparesPassword(r)
  <2>1. /\ pc[r] = "compare" /\ account[r] \in UsersOf(email[r])
        /\ email' = email /\ route' = route /\ password' = password
        /\ secret' = secret /\ email[r] \in Emails /\ reply[r] = Nil
        /\ pc'[r] # "replied" => pc'[r] = "matchToken" /\ reply' = reply
    BY <1>0, <1>5 DEF LoginSteps, LoginComparesPassword, S!ComparePassword,
       S!Goto, S!Reply, ServerInv, OtherStillTrueFor, OthersOnTheirWay,
       S!SessionLabels, OnItsWay, accountVars
  <2>2. pc'[r] = "matchToken" => account[r].password = Hash(Plain(password[r]))
    BY <1>5, <2>1 DEF LoginComparesPassword, Outcomes
  <2>3. PresentedSecret(r)'
    BY <1>0, <2>1, <2>2, HashTells DEF PresentedSecret, SecretIsHeld
  <2> QED
    BY <1>1, <1>5, <2>1, <2>3, OthersKeepSerialFor DEF LoginSteps,
       OtherStillTrueFor
<1>6. CASE LoginSteps(r) /\ GoogleCreatesUser(r)
  <2>1. /\ pc'[r] = "matchToken" /\ email' = email /\ route' = route
        /\ route[r] = "google-login"
    BY <1>0, <1>6 DEF GoogleCreatesUser, S!CreateGoogleUser, S!GotoAs, S!Goto,
       ServerInv, OthersOnTheirWay
  <2> QED
    BY <1>1, <1>6, <2>1, OthersKeepSerialFor DEF LoginSteps, OtherStillTrueFor,
       PresentedSecret
<1>7. CASE SessionSteps(r)
  <2>1. UNCHANGED <<users, password, account, secret, tripVars>>
    BY <1>7 DEF SessionSteps, accountVars
  <2>2. ASSUME OtherStillTrueFor(r)', PresentedSecret(r)'
        PROVE  BackendSerialInv'
    BY <1>1, <1>7, <2>1, <2>2, OthersKeepSerialFor
  <2>3. CASE \E b \in Browsers : \/ S!GoogleLogin(r, b) \/ S!Refresh(r, b)
                                 \/ S!Logout(r, b) \/ S!GetUserDetails(r, b)
    BY <1>0, <2>2, <2>3 DEF S!GoogleLogin, S!Refresh, S!Logout,
       S!GetUserDetails, S!Call, S!Arrive, ServerInv, OtherStillTrueFor,
       PresentedSecret
  <2>4. CASE S!GoogleFindsUser(r)
    <3>1. /\ email' = email /\ route' = route /\ route[r] = "google-login"
          /\ \/ pc'[r] = "matchToken"
             \/ /\ pc'[r] = "createGoogle"
                /\ S!UsersOf(email[r]) = {}
      BY <1>0, <2>4 DEF S!GoogleFindsUser, S!GotoAs, S!Goto, ServerInv,
         OthersOnTheirWay
    <3>2. S!UsersOf(email[r]) = {} => UsersOf(email[r]) = {}
      <4>1. ASSUME NEW u \in UsersOf(email[r])
            PROVE  [id |-> u.id, email |-> u.email] \in S!UsersOf(email[r])
        BY <4>1 DEF S!UsersOf, UsersOf
      <4> QED BY <4>1
    <3>3. UsersOf(email[r])' = UsersOf(email[r])
      BY <2>1, <3>1 DEF UsersOf
    <3> QED
      BY <2>2, <3>1, <3>2, <3>3 DEF OtherStillTrueFor, PresentedSecret
  <2>5. CASE S!MatchToken(r) \/ S!InsertToken(r)
    BY <1>0, <2>1, <2>2, <2>5 DEF S!MatchToken, S!InsertToken, S!Goto,
      ServerInv,
       OtherStillTrueFor, PresentedSecret
  <2>6. CASE S!RefreshFindsUser(r)
    BY <1>0, <2>2, <2>6 DEF S!RefreshFindsUser, S!Goto, S!Reply, ServerInv,
       OtherStillTrueFor, PresentedSecret, OthersOnTheirWay
  <2>7. CASE S!FetchDetails(r) \/ S!RefreshFindsToken(r) \/ S!SetTokenCookies(r)
             \/ S!DeleteToken(r) \/ S!ClearTokenCookies(r) \/ S!FindDetails(r)
    BY <1>0, <2>2, <2>7 DEF S!FetchDetails, S!RefreshFindsToken,
       S!SetTokenCookies, S!DeleteToken, S!ClearTokenCookies, S!FindDetails,
       S!GotoAs,
       S!Goto, S!Reply, ServerInv, OtherStillTrueFor, PresentedSecret
  <2>8. CASE S!Guard(r)
    <3>1. S!Guarded[route[r]] \in {"deleteToken", "findDetails"}
      BY <1>0, <2>8 DEF S!Guard, S!Guarded, OthersOnTheirWay
    <3> QED
      BY <1>0, <2>2, <2>8, <3>1 DEF S!Guard, S!GotoAs, S!Goto, S!Reply,
        ServerInv,
         OtherStillTrueFor, PresentedSecret
  <2> QED
    BY <1>7, <2>3, <2>4, <2>5, <2>6, <2>7, <2>8 DEF SessionSteps
<1>8. CASE TripSteps(r)
  <2>1. UNCHANGED <<otpVars, accountVars, sessionVars, secret>>
    BY <1>8 DEF TripSteps
  <2>2. PresentedSecret(r)'
    <3>1. pc'[r] \in {"findTrip", "saveTrip", "tripSaved", "replied"}
      BY <1>0, <1>8 DEF TripSteps, T!TripArrival, T!CreateTrip, T!TripHandler,
         T!FindTrip, T!SaveTrip, T!ReplyTrip, T!Arrive, T!Goto, T!Reply, ServerInv
    <3> QED BY <3>1 DEF PresentedSecret
  <2>3. CASE T!TripArrival(r)
    <3>1. UNCHANGED trips /\ \A q \in Requests \ {r} : tripName'[q] = tripName[q]
      BY <2>3 DEF T!TripArrival, T!CreateTrip
    <3>2. pc'[r] = "findTrip"
      BY <1>0, <2>3 DEF T!TripArrival, T!CreateTrip, T!Arrive, ServerInv
    <3>3. TripsNamed' /\ OwnTripsDiffer'
      BY <1>0, <2>3, <3>1 DEF T!TripArrival, T!CreateTrip, T!Arrive, ServerInv,
         TripsNamed, OwnTripsDiffer, T!OwnTripsDiffer
    <3> QED
      BY <1>8, <2>2, <3>1, <3>2, <3>3, OthersKeepSerialFor DEF OtherStillTrueFor
  <2>4. CASE T!FindTrip(r)
    <3>1. UNCHANGED tripVars
      BY <2>4 DEF T!FindTrip, T!tripVars, tripVars
    <3>2. pc'[r] = "saveTrip" => \A d \in trips : d.tripName # tripName[r]
      BY <1>0, <2>4 DEF T!FindTrip, T!Goto, T!Reply, ServerInv
    <3>3. pc'[r] \in {"saveTrip", "replied"}
      BY <1>0, <2>4 DEF T!FindTrip, T!Goto, T!Reply, ServerInv
    <3> QED
      BY <1>1, <1>8, <2>2, <3>1, <3>2, <3>3, OthersKeepSerialFor DEF
         OtherStillTrueFor, tripVars
  <2>5. CASE T!SaveTrip(r)
    <3>1. /\ trips' = trips \union {[id |-> r, tripName |-> tripName[r]]}
          /\ tripName' = tripName /\ email' = email
          /\ \A q \in Requests : pc[q] # "idle" => pc'[q] # "idle"
          /\ pc'[r] = "tripSaved"
          /\ \A d \in trips : email[d.id] = email[r] => d.tripName # tripName[r]
      BY <1>0, <2>5 DEF T!SaveTrip, T!Goto, ServerInv, OtherStillTrueFor
    <3>2. TripsNamed' /\ OwnTripsDiffer'
      BY <1>0, <3>1 DEF TripsNamed, OwnTripsDiffer, T!OwnTripsDiffer
    <3> QED
      BY <1>8, <2>2, <3>1, <3>2, OthersKeepSerialFor DEF OtherStillTrueFor
  <2>6. CASE T!ReplyTrip(r)
    <3>1. UNCHANGED tripVars /\ pc'[r] = "replied"
      BY <1>0, <2>6 DEF T!ReplyTrip, T!tripVars, tripVars, T!Reply, ServerInv
    <3> QED
      BY <1>1, <1>8, <2>2, <3>1, OthersKeepSerialFor DEF OtherStillTrueFor
  <2> QED BY <1>8, <2>3, <2>4, <2>5, <2>6 DEF TripSteps, T!TripHandler
<1> QED
  BY <1>3, <1>4, <1>5, <1>6, <1>7, <1>8 DEF LoginSteps

\* An admin's step, faults and the clock end handlers and tell nobody anything.
LEMMA AroundKeepSerial ==
  ASSUME BackendInv, BackendSerialInv,
         \/ UpdateStatus
         \/ /\ Environment \/ UNCHANGED serverVars
            /\ UNCHANGED <<otpVars, accountVars, sessionVars, tripVars, secret>>
  PROVE  BackendSerialInv'
<1>0. ServerInv(BackendLabels) /\ AccountsInv(BackendLabels)
  BY DEF BackendInv, AccountsInv, OtpInv
<1>1. /\ Environment \/ UNCHANGED serverVars
      /\ UNCHANGED <<otpVars, accountVars, tripVars, secret>>
  BY DEF UpdateStatus, S!UpdateStatus, S!serverVars, serverVars
<1>2. AccountsSerialInv'
  BY <1>0, <1>1, AccountEnvironmentSerial DEF BackendSerialInv
<1>3. /\ UNCHANGED <<route, email>>
      /\ \A q \in Requests : pc'[q] \in {pc[q], "replied", "lost"}
  BY <1>0, <1>1 DEF Environment, Fail, Reply, Crash, Tick, Rest, serverVars,
     InFlight, ServerInv
<1>4. \A q \in Requests :
        OtherStillTrueFor(q)' /\ StillToldFor(q)' /\ PresentedSecret(q)'
  BY <1>1, <1>3 DEF BackendSerialInv, OtherStillTrueFor, StillToldFor,
     PresentedSecret, accountVars, tripVars, UsersOf
<1>5. SecretIsHeld' /\ GoogleHasNoPassword'
  BY <1>1 DEF BackendSerialInv, SecretIsHeld, GoogleHasNoPassword, accountVars,
     UsersOf
<1>6. TripsNamed' /\ OwnTripsDiffer'
  BY <1>1, <1>3 DEF BackendSerialInv, TripsNamed, OwnTripsDiffer,
     T!OwnTripsDiffer, tripVars
<1> QED BY <1>2, <1>4, <1>5, <1>6 DEF BackendSerialInv

\* At the start, who has an account with a password knows it.
LEMMA BackendInitSerial ==
  ASSUME BackendInit
  PROVE  BackendSerialInv
<1> USE ServerAssumption, AccountsAssumption, AccountDocsAssumption
<1>1. AccountsInit /\ AccountsSerialInv
  BY AccountInitSerial DEF BackendInit
<1>2. \A u \in Founders :
        /\ u.isGoogle <=> u.password = Nil
        /\ u.password # Nil => \E p \in Passwords : u.password = Hash(Plain(p))
  BY HashedOnce DEF Founders
<1>3. GoogleHasNoPassword
  BY <1>1, <1>2 DEF AccountsInit, GoogleHasNoPassword
<1>4. TripsNamed /\ OwnTripsDiffer
  BY DEF BackendInit, T!TripInit, TripsNamed, OwnTripsDiffer, T!OwnTripsDiffer
<1>5. \A q \in Requests :
        OtherStillTrueFor(q) /\ StillToldFor(q) /\ PresentedSecret(q)
  BY <1>1 DEF AccountsInit, OtpServiceInit, ServerInit, OtherStillTrueFor,
     StillToldFor, PresentedSecret
<1>6. ASSUME NEW e \in Emails
      PROVE  /\ secret[e] \in Passwords \union {Nil}
             /\ secret[e] # Nil =>
                  /\ UsersOf(e) # {}
                  /\ \A u \in UsersOf(e) : u.password = Hash(Plain(secret[e]))
  <2>1. CASE \E u \in UsersOf(e) : u.password # Nil
    <3>1. PICK u \in UsersOf(e) : u.password # Nil
      BY <2>1
    <3>2. UsersOf(e) = {u} /\ u \in Founders
      BY <1>1 DEF AccountsInit, AtMostOneFor, UsersOf
    <3>3. PICK p \in Passwords : u.password = Hash(Plain(p))
      BY <1>2, <3>1, <3>2
    <3>4. (CHOOSE v \in UsersOf(e) : TRUE) = u
      BY <3>2
    <3>5. secret[e] = u.password.text
      BY <2>1, <3>4 DEF BackendInit
    <3>6. Hash(Plain(p)).text = p
      BY DEF Hash, Plain
    <3> QED BY <3>2, <3>3, <3>5, <3>6
  <2>2. CASE ~ \E u \in UsersOf(e) : u.password # Nil
    BY <2>2 DEF BackendInit
  <2> QED BY <2>1, <2>2
<1>7. SecretIsHeld
  <2>1. secret = [e \in Emails |-> secret[e]]
    BY DEF BackendInit
  <2> QED BY <1>6, <2>1 DEF SecretIsHeld
<1> QED BY <1>1, <1>3, <1>4, <1>5, <1>7 DEF BackendSerialInv

-----------------------------------------------------------------------------
(* The theorems for clients that wait.                                     *)

\* Every step of the whole keeps the invariant.
LEMMA BackendNextSerial ==
  ASSUME ~Overlapping, BackendInv, BackendInv', BackendSerialInv,
         [BackendNext]_backendVars
  PROVE  BackendSerialInv'
<1>1. CASE \E r \in Requests : LoginSteps(r) \/ SessionSteps(r) \/ TripSteps(r)
  BY <1>1, OthersKeepSerial
<1>2. CASE \E r \in Requests : AccountSteps(r)
  BY <1>2, AccountsKeepSerial
<1>3. CASE \/ UpdateStatus
           \/ /\ Environment \/ UNCHANGED serverVars
              /\ UNCHANGED <<otpVars, accountVars, sessionVars, tripVars, secret>>
  BY <1>3, AroundKeepSerial
<1> QED BY <1>1, <1>2, <1>3 DEF BackendNext, backendVars, vars

\* What a handler has found out about its address stays true, and what a person
\* was told stays the password of their account.
THEOREM BackendSerialInvariance ==
  ASSUME ~Overlapping
  PROVE  BackendSafety => []BackendSerialInv
<1>1. BackendInv /\ BackendInv' /\ BackendSerialInv /\ [BackendNext]_backendVars
        => BackendSerialInv'
  BY BackendNextSerial
<1> QED
  BY <1>1, BackendInitSerial, BackendInvariance, PTL DEF BackendSafety

\* verifyUser and googleLogin together give an address one account at most.
THEOREM BackendOneAccount ==
  ASSUME ~Overlapping
  PROVE  BackendSafety => []OneAccountPerEmail
<1>1. BackendSerialInv => OneAccountPerEmail
  BY DEF BackendSerialInv, AccountsSerialInv, OneDocumentFor,
    OneAccountPerEmail
<1>2. BackendSafety => []BackendSerialInv
  BY BackendSerialInvariance
<1> QED BY <1>1, <1>2, PTL

\* And one registration, of which a verification that succeeds leaves nothing
\* but an account.
THEOREM BackendOneRegistration ==
  ASSUME ~Overlapping
  PROVE  BackendSafety => [](OneRegistrationPerEmail /\ VerifiedLeavesNoRegistration)
<1>1. BackendSerialInv => OneRegistrationPerEmail /\ VerifiedLeavesNoRegistration
  BY DEF BackendSerialInv, AccountsSerialInv, OneDocumentFor, StillTrueFor,
     Verified, OneRegistrationPerEmail, VerifiedLeavesNoRegistration
<1>2. BackendSafety => []BackendSerialInv
  BY BackendSerialInvariance
<1> QED BY <1>1, <1>2, PTL

\* The accounts that Google created are those without a password.
THEOREM BackendGoogle ==
  ASSUME ~Overlapping
  PROVE  BackendSafety => []GoogleHasNoPassword
<1>1. BackendSerialInv => GoogleHasNoPassword
  BY DEF BackendSerialInv
<1>2. BackendSafety => []BackendSerialInv
  BY BackendSerialInvariance
<1> QED BY <1>1, <1>2, PTL

\* A person who waits has no two trips of one name, whatever others do.
THEOREM BackendOwnTripsDiffer ==
  ASSUME ~Overlapping
  PROVE  BackendSafety => []OwnTripsDiffer
<1>1. BackendSerialInv => OwnTripsDiffer
  BY DEF BackendSerialInv
<1>2. BackendSafety => []BackendSerialInv
  BY BackendSerialInvariance
<1> QED BY <1>1, <1>2, PTL

\* Whoever is answered "ok" or "unauthorized" as a login has just set its
\* cookies, has found no account or a blocked one, or has compared passwords.
LEMMA LoginIsAnswered ==
  ASSUME BackendInv, [BackendNext]_backendVars, NEW r \in Requests,
         NEW outcome \in {"ok", "unauthorized"}, LoginAnswered(r, outcome)
  PROVE  \/ outcome = "ok" /\ pc[r] = "setCookies"
         \/ outcome = "unauthorized" /\ (LoginFindsUser(r) \/ LoginComparesPassword(r))
<1> USE ServerAssumption DEF LoginAnswered, Outcomes
<1>0. /\ ServerInv(BackendLabels) /\ AccountsOnTheirWay /\ OnItsWay
      /\ OthersOnTheirWay
  BY DEF BackendInv, AccountsInv, OtpInv
<1>1. ASSUME NEW q \in Requests, AccountSteps(q)
      PROVE  FALSE
  <2>1. MovesWithin(q, AccountRoutes, HandlerLabels)
    BY <1>1, AccountsMove DEF AccountSteps
  <2>2. q = r /\ pc[r] \in HandlerLabels
    BY <1>0, <2>1 DEF MovesWithin, Arrive, Goto, Reply, ServerInv
  <2> QED
    BY <1>0, <2>2 DEF AccountsOnTheirWay, OnItsWay, HandlerLabels, OtpLabels,
       AccountLabels, SendRoutes, VerifyRoutes
<1>2. ASSUME NEW q \in Requests, LoginSteps(q) \/ SessionSteps(q) \/ TripSteps(q)
      PROVE  q = r /\ pc'[r] = "replied" /\ pc[r] \in OtherLabels
  <2>1. MovesWithin(q, OtherRoutes, OtherLabels)
    BY <1>2, OthersMove
  <2> QED BY <1>0, <2>1 DEF MovesWithin, Arrive, Goto, Reply, ServerInv
<1>3. ASSUME TripSteps(r), pc[r] \in OtherLabels
      PROVE  FALSE
  BY <1>0, <1>3 DEF TripSteps, T!TripArrival, T!CreateTrip, T!Arrive,
     T!TripHandler, T!FindTrip, T!SaveTrip, T!ReplyTrip, OthersOnTheirWay,
     T!TripLabels, OtherLabels, S!SessionLabels
<1>4. ASSUME LoginSteps(r), pc'[r] = "replied"
      PROVE  outcome = "unauthorized" /\ (LoginFindsUser(r) \/ LoginComparesPassword(r))
  BY <1>0, <1>4 DEF LoginSteps, Login, S!Login, S!Call, S!Arrive,
    LoginFindsUser,
     S!LoginFindsUser, S!GotoAs, LoginComparesPassword, S!ComparePassword,
     GoogleCreatesUser, S!CreateGoogleUser, S!Goto, S!Reply, ServerInv
<1>5. ASSUME SessionSteps(r), pc[r] \in OtherLabels
      PROVE  outcome = "ok" /\ pc[r] = "setCookies"
  <2> USE <1>0, <1>5 DEF S!Call, S!Arrive, S!GotoAs, S!Goto, S!Reply, ServerInv,
          OthersOnTheirWay
  <2>1. ~ \E b \in Browsers : \/ S!GoogleLogin(r, b) \/ S!Refresh(r, b)
                              \/ S!Logout(r, b) \/ S!GetUserDetails(r, b)
    BY DEF S!GoogleLogin, S!Refresh, S!Logout, S!GetUserDetails
  <2>2. ~ (S!FetchDetails(r) \/ S!GoogleFindsUser(r) \/ S!RefreshFindsToken(r)
           \/ S!RefreshFindsUser(r))
    BY DEF S!FetchDetails, S!GoogleFindsUser, S!RefreshFindsToken,
       S!RefreshFindsUser
  <2>3. ~ (S!MatchToken(r) \/ S!InsertToken(r) \/ S!Guard(r) \/ S!DeleteToken(r)
           \/ S!ClearTokenCookies(r) \/ S!FindDetails(r))
    BY DEF S!MatchToken, S!InsertToken, S!Guard, S!DeleteToken,
       S!ClearTokenCookies, S!FindDetails
  <2>4. S!SetTokenCookies(r) => outcome = "ok" /\ pc[r] = "setCookies"
    BY DEF S!SetTokenCookies
  <2> QED BY <2>1, <2>2, <2>3, <2>4 DEF SessionSteps
<1>6. CASE UpdateStatus \/ UNCHANGED backendVars
  BY <1>6 DEF UpdateStatus, S!UpdateStatus, S!serverVars, backendVars, vars,
     serverVars
<1>7. CASE Environment
  BY <1>0, <1>7 DEF Environment, Fail, Reply, Crash, Tick, Rest, serverVars,
     ServerInv, OthersOnTheirWay
<1> QED
  BY <1>1, <1>2, <1>3, <1>4, <1>5, <1>6, <1>7 DEF BackendNext

\* The password a person was last told is theirs logs them in, and no other.
THEOREM BackendPasswordLogsIn ==
  ASSUME ~Overlapping
  PROVE  BackendSafety => PasswordLogsIn
<1>1. ASSUME BackendInv, BackendSerialInv, [BackendNext]_backendVars,
             NEW r \in Requests, route[r] = "login", secret[email[r]] # Nil
      PROVE  /\ LoginAnswered(r, "ok") => password[r] = secret[email[r]]
             /\ LoginAnswered(r, "unauthorized") =>
                  password[r] # secret[email[r]] \/ S!IsBlocked(email[r])
  <2> USE <1>1
  <2>1. ASSUME LoginAnswered(r, "ok")
        PROVE  password[r] = secret[email[r]]
    BY <2>1, LoginIsAnswered DEF BackendSerialInv, PresentedSecret
  <2>2. CASE LoginFindsUser(r) /\ LoginAnswered(r, "unauthorized")
    <3>1. /\ email[r] \in Emails
          /\ S!UsersOf(email[r]) = {} \/ \E u \in S!UsersOf(email[r]) : u.id \in blocked
      BY <2>2, ServerAssumption DEF LoginFindsUser, S!LoginFindsUser, S!GotoAs,
         S!Goto, LoginAnswered, Outcomes, BackendInv, OthersOnTheirWay,
         S!SessionLabels
    <3>2. UsersOf(email[r]) # {} /\ OneDocumentFor(email[r])
      BY <3>1 DEF BackendSerialInv, SecretIsHeld, AccountsSerialInv
    <3>3. PICK u \in UsersOf(email[r]) : UsersOf(email[r]) = {u}
      BY <3>2 DEF OneDocumentFor, AtMostOneFor, UsersOf
    <3> DEFINE w == [id |-> u.id, email |-> u.email]
    <3>4. S!UsersOf(email[r]) = {w}
      BY <3>3 DEF S!UsersOf, UsersOf
    <3> HIDE DEF w
    <3>5. w.id \in blocked
      BY <3>1, <3>4
    <3>6. S!IsBlocked(email[r])
      BY <3>4, <3>5 DEF S!IsBlocked
    <3> QED BY <2>2, <3>6, ServerAssumption DEF LoginAnswered
  <2>3. CASE LoginComparesPassword(r) /\ LoginAnswered(r, "unauthorized")
    <3>1. pc[r] = "compare"
      BY <2>3 DEF LoginComparesPassword, S!ComparePassword
    <3>2. account[r] \in UsersOf(email[r]) /\ email[r] \in Emails
      BY <3>1 DEF BackendSerialInv, OtherStillTrueFor, BackendInv,
         OthersOnTheirWay, S!SessionLabels
    <3>3. pc'[r] # "matchToken"
      BY <2>3, ServerAssumption DEF LoginComparesPassword, S!ComparePassword,
         S!Reply, S!Goto, BackendInv, AccountsInv, OtpInv, ServerInv,
         LoginAnswered, Outcomes
    <3>4. account[r].password # Hash(Plain(password[r]))
      BY <2>3, <3>3 DEF LoginComparesPassword, LoginAnswered
    <3>5. account[r].password = Hash(Plain(secret[email[r]]))
      BY <3>2 DEF BackendSerialInv, SecretIsHeld
    <3>6. password[r] # secret[email[r]]
      BY <3>4, <3>5
    <3> QED BY <2>3, <3>6, ServerAssumption DEF LoginAnswered
  <2> QED BY <2>1, <2>2, <2>3, LoginIsAnswered
<1>2. BackendInv /\ BackendSerialInv /\ [BackendNext]_backendVars =>
        [\A r \in Requests : route[r] = "login" /\ secret[email[r]] # Nil =>
           /\ LoginAnswered(r, "ok") => password[r] = secret[email[r]]
           /\ LoginAnswered(r, "unauthorized") =>
                password[r] # secret[email[r]] \/ S!IsBlocked(email[r])]_backendVars
  BY <1>1
<1>3. BackendSafety => []BackendSerialInv
  BY BackendSerialInvariance
<1> QED
  BY <1>2, <1>3, BackendInvariance, PTL DEF BackendSafety, PasswordLogsIn

-----------------------------------------------------------------------------
(* The whole implements Membership.                                        *)

\* Google's account joins an address that has none, without a password.
LEMMA GoogleJoins ==
  ASSUME BackendInv, BackendSerialInv, NEW r \in Requests, GoogleCreatesUser(r)
  PROVE  M!MembershipNext
<1> USE AccountsAssumption
<1>1. PICK a \in Emails : a = email[r]
  BY DEF GoogleCreatesUser, BackendInv, OthersOnTheirWay, S!SessionLabels
<1> DEFINE u == GoogleUser(r)
<1>2. /\ UsersOf(a) = {}
      /\ users' = users \union {u} /\ unverifiedUsers' = unverifiedUsers
      /\ u.email = a /\ u.password = Nil
  BY <1>1 DEF GoogleCreatesUser, BackendSerialInv, OtherStillTrueFor,
    GoogleUser
<1> HIDE DEF u
<1>3. UsersOf(a)' = {u} /\ \A e \in Emails \ {a} : UsersOf(e)' = UsersOf(e)
  BY <1>2 DEF UsersOf
<1>4. HeldBy(a) = {} /\ HeldBy(a)' = {Nil}
  <2>1. \A p \in Passwords : Hash(Plain(p)) # Nil
    BY HashedOnce
  <2> QED BY <1>2, <1>3, <2>1 DEF HeldBy
<1>5. [e \in Emails |-> HeldBy(e)]' = [[e \in Emails |-> HeldBy(e)] EXCEPT ![a] = {Nil}]
  BY <1>3, <1>4, HeldMoves
<1>6. \A e \in Emails : OfferedTo(e)' = OfferedTo(e)
  BY <1>2, HeldUnmoved DEF UnverifiedOf
<1>7. M!Join(a)
  BY <1>4, <1>5, <1>6 DEF M!Join
<1> QED BY <1>7 DEF M!MembershipNext

\* When clients wait, registration, Google login and changePassword together
\* implement Membership.
THEOREM BackendImplementsMembership ==
  ASSUME ~Overlapping
  PROVE  BackendSafety => ImplementsMembership
<1> DEFINE Inv == BackendInv /\ BackendSerialInv
<1>1. BackendInit => M!MembershipInit
  BY AccountInitImplements DEF BackendInit
<1>2. ASSUME Inv, Inv', [BackendNext]_backendVars
      PROVE  [M!MembershipNext]_M!membershipVars
  <2>1. ASSUME NEW r \in Requests, AccountSteps(r)
        PROVE  M!MembershipNext \/ UNCHANGED M!membershipVars
    <3>1. CASE AccountArrival(r) \/ AccountHandler(r)
      BY <1>2, <3>1, AccountStepImplements DEF BackendInv, BackendSerialInv
    <3>2. CASE UNCHANGED accountVars
      BY <3>2, MembershipStutters DEF accountVars
    <3> QED BY <2>1, <3>1, <3>2 DEF AccountSteps, Handler
  <2>2. ASSUME NEW r \in Requests, GoogleCreatesUser(r)
        PROVE  M!MembershipNext
    BY <1>2, <2>2, GoogleJoins
  <2>3. ASSUME NEW r \in Requests, LoginSteps(r) \/ SessionSteps(r) \/ TripSteps(r),
               ~ GoogleCreatesUser(r)
        PROVE  UNCHANGED M!membershipVars
    BY <2>3, MembershipStutters DEF LoginSteps, Login, LoginFindsUser,
       LoginComparesPassword, SessionSteps, TripSteps, accountVars
  <2>4. CASE UNCHANGED accountVars
    BY <2>4, MembershipStutters DEF accountVars
  <2> QED
    BY <1>2, <2>1, <2>2, <2>3, <2>4 DEF BackendNext, UpdateStatus,
      backendVars, vars
<1>3. BackendSafety => []BackendSerialInv
  BY BackendSerialInvariance
<1> QED
  BY <1>1, <1>2, <1>3, BackendInvariance, PTL
     DEF BackendSafety, ImplementsMembership, M!MembershipSpec

-----------------------------------------------------------------------------
(* What Sessions promises, of a process that creates accounts by           *)
(* registration too: the invariants of Sessions, for more labels, on what  *)
(* Sessions sees of an account.                                            *)

SP == INSTANCE SessionsSerialProofs
        WITH users <- {[id |-> u.id, email |-> u.email] : u \in users}

\* An account is named by the address it was there for at the start or by the
\* request that created it, which goes on to create no other.
AccountsNamed ==
  \A u \in users :
    /\ u.id \in Emails => u.email = u.id
    /\ u.id \in Requests =>
         /\ u.email = email[u.id]
         /\ pc[u.id] \notin {"idle", "fetchDetails", "findGoogle",
                            "createGoogle"}

BackendSessionsInv == AccountsNamed /\ SP!SessionsInv(BackendLabels)

\* What Sessions assumes, Backend does.
LEMMA SessionsAssumed ==
  /\ SP!ServerAssumption
  /\ SP!SessionsAssumption
  /\ SP!SessionsDocsAssumption
BY ServerAssumption, BackendAssumption, BackendDocsAssumption,
   AccountsAssumption
   DEF Outcomes, SP!Outcomes, SP!ServerAssumption, SP!SessionsAssumption,
       SP!SessionsDocsAssumption, S!AccessToken,
       S!RefreshCookie, SP!AccessToken, SP!RefreshCookie

\* A login and the other calls of Sessions are steps of Sessions.
LEMMA SessionsMove ==
  ASSUME NEW r \in Requests, LoginSteps(r) \/ SessionSteps(r)
  PROVE  SP!SessionsArrival(r) \/ SP!SessionsHandler(r)
<1> USE DEF SP!SessionsArrival, SP!SessionsHandler, S!Goto, SP!Goto, S!Reply,
        SP!Reply, S!GotoAs, SP!GotoAs, S!DatedCalls, SP!DatedCalls
<1>1. CASE \E b \in Browsers :
             \/ \E p \in Passwords : Login(r, b, p)
             \/ S!GoogleLogin(r, b) \/ S!Refresh(r, b) \/ S!Logout(r, b)
             \/ S!GetUserDetails(r, b)
  BY <1>1 DEF Login, S!Login, S!GoogleLogin, S!Refresh, S!Logout,
     S!GetUserDetails, S!Call, S!Arrive, S!InFlight, S!AtRest, S!Sent, S!Live,
     S!IsBlocked, S!UsersOf, SP!Login, SP!GoogleLogin, SP!Refresh, SP!Logout,
     SP!GetUserDetails, SP!Call, SP!Arrive, SP!InFlight, SP!AtRest, SP!Sent,
     SP!Live, SP!IsBlocked, SP!UsersOf
<1>2. CASE LoginFindsUser(r) \/ LoginComparesPassword(r) \/ GoogleCreatesUser(r)
  BY <1>2 DEF LoginFindsUser, LoginComparesPassword, GoogleCreatesUser,
     S!LoginFindsUser, S!ComparePassword, S!CreateGoogleUser, S!UsersOf,
     S!sessionVars, SP!LoginFindsUser, SP!ComparePassword,
     SP!CreateGoogleUser, SP!UsersOf, SP!sessionVars
<1>3. CASE S!FetchDetails(r) \/ S!GoogleFindsUser(r) \/ S!RefreshFindsToken(r)
           \/ S!RefreshFindsUser(r)
  BY <1>3 DEF S!FetchDetails, S!GoogleFindsUser, S!RefreshFindsToken,
     S!RefreshFindsUser, S!UsersOf, S!sessionVars, SP!FetchDetails,
     SP!GoogleFindsUser, SP!RefreshFindsToken, SP!RefreshFindsUser,
     SP!UsersOf, SP!sessionVars
<1>4. CASE S!MatchToken(r) \/ S!InsertToken(r) \/ S!SetTokenCookies(r)
  BY <1>4 DEF S!MatchToken, S!Matches, S!TokensOf, S!InsertToken, S!NewToken,
     S!SetTokenCookies, SP!MatchToken, SP!Matches, SP!TokensOf,
     SP!InsertToken, SP!NewToken, SP!SetTokenCookies
<1>5. CASE S!FindDetails(r)
  BY <1>5 DEF S!FindDetails, S!UsersOf, S!sessionVars, SP!FindDetails,
     SP!UsersOf, SP!sessionVars
<1>6. CASE S!Guard(r) \/ S!DeleteToken(r) \/ S!ClearTokenCookies(r)
  BY <1>6 DEF S!Guard, S!Guarded, S!DeleteToken, S!ClearTokenCookies,
     S!NoCookies, SP!Guard, SP!Guarded, SP!DeleteToken, SP!ClearTokenCookies,
     SP!NoCookies
<1> QED
  BY <1>1, <1>2, <1>3, <1>4, <1>5, <1>6 DEF LoginSteps, SessionSteps

\* A step of r creates no account but its own.
CreatesOwn(r) ==
  /\ \A u \in users : \E v \in users' : v.id = u.id /\ v.email = u.email
  /\ \A v \in users' :
       \/ \E u \in users : u.id = v.id /\ u.email = v.email
       \/ /\ v.id = r /\ v.email = email'[r]
          /\ pc'[r] \notin {"idle", "fetchDetails", "findGoogle",
                            "createGoogle"}

\* Registrations, verifications and changes are such steps.
LEMMA AccountsCreateOwn ==
  ASSUME BackendInv, NEW r \in Requests, AccountSteps(r)
  PROVE  CreatesOwn(r)
<1>1. AccountVarsTypeOK /\ ServerInv(BackendLabels) /\ EveryRegistrationWasMade
  BY DEF BackendInv, AccountsInv, OtpInv
<1>2. CASE CreateUser(r)
  <2>1. draft[r].email = email[r]
    BY <1>1, <1>2 DEF CreateUser, AccountVarsTypeOK, EveryRegistrationWasMade
  <2>2. email' = email /\ pc'[r] = "dropUnverified"
    BY <1>1, <1>2 DEF CreateUser, Goto, ServerInv
  <2> QED BY <1>2, <2>1, <2>2 DEF CreateUser, CreatesOwn
<1>3. CASE UpdateUser(r)
  <2>1. CASE users' = users
    BY <2>1 DEF CreatesOwn
  <2>2. ASSUME NEW u \in users,
               users' = (users \ {u}) \union
                          {[u EXCEPT !.password = Hash(Plain(password[r]))]}
        PROVE  CreatesOwn(r)
    <3> DEFINE v == [u EXCEPT !.password = Hash(Plain(password[r]))]
    <3>1. v.id = u.id /\ v.email = u.email
      BY <1>1, <2>2 DEF AccountVarsTypeOK, UserDoc
    <3>2. users' = (users \ {u}) \union {v}
      BY <2>2
    <3> HIDE DEF v
    <3> QED BY <2>2, <3>1, <3>2 DEF CreatesOwn
  <2> QED BY <1>3, <2>1, <2>2 DEF UpdateUser, UsersOf
<1>4. CASE ~ CreateUser(r) /\ ~ UpdateUser(r)
  BY <1>1, <1>4, AccountsGrow DEF AccountSteps, CreatesOwn
<1> QED BY <1>2, <1>3, <1>4

\* So are the others, of which a login through Google creates accounts.
LEMMA OthersCreateOwn ==
  ASSUME BackendInv, NEW r \in Requests,
         LoginSteps(r) \/ SessionSteps(r) \/ TripSteps(r)
  PROVE  CreatesOwn(r)
<1>1. KeepsAccounts(r) /\ ServerInv(BackendLabels)
  BY OthersKeepAccounts DEF BackendInv, AccountsInv, OtpInv
<1> QED BY <1>1 DEF KeepsAccounts, CreatesOwn, GoogleUser, Goto, ServerInv

\* Whoever creates its own account only leaves accounts named as they are.
LEMMA AccountsStayNamed ==
  ASSUME AccountsNamed, users' \subseteq UserDoc, NEW r \in Requests,
         CreatesOwn(r),
         \A q \in Requests \ {r} : pc'[q] = pc[q] /\ email'[q] = email[q],
         pc[r] # "idle" => email'[r] = email[r],
         pc'[r] \in {"idle", "fetchDetails", "findGoogle", "createGoogle"} =>
           pc[r] \in {"idle", "fetchDetails", "findGoogle", "createGoogle"}
  PROVE  AccountsNamed' /\ SP!AccountsCreated'
<1>1. AccountsNamed'
  BY AccountsAssumption DEF AccountsNamed, CreatesOwn
<1>2. SP!AccountsCreated'
  <2> DEFINE seen == {[id |-> u.id, email |-> u.email] : u \in users'}
  <2>1. \A w \in seen :
          /\ w.id \in Emails => w.email = w.id
          /\ w.id \in Requests =>
               /\ w.email = email'[w.id]
               /\ pc'[w.id] \notin {"idle", "fetchDetails", "findGoogle",
                                    "createGoogle"}
    BY <1>1 DEF AccountsNamed
  <2>2. \A w \in seen : /\ w.id \in Requests \union Emails
                        /\ w = [id |-> w.id, email |-> w.email]
    BY DEF UserDoc
  <2>3. \A u, v \in seen : u.id = v.id => u = v
    BY <2>1, <2>2
  <2> HIDE DEF seen
  <2>4. /\ \A u \in seen : u.id \in Requests =>
             pc'[u.id] \notin {"idle", "fetchDetails", "findGoogle", "createGoogle"}
        /\ \A u, v \in seen : u.id = v.id => u = v
    BY <2>1, <2>3
  <2> QED BY <2>4 DEF SP!AccountsCreated, seen
<1> QED BY <1>1, <1>2

\* No step of Accounts or Trip is one of Sessions: to Sessions it happens
\* elsewhere.
LEMMA StepsElsewhere ==
  ASSUME BackendInv, BackendInv', SP!SessionsInv(BackendLabels),
         NEW r \in Requests, AccountSteps(r) \/ TripSteps(r)
  PROVE  SP!Elsewhere(r, BackendLabels)
<1> DEFINE routes == AccountRoutes \union {"create"}
           labels == HandlerLabels \union T!TripLabels
<1>1. MovesWithin(r, routes, labels)
  <2>1. CASE AccountSteps(r)
    BY <2>1, AccountsMove DEF AccountSteps, MovesWithin
  <2>2. CASE TripSteps(r)
    BY <2>2, BackendAssumption DEF MovesWithin, T!TripLabels, Outcomes,
       TripSteps, T!TripArrival, T!CreateTrip, T!Arrive, Arrive, T!TripHandler,
       T!FindTrip, T!SaveTrip, T!ReplyTrip, T!Goto, T!Reply, Goto, Reply,
       T!InFlight, InFlight, T!AtRest, AtRest, T!DatedCalls, DatedCalls
  <2> QED BY <2>1, <2>2
<1>2. /\ labels \subseteq BackendLabels \ (SP!SessionLabels \union SP!AtRest)
      /\ routes \cap SP!SessionRoutes = {}
  BY DEF BackendLabels, HandlerLabels, OtpLabels, AccountLabels, T!TripLabels,
     SP!SessionLabels, SP!AtRest, AccountRoutes, SendRoutes, VerifyRoutes,
     SP!SessionRoutes
<1>3. pc[r] \in labels => route[r] \in routes
  BY DEF BackendInv, OthersOnTheirWay, AccountsInv, AccountsOnTheirWay, OtpInv,
     OnItsWay, HandlerLabels, OtpLabels, AccountLabels, AccountRoutes,
     T!TripLabels, SendRoutes, VerifyRoutes
<1>4. /\ UNCHANGED <<now, blocked, refreshTokens, jar, browser, cookies, userId>>
      /\ dated' = dated \/ dated' = [dated EXCEPT ![r] = now]
  BY <1>1 DEF MovesWithin, Arrive, Goto, Reply, AccountSteps, TripSteps,
     sessionVars
<1>5. barred' = [q \in Requests |-> barred[q] /\ SP!IsBlocked(email[q])']
  <2>1. CASE AccountSteps(r)
    BY <2>1 DEF AccountSteps, S!IsBlocked, S!UsersOf, SP!IsBlocked, SP!UsersOf
  <2>2. CASE TripSteps(r)
    <3>1. barred' = barred /\ barred \in [Requests -> BOOLEAN]
      BY <2>2 DEF TripSteps, sessionVars, SP!SessionsInv, SP!RequestsInv
    <3>2. users' = users /\ blocked' = blocked
      BY <2>2 DEF TripSteps, accountVars, sessionVars
    <3>3. \A q \in Requests : barred[q] => email'[q] = email[q]
      BY <1>1 DEF MovesWithin, Arrive, Goto, Reply, SP!SessionsInv, SP!Arrived,
         BackendInv, AccountsInv, OtpInv, ServerInv
    <3>4. \A q \in Requests : barred[q] => SP!IsBlocked(email[q])'
      BY <3>2, <3>3 DEF SP!SessionsInv, SP!BarredGetsNowhere, SP!IsBlocked,
         SP!UsersOf
    <3> QED BY <3>1, <3>4
  <2> QED BY <2>1, <2>2
<1>6. LET seen == {[id |-> u.id, email |-> u.email] : u \in users}
      IN  seen \subseteq seen' /\ seen' \subseteq SP!UserDoc
  <2>1. CreatesOwn(r)
    BY AccountsCreateOwn, OthersCreateOwn
  <2>2. users' \subseteq UserDoc
    BY DEF BackendInv, AccountsInv, AccountVarsTypeOK
  <2> QED BY <2>1, <2>2 DEF CreatesOwn, UserDoc, SP!UserDoc
<1> HIDE DEF routes, labels
<1>7. CASE \E rt \in routes, e \in Emails, l \in labels : Arrive(r, rt, e, l)
  BY <1>2, <1>4, <1>5, <1>6, <1>7 DEF Arrive, SP!Elsewhere
<1>8. CASE /\ pc[r] \in labels
           /\ (\E l \in labels : Goto(r, l)) \/ (\E o \in Outcomes : Reply(r, o))
  BY <1>2, <1>3, <1>4, <1>5, <1>6, <1>8 DEF Goto, Reply, SP!Elsewhere, Outcomes,
     SP!Outcomes
<1> QED BY <1>1, <1>7, <1>8 DEF MovesWithin

\* Every step of a request leaves accounts named as they are.
LEMMA StepsKeepNames ==
  ASSUME BackendInv, BackendInv', AccountsNamed, NEW r \in Requests,
         LoginSteps(r) \/ SessionSteps(r) \/ AccountSteps(r) \/ TripSteps(r)
  PROVE  AccountsNamed' /\ SP!AccountsCreated'
<1> DEFINE early == {"idle", "fetchDetails", "findGoogle", "createGoogle"}
<1>1. CreatesOwn(r) /\ users' \subseteq UserDoc
  BY AccountsCreateOwn, OthersCreateOwn DEF BackendInv, AccountsInv,
     AccountVarsTypeOK
<1>2. /\ \A q \in Requests \ {r} : pc'[q] = pc[q] /\ email'[q] = email[q]
      /\ pc[r] # "idle" => email'[r] = email[r]
  <2>1. ServerInv(BackendLabels)
    BY DEF BackendInv, AccountsInv, OtpInv
  <2>2. CASE AccountSteps(r)
    BY <2>1, <2>2, AccountsMove, MovesOne DEF AccountSteps, HandlerLabels,
       OtpLabels, AccountLabels, ServerInv
  <2>3. CASE LoginSteps(r) \/ SessionSteps(r) \/ TripSteps(r)
    BY <2>1, <2>3, OthersMove, MovesOne DEF OtherLabels, S!SessionLabels,
       T!TripLabels, ServerInv
  <2> QED BY <2>2, <2>3
<1>3. pc'[r] \in early => pc[r] \in early
  <2>1. CASE AccountSteps(r)
    BY <2>1, AccountsMove, MovesOne DEF AccountSteps, HandlerLabels, OtpLabels,
       AccountLabels
  <2>2. CASE LoginSteps(r) \/ SessionSteps(r)
    <3>1. CASE SP!SessionsArrival(r)
      BY <3>1 DEF SP!SessionsArrival, SP!Login, SP!GoogleLogin, SP!Refresh,
         SP!Logout, SP!GetUserDetails, SP!Call, SP!Arrive
    <3>2. CASE SP!SessionsHandler(r)
      BY <3>2 DEF SP!SessionsHandler, SP!LoginFindsUser, SP!ComparePassword,
         SP!FetchDetails, SP!GoogleFindsUser, SP!CreateGoogleUser,
         SP!RefreshFindsToken, SP!RefreshFindsUser, SP!MatchToken,
         SP!InsertToken, SP!SetTokenCookies, SP!Guard, SP!Guarded,
         SP!DeleteToken, SP!ClearTokenCookies, SP!FindDetails, SP!GotoAs,
         SP!Goto, SP!Reply, BackendInv, OthersOnTheirWay, AccountsInv, OtpInv,
         ServerInv
    <3> QED BY <2>2, <3>1, <3>2, SessionsMove
  <2>3. CASE TripSteps(r)
    BY <2>3 DEF TripSteps, T!TripArrival, T!CreateTrip, T!Arrive,
       T!TripHandler, T!FindTrip, T!SaveTrip, T!ReplyTrip, T!Goto, T!Reply,
       BackendInv, AccountsInv, OtpInv, ServerInv
  <2> QED BY <2>1, <2>2, <2>3
<1> QED BY <1>1, <1>2, <1>3, AccountsStayNamed

\* The first state satisfies it: the accounts there are, no request, no token.
LEMMA BackendInitSessions ==
  ASSUME BackendInit
  PROVE  BackendSessionsInv
<1> USE ServerAssumption, AccountsAssumption, BackendAssumption
<1>0. /\ AccountsInit /\ ServerInit /\ BackendInv
  BY BackendInitInv DEF BackendInit, AccountsInit, OtpServiceInit
<1>1. AccountsNamed
  BY <1>0 DEF AccountsInit, AccountsNamed, Founders
<1>2. SP!RequestsInv(BackendLabels)
  BY <1>0, SessionsAssumed DEF BackendInit, ServerInit, SP!RequestsInv,
     BackendLabels, S!SessionLabels, SP!SessionLabels, SP!AtRest, SP!Cookies,
     SP!NoCookies, S!NoCookies
<1>3. SP!StoreTypeOK /\ SP!UserKnown
  <2>1. \A v \in users : [id |-> v.id, email |-> v.email] \in SP!UserDoc
    BY <1>0 DEF BackendInv, AccountsInv, AccountVarsTypeOK, UserDoc, SP!UserDoc
  <2> QED
    BY <1>0, <2>1, SessionsAssumed DEF BackendInit, ServerInit, SP!StoreTypeOK,
       SP!UserKnown, SP!ActsForUser, SP!Cookies, SP!NoCookies, S!NoCookies
<1>4. SP!Arrived /\ SP!OnItsWay
  BY <1>0 DEF BackendInit, ServerInit, SP!Arrived, SP!OnItsWay, SP!NoCookies,
     S!NoCookies
<1>5. SP!AccountsCreated
  <2>1. \A u \in users : u.id \in Emails /\ u.email = u.id
    BY <1>0 DEF AccountsInit, Founders
  <2> QED BY <2>1 DEF SP!AccountsCreated
<1>6. SP!ActsForOwner /\ SP!CookiesOfOwner
  BY DEF BackendInit, SP!ActsForOwner, SP!CookiesOfOwner, SP!CookiesBelongTo,
     SP!NoCookies, S!NoCookies
<1>7. SP!StoredTokens /\ SP!LogoutDeleted /\ SP!BarredGetsNowhere
  BY DEF BackendInit, SP!StoredTokens, SP!LogoutDeleted, SP!BarredGetsNowhere
<1> QED
  BY <1>1, <1>2, <1>3, <1>4, <1>5, <1>6, <1>7 DEF BackendSessionsInv,
     SP!SessionsInv

\* What an admin or the environment does to the whole, it does to Sessions.
LEMMA AroundSessions ==
  ASSUME \/ UpdateStatus
         \/ /\ Environment \/ UNCHANGED serverVars
            /\ UNCHANGED <<otpVars, accountVars, sessionVars, tripVars, secret>>
  PROVE  \/ \E u \in {[id |-> u.id, email |-> u.email] : u \in users},
               action \in {"block", "unblock"} : SP!UpdateStatus(u, action)
         \/ SP!Environment /\ UNCHANGED SP!sessionVars
         \/ UNCHANGED SP!vars
<1>1. CASE UpdateStatus
  BY <1>1 DEF UpdateStatus, accountVars, S!UpdateStatus, SP!UpdateStatus,
     S!serverVars, SP!serverVars
<1>2. CASE /\ Environment \/ UNCHANGED serverVars
           /\ UNCHANGED <<otpVars, accountVars, sessionVars, tripVars, secret>>
  <2>1. Environment => SP!Environment
    BY DEF Environment, Fail, Reply, Crash, Tick, Rest, InFlight, AtRest,
       serverVars, SP!Environment, SP!Fail, SP!Reply, SP!Crash, SP!Tick,
       SP!Rest, SP!InFlight, SP!AtRest, SP!serverVars
  <2>2. UNCHANGED SP!sessionVars
    BY <1>2 DEF accountVars, sessionVars, SP!sessionVars
  <2> QED BY <1>2, <2>1, <2>2 DEF serverVars, SP!serverVars, SP!vars
<1> QED BY <1>1, <1>2

\* Every step of the whole keeps it.
LEMMA BackendNextSessions ==
  ASSUME BackendInv, BackendInv', BackendSessionsInv, [BackendNext]_backendVars
  PROVE  BackendSessionsInv'
<1> USE DEF BackendSessionsInv
<1>1. ASSUME NEW r \in Requests, LoginSteps(r) \/ SessionSteps(r)
      PROVE  BackendSessionsInv'
  BY <1>1, SessionsAssumed, SessionsMove, SP!SessionsStepInv,
     StepsKeepNames
<1>2. ASSUME NEW r \in Requests, AccountSteps(r) \/ TripSteps(r)
      PROVE  BackendSessionsInv'
  BY <1>2, SessionsAssumed, StepsElsewhere, SP!ElsewhereInv,
     StepsKeepNames
<1>3. CASE \/ UpdateStatus
           \/ /\ Environment \/ UNCHANGED serverVars
              /\ UNCHANGED <<otpVars, accountVars, sessionVars, tripVars, secret>>
  <2>1. AccountsNamed'
    <3>1. /\ UNCHANGED <<users, email>>
          /\ \A q \in Requests : pc'[q] \in {pc[q], "replied", "lost"}
      BY <1>3 DEF UpdateStatus, S!UpdateStatus, S!serverVars, Environment, Fail,
         Reply, Crash, Tick, Rest, serverVars, accountVars, InFlight,
         BackendInv, AccountsInv, OtpInv, ServerInv
    <3> QED BY <3>1 DEF AccountsNamed
  <2>2. SP!SessionsInv(BackendLabels)'
    BY <1>3, SessionsAssumed, AroundSessions,
       SP!SessionsEnvironmentInv
  <2> QED BY <2>1, <2>2
<1> QED BY <1>1, <1>2, <1>3 DEF BackendNext, backendVars, vars

\* Of every behaviour of the whole, Sessions sees one it would allow.
THEOREM BackendSessionsInvariance == BackendSafety => []BackendSessionsInv
<1>1. BackendInv /\ BackendInv' /\ BackendSessionsInv /\ [BackendNext]_backendVars
        => BackendSessionsInv'
  BY BackendNextSessions
<1> QED
  BY <1>1, BackendInitSessions, BackendInvariance, PTL DEF BackendSafety

\* Whatever registrations, verifications, changes and trips interleave with
\* logins and refreshes, sessions of different people do not mix, who is
\* blocked all along gets nothing from login and behind the guard, and a token
\* that a logout has deleted does not come back.
THEOREM BackendSessions == BackendSafety => []SessionsKeepPromises
<1>1. ASSUME BackendSessionsInv
      PROVE  SessionsKeepPromises
  <2>1. /\ SP!SessionsStayApart /\ SP!BlockedIsRefused
        /\ SP!LoggedOutTokenIsDead
    BY <1>1, SessionsAssumed, SP!SessionsPromises DEF BackendSessionsInv
  <2> QED
    BY <2>1 DEF SessionsKeepPromises, S!SessionsStayApart, S!BelongsTo,
       S!UsersOf, S!BlockedIsRefused, S!LoggedOutTokenIsDead,
       SP!SessionsStayApart, SP!BelongsTo, SP!UsersOf, SP!BlockedIsRefused,
       SP!LoggedOutTokenIsDead
<1> QED BY <1>1, BackendSessionsInvariance, PTL

\* When clients wait, the other handlers of the process leave alone what an
\* upsert or a refresh in flight relies on.
LEMMA BackendNextTokens ==
  ASSUME ~Overlapping, BackendInv, BackendInv', BackendSerialInv',
         BackendSessionsInv, BackendSessionsInv', SP!SerialInv,
         [BackendNext]_backendVars
  PROVE  SP!SerialInv'
<1>0. SP!SessionsInv(BackendLabels) /\ SP!SessionsInv(BackendLabels)'
  BY DEF BackendSessionsInv
<1>1. ASSUME NEW r \in Requests, LoginSteps(r) \/ SessionSteps(r)
      PROVE  SP!SerialInv'
  BY <1>0, <1>1, SessionsAssumed, SessionsMove, SP!SessionsStepSerial
<1>2. ASSUME NEW r \in Requests, AccountSteps(r) \/ TripSteps(r)
      PROVE  SP!SerialInv'
  <2>1. SP!Alone'
    BY DEF BackendSerialInv, AccountsSerialInv, Alone, InFlight, AtRest,
       SP!Alone, SP!InFlight, SP!AtRest
  <2> QED
    BY <1>0, <1>2, <2>1, SessionsAssumed, StepsElsewhere, SP!ElsewhereSerial
<1>3. CASE \/ UpdateStatus
           \/ /\ Environment \/ UNCHANGED serverVars
              /\ UNCHANGED <<otpVars, accountVars, sessionVars, tripVars, secret>>
  BY <1>0, <1>3, SessionsAssumed, AroundSessions, SP!SessionsEnvironmentSerial
<1> QED BY <1>1, <1>2, <1>3 DEF BackendNext, backendVars, vars

\* When clients wait, the upserts of storeRefreshToken keep one token for each
\* account, and a token that auth/refresh has accepted is never good again, also
\* for accounts that a registration has created meanwhile.
THEOREM BackendOneToken ==
  ASSUME ~Overlapping
  PROVE  BackendSafety => [](S!OneTokenPerUser /\ S!RotatedTokenIsDead)
<1>1. BackendInit => SP!SerialInv
  BY DEF BackendInit, AccountsInit, OtpServiceInit, ServerInit, SP!SerialInv,
     SP!Alone, SP!InFlight, SP!AtRest, SP!StillNone, SP!OneTokenPerUser,
     SP!RefreshesItsAccount, SP!RefreshRotated
<1>2. /\ BackendInv /\ BackendInv' /\ BackendSerialInv'
      /\ BackendSessionsInv /\ BackendSessionsInv' /\ SP!SerialInv
      /\ [BackendNext]_backendVars
      => SP!SerialInv'
  BY BackendNextTokens
<1>3. SP!SerialInv => S!OneTokenPerUser /\ S!RotatedTokenIsDead
  BY DEF SP!SerialInv, SP!OneTokenPerUser, SP!RefreshRotated, SP!TokenGone,
     S!OneTokenPerUser, S!RotatedTokenIsDead
<1>4. BackendSafety => []BackendSerialInv
  BY BackendSerialInvariance
<1> QED
  BY <1>1, <1>2, <1>3, <1>4, BackendInvariance, BackendSessionsInvariance, PTL
     DEF BackendSafety
=============================================================================
