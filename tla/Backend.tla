------------------------------ MODULE Backend -------------------------------
(***************************************************************************)
(* The user side of the server in one process: registration, verification  *)
(* and recovery (Accounts), user sessions and Google login (Sessions), and *)
(* trips (Trip).  Accounts and Sessions share the users collection:        *)
(* verifyUser and googleLogin both create accounts, changePassword sets    *)
(* the hash that loginUser compares with.                                  *)
(***************************************************************************)
EXTENDS Accounts

CONSTANTS Browsers, Owner, AccessLifetime, RefreshLifetime, TripNames

\* As in Sessions.
ASSUME BackendAssumption ==
  /\ Owner \in [Browsers -> Emails]
  /\ AccessLifetime \in Nat /\ RefreshLifetime \in Nat
  /\ AccessLifetime <= RefreshLifetime

VARIABLES
  blocked, refreshTokens, jar, browser, cookies, userId, barred,  \* Sessions
  trips, tripName,                                                \* Trip
  secret   \* history: the password each person was last told is theirs

sessionVars == <<blocked, refreshTokens, jar, browser, cookies, userId, barred>>
tripVars == <<trips, tripName>>
backendVars == <<vars, sessionVars, tripVars, secret>>

\* What Sessions sees of an account.
S == INSTANCE Sessions
       WITH users <- {[id |-> u.id, email |-> u.email] : u \in users}

ASSUME BackendDocsAssumption ==
  Nil \notin S!AccessToken /\ Nil \notin S!RefreshCookie

T == INSTANCE Trip

\* Who has an account with a password at the start knows that password.
BackendInit ==
  /\ AccountsInit
  /\ blocked = {}
  /\ refreshTokens = {}
  /\ jar = [b \in Browsers |-> S!NoCookies]
  /\ browser = [r \in Requests |-> Nil]
  /\ cookies = [r \in Requests |-> S!NoCookies]
  /\ userId = [r \in Requests |-> Nil]
  /\ barred = [r \in Requests |-> FALSE]
  /\ T!TripInit
  /\ secret = [e \in Emails |->
       IF \E u \in UsersOf(e) : u.password # Nil
       THEN (CHOOSE u \in UsersOf(e) : TRUE).password.text
       ELSE Nil]

-----------------------------------------------------------------------------
(* POST auth/login with a password                                         *)

Login(r, b, p) ==
  /\ UNCHANGED <<otpVars, users, unverifiedUsers, draft, account>>
  /\ password' = [password EXCEPT ![r] = p]
  /\ S!Login(r, b)

\* The account is read here, and its hash compared an await later.
LoginFindsUser(r) ==
  /\ UNCHANGED <<otpVars, users, unverifiedUsers, password, draft>>
  /\ S!LoginFindsUser(r)
  /\ \/ userId'[r] = Nil /\ UNCHANGED account
     \/ \E u \in UsersOf(email[r]) :
          u.id = userId'[r] /\ account' = [account EXCEPT ![r] = u]

LoginComparesPassword(r) ==
  /\ UNCHANGED <<otpVars, accountVars>>
  /\ S!ComparePassword(r)
  /\ \/ account[r].password = Nil /\ reply'[r] = "serverError"
     \/ account[r].password = Hash(Plain(password[r])) /\ pc'[r] = "matchToken"
     \/ /\ account[r].password \notin {Nil, Hash(Plain(password[r]))}
        /\ reply'[r] = "unauthorized"

\* googleLogin stores no password.
GoogleCreatesUser(r) ==
  /\ UNCHANGED <<otpVars, unverifiedUsers, password, draft, account>>
  /\ pc[r] = "createGoogle"
  /\ users' = users \union
       {[id |-> r, email |-> email[r], password |-> Nil, isGoogle |-> TRUE]}
  /\ S!CreateGoogleUser(r)

LoginSteps(r) ==
  /\ \/ \E b \in Browsers, p \in Passwords : Login(r, b, p)
     \/ LoginFindsUser(r) \/ LoginComparesPassword(r) \/ GoogleCreatesUser(r)
  /\ UNCHANGED <<tripVars, secret>>

\* The other calls of Sessions neither read nor write what it does not see.
SessionSteps(r) ==
  /\ UNCHANGED <<otpVars, accountVars, tripVars, secret>>
  /\ \/ \E b \in Browsers :
          \/ S!GoogleLogin(r, b) \/ S!Refresh(r, b)
          \/ S!Logout(r, b) \/ S!GetUserDetails(r, b)
     \/ S!FetchDetails(r) \/ S!GoogleFindsUser(r)
     \/ S!RefreshFindsToken(r) \/ S!RefreshFindsUser(r)
     \/ S!MatchToken(r) \/ S!InsertToken(r) \/ S!SetTokenCookies(r)
     \/ S!Guard(r) \/ S!DeleteToken(r) \/ S!ClearTokenCookies(r) \/ S!FindDetails(r)

\* A person learns a password by the reply to a verification or a change.
Learns(r) ==
  secret' = IF pc'[r] # "replied" \/ reply'[r] # "ok" THEN secret
            ELSE CASE route[r] = "verify-otp" ->
                        [secret EXCEPT ![email[r]] = password[draft[r].id]]
                   [] route[r] = "changePassword" ->
                        [secret EXCEPT ![email[r]] = password[r]]
                   [] OTHER -> secret

\* A new account is not blocked: its owner is not barred any more.
AccountSteps(r) ==
  /\ \/ AccountArrival(r) \/ Handler(r)
     \/ OtpArrival(r) /\ UNCHANGED accountVars
  /\ Learns(r)
  /\ UNCHANGED <<blocked, refreshTokens, jar, browser, cookies, userId, tripVars>>
  /\ barred' = [q \in Requests |-> barred[q] /\ S!IsBlocked(email[q])']

TripSteps(r) ==
  /\ T!TripArrival(r) \/ T!TripHandler(r)
  /\ UNCHANGED <<otpVars, accountVars, sessionVars, secret>>

UpdateStatus ==
  /\ UNCHANGED <<otpVars, accountVars, tripVars, secret>>
  /\ \E u \in users, action \in {"block", "unblock"} :
       S!UpdateStatus([id |-> u.id, email |-> u.email], action)

BackendNext ==
  \/ \E r \in Requests :
       LoginSteps(r) \/ SessionSteps(r) \/ AccountSteps(r) \/ TripSteps(r)
  \/ UpdateStatus
  \/ Environment /\ UNCHANGED <<otpVars, accountVars, sessionVars, tripVars, secret>>

BackendSafety == BackendInit /\ [][BackendNext]_backendVars

-----------------------------------------------------------------------------
(* Properties of clients that wait.                                        *)

\* Three services keep their own shapes in one process, no handler of one uses a
\* document that another has not left it, and whoever has a refresh token has an
\* account.
BackendTypeOK ==
  /\ pc \in [Requests -> AtRest \union OtpLabels \union AccountLabels
                           \union S!SessionLabels \union T!TripLabels]
  /\ AccountVarsTypeOK
  /\ S!StoreTypeOK /\ S!UserKnown
  /\ \A d \in refreshTokens : \E u \in users : u.id = d.userId
  /\ \A r \in Requests : pc[r] = "compare" => account[r] # Nil

\* r, a login, is answered in this step.
LoginAnswered(r, outcome) ==
  route[r] = "login" /\ reply[r] = Nil /\ reply'[r] = outcome

\* The password a person was last told is theirs, by a verification or by
\* changePassword, is the one that logs them in, and no other does: it is
\* hashed the way login compares it on every path that stores it, and no
\* Google login, repeated registration or failed request replaces it.
PasswordLogsIn ==
  [][\A r \in Requests : route[r] = "login" /\ secret[email[r]] # Nil =>
       /\ LoginAnswered(r, "ok") => password[r] = secret[email[r]]
       /\ LoginAnswered(r, "unauthorized") =>
            password[r] # secret[email[r]] \/ S!IsBlocked(email[r])]_backendVars

\* "You can use the google login": an account that Google created never gets a
\* password, by registration, verification, or change, so that login with one
\* never enters it; and every other account has one.
GoogleHasNoPassword == \A u \in users : u.isGoogle <=> u.password = Nil

\* A person who waits never has two trips of one name.
OwnTripsDiffer == T!OwnTripsDiffer

\* What Sessions promises however requests overlap: sessions of different people
\* do not mix, who is blocked all along gets nothing, and a logout ends its token.
SessionsKeepPromises ==
  S!SessionsStayApart /\ S!BlockedIsRefused /\ S!LoggedOutTokenIsDead
=============================================================================
