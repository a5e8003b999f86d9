------------------------------ MODULE Sessions ------------------------------
(***************************************************************************)
(* User sessions: AuthService (loginUser, googleLogin, refreshTokens,      *)
(* logout), the refreshtokens collection, JwtUserGuard and the cookies of  *)
(* the browsers.                                                           *)
(*                                                                         *)
(*   POST auth/login, auth/google-login   users, then a pair of tokens     *)
(*   POST auth/refresh                    refreshtokens, users, a new pair *)
(*   POST auth/logout                     the guard, then refreshtokens    *)
(*   GET users/getUserDetails             the guard, then users            *)
(*                                                                         *)
(* A pair of tokens is a JWT, which the server does not store, and a       *)
(* random refresh token, which it upserts by userId.  refreshtokens has no *)
(* unique index, so an upsert is a match that may be followed by an insert.*)
(***************************************************************************)
EXTENDS Server

CONSTANTS
  Browsers,
  Owner,            \* whose browser it is; it logs in as nobody else
  AccessLifetime,   \* 1 day: the cookie's maxAge, if JWT_EXPIRATION is no less
  RefreshLifetime   \* 7 days: expiryDate, and the cookie's maxAge

ASSUME SessionsAssumption ==
  /\ Owner \in [Browsers -> Emails]
  /\ AccessLifetime \in Nat /\ RefreshLifetime \in Nat
  /\ AccessLifetime <= RefreshLifetime
  /\ Requests \cap Emails = {} /\ Nil \notin Requests

VARIABLES
  users,          \* the users collection
  blocked,        \* the users with is_blocked
  refreshTokens,  \* the refreshtokens collection
  jar,            \* the cookies of each browser
  browser,        \* where a request comes from
  cookies,        \* the cookies it came with
  userId,         \* the _id of the account it acts for, once it has read it
  barred          \* history: the owner was blocked all along since it came

sessionVars ==
  <<users, blocked, refreshTokens, jar, browser, cookies, userId, barred>>
vars == <<serverVars, sessionVars>>

\* A refresh token, a uuid, is named by the request that generated it.
\* An account is named by the request that created it, or by its address.
UserDoc == [id : Requests \union Emails, email : Emails]
TokenDoc == [id : Requests, userId : Requests \union Emails,
             token : Requests, expiryDate : Nat]
AccessToken == [userId : Requests \union Emails, exp : Nat]
RefreshCookie == [token : Requests, exp : Nat]
Cookies == [access : AccessToken \union {Nil}, refresh : RefreshCookie \union {Nil}]

ASSUME SessionsDocsAssumption == Nil \notin AccessToken /\ Nil \notin RefreshCookie

NoCookies == [access |-> Nil, refresh |-> Nil]

SessionsInit ==
  /\ ServerInit
  /\ \E registered \in SUBSET Emails :
       users = {[id |-> e, email |-> e] : e \in registered}
  /\ blocked = {}
  /\ refreshTokens = {}
  /\ jar = [b \in Browsers |-> NoCookies]
  /\ browser = [r \in Requests |-> Nil]
  /\ cookies = [r \in Requests |-> NoCookies]
  /\ userId = [r \in Requests |-> Nil]
  /\ barred = [r \in Requests |-> FALSE]

UsersOf(e) == {u \in users : u.email = e}

TokensOf(id) == {d \in refreshTokens : d.userId = id}

IsBlocked(e) == UsersOf(e) # {} /\ \A u \in UsersOf(e) : u.id \in blocked

\* A browser forgets a cookie whose maxAge is over.
Live(c) == IF c = Nil \/ c.exp < now THEN Nil ELSE c

Sent(b) == [access |-> Live(jar[b].access), refresh |-> Live(jar[b].refresh)]

-----------------------------------------------------------------------------

\* A browser calls an endpoint and sends the cookies it has.
Call(r, b, rt, l) ==
  /\ Arrive(r, rt, Owner[b], l)
  /\ browser' = [browser EXCEPT ![r] = b]
  /\ cookies' = [cookies EXCEPT ![r] = Sent(b)]
  /\ barred' = [barred EXCEPT ![r] = IsBlocked(Owner[b])]
  /\ UNCHANGED <<users, blocked, refreshTokens, jar, userId>>

Login(r, b) == Call(r, b, "login", "findUser")
GoogleLogin(r, b) == Call(r, b, "google-login", "fetchDetails")
Refresh(r, b) == Call(r, b, "refresh", "findToken")
Logout(r, b) == Call(r, b, "logout", "guard")
GetUserDetails(r, b) == Call(r, b, "getUserDetails", "guard")

\* The handler of r acts for account id from now on, and goes on to l.
GotoAs(r, id, l) ==
  /\ userId' = [userId EXCEPT ![r] = id]
  /\ Goto(r, l)

\* A bug: there is always a user.
AssumesUser(r) ==
  /\ pc[r] = "findUser"
  /\ \/ UsersOf(email[r]) = {} /\ GotoAs(r, Nil, "compare")
     \/ \E u \in UsersOf(email[r]) : GotoAs(r, u.id, "compare")
  /\ UNCHANGED <<users, blocked, refreshTokens, jar, browser, cookies, barred>>

LoginFindsUser(r) ==
  /\ pc[r] = "findUser"
  /\ \/ /\ UsersOf(email[r]) = {}
        /\ Reply(r, "unauthorized")
        /\ UNCHANGED userId
     \/ \E u \in UsersOf(email[r]) :
          \/ u.id \in blocked /\ Reply(r, "unauthorized") /\ UNCHANGED userId
          \/ u.id \notin blocked /\ GotoAs(r, u.id, "compare")
  /\ UNCHANGED <<users, blocked, refreshTokens, jar, browser, cookies, barred>>

\* The password may be wrong, and bcrypt.compare rejects when there is none to
\* compare with: an account that googleLogin created has no password.
ComparePassword(r) ==
  /\ pc[r] = "compare"
  /\ \/ Reply(r, "unauthorized")
     \/ Reply(r, "serverError")
     \/ Goto(r, "matchToken")
  /\ UNCHANGED sessionVars

\* Google's answer; when it does not come, googleLogin throws a plain Error.
FetchDetails(r) ==
  /\ pc[r] = "fetchDetails"
  /\ \/ Goto(r, "findGoogle")
     \/ Reply(r, "serverError")
  /\ UNCHANGED sessionVars

\* A bug: whoever comes from Google is new.
GoogleUserIsNew(r) ==
  /\ pc[r] = "findGoogle"
  /\ Goto(r, "createGoogle")
  /\ UNCHANGED sessionVars

\* is_blocked is not looked at here.
GoogleFindsUser(r) ==
  /\ pc[r] = "findGoogle"
  /\ \/ UsersOf(email[r]) = {} /\ Goto(r, "createGoogle") /\ UNCHANGED userId
     \/ \E u \in UsersOf(email[r]) : GotoAs(r, u.id, "matchToken")
  /\ UNCHANGED <<users, blocked, refreshTokens, jar, browser, cookies, barred>>

CreateGoogleUser(r) ==
  /\ pc[r] = "createGoogle"
  /\ users' = users \union {[id |-> r, email |-> email[r]]}
  /\ GotoAs(r, r, "matchToken")
  /\ barred' = [q \in Requests |-> barred[q] /\ email[q] # email[r]]
  /\ UNCHANGED <<blocked, refreshTokens, jar, browser, cookies>>

-----------------------------------------------------------------------------
(* POST auth/refresh                                                       *)

RefreshFindsToken(r) ==
  LET found == {d \in refreshTokens :
                  /\ cookies[r].refresh # Nil
                  /\ d.token = cookies[r].refresh.token
                  /\ d.expiryDate >= now}
  IN /\ pc[r] = "findToken"
     /\ \/ found = {} /\ Reply(r, "unauthorized") /\ UNCHANGED userId
        \/ \E d \in found : GotoAs(r, d.userId, "findTokenUser")
     /\ UNCHANGED <<users, blocked, refreshTokens, jar, browser, cookies, barred>>

\* findUserById.  is_blocked is not looked at here.
RefreshFindsUser(r) ==
  /\ pc[r] = "findTokenUser"
  /\ IF \E u \in users : u.id = userId[r]
     THEN Goto(r, "matchToken")
     ELSE Reply(r, "unauthorized")
  /\ UNCHANGED sessionVars

-----------------------------------------------------------------------------
(* generateTokens and setTokenCookies                                      *)

\* What storeRefreshToken stores for r in the document id of account owner; the
\* date is the one it had when it issued the upsert.
NewToken(r, id, owner) ==
  [id |-> id, userId |-> owner, token |-> r, expiryDate |-> dated[r] + RefreshLifetime]

\* A bug: the filter is forgotten.
MatchesAnyToken(id) == refreshTokens

\* updateOne({ userId }, ...) with upsert, which updates any one match.
Matches(id) == TokensOf(id)

\* A bug: each token is inserted.
AlwaysInserts(r) ==
  /\ pc[r] = "matchToken"
  /\ Goto(r, "insertToken")
  /\ UNCHANGED sessionVars

MatchToken(r) ==
  /\ pc[r] = "matchToken"
  /\ \/ /\ Matches(userId[r]) = {}
        /\ Goto(r, "insertToken")
        /\ UNCHANGED refreshTokens
     \/ \E d \in Matches(userId[r]) :
          /\ refreshTokens' =
               (refreshTokens \ {d}) \union {NewToken(r, d.id, d.userId)}
          /\ Goto(r, "setCookies")
  /\ UNCHANGED <<users, blocked, jar, browser, cookies, userId, barred>>

InsertToken(r) ==
  /\ pc[r] = "insertToken"
  /\ refreshTokens' = refreshTokens \union {NewToken(r, r, userId[r])}
  /\ Goto(r, "setCookies")
  /\ UNCHANGED <<users, blocked, jar, browser, cookies, userId, barred>>

\* A bug: auth/refresh sets the access cookie only.
SetAccessCookie(r) ==
  /\ pc[r] = "setCookies"
  /\ jar' = [jar EXCEPT ![browser[r]] =
       [access |-> [userId |-> userId[r], exp |-> now + AccessLifetime],
        refresh |-> IF route[r] = "refresh" THEN @.refresh
                    ELSE [token |-> r, exp |-> now + RefreshLifetime]]]
  /\ Reply(r, "ok")
  /\ UNCHANGED <<users, blocked, refreshTokens, browser, cookies, userId, barred>>

\* The response reaches the browser, in any order with other responses.
SetTokenCookies(r) ==
  /\ pc[r] = "setCookies"
  /\ jar' = [jar EXCEPT ![browser[r]] =
       [access |-> [userId |-> userId[r], exp |-> now + AccessLifetime],
        refresh |-> [token |-> r, exp |-> now + RefreshLifetime]]]
  /\ Reply(r, "ok")
  /\ UNCHANGED <<users, blocked, refreshTokens, browser, cookies, userId, barred>>

-----------------------------------------------------------------------------
(* JwtUserGuard, and the handlers behind it                                *)

Guarded == [logout |-> "deleteToken", getUserDetails |-> "findDetails"]

\* A bug: is_blocked is not looked at.
GuardForgetsBlocked(r) ==
  /\ pc[r] = "guard"
  /\ \/ /\ cookies[r].access = Nil
        /\ Reply(r, "unauthorized")
        /\ UNCHANGED userId
     \/ /\ cookies[r].access # Nil
        /\ \E u \in users : /\ u.id = cookies[r].access.userId
                            /\ GotoAs(r, u.id, Guarded[route[r]])
  /\ UNCHANGED <<users, blocked, refreshTokens, jar, browser, cookies, barred>>

\* No cookie, or a user who is blocked.  Whatever the guard throws inside its
\* try, it answers as unauthorized.
Guard(r) ==
  /\ pc[r] = "guard"
  /\ \/ /\ \/ cookies[r].access = Nil
           \/ cookies[r].access # Nil /\ cookies[r].access.userId \in blocked
        /\ Reply(r, "unauthorized")
        /\ UNCHANGED userId
     \/ /\ cookies[r].access # Nil
        /\ \E u \in users : /\ u.id = cookies[r].access.userId
                            /\ u.id \notin blocked
                            /\ GotoAs(r, u.id, Guarded[route[r]])
  /\ UNCHANGED <<users, blocked, refreshTokens, jar, browser, cookies, barred>>

\* A bug: only the cookies are cleared.
OnlyClearsCookies(r) ==
  /\ pc[r] = "deleteToken"
  /\ Goto(r, "clearCookies")
  /\ UNCHANGED sessionVars

\* deleteOne({ token }), with no match when the cookie is gone.
DeleteToken(r) ==
  /\ pc[r] = "deleteToken"
  /\ LET found == {d \in refreshTokens :
                     /\ cookies[r].refresh # Nil
                     /\ d.token = cookies[r].refresh.token}
     IN \/ found = {} /\ UNCHANGED refreshTokens
        \/ \E d \in found : refreshTokens' = refreshTokens \ {d}
  /\ Goto(r, "clearCookies")
  /\ UNCHANGED <<users, blocked, jar, browser, cookies, userId, barred>>

ClearTokenCookies(r) ==
  /\ pc[r] = "clearCookies"
  /\ jar' = [jar EXCEPT ![browser[r]] = NoCookies]
  /\ Reply(r, "ok")
  /\ UNCHANGED <<users, blocked, refreshTokens, browser, cookies, userId, barred>>

\* The address of the query may be anybody's.
FindDetails(r) ==
  /\ pc[r] = "findDetails"
  /\ \E e \in Emails : Reply(r, IF UsersOf(e) = {} THEN "notFound" ELSE "ok")
  /\ UNCHANGED sessionVars

-----------------------------------------------------------------------------

\* An admin blocks or unblocks users; the updateMany is atomic for each one.
UpdateStatus(u, action) ==
  /\ \/ /\ action = "block"
        /\ blocked' = blocked \union {u.id}
        /\ UNCHANGED barred
     \/ /\ action = "unblock"
        /\ blocked' = blocked \ {u.id}
        /\ barred' = [r \in Requests |-> barred[r] /\ email[r] # u.email]
  /\ UNCHANGED <<serverVars, users, refreshTokens, jar, browser, cookies, userId>>

SessionsArrival(r) ==
  \E b \in Browsers :
    \/ Login(r, b) \/ GoogleLogin(r, b) \/ Refresh(r, b)
    \/ Logout(r, b) \/ GetUserDetails(r, b)

SessionsHandler(r) ==
  \/ LoginFindsUser(r) \/ ComparePassword(r)
  \/ FetchDetails(r) \/ GoogleFindsUser(r) \/ CreateGoogleUser(r)
  \/ RefreshFindsToken(r) \/ RefreshFindsUser(r)
  \/ MatchToken(r) \/ InsertToken(r) \/ SetTokenCookies(r)
  \/ Guard(r) \/ DeleteToken(r) \/ ClearTokenCookies(r) \/ FindDetails(r)

Environment == (\E r \in Requests : Fail(r)) \/ Crash \/ Tick \/ Rest

SessionsNext ==
  \/ \E r \in Requests : SessionsArrival(r) \/ SessionsHandler(r)
  \/ \E u \in users, action \in {"block", "unblock"} : UpdateStatus(u, action)
  \/ Environment /\ UNCHANGED sessionVars

SessionsSpec ==
  /\ SessionsInit /\ [][SessionsNext]_vars
  /\ \A r \in Requests : WF_vars(SessionsHandler(r))

-----------------------------------------------------------------------------
(* Properties                                                              *)

SessionLabels ==
  {"findUser", "compare", "fetchDetails", "findGoogle", "createGoogle",
   "findToken", "findTokenUser", "matchToken", "insertToken", "setCookies",
   "guard", "deleteToken", "clearCookies", "findDetails"}

\* A handler knows its account by the time it acts for one.
ActsForUser == {"compare", "findTokenUser", "matchToken", "insertToken",
                "setCookies", "deleteToken", "clearCookies", "findDetails"}

RequestsTypeOK ==
  /\ pc \in [Requests -> AtRest \union SessionLabels]
  /\ route \in [Requests -> Routes \union {Nil}]
  /\ email \in [Requests -> Emails \union {Nil}]
  /\ reply \in [Requests -> Outcomes \union {Nil}]
  /\ now \in 0..MaxTime
  /\ dated \in [Requests -> 0..MaxTime]
  /\ browser \in [Requests -> Browsers \union {Nil}]
  /\ cookies \in [Requests -> Cookies]
  /\ barred \in [Requests -> BOOLEAN]

StoreTypeOK ==
  /\ users \subseteq UserDoc
  /\ blocked \subseteq {u.id : u \in users}
  /\ refreshTokens \subseteq TokenDoc
  /\ jar \in [Browsers -> Cookies]

UserKnown ==
  /\ userId \in [Requests -> {u.id : u \in users} \union {Nil}]
  /\ \A r \in Requests : pc[r] \in ActsForUser => userId[r] # Nil

\* The state has the shapes of the schemas and the cookies, and no handler
\* dereferences a user it has not found (user._id, token.userId).
SessionsTypeOK == RequestsTypeOK /\ StoreTypeOK /\ UserKnown

\* The owner of account id is the person with address e.
BelongsTo(id, e) == \E u \in UsersOf(e) : u.id = id

\* Sessions of different people never mix, whatever handlers interleave: every
\* request acts for the owner of the browser that sent it, and both cookies of
\* a browser lead to its owner's account (generateTokens, setTokenCookies).
SessionsStayApart ==
  /\ \A r \in Requests : userId[r] # Nil => BelongsTo(userId[r], email[r])
  /\ \A b \in Browsers :
       /\ jar[b].access # Nil => BelongsTo(jar[b].access.userId, Owner[b])
       /\ jar[b].refresh # Nil =>
            \A d \in refreshTokens :
              d.token = jar[b].refresh.token => BelongsTo(d.userId, Owner[b])

\* A user who is blocked from before a request until its answer gets nothing
\* from login or from behind JwtUserGuard.  (auth/refresh and
\* auth/google-login do not look at is_blocked and do answer.)
BlockedIsRefused ==
  \A r \in Requests :
    barred[r] /\ reply[r] = "ok" => route[r] \in {"refresh", "google-login"}

\* Once logout has answered, the refresh token it came with is dead, whatever
\* logins and refreshes were in flight with it (deleteRefreshToken).
LoggedOutTokenIsDead ==
  \A r \in Requests :
    route[r] = "logout" /\ reply[r] = "ok" /\ cookies[r].refresh # Nil
      => \A d \in refreshTokens : d.token # cookies[r].refresh.token

\* storeRefreshToken keeps one token per user, as its filter { userId } intends,
\* when the requests of one user do not overlap.
OneTokenPerUser ==
  \A d, c \in refreshTokens : d.userId = c.userId => d = c

\* googleLogin never gives a person a second account, whatever fails in between,
\* when the requests of one user do not overlap.
OneAccountPerUser ==
  \A u, v \in users : u.email = v.email => u = v

\* Rotation: a refresh token that auth/refresh has accepted is never good again
\* (refreshTokens), when the requests of one user do not overlap.
RotatedTokenIsDead ==
  \A r \in Requests :
    route[r] = "refresh" /\ reply[r] = "ok"
      => \A d \in refreshTokens : d.token # cookies[r].refresh.token

\* Nothing stands between a browser and the newest session of its owner: all of
\* the owner's requests came from this browser and were answered.
Undisturbed(b) ==
  \A r \in Requests :
    email[r] = Owner[b] => /\ browser[r] = b
                           /\ pc[r] = "replied"
                           /\ reply[r] # "serverError"

\* The refresh token in an undisturbed browser is the one the server has, so its
\* owner is not logged out after every reply (setTokenCookies after
\* storeRefreshToken, clearTokenCookies after deleteRefreshToken).
SessionSurvives ==
  \A b \in Browsers :
    Undisturbed(b) /\ jar[b].refresh # Nil =>
      \E d \in refreshTokens : d.token = jar[b].refresh.token

\* Conversely, a browser that has logged out without a fault leaves no token
\* behind on the server.
LogoutEndsSession ==
  \A b \in Browsers :
    Undisturbed(b) /\ jar[b].access = Nil /\ jar[b].refresh = Nil =>
      \A u \in UsersOf(Owner[b]) : TokensOf(u.id) = {}
=============================================================================
