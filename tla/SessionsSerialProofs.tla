------------------------ MODULE SessionsSerialProofs ------------------------
(***************************************************************************)
(* What TLAPS proves about Sessions when the requests of one person do not *)
(* overlap: one account and one stored token per user, the token good for  *)
(* one refresh and in step with the browser.                               *)
(***************************************************************************)
EXTENDS SessionsProofs

\* Requests in flight are of different people.
Alone == \A q, r \in InFlight : email[q] = email[r] => q = r

\* The match of an upsert that goes on to insert has not been overtaken.
StillNone ==
  \A r \in Requests : pc[r] = "insertToken" => TokensOf(userId[r]) = {}

\* A refresh acts for the account its token was issued to.
RefreshesItsAccount ==
  \A r \in Requests :
    route[r] = "refresh" /\ userId[r] # Nil =>
      /\ cookies[r].refresh # Nil
      /\ userId[cookies[r].refresh.token] = userId[r]

\* The token r came with is not stored.
TokenGone(r) ==
  /\ cookies[r].refresh # Nil
  /\ \A d \in refreshTokens : d.token # cookies[r].refresh.token

\* From the upsert of a refresh on, the token it came with is gone for good.
RefreshRotated ==
  \A r \in Requests :
    /\ route[r] = "refresh"
    /\ pc[r] \in {"insertToken", "setCookies"} \/ reply[r] = "ok"
    => TokenGone(r)

SerialInv ==
  Alone /\ StillNone /\ OneTokenPerUser /\ RefreshesItsAccount /\ RefreshRotated

\* Handlers in flight act for different accounts.
LEMMA AccountsApart ==
  ASSUME NEW L, SessionsInv(L), Alone, NEW q \in InFlight, NEW r \in InFlight,
         q # r,
         userId[r] # Nil
  PROVE  userId[q] # userId[r]
<1>1. email[q] # email[r]
  BY DEF Alone
<1> QED
  BY <1>1 DEF SessionsInv, ActsForOwner, AccountsCreated, BelongsTo, UsersOf,
     InFlight

\* A step of r leaves every other request alone.
LEMMA StepIsLocal ==
  ASSUME NEW L, SessionsInv(L), NEW r \in Requests,
         SessionsArrival(r) \/ SessionsHandler(r)
  PROVE  /\ pc[r] \notin {"replied", "lost"}
         /\ \A q \in Requests \ {r} :
              /\ pc'[q] = pc[q] /\ route'[q] = route[q] /\ email'[q] = email[q]
              /\ reply'[q] = reply[q] /\ userId'[q] = userId[q]
              /\ cookies'[q] = cookies[q]
<1> USE DEF SessionsInv, RequestsInv, UserKnown, Goto, Reply
<1>1. CASE SessionsArrival(r)
  BY <1>1 DEF SessionsArrival, Login, GoogleLogin, Refresh, Logout,
     GetUserDetails, Call, Arrive
<1>2. CASE LoginFindsUser(r) \/ ComparePassword(r) \/ FetchDetails(r)
  BY <1>2 DEF LoginFindsUser, ComparePassword, FetchDetails, GotoAs,
    sessionVars
<1>3. CASE GoogleFindsUser(r) \/ CreateGoogleUser(r)
  BY <1>3 DEF GoogleFindsUser, CreateGoogleUser, GotoAs
<1>4. CASE RefreshFindsToken(r) \/ RefreshFindsUser(r)
  BY <1>4 DEF RefreshFindsToken, RefreshFindsUser, GotoAs, sessionVars
<1>5. CASE MatchToken(r) \/ InsertToken(r) \/ SetTokenCookies(r)
  BY <1>5 DEF MatchToken, InsertToken, SetTokenCookies
<1>6. CASE Guard(r)
  BY <1>6 DEF Guard, GotoAs
<1>7. CASE DeleteToken(r) \/ ClearTokenCookies(r) \/ FindDetails(r)
  BY <1>7 DEF DeleteToken, ClearTokenCookies, FindDetails, sessionVars
<1> QED
  BY <1>1, <1>2, <1>3, <1>4, <1>5, <1>6, <1>7 DEF SessionsHandler

\* Who is at a step of Sessions has come from a browser of its person.
LEMMA FromItsBrowser ==
  ASSUME NEW L, SessionsInv(L), NEW r \in Requests, SessionsHandler(r)
  PROVE  browser[r] \in Browsers /\ email[r] = Owner[browser[r]]
<1>1. pc[r] \in SessionLabels
  BY DEF SessionsHandler, LoginFindsUser, ComparePassword, FetchDetails,
     GoogleFindsUser, CreateGoogleUser, RefreshFindsToken, RefreshFindsUser,
     MatchToken, InsertToken, SetTokenCookies, Guard, DeleteToken,
     ClearTokenCookies, FindDetails, SessionLabels
<1>2. pc[r] # "idle" /\ route[r] \in SessionRoutes
  BY <1>1 DEF SessionsInv, OnItsWay, SessionLabels, SessionRoutes, TokenRoutes,
     Guarded
<1> QED BY <1>2 DEF SessionsInv, Arrived

\* A step that leaves the tokens alone, keeps what a refresh knows of its
\* account, and neither starts an insert nor answers a refresh too soon.
Quiet(r) ==
  /\ refreshTokens' = refreshTokens
  /\ pc'[r] # "insertToken"
  /\ route'[r] = "refresh" /\ userId'[r] # Nil =>
       /\ cookies'[r].refresh # Nil
       /\ userId'[cookies'[r].refresh.token] = userId'[r]
  /\ route'[r] = "refresh" /\ (pc'[r] = "setCookies" \/ reply'[r] = "ok") =>
       /\ cookies'[r].refresh # Nil
       /\ \A d \in refreshTokens : d.token # cookies'[r].refresh.token

\* All steps are quiet, but for those of the three calls that write tokens.
LEMMA QuietSteps ==
  ASSUME NEW L, SessionsInv(L), SerialInv, NEW r \in Requests,
         SessionsArrival(r) \/ SessionsHandler(r),
         ~(MatchToken(r) \/ InsertToken(r) \/ DeleteToken(r))
  PROVE  Quiet(r)
<1> USE ServerAssumption, SessionsAssumption DEF SessionsInv, RequestsInv,
       UserKnown, Goto, Reply, SerialInv, RefreshesItsAccount, RefreshRotated,
       TokenGone, Quiet, OnItsWay
<1>1. CASE SessionsArrival(r)
  BY <1>1 DEF SessionsArrival, Login, GoogleLogin, Refresh, Logout,
     GetUserDetails, Call, Arrive, Arrived, Outcomes
<1>2. CASE LoginFindsUser(r) \/ ComparePassword(r) \/ FetchDetails(r)
  BY <1>2 DEF LoginFindsUser, ComparePassword, FetchDetails, GotoAs,
    sessionVars
<1>3. CASE GoogleFindsUser(r) \/ CreateGoogleUser(r)
  BY <1>3 DEF GoogleFindsUser, CreateGoogleUser, GotoAs
<1>4. CASE RefreshFindsToken(r)
  BY <1>4 DEF RefreshFindsToken, GotoAs, StoredTokens, StoreTypeOK, TokenDoc,
     CookiesOfOwner, CookiesBelongTo
<1>5. CASE RefreshFindsUser(r) \/ SetTokenCookies(r)
  BY <1>5 DEF RefreshFindsUser, SetTokenCookies, sessionVars
<1>6. CASE Guard(r)
  BY <1>6 DEF Guard, GotoAs, Guarded
<1>7. CASE ClearTokenCookies(r) \/ FindDetails(r)
  BY <1>7 DEF ClearTokenCookies, FindDetails, sessionVars
<1> QED
  BY <1>1, <1>2, <1>3, <1>4, <1>5, <1>6, <1>7 DEF SessionsHandler

\* The arrivals and steps of clients that wait keep the invariant.
LEMMA SessionsStepSerial ==
  ASSUME ~Overlapping, NEW L, SessionsInv(L), SessionsInv(L)', SerialInv,
         NEW r \in Requests,
         SessionsArrival(r) \/ SessionsHandler(r)
  PROVE  SerialInv'
<1>1. /\ pc[r] \notin {"replied", "lost"}
      /\ \A q \in Requests \ {r} :
           /\ pc'[q] = pc[q] /\ route'[q] = route[q] /\ email'[q] = email[q]
           /\ reply'[q] = reply[q] /\ userId'[q] = userId[q]
           /\ cookies'[q] = cookies[q]
  BY StepIsLocal
<1>2. Alone'
  <2>1. CASE SessionsArrival(r)
    BY <2>1, <1>1 DEF SessionsArrival, Login, GoogleLogin, Refresh, Logout,
       GetUserDetails, Call, Arrive, SerialInv, Alone, InFlight, SessionsInv,
       RequestsInv
  <2>2. CASE SessionsHandler(r)
    <3>1. r \in InFlight /\ email' = email
      BY <2>2 DEF SessionsHandler, LoginFindsUser, ComparePassword,
         FetchDetails, GoogleFindsUser, CreateGoogleUser, RefreshFindsToken,
         RefreshFindsUser, MatchToken, InsertToken, SetTokenCookies, Guard,
         DeleteToken, ClearTokenCookies, FindDetails, GotoAs, Goto, Reply,
         InFlight, AtRest
    <3>2. InFlight' \subseteq InFlight
      BY <1>1, <3>1 DEF InFlight
    <3> QED BY <3>1, <3>2 DEF SerialInv, Alone
  <2> QED BY <2>1, <2>2
<1>3. \A d \in refreshTokens :
        /\ d.token \in Requests
        /\ userId[d.token] = d.userId
        /\ pc[d.token] \in {"setCookies", "replied", "lost"}
  BY DEF SessionsInv, StoreTypeOK, TokenDoc, StoredTokens
<1>4. \A q \in Requests : cookies[q].refresh # Nil =>
        /\ cookies[q].refresh.token \in Requests
        /\ pc[cookies[q].refresh.token] = "replied"
  BY DEF SessionsInv, RequestsInv, CookiesOfOwner, CookiesBelongTo, Cookies,
     RefreshCookie
<1>5. CASE Quiet(r)
  <2>1. StillNone' /\ OneTokenPerUser'
    BY <1>1, <1>5 DEF SerialInv, StillNone, OneTokenPerUser, TokensOf, Quiet
  <2>2. RefreshesItsAccount'
    BY <1>1, <1>4, <1>5 DEF SerialInv, RefreshesItsAccount, Quiet
  <2>3. RefreshRotated'
    BY <1>1, <1>5 DEF SerialInv, RefreshRotated, TokenGone, Quiet
  <2> QED BY <1>2, <2>1, <2>2, <2>3 DEF SerialInv
<1>6. CASE MatchToken(r) \/ InsertToken(r) \/ DeleteToken(r)
  <2>1. /\ userId' = userId /\ cookies' = cookies /\ route' = route
        /\ reply' = reply /\ r \in InFlight
    BY <1>6 DEF MatchToken, InsertToken, DeleteToken, Goto, InFlight, AtRest
  <2>2. RefreshesItsAccount'
    BY <2>1 DEF SerialInv, RefreshesItsAccount
  <2>3. userId[r] # Nil /\ pc[r] # "replied" /\ reply[r] = Nil /\ "ok" # Nil
    BY <1>6, ServerAssumption DEF SessionsInv, UserKnown, ActsForUser,
       OnItsWay, MatchToken, InsertToken, DeleteToken, Outcomes
  <2>4. \A q \in InFlight \ {r} : userId[q] # userId[r]
    BY <2>1, <2>3, AccountsApart DEF SerialInv
  <2>5. CASE MatchToken(r)
    <3> USE <2>5 DEF MatchToken, Goto
    <3>1. CASE Matches(userId[r]) = {} /\ refreshTokens' = refreshTokens
      <4>1. \A d \in refreshTokens : d.userId # userId[r]
        BY <3>1 DEF Matches, TokensOf
      <4>2. StillNone' /\ OneTokenPerUser'
        BY <1>1, <2>1, <3>1, <4>1 DEF SerialInv, StillNone, OneTokenPerUser,
           TokensOf
      <4>3. RefreshRotated'
        BY <1>1, <1>3, <2>1, <2>3, <3>1, <4>1 DEF SerialInv, RefreshRotated,
           TokenGone, RefreshesItsAccount
      <4> QED BY <1>2, <2>2, <4>2, <4>3 DEF SerialInv
    <3>2. ASSUME NEW d \in refreshTokens, d.userId = userId[r],
                 refreshTokens' =
                   (refreshTokens \ {d}) \union {NewToken(r, d.id, d.userId)},
                 pc'[r] = "setCookies"
          PROVE  SerialInv'
      <4>1. /\ \A c \in refreshTokens' :
                 c.userId = userId[r] => c = NewToken(r, d.id, d.userId)
            /\ \A c \in refreshTokens' : c \in refreshTokens \/ c.token = r
            /\ \A c \in refreshTokens' :
                 c.userId # userId[r] => c \in refreshTokens
        BY <3>2 DEF SerialInv, OneTokenPerUser, NewToken
      <4>2. OneTokenPerUser'
        BY <4>1 DEF SerialInv, OneTokenPerUser
      <4>3. StillNone'
        BY <1>1, <2>1, <2>4, <3>2, <4>1 DEF SerialInv, StillNone, TokensOf,
           InFlight, AtRest
      <4>4. RefreshRotated'
        <5>1. \A q \in Requests : TokenGone(q) => TokenGone(q)'
          BY <1>4, <2>1, <2>3, <4>1 DEF TokenGone
        <5>2. route[r] = "refresh" => TokenGone(r)'
          BY <1>3, <1>4, <2>1, <2>3, <3>2, <4>1
          DEF SerialInv, RefreshesItsAccount, TokenGone, NewToken
        <5> QED
          BY <1>1, <2>1, <5>1, <5>2 DEF SerialInv, RefreshRotated
      <4> QED BY <1>2, <2>2, <4>2, <4>3, <4>4 DEF SerialInv
    <3> QED
      BY <3>1, <3>2 DEF Matches, TokensOf, SessionsInv, RequestsInv
  <2>6. CASE InsertToken(r)
    <3>1. /\ refreshTokens' = refreshTokens \union {NewToken(r, r, userId[r])}
          /\ TokensOf(userId[r]) = {}
          /\ pc[r] = "insertToken"
          /\ pc'[r] = "setCookies"
      BY <2>6 DEF InsertToken, Goto, SerialInv, StillNone, SessionsInv,
         RequestsInv
    <3>2. OneTokenPerUser'
      BY <3>1 DEF SerialInv, OneTokenPerUser, TokensOf, NewToken
    <3>3. StillNone'
      BY <1>1, <2>1, <2>4, <3>1 DEF SerialInv, StillNone, TokensOf, NewToken,
         InFlight, AtRest
    <3>4. \A q \in Requests : TokenGone(q) => TokenGone(q)'
      BY <1>4, <2>1, <2>3, <3>1 DEF TokenGone, NewToken
    <3>5. RefreshRotated'
      BY <1>1, <2>1, <3>1, <3>4 DEF SerialInv, RefreshRotated
    <3> QED BY <1>2, <2>2, <3>2, <3>3, <3>5 DEF SerialInv
  <2>7. CASE DeleteToken(r)
    <3>1. refreshTokens' \subseteq refreshTokens /\ pc'[r] = "clearCookies"
      BY <2>7 DEF DeleteToken, Goto, SessionsInv, RequestsInv
    <3>2. StillNone' /\ OneTokenPerUser'
      BY <1>1, <2>1, <3>1 DEF SerialInv, StillNone, OneTokenPerUser, TokensOf
    <3>3. RefreshRotated'
      BY <1>1, <2>1, <3>1 DEF SerialInv, RefreshRotated, TokenGone
    <3> QED BY <1>2, <2>2, <3>2, <3>3 DEF SerialInv
  <2> QED BY <1>6, <2>5, <2>6, <2>7
<1> QED BY <1>5, <1>6, QuietSteps

\* Faults, the clock and the admin end requests or touch none.
LEMMA SessionsEnvironmentSerial ==
  ASSUME NEW L, SessionsInv(L), SerialInv,
         \/ \E u \in users, action \in {"block", "unblock"} :
              UpdateStatus(u, action)
         \/ Environment /\ UNCHANGED sessionVars
         \/ UNCHANGED vars
  PROVE  SerialInv'
<1>1. /\ UNCHANGED <<refreshTokens, userId, cookies, route, email>>
      /\ \A r \in Requests :
           /\ pc'[r] = pc[r] \/ pc'[r] = "replied" \/ pc'[r] = "lost"
           /\ reply'[r] = "ok" => reply[r] = "ok"
  BY DEF SessionsInv, RequestsInv, UpdateStatus, Environment, Fail, Reply,
     Crash, Tick, Rest, serverVars, sessionVars, vars
<1>2. InFlight' \subseteq InFlight
  BY <1>1 DEF InFlight, AtRest
<1>3. Alone' /\ StillNone'
  BY <1>1, <1>2 DEF SerialInv, Alone, StillNone, TokensOf
<1>4. OneTokenPerUser' /\ RefreshesItsAccount'
  BY <1>1 DEF SerialInv, OneTokenPerUser, RefreshesItsAccount
<1>5. RefreshRotated'
  BY <1>1 DEF SerialInv, RefreshRotated, TokenGone
<1> QED BY <1>3, <1>4, <1>5 DEF SerialInv

\* So do the other handlers of the process, when their clients wait too.
LEMMA ElsewhereSerial ==
  ASSUME NEW L, SessionsInv(L), SerialInv, NEW r \in Requests, Elsewhere(r, L),
         Alone'
  PROVE  SerialInv'
<1>1. /\ UNCHANGED <<refreshTokens, userId, cookies>>
      /\ \A q \in Requests \ {r} :
           pc'[q] = pc[q] /\ route'[q] = route[q] /\ reply'[q] = reply[q]
      /\ pc'[r] \notin {"insertToken", "setCookies"}
      /\ route'[r] # "refresh"
  BY DEF SessionsInv, RequestsInv, Elsewhere, SessionLabels, SessionRoutes
<1>2. StillNone' /\ OneTokenPerUser'
  BY <1>1 DEF SerialInv, StillNone, OneTokenPerUser, TokensOf
<1>3. RefreshesItsAccount' /\ RefreshRotated'
  BY <1>1 DEF SerialInv, RefreshesItsAccount, RefreshRotated, TokenGone
<1> QED BY <1>2, <1>3 DEF SerialInv

\* Both invariants hold in every reachable state when clients wait.
THEOREM SessionsSerialInvariance ==
  ASSUME ~Overlapping
  PROVE  SessionsSpec => []SerialInv
<1>1. SessionsInit => SerialInv
  BY ServerAssumption DEF SessionsInit, ServerInit, SerialInv, Alone,
     StillNone, OneTokenPerUser, RefreshesItsAccount, RefreshRotated, InFlight,
     AtRest
<1>2. /\ SessionsInv(SessionLabels) /\ SessionsInv(SessionLabels)' /\ SerialInv
      /\ [SessionsNext]_vars
      => SerialInv'
  BY SessionsStepSerial, SessionsEnvironmentSerial DEF SessionsNext
<1> QED BY <1>1, <1>2, SessionsInvariance, PTL DEF SessionsSpec

\* When clients wait, the upserts of storeRefreshToken keep one token per user.
THEOREM SessionsOneToken ==
  ASSUME ~Overlapping
  PROVE  SessionsSpec => []OneTokenPerUser
BY SessionsSerialInvariance, PTL DEF SerialInv

\* A token that is gone from the upsert on is no longer good at the answer.
LEMMA RotatedMeansDead == SerialInv => RotatedTokenIsDead
BY DEF SerialInv, RefreshRotated, TokenGone, RotatedTokenIsDead

\* When clients wait, a refresh token is good for one refresh.
THEOREM SessionsRotated ==
  ASSUME ~Overlapping
  PROVE  SessionsSpec => []RotatedTokenIsDead
<1>1. SerialInv => RotatedTokenIsDead
  BY RotatedMeansDead
<1> QED BY <1>1, SessionsSerialInvariance, PTL

-----------------------------------------------------------------------------
(* The session of a browser whose owner waits and meets no fault.          *)

\* Nobody else creates the account that googleLogin did not find.
Newcomers ==
  \A r \in Requests : pc[r] = "createGoogle" => UsersOf(email[r]) = {}

\* Until its cookies are set, the token of r is the one that is stored.
TokenStored ==
  \A r \in Requests :
    pc[r] = "setCookies" => \E d \in refreshTokens : d.token = r

\* Cookies come in pairs, of which the access token expires first.
JarPairs ==
  \A b \in Browsers :
    /\ jar[b].access = Nil <=> jar[b].refresh = Nil
    /\ jar[b].access # Nil => jar[b].access.exp <= jar[b].refresh.exp

\* A logout past the guard comes with the refresh token of its browser.
SentFromJar ==
  \A r \in Requests :
    /\ pc[r] = "idle" => email[r] = Nil
    /\ cookies[r].access # Nil => cookies[r].refresh # Nil
    /\ pc[r] \in {"deleteToken", "clearCookies"} => cookies[r].access # Nil
    /\ r \in InFlight /\ cookies[r].refresh # Nil =>
         cookies[r].refresh = jar[browser[r]].refresh

PairsInv ==
  Newcomers /\ OneAccountPerUser /\ TokenStored /\ JarPairs /\ SentFromJar

\* All requests of the owner of b come from b, and none has failed.
InOrder(b) ==
  \A r \in Requests :
    email[r] = Owner[b] => /\ browser[r] = b
                           /\ pc[r] # "lost"
                           /\ reply[r] # "serverError"

\* A request of person e is at label l.
Pending(e, l) == \E r \in Requests : email[r] = e /\ pc[r] = l

\* No token of person e is stored.
NoTokens(e) == \A d \in refreshTokens : email[d.token] # e

\* The refresh token that b keeps is the one that is stored, until a response
\* that is on its way to b says otherwise.
MatchesStore(b) ==
  /\ jar[b].refresh # Nil =>
       \/ \E d \in refreshTokens : d.token = jar[b].refresh.token
       \/ Pending(Owner[b], "setCookies") \/ Pending(Owner[b], "clearCookies")
  /\ jar[b].refresh = Nil =>
       NoTokens(Owner[b]) \/ Pending(Owner[b], "setCookies")
  /\ Pending(Owner[b], "clearCookies") => NoTokens(Owner[b])

JarMatchesStore == \A b \in Browsers : InOrder(b) => MatchesStore(b)

\* A step of r moves r along its way, and touches the users only as a first
\* google-login, the jar of its browser only as a response.
LEMMA StepTouches ==
  ASSUME NEW L, SessionsInv(L), NEW r \in Requests,
         SessionsArrival(r) \/ SessionsHandler(r)
  PROVE  /\ users' = users \/ CreateGoogleUser(r)
         /\ jar' = jar \/ SetTokenCookies(r) \/ ClearTokenCookies(r)
         /\ refreshTokens' = refreshTokens
            \/ MatchToken(r) \/ InsertToken(r) \/ DeleteToken(r)
         /\ \A q \in Requests \ {r} : browser'[q] = browser[q]
         /\ SessionsHandler(r) =>
              UNCHANGED <<email, browser, cookies, now>> /\ r \in InFlight
         /\ pc'[r] = "createGoogle" => GoogleFindsUser(r)
         /\ pc'[r] = "setCookies" => MatchToken(r) \/ InsertToken(r)
         /\ pc'[r] = "deleteToken" => Guard(r)
         /\ pc'[r] = "clearCookies" => DeleteToken(r)
         /\ pc'[r] \notin {"idle", "lost"}
         /\ pc'[r] # "replied" => reply'[r] = Nil
<1> USE DEF SessionsInv, RequestsInv, UserKnown, Goto, Reply, InFlight, AtRest
<1>1. CASE SessionsArrival(r)
  BY <1>1 DEF SessionsArrival, Login, GoogleLogin, Refresh, Logout,
     GetUserDetails, Call, Arrive, SessionsHandler, LoginFindsUser,
     ComparePassword, FetchDetails, GoogleFindsUser, CreateGoogleUser,
     RefreshFindsToken, RefreshFindsUser, MatchToken, InsertToken,
     SetTokenCookies, Guard, DeleteToken, ClearTokenCookies, FindDetails,
     OnItsWay
<1>2. CASE LoginFindsUser(r) \/ ComparePassword(r) \/ FetchDetails(r)
  BY <1>2 DEF LoginFindsUser, ComparePassword, FetchDetails, GotoAs,
     sessionVars, OnItsWay
<1>3. CASE GoogleFindsUser(r) \/ CreateGoogleUser(r)
  BY <1>3 DEF GoogleFindsUser, CreateGoogleUser, GotoAs, OnItsWay
<1>4. CASE RefreshFindsToken(r) \/ RefreshFindsUser(r)
  BY <1>4 DEF RefreshFindsToken, RefreshFindsUser, GotoAs, sessionVars,
    OnItsWay
<1>5. CASE MatchToken(r) \/ InsertToken(r) \/ SetTokenCookies(r)
  BY <1>5 DEF MatchToken, InsertToken, SetTokenCookies, OnItsWay
<1>6. CASE Guard(r)
  BY <1>6 DEF Guard, GotoAs, Guarded, OnItsWay
<1>7. CASE DeleteToken(r) \/ ClearTokenCookies(r) \/ FindDetails(r)
  BY <1>7 DEF DeleteToken, ClearTokenCookies, FindDetails, sessionVars,
    OnItsWay
<1> QED
  BY <1>1, <1>2, <1>3, <1>4, <1>5, <1>6, <1>7 DEF SessionsHandler

\* A browser sends its cookies in pairs, or the refresh token alone.
LEMMA SentPairs ==
  ASSUME NEW L, RequestsInv(L), StoreTypeOK, JarPairs, NEW b \in Browsers
  PROVE  /\ Sent(b).access # Nil => Sent(b).refresh # Nil
         /\ Sent(b).refresh # Nil => Sent(b).refresh = jar[b].refresh
<1>1. jar[b] \in Cookies
  BY DEF StoreTypeOK
<1>2. jar[b].access # Nil => jar[b].access.exp \in Nat /\ jar[b].refresh.exp \in Nat
  BY <1>1 DEF Cookies, AccessToken, RefreshCookie, JarPairs
<1> QED BY <1>1, <1>2 DEF Sent, Live, JarPairs, RequestsInv

\* The steps of clients that wait keep accounts single and cookies in pairs.
LEMMA PairsStep ==
  ASSUME ~Overlapping, NEW L, SessionsInv(L), SessionsInv(L)', SerialInv, PairsInv,
         NEW r \in Requests, SessionsArrival(r) \/ SessionsHandler(r)
  PROVE  PairsInv'
<1>1. /\ pc[r] \notin {"replied", "lost"}
      /\ \A q \in Requests \ {r} :
           /\ pc'[q] = pc[q] /\ route'[q] = route[q] /\ email'[q] = email[q]
           /\ reply'[q] = reply[q] /\ userId'[q] = userId[q]
           /\ cookies'[q] = cookies[q] /\ browser'[q] = browser[q]
  BY StepIsLocal, StepTouches
<1>2. Newcomers' /\ OneAccountPerUser'
  <2>1. CASE CreateGoogleUser(r)
    <3>1. /\ users' = users \union {[id |-> r, email |-> email[r]]}
          /\ UsersOf(email[r]) = {} /\ pc'[r] = "matchToken"
          /\ email' = email /\ r \in InFlight
      BY <2>1 DEF CreateGoogleUser, GotoAs, Goto, PairsInv, Newcomers,
         SessionsInv, RequestsInv, InFlight, AtRest
    <3>2. OneAccountPerUser'
      BY <3>1 DEF PairsInv, OneAccountPerUser, UsersOf
    <3>3. Newcomers'
      BY <1>1, <3>1 DEF PairsInv, Newcomers, UsersOf, SerialInv, Alone,
         InFlight, AtRest
    <3> QED BY <3>2, <3>3
  <2>2. CASE users' = users
    <3>1. pc'[r] = "createGoogle" => UsersOf(email'[r]) = {}
      <4>1. SUFFICES ASSUME GoogleFindsUser(r), pc'[r] = "createGoogle"
                     PROVE  UsersOf(email'[r]) = {}
        BY StepTouches
      <4> QED
        BY <4>1 DEF GoogleFindsUser, GotoAs, Goto, SessionsInv, RequestsInv
    <3> QED
      BY <1>1, <2>2, <3>1 DEF PairsInv, Newcomers, OneAccountPerUser, UsersOf
  <2> QED BY <2>1, <2>2, StepTouches
<1>3. TokenStored'
  <2>1. ASSUME NEW q \in Requests, pc'[q] = "setCookies", q # r,
               NEW d \in refreshTokens, d.token = q
        PROVE  \E c \in refreshTokens' : c.token = q
    <3>1. pc[q] = "setCookies" /\ q \in InFlight /\ userId[q] = d.userId
      BY <1>1, <2>1 DEF SessionsInv, StoredTokens, InFlight, AtRest
    <3>2. CASE MatchToken(r)
      <4>1. r \in InFlight /\ userId[r] # Nil
        BY <3>2 DEF MatchToken, InFlight, AtRest, SessionsInv, UserKnown,
           ActsForUser
      <4>2. userId[q] # userId[r]
        BY <2>1, <3>1, <4>1, AccountsApart DEF SerialInv
      <4> QED BY <2>1, <3>1, <3>2, <4>2 DEF MatchToken, Matches, TokensOf
    <3>3. CASE InsertToken(r)
      BY <2>1, <3>3 DEF InsertToken
    <3>4. CASE DeleteToken(r)
      <4>1. cookies[r].refresh # Nil => pc[cookies[r].refresh.token] = "replied"
        BY DEF SessionsInv, CookiesOfOwner, CookiesBelongTo
      <4> QED BY <2>1, <3>1, <3>4, <4>1 DEF DeleteToken
    <3> QED BY <2>1, <3>2, <3>3, <3>4, StepTouches
  <2>2. pc'[r] = "setCookies" => \E c \in refreshTokens' : c.token = r
    <3>1. ASSUME MatchToken(r), pc'[r] = "setCookies"
          PROVE  \E c \in refreshTokens' : c.token = r
      <4>1. PICK d : NewToken(r, d.id, d.userId) \in refreshTokens'
        BY <3>1 DEF MatchToken, Goto, SessionsInv, RequestsInv
      <4>2. NewToken(r, d.id, d.userId).token = r
        BY DEF NewToken
      <4> QED BY <4>1, <4>2
    <3>2. ASSUME InsertToken(r)
          PROVE  \E c \in refreshTokens' : c.token = r
      <4>1. NewToken(r, r, userId[r]) \in refreshTokens'
        BY <3>2 DEF InsertToken
      <4>2. NewToken(r, r, userId[r]).token = r
        BY DEF NewToken
      <4> QED BY <4>1, <4>2
    <3> QED BY <3>1, <3>2, StepTouches
  <2> QED BY <1>1, <2>1, <2>2 DEF PairsInv, TokenStored
<1>4. JarPairs'
  <2>1. CASE SetTokenCookies(r)
    <3> DEFINE access == [userId |-> userId[r], exp |-> now + AccessLifetime]
               refresh == [token |-> r, exp |-> now + RefreshLifetime]
    <3>1. access \in AccessToken /\ refresh \in RefreshCookie
      <4>1. userId[r] \in Requests \union Emails
        BY <2>1 DEF SetTokenCookies, SessionsInv, UserKnown, ActsForUser,
           StoreTypeOK, UserDoc
      <4>2. now \in Nat
        BY ServerAssumption DEF SessionsInv, RequestsInv
      <4> QED
        BY <4>1, <4>2, SessionsAssumption DEF AccessToken, RefreshCookie
    <3>2. access # Nil /\ refresh # Nil
      BY <3>1, SessionsDocsAssumption
    <3>3. now + AccessLifetime <= now + RefreshLifetime
      BY ServerAssumption, SessionsAssumption DEF SessionsInv, RequestsInv
    <3>4. \A b \in Browsers :
            jar'[b] = jar[b] \/ jar'[b] = [access |-> access, refresh |-> refresh]
      BY <2>1 DEF SetTokenCookies, SessionsInv, StoreTypeOK
    <3> QED BY <3>2, <3>3, <3>4 DEF PairsInv, JarPairs
  <2>2. CASE ClearTokenCookies(r)
    BY <2>2 DEF ClearTokenCookies, NoCookies, PairsInv, JarPairs, SessionsInv,
       StoreTypeOK
  <2> QED BY <2>1, <2>2, StepTouches DEF PairsInv, JarPairs
<1>5. SentFromJar'
  <2>1. CASE SessionsArrival(r)
    <3>1. PICK b \in Browsers :
            \E rt \in Routes, l \in SessionLabels \ {"deleteToken", "clearCookies"} :
              Call(r, b, rt, l)
      BY <2>1 DEF SessionsArrival, Login, GoogleLogin, Refresh, Logout,
         GetUserDetails, SessionLabels, Arrive, Call
    <3>2. /\ cookies'[r] = Sent(b) /\ browser'[r] = b /\ jar' = jar
          /\ pc'[r] \notin {"idle", "deleteToken", "clearCookies"}
      BY <3>1 DEF Call, Arrive, SessionsInv, RequestsInv, SessionLabels
    <3>3. /\ Sent(b).access # Nil => Sent(b).refresh # Nil
          /\ Sent(b).refresh # Nil => Sent(b).refresh = jar[b].refresh
      BY SentPairs DEF SessionsInv, PairsInv
    <3> QED BY <1>1, <3>2, <3>3 DEF PairsInv, SentFromJar, InFlight, AtRest
  <2>2. CASE SessionsHandler(r)
    <3>1. /\ UNCHANGED <<email, browser, cookies>> /\ r \in InFlight
          /\ pc'[r] # "idle"
          /\ pc'[r] = "deleteToken" => Guard(r)
          /\ pc'[r] = "clearCookies" => DeleteToken(r)
      BY <2>2, StepTouches
    <3>2. pc'[r] \in {"deleteToken", "clearCookies"} => cookies[r].access # Nil
      <4>1. CASE Guard(r) /\ pc'[r] = "deleteToken"
        BY <4>1 DEF Guard, Reply, SessionsInv, RequestsInv
      <4>2. CASE DeleteToken(r)
        BY <4>2 DEF DeleteToken, PairsInv, SentFromJar
      <4> QED BY <3>1, <4>1, <4>2
    <3>3. ASSUME NEW q \in Requests, pc'[q] \notin AtRest,
                 cookies[q].refresh # Nil
          PROVE  cookies[q].refresh = jar'[browser[q]].refresh
      <4>1. q \in InFlight /\ cookies[q].refresh = jar[browser[q]].refresh
        BY <1>1, <3>1, <3>3 DEF PairsInv, SentFromJar, InFlight
      <4>2. CASE jar' = jar
        BY <4>1, <4>2
      <4>3. CASE SetTokenCookies(r) \/ ClearTokenCookies(r)
        <5>1. /\ pc'[r] = "replied"
              /\ \A b \in Browsers : b # browser[r] => jar'[b] = jar[b]
          BY <4>3 DEF SetTokenCookies, ClearTokenCookies, Reply, SessionsInv,
             RequestsInv, StoreTypeOK
        <5>2. q # r /\ email[q] # email[r]
          BY <3>1, <3>3, <4>1, <5>1 DEF AtRest, SerialInv, Alone
        <5>3. browser[q] # browser[r] /\ browser[q] \in Browsers
          <6>1. email[q] = Owner[browser[q]] /\ browser[q] \in Browsers
            BY <3>3, <4>1 DEF SessionsInv, Arrived, NoCookies, InFlight, AtRest
          <6>2. email[r] = Owner[browser[r]]
            BY <2>2, FromItsBrowser
          <6> QED BY <5>2, <6>1, <6>2
        <5> QED BY <4>1, <5>1, <5>3
      <4> QED BY <4>2, <4>3, StepTouches
    <3> QED BY <1>1, <3>1, <3>2, <3>3 DEF PairsInv, SentFromJar, InFlight
  <2> QED BY <2>1, <2>2
<1> QED BY <1>2, <1>3, <1>4, <1>5 DEF PairsInv

\* What is done for others leaves the session of b as it is.
LEMMA Unconcerned ==
  ASSUME NEW b \in Browsers, MatchesStore(b), jar'[b] = jar[b],
         Pending(Owner[b], "setCookies")' <=> Pending(Owner[b], "setCookies"),
         Pending(Owner[b], "clearCookies")' <=> Pending(Owner[b], "clearCookies"),
         NoTokens(Owner[b]) => NoTokens(Owner[b])',
         jar[b].refresh # Nil =>
           \A d \in refreshTokens :
             d.token = jar[b].refresh.token => d \in refreshTokens'
  PROVE  MatchesStore(b)'
BY DEF MatchesStore

\* Requests that act for one account are of one person.
LEMMA AccountOfOne ==
  ASSUME NEW L, SessionsInv(L), NEW q \in Requests, NEW r \in Requests,
         userId[q] = userId[r], userId[r] # Nil
  PROVE  email[q] = email[r]
BY DEF SessionsInv, ActsForOwner, AccountsCreated, BelongsTo, UsersOf

\* When clients wait, a person has at most one refresh token.
LEMMA TokenOfOne ==
  ASSUME NEW L, SessionsInv(L), SerialInv, PairsInv,
         NEW d \in refreshTokens, NEW c \in refreshTokens,
         email[d.token] = email[c.token]
  PROVE  d = c
<1>1. /\ d.token \in Requests /\ c.token \in Requests
      /\ userId[d.token] = d.userId /\ userId[c.token] = c.userId
      /\ d.userId # Nil /\ c.userId # Nil
  BY ServerAssumption, SessionsAssumption DEF SessionsInv, StoreTypeOK,
     TokenDoc, StoredTokens
<1>2. d.userId = c.userId
  BY <1>1 DEF SessionsInv, ActsForOwner, BelongsTo, UsersOf, PairsInv,
     OneAccountPerUser
<1> QED BY <1>2 DEF SerialInv, OneTokenPerUser

\* Each response leaves its browser with the token that the server has.
LEMMA JarStep ==
  ASSUME ~Overlapping, NEW L, SessionsInv(L), SessionsInv(L)', SerialInv,
         PairsInv, PairsInv',
         JarMatchesStore,
         NEW r \in Requests, SessionsArrival(r) \/ SessionsHandler(r)
  PROVE  JarMatchesStore'
<1> SUFFICES ASSUME NEW b \in Browsers, InOrder(b)'
             PROVE  MatchesStore(b)'
  BY DEF JarMatchesStore
<1>1. /\ pc[r] \notin {"replied", "lost"}
      /\ \A q \in Requests \ {r} :
           /\ pc'[q] = pc[q] /\ email'[q] = email[q] /\ reply'[q] = reply[q]
           /\ browser'[q] = browser[q]
  BY StepIsLocal, StepTouches
<1>2. Owner[b] \in Emails /\ Owner[b] # Nil
  BY SessionsAssumption, ServerAssumption
<1>3. ASSUME NEW q \in Requests, pc[q] # "idle"
      PROVE  email'[q] = email[q] /\ browser'[q] = browser[q]
  <2>1. CASE q # r
    BY <1>1, <2>1
  <2>2. CASE q = r
    <3>1. SessionsHandler(r)
      BY <1>3, <2>2 DEF SessionsArrival, Login, GoogleLogin, Refresh, Logout,
         GetUserDetails, Call, Arrive
    <3> QED BY <2>2, <3>1, StepTouches
  <2> QED BY <2>1, <2>2
<1>4. InOrder(b)
  <2> SUFFICES ASSUME NEW q \in Requests, email[q] = Owner[b]
               PROVE  /\ browser[q] = b /\ pc[q] # "lost"
                      /\ reply[q] # "serverError"
    BY DEF InOrder
  <2>1. pc[q] # "idle"
    BY <1>2 DEF PairsInv, SentFromJar
  <2>2. email'[q] = Owner[b] /\ browser[q] = b
    BY <1>3, <2>1 DEF InOrder
  <2>3. CASE q # r
    BY <1>1, <2>2, <2>3 DEF InOrder
  <2>4. CASE q = r
    <3>1. reply[r] = Nil /\ "serverError" # Nil
      BY <1>1, ServerAssumption DEF SessionsInv, OnItsWay, Outcomes
    <3> QED BY <1>1, <2>2, <2>4, <3>1
  <2> QED BY <2>3, <2>4
<1>5. MatchesStore(b)
  BY <1>4 DEF JarMatchesStore
<1>6. \A d \in refreshTokens :
        /\ d.token \in Requests /\ userId[d.token] = d.userId
        /\ email'[d.token] = email[d.token]
  BY <1>3 DEF SessionsInv, StoreTypeOK, TokenDoc, StoredTokens
<1>7. /\ jar[b].refresh # Nil => email[jar[b].refresh.token] = Owner[b]
      /\ \A q \in Requests : cookies[q].refresh # Nil =>
           email[cookies[q].refresh.token] = email[q]
  BY DEF SessionsInv, CookiesOfOwner, CookiesBelongTo
<1>8. CASE /\ jar' = jar /\ refreshTokens' = refreshTokens
           /\ pc[r] \notin {"setCookies", "clearCookies"}
           /\ pc'[r] \notin {"setCookies", "clearCookies"}
  <2>1. \A l \in {"setCookies", "clearCookies"} :
          Pending(Owner[b], l)' <=> Pending(Owner[b], l)
    BY <1>1, <1>8 DEF Pending
  <2>2. NoTokens(Owner[b]) => NoTokens(Owner[b])'
    BY <1>6, <1>8 DEF NoTokens
  <2> QED BY <1>5, <1>8, <2>1, <2>2, Unconcerned
<1>9. CASE SessionsHandler(r) /\ email[r] # Owner[b]
  <2>1. email' = email /\ r \in InFlight
    BY <1>9, StepTouches
  <2>2. \A l \in {"setCookies", "clearCookies"} :
          Pending(Owner[b], l)' <=> Pending(Owner[b], l)
    BY <1>1, <1>9, <2>1 DEF Pending
  <2>3. jar'[b] = jar[b]
    <3>1. browser[r] # b
      BY <1>9, FromItsBrowser
    <3> QED
      BY <3>1, StepTouches DEF SetTokenCookies, ClearTokenCookies, SessionsInv,
         StoreTypeOK
  <2>4. /\ \A d \in refreshTokens : email[d.token] = Owner[b] => d \in refreshTokens'
        /\ \A d \in refreshTokens' : d \in refreshTokens \/ d.token = r
    <3>1. CASE MatchToken(r)
      <4>1. ASSUME NEW d \in refreshTokens, d.userId = userId[r]
            PROVE  email[d.token] = email[r]
        <5>1. userId[r] # Nil
          BY <3>1 DEF MatchToken, SessionsInv, UserKnown, ActsForUser
        <5> QED BY <1>6, <4>1, <5>1, AccountOfOne
      <4> QED
        BY <1>9, <3>1, <4>1 DEF MatchToken, Matches, TokensOf, NewToken
    <3>2. CASE InsertToken(r)
      BY <3>2 DEF InsertToken, NewToken
    <3>3. CASE DeleteToken(r)
      BY <1>7, <1>9, <3>3 DEF DeleteToken
    <3> QED BY <3>1, <3>2, <3>3, StepTouches
  <2>5. NoTokens(Owner[b]) => NoTokens(Owner[b])'
    BY <1>9, <2>1, <2>4 DEF NoTokens
  <2> QED BY <1>5, <1>7, <2>2, <2>3, <2>4, <2>5, Unconcerned
<1>10. CASE SessionsHandler(r) /\ email[r] = Owner[b]
  <2>1. email' = email /\ r \in InFlight /\ browser[r] = b
    BY <1>4, <1>10, StepTouches DEF InOrder
  <2>2. \A q \in Requests : /\ email[q] = Owner[b]
                           /\ pc'[q] \in {"setCookies", "clearCookies"} => q = r
    BY <1>1, <1>10, <2>1 DEF SerialInv, Alone, InFlight, AtRest
  <2>3. CASE MatchToken(r) \/ InsertToken(r)
    <3>1. CASE pc'[r] = "setCookies"
      <4>1. Pending(Owner[b], "setCookies")'
        BY <1>10, <2>1, <3>1 DEF Pending
      <4>2. ~Pending(Owner[b], "clearCookies")'
        BY <2>1, <2>2, <3>1 DEF Pending
      <4> QED BY <4>1, <4>2 DEF MatchesStore
    <3>2. CASE pc'[r] # "setCookies"
      BY <1>8, <2>3, <3>2 DEF MatchToken, InsertToken, Goto, SessionsInv,
         RequestsInv
    <3> QED BY <3>1, <3>2
  <2>4. CASE DeleteToken(r)
    <3>1. pc[r] = "deleteToken" /\ pc'[r] = "clearCookies" /\ jar' = jar
      BY <2>4 DEF DeleteToken, Goto, SessionsInv, RequestsInv
    <3>2. cookies[r].refresh # Nil /\ cookies[r].refresh = jar[b].refresh
      BY <2>1, <3>1 DEF PairsInv, SentFromJar
    <3>3. Pending(Owner[b], "clearCookies")'
      BY <1>10, <2>1, <3>1 DEF Pending
    <3>4. \E d \in refreshTokens : d.token = cookies[r].refresh.token
      <4>1. \A q \in Requests :
              email[q] = Owner[b] => pc[q] \notin {"setCookies", "clearCookies"}
        BY <1>10, <2>1, <3>1 DEF SerialInv, Alone, InFlight, AtRest
      <4> QED BY <1>5, <3>2, <4>1 DEF MatchesStore, Pending
    <3>5. PICK d \in refreshTokens : d.token = cookies[r].refresh.token
                                   /\ refreshTokens' = refreshTokens \ {d}
      BY <2>4, <3>2, <3>4 DEF DeleteToken
    <3>6. email[d.token] = Owner[b]
      BY <1>7, <1>10, <3>2, <3>5
    <3>7. NoTokens(Owner[b])'
      BY <2>1, <3>5, <3>6, TokenOfOne DEF NoTokens
    <3> QED BY <3>1, <3>2, <3>3, <3>7 DEF MatchesStore
  <2>5. CASE SetTokenCookies(r)
    <3>1. /\ pc[r] = "setCookies" /\ pc'[r] = "replied"
          /\ refreshTokens' = refreshTokens
          /\ jar'[b].access = [userId |-> userId[r], exp |-> now + AccessLifetime]
          /\ jar'[b].refresh.token = r
      BY <2>1, <2>5 DEF SetTokenCookies, Reply, SessionsInv, RequestsInv,
         StoreTypeOK
    <3>2. \E d \in refreshTokens' : d.token = r
      BY <3>1 DEF PairsInv, TokenStored
    <3>3. jar'[b].access # Nil
      <4>1. userId[r] \in Requests \union Emails
        BY <3>1 DEF SessionsInv, UserKnown, ActsForUser, StoreTypeOK, UserDoc
      <4>2. now + AccessLifetime \in Nat
        BY ServerAssumption, SessionsAssumption DEF SessionsInv,
           RequestsInv
      <4>3. jar'[b].access \in AccessToken
        BY <3>1, <4>1, <4>2 DEF AccessToken
      <4> QED BY <4>3, SessionsDocsAssumption
    <3>4. jar'[b].refresh # Nil
      BY <3>3 DEF PairsInv, JarPairs
    <3>5. ~Pending(Owner[b], "clearCookies")'
      BY <2>1, <2>2, <3>1 DEF Pending
    <3> QED BY <3>1, <3>2, <3>4, <3>5 DEF MatchesStore
  <2>6. CASE ClearTokenCookies(r)
    <3>1. /\ pc[r] = "clearCookies" /\ refreshTokens' = refreshTokens
          /\ jar'[b].refresh = Nil
      BY <2>1, <2>6 DEF ClearTokenCookies, NoCookies, SessionsInv,
         StoreTypeOK
    <3>2. NoTokens(Owner[b])
      BY <1>5, <1>10, <3>1 DEF MatchesStore, Pending
    <3>3. NoTokens(Owner[b])'
      BY <2>1, <3>1, <3>2 DEF NoTokens
    <3> QED BY <3>1, <3>3 DEF MatchesStore
  <2>7. CASE ~(\/ MatchToken(r) \/ InsertToken(r) \/ DeleteToken(r)
               \/ SetTokenCookies(r) \/ ClearTokenCookies(r))
    <3>1. pc[r] \notin {"setCookies", "clearCookies"}
      BY <1>10, <2>7 DEF SessionsHandler, LoginFindsUser, ComparePassword,
         FetchDetails, GoogleFindsUser, CreateGoogleUser, RefreshFindsToken,
         RefreshFindsUser, MatchToken, InsertToken, Guard, DeleteToken,
         FindDetails
    <3> QED BY <1>8, <2>7, <3>1, StepTouches
  <2> QED BY <2>3, <2>4, <2>5, <2>6, <2>7
<1>11. CASE SessionsArrival(r)
  <2>1. /\ jar' = jar /\ refreshTokens' = refreshTokens /\ pc[r] = "idle"
        /\ pc'[r] \notin {"setCookies", "clearCookies"}
    BY <1>11 DEF SessionsArrival, Login, GoogleLogin, Refresh, Logout,
       GetUserDetails, Call, Arrive, SessionsInv, RequestsInv
  <2> QED BY <1>8, <2>1
<1> QED BY <1>9, <1>10, <1>11

\* Faults, the clock and the admin leave accounts, cookies and tokens alone.
LEMMA JarEnvironment ==
  ASSUME NEW L, SessionsInv(L), PairsInv, JarMatchesStore,
         \/ \E u \in users, action \in {"block", "unblock"} :
              UpdateStatus(u, action)
         \/ Environment /\ UNCHANGED sessionVars
         \/ UNCHANGED vars
  PROVE  PairsInv' /\ JarMatchesStore'
<1>1. /\ UNCHANGED <<users, refreshTokens, jar, browser, cookies, email>>
      /\ \A r \in Requests :
           \/ pc'[r] = pc[r] /\ reply'[r] = reply[r]
           \/ /\ pc[r] \notin AtRest
              /\ pc'[r] \in {"replied", "lost"}
              /\ \/ pc'[r] = "lost" \/ reply'[r] = "serverError"
                 \/ pc[r] = "guard"
  BY DEF UpdateStatus, Environment, Fail, Reply, Crash, Tick, Rest, serverVars,
     sessionVars, vars, InFlight, AtRest, SessionsInv, RequestsInv
<1>2. PairsInv'
  <2>1. Newcomers' /\ OneAccountPerUser' /\ TokenStored' /\ JarPairs'
    BY <1>1 DEF PairsInv, Newcomers, OneAccountPerUser, TokenStored, JarPairs,
       UsersOf
  <2>2. SentFromJar'
    BY <1>1 DEF PairsInv, SentFromJar, InFlight, AtRest
  <2> QED BY <2>1, <2>2 DEF PairsInv
<1>3. ASSUME NEW b \in Browsers, InOrder(b)'
      PROVE  MatchesStore(b)'
  <2>1. \A r \in Requests : email[r] = Owner[b] =>
          \/ pc'[r] = pc[r] /\ reply'[r] = reply[r]
          \/ pc[r] = "guard" /\ pc'[r] = "replied"
    BY <1>1, <1>3 DEF InOrder
  <2>2. InOrder(b)
    <3>1. \A r \in Requests : pc[r] = "guard" => reply[r] = Nil /\ Nil # "serverError"
      BY ServerAssumption DEF SessionsInv, OnItsWay, Outcomes
    <3> QED BY <1>1, <1>3, <2>1, <3>1 DEF InOrder
  <2>3. \A l \in {"setCookies", "clearCookies"} :
          Pending(Owner[b], l)' <=> Pending(Owner[b], l)
    BY <1>1, <2>1 DEF Pending
  <2>4. NoTokens(Owner[b]) => NoTokens(Owner[b])'
    BY <1>1 DEF NoTokens
  <2> QED BY <1>1, <2>2, <2>3, <2>4, Unconcerned DEF JarMatchesStore
<1> QED BY <1>2, <1>3 DEF JarMatchesStore

\* Both hold in every reachable state when clients wait.
THEOREM SessionsJarInvariance ==
  ASSUME ~Overlapping
  PROVE  SessionsSpec => [](PairsInv /\ JarMatchesStore)
<1>1. SessionsInit => PairsInv /\ JarMatchesStore
  <2> SUFFICES ASSUME SessionsInit
               PROVE  PairsInv /\ JarMatchesStore
    OBVIOUS
  <2> USE DEF SessionsInit, ServerInit
  <2>1. Newcomers /\ TokenStored
    BY DEF Newcomers, TokenStored
  <2>2. OneAccountPerUser
    BY DEF OneAccountPerUser
  <2>3. JarPairs /\ SentFromJar
    BY DEF JarPairs, SentFromJar, NoCookies
  <2>4. JarMatchesStore
    BY DEF JarMatchesStore, MatchesStore, NoTokens, Pending, NoCookies
  <2> QED BY <2>1, <2>2, <2>3, <2>4 DEF PairsInv
<1>2. /\ SessionsInv(SessionLabels) /\ SessionsInv(SessionLabels)'
      /\ SerialInv /\ SerialInv'
      /\ PairsInv /\ JarMatchesStore /\ [SessionsNext]_vars
      => PairsInv' /\ JarMatchesStore'
  BY PairsStep, JarStep, JarEnvironment DEF SessionsNext
<1> QED
  BY <1>1, <1>2, SessionsInvariance, SessionsSerialInvariance, PTL
  DEF SessionsSpec

\* When clients wait, googleLogin gives nobody a second account.
THEOREM SessionsOneAccount ==
  ASSUME ~Overlapping
  PROVE  SessionsSpec => []OneAccountPerUser
BY SessionsJarInvariance, PTL DEF PairsInv

\* When clients wait, a browser that was answered without a fault keeps the
\* refresh token that the server has.
THEOREM SessionsSurvive ==
  ASSUME ~Overlapping
  PROVE  SessionsSpec => []SessionSurvives
<1>1. ASSUME JarMatchesStore
      PROVE  SessionSurvives
  <2> SUFFICES ASSUME NEW b \in Browsers, Undisturbed(b), jar[b].refresh # Nil
               PROVE  \E d \in refreshTokens : d.token = jar[b].refresh.token
    BY DEF SessionSurvives
  <2>1. InOrder(b) /\ \A l \in {"setCookies", "clearCookies"} : ~Pending(Owner[b], l)
    BY DEF Undisturbed, InOrder, Pending
  <2> QED BY <1>1, <2>1 DEF JarMatchesStore, MatchesStore
<1> QED BY <1>1, SessionsJarInvariance, PTL

\* When clients wait, a browser that has logged out without a fault leaves no
\* refresh token of its owner on the server.
THEOREM SessionsLogoutEnds ==
  ASSUME ~Overlapping
  PROVE  SessionsSpec => []LogoutEndsSession
<1>1. ASSUME SessionsInv(SessionLabels), JarMatchesStore
      PROVE  LogoutEndsSession
  <2> SUFFICES ASSUME NEW b \in Browsers, Undisturbed(b), jar[b].refresh = Nil,
                      NEW u \in UsersOf(Owner[b]), NEW d \in TokensOf(u.id)
               PROVE  FALSE
    BY DEF LogoutEndsSession
  <2>1. InOrder(b) /\ ~Pending(Owner[b], "setCookies")
    BY DEF Undisturbed, InOrder, Pending
  <2>2. email[d.token] # Owner[b]
    BY <1>1, <2>1 DEF JarMatchesStore, MatchesStore, NoTokens, TokensOf
  <2>3. /\ d.token \in Requests /\ userId[d.token] = u.id /\ u.id # Nil
        /\ u \in users /\ u.email = Owner[b]
    BY <1>1, ServerAssumption, SessionsAssumption DEF SessionsInv, StoreTypeOK,
       TokenDoc, UserDoc, StoredTokens, TokensOf, UsersOf
  <2> QED
    BY <1>1, <2>2, <2>3 DEF SessionsInv, ActsForOwner, AccountsCreated,
       BelongsTo, UsersOf
<1> QED BY <1>1, SessionsJarInvariance, SessionsInvariance, PTL
=============================================================================
