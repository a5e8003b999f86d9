--------------------------- MODULE SessionsProofs ---------------------------
(***************************************************************************)
(* What TLAPS proves about Sessions for any number of requests, people and *)
(* browsers, overlapping and failing in any way.                           *)
(***************************************************************************)
EXTENDS Sessions, TLAPS

-----------------------------------------------------------------------------
(* The inductive invariant.  It leaves room for handlers of other          *)
(* endpoints, which are at labels of L.                                    *)

\* The shapes of RequestsTypeOK, with other labels.
RequestsInv(L) ==
  /\ SessionLabels \subseteq L
  /\ pc \in [Requests -> AtRest \union L]
  /\ route \in [Requests -> Routes \union {Nil}]
  /\ email \in [Requests -> Emails \union {Nil}]
  /\ reply \in [Requests -> Outcomes \union {Nil}]
  /\ now \in 0..MaxTime
  /\ dated \in [Requests -> 0..MaxTime]
  /\ browser \in [Requests -> Browsers \union {Nil}]
  /\ cookies \in [Requests -> Cookies]
  /\ barred \in [Requests -> BOOLEAN]

SessionRoutes == {"login", "google-login", "refresh", "logout", "getUserDetails"}

\* A request that has arrived acts for the owner of its browser, and those of
\* other endpoints have no part in this.
Arrived ==
  \A r \in Requests :
    IF pc[r] # "idle" /\ route[r] \in SessionRoutes
    THEN browser[r] \in Browsers /\ email[r] = Owner[browser[r]]
    ELSE userId[r] = Nil /\ cookies[r] = NoCookies /\ ~barred[r]

TokenRoutes == {"login", "google-login", "refresh"}

\* A handler is at the steps of its endpoint, and has replied only at the end.
OnItsWay ==
  \A r \in Requests :
    /\ pc[r] \in {"findUser", "compare"} => route[r] = "login"
    /\ pc[r] \in {"fetchDetails", "findGoogle", "createGoogle"} =>
         route[r] = "google-login"
    /\ pc[r] \in {"findToken", "findTokenUser"} => route[r] = "refresh"
    /\ pc[r] \in {"matchToken", "insertToken", "setCookies"} =>
         route[r] \in TokenRoutes
    /\ pc[r] = "guard" => route[r] \in DOMAIN Guarded
    /\ pc[r] \in {"deleteToken", "clearCookies"} => route[r] = "logout"
    /\ pc[r] = "findDetails" => route[r] = "getUserDetails"
    /\ pc[r] # "replied" => reply[r] = Nil

\* The account a request created is its own: nobody can have named one so.
AccountsCreated ==
  /\ \A u \in users : u.id \in Requests =>
       pc[u.id] \notin {"idle", "fetchDetails", "findGoogle", "createGoogle"}
  /\ \A u, v \in users : u.id = v.id => u = v

ActsForOwner ==
  \A r \in Requests : userId[r] # Nil => BelongsTo(userId[r], email[r])

\* The cookies k are of the person with address e.
CookiesBelongTo(k, e) ==
  /\ k.access # Nil => BelongsTo(k.access.userId, e)
  /\ k.refresh # Nil => /\ pc[k.refresh.token] = "replied"
                        /\ email[k.refresh.token] = e

CookiesOfOwner ==
  /\ \A b \in Browsers : CookiesBelongTo(jar[b], Owner[b])
  /\ \A r \in Requests : CookiesBelongTo(cookies[r], email[r])

\* A stored token was put there by the request that names it, for the account
\* that request acts for.
StoredTokens ==
  /\ \A d \in refreshTokens :
       /\ pc[d.token] \in {"setCookies", "replied", "lost"}
       /\ userId[d.token] = d.userId
  /\ \A d, c \in refreshTokens : d.token = c.token => d = c

\* From the delete of a logout on, its token is gone for good.
LogoutDeleted ==
  \A r \in Requests :
    /\ cookies[r].refresh # Nil
    /\ pc[r] = "clearCookies" \/ (route[r] = "logout" /\ reply[r] = "ok")
    => \A d \in refreshTokens : d.token # cookies[r].refresh.token

\* While it is barred, a request is not let past the check of its endpoint.
BarredGetsNowhere ==
  \A r \in Requests :
    barred[r] =>
      /\ IsBlocked(email[r])
      /\ route[r] \notin {"refresh", "google-login"} =>
           pc[r] \notin ActsForUser /\ reply[r] # "ok"

SessionsInv(L) ==
  /\ RequestsInv(L)
  /\ StoreTypeOK
  /\ UserKnown
  /\ Arrived
  /\ OnItsWay
  /\ AccountsCreated
  /\ ActsForOwner
  /\ CookiesOfOwner
  /\ StoredTokens
  /\ LogoutDeleted
  /\ BarredGetsNowhere

-----------------------------------------------------------------------------
(* Every step keeps the invariant.                                       *)

\* The first state satisfies the invariant: no request, no cookie, no token.
LEMMA SessionsInitInv == SessionsInit => SessionsInv(SessionLabels)
<1> SUFFICES ASSUME SessionsInit
             PROVE  SessionsInv(SessionLabels)
  OBVIOUS
<1> USE ServerAssumption, SessionsAssumption DEF SessionsInit, ServerInit
<1>1. RequestsInv(SessionLabels)
  BY DEF RequestsInv, AtRest, Cookies, NoCookies
<1>2. StoreTypeOK
  BY DEF StoreTypeOK, UserDoc, Cookies, NoCookies
<1>3. UserKnown
  BY DEF UserKnown, ActsForUser
<1>4. Arrived /\ OnItsWay
  BY DEF Arrived, OnItsWay
<1>5. AccountsCreated
  BY DEF AccountsCreated
<1>6. ActsForOwner
  BY DEF ActsForOwner
<1>7. CookiesOfOwner
  BY DEF CookiesOfOwner, CookiesBelongTo, NoCookies
<1>8. StoredTokens
  BY DEF StoredTokens
<1>9. LogoutDeleted
  BY DEF LogoutDeleted
<1>10. BarredGetsNowhere
  BY DEF BarredGetsNowhere
<1> QED BY <1>1, <1>2, <1>3, <1>4, <1>5, <1>6, <1>7, <1>8, <1>9, <1>10 DEF
   SessionsInv

\* The cookies a browser sends are among those it holds.
LEMMA SentCookies ==
  ASSUME NEW L, NEW b \in Browsers, RequestsInv(L), StoreTypeOK
  PROVE  /\ Sent(b) \in Cookies
         /\ CookiesBelongTo(jar[b], Owner[b]) =>
              CookiesBelongTo(Sent(b), Owner[b])
<1>1. jar[b] \in Cookies
  BY DEF StoreTypeOK
<1>2. /\ Live(jar[b].access) \in {jar[b].access, Nil}
      /\ Live(jar[b].refresh) \in {jar[b].refresh, Nil}
  BY DEF Live
<1>3. Sent(b) \in Cookies
  BY <1>1, <1>2 DEF Sent, Cookies
<1> QED
  BY <1>2, <1>3 DEF Sent, CookiesBelongTo

\* Every arrival and every step of a handler keeps the invariant.
LEMMA SessionsStepInv ==
  ASSUME NEW L, SessionsInv(L), NEW r \in Requests,
         SessionsArrival(r) \/ SessionsHandler(r)
  PROVE  SessionsInv(L)'
<1> USE ServerAssumption, SessionsAssumption DEF SessionsInv
<1>1. CASE SessionsArrival(r)
  <2> USE <1>1 DEF SessionsArrival, Login, GoogleLogin, Refresh, Logout,
     GetUserDetails, Call,
     Arrive
  <2>1. RequestsInv(L)'
    <3>1. PICK b \in Browsers :
            \E rt \in Routes, l \in SessionLabels : Call(r, b, rt, l)
      BY DEF SessionLabels
    <3>2. Sent(b) \in Cookies
      BY SentCookies
    <3>3. IsBlocked(Owner[b]) \in BOOLEAN
      BY DEF IsBlocked
    <3> QED
      BY <3>1, <3>2, <3>3 DEF RequestsInv
  <2>2. StoreTypeOK'
    BY DEF StoreTypeOK
  <2>3. UserKnown'
    BY DEF RequestsInv, UserKnown, ActsForUser
  <2>4. Arrived' /\ OnItsWay'
    BY DEF Arrived, SessionRoutes, OnItsWay, Guarded, RequestsInv
  <2>5. AccountsCreated'
    BY DEF AccountsCreated, RequestsInv
  <2>6. ActsForOwner'
    BY DEF ActsForOwner, BelongsTo, UsersOf, RequestsInv, Arrived
  <2>7. CookiesOfOwner'
    <3>1. PICK b \in Browsers :
            \E rt \in Routes, l \in SessionLabels : Call(r, b, rt, l)
      BY DEF SessionLabels
    <3>2. CookiesBelongTo(Sent(b), Owner[b])
      BY SentCookies DEF CookiesOfOwner
    <3>3. \A q \in Requests :
            pc[q] = "replied" => pc'[q] = "replied" /\ email'[q] = email[q]
      BY <3>1
    <3>4. ASSUME NEW k \in Cookies, NEW e, CookiesBelongTo(k, e)
          PROVE  /\ k.access # Nil =>
                      \E u \in users' : u.email = e /\ u.id = k.access.userId
                 /\ k.refresh # Nil => /\ pc'[k.refresh.token] = "replied"
                                      /\ email'[k.refresh.token] = e
      BY <3>1, <3>3, <3>4 DEF CookiesBelongTo, BelongsTo, UsersOf
    <3>5. Sent(b) \in Cookies /\ \A c \in Browsers : jar[c] \in Cookies
      BY SentCookies DEF StoreTypeOK
    <3>6. \A c \in Browsers : CookiesBelongTo(jar[c], Owner[c])'
      BY <3>1, <3>4, <3>5 DEF CookiesOfOwner, CookiesBelongTo, BelongsTo,
         UsersOf
    <3>7. \A q \in Requests : CookiesBelongTo(cookies[q], email[q])'
      <4> TAKE q \in Requests
      <4>1. CASE q = r
        <5>1. cookies'[q] = Sent(b) /\ email'[q] = Owner[b]
          BY <3>1, <4>1 DEF RequestsInv
        <5> QED BY <3>2, <3>4, <3>5, <5>1 DEF CookiesBelongTo, BelongsTo,
           UsersOf
      <4>2. CASE q # r
        <5>1. cookies'[q] = cookies[q] /\ email'[q] = email[q]
          BY <3>1, <4>2
        <5>2. CookiesBelongTo(cookies[q], email[q]) /\ cookies[q] \in Cookies
          BY DEF CookiesOfOwner, RequestsInv
        <5>3. /\ cookies[q].access # Nil =>
                   \E u \in users' : /\ u.email = email[q]
                                     /\ u.id = cookies[q].access.userId
              /\ cookies[q].refresh # Nil =>
                   /\ pc'[cookies[q].refresh.token] = "replied"
                   /\ email'[cookies[q].refresh.token] = email[q]
          BY <3>4, <5>2
        <5> QED BY <5>1, <5>3 DEF CookiesBelongTo, BelongsTo, UsersOf
      <4> QED BY <4>1, <4>2
    <3> QED BY <3>6, <3>7 DEF CookiesOfOwner
  <2>8. StoredTokens'
    BY DEF StoredTokens, RequestsInv, StoreTypeOK, TokenDoc
  <2>9. LogoutDeleted'
    BY DEF LogoutDeleted, OnItsWay, RequestsInv, Outcomes
  <2>10. BarredGetsNowhere'
    BY DEF BarredGetsNowhere, IsBlocked, UsersOf, OnItsWay, Arrived,
       RequestsInv, ActsForUser, Outcomes
  <2> QED BY <2>1, <2>2, <2>3, <2>4, <2>5, <2>6, <2>7, <2>8, <2>9, <2>10
<1>2. CASE LoginFindsUser(r)
  <2> USE <1>2 DEF LoginFindsUser, GotoAs, Goto, Reply
  <2>1. RequestsInv(L)'
    BY DEF RequestsInv, AtRest, SessionLabels, Outcomes
  <2>2. StoreTypeOK'
    BY DEF StoreTypeOK
  <2>3. UserKnown'
    BY DEF UserKnown, UsersOf, ActsForUser, RequestsInv, StoreTypeOK,
      UserDoc
  <2>4. Arrived' /\ OnItsWay'
    BY DEF Arrived, SessionRoutes, OnItsWay, RequestsInv, UserKnown
  <2>5. AccountsCreated'
    BY DEF AccountsCreated, RequestsInv
  <2>6. ActsForOwner'
    BY DEF ActsForOwner, BelongsTo, UsersOf, UserKnown
  <2>7. CookiesOfOwner'
    BY DEF CookiesOfOwner, CookiesBelongTo, BelongsTo, UsersOf, RequestsInv,
       StoreTypeOK, UserKnown, ActsForUser, Cookies, RefreshCookie
  <2>8. StoredTokens'
    BY DEF StoredTokens, RequestsInv, StoreTypeOK, UserKnown, TokenDoc
  <2>9. LogoutDeleted'
    BY DEF LogoutDeleted, RequestsInv
  <2>10. BarredGetsNowhere'
    BY DEF BarredGetsNowhere, IsBlocked, UsersOf, RequestsInv, ActsForUser
  <2> QED BY <2>1, <2>2, <2>3, <2>4, <2>5, <2>6, <2>7, <2>8, <2>9, <2>10
<1>3. CASE ComparePassword(r)
  <2> USE <1>3 DEF ComparePassword, Goto, Reply, sessionVars
  <2>1. RequestsInv(L)'
    BY DEF RequestsInv, AtRest, SessionLabels, Outcomes
  <2>2. StoreTypeOK'
    BY DEF StoreTypeOK
  <2>3. UserKnown'
    BY DEF RequestsInv, UserKnown, ActsForUser
  <2>4. Arrived' /\ OnItsWay'
    BY DEF Arrived, SessionRoutes, OnItsWay, TokenRoutes, RequestsInv
  <2>5. AccountsCreated'
    BY DEF AccountsCreated, RequestsInv
  <2>6. ActsForOwner'
    BY DEF ActsForOwner, BelongsTo, UsersOf
  <2>7. CookiesOfOwner'
    BY DEF CookiesOfOwner, CookiesBelongTo, BelongsTo, UsersOf, RequestsInv,
       StoreTypeOK, UserKnown, Cookies, RefreshCookie
  <2>8. StoredTokens'
    BY DEF StoredTokens, RequestsInv, StoreTypeOK, TokenDoc
  <2>9. LogoutDeleted'
    BY DEF LogoutDeleted, RequestsInv
  <2>10. BarredGetsNowhere'
    BY DEF BarredGetsNowhere, IsBlocked, UsersOf, RequestsInv, ActsForUser
  <2> QED BY <2>1, <2>2, <2>3, <2>4, <2>5, <2>6, <2>7, <2>8, <2>9, <2>10
<1>4. CASE FetchDetails(r)
  <2> USE <1>4 DEF FetchDetails, Goto, Reply, sessionVars
  <2>1. RequestsInv(L)'
    BY DEF RequestsInv, AtRest, SessionLabels, Outcomes
  <2>2. StoreTypeOK'
    BY DEF StoreTypeOK
  <2>3. UserKnown'
    BY DEF RequestsInv, UserKnown, ActsForUser
  <2>4. Arrived' /\ OnItsWay'
    BY DEF Arrived, SessionRoutes, OnItsWay, RequestsInv
  <2>5. AccountsCreated'
    BY DEF AccountsCreated, RequestsInv, UserDoc, StoreTypeOK
  <2>6. ActsForOwner'
    BY DEF ActsForOwner, BelongsTo, UsersOf
  <2>7. CookiesOfOwner'
    BY DEF CookiesOfOwner, CookiesBelongTo, BelongsTo, UsersOf, RequestsInv,
       StoreTypeOK, Cookies, RefreshCookie
  <2>8. StoredTokens'
    BY DEF StoredTokens, RequestsInv, StoreTypeOK, TokenDoc
  <2>9. LogoutDeleted'
    BY DEF LogoutDeleted, RequestsInv
  <2>10. BarredGetsNowhere'
    BY DEF BarredGetsNowhere, IsBlocked, UsersOf, RequestsInv, ActsForUser
  <2> QED BY <2>1, <2>2, <2>3, <2>4, <2>5, <2>6, <2>7, <2>8, <2>9, <2>10
<1>5. CASE GoogleFindsUser(r)
  <2> USE <1>5 DEF GoogleFindsUser, GotoAs, Goto
  <2>1. RequestsInv(L)'
    BY DEF RequestsInv, SessionLabels
  <2>2. StoreTypeOK'
    BY DEF StoreTypeOK
  <2>3. UserKnown'
    BY DEF UserKnown, UsersOf, ActsForUser, RequestsInv, StoreTypeOK,
      UserDoc
  <2>4. Arrived' /\ OnItsWay'
    BY DEF Arrived, SessionRoutes, OnItsWay, TokenRoutes, RequestsInv,
      UserKnown
  <2>5. AccountsCreated'
    BY DEF AccountsCreated, RequestsInv
  <2>6. ActsForOwner'
    BY DEF ActsForOwner, BelongsTo, UsersOf, UserKnown
  <2>7. CookiesOfOwner'
    BY DEF CookiesOfOwner, CookiesBelongTo, BelongsTo, UsersOf, RequestsInv,
       StoreTypeOK, Cookies, RefreshCookie
  <2>8. StoredTokens'
    BY DEF StoredTokens, RequestsInv, StoreTypeOK, UserKnown, TokenDoc
  <2>9. LogoutDeleted'
    BY DEF LogoutDeleted, RequestsInv
  <2>10. BarredGetsNowhere'
    BY DEF BarredGetsNowhere, IsBlocked, UsersOf, OnItsWay, RequestsInv
  <2> QED BY <2>1, <2>2, <2>3, <2>4, <2>5, <2>6, <2>7, <2>8, <2>9, <2>10
<1>6. CASE CreateGoogleUser(r)
  <2> USE <1>6 DEF CreateGoogleUser, GotoAs, Goto
  <2>1. RequestsInv(L)'
    BY DEF RequestsInv, SessionLabels
  <2>2. StoreTypeOK'
    BY DEF StoreTypeOK, UserDoc, Arrived, OnItsWay, SessionRoutes
  <2>3. UserKnown'
    <3>1. r \in {u.id : u \in users'}
      OBVIOUS
    <3>2. {u.id : u \in users} \subseteq {u.id : u \in users'}
      OBVIOUS
    <3> QED
      BY <3>1, <3>2 DEF UserKnown
  <2>4. Arrived' /\ OnItsWay'
    BY DEF Arrived, SessionRoutes, OnItsWay, TokenRoutes, RequestsInv
  <2>5. AccountsCreated'
    BY DEF AccountsCreated, RequestsInv
  <2>6. ActsForOwner'
    <3>1. [id |-> r, email |-> email[r]] \in users'
      OBVIOUS
    <3>2. \E u \in users' : u.email = email'[r] /\ u.id = r
      <4> WITNESS [id |-> r, email |-> email[r]] \in users'
      <4> QED OBVIOUS
    <3>3. \A i, e : BelongsTo(i, e) => BelongsTo(i, e)'
      BY DEF BelongsTo, UsersOf
    <3>4. email' = email /\ \A q \in Requests : q # r => userId'[q] = userId[q]
      OBVIOUS
    <3>5. userId'[r] = r
      BY DEF UserKnown
    <3> QED
      BY <3>2, <3>3, <3>4, <3>5 DEF ActsForOwner, BelongsTo, UsersOf
  <2>7. CookiesOfOwner'
    BY DEF CookiesOfOwner, CookiesBelongTo, BelongsTo, UsersOf
  <2>8. StoredTokens'
    BY DEF StoredTokens
  <2>9. LogoutDeleted'
    BY DEF LogoutDeleted
  <2>10. BarredGetsNowhere'
    <3>1. \A e : e # email[r] => UsersOf(e)' = UsersOf(e)
      BY DEF UsersOf
    <3> QED
      BY <3>1 DEF BarredGetsNowhere, IsBlocked, ActsForUser, RequestsInv,
         OnItsWay
  <2> QED BY <2>1, <2>2, <2>3, <2>4, <2>5, <2>6, <2>7, <2>8, <2>9, <2>10
<1>7. CASE RefreshFindsToken(r)
  <2> USE <1>7 DEF RefreshFindsToken, GotoAs, Goto, Reply
  <2>1. RequestsInv(L)'
    BY DEF RequestsInv, AtRest, SessionLabels, Outcomes
  <2>2. StoreTypeOK'
    BY DEF StoreTypeOK
  <2>3. UserKnown'
    BY DEF RequestsInv, StoreTypeOK, UserKnown, ActsForUser, TokenDoc,
       StoredTokens
  <2>4. Arrived' /\ OnItsWay'
    BY DEF Arrived, SessionRoutes, OnItsWay, RequestsInv, UserKnown
  <2>5. AccountsCreated'
    BY DEF AccountsCreated, RequestsInv
  <2>6. ActsForOwner'
    <3>1. users' = users /\ email' = email
      OBVIOUS
    <3>2. CASE userId' = userId
      BY <3>1, <3>2 DEF ActsForOwner, BelongsTo, UsersOf
    <3>3. ASSUME NEW d \in refreshTokens, cookies[r].refresh # Nil,
                 d.token = cookies[r].refresh.token,
                 userId' = [userId EXCEPT ![r] = d.userId]
          PROVE  ActsForOwner'
      <4>1. d.token \in Requests /\ userId[d.token] = d.userId
        BY <3>3 DEF StoredTokens, StoreTypeOK, TokenDoc
      <4>2. email[d.token] = email[r]
        BY <3>3 DEF CookiesOfOwner, CookiesBelongTo
      <4>3. d.userId # Nil => BelongsTo(d.userId, email[r])
        BY <4>1, <4>2 DEF ActsForOwner
      <4> QED BY <3>1, <3>3, <4>3 DEF ActsForOwner, BelongsTo, UsersOf,
         UserKnown
    <3> QED BY <3>2, <3>3
  <2>7. CookiesOfOwner'
    BY DEF CookiesOfOwner, CookiesBelongTo, BelongsTo, UsersOf, RequestsInv,
       StoreTypeOK, Cookies, RefreshCookie
  <2>8. StoredTokens'
    BY DEF StoredTokens, RequestsInv, StoreTypeOK, UserKnown, TokenDoc
  <2>9. LogoutDeleted'
    BY DEF LogoutDeleted, OnItsWay, RequestsInv
  <2>10. BarredGetsNowhere'
    BY DEF BarredGetsNowhere, IsBlocked, UsersOf, OnItsWay, RequestsInv
  <2> QED BY <2>1, <2>2, <2>3, <2>4, <2>5, <2>6, <2>7, <2>8, <2>9, <2>10
<1>8. CASE RefreshFindsUser(r)
  <2> USE <1>8 DEF RefreshFindsUser, Goto, Reply, sessionVars
  <2>1. RequestsInv(L)'
    BY DEF RequestsInv, AtRest, SessionLabels, Outcomes
  <2>2. StoreTypeOK'
    BY DEF StoreTypeOK
  <2>3. UserKnown'
    BY DEF RequestsInv, UserKnown, ActsForUser
  <2>4. Arrived' /\ OnItsWay'
    BY DEF Arrived, SessionRoutes, OnItsWay, TokenRoutes, RequestsInv
  <2>5. AccountsCreated'
    BY DEF AccountsCreated, RequestsInv
  <2>6. ActsForOwner'
    BY DEF ActsForOwner, BelongsTo, UsersOf
  <2>7. CookiesOfOwner'
    BY DEF CookiesOfOwner, CookiesBelongTo, BelongsTo, UsersOf, RequestsInv,
       StoreTypeOK, Cookies, RefreshCookie
  <2>8. StoredTokens'
    BY DEF StoredTokens, RequestsInv, StoreTypeOK, TokenDoc
  <2>9. LogoutDeleted'
    BY DEF LogoutDeleted, RequestsInv
  <2>10. BarredGetsNowhere'
    BY DEF BarredGetsNowhere, IsBlocked, UsersOf, RequestsInv, ActsForUser
  <2> QED BY <2>1, <2>2, <2>3, <2>4, <2>5, <2>6, <2>7, <2>8, <2>9, <2>10
<1>9. CASE MatchToken(r)
  <2> USE <1>9 DEF MatchToken, Matches, TokensOf, NewToken, Goto
  <2>1. RequestsInv(L)'
    BY DEF RequestsInv, SessionLabels
  <2>2. StoreTypeOK'
    BY DEF RequestsInv, StoreTypeOK, TokenDoc
  <2>3. UserKnown'
    BY DEF RequestsInv, UserKnown, ActsForUser
  <2>4. Arrived' /\ OnItsWay'
    BY DEF Arrived, SessionRoutes, OnItsWay, RequestsInv
  <2>5. AccountsCreated'
    BY DEF AccountsCreated, RequestsInv
  <2>6. ActsForOwner'
    BY DEF ActsForOwner, BelongsTo, UsersOf
  <2>7. CookiesOfOwner'
    BY DEF CookiesOfOwner, CookiesBelongTo, BelongsTo, UsersOf, RequestsInv,
       StoreTypeOK, Cookies, RefreshCookie
  <2>8. StoredTokens'
    BY DEF StoredTokens, RequestsInv, StoreTypeOK, TokenDoc
  <2>9. LogoutDeleted'
    BY DEF LogoutDeleted, RequestsInv, CookiesOfOwner, CookiesBelongTo
  <2>10. BarredGetsNowhere'
    BY DEF BarredGetsNowhere, IsBlocked, UsersOf, RequestsInv, ActsForUser
  <2> QED BY <2>1, <2>2, <2>3, <2>4, <2>5, <2>6, <2>7, <2>8, <2>9, <2>10
<1>10. CASE InsertToken(r)
  <2> USE <1>10 DEF InsertToken, NewToken, Goto
  <2>1. RequestsInv(L)'
    BY DEF RequestsInv, SessionLabels
  <2>2. StoreTypeOK'
    BY DEF RequestsInv, StoreTypeOK, UserKnown, UserDoc, TokenDoc,
       ActsForUser
  <2>3. UserKnown'
    BY DEF UserKnown, ActsForUser
  <2>4. Arrived' /\ OnItsWay'
    BY DEF Arrived, SessionRoutes, OnItsWay
  <2>5. AccountsCreated'
    BY DEF AccountsCreated
  <2>6. ActsForOwner'
    BY DEF ActsForOwner, BelongsTo, UsersOf
  <2>7. CookiesOfOwner'
    BY DEF CookiesOfOwner, CookiesBelongTo, BelongsTo, UsersOf
  <2>8. StoredTokens'
    BY DEF StoredTokens, RequestsInv
  <2>9. LogoutDeleted'
    BY DEF LogoutDeleted, CookiesOfOwner, CookiesBelongTo
  <2>10. BarredGetsNowhere'
    BY DEF BarredGetsNowhere, IsBlocked, UsersOf, ActsForUser
  <2> QED BY <2>1, <2>2, <2>3, <2>4, <2>5, <2>6, <2>7, <2>8, <2>9, <2>10
<1>11. CASE SetTokenCookies(r)
  <2> USE <1>11 DEF SetTokenCookies, Reply
  <2>1. RequestsInv(L)'
    BY DEF RequestsInv, AtRest, Outcomes
  <2>2. StoreTypeOK'
    <3>1. userId[r] \in Requests \union Emails
      BY DEF UserKnown, ActsForUser, StoreTypeOK, UserDoc
    <3>2. [access |-> [userId |-> userId[r], exp |-> now + AccessLifetime],
           refresh |-> [token |-> r, exp |-> now + RefreshLifetime]] \in Cookies
      BY <3>1 DEF Cookies, AccessToken, RefreshCookie, RequestsInv
    <3> QED
      BY <3>2 DEF StoreTypeOK
  <2>3. UserKnown'
    BY DEF UserKnown, ActsForUser
  <2>4. Arrived' /\ OnItsWay'
    BY DEF Arrived, SessionRoutes, OnItsWay, RequestsInv
  <2>5. AccountsCreated'
    BY DEF AccountsCreated
  <2>6. ActsForOwner'
    BY DEF ActsForOwner, BelongsTo, UsersOf
  <2>7. CookiesOfOwner'
    BY DEF CookiesOfOwner, CookiesBelongTo, BelongsTo, UsersOf, RequestsInv,
       UserKnown, Arrived, ActsForOwner, ActsForUser
  <2>8. StoredTokens'
    BY DEF StoredTokens
  <2>9. LogoutDeleted'
    BY DEF LogoutDeleted, OnItsWay, TokenRoutes
  <2>10. BarredGetsNowhere'
    BY DEF BarredGetsNowhere, IsBlocked, UsersOf, ActsForUser
  <2> QED BY <2>1, <2>2, <2>3, <2>4, <2>5, <2>6, <2>7, <2>8, <2>9, <2>10
<1>12. CASE Guard(r)
  <2> USE <1>12 DEF Guard, GotoAs, Goto, Reply
  <2>1. RequestsInv(L)'
    BY DEF RequestsInv, Guarded, SessionLabels, AtRest, Outcomes, OnItsWay
  <2>2. StoreTypeOK'
    BY DEF StoreTypeOK
  <2>3. UserKnown'
    BY DEF RequestsInv, StoreTypeOK, UserKnown, ActsForUser, UserDoc
  <2>4. Arrived' /\ OnItsWay'
    BY DEF Arrived, SessionRoutes, OnItsWay, Guarded, RequestsInv, UserKnown
  <2>5. AccountsCreated'
    BY DEF AccountsCreated, OnItsWay, Guarded, RequestsInv
  <2>6. ActsForOwner'
    BY DEF ActsForOwner, BelongsTo, UsersOf, UserKnown, CookiesOfOwner,
       CookiesBelongTo
  <2>7. CookiesOfOwner'
    BY DEF CookiesOfOwner, CookiesBelongTo, BelongsTo, UsersOf, RequestsInv,
       StoreTypeOK, Cookies, RefreshCookie
  <2>8. StoredTokens'
    BY DEF StoredTokens, RequestsInv, StoreTypeOK, UserKnown, TokenDoc
  <2>9. LogoutDeleted'
    BY DEF LogoutDeleted, OnItsWay, RequestsInv, Guarded
  <2>10. BarredGetsNowhere'
    BY DEF BarredGetsNowhere, IsBlocked, UsersOf, CookiesOfOwner,
       CookiesBelongTo, BelongsTo, RequestsInv, ActsForUser
  <2> QED BY <2>1, <2>2, <2>3, <2>4, <2>5, <2>6, <2>7, <2>8, <2>9, <2>10
<1>13. CASE DeleteToken(r)
  <2> USE <1>13 DEF DeleteToken, Goto
  <2>1. RequestsInv(L)'
    BY DEF RequestsInv, SessionLabels
  <2>2. StoreTypeOK'
    BY DEF StoreTypeOK
  <2>3. UserKnown'
    BY DEF UserKnown, ActsForUser
  <2>4. Arrived' /\ OnItsWay'
    BY DEF Arrived, SessionRoutes, OnItsWay
  <2>5. AccountsCreated'
    BY DEF AccountsCreated
  <2>6. ActsForOwner'
    BY DEF ActsForOwner, BelongsTo, UsersOf
  <2>7. CookiesOfOwner'
    BY DEF CookiesOfOwner, CookiesBelongTo, BelongsTo, UsersOf
  <2>8. StoredTokens'
    BY DEF StoredTokens
  <2>9. LogoutDeleted'
    BY DEF LogoutDeleted, StoredTokens
  <2>10. BarredGetsNowhere'
    BY DEF BarredGetsNowhere, IsBlocked, UsersOf, ActsForUser
  <2> QED BY <2>1, <2>2, <2>3, <2>4, <2>5, <2>6, <2>7, <2>8, <2>9, <2>10
<1>14. CASE ClearTokenCookies(r)
  <2> USE <1>14 DEF ClearTokenCookies, Reply
  <2>1. RequestsInv(L)'
    BY DEF RequestsInv, AtRest, Outcomes
  <2>2. StoreTypeOK'
    BY DEF StoreTypeOK, Cookies, NoCookies
  <2>3. UserKnown'
    BY DEF UserKnown, ActsForUser
  <2>4. Arrived' /\ OnItsWay'
    BY DEF Arrived, SessionRoutes, OnItsWay, RequestsInv
  <2>5. AccountsCreated'
    BY DEF AccountsCreated
  <2>6. ActsForOwner'
    BY DEF ActsForOwner, BelongsTo, UsersOf
  <2>7. CookiesOfOwner'
    BY DEF CookiesOfOwner, CookiesBelongTo, BelongsTo, UsersOf, NoCookies
  <2>8. StoredTokens'
    BY DEF StoredTokens
  <2>9. LogoutDeleted'
    BY DEF LogoutDeleted
  <2>10. BarredGetsNowhere'
    BY DEF BarredGetsNowhere, IsBlocked, UsersOf, ActsForUser
  <2> QED BY <2>1, <2>2, <2>3, <2>4, <2>5, <2>6, <2>7, <2>8, <2>9, <2>10
<1>15. CASE FindDetails(r)
  <2> USE <1>15 DEF FindDetails, Reply, sessionVars
  <2>1. RequestsInv(L)'
    BY DEF RequestsInv, AtRest, Outcomes
  <2>2. StoreTypeOK'
    BY DEF StoreTypeOK
  <2>3. UserKnown'
    BY DEF UserKnown, ActsForUser
  <2>4. Arrived' /\ OnItsWay'
    BY DEF Arrived, SessionRoutes, OnItsWay, RequestsInv
  <2>5. AccountsCreated'
    BY DEF AccountsCreated
  <2>6. ActsForOwner'
    BY DEF ActsForOwner, BelongsTo, UsersOf
  <2>7. CookiesOfOwner'
    BY DEF CookiesOfOwner, CookiesBelongTo, BelongsTo, UsersOf
  <2>8. StoredTokens'
    BY DEF StoredTokens
  <2>9. LogoutDeleted'
    BY DEF LogoutDeleted, OnItsWay
  <2>10. BarredGetsNowhere'
    BY DEF BarredGetsNowhere, IsBlocked, UsersOf, ActsForUser
  <2> QED BY <2>1, <2>2, <2>3, <2>4, <2>5, <2>6, <2>7, <2>8, <2>9, <2>10
<1> QED
  BY <1>1, <1>2, <1>3, <1>4, <1>5, <1>6, <1>7, <1>8, <1>9, <1>10, <1>11, <1>12,
     <1>13, <1>14, <1>15 DEF SessionsArrival, SessionsHandler

\* So does what the handlers do not control.
LEMMA SessionsEnvironmentInv ==
  ASSUME NEW L, SessionsInv(L),
         \/ \E u \in users, action \in {"block", "unblock"} :
              UpdateStatus(u, action)
         \/ Environment /\ UNCHANGED sessionVars
         \/ UNCHANGED vars
  PROVE  SessionsInv(L)'
<1> USE ServerAssumption, SessionsAssumption DEF SessionsInv
<1>1. CASE \E u \in users, action \in {"block", "unblock"} :
             UpdateStatus(u, action)
  <2> USE <1>1 DEF UpdateStatus, serverVars
  <2>1. RequestsInv(L)'
    BY DEF RequestsInv
  <2>2. StoreTypeOK'
    BY DEF StoreTypeOK
  <2>3. UserKnown'
    BY DEF UserKnown
  <2>4. Arrived' /\ OnItsWay'
    BY DEF Arrived, SessionRoutes, OnItsWay, RequestsInv
  <2>5. AccountsCreated'
    BY DEF AccountsCreated
  <2>6. ActsForOwner'
    BY DEF ActsForOwner, BelongsTo, UsersOf
  <2>7. CookiesOfOwner'
    BY DEF CookiesOfOwner, CookiesBelongTo, BelongsTo, UsersOf
  <2>8. StoredTokens'
    BY DEF StoredTokens
  <2>9. LogoutDeleted'
    BY DEF LogoutDeleted
  <2>10. BarredGetsNowhere'
    <3>1. PICK u \in users, action \in {"block", "unblock"} :
            UpdateStatus(u, action)
      OBVIOUS
    <3>2. \A q \in Requests : barred'[q] => barred[q]
      BY <3>1
    <3>3. ASSUME NEW q \in Requests, barred'[q], NEW v \in UsersOf(email[q])
          PROVE  v.id \in blocked'
      <4>1. v \in users /\ v.email = email[q] /\ v.id \in blocked
        BY <3>2, <3>3 DEF BarredGetsNowhere, IsBlocked, UsersOf
      <4>2. CASE action = "block"
        BY <3>1, <4>1, <4>2
      <4>3. CASE action = "unblock"
        <5>1. email[q] # u.email
          BY <3>1, <3>3, <4>3
        <5> QED BY <3>1, <4>1, <4>3, <5>1 DEF AccountsCreated
      <4> QED BY <4>2, <4>3
    <3> QED
      BY <3>2, <3>3 DEF BarredGetsNowhere, IsBlocked, UsersOf
  <2> QED BY <2>1, <2>2, <2>3, <2>4, <2>5, <2>6, <2>7, <2>8, <2>9, <2>10
<1>2. CASE UNCHANGED sessionVars /\ \E r \in Requests : Fail(r)
  <2> USE <1>2 DEF Fail, Reply, InFlight, sessionVars
  <2>1. RequestsInv(L)'
    BY DEF RequestsInv, AtRest, Outcomes
  <2>2. StoreTypeOK'
    BY DEF StoreTypeOK
  <2>3. UserKnown'
    BY DEF UserKnown, ActsForUser
  <2>4. Arrived' /\ OnItsWay'
    BY DEF Arrived, SessionRoutes, OnItsWay, RequestsInv, AtRest
  <2>5. AccountsCreated'
    BY DEF AccountsCreated
  <2>6. ActsForOwner'
    BY DEF ActsForOwner, BelongsTo, UsersOf
  <2>7. CookiesOfOwner'
    BY DEF CookiesOfOwner, CookiesBelongTo, BelongsTo, UsersOf
  <2>8. StoredTokens'
    BY DEF StoredTokens
  <2>9. LogoutDeleted'
    BY DEF LogoutDeleted
  <2>10. BarredGetsNowhere'
    BY DEF BarredGetsNowhere, IsBlocked, UsersOf, ActsForUser
  <2> QED BY <2>1, <2>2, <2>3, <2>4, <2>5, <2>6, <2>7, <2>8, <2>9, <2>10
<1>3. CASE UNCHANGED sessionVars /\ Crash
  <2> USE <1>3 DEF Crash, InFlight, sessionVars, AtRest
  <2>1. RequestsInv(L)'
    BY DEF RequestsInv
  <2>2. StoreTypeOK'
    BY DEF StoreTypeOK
  <2>3. UserKnown'
    BY DEF UserKnown, ActsForUser
  <2>4. Arrived' /\ OnItsWay'
    BY DEF Arrived, SessionRoutes, OnItsWay
  <2>5. AccountsCreated'
    BY DEF AccountsCreated
  <2>6. ActsForOwner'
    BY DEF ActsForOwner, BelongsTo, UsersOf
  <2>7. CookiesOfOwner'
    BY DEF CookiesOfOwner, CookiesBelongTo, BelongsTo, UsersOf, RequestsInv,
       StoreTypeOK, Cookies, RefreshCookie
  <2>8. StoredTokens'
    BY DEF StoredTokens, StoreTypeOK, TokenDoc
  <2>9. LogoutDeleted'
    BY DEF LogoutDeleted
  <2>10. BarredGetsNowhere'
    BY DEF BarredGetsNowhere, IsBlocked, UsersOf, ActsForUser
  <2> QED BY <2>1, <2>2, <2>3, <2>4, <2>5, <2>6, <2>7, <2>8, <2>9, <2>10
<1>4. CASE UNCHANGED sessionVars /\ Tick
  <2> USE <1>4 DEF Tick, sessionVars
  <2>1. RequestsInv(L)'
    BY DEF RequestsInv
  <2>2. StoreTypeOK'
    BY DEF StoreTypeOK
  <2>3. UserKnown'
    BY DEF UserKnown
  <2>4. Arrived' /\ OnItsWay'
    BY DEF Arrived, SessionRoutes, OnItsWay
  <2>5. AccountsCreated'
    BY DEF AccountsCreated
  <2>6. ActsForOwner'
    BY DEF ActsForOwner, BelongsTo, UsersOf
  <2>7. CookiesOfOwner'
    BY DEF CookiesOfOwner, CookiesBelongTo, BelongsTo, UsersOf
  <2>8. StoredTokens'
    BY DEF StoredTokens
  <2>9. LogoutDeleted'
    BY DEF LogoutDeleted
  <2>10. BarredGetsNowhere'
    BY DEF BarredGetsNowhere, IsBlocked, UsersOf
  <2> QED BY <2>1, <2>2, <2>3, <2>4, <2>5, <2>6, <2>7, <2>8, <2>9, <2>10
<1>5. CASE UNCHANGED vars
  <2> USE <1>5 DEF vars, serverVars, sessionVars
  <2>1. RequestsInv(L)'
    BY DEF RequestsInv
  <2>2. StoreTypeOK'
    BY DEF StoreTypeOK
  <2>3. UserKnown'
    BY DEF UserKnown
  <2>4. Arrived' /\ OnItsWay'
    BY DEF Arrived, SessionRoutes, OnItsWay
  <2>5. AccountsCreated'
    BY DEF AccountsCreated
  <2>6. ActsForOwner'
    BY DEF ActsForOwner, BelongsTo, UsersOf
  <2>7. CookiesOfOwner'
    BY DEF CookiesOfOwner, CookiesBelongTo, BelongsTo, UsersOf
  <2>8. StoredTokens'
    BY DEF StoredTokens
  <2>9. LogoutDeleted'
    BY DEF LogoutDeleted
  <2>10. BarredGetsNowhere'
    BY DEF BarredGetsNowhere, IsBlocked, UsersOf
  <2> QED BY <2>1, <2>2, <2>3, <2>4, <2>5, <2>6, <2>7, <2>8, <2>9, <2>10
<1> QED
  BY <1>1, <1>2, <1>3, <1>4, <1>5 DEF Environment, Rest, vars

\* A step of a handler that has no part in sessions: r moves along its own
\* labels, accounts may be created, and their owners are barred no more.
Elsewhere(r, L) ==
  /\ \/ /\ pc[r] = "idle"
        /\ \E rt \in Routes \ SessionRoutes, e \in Emails :
             route' = [route EXCEPT ![r] = rt] /\ email' = [email EXCEPT ![r] = e]
     \/ /\ pc[r] \in L \ (SessionLabels \union AtRest)
        /\ route[r] \notin SessionRoutes
        /\ UNCHANGED <<route, email>>
  /\ \/ \E l \in L \ (SessionLabels \union AtRest) :
          pc' = [pc EXCEPT ![r] = l] /\ reply' = reply
     \/ \E outcome \in Outcomes : /\ pc' = [pc EXCEPT ![r] = "replied"]
                                 /\ reply' = [reply EXCEPT ![r] = outcome]
  /\ users \subseteq users' /\ users' \subseteq UserDoc
  /\ barred' = [q \in Requests |-> barred[q] /\ IsBlocked(email[q])']
  /\ dated' = dated \/ dated' = [dated EXCEPT ![r] = now]
  /\ UNCHANGED <<now, blocked, refreshTokens, jar, browser, cookies, userId>>

\* The other handlers of the process keep the invariant.
LEMMA ElsewhereInv ==
  ASSUME NEW L, SessionsInv(L), NEW r \in Requests, Elsewhere(r, L),
         AccountsCreated'
  PROVE  SessionsInv(L)'
<1> USE ServerAssumption, SessionsAssumption DEF SessionsInv, Elsewhere
<1>1. RequestsInv(L)'
  <2>1. \A q \in Requests : IsBlocked(email[q])' \in BOOLEAN
    BY DEF IsBlocked
  <2>2. barred' \in [Requests -> BOOLEAN]
    BY <2>1 DEF RequestsInv
  <2>3. pc' \in [Requests -> AtRest \union L]
    BY DEF RequestsInv, AtRest
  <2>4. /\ route' \in [Requests -> Routes \union {Nil}]
        /\ email' \in [Requests -> Emails \union {Nil}]
        /\ reply' \in [Requests -> Outcomes \union {Nil}]
    BY DEF RequestsInv
  <2> QED BY <2>2, <2>3, <2>4 DEF RequestsInv
<1>2. StoreTypeOK' /\ UserKnown'
  BY DEF StoreTypeOK, UserKnown, RequestsInv, ActsForUser, SessionLabels
<1>3. Arrived' /\ OnItsWay'
  BY DEF Arrived, OnItsWay, RequestsInv, SessionLabels, AtRest
<1>4. ActsForOwner'
  BY DEF ActsForOwner, BelongsTo, UsersOf, Arrived, RequestsInv
<1>5. CookiesOfOwner'
  <2>1. \A q \in Requests : pc[q] = "replied" =>
          q # r /\ pc'[q] = "replied" /\ email'[q] = email[q]
    BY DEF RequestsInv, AtRest
  <2>2. cookies[r] = NoCookies
    BY DEF Arrived, AtRest
  <2>3. \A b \in Browsers : CookiesBelongTo(jar[b], Owner[b])'
    <3> TAKE b \in Browsers
    <3>1. jar[b] \in Cookies /\ CookiesBelongTo(jar[b], Owner[b])
      BY DEF StoreTypeOK, CookiesOfOwner
    <3> QED BY <2>1, <3>1 DEF CookiesBelongTo, BelongsTo, UsersOf, Cookies,
       RefreshCookie
  <2>4. \A q \in Requests : CookiesBelongTo(cookies[q], email[q])'
    <3> TAKE q \in Requests
    <3>1. CASE q = r
      BY <2>2, <3>1 DEF CookiesBelongTo, NoCookies
    <3>2. CASE q # r
      <4>1. /\ cookies'[q] = cookies[q] /\ email'[q] = email[q]
            /\ cookies[q] \in Cookies
            /\ CookiesBelongTo(cookies[q], email[q])
        BY <3>2 DEF RequestsInv, CookiesOfOwner
      <4> QED BY <2>1, <4>1 DEF CookiesBelongTo, BelongsTo, UsersOf, Cookies,
         RefreshCookie
    <3> QED BY <3>1, <3>2
  <2> QED BY <2>3, <2>4 DEF CookiesOfOwner
<1>6. StoredTokens' /\ LogoutDeleted'
  <2>1. /\ \A q \in Requests \ {r} :
             pc'[q] = pc[q] /\ route'[q] = route[q] /\ reply'[q] = reply[q]
        /\ cookies[r] = NoCookies
        /\ pc[r] \notin {"setCookies", "replied", "lost"}
    BY DEF RequestsInv, Arrived, AtRest, SessionLabels
  <2>2. StoredTokens'
    BY <2>1 DEF StoredTokens, StoreTypeOK, TokenDoc
  <2>3. LogoutDeleted'
    BY <2>1 DEF LogoutDeleted, NoCookies
  <2> QED BY <2>2, <2>3
<1>7. BarredGetsNowhere'
  BY DEF BarredGetsNowhere, RequestsInv, Arrived, ActsForUser
<1> QED BY <1>1, <1>2, <1>3, <1>4, <1>5, <1>6, <1>7

\* The inductive invariant holds in every reachable state of Sessions.
THEOREM SessionsInvariance == SessionsSpec => []SessionsInv(SessionLabels)
<1>1. SessionsInv(SessionLabels) /\ [SessionsNext]_vars
        => SessionsInv(SessionLabels)'
  BY SessionsStepInv, SessionsEnvironmentInv DEF SessionsNext
<1> QED BY <1>1, SessionsInitInv, PTL DEF SessionsSpec

-----------------------------------------------------------------------------
(* Theorems for every interleaving.                                        *)

\* What the invariant means to the owners of the browsers.
LEMMA SessionsPromises ==
  ASSUME NEW L, SessionsInv(L)
  PROVE  SessionsStayApart /\ BlockedIsRefused /\ LoggedOutTokenIsDead
<1>1. SessionsStayApart
  <2>1. \A d \in refreshTokens : d.token \in Requests /\ d.userId # Nil
    BY ServerAssumption, SessionsAssumption DEF SessionsInv, StoreTypeOK,
       TokenDoc
  <2> QED
    BY <2>1 DEF SessionsInv, SessionsStayApart, ActsForOwner, CookiesOfOwner,
       CookiesBelongTo, StoredTokens
<1>2. BlockedIsRefused
  BY DEF SessionsInv, BlockedIsRefused, BarredGetsNowhere
<1>3. LoggedOutTokenIsDead
  BY DEF SessionsInv, LoggedOutTokenIsDead, LogoutDeleted
<1> QED BY <1>1, <1>2, <1>3

\* Accounts, tokens and cookies are well formed, and no handler goes on without
\* the account it acts for.
THEOREM SessionsTypes == SessionsSpec => []SessionsTypeOK
<1>1. SessionsInv(SessionLabels) => SessionsTypeOK
  BY DEF SessionsInv, RequestsInv, SessionsTypeOK, RequestsTypeOK
<1> QED BY <1>1, SessionsInvariance, PTL

\* Every request acts for the owner of its browser, and the cookies a browser
\* holds lead to its owner's account.
THEOREM SessionsApart == SessionsSpec => []SessionsStayApart
<1>1. SessionsInv(SessionLabels) => SessionsStayApart
  BY SessionsPromises
<1> QED BY <1>1, SessionsInvariance, PTL

\* Who is blocked while a request is served gets nothing from it, but for the
\* two endpoints that do not look.
THEOREM SessionsBlocked == SessionsSpec => []BlockedIsRefused
<1>1. SessionsInv(SessionLabels) => BlockedIsRefused
  BY SessionsPromises
<1> QED BY <1>1, SessionsInvariance, PTL

\* No login or refresh brings back a token that a logout has deleted.
THEOREM SessionsLoggedOut == SessionsSpec => []LoggedOutTokenIsDead
<1>1. SessionsInv(SessionLabels) => LoggedOutTokenIsDead
  BY SessionsPromises
<1> QED BY <1>1, SessionsInvariance, PTL
=============================================================================
