---------------------------- MODULE AdminProofs -----------------------------
(***************************************************************************)
(* What TLAPS proves about Admin for any number of requests, accounts,     *)
(* people and browsers, overlapping and failing in any way.                *)
(***************************************************************************)
EXTENDS Admin, TLAPS

-----------------------------------------------------------------------------
(* The inductive invariant.  Whoever acts has shown a token of his own, and *)
(* whoever has a session is an admin; an update is not over while a user is *)
(* left for it to come to.                                                  *)

\* The handlers that start or renew a session.
SessionLabels == {"findAdmin", "compare", "findToken", "findTokenUser",
                  "matchToken", "insertToken", "setCookies"}
GuardedRoutes == {"logout", "users", "updateStatus"}

Ids == {u.id : u \in users}

UniqueIds == \A u, v \in users : u.id = v.id => u = v

\* A handler is at the steps of its endpoint, has found an account only where it
\* looks for one, and has replied only at the end.
AdminOnItsWay ==
  \A r \in Requests :
    /\ pc[r] = "idle" => unmatched[r] = {} /\ over[r] = {}
    /\ pc[r] \in {"idle", "findAdmin", "findToken", "guard"} => userId[r] = Nil
    /\ pc[r] # "idle" => browser[r] \in Browsers /\ email[r] = Owner[browser[r]]
    /\ pc[r] # "replied" => reply[r] = Nil
    /\ pc[r] \in SessionLabels => route[r] \notin GuardedRoutes
    /\ pc[r] = "guard" => route[r] \in GuardedRoutes /\ unmatched[r] = {}
    /\ pc[r] = "clearCookies" => route[r] = "logout"
    /\ pc[r] = "findUsers" => route[r] = "users"
    /\ pc[r] = "updateMany" => route[r] = "updateStatus"
    /\ pc[r] # "idle" /\ route[r] # "updateStatus" => userIds[r] = {}
    /\ route[r] = "updateStatus" /\ reply[r] = "ok" =>
         unmatched[r] = {} /\ userId[r] # Nil

\* A handler acts for an account of its sender, and past the check of the role
\* for an admin's; an update is one that the guard let through.
ActsForOwner ==
  \A r \in Requests :
    /\ userId[r] # Nil => BelongsTo(userId[r], email[r])
    /\ pc[r] \in {"findTokenUser", "matchToken", "insertToken", "setCookies"} =>
         IsAdmin(userId[r], email[r])
    /\ unmatched[r] # {} => LetThrough(r) /\ unmatched[r] \subseteq userIds[r]

\* A refresh token belongs to an admin account of who asked for it.
TokensOfAdmins ==
  \A d \in adminTokens :
    pc[d.token] # "idle" /\ IsAdmin(d.userId, email[d.token])

\* If c has a refresh token, it is one that person e asked for.
RefreshOf(c, e) ==
  c.refresh # Nil => pc[c.refresh.token] # "idle" /\ email[c.refresh.token] = e

\* The cookies of a browser are its owner's; so are those he sends, which need
\* not be an admin's.
JarOf(b) ==
  /\ jar[b].access # Nil => IsAdmin(jar[b].access.userId, Owner[b])
  /\ RefreshOf(jar[b], Owner[b])

JarsOfAdmins == \A b \in Browsers : JarOf(b)

CookiesOf(r) ==
  /\ cookies[r].access # Nil => BelongsTo(cookies[r].access.userId, email[r])
  /\ RefreshOf(cookies[r], email[r])

CookiesOfOwners == \A r \in Requests : pc[r] # "idle" => CookiesOf(r)

OverForGood == \A r \in Requests : \A q \in over[r] : IsOver(q)

\* An update has yet to come to a user, or has given him its status, or has been
\* undone since.
UpdatesHold ==
  \A r \in Requests : LetThrough(r) =>
    \A id \in (userIds[r] \cap Ids) \ unmatched[r] :
      (id \in blocked) = (action[r] = "block") \/ Undone(r, id)

AdminInv ==
  /\ AdminTypeOK
  /\ UniqueIds
  /\ AdminOnItsWay
  /\ ActsForOwner
  /\ TokensOfAdmins
  /\ JarsOfAdmins
  /\ CookiesOfOwners
  /\ OverForGood
  /\ BlockedOnRequest
  /\ UpdatesHold

-----------------------------------------------------------------------------
(* What every step leaves alone, and the parts that follow from it.        *)

\* No step changes what a request came with, wakes up a handler that has ended,
\* changes the account a handler has found, or gives an update more to do once
\* the guard is passed.
Onward ==
  /\ users' = users
  /\ \A q \in Requests :
       /\ pc[q] # "idle" =>
            /\ pc'[q] # "idle"
            /\ route'[q] = route[q] /\ email'[q] = email[q]
            /\ cookies'[q] = cookies[q] /\ userIds'[q] = userIds[q]
            /\ action'[q] = action[q] /\ over'[q] = over[q]
       /\ pc[q] \in {"replied", "lost"} => pc'[q] = pc[q]
       /\ \A p \in over'[q] : p \in over[q] \/ (p \in Requests /\ IsOver(p))
       /\ userId[q] # Nil => userId'[q] = userId[q]
       /\ pc[q] # "guard" => unmatched'[q] \subseteq unmatched[q]

\* An update starts from all users it lists, and otherwise nothing is updated.
NoUpdate ==
  /\ blocked' = blocked
  /\ \A q \in Requests : LetThrough(q)' =>
       \/ LetThrough(q) /\ unmatched'[q] = unmatched[q]
       \/ unmatched'[q] = userIds'[q] \cap Ids

\* Whose an account is, and whether an admin's, is a matter of users.
LEMMA AccountsForever ==
  ASSUME users' = users
  PROVE  /\ \A id, e : IsAdmin(id, e)' = IsAdmin(id, e)
         /\ \A id, e : BelongsTo(id, e)' = BelongsTo(id, e)
         /\ Ids' = Ids /\ (UniqueIds => UniqueIds')
BY DEF IsAdmin, BelongsTo, UsersOf, Ids, UniqueIds

\* An admin's account belongs to somebody, and an account is not null.
LEMMA OwnersExist ==
  ASSUME AdminInv
  PROVE  /\ \A id, e : IsAdmin(id, e) => BelongsTo(id, e)
         /\ \A id, e : BelongsTo(id, e) => id \in UserIds /\ id # Nil /\ id \in Ids
BY AdminAssumption
   DEF AdminInv, AdminTypeOK, StoreTypeOK, UserDoc, IsAdmin, BelongsTo, UsersOf, Ids

\* What the guard let through, what is over and what is undone stays so.
LEMMA StaysSo ==
  ASSUME AdminInv, Onward
  PROVE  /\ \A q \in Requests : LetThrough(q) =>
              LetThrough(q)' /\ pc[q] \notin {"idle", "guard"} /\ userId[q] # Nil
         /\ \A q \in Requests : IsOver(q) => IsOver(q)'
         /\ \A q, r \in Requests : \A id :
              /\ LetThrough(r)
              /\ q \notin over[r] /\ LetThrough(q) /\ action[q] # action[r]
              /\ id \in userIds[q] \ unmatched[q]
              => Undone(r, id)'
<1>1. \A q \in Requests : LetThrough(q) =>
        userId[q] # Nil /\ pc[q] \notin {"idle", "guard"}
  BY OwnersExist DEF LetThrough, AdminInv, AdminOnItsWay
<1>2. \A q \in Requests : LetThrough(q) => LetThrough(q)'
  BY <1>1, AccountsForever DEF LetThrough, Onward
<1>3. \A q \in Requests : IsOver(q) => IsOver(q)'
  BY DEF IsOver, Onward
<1>4. \A q, r \in Requests : \A id :
        /\ LetThrough(r)
        /\ q \notin over[r] /\ LetThrough(q) /\ action[q] # action[r]
        /\ id \in userIds[q] \ unmatched[q]
        => q \in Requests \ over'[r] /\ action'[q] # action'[r]
           /\ id \in userIds'[q] \ unmatched'[q]
  BY <1>1 DEF Onward
<1> QED BY <1>1, <1>2, <1>3, <1>4 DEF Undone

\* A refresh token's owner is whoever asked for it.
LEMMA RefreshForever ==
  ASSUME AdminInv, Onward
  PROVE  \A c \in Cookies : \A e : RefreshOf(c, e) => RefreshOf(c, e)'
BY AdminDocsAssumption DEF RefreshOf, Onward, Cookies, RefreshCookie

\* The parts of the invariant that are about what requests came with, but for the
\* cookies of a request that comes in.
LEMMA OnwardInv ==
  ASSUME AdminInv, Onward,
         \A q \in Requests : pc[q] = "idle" /\ pc'[q] # "idle" => CookiesOf(q)'
  PROVE  UniqueIds' /\ CookiesOfOwners' /\ OverForGood'
<1> USE ServerAssumption, AdminAssumption, AdminDocsAssumption DEF AdminInv
<1>1. UniqueIds'
  BY AccountsForever DEF Onward
<1>2. OverForGood'
  <2>1. \A q \in Requests : over[q] \subseteq Requests
    BY DEF AdminTypeOK, StoreTypeOK
  <2> QED BY <2>1, StaysSo DEF Onward, OverForGood
<1>3. CookiesOfOwners'
  <2> SUFFICES ASSUME NEW q \in Requests, pc'[q] # "idle"
               PROVE  CookiesOf(q)'
    BY DEF CookiesOfOwners
  <2>1. cookies[q] \in Cookies
    BY DEF AdminTypeOK, RequestsTypeOK
  <2>2. CASE pc[q] # "idle"
    <3>1. cookies'[q] = cookies[q] /\ email'[q] = email[q] /\ users' = users
      BY <2>2 DEF Onward
    <3>2. CookiesOf(q)
      BY <2>2 DEF CookiesOfOwners
    <3> QED BY <2>1, <3>1, <3>2, RefreshForever, AccountsForever
            DEF CookiesOf, RefreshOf
  <2>3. CASE pc[q] = "idle"
    BY <2>3
  <2> QED BY <2>2, <2>3
<1> QED BY <1>1, <1>2, <1>3

\* A browser whose cookies a step does not set keeps what the invariant says.
LEMMA JarStays ==
  ASSUME AdminInv, Onward, NEW b \in Browsers, jar'[b] = jar[b]
  PROVE  JarOf(b)'
<1>1. jar[b] \in Cookies /\ JarOf(b) /\ users' = users
  BY DEF AdminInv, AdminTypeOK, StoreTypeOK, JarsOfAdmins, Onward
<1> QED BY <1>1, RefreshForever, AccountsForever DEF JarOf, RefreshOf

\* And those that are about updates, when no user is updated.
LEMMA NoUpdateInv ==
  ASSUME AdminInv, Onward, NoUpdate
  PROVE  BlockedOnRequest' /\ UpdatesHold'
<1> USE DEF AdminInv
<1>1. BlockedOnRequest'
  <2> SUFFICES ASSUME NEW id \in blocked
               PROVE  \E q \in Requests : /\ LetThrough(q)' /\ action'[q] = "block"
                                          /\ id \in userIds'[q]
    BY DEF BlockedOnRequest, NoUpdate
  <2>1. PICK q \in Requests :
          LetThrough(q) /\ action[q] = "block" /\ id \in userIds[q]
    BY DEF BlockedOnRequest
  <2> QED BY <2>1, StaysSo DEF Onward
<1>2. UpdatesHold'
  <2> SUFFICES ASSUME NEW q \in Requests, LetThrough(q)',
                      NEW id \in (userIds'[q] \cap Ids) \ unmatched'[q]
               PROVE  (id \in blocked) = (action'[q] = "block") \/ Undone(q, id)'
    BY AccountsForever DEF UpdatesHold, NoUpdate, Onward
  <2>1. LetThrough(q) /\ unmatched'[q] = unmatched[q]
    BY DEF NoUpdate
  <2>2. action'[q] = action[q] /\ userIds'[q] = userIds[q]
    BY <2>1, StaysSo DEF Onward
  <2>3. (id \in blocked) = (action[q] = "block") \/ Undone(q, id)
    BY <2>1, <2>2 DEF UpdatesHold
  <2> QED BY <2>1, <2>2, <2>3, StaysSo DEF Undone
<1> QED BY <1>1, <1>2

\* An arrival brings the cookies of its browser, or a user token, and nothing
\* else is there yet.
LEMMA AdminArrivalInv ==
  ASSUME AdminInv, NEW r \in Requests, AdminArrival(r)
  PROVE  AdminInv'
<1> USE ServerAssumption, AdminAssumption, AdminDocsAssumption
<1>a. PICK b \in Browsers :
        \/ AdminLogin(r, b) \/ AdminRefresh(r, b) \/ AdminLogout(r, b) \/ GetUsers(r, b)
        \/ \E ids \in SUBSET UserIds, act \in {"block", "unblock"} :
             UpdateStatus(r, b, ids, act)
  BY DEF AdminArrival
<1>0. PICK rt \in {"adminLogin", "refresh"} \union GuardedRoutes,
           l \in {"findAdmin", "findToken", "guard"},
           sent \in {{NoCookies}, SentToRefresh(b), SentToGuard(b)},
           ids \in SUBSET UserIds, act \in {"block", "unblock", Nil} :
        /\ Call(r, b, rt, l, sent, ids, act)
        /\ l = "guard" <=> rt \in GuardedRoutes
        /\ rt # "updateStatus" => ids = {}
  BY <1>a DEF AdminLogin, AdminRefresh, AdminLogout, GetUsers,
     UpdateStatus, GuardedRoutes
<1> USE DEF AdminInv
<1>1. PICK c \in Cookies :
        /\ c \in sent /\ cookies' = [cookies EXCEPT ![r] = c]
        /\ c.access # Nil => BelongsTo(c.access.userId, Owner[b])
        /\ RefreshOf(c, Owner[b])
  <2>1. PICK c \in sent : cookies' = [cookies EXCEPT ![r] = c]
    BY <1>0 DEF Call
  <2>2. jar[b] \in Cookies /\ now \in Nat /\ users \subseteq UserDoc
    BY DEF AdminTypeOK, RequestsTypeOK, StoreTypeOK
  <2>3. /\ jar[b].access # Nil => BelongsTo(jar[b].access.userId, Owner[b])
        /\ RefreshOf(jar[b], Owner[b])
    BY OwnersExist DEF JarsOfAdmins, JarOf
  <2>4. /\ Live(jar[b].access) \in {Nil, jar[b].access}
        /\ Live(jar[b].refresh) \in {Nil, jar[b].refresh}
    BY DEF Live
  <2>5. \A a \in UserTokens(b) :
          a \in AccessToken /\ BelongsTo(a.userId, Owner[b])
    BY <2>2 DEF UserTokens, SignedFor, UsersOf, AccessToken, UserDoc, BelongsTo
  <2>c. c = NoCookies \/ c \in SentToRefresh(b) \/ c \in SentToGuard(b)
    BY <2>1
  <2>6. \/ c.access \in {Nil, jar[b].access} \/ c.access \in UserTokens(b)
    BY <2>4, <2>c DEF SentToGuard, SentToRefresh, NoCookies
  <2>7. c.refresh \in {Nil, jar[b].refresh}
    BY <2>4, <2>c DEF SentToGuard, SentToRefresh, NoCookies
  <2>8. c = [access |-> c.access, refresh |-> c.refresh]
    BY <2>c DEF SentToGuard, SentToRefresh, NoCookies
  <2>9. /\ c.access \in AccessToken \union {Nil}
        /\ c.access # Nil => BelongsTo(c.access.userId, Owner[b])
    BY <2>2, <2>3, <2>5, <2>6 DEF Cookies
  <2>10. c.refresh \in RefreshCookie \union {Nil} /\ RefreshOf(c, Owner[b])
    BY <2>2, <2>3, <2>7 DEF Cookies, RefreshOf
  <2>11. c \in Cookies
    BY <2>8, <2>9, <2>10 DEF Cookies
  <2> QED BY <2>1, <2>9, <2>10, <2>11
<1> USE DEF Call, Arrive, storeVars
<1>2. AdminTypeOK'
  BY <1>0, <1>1 DEF AdminTypeOK, RequestsTypeOK, StoreTypeOK, AdminLabels,
     ActsForUser, AtRest
<1>3. AdminOnItsWay'
  BY <1>0 DEF AdminOnItsWay, AdminTypeOK, RequestsTypeOK, StoreTypeOK,
     SessionLabels, GuardedRoutes, Outcomes
<1>4. Onward
  <2>1. \A q \in Requests \ {r} :
          /\ pc'[q] = pc[q] /\ route'[q] = route[q] /\ email'[q] = email[q]
          /\ cookies'[q] = cookies[q] /\ userIds'[q] = userIds[q]
          /\ action'[q] = action[q] /\ over'[q] = over[q]
    BY <1>0, <1>1 DEF AdminTypeOK, RequestsTypeOK, StoreTypeOK
  <2>2. \A p \in over'[r] : p \in Requests /\ IsOver(p)
    BY <1>0 DEF AdminTypeOK, StoreTypeOK
  <2>3. pc[r] = "idle" /\ UNCHANGED <<users, userId, unmatched>>
    BY <1>0
  <2> QED BY <2>1, <2>2, <2>3 DEF Onward
<1>5. userId[r] = Nil /\ userId'[r] = Nil /\ unmatched'[r] = {} /\ ~LetThrough(r)'
  BY <1>0, OwnersExist, AccountsForever DEF AdminOnItsWay, LetThrough
<1>6. NoUpdate
  <2>1. \A q \in Requests \ {r} : LetThrough(q)' => LetThrough(q)
    BY <1>0, AccountsForever DEF LetThrough, AdminTypeOK, RequestsTypeOK
  <2> QED BY <1>0, <1>5, <2>1 DEF NoUpdate
<1>7. ActsForOwner'
  <2>1. \A q \in Requests \ {r} :
          /\ pc'[q] = pc[q] /\ email'[q] = email[q] /\ userId'[q] = userId[q]
          /\ unmatched'[q] = unmatched[q] /\ userIds'[q] = userIds[q]
    BY <1>0 DEF AdminTypeOK, RequestsTypeOK
  <2>2. pc'[r] \in {"findAdmin", "findToken", "guard"}
    BY <1>0 DEF AdminTypeOK, RequestsTypeOK
  <2> QED BY <1>0, <1>4, <1>5, <2>1, <2>2, StaysSo, AccountsForever DEF ActsForOwner
<1>8. TokensOfAdmins'
  BY <1>0, <1>4, AccountsForever DEF TokensOfAdmins, Onward, AdminTypeOK,
     StoreTypeOK, TokenDoc
<1>9. JarsOfAdmins'
  BY <1>0, <1>4, JarStays DEF JarsOfAdmins
<1>10. UniqueIds' /\ CookiesOfOwners' /\ OverForGood'
  <2>1. \A q \in Requests : pc[q] = "idle" /\ pc'[q] # "idle" => q = r
    BY <1>0 DEF AdminTypeOK, RequestsTypeOK
  <2>2. cookies'[r] = c /\ email'[r] = Owner[b] /\ users' = users
    BY <1>0, <1>1 DEF AdminTypeOK, RequestsTypeOK
  <2>3. CookiesOf(r)'
    BY <1>1, <1>4, <2>2, RefreshForever, AccountsForever DEF CookiesOf, RefreshOf
  <2> QED BY <1>4, <2>1, <2>3, OnwardInv
<1>11. BlockedOnRequest' /\ UpdatesHold'
  BY <1>4, <1>6, NoUpdateInv
<1> QED BY <1>2, <1>3, <1>7, <1>8, <1>9, <1>10, <1>11

\* The endpoints behind the guard, and where each one goes on.
LEMMA Endpoints ==
  /\ DOMAIN Guarded = GuardedRoutes
  /\ Guarded["logout"] = "clearCookies"
  /\ Guarded["users"] = "findUsers"
  /\ Guarded["updateStatus"] = "updateMany"
BY DEF Guarded, GuardedRoutes

\* What a step of a handler does to the variables of the requests: the handler
\* of r moves on to l or replies, and may have found account id.
Moves(r, l, outcome, id, todo) ==
  /\ pc[r] \notin AtRest /\ l # "idle"
  /\ pc' = [pc EXCEPT ![r] = l]
  /\ reply' = [reply EXCEPT ![r] = outcome]
  /\ userId' = [userId EXCEPT ![r] = id]
  /\ unmatched' = [unmatched EXCEPT ![r] = todo]
  /\ dated' = dated \/ dated' = [dated EXCEPT ![r] = now]
  /\ UNCHANGED <<route, email, now, bodyVars, users, blocked>>
  /\ userId[r] # Nil => id = userId[r]
  /\ pc[r] # "guard" => todo = unmatched[r]

\* Such a step changes nothing but r, and goes onward.
LEMMA MovesOnward ==
  ASSUME AdminInv, NEW r \in Requests, NEW l, NEW outcome, NEW id, NEW todo,
         Moves(r, l, outcome, id, todo)
  PROVE  /\ Onward /\ UniqueIds' /\ CookiesOfOwners' /\ OverForGood'
         /\ \A q \in Requests \ {r} :
              /\ pc'[q] = pc[q] /\ reply'[q] = reply[q]
              /\ userId'[q] = userId[q] /\ unmatched'[q] = unmatched[q]
              /\ LetThrough(q)' = LetThrough(q)
         /\ pc'[r] = l /\ reply'[r] = outcome /\ userId'[r] = id
         /\ unmatched'[r] = todo
<1> USE ServerAssumption, AdminAssumption, AdminDocsAssumption
    DEF AdminInv, Moves, bodyVars
<1>1. /\ \A q \in Requests \ {r} :
           /\ pc'[q] = pc[q] /\ reply'[q] = reply[q]
           /\ userId'[q] = userId[q] /\ unmatched'[q] = unmatched[q]
      /\ pc'[r] = l /\ reply'[r] = outcome /\ userId'[r] = id
      /\ unmatched'[r] = todo
  BY DEF AdminTypeOK, RequestsTypeOK, StoreTypeOK
<1>2. Onward
  BY <1>1 DEF Onward, AtRest
<1>3. \A q \in Requests \ {r} : LetThrough(q)' = LetThrough(q)
  BY <1>1, AccountsForever DEF LetThrough
<1>4. \A q \in Requests : pc[q] = "idle" => pc'[q] = "idle"
  BY <1>1 DEF AtRest
<1> QED BY <1>1, <1>2, <1>3, <1>4, OnwardInv

\* When it does not come out of the guard, an update lists the users it listed.
LEMMA MovesNoUpdate ==
  ASSUME AdminInv, NEW r \in Requests, NEW l, NEW outcome, NEW id, NEW todo,
         Moves(r, l, outcome, id, todo),
         \/ route[r] # "updateStatus"
         \/ todo = unmatched[r] /\ id = userId[r]
         \/ todo = userIds[r] \cap Ids
  PROVE  BlockedOnRequest' /\ UpdatesHold'
<1>1. /\ Onward
      /\ \A q \in Requests \ {r} :
           unmatched'[q] = unmatched[q] /\ LetThrough(q)' = LetThrough(q)
      /\ unmatched'[r] = todo /\ userId'[r] = id
  BY MovesOnward
<1>2. /\ blocked' = blocked /\ route' = route /\ email' = email
      /\ userIds' = userIds /\ users' = users
  BY DEF Moves, bodyVars
<1>3. LetThrough(r)' =>
        \/ LetThrough(r) /\ unmatched'[r] = unmatched[r]
        \/ unmatched'[r] = userIds'[r] \cap Ids
  BY <1>1, <1>2, AccountsForever DEF LetThrough
<1> QED BY <1>1, <1>2, <1>3, NoUpdateInv DEF NoUpdate

\* The handler of r goes where its endpoint leads, with an account of its sender,
\* an admin's where a session is at stake, and an update as the guard starts it.
RightWay(r, l, outcome, id, todo) ==
  /\ l \in (AdminLabels \ {"findAdmin", "findToken", "guard"}) \union {"replied"}
  /\ outcome \in Outcomes \union {Nil} /\ (l # "replied" => outcome = Nil)
  /\ id \in Ids \union {Nil} /\ (l # "replied" => id # Nil)
  /\ todo \subseteq Ids
  /\ l \in SessionLabels => route[r] \notin GuardedRoutes
  /\ l = "clearCookies" => route[r] = "logout"
  /\ l = "findUsers" => route[r] = "users"
  /\ l = "updateMany" => route[r] = "updateStatus"
  /\ route[r] = "updateStatus" /\ outcome = "ok" => todo = {} /\ id # Nil
  /\ id # Nil => BelongsTo(id, email[r])
  /\ l \in {"findTokenUser", "matchToken", "insertToken", "setCookies"} =>
       IsAdmin(id, email[r])
  /\ \/ todo = unmatched[r] /\ (route[r] # "updateStatus" \/ id = userId[r])
     \/ todo = userIds[r] \cap Ids /\ id # Nil

\* A step on the right way keeps all of the invariant that is not about the
\* tokens and the browsers, and that too when it leaves them alone.
LEMMA RightWayInv ==
  ASSUME AdminInv, NEW r \in Requests, NEW l, NEW outcome, NEW id, NEW todo,
         Moves(r, l, outcome, id, todo), RightWay(r, l, outcome, id, todo)
  PROVE  /\ adminTokens' \subseteq TokenDoc /\ jar' \in [Browsers -> Cookies]
            => AdminTypeOK'
         /\ UniqueIds' /\ AdminOnItsWay' /\ ActsForOwner' /\ CookiesOfOwners'
         /\ OverForGood' /\ BlockedOnRequest' /\ UpdatesHold'
         /\ adminTokens' = adminTokens => TokensOfAdmins'
         /\ jar' = jar => JarsOfAdmins'
<1> USE ServerAssumption, AdminAssumption, AdminDocsAssumption DEF AdminInv
<1>1. /\ Onward /\ UniqueIds' /\ CookiesOfOwners' /\ OverForGood'
      /\ \A q \in Requests \ {r} :
           /\ pc'[q] = pc[q] /\ reply'[q] = reply[q]
           /\ userId'[q] = userId[q] /\ unmatched'[q] = unmatched[q]
           /\ LetThrough(q)' = LetThrough(q)
      /\ pc'[r] = l /\ reply'[r] = outcome /\ userId'[r] = id
      /\ unmatched'[r] = todo
  BY MovesOnward
<1>2. UNCHANGED <<route, email, now, browser, cookies, userIds, action, over,
                  users, blocked>>
  BY DEF Moves, bodyVars
<1>3. pc[r] \notin AtRest /\ (pc[r] # "guard" => todo = unmatched[r])
  BY DEF Moves
<1>4. BlockedOnRequest' /\ UpdatesHold'
  BY MovesNoUpdate DEF RightWay
<1>5. RequestsTypeOK'
  <2>1. pc' \in [Requests -> AtRest \union AdminLabels]
    BY DEF Moves, RightWay, AdminTypeOK, RequestsTypeOK, AtRest
  <2>2. reply' \in [Requests -> Outcomes \union {Nil}]
    BY DEF Moves, RightWay, AdminTypeOK, RequestsTypeOK
  <2>3. dated' \in [Requests -> 0..MaxTime]
    BY DEF Moves, AdminTypeOK, RequestsTypeOK
  <2> QED BY <1>2, <2>1, <2>2, <2>3 DEF AdminTypeOK, RequestsTypeOK
<1>6. ASSUME adminTokens' \subseteq TokenDoc, jar' \in [Browsers -> Cookies]
      PROVE  AdminTypeOK'
  <2>1. unmatched' \in [Requests -> SUBSET Ids] /\ userId' \in [Requests -> Ids \union {Nil}]
    BY DEF Moves, RightWay, AdminTypeOK, StoreTypeOK, Ids
  <2>2. \A q \in Requests : pc'[q] \in ActsForUser => userId'[q] # Nil
    BY <1>1 DEF RightWay, AdminTypeOK, ActsForUser, AdminLabels
  <2> QED BY <1>2, <1>5, <1>6, <2>1, <2>2 DEF AdminTypeOK, StoreTypeOK, Ids
<1>7. AdminOnItsWay'
  <2>1. l \notin {"idle", "findAdmin", "findToken", "guard", "lost"}
    BY DEF RightWay, AdminLabels
  <2> QED BY <1>1, <1>2, <1>3, <2>1 DEF AdminOnItsWay, RightWay, AtRest, Outcomes
<1>8. ActsForOwner'
  <2>1. \A q \in Requests \ {r} :
          /\ userId'[q] # Nil => BelongsTo(userId[q], email[q])'
          /\ pc'[q] \in {"findTokenUser", "matchToken", "insertToken", "setCookies"}
               => IsAdmin(userId[q], email[q])'
          /\ unmatched'[q] # {} => LetThrough(q)' /\ unmatched'[q] \subseteq userIds'[q]
    BY <1>1, <1>2, AccountsForever DEF ActsForOwner
  <2>2. /\ userId'[r] # Nil => BelongsTo(userId[r], email[r])'
        /\ pc'[r] \in {"findTokenUser", "matchToken", "insertToken", "setCookies"}
             => IsAdmin(userId[r], email[r])'
    BY <1>1, <1>2, AccountsForever DEF RightWay
  <2>3. ASSUME unmatched'[r] # {}
        PROVE  LetThrough(r)' /\ unmatched'[r] \subseteq userIds'[r]
    <3>1. CASE todo = unmatched[r] /\ (route[r] # "updateStatus" \/ id = userId[r])
      <4>1. LetThrough(r) /\ unmatched[r] \subseteq userIds[r]
        BY <1>1, <2>3, <3>1 DEF ActsForOwner
      <4> QED BY <1>1, <1>2, <3>1, <4>1, StaysSo
    <3>2. CASE todo = userIds[r] \cap Ids /\ id # Nil
      <4>1. route[r] = "updateStatus" /\ BelongsTo(id, email[r])
        BY <1>1, <1>3, <2>3, <3>2 DEF AdminOnItsWay, RightWay, AtRest
      <4> QED BY <1>1, <1>2, <3>2, <4>1, AccountsForever DEF LetThrough
    <3> QED BY <3>1, <3>2 DEF RightWay
  <2> QED BY <2>1, <2>2, <2>3 DEF ActsForOwner
<1>9. ASSUME adminTokens' = adminTokens PROVE TokensOfAdmins'
  BY <1>1, <1>2, <1>9, AccountsForever DEF TokensOfAdmins, Onward, AdminTypeOK,
     StoreTypeOK, TokenDoc
<1>10. ASSUME jar' = jar PROVE JarsOfAdmins'
  BY <1>1, <1>10, JarStays DEF JarsOfAdmins
<1> QED BY <1>1, <1>4, <1>6, <1>7, <1>8, <1>9, <1>10

\* A handler that refuses, or fails, has the account it had.
LEMMA RefusalMoves ==
  ASSUME AdminInv, NEW r \in Requests, pc[r] \notin AtRest,
         NEW outcome \in Outcomes, outcome # "ok", Reply(r, outcome),
         UNCHANGED adminVars
  PROVE  AdminInv'
<1> USE DEF AdminInv, Reply, adminVars, bodyVars, storeVars
<1>1. Moves(r, "replied", outcome, userId[r], unmatched[r])
  BY DEF Moves, AdminTypeOK, RequestsTypeOK, StoreTypeOK
<1>2. RightWay(r, "replied", outcome, userId[r], unmatched[r])
  BY DEF RightWay, AdminTypeOK, StoreTypeOK, Ids, ActsForOwner, AdminLabels,
     SessionLabels
<1>3. adminTokens' \subseteq TokenDoc /\ jar' \in [Browsers -> Cookies]
  BY DEF AdminTypeOK, StoreTypeOK
<1> QED BY <1>1, <1>2, <1>3, RightWayInv

\* Every step of a handler keeps the invariant.
LEMMA AdminHandlerInv ==
  ASSUME AdminInv, NEW r \in Requests, AdminHandler(r)
  PROVE  AdminInv'
<1> USE ServerAssumption, AdminAssumption, AdminDocsAssumption
    DEF AdminInv, bodyVars, storeVars, adminVars
<1>1. /\ pc \in [Requests -> AtRest \union AdminLabels]
      /\ reply \in [Requests -> Outcomes \union {Nil}]
      /\ userId \in [Requests -> Ids \union {Nil}]
      /\ unmatched \in [Requests -> SUBSET Ids]
      /\ adminTokens \subseteq TokenDoc /\ jar \in [Browsers -> Cookies]
      /\ \A u \in users : u.id \in Ids /\ u.id \in UserIds /\ u.id # Nil
      /\ dated[r] \in Nat /\ now \in Nat
  BY DEF AdminTypeOK, RequestsTypeOK, StoreTypeOK, UserDoc, Ids
<1>2. /\ pc[r] \in AdminLabels => pc[r] \notin AtRest
      /\ pc[r] \in ActsForUser => userId[r] # Nil /\ BelongsTo(userId[r], email[r])
      /\ pc[r] # "replied" => reply[r] = Nil
      /\ pc[r] \in {"findAdmin", "findToken", "guard"} => userId[r] = Nil
  BY DEF AdminLabels, AtRest, ActsForUser, ActsForOwner, AdminOnItsWay, AdminTypeOK
<1>3. ASSUME NEW l \in {"compare", "findTokenUser", "matchToken", "insertToken",
                        "setCookies"},
             pc[r] \in AdminLabels \ {"guard"}, Goto(r, l),
             NEW id \in Ids, userId' = [userId EXCEPT ![r] = id],
             userId[r] # Nil => id = userId[r],
             UNCHANGED <<bodyVars, users, blocked, unmatched>>,
             route[r] \notin GuardedRoutes, BelongsTo(id, email[r]),
             l # "compare" => IsAdmin(id, email[r])
      PROVE  /\ Moves(r, l, Nil, id, unmatched[r])
             /\ RightWay(r, l, Nil, id, unmatched[r])
  <2>1. Moves(r, l, Nil, id, unmatched[r])
    BY <1>1, <1>2, <1>3 DEF Moves, Goto, AdminLabels
  <2>2. route[r] # "updateStatus" /\ id # Nil
    BY <1>1, <1>3 DEF GuardedRoutes, Ids
  <2> QED BY <1>1, <1>3, <2>1, <2>2 DEF RightWay, AdminLabels
<1>4. CASE FindAdmin(r)
  <2>1. CASE Refuse(r)
    BY <1>2, <1>4, <2>1, RefusalMoves DEF FindAdmin, Refuse, AdminLabels, Outcomes
  <2>2. CASE \E u \in UsersOf(email[r]) : GotoAs(r, u.id, "compare")
    <3>1. PICK u \in UsersOf(email[r]) : GotoAs(r, u.id, "compare")
      BY <2>2
    <3>2. BelongsTo(u.id, email[r]) /\ u.id \in Ids
      BY DEF BelongsTo, UsersOf, Ids
    <3>3. pc[r] = "findAdmin" /\ unmatched' = unmatched /\ route[r] \notin GuardedRoutes
      BY <1>4 DEF FindAdmin, AdminOnItsWay, SessionLabels
    <3>4. /\ Moves(r, "compare", Nil, u.id, unmatched[r])
          /\ RightWay(r, "compare", Nil, u.id, unmatched[r])
      BY <1>2, <1>3, <3>1, <3>2, <3>3 DEF GotoAs, AdminLabels
    <3> QED BY <1>1, <3>1, <3>4, RightWayInv DEF GotoAs
  <2> QED BY <1>4, <2>1, <2>2 DEF FindAdmin
<1>5. CASE CompareAdmin(r)
  <2>0. pc[r] = "compare" /\ UNCHANGED adminVars /\ route[r] \notin GuardedRoutes
    BY <1>5 DEF CompareAdmin, AdminOnItsWay, SessionLabels
  <2>1. CASE Reply(r, "unauthorized") \/ Reply(r, "serverError")
    BY <1>2, <2>0, <2>1, RefusalMoves DEF AdminLabels, Outcomes
  <2>2. CASE /\ \E u \in users : u.id = userId[r] /\ u.role = "admin"
             /\ Goto(r, "matchToken")
    <3>1. IsAdmin(userId[r], email[r]) /\ userId[r] \in Ids
      BY <1>2, <2>0, <2>2 DEF IsAdmin, BelongsTo, UsersOf, UniqueIds, Ids,
         ActsForUser, AdminLabels
    <3>2. BelongsTo(userId[r], email[r]) /\ userId' = [userId EXCEPT ![r] = userId[r]]
      BY <1>1, <2>0, <3>1, OwnersExist
    <3>3. /\ Moves(r, "matchToken", Nil, userId[r], unmatched[r])
          /\ RightWay(r, "matchToken", Nil, userId[r], unmatched[r])
      BY <1>3, <2>0, <2>2, <3>1, <3>2 DEF AdminLabels
    <3> QED BY <1>1, <2>0, <3>3, RightWayInv
  <2> QED BY <1>5, <2>1, <2>2 DEF CompareAdmin
<1>6. CASE RefreshFindsToken(r)
  <2>1. CASE Refuse(r)
    BY <1>2, <1>6, <2>1, RefusalMoves DEF RefreshFindsToken, Refuse, AdminLabels,
       Outcomes
  <2>2. CASE \E d \in adminTokens :
               /\ cookies[r].refresh # Nil /\ d.token = cookies[r].refresh.token
               /\ GotoAs(r, d.userId, "findTokenUser")
    <3>1. PICK d \in adminTokens :
            /\ cookies[r].refresh # Nil /\ d.token = cookies[r].refresh.token
            /\ GotoAs(r, d.userId, "findTokenUser")
      BY <2>2
    <3>2. pc[r] = "findToken" /\ unmatched' = unmatched /\ route[r] \notin GuardedRoutes
      BY <1>6 DEF RefreshFindsToken, AdminOnItsWay, SessionLabels
    <3>3. IsAdmin(d.userId, email[r])
      BY <3>1, <3>2 DEF TokensOfAdmins, CookiesOfOwners, CookiesOf, RefreshOf
    <3>4. BelongsTo(d.userId, email[r]) /\ d.userId \in Ids
      BY <3>3, OwnersExist
    <3>5. /\ Moves(r, "findTokenUser", Nil, d.userId, unmatched[r])
          /\ RightWay(r, "findTokenUser", Nil, d.userId, unmatched[r])
      BY <1>2, <1>3, <3>1, <3>2, <3>3, <3>4 DEF GotoAs, AdminLabels
    <3> QED BY <1>1, <3>1, <3>5, RightWayInv DEF GotoAs
  <2> QED BY <1>6, <2>1, <2>2 DEF RefreshFindsToken
<1>7. CASE RefreshFindsUser(r)
  <2>0. pc[r] = "findTokenUser" /\ UNCHANGED adminVars /\ route[r] \notin GuardedRoutes
    BY <1>7 DEF RefreshFindsUser, AdminOnItsWay, SessionLabels
  <2>1. CASE Reply(r, "unauthorized")
    BY <1>2, <2>0, <2>1, RefusalMoves DEF AdminLabels, Outcomes
  <2>2. CASE Goto(r, "matchToken")
    <3>1. IsAdmin(userId[r], email[r]) /\ userId[r] \in Ids
          /\ BelongsTo(userId[r], email[r]) /\ userId' = [userId EXCEPT ![r] = userId[r]]
      BY <1>1, <2>0, OwnersExist DEF ActsForOwner
    <3>2. /\ Moves(r, "matchToken", Nil, userId[r], unmatched[r])
          /\ RightWay(r, "matchToken", Nil, userId[r], unmatched[r])
      BY <1>3, <2>0, <2>2, <3>1 DEF AdminLabels
    <3> QED BY <1>1, <2>0, <3>2, RightWayInv
  <2> QED BY <1>7, <2>1, <2>2 DEF RefreshFindsUser
<1>8. CASE MatchToken(r) \/ InsertToken(r)
  <2>1. /\ pc[r] \in {"matchToken", "insertToken"} /\ route[r] \notin GuardedRoutes
        /\ UNCHANGED <<bodyVars, users, blocked, jar, unmatched, userId>>
        /\ IsAdmin(userId[r], email[r])
    BY <1>8 DEF MatchToken, InsertToken, AdminOnItsWay, ActsForOwner, SessionLabels
  <2>2. /\ userId[r] \in Ids /\ userId[r] \in UserIds /\ BelongsTo(userId[r], email[r])
        /\ userId' = [userId EXCEPT ![r] = userId[r]]
    BY <1>1, <2>1, OwnersExist
  <2>3. PICK l \in {"insertToken", "setCookies"} : Goto(r, l)
    BY <1>8 DEF MatchToken, InsertToken
  <2>4. /\ Moves(r, l, Nil, userId[r], unmatched[r])
        /\ RightWay(r, l, Nil, userId[r], unmatched[r])
    BY <1>3, <2>1, <2>2, <2>3 DEF AdminLabels
  <2>5. \A id \in Requests : /\ NewToken(r, id, userId[r]) \in TokenDoc
                             /\ NewToken(r, id, userId[r]).token = r
                             /\ NewToken(r, id, userId[r]).userId = userId[r]
    BY <1>1, <2>2 DEF NewToken, TokenDoc
  <2>6. \A d \in adminTokens' : d \in adminTokens \/
          (d \in TokenDoc /\ d.token = r /\ d.userId = userId[r])
    <3>1. CASE MatchToken(r)
      <4>1. \/ adminTokens' = adminTokens
            \/ \E d \in adminTokens : d.userId = userId[r] /\
                 adminTokens' = (adminTokens \ {d}) \union {NewToken(r, d.id, d.userId)}
        BY <3>1 DEF MatchToken, Matches
      <4>2. \A d \in adminTokens : d.id \in Requests
        BY <1>1 DEF TokenDoc
      <4>3. CASE adminTokens' = adminTokens
        BY <4>3
      <4>4. ASSUME NEW d \in adminTokens, d.userId = userId[r],
                   adminTokens' = (adminTokens \ {d}) \union {NewToken(r, d.id, d.userId)}
            PROVE  \A t \in adminTokens' : t \in adminTokens \/
                     (t \in TokenDoc /\ t.token = r /\ t.userId = userId[r])
        <5>1. d.id \in Requests
          BY <4>2
        <5> QED BY <2>5, <4>4, <5>1
      <4> QED BY <4>1, <4>3, <4>4
    <3>2. CASE InsertToken(r)
      <4>1. adminTokens' = adminTokens \union {NewToken(r, r, userId[r])}
        BY <3>2 DEF InsertToken
      <4> QED BY <2>5, <4>1
    <3> QED BY <1>8, <3>1, <3>2
  <2>7. pc'[r] # "idle" /\ Onward /\ email' = email /\ users' = users
    BY <1>1, <2>1, <2>3, <2>4, MovesOnward DEF Goto
  <2>8. TokensOfAdmins'
    BY <1>1, <2>1, <2>6, <2>7, AccountsForever DEF TokensOfAdmins, Onward, TokenDoc
  <2>9. adminTokens' \subseteq TokenDoc /\ jar' = jar
    BY <1>1, <2>1, <2>6
  <2> QED BY <1>1, <2>4, <2>8, <2>9, RightWayInv
<1>9. CASE SetAdminTokenCookies(r)
  <2>0. /\ pc[r] = "setCookies" /\ Reply(r, "ok") /\ route[r] \notin GuardedRoutes
        /\ UNCHANGED <<bodyVars, users, blocked, adminTokens, unmatched, userId>>
        /\ IsAdmin(userId[r], email[r])
        /\ browser[r] \in Browsers /\ email[r] = Owner[browser[r]]
    BY <1>9 DEF SetAdminTokenCookies, AdminOnItsWay, ActsForOwner, SessionLabels
  <2>1. /\ Moves(r, "replied", "ok", userId[r], unmatched[r])
        /\ RightWay(r, "replied", "ok", userId[r], unmatched[r])
    <3>1. userId[r] \in Ids /\ userId[r] # Nil /\ BelongsTo(userId[r], email[r])
      BY <2>0, OwnersExist
    <3>2. Moves(r, "replied", "ok", userId[r], unmatched[r])
      BY <1>1, <1>2, <2>0 DEF Moves, Reply, AdminLabels
    <3>3. RightWay(r, "replied", "ok", userId[r], unmatched[r])
      BY <1>1, <2>0, <3>1 DEF RightWay, GuardedRoutes, SessionLabels, Outcomes
    <3> QED BY <3>2, <3>3
  <2>2. PICK c \in Cookies :
          /\ jar' = [jar EXCEPT ![browser[r]] = c]
          /\ c.access.userId = userId[r] /\ c.refresh # Nil /\ c.refresh.token = r
    <3>1. PICK u \in users :
            /\ u.id = userId[r]
            /\ jar' = [jar EXCEPT ![browser[r]] =
                 [access |-> SignedFor(u),
                  refresh |-> [token |-> r, exp |-> now + RefreshLifetime]]]
      BY <1>9 DEF SetAdminTokenCookies
    <3> DEFINE f == [token |-> r, exp |-> now + RefreshLifetime]
    <3>2. SignedFor(u) \in AccessToken /\ SignedFor(u).userId = userId[r]
      BY <1>1, <3>1 DEF SignedFor, AccessToken, UserDoc, AdminTypeOK, StoreTypeOK
    <3>3. f \in RefreshCookie /\ f.token = r /\ f # Nil
      BY <1>1 DEF RefreshCookie
    <3> HIDE DEF f
    <3>4. jar' = [jar EXCEPT ![browser[r]] = [access |-> SignedFor(u), refresh |-> f]]
      BY <3>1 DEF f
    <3>5. [access |-> SignedFor(u), refresh |-> f] \in Cookies
      BY <3>2, <3>3 DEF Cookies
    <3> QED BY <3>2, <3>3, <3>4, <3>5
  <2>3. /\ pc'[r] # "idle" /\ Onward /\ email' = email /\ users' = users
        /\ adminTokens' = adminTokens /\ jar' \in [Browsers -> Cookies]
    BY <1>1, <2>0, <2>1, <2>2, MovesOnward DEF Reply
  <2>4. JarsOfAdmins'
    <3>1. PICK b \in Browsers : b = browser[r]
      BY <2>0
    <3>2. \A p \in Browsers \ {b} : JarOf(p)'
      BY <1>1, <2>2, <2>3, <3>1, JarStays
    <3>3. jar'[b] = c
      BY <1>1, <2>2, <3>1
    <3>4. JarOf(b)'
      BY <2>0, <2>2, <2>3, <3>1, <3>3, AccountsForever DEF JarOf, RefreshOf
    <3> QED BY <3>2, <3>4 DEF JarsOfAdmins
  <2> QED BY <1>1, <2>1, <2>3, <2>4, RightWayInv
<1>10. CASE Guard(r)
  <2>0. /\ pc[r] = "guard" /\ route[r] \in GuardedRoutes
        /\ Guarded[route[r]] \in {"clearCookies", "findUsers", "updateMany"}
        /\ Guarded[route[r]] = "clearCookies" => route[r] = "logout"
        /\ Guarded[route[r]] = "findUsers" => route[r] = "users"
        /\ Guarded[route[r]] = "updateMany" => route[r] = "updateStatus"
    BY <1>10, Endpoints DEF Guard, AdminOnItsWay, GuardedRoutes
  <2>1. CASE Refuse(r)
    BY <1>2, <2>0, <2>1, RefusalMoves DEF Refuse, AdminLabels, Outcomes
  <2>2. CASE \E u \in users :
               /\ cookies[r].access # Nil /\ u.id = cookies[r].access.userId
               /\ GotoAs(r, u.id, Guarded[route[r]])
               /\ unmatched' = [unmatched EXCEPT ![r] = userIds[r] \cap Ids]
    <3>1. PICK u \in users :
            /\ cookies[r].access # Nil /\ u.id = cookies[r].access.userId
            /\ GotoAs(r, u.id, Guarded[route[r]])
            /\ unmatched' = [unmatched EXCEPT ![r] = userIds[r] \cap Ids]
      BY <2>2
    <3>2. BelongsTo(u.id, email[r])
      BY <2>0, <3>1 DEF CookiesOfOwners, CookiesOf
    <3> DEFINE l == Guarded[route[r]]
    <3>3. Moves(r, l, Nil, u.id, userIds[r] \cap Ids)
      BY <1>1, <1>2, <2>0, <3>1 DEF Moves, GotoAs, Goto, AdminLabels
    <3>4. RightWay(r, l, Nil, u.id, userIds[r] \cap Ids)
      BY <1>1, <2>0, <3>2 DEF RightWay, AdminLabels, SessionLabels, Outcomes
    <3> HIDE DEF l
    <3> QED BY <1>1, <3>1, <3>3, <3>4, RightWayInv DEF GotoAs
  <2> QED BY <1>10, <2>1, <2>2 DEF Guard, Ids
<1>11. CASE ClearAdminTokenCookies(r) \/ FindUsers(r) \/ ReplyUpdated(r)
  <2>1. /\ pc[r] \in {"clearCookies", "findUsers", "updateMany"}
        /\ Reply(r, "ok")
        /\ UNCHANGED <<bodyVars, users, blocked, adminTokens, unmatched, userId>>
        /\ pc[r] = "updateMany" => unmatched[r] = {}
        /\ route[r] = "updateStatus" => pc[r] = "updateMany"
    BY <1>11 DEF ClearAdminTokenCookies, FindUsers, ReplyUpdated, AdminOnItsWay
  <2>2. Moves(r, "replied", "ok", userId[r], unmatched[r])
    BY <1>1, <1>2, <2>1 DEF Moves, Reply, AdminLabels
  <2>3. RightWay(r, "replied", "ok", userId[r], unmatched[r])
    BY <1>1, <1>2, <2>1 DEF RightWay, SessionLabels, Outcomes, ActsForUser, AdminLabels
  <2>4. \/ jar' = jar
        \/ jar' = [jar EXCEPT ![browser[r]] = NoCookies]
    BY <1>11 DEF ClearAdminTokenCookies, FindUsers, ReplyUpdated
  <2>5. jar' \in [Browsers -> Cookies]
    BY <1>1, <2>4 DEF NoCookies, Cookies
  <2>6. JarsOfAdmins'
    <3>1. \A b \in Browsers : jar'[b] = jar[b] \/ jar'[b] = NoCookies
      BY <1>1, <2>4
    <3>2. Onward
      BY <2>2, MovesOnward
    <3>3. \A b \in Browsers : jar'[b] = NoCookies => JarOf(b)'
      BY DEF JarOf, RefreshOf, NoCookies
    <3> QED BY <3>1, <3>2, <3>3, JarStays DEF JarsOfAdmins
  <2> QED BY <1>1, <2>1, <2>2, <2>3, <2>5, <2>6, RightWayInv
<1> QED
  BY <1>4, <1>5, <1>6, <1>7, <1>8, <1>9, <1>10, <1>11 DEF AdminHandler

\* So does the update of one user, which may come after its handler is gone.
LEMMA AdminUpdateInv ==
  ASSUME AdminInv, NEW r \in Requests, UpdateUser(r)
  PROVE  AdminInv'
<1> USE ServerAssumption, AdminAssumption, AdminDocsAssumption
    DEF AdminInv, serverVars, bodyVars
<1>1. PICK id \in unmatched[r] :
        /\ blocked' = IF action[r] = "block" THEN blocked \union {id}
                                             ELSE blocked \ {id}
        /\ unmatched' = [unmatched EXCEPT ![r] = @ \ {id}]
  BY DEF UpdateUser
<1>2. UNCHANGED <<serverVars, bodyVars, users, adminTokens, jar, userId>>
  BY DEF UpdateUser
<1>3. /\ unmatched \in [Requests -> SUBSET Ids] /\ over \in [Requests -> SUBSET Requests]
      /\ id \in Ids
  BY <1>1 DEF AdminTypeOK, StoreTypeOK, Ids
<1>4. /\ \A q \in Requests : unmatched'[q] \subseteq unmatched[q]
      /\ \A q \in Requests \ {r} : unmatched'[q] = unmatched[q]
      /\ unmatched'[r] = unmatched[r] \ {id}
  BY <1>1, <1>3
<1>5. Onward
  BY <1>2, <1>3, <1>4 DEF Onward
<1>6. LetThrough(r) /\ unmatched[r] \subseteq userIds[r]
  BY <1>1 DEF ActsForOwner
<1>7. AdminTypeOK'
  BY <1>1, <1>2, <1>3 DEF AdminTypeOK, RequestsTypeOK, StoreTypeOK, Ids
<1>8. UniqueIds' /\ CookiesOfOwners' /\ OverForGood'
  BY <1>2, <1>5, OnwardInv
<1>9. AdminOnItsWay'
  BY <1>2, <1>4 DEF AdminOnItsWay
<1>10. ActsForOwner'
  BY <1>2, <1>4, <1>5, StaysSo, AccountsForever DEF ActsForOwner
<1>11. TokensOfAdmins' /\ JarsOfAdmins'
  BY <1>2, <1>5, JarStays, AccountsForever DEF TokensOfAdmins, JarsOfAdmins
<1>12. BlockedOnRequest'
  <2>1. \A i \in blocked' : i \in blocked \/ (i = id /\ action[r] = "block")
    <3>1. /\ action[r] = "block" => blocked' = blocked \union {id}
          /\ action[r] # "block" => blocked' = blocked \ {id}
      BY <1>1
    <3> QED BY <3>1
  <2>2. \A i \in blocked : \E q \in Requests :
          LetThrough(q)' /\ action'[q] = "block" /\ i \in userIds'[q]
    BY <1>2, <1>5, StaysSo DEF BlockedOnRequest
  <2>3. LetThrough(r)' /\ id \in userIds'[r] /\ action' = action
    BY <1>1, <1>2, <1>5, <1>6, StaysSo
  <2> QED BY <2>1, <2>2, <2>3 DEF BlockedOnRequest
<1>13. UpdatesHold'
  <2> SUFFICES ASSUME NEW q \in Requests, LetThrough(q)',
                      NEW i \in (userIds[q] \cap Ids) \ unmatched'[q]
               PROVE  (i \in blocked') = (action[q] = "block") \/ Undone(q, i)'
    BY <1>2, AccountsForever DEF UpdatesHold
  <2>1. LetThrough(q)
    BY <1>2, AccountsForever DEF LetThrough
  <2>2. CASE i # id
    <3>1. i \notin unmatched[q] /\ ((i \in blocked') <=> (i \in blocked))
      BY <1>1, <1>4, <2>2
    <3>2. (i \in blocked) = (action[q] = "block") \/ Undone(q, i)
      BY <2>1, <3>1 DEF UpdatesHold
    <3>3. Undone(q, i) => Undone(q, i)'
      <4> SUFFICES ASSUME Undone(q, i) PROVE Undone(q, i)'
        OBVIOUS
      <4>1. PICK p \in Requests \ over[q] :
              /\ LetThrough(p) /\ action[p] # action[q]
              /\ i \in userIds[p] \ unmatched[p]
        BY DEF Undone
      <4>2. LetThrough(p)' /\ i \in userIds'[p] \ unmatched'[p]
            /\ action' = action /\ over' = over
        BY <1>2, <1>4, <1>5, <4>1, StaysSo
      <4> QED BY <4>1, <4>2 DEF Undone
    <3> QED BY <3>1, <3>2, <3>3
  <2>3. CASE i = id /\ action[q] = action[r]
    BY <1>1, <2>3
  <2>4. CASE i = id /\ action[q] # action[r]
    <3>1. r \notin over[q]
      BY <1>1 DEF OverForGood, IsOver
    <3>2. LetThrough(r)' /\ i \in userIds'[r] \ unmatched'[r]
          /\ action' = action /\ over' = over
      BY <1>1, <1>2, <1>4, <1>5, <1>6, <2>4, StaysSo
    <3> QED BY <2>4, <3>1, <3>2 DEF Undone
  <2> QED BY <2>2, <2>3, <2>4
<1> QED BY <1>7, <1>8, <1>9, <1>10, <1>11, <1>12, <1>13

\* A crash stops the handlers where they are, and takes nothing back.
LEMMA AdminCrashInv ==
  ASSUME AdminInv, Crash, UNCHANGED adminVars
  PROVE  AdminInv'
<1> USE ServerAssumption, AdminAssumption, AdminDocsAssumption
    DEF AdminInv, adminVars, bodyVars, storeVars
<1>1. /\ \A q \in Requests : pc'[q] = IF pc[q] \in AtRest THEN pc[q] ELSE "lost"
      /\ pc' \in [Requests -> AtRest \union AdminLabels]
      /\ UNCHANGED <<route, email, reply, now, dated>>
  BY DEF Crash, InFlight, AdminTypeOK, RequestsTypeOK, AtRest
<1>2. Onward
  BY <1>1 DEF Onward, AtRest
<1>3. NoUpdate
  BY <1>1, AccountsForever DEF NoUpdate, LetThrough
<1>4. AdminTypeOK'
  BY <1>1 DEF AdminTypeOK, RequestsTypeOK, StoreTypeOK, AtRest, ActsForUser,
     AdminLabels
<1>5. AdminOnItsWay'
  BY <1>1 DEF AdminOnItsWay, AtRest, SessionLabels, Outcomes
<1>6. ActsForOwner'
  BY <1>1, <1>2, StaysSo, AccountsForever DEF ActsForOwner, AtRest
<1>7. TokensOfAdmins' /\ JarsOfAdmins'
  BY <1>1, <1>2, JarStays, AccountsForever DEF TokensOfAdmins, JarsOfAdmins,
     Onward, AdminTypeOK, StoreTypeOK, TokenDoc
<1>8. UniqueIds' /\ CookiesOfOwners' /\ OverForGood'
  BY <1>1, <1>2, OnwardInv DEF AtRest
<1> QED BY <1>2, <1>3, <1>4, <1>5, <1>6, <1>7, <1>8, NoUpdateInv

\* A failing call is a reply, and the passing of time changes nothing but the time.
LEMMA AdminEnvironmentInv ==
  ASSUME AdminInv, Environment \/ UNCHANGED serverVars, UNCHANGED adminVars
  PROVE  AdminInv'
<1>1. CASE \E r \in Requests : Fail(r)
  <2>1. PICK r \in Requests, outcome \in {"unauthorized", "serverError"} :
          pc[r] \notin AtRest /\ Reply(r, outcome)
    BY <1>1 DEF Fail, InFlight
  <2> QED BY <2>1, RefusalMoves DEF Outcomes
<1>2. CASE Crash
  BY <1>2, AdminCrashInv
<1>3. CASE Tick \/ Rest \/ UNCHANGED serverVars
  <2> USE ServerAssumption, AdminAssumption, AdminDocsAssumption
      DEF AdminInv, adminVars, bodyVars, storeVars
  <2>1. UNCHANGED <<pc, route, email, reply, dated>> /\ now' \in {now, now + 1}
        /\ now' \in 0..MaxTime
    BY <1>3 DEF Tick, Rest, serverVars, AdminTypeOK, RequestsTypeOK
  <2>2. Onward /\ NoUpdate
    BY <2>1, AccountsForever DEF Onward, NoUpdate, LetThrough, AdminTypeOK,
       StoreTypeOK
  <2>3. AdminTypeOK' /\ AdminOnItsWay'
    BY <2>1 DEF AdminTypeOK, RequestsTypeOK, StoreTypeOK, AdminOnItsWay
  <2>4. ActsForOwner'
    BY <2>1, <2>2, StaysSo, AccountsForever DEF ActsForOwner
  <2>5. TokensOfAdmins' /\ JarsOfAdmins'
    BY <2>1, <2>2, JarStays, AccountsForever DEF TokensOfAdmins, JarsOfAdmins
  <2>6. UniqueIds' /\ CookiesOfOwners' /\ OverForGood'
    BY <2>1, <2>2, OnwardInv
  <2> QED BY <2>2, <2>3, <2>4, <2>5, <2>6, NoUpdateInv
<1> QED BY <1>1, <1>2, <1>3 DEF Environment

\* The first state satisfies the invariant: no session, no token, nobody blocked.
LEMMA AdminInitInv ==
  ASSUME AdminInit
  PROVE  AdminInv
<1> USE ServerAssumption, AdminAssumption, AdminDocsAssumption
    DEF AdminInit, ServerInit
<1>1. NoCookies \in Cookies /\ NoCookies.access = Nil /\ NoCookies.refresh = Nil
  BY DEF NoCookies, Cookies
<1>2. AdminTypeOK /\ UniqueIds
  BY <1>1 DEF AdminTypeOK, RequestsTypeOK, StoreTypeOK, UniqueIds, AtRest,
     ActsForUser, AdminLabels
<1>3. AdminOnItsWay
  BY DEF AdminOnItsWay, SessionLabels, Outcomes
<1>4. \A r \in Requests : \A e : ~BelongsTo(userId[r], e)
  BY DEF BelongsTo, UsersOf, UserDoc
<1>5. ActsForOwner /\ TokensOfAdmins /\ JarsOfAdmins /\ CookiesOfOwners
  BY <1>1, <1>4 DEF ActsForOwner, TokensOfAdmins, JarsOfAdmins, JarOf, RefreshOf,
     CookiesOfOwners
<1>6. OverForGood /\ BlockedOnRequest /\ UpdatesHold
  BY <1>4 DEF OverForGood, BlockedOnRequest, UpdatesHold, LetThrough
<1> QED BY <1>2, <1>3, <1>5, <1>6 DEF AdminInv

-----------------------------------------------------------------------------
(* The theorems.                                                           *)

\* The invariant holds of every behaviour.
THEOREM AdminInvariance == AdminSpec => []AdminInv
<1>1. AdminInv /\ [AdminNext]_vars => AdminInv'
  <2> SUFFICES ASSUME AdminInv, [AdminNext]_vars
               PROVE  AdminInv'
    OBVIOUS
  <2>1. ASSUME NEW r \in Requests,
               AdminArrival(r) \/ AdminHandler(r) \/ UpdateUser(r)
        PROVE  AdminInv'
    BY <2>1, AdminArrivalInv, AdminHandlerInv, AdminUpdateInv
  <2>2. CASE (Environment \/ UNCHANGED serverVars) /\ UNCHANGED adminVars
    BY <2>2, AdminEnvironmentInv
  <2> QED BY <2>1, <2>2 DEF AdminNext, vars
<1> QED BY <1>1, AdminInitInv, PTL DEF AdminSpec

\* No handler dereferences an account that its query did not find.
THEOREM AdminTypes == AdminSpec => []AdminTypeOK
BY AdminInvariance, PTL DEF AdminInv

\* Who has an admin session, a stored refresh token or admin cookies, is an admin,
\* and has asked for it himself.
THEOREM AdminsOnly == AdminSpec => []OnlyAdminsHoldSessions
<1>1. AdminInv => OnlyAdminsHoldSessions
  BY DEF AdminInv, TokensOfAdmins, JarsOfAdmins, JarOf, RefreshOf,
     OnlyAdminsHoldSessions
<1> QED BY <1>1, AdminInvariance, PTL

\* Nobody is blocked but by an update-status that listed him, sent by somebody with
\* an account.
THEOREM AdminBlocks == AdminSpec => []BlockedOnRequest
BY AdminInvariance, PTL DEF AdminInv

\* The status that update-status has reported holds, unless a contrary one was at
\* work when it came or came later.
THEOREM AdminReports == AdminSpec => []ReportedStatusHolds
<1>1. AdminInv => ReportedStatusHolds
  <2> SUFFICES ASSUME AdminInv, NEW r \in Requests, route[r] = "updateStatus",
                      reply[r] = "ok", NEW id \in userIds[r] \cap Ids
               PROVE  (id \in blocked) = (action[r] = "block") \/ Undone(r, id)
    BY DEF ReportedStatusHolds, Ids
  <2>1. unmatched[r] = {} /\ LetThrough(r)
    BY DEF AdminInv, AdminOnItsWay, ActsForOwner, LetThrough
  <2> QED BY <2>1 DEF AdminInv, UpdatesHold
<1> QED BY <1>1, AdminInvariance, PTL
=============================================================================
