------------------------------- MODULE Admin --------------------------------
(***************************************************************************)
(* Administration: AdminService, the adminrefreshtokens collection,        *)
(* JwtAdminGuard and the admin cookies of the browsers.                    *)
(*                                                                         *)
(*   POST admin/adminLogin      users, then a pair of tokens               *)
(*   POST admin/refresh         adminrefreshtokens, users, a new pair      *)
(*   POST admin/logout          the guard, then the cookies                *)
(*   GET admin/users            the guard, then users                      *)
(*   PATCH admin/update-status  the guard, then users, one by one          *)
(*                                                                         *)
(* The guard compares the role in the token with the role of the account   *)
(* and never with 'admin'.  The tokens of auth/login have the same payload *)
(* and the same key as those of adminLogin, so that whoever has an account *)
(* has a token that passes.  An account that does not exist when a request *)
(* comes in plays no part in it, so the accounts are those of the start.   *)
(***************************************************************************)
EXTENDS Server

CONSTANTS
  UserIds,          \* the _ids of accounts
  Browsers,
  Owner,            \* whose browser it is; it logs in as nobody else
  AccessLifetime,   \* 1 day, the cookie's maxAge; the JWT itself has no expiry
  RefreshLifetime   \* 7 days: expiryDate, and the cookie's maxAge

ASSUME AdminAssumption ==
  /\ Owner \in [Browsers -> Emails]
  /\ AccessLifetime \in Nat /\ RefreshLifetime \in Nat
  /\ Nil \notin Requests \union UserIds

VARIABLES
  users,        \* the users collection
  blocked,      \* the users with is_blocked
  adminTokens,  \* the adminrefreshtokens collection
  jar,          \* the admin cookies of each browser
  browser,      \* where a request comes from
  cookies,      \* the cookies it came with, those that its handler reads
  userIds,      \* body.userIds
  action,       \* body.action
  userId,       \* the account it acts for, once it has read it
  unmatched,    \* the users its updateMany has still to come to
  over          \* history: the update-status calls that were over when it came

bodyVars == <<browser, cookies, userIds, action, over>>
storeVars == <<users, blocked, adminTokens, jar, unmatched>>
adminVars == <<bodyVars, storeVars, userId>>
vars == <<serverVars, adminVars>>

\* A refresh token, a uuid, is named by the request that generated it.
Roles == {"user", "admin"}
UserDoc == [id : UserIds, email : Emails, role : Roles]
TokenDoc == [id : Requests, userId : UserIds, token : Requests, expiryDate : Nat]
AccessToken == [userId : UserIds, role : Roles, exp : Nat]
RefreshCookie == [token : Requests, exp : Nat]
Cookies == [access : AccessToken \union {Nil}, refresh : RefreshCookie \union {Nil}]

ASSUME AdminDocsAssumption == Nil \notin AccessToken /\ Nil \notin RefreshCookie

NoCookies == [access |-> Nil, refresh |-> Nil]

AdminInit ==
  /\ ServerInit
  /\ users \in SUBSET UserDoc
  /\ \A u, v \in users : u.id = v.id => u = v
  /\ blocked = {}
  /\ adminTokens = {}
  /\ jar = [b \in Browsers |-> NoCookies]
  /\ browser = [r \in Requests |-> Nil]
  /\ cookies = [r \in Requests |-> NoCookies]
  /\ userIds = [r \in Requests |-> {}]
  /\ action = [r \in Requests |-> Nil]
  /\ userId = [r \in Requests |-> Nil]
  /\ unmatched = [r \in Requests |-> {}]
  /\ over = [r \in Requests |-> {}]

UsersOf(e) == {u \in users : u.email = e}

\* A browser forgets a cookie whose maxAge is over.
Live(c) == IF c = Nil \/ c.exp < now THEN Nil ELSE c

\* What generateAdminTokens signs for account u.
SignedFor(u) == [userId |-> u.id, role |-> u.role, exp |-> now + AccessLifetime]

\* The access tokens that auth/login, which signs the same, has in its answers to
\* the owner of b.
UserTokens(b) == {SignedFor(u) : u \in UsersOf(Owner[b])}

\* A client sends the cookies of its browser, with a user token for the access
\* token if it likes.
SentToGuard(b) == [access : {Live(jar[b].access)} \union UserTokens(b), refresh : {Nil}]
SentToRefresh(b) == {[access |-> Nil, refresh |-> Live(jar[b].refresh)]}

\* An update-status that will change nothing any more: its handler has ended
\* and its updateMany has come to all it was sent for.
IsOver(q) ==
  route[q] = "updateStatus" /\ pc[q] \in {"replied", "lost"} /\ unmatched[q] = {}

-----------------------------------------------------------------------------

\* A client calls an endpoint with some of the cookies in sent.
Call(r, b, rt, l, sent, ids, act) ==
  /\ Arrive(r, rt, Owner[b], l)
  /\ browser' = [browser EXCEPT ![r] = b]
  /\ \E c \in sent : cookies' = [cookies EXCEPT ![r] = c]
  /\ userIds' = [userIds EXCEPT ![r] = ids]
  /\ action' = [action EXCEPT ![r] = act]
  /\ over' = [over EXCEPT ![r] =
       IF rt = "updateStatus" THEN {q \in Requests : IsOver(q)} ELSE {}]
  /\ UNCHANGED <<storeVars, userId>>

AdminLogin(r, b) == Call(r, b, "adminLogin", "findAdmin", {NoCookies}, {}, Nil)
AdminRefresh(r, b) == Call(r, b, "refresh", "findToken", SentToRefresh(b), {}, Nil)
AdminLogout(r, b) == Call(r, b, "logout", "guard", SentToGuard(b), {}, Nil)
GetUsers(r, b) == Call(r, b, "users", "guard", SentToGuard(b), {}, Nil)
UpdateStatus(r, b, ids, act) ==
  Call(r, b, "updateStatus", "guard", SentToGuard(b), ids, act)

\* The handler of r acts for account id from now on, and goes on to l.
GotoAs(r, id, l) ==
  /\ Goto(r, l)
  /\ userId' = [userId EXCEPT ![r] = id]
  /\ UNCHANGED <<bodyVars, users, blocked, adminTokens, jar>>

Refuse(r) == Reply(r, "unauthorized") /\ UNCHANGED adminVars

\* A bug: there is always a user.
AssumesAdmin(r) ==
  /\ pc[r] = "findAdmin"
  /\ \/ UsersOf(email[r]) = {} /\ GotoAs(r, Nil, "compare")
     \/ \E u \in UsersOf(email[r]) : GotoAs(r, u.id, "compare")
  /\ UNCHANGED unmatched

FindAdmin(r) ==
  /\ pc[r] = "findAdmin"
  /\ \/ UsersOf(email[r]) = {} /\ Refuse(r)
     \/ \E u \in UsersOf(email[r]) : GotoAs(r, u.id, "compare")
  /\ UNCHANGED unmatched

\* A bug: whoever knows a password is let in.
LetsAnyoneIn(r) ==
  /\ pc[r] = "compare"
  /\ Goto(r, "matchToken")
  /\ UNCHANGED adminVars

\* The password may be wrong, and bcrypt.compare rejects when the account has
\* none; then the role is looked at.
CompareAdmin(r) ==
  /\ pc[r] = "compare"
  /\ \/ Reply(r, "unauthorized")
     \/ Reply(r, "serverError")
     \/ /\ \E u \in users : u.id = userId[r] /\ u.role = "admin"
        /\ Goto(r, "matchToken")
  /\ UNCHANGED adminVars

-----------------------------------------------------------------------------
(* POST admin/refresh                                                      *)

RefreshFindsToken(r) ==
  LET found == {d \in adminTokens :
                  /\ cookies[r].refresh # Nil
                  /\ d.token = cookies[r].refresh.token
                  /\ d.expiryDate >= now}
  IN /\ pc[r] = "findToken"
     /\ \/ found = {} /\ Refuse(r)
        \/ \E d \in found : GotoAs(r, d.userId, "findTokenUser")
     /\ UNCHANGED unmatched

\* findUserById.  Neither the role nor is_blocked is looked at here.
RefreshFindsUser(r) ==
  /\ pc[r] = "findTokenUser"
  /\ IF \E u \in users : u.id = userId[r]
     THEN Goto(r, "matchToken")
     ELSE Reply(r, "unauthorized")
  /\ UNCHANGED adminVars

-----------------------------------------------------------------------------
(* generateAdminTokens and setAdminTokenCookies                            *)

\* What storeRefreshToken stores for r in the document id of account owner; the
\* date is the one it had when it issued the upsert.
NewToken(r, id, owner) ==
  [id |-> id, userId |-> owner, token |-> r, expiryDate |-> dated[r] + RefreshLifetime]

\* updateOne({ userId }, ...) with upsert, which updates any one match.
Matches(id) == {d \in adminTokens : d.userId = id}

MatchToken(r) ==
  /\ pc[r] = "matchToken"
  /\ \/ /\ Matches(userId[r]) = {}
        /\ Goto(r, "insertToken")
        /\ UNCHANGED adminTokens
     \/ \E d \in Matches(userId[r]) :
          /\ adminTokens' = (adminTokens \ {d}) \union {NewToken(r, d.id, d.userId)}
          /\ Goto(r, "setCookies")
  /\ UNCHANGED <<bodyVars, users, blocked, jar, unmatched, userId>>

InsertToken(r) ==
  /\ pc[r] = "insertToken"
  /\ adminTokens' = adminTokens \union {NewToken(r, r, userId[r])}
  /\ Goto(r, "setCookies")
  /\ UNCHANGED <<bodyVars, users, blocked, jar, unmatched, userId>>

\* The response reaches the browser, in any order with other responses.
SetAdminTokenCookies(r) ==
  /\ pc[r] = "setCookies"
  /\ \E u \in users :
       /\ u.id = userId[r]
       /\ jar' = [jar EXCEPT ![browser[r]] =
            [access |-> SignedFor(u),
             refresh |-> [token |-> r, exp |-> now + RefreshLifetime]]]
  /\ Reply(r, "ok")
  /\ UNCHANGED <<bodyVars, users, blocked, adminTokens, unmatched, userId>>

-----------------------------------------------------------------------------
(* JwtAdminGuard, and the handlers behind it                               *)

Guarded == [logout |-> "clearCookies", users |-> "findUsers",
            updateStatus |-> "updateMany"]

\* An unknown account or another role is refused like a missing cookie.  An
\* updateMany is on its way to MongoDB when the guard lets it through; it
\* starts from the listed users that exist.
Guard(r) ==
  LET c == cookies[r].access
      admitted == {u \in users : c # Nil /\ u.id = c.userId /\ u.role = c.role}
  IN /\ pc[r] = "guard"
     /\ \/ admitted = {} /\ Refuse(r)
        \/ \E u \in admitted :
             /\ GotoAs(r, u.id, Guarded[route[r]])
             /\ unmatched' = [unmatched EXCEPT ![r] =
                                userIds[r] \cap {v.id : v \in users}]

\* The refresh token stays in the database.
ClearAdminTokenCookies(r) ==
  /\ pc[r] = "clearCookies"
  /\ jar' = [jar EXCEPT ![browser[r]] = NoCookies]
  /\ Reply(r, "ok")
  /\ UNCHANGED <<bodyVars, users, blocked, adminTokens, unmatched, userId>>

FindUsers(r) ==
  /\ pc[r] = "findUsers"
  /\ Reply(r, "ok")
  /\ UNCHANGED adminVars

\* Bugs: updateOne in the place of updateMany, and a forgotten filter.
UpdatesFirst(r) ==
  /\ \E id \in unmatched[r] :
       blocked' = IF action[r] = "block" THEN blocked \union {id} ELSE blocked \ {id}
  /\ unmatched' = [unmatched EXCEPT ![r] = {}]
  /\ UNCHANGED <<serverVars, bodyVars, users, adminTokens, jar, userId>>
UpdatesEveryone(r) ==
  /\ unmatched[r] # {}
  /\ blocked' = IF action[r] = "block" THEN {u.id : u \in users} ELSE {}
  /\ unmatched' = [unmatched EXCEPT ![r] = {}]
  /\ UNCHANGED <<serverVars, bodyVars, users, adminTokens, jar, userId>>

\* MongoDB updates one listed user, atomically for that user only.  It goes on,
\* or stops, when Node has died or has been told of an error.
UpdateUser(r) ==
  /\ \E id \in unmatched[r] :
       /\ blocked' = IF action[r] = "block" THEN blocked \union {id}
                                            ELSE blocked \ {id}
       /\ unmatched' = [unmatched EXCEPT ![r] = @ \ {id}]
  /\ UNCHANGED <<serverVars, bodyVars, users, adminTokens, jar, userId>>

ReplyUpdated(r) ==
  /\ pc[r] = "updateMany"
  /\ unmatched[r] = {}
  /\ Reply(r, "ok")
  /\ UNCHANGED adminVars

-----------------------------------------------------------------------------

\* An empty list updates nobody, and is left out.
AdminArrival(r) ==
  \E b \in Browsers :
    \/ AdminLogin(r, b) \/ AdminRefresh(r, b) \/ AdminLogout(r, b) \/ GetUsers(r, b)
    \/ \E ids \in SUBSET UserIds \ {{}}, act \in {"block", "unblock"} :
         UpdateStatus(r, b, ids, act)

AdminHandler(r) ==
  \/ FindAdmin(r) \/ CompareAdmin(r)
  \/ RefreshFindsToken(r) \/ RefreshFindsUser(r)
  \/ MatchToken(r) \/ InsertToken(r) \/ SetAdminTokenCookies(r)
  \/ Guard(r) \/ ClearAdminTokenCookies(r) \/ FindUsers(r) \/ ReplyUpdated(r)

Environment == (\E r \in Requests : Fail(r)) \/ Crash \/ Tick \/ Rest

AdminNext ==
  \/ \E r \in Requests : AdminArrival(r) \/ AdminHandler(r) \/ UpdateUser(r)
  \/ Environment /\ UNCHANGED adminVars

AdminSpec ==
  /\ AdminInit /\ [][AdminNext]_vars
  /\ \A r \in Requests :
       WF_vars(AdminHandler(r) \/ (pc[r] = "updateMany" /\ UpdateUser(r)))

-----------------------------------------------------------------------------
(* Properties                                                              *)

AdminLabels ==
  {"findAdmin", "compare", "findToken", "findTokenUser", "matchToken",
   "insertToken", "setCookies", "guard", "clearCookies", "findUsers", "updateMany"}

\* Handlers that have found the account they act for.
ActsForUser == AdminLabels \ {"findAdmin", "findToken", "guard"}

RequestsTypeOK ==
  /\ pc \in [Requests -> AtRest \union AdminLabels]
  /\ route \in [Requests -> Routes \union {Nil}]
  /\ email \in [Requests -> Emails \union {Nil}]
  /\ reply \in [Requests -> Outcomes \union {Nil}]
  /\ now \in 0..MaxTime
  /\ dated \in [Requests -> 0..MaxTime]
  /\ browser \in [Requests -> Browsers \union {Nil}]
  /\ cookies \in [Requests -> Cookies]
  /\ userIds \in [Requests -> SUBSET UserIds]
  /\ action \in [Requests -> {"block", "unblock", Nil}]

StoreTypeOK ==
  /\ users \subseteq UserDoc
  /\ blocked \subseteq {u.id : u \in users}
  /\ adminTokens \subseteq TokenDoc
  /\ jar \in [Browsers -> Cookies]
  /\ unmatched \in [Requests -> SUBSET {u.id : u \in users}]
  /\ over \in [Requests -> SUBSET Requests]

\* The state has the shapes of the schemas and the cookies, and no handler
\* dereferences a user it has not found (user.password, user._id, user.role).
AdminTypeOK ==
  /\ RequestsTypeOK
  /\ StoreTypeOK
  /\ userId \in [Requests -> {u.id : u \in users} \union {Nil}]
  /\ \A r \in Requests : pc[r] \in ActsForUser => userId[r] # Nil

\* Account id is the one of the person with address e; it is an admin's.
BelongsTo(id, e) == \E u \in UsersOf(e) : u.id = id
IsAdmin(id, e) == \E u \in UsersOf(e) : u.id = id /\ u.role = "admin"

\* Admin sessions are admins', each in person: a stored refresh token, and the
\* cookies of a browser, are of an account with role 'admin' of the one who
\* asked for them.  It depends on the role check of loginAdmin, which refresh
\* does not repeat, and on whose documents the upserts hit.
OnlyAdminsHoldSessions ==
  /\ \A d \in adminTokens : IsAdmin(d.userId, email[d.token])
  /\ \A b \in Browsers :
       /\ jar[b].access # Nil => IsAdmin(jar[b].access.userId, Owner[b])
       /\ jar[b].refresh # Nil => \A d \in adminTokens :
            d.token = jar[b].refresh.token => IsAdmin(d.userId, Owner[b])

\* r is an update-status that JwtAdminGuard let through, in person.
LetThrough(r) ==
  route[r] = "updateStatus" /\ BelongsTo(userId[r], email[r])

\* A user is blocked only because an update-status that blocks listed him and
\* the guard let it through for an account of its sender, whatever updates
\* interleave, stop half way or outlive their handler.
BlockedOnRequest ==
  \A id \in blocked : \E r \in Requests :
    LetThrough(r) /\ action[r] = "block" /\ id \in userIds[r]

\* Some update-status that asked for the contrary and was not over when r came
\* has come to user id.
Undone(r, id) ==
  \E q \in Requests \ over[r] :
    /\ LetThrough(q) /\ action[q] # action[r]
    /\ id \in userIds[q] \ unmatched[q]

\* "users blocked successfully": when update-status has answered, every listed
\* account has the status it asked for, unless a contrary update-status was
\* still at work when it came, or came later.  An update that was over before,
\* and one that the guard refused, is no excuse.
ReportedStatusHolds ==
  \A r \in Requests :
    route[r] = "updateStatus" /\ reply[r] = "ok" =>
      \A id \in userIds[r] \cap {u.id : u \in users} :
        (id \in blocked) = (action[r] = "block") \/ Undone(r, id)
=============================================================================
