# TLA+ models of the Trippo backend

The Trippo backend is a NestJS server over MongoDB: registration with mailed
one-time passwords, password recovery, user and admin sessions, and trips.
This directory holds TLA+ modules that model it, TLC configurations that check
them on small instances, and theorems about them that TLAPS checks for all
instances.  `PROJECT.json` lists the runs, the mutants that show each property
can fail, which source lines each definition stands for, the hazards of the
code and the theorems.

    tlc -workers 2 -config AccountsSerial.cfg MCAccounts
    tlc -workers 2 -config BackendSerial.cfg MCBackend
    tlapm SessionsSerialProofs.tla

## The system

One Node process serves requests concurrently.  A handler runs without
interruption from one `await` to the next; while a database, mail or bcrypt
call is in flight, other handlers run.  There are no transactions, no locks,
no unique index on `email`, `userId` or `tripName`, and no TTL index, so all
consistency between documents comes from the order in which the handlers make
their calls.  That is what the models are about.

| Component | State | Operations | Interacts with |
|---|---|---|---|
| One-time passwords (`user/service/otp.service.ts`, `Otp.repository.ts`) | `otps` | createOtp, sendOtp, verifyOtp | called by registration, verification, resend and recovery; calls the mailer |
| Registration and verification (`user/service/user.service.ts`, `user.controller.ts`) | `users`, `unverifiedusers` | register, verifyUser, resend-otp, getUserDetails | calls one-time passwords; shares `users` with everything below |
| Password recovery (`auth/service/forgot.service.ts`) | `users.password` | forgotOtp, verifyOtp, changePassword | calls one-time passwords |
| User sessions (`auth/service/auth.service.ts`, `login.repository.ts`) | `refreshtokens`, browser cookies | login, google-login, refresh, logout | reads `users`; google-login creates accounts |
| User guard (`guards/jwtUserAuth.guard.ts`) | none | canActivate | reads `users` |
| Admin sessions and guard (`admin/service/admin.service.ts`, `guards/jwtAdminAuth.guard.ts`) | `adminrefreshtokens`, admin cookies | adminLogin, refresh, logout | reads `users` |
| User administration (`admin/service/admin.service.ts`) | `users.is_blocked` | users, update-status | writes what login and the user guard read |
| Trips (`trip/`) | `trips` | create | none |
| Exception filter, bootstrap, modules, DTO validation, logging | none | | every reply |

What is hard: two requests for one address that overlap (a client that
retries, two tabs, a double click); a call that fails, or a process that dies,
between two calls of one handler; documents that were read before an `await`
and used after it; deletes that go by address and not by the document that was
read; queries that return any one of several matches; an `updateMany` that
goes on in MongoDB after its handler is gone; the clock.

What makes each component correct:

* One-time passwords: what was accepted cannot be used again; a new code
  revokes the old ones; a verification gets through only with a code issued
  for its address; other addresses' traffic never takes a code away; a live
  code is accepted, until the time the mail states.
* Registration: an address has at most one account; an account exists only
  because its address was verified, and holds the password that was registered
  for it, hashed once; a registration is not lost before it is an account, and
  not left behind after.
* Recovery: a change that reports success has stored the new password, hashed
  once, in an account of the address that held another one before.
* Sessions: a refresh token is good once; a browser holds the token the server
  has; logout ends the session; a blocked user gets nothing past the guard;
  sessions of different people never mix.
* Administration: only admins have admin sessions; nobody is blocked without a
  request to block him that got past the guard; a status update that reports
  success has reached every listed user.  That only admins get past the guard
  is no property of this code: `JwtAdminGuard` compares the role in the token
  with the role of the account, never with `'admin'`, and the access tokens of
  `auth/login` have the same secret and the same payload.
* Trips: a person who waits for replies has no two trips of one name.  That a
  name is used once, whoever creates the trips, does not hold (`TripTwice`).
* All together: an address has one account, however it came about, and the
  password its owner was told is theirs logs them in.

## Modules

| Module | Models |
|---|---|
| `Server` | requests, their program counters and replies, failing calls, crashes, the clock |
| `OtpService` | `otps`, createOtp, sendOtp, verifyOtp, `POST users/resend-otp`, `POST auth/verifyForgotOtp` |
| `Accounts` | `users`, `unverifiedusers`, `POST users/register`, `POST users/verify-otp`, `POST auth/forgotOtp`, `PATCH auth/changePassword`, composed with `OtpService` |
| `Sessions` | `refreshtokens`, browsers and their cookies, `POST auth/login`, `google-login`, `refresh`, `logout`, `GET users/getUserDetails` behind `JwtUserGuard` |
| `Admin` | `adminrefreshtokens`, the admin cookies, `POST admin/adminLogin`, `refresh`, `logout`, `GET admin/users`, `PATCH admin/update-status` behind `JwtAdminGuard` |
| `Trip` | `trips`, `POST trip/create` |
| `Backend` | the composition of `Accounts`, `Sessions` and `Trip` over one `users` collection and one set of requests |
| `OneTimeCode` | abstract: what one-time passwords promise; implemented by `OtpService` |
| `Membership` | abstract: the life of an address; implemented by `Accounts` and by `Backend` |
| `MCOtpService`, `MCAccounts`, `MCSessions`, `MCAdmin`, `MCBackend` | instances for TLC: the symmetry sets, whose browser it is |
| `OtpServiceProofs` | theorems about `OtpService`, and that it implements `OneTimeCode` |
| `AccountsProofs`, `AccountsSerialProofs` | theorems about `Accounts`, in every interleaving and for clients that wait; that it implements `Membership` |
| `SessionsProofs`, `SessionsSerialProofs` | theorems about `Sessions`, in every interleaving and for clients that wait |
| `AdminProofs`, `TripProofs` | theorems about `Admin` and `Trip` |
| `BackendProofs` | theorems about the composition, and that it still implements `Membership` |

`Accounts` extends `OtpService`, whose handlers are also its own.  `Backend`
extends `Accounts` and instantiates `Sessions` and `Trip`.  `Admin` stands
alone: it shares `users` with the rest, and its effect there, one user at a
time, is the `UpdateStatus` of `Sessions` and `Backend`.

### How the code becomes state and actions

* A request `r` is served once.  `pc[r]` names the call its handler has in
  flight: `deleteOtps` is the `deleteMany` of createOtp, `saveOtp` its
  `save()`, `mailOtp` the `sendMail`, and so on.  An action is what happens
  when that call completes: its effect on the database, the code up to the
  next `await`, and the next label or the reply.  The effect and the code after
  it are one step, which loses no behaviour: that code only touches the
  handler's own variables, and every other handler's call can still come before
  or after.
* A handler's local variables are functions of `r`: `code` and `password` (the
  body), `got` (otpRecord), `draft` (unverifiedUser), `account` (user).  They
  keep their value after the reply, which gives the properties the history they
  speak about.  `older` and `mailed` are pure history: the codes an address had
  when sendOtp was called, and the documents whose mail was sent.
* `dated[r]` is the time a handler read for the expiry date it stores: saveOtp
  and storeRefreshToken compute the date before the `await`, so a slow write
  stores a date that is closer than it was.
* A collection is a set of documents.  A document's `id` is the request that
  inserted it.  `findOne` without a sort returns any match, `deleteOne` and
  `findOneAndUpdate` act on any match, `deleteMany` on all.
* `verifyOtp` exists twice in the source (`OtpService` and `ForgotService`,
  line by line the same); both are `FindOtp`, `CheckOtp`, `ConsumeOtp`.  For
  `verify-otp` the handler goes on at `otpVerified` in `Accounts`.
* A bcrypt hash is the pair of the text and the number of times it was hashed;
  `compare` matches a text with its single hash.  The `save` hook is part of
  `CreateUser`.
* The clock ticks in units of 30 seconds, so that the one minute of saveOtp (2
  ticks) and the two minutes of the mail (4) are different, and the boundary
  `expiresAt < now` is hit exactly.
* `Fail(r)` rejects the call in flight: no handler recovers, and the filter
  answers 500.  It also stands for what the schemas reject, such as a role that
  is not in the enum, which `register` finds out after it has deleted the
  earlier registration.  A call that takes effect and yet reports an error is
  the call's step followed by `Fail` at the next label; after a handler's last
  call it is not modelled.
* `Crash` loses every handler in flight.  The database keeps what it has, and
  the restarted process serves the next request.
* In `Sessions`, `jar[b]` is what browser `b` keeps and `cookies[r]` what a
  request took from it; a response changes the jar in the step that ends its
  handler, so responses arrive in any order.  A refresh token is named by the
  request that generated it.  The upsert of storeRefreshToken is `MatchToken`,
  which updates one match, and `InsertToken` when there was none: without a
  unique index MongoDB does the two separately.  `AccessLifetime` is the lesser
  of the cookie's day and `JWT_EXPIRATION`, which is set in the environment: in
  both cases the guard answers 401.  `barred[r]` is history: the owner's
  accounts were all blocked from the call on.  The admin's update-status is
  `UpdateStatus`, one user at a time.  `getUserDetails` looks up the address of
  its query, which may be anybody's (`FindDetails`).  The database starts with
  any accounts and no sessions.
* A guard catches everything it throws, its 403 for a blocked user and its
  failed database calls included, and answers 401; so `Fail` at a guard does.
* In `Admin`, the updateMany of update-status is the set `unmatched[r]` of
  listed users MongoDB has still to come to.  `UpdateUser(r)` takes one of them
  at a time and does not look at `pc[r]`: the operation goes on, or stops for
  good, when its handler has failed or its process has died.  The handler
  answers success when the set is empty.  The admin JWT has no expiry (the
  module's JwtService is configured without one), so `AccessLifetime` is its
  cookie's day.  Admin logout clears the cookies and leaves the refresh token
  in the database.  The guard compares the role in the token with that of the
  account, and no more; so a request may come with a user token of the
  browser's owner in the place of the admin cookie (`UserTokens`,
  `SentToGuard`), and gets through with it, whatever the role.  The accounts,
  with any roles and several for one address, are those of the start.
  `over[r]` is history: the update-status calls that were over, their handler
  and their updateMany both, when `r` came.
* `Backend` has the twelve endpoints of `Accounts`, `Sessions` and `Trip` in
  one process. `Sessions` sees of an account its id and its address; what it
  leaves open (which password is right) is decided here, by comparing the hash
  login has read with the password it came with. A new account ends the
  `barred` of its owner. `secret` is history: the password a person was last
  told is theirs, by the reply to a verification or a change. Requests are sent
  by the owner of a browser, about their own address.
* A trip does not say whose it is, and anybody may create one.  `email[r]` names
  the person whose client sends the creation: that person waits for the reply,
  others do not.  The document is stored one step before the reply, so that a
  creation can be cut off in between and tried again.
* `Overlapping = FALSE` restricts clients and not the server: the client of a
  person sends a request when the last one about the person's address was
  answered, or lost.  Requests of different people overlap in any case.

Left out: names and images of users, and outside `Admin` their roles, the
wording of mails and replies, logging, request validation (a rejected body
reaches no handler), CORS and connection settings. An address, a code or a
password is a model value. The documents the system starts from hold, for each
address, no account, a registered one with any password, or a Google one
without password.

## Runs

Every cfg states its instance; the bounds are these constants.

| Run | Instance | Shows |
|---|---|---|
| `OtpOverlap` | 3 requests, 2 addresses, 2 codes, overlapping, faults, 3 ticks; symmetric | `OtpTypeOK`, `SpentCodeIsGone`, `OlderCodesRevoked`, `AcceptedCodeWasIssued`, `CodeKeptForItsAddress` |
| `OtpSerial` | 3 requests, 1 address, 2 codes, waiting clients, faults, 3 ticks | `OneCodePerEmail`, `CodeUsedOnce`, `LiveCodeAccepted`, `ImplementsOneTimeCode`, `EveryRequestAnswered` |
| `AccountsOverlap` | 3 requests of all six endpoints, 2 addresses, 2 passwords, overlapping, faults; symmetric | `AccountsTypeOK`, `AccountFromCode`, `RegistrationKept`, `PasswordWasSubmitted` |
| `AccountsSerial` | 4 requests of all six endpoints, 1 address, 2 passwords, waiting clients, faults; symmetric | `OneAccountPerEmail`, `OneRegistrationPerEmail`, `VerifiedLeavesNoRegistration`, `ChangeReallyChanges`, `ImplementsMembership` |
| `SessionsOverlap` | 3 requests of two people with a browser each, overlapping, faults, blocking and unblocking; symmetric | `SessionsTypeOK`, `SessionsStayApart`, `BlockedIsRefused`, `LoggedOutTokenIsDead` |
| `SessionsSerial` | 3 requests of one person with two browsers, who waits, faults, an access token that expires after a tick and a refresh token after two; symmetric | `OneAccountPerUser`, `OneTokenPerUser`, `RotatedTokenIsDead`, `SessionSurvives`, `LogoutEndsSession` |
| `AdminOverlap` | 2 requests of two people with a browser each, 2 accounts of any owner and role, user tokens, overlapping, faults, tokens that expire after a tick; symmetric, also in the two people | `AdminTypeOK`, `OnlyAdminsHoldSessions`, `BlockedOnRequest`, `ReportedStatusHolds` |
| `BackendSerial` | 3 requests of all twelve endpoints, one person with a browser, 2 passwords, 1 code, 1 trip name, waiting clients, faults, blocking and unblocking; symmetric | `BackendTypeOK`, `OneAccountPerEmail`, `GoogleHasNoPassword`, `OwnTripsDiffer`, `PasswordLogsIn`, `ImplementsMembership` |
| `OtpExpiry` | 2 requests, waiting clients, no faults, 4 ticks | `ExpiresAsMailed` fails |
| `OtpUsedTwice` | 3 requests, overlapping, no faults | `CodeUsedOnce` fails |
| `AccountTwice` | 3 requests, overlapping, no faults | `OneAccountPerEmail` fails |
| `TripTwice` | 2 requests of two people, waiting clients, no faults | `OneTripPerName` fails |

Why the bounds are enough. Three requests let a send, another send or a
registration, and a verification overlap, which is what each of the overlapping
properties needs to fail (each fails under its mutant within these bounds).
Four waiting requests are a registration, its verification, and two more that
come to a database with an account, a registration and a code in any state a
fault can leave. Two addresses show what leaks from one to another; one is
enough where the properties speak about one address and the handlers of
different addresses share no documents (`CodeKeptForItsAddress` and
`RegistrationKept`, which say they do not, are checked with two). Three ticks
let a code expire, four reach what the mail promises. The account runs have no
ticks and one code: what codes and clocks do is settled in the OTP runs, and
with one code every verification that finds a document presents the right one.
For sessions three requests are two that log in and one that refreshes or logs
out, or a chain of login, refresh and logout; a browser can also call twice at
once. The lifetimes of a day and seven days appear as 0 and 1 tick in
`SessionsSerial`: only that the one is over before the other matters.
`SessionsOverlap` has no ticks, since nothing it checks depends on when a token
expires. In `AdminOverlap` two requests are two update-status calls that share
users, with user tokens, so that no login has to come first, or a login and
what its session is used for. Three are beyond five minutes of TLC, and each of
the properties fails under its mutant with two. In `BackendSerial` three requests
are a registration, its verification and a login with either password, or a
Google login between the first two; the accounts of the start give a change, a
login and a logout the same length. With one person there, what sessions
promise of different people is left to `SessionsOverlap` and, for the whole, to
the theorem `BackendSessions`. Larger instances are the business of the
theorems, which hold for all of them.

Fairness: weak fairness of each request's handler.  Node resumes every handler
whose awaited call has completed, and each call completes or is rejected.
Nothing is assumed of clients, faults or the clock.  `EveryRequestAnswered` is
checked without symmetry.

### What the violated runs mean

* `OtpExpiry`: saveOtp gives a code one minute, the mail promises two.
* `OtpUsedTwice`: verifyOtp reads, compares and only then deletes.  Two
  verifications of one code that overlap both answer success.
* `AccountTwice`: verifyUser looks for an account and inserts one an await
  later, and `users` has no unique index on `email`: two verifications that
  overlap leave two accounts.
* `TripTwice`: two people who wait for their own replies create a trip each;
  both creations find the name free, and both store it.  No index on `tripName`
  stands in the way.

Also in the model, without a run of its own: the catch in `register` turns its
own `ConflictException` into a 500, and verifyUser does the same with its
NotFoundException and ConflictException.  changePassword for an address
without an account never reaches its `User not found`, because the log line
before the check already dereferences `user`; for a Google account
`bcrypt.compare` rejects the missing password.  Both are answered 500.
`auth/refresh` and `auth/google-login` give a blocked user new tokens
(`BlockedIsRefused` names them as exceptions); the guard then refuses them.
The guard's own 403 for a blocked user is turned into a 401 by its catch.  With
requests that overlap, a login or a refresh answered after logout leaves the
browser with a live session, and two first logins leave two refresh tokens.  An
updateMany that outlives its handler can undo a later update-status that has
answered (`ReportedStatusHolds` excuses a contrary update only when it was not
over yet when the request came).  `JwtAdminGuard` lets user tokens through, so
that `BlockedOnRequest` speaks of requests that passed the guard and not of
admins.  A user whose access token has
expired cannot log out until a refresh, and an admin's refresh token stays in
the database after logout.

Outside the models, and worth knowing when reading them: changePassword stores
the password for whatever address the body names, while its comment
(`forgotPassword.controller.ts:36`) says "after verifying their identity"; that
the code was verified before is left to the client.  `PasswordLogsIn` assumes
that it is the owner who changes the password.  Anyone may register with the
role `admin`, which the DTO does not restrict.  The bodies of resend-otp,
forgotOtp and changePassword are not validated at all.

## Abstract specifications

`OneTimeCode` has three variables: the valid code of each address, the codes
ever issued, the codes admitted.  A code is issued once, revoked, or admitted
in one step that uses it up.  `OtpService` implements it when clients wait,
under this mapping: the valid code of an address is its document in `otps`; the
issued codes are the documents some send has saved; an admitted code is one a
request has read and is past the deleteMany for, until an error or a crash
retracts it.  The four calls of a send are stutters but for the deleteMany
(Revoke) and the save (Issue); those of a verification, but for the deleteMany
(Admit).  With requests that overlap it does not hold: that is `OtpUsedTwice`.

`Membership` has two: `held`, the passwords of the accounts of an address, and
`offered`, those of its registrations.  An address joins once, with the
password on offer or none (Google), and then only a change touches it, to
another password.  `Accounts` implements it when clients wait, where `held`
reads the hashes in `users` back and `offered` the clear passwords in
`unverifiedusers`: a password hashed twice, or not at all, is no step of
`Membership`.  So does `Backend`, in which Google logins, registrations and
verifications of one address come in any order.

## Theorems

All are proved for any sets of requests, addresses, codes, passwords, people
and browsers, from the assumptions the modules name: `ServerAssumption`,
`OtpAssumption`, `AccountsAssumption`, `AccountDocsAssumption`,
`SessionsAssumption`, `SessionsDocsAssumption`, `AdminAssumption`,
`AdminDocsAssumption`, `BackendAssumption` and `BackendDocsAssumption`. They
say that `Nil` is not an address, an outcome or a document, that an address is
not a request (both name accounts), that a browser has an owner, and that an
access token does not outlive its refresh token.

| Module | Theorem | States |
|---|---|---|
| `OtpServiceProofs` | `OtpTypes` | `OtpSpec => []OtpTypeOK` |
| | `OtpSpentCodesGone` | the same of `SpentCodeIsGone` |
| | `OtpOlderRevoked` | `OlderCodesRevoked` |
| | `OtpAcceptedIssued` | `AcceptedCodeWasIssued` |
| | `OtpCodeKept` | `CodeKeptForItsAddress` |
| | `OtpOneCode`, `OtpUsedOnce`, `OtpLiveAccepted` | `OneCodePerEmail`, `CodeUsedOnce`, `LiveCodeAccepted`, when `~Overlapping` |
| | `OtpImplementsOneTimeCode` | `OtpSpec => ImplementsOneTimeCode`, when `~Overlapping` |
| `AccountsProofs` | `AccountsTypes` | `AccountsSpec => []AccountsTypeOK` |
| | `AccountsFromCodes` | `AccountFromCode` |
| | `AccountsRegistrationKept` | `RegistrationKept` |
| | `AccountsPasswordSubmitted` | `PasswordWasSubmitted` |
| `AccountsSerialProofs` | `AccountsOneAccount`, `AccountsOneRegistration` | `OneAccountPerEmail`, `OneRegistrationPerEmail`, when `~Overlapping` |
| | `AccountsVerified`, `AccountsChange` | `VerifiedLeavesNoRegistration`, `ChangeReallyChanges`, when `~Overlapping` |
| | `AccountsImplementMembership` | `AccountsSpec => ImplementsMembership`, when `~Overlapping` |
| `SessionsProofs` | `SessionsTypes` | `SessionsSpec => []SessionsTypeOK` |
| | `SessionsApart` | `SessionsStayApart` |
| | `SessionsBlocked` | `BlockedIsRefused` |
| | `SessionsLoggedOut` | `LoggedOutTokenIsDead` |
| `SessionsSerialProofs` | `SessionsOneToken`, `SessionsRotated` | `OneTokenPerUser`, `RotatedTokenIsDead`, when `~Overlapping` |
| | `SessionsOneAccount` | `OneAccountPerUser`, when `~Overlapping` |
| | `SessionsSurvive`, `SessionsLogoutEnds` | `SessionSurvives`, `LogoutEndsSession`, when `~Overlapping` |
| `AdminProofs` | `AdminTypes` | `AdminSpec => []AdminTypeOK` |
| | `AdminsOnly` | `OnlyAdminsHoldSessions` |
| | `AdminBlocks`, `AdminReports` | `BlockedOnRequest`, `ReportedStatusHolds` |
| `TripProofs` | `TripsOfOneDiffer` | `TripSpec => []OwnTripsDiffer`, when `~Overlapping` |
| `BackendProofs` | `BackendTypes` | `BackendSafety => []BackendTypeOK` |
| | `BackendKeepsPromises` | `SpentCodeIsGone`, `OlderCodesRevoked`, `AcceptedCodeWasIssued`, `RegistrationKept`, `PasswordWasSubmitted` |
| | `BackendSessions` | `SessionsKeepPromises`: `SessionsStayApart`, `BlockedIsRefused` and `LoggedOutTokenIsDead` of the whole |
| | `BackendOneToken` | `OneTokenPerUser` and `RotatedTokenIsDead` of the whole, when `~Overlapping` |
| | `BackendOneAccount`, `BackendOneRegistration` | `OneAccountPerEmail`, `OneRegistrationPerEmail` and `VerifiedLeavesNoRegistration`, when `~Overlapping` |
| | `BackendGoogle`, `BackendOwnTripsDiffer` | `GoogleHasNoPassword`, `OwnTripsDiffer`, when `~Overlapping` |
| | `BackendPasswordLogsIn` | `PasswordLogsIn`, when `~Overlapping` |
| | `BackendImplementsMembership` | `BackendSafety => ImplementsMembership`, when `~Overlapping` |

The arguments.

* One-time passwords.  None of the properties is inductive: `SpentCodeIsGone`
  would break if `saveOtp` could insert the very document that was spent, and
  that it cannot is a fact about other requests.  `OtpInv` adds it: every
  document anywhere, stored or remembered, was saved by the request its id
  names, and that request is past `saveOtp` (`EveryDocWasSaved`), so a request
  at `saveOtp` inserts a document nobody has seen.  `GotOfItsAddress` makes a
  delete by address hit the document that was read, `OlderDeleted` carries the
  effect of the first delete of createOtp to its insert, and `OnItsWay` ties
  program counters to endpoints and replies.  For waiting clients `SerialInv`
  adds that the requests in flight are about different addresses (`Alone`),
  that an address has no code when one is saved, and that what a verification
  has read is still stored when it is compared and deleted.  From these each
  step maps to one of `OneTimeCode`.
* Accounts.  `OtpInv` and `AccountsInv` take the set of handler labels as a
  parameter, so their step lemmas serve the modules that add handlers:
  `Accounts`, and then `Backend`.  `AccountsInv` adds where everything comes
  from: a registration from the request its id names, which is past
  `createUnverified` (`EveryRegistrationWasMade`); an account from a
  verification whose code was compared and is spent (`EveryAccountWasVerified`);
  a hash from a password that has arrived (`EveryPasswordWasSubmitted`); and
  what became of each registration (`EveryRegistrationKept`).  For waiting
  clients `StillTrueFor(r)` says that what a handler has found (no account, the
  registration, the password that differs) is still so when it acts on it;
  `StepOfOne` shows once that a step about one address leaves the others' facts
  alone, and each action then only has to show its own.
* Sessions.  `SessionsInv` ties a stored token to the request that generated
  it: that request has been through its upsert and acts for the account the
  document names (`StoredTokens`), while a token in a cookie is one of a
  request that was answered (`CookiesOfOwner`).  So no request that is still at
  its upsert can store a token that a browser holds, which is why a deleted
  token stays deleted (`LogoutDeleted`).  `BarredGetsNowhere` needs that an
  account keeps its name and its address (`AccountsCreated`): otherwise
  unblocking one person could let in another.  Like `AccountsInv`, it takes the
  labels as a parameter, and `ElsewhereInv` shows once what a handler of
  another endpoint may do without disturbing it (`Elsewhere`): move along its
  own labels, create accounts and thereby end their owners' `barred`. For
  clients that wait, `SerialInv` adds that the requests in flight act for
  different accounts (`Alone`, `AccountsApart`), hence that between the match
  of an upsert and its insert nobody stores a token for the account
  (`StillNone`), and that a refresh acts for the account its token was issued
  to (`RefreshesItsAccount`), so that the one document it updates is the one
  that held that token.
* The browser and the server.  `SessionSurvives` and `LogoutEndsSession` speak
  of browsers at rest; in between, the store is ahead of the jar by one
  response.  `JarMatchesStore` says so for a browser whose requests are in
  order: it holds the stored token, or a response is on its way that will set
  or clear its cookies, and at a clear nothing is stored.  That a logout
  deletes the right token needs `PairsInv`: cookies come in pairs of which the
  access token expires first (`JarPairs`), so that who gets past the guard has
  also sent the refresh token of its browser (`SentFromJar`), and a person has
  one account (`OneAccountPerUser`) and so one token (`TokenOfOne`).
* Admin.  Whoever gets past the guard has shown a token of an account of his
  own (`ActsForOwner`, `CookiesOfOwners`), which need not be an admin's.  But
  only adminLogin starts a session, and it looks at the role; so every stored
  token and every cookie a browser was given belongs to an admin account of the
  person who asked for it (`TokensOfAdmins`, `JarsOfAdmins`), and refresh, which
  looks at no role, cannot change that, as the upserts keep owners apart.
  `UpdatesHold` follows an updateMany user by user: it has yet to come to a
  user, has given him its status, or another update that was not over when it
  came has undone it.  The last needs that an update that is over stays over
  (`OverForGood`).
* Trips.  The creations in flight are of different people (`TripInv`), so that a
  name the person had not used when it was looked up is still one the person has
  not used when the trip is stored, whatever others store in between.
* All together.  `BackendInv` is `AccountsInv` of all the labels, with what the
  other handlers rely on: their program counters are those of their endpoints
  (`OthersOnTheirWay`), and whoever is blocked, holds a token or is acted for
  has an account, which stays (`AccountsStay`).  A step of any endpoint of
  `Sessions` or `Trip` moves one request within its own labels (`MovesWithin`) and
  touches the accounts at most by adding the one Google vouches for
  (`KeepsAccounts`); these two facts are all the invariant of `Accounts` needs
  to survive it, and a step of `Accounts` keeps `AccountsStay` because no
  handler deletes an account.  So the promises of its parts that hold in every
  interleaving hold of the whole (`BackendKeepsPromises`).  For waiting clients
  `BackendSerialInv` adds what a Google login and a login have found out
  (`OtherStillTrueFor`: no account, the account that is stored, or a trip name
  that the person has not used), and that
  the password a person was told last is the one hashed in their account, or
  is about to be (`SecretIsHeld`, `StillToldFor`).  `PasswordLogsIn` then
  follows from the comparison of that hash (`PresentedSecret`, `HashTells`).  A
  Google login that creates an account is `Membership`'s `Join` with no
  password; every other step of `Sessions` and `Trip` stutters.
* Sessions in the whole.  `BackendSessionsInv` is `SessionsInv` of all the
  labels, on what `Sessions` sees of the accounts: `BackendProofs` instantiates
  the proofs about `Sessions` and cites their lemmas.  A login and the other
  calls of `Sessions` are steps of `Sessions` (`SessionsMove`, which is where
  the comparison of passwords refines one that may go either way), the steps of
  `Accounts` and `Trip` happen elsewhere (`StepsElsewhere`).  What remains is
  that accounts have different names, although two services create them:
  `AccountsNamed` says that an account named by a request has its address and
  that the request creates no other, and each step keeps it because it creates
  at most its own account and takes none away (`CreatesOwn`).  For clients that
  wait, `SerialInv` of `Sessions` survives the steps elsewhere as long as
  requests in flight are of different people, which `BackendSerialInv` says of
  all of them.

TLC checked the inductive invariants on the instances of the runs before they
were proved.

Only model-checked: `EveryRequestAnswered`; liveness under fairness is out of
the prover's reach. Every other property that a passing run checks is a
theorem. Only proved: `SessionsKeepPromises` of the composition, whose parts
`SessionsOverlap` checks of `Sessions`. `SessionSurvives` and
`LogoutEndsSession` are checked and proved of `Sessions` and not stated again
of the composition, where a person's registrations and changes come from no
browser, so that `Undisturbed`, which wants all requests of a person to come
from one, would exclude them.

## Not modelled

* Request validation (`class-validator` DTOs): pure checks of one body, and a
  rejected body reaches no handler.  The role of a registration, which the DTO
  lets through and the schema rejects, is covered by `Fail`.
* Bootstrap and configuration: modules, CORS, logging, connection strings keep
  no state and order no steps.
* Roles on the user side: they never change after an account is created, and
  neither login nor refresh looks at them, so JwtUserGuard's comparison of the
  token's role with the account's passes.  That it would admit an admin's token
  of `adminLogin`, too, is left out: it leads to the same person's account.
* `getAllUsers` and `getUserDetails` are reads: the guard before them is
  modelled, and whether the address exists; what they return is not.
* Liveness beyond `EveryRequestAnswered`.  Clients owe the server nothing, so
  nothing that takes two requests can be promised to happen; what one request
  promises is its answer, and every handler is the same kind of chain.
* Connecting `Admin` to `Backend`: admin tokens live in their own collection and
  cookies, and what an update-status does to a user is in both.
