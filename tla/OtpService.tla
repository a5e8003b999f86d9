----------------------------- MODULE OtpService -----------------------------
(***************************************************************************)
(* One-time passwords: the otps collection, OtpService.sendOtp and         *)
(* verifyOtp, and the two endpoints that do nothing else, POST             *)
(* users/resend-otp and POST auth/verifyForgotOtp.  The handlers of        *)
(* registration and password recovery go through the same steps and are    *)
(* composed with them in Accounts.                                         *)
(*                                                                         *)
(* The collection has no unique index and no TTL index: a document lives   *)
(* until a deleteMany on its address removes it, and two calls of          *)
(* createOtp that overlap leave two documents.                             *)
(***************************************************************************)
EXTENDS Server

CONSTANT Codes   \* the 6-digit numbers generateOtp draws from

VARIABLES
  otps,    \* the otps collection
  code,    \* body.otp of a verification
  got,     \* otpRecord: the document a handler saved or found
  mailed,  \* the documents whose code was mailed
  older    \* history: the codes of the address when sendOtp was called

otpVars == <<otps, code, got, mailed, older>>

\* expiresAt is one minute after the document is built, which is before its
\* save() is awaited; the mail says two.
OtpLifetime == 2
MailedLifetime == 4

OtpDoc == [id : Requests, email : Emails, otp : Codes, expiresAt : Nat]

ASSUME OtpAssumption == Nil \notin OtpDoc

OtpInit ==
  /\ otps = {}
  /\ code = [r \in Requests |-> Nil]
  /\ got = [r \in Requests |-> Nil]
  /\ mailed = {}
  /\ older = [r \in Requests |-> {}]

OtpsOf(e) == {d \in otps : d.email = e}

\* Plausible bugs, each in place of the definition after it.
DeleteOneByEmail(e) ==
  IF OtpsOf(e) = {} THEN otps' = otps
                    ELSE \E d \in OtpsOf(e) : otps' = otps \ {d}
DeleteEveryones(e) == otps' = {}

DeleteByEmail(e) == otps' = otps \ OtpsOf(e)

-----------------------------------------------------------------------------
(* sendOtp: createOtp (delete the old codes, save a new one), then mail it. *)

CallSendOtp(r, e) == older' = [older EXCEPT ![r] = OtpsOf(e)]

ResendOtp(r, e) ==
  /\ Arrive(r, "resend-otp", e, "deleteOtps")
  /\ CallSendOtp(r, e)
  /\ UNCHANGED <<otps, code, got, mailed>>

\* A bug: the old codes stay.
KeepsOldOtps(r) ==
  /\ pc[r] = "deleteOtps"
  /\ Goto(r, "saveOtp")
  /\ UNCHANGED otpVars

DeleteOtps(r) ==
  /\ pc[r] = "deleteOtps"
  /\ DeleteByEmail(email[r])
  /\ Goto(r, "saveOtp")
  /\ UNCHANGED <<code, got, mailed, older>>

SaveOtp(r) ==
  /\ pc[r] = "saveOtp"
  /\ \E c \in Codes :
       LET doc == [id |-> r, email |-> email[r], otp |-> c,
                   expiresAt |-> dated[r] + OtpLifetime]
       IN /\ otps' = otps \union {doc}
          /\ got' = [got EXCEPT ![r] = doc]
  /\ Goto(r, "mailOtp")
  /\ UNCHANGED <<code, mailed, older>>

\* A bug: the handler does not notice that the mail is out.
NeverMails(r) == pc[r] = "mailOtp" /\ UNCHANGED <<serverVars, otpVars>>

MailOtp(r) ==
  /\ pc[r] = "mailOtp"
  /\ mailed' = mailed \union {got[r]}
  /\ Reply(r, "ok")
  /\ UNCHANGED <<otps, code, got, older>>

-----------------------------------------------------------------------------
(* verifyOtp: find a document of the address, check it, delete.            *)

VerifyForgotOtp(r, e, c) ==
  /\ Arrive(r, "verifyForgotOtp", e, "findOtp")
  /\ code' = [code EXCEPT ![r] = c]
  /\ UNCHANGED <<otps, got, mailed, older>>

\* A bug: the null check is left out.
AssumesOtp(r) ==
  /\ pc[r] = "findOtp"
  /\ \/ OtpsOf(email[r]) = {} /\ UNCHANGED got
     \/ \E d \in OtpsOf(email[r]) : got' = [got EXCEPT ![r] = d]
  /\ Goto(r, "checkOtp")
  /\ UNCHANGED <<otps, code, mailed, older>>

\* findOne has no sort: any document of the address may come back.
FindOtp(r) ==
  /\ pc[r] = "findOtp"
  /\ \/ /\ OtpsOf(email[r]) = {}
        /\ Reply(r, "notFound")
        /\ UNCHANGED got
     \/ \E d \in OtpsOf(email[r]) :
          /\ got' = [got EXCEPT ![r] = d]
          /\ Goto(r, "checkOtp")
  /\ UNCHANGED <<otps, code, mailed, older>>

\* A bug: the code is not compared.
AcceptsAnyCode(r) ==
  /\ pc[r] = "checkOtp"
  /\ IF got[r].expiresAt < now THEN Reply(r, "expiredOtp")
                               ELSE Goto(r, "consumeOtp")
  /\ UNCHANGED otpVars

CheckOtp(r) ==
  /\ pc[r] = "checkOtp"
  /\ \/ /\ got[r].otp # code[r]
        /\ Reply(r, "invalidOtp")
     \/ /\ got[r].otp = code[r]
        /\ got[r].expiresAt < now
        /\ Reply(r, "expiredOtp")
     \/ /\ got[r].otp = code[r]
        /\ got[r].expiresAt >= now
        /\ Goto(r, "consumeOtp")
  /\ UNCHANGED otpVars

\* A bug: an accepted code stays until it expires.
KeepsAccepted(r) ==
  /\ pc[r] = "consumeOtp"
  /\ Goto(r, "otpVerified")
  /\ UNCHANGED otpVars

ConsumeOtp(r) ==
  /\ pc[r] = "consumeOtp"
  /\ DeleteByEmail(email[r])
  /\ Goto(r, "otpVerified")
  /\ UNCHANGED <<code, got, mailed, older>>

ReplyVerified(r) ==
  /\ pc[r] = "otpVerified"
  /\ route[r] = "verifyForgotOtp"
  /\ Reply(r, "ok")
  /\ UNCHANGED otpVars

-----------------------------------------------------------------------------

OtpArrival(r) ==
  \E e \in Emails :
    \/ ResendOtp(r, e)
    \/ \E c \in Codes : VerifyForgotOtp(r, e, c)

OtpHandler(r) ==
  \/ DeleteOtps(r) \/ SaveOtp(r) \/ MailOtp(r)
  \/ FindOtp(r) \/ CheckOtp(r) \/ ConsumeOtp(r) \/ ReplyVerified(r)

Environment == (\E r \in Requests : Fail(r)) \/ Crash \/ Tick \/ Rest

OtpNext ==
  \/ \E r \in Requests : OtpArrival(r) \/ OtpHandler(r)
  \/ Environment /\ UNCHANGED otpVars

OtpServiceInit == ServerInit /\ OtpInit

OtpSafety == OtpServiceInit /\ [][OtpNext]_<<serverVars, otpVars>>

\* Node runs every handler whose awaited call has completed; it owes nothing
\* to clients that may never call.
OtpSpec ==
  OtpSafety /\ \A r \in Requests : WF_<<serverVars, otpVars>>(OtpHandler(r))

-----------------------------------------------------------------------------
(* Properties.                                                             *)

SendRoutes == {"resend-otp", "register", "forgotOtp"}
VerifyRoutes == {"verifyForgotOtp", "verify-otp"}

OtpLabels == {"deleteOtps", "saveOtp", "mailOtp",
              "findOtp", "checkOtp", "consumeOtp", "otpVerified"}

ServerTypeOK(labels) ==
  /\ pc \in [Requests -> AtRest \union labels]
  /\ route \in [Requests -> Routes \union {Nil}]
  /\ email \in [Requests -> Emails \union {Nil}]
  /\ reply \in [Requests -> Outcomes \union {Nil}]
  /\ now \in Nat
  /\ dated \in [Requests -> Nat]
  /\ \A r \in Requests : pc[r] # "idle" => email[r] \in Emails

OtpVarsTypeOK ==
  /\ otps \in SUBSET OtpDoc
  /\ code \in [Requests -> Codes \union {Nil}]
  /\ got \in [Requests -> OtpDoc \union {Nil}]
  /\ mailed \in SUBSET OtpDoc
  /\ older \in [Requests -> SUBSET OtpDoc]
  /\ \A r \in Requests :
       pc[r] \in {"mailOtp", "checkOtp", "consumeOtp", "otpVerified"} => got[r] # Nil

\* The documents have the shape of the schema, and no handler goes on to use a
\* document that its query did not find.
OtpTypeOK == ServerTypeOK(OtpLabels) /\ OtpVarsTypeOK

\* The checks let r through: it is about to delete the code, or has done so.
Accepted(r) ==
  /\ route[r] \in VerifyRoutes
  /\ \/ pc[r] \notin {"findOtp", "checkOtp"} \union AtRest
     \/ reply[r] = "ok"

\* r went past the deleteMany of verifyOtp and has not failed since.
Spent(r) == Accepted(r) /\ pc[r] # "consumeOtp"

\* r, a call of sendOtp, has saved its code.
Saved(r) == route[r] \in SendRoutes /\ got[r] # Nil

\* verifyOtp deletes what it accepts: a code some request has used up is not
\* in the collection, whatever other sends and verifications run meanwhile, so
\* no verification that looks for it later finds it.  deleteMany by address is
\* what makes this so when overlapping sends have left several documents.
SpentCodeIsGone == \A r \in Requests : Spent(r) => got[r] \notin otps

\* createOtp "deleting any previous OTPs": once a send has saved its code,
\* none of the codes the address had when sendOtp was called is left.
OlderCodesRevoked ==
  \A r \in Requests : Saved(r) => older[r] \cap otps = {}

\* A verification that gets through presented the code of a document that a
\* send for the same address saved, as that send saved it.
AcceptedCodeWasIssued ==
  \A r \in Requests : Accepted(r) =>
    LET s == got[r].id
    IN /\ got[r].otp = code[r]
       /\ route[s] \in SendRoutes
       /\ email[s] = email[r]
       /\ got[s] = got[r]

\* The verification was refused, and so deletes nothing.
Refused(r) == reply[r] \in {"notFound", "invalidOtp", "expiredOtp"}

\* r may have executed a deleteMany on its address.
MayHaveDeleted(r) ==
  /\ pc[r] \notin {"idle", "deleteOtps", "findOtp", "checkOtp", "consumeOtp"}
  /\ ~Refused(r)

\* A saved code stays until a later step of another request for the same
\* address deletes it: no other address's traffic, no expiry and no refused
\* verification (a mistyped code) takes it away.
CodeKeptForItsAddress ==
  \A r \in Requests : Saved(r) =>
    \/ got[r] \in otps
    \/ \E q \in Requests \ {r} : email[q] = email[r] /\ MayHaveDeleted(q)

\* Every request is answered, unless the process dies under it.
EveryRequestAnswered ==
  \A r \in Requests : (pc[r] # "idle") ~> (pc[r] \in {"replied", "lost"})

\* createOtp "deleting any previous OTPs": an address has one code at most.
\* (Holds when clients wait for replies; overlapping sends leave two.)
OneCodePerEmail ==
  \A d1, d2 \in otps : d1.email = d2.email => d1 = d2

\* "One-Time Password": no two verifications get through with the same code.
\* (Holds when clients wait; overlapping verifications both read the code
\* before either has deleted it.)
CodeUsedOnce ==
  \A r, q \in Requests : r # q /\ Spent(r) /\ Spent(q) => got[r] # got[q]

\* The code an address can verify with, as OneTimeCode sees it.
CodeOf(e) == IF OtpsOf(e) = {} THEN Nil ELSE CHOOSE d \in OtpsOf(e) : TRUE
Valid == [e \in Emails |-> CodeOf(e)]
Issued == {got[r] : r \in {q \in Requests : Saved(q)}}
Admitted == {got[r] : r \in {q \in Requests : Spent(q)}}

C == INSTANCE OneTimeCode WITH
  Addresses <- Emails, IssuedCodes <- OtpDoc, None <- Nil,
  valid <- Valid, issued <- Issued, admitted <- Admitted

\* The four awaits of a send and the four of a verification are, to clients
\* that wait, one step each: an address has one code or none, a code is issued
\* once, and it gets one verification through at most, at the deleteMany.
ImplementsOneTimeCode == C!CodeSpec

LiveCodeRefused(r) ==
  /\ reply[r] = Nil
  /\ reply'[r] \in {"notFound", "invalidOtp", "expiredOtp"}
  /\ \E d \in OtpsOf(email[r]) : d.otp = code[r] /\ d.expiresAt >= now

\* A verification is refused only when the address has no live code equal to
\* the one presented.  (Holds when clients wait: then the document that findOne
\* returns is the only one, and still the only one when it is compared.)
LiveCodeAccepted ==
  [][\A r \in Requests : ~ LiveCodeRefused(r)]_<<serverVars, otpVars>>

\* "This OTP will expire in 2 minutes": a mailed code is refused as expired
\* only when two minutes have passed since it was saved.
ExpiresAsMailed ==
  [][\A r \in Requests :
       reply'[r] = "expiredOtp" /\ got[r] \in mailed /\ pc[r] = "checkOtp"
         => now - (got[r].expiresAt - OtpLifetime) >= MailedLifetime]_<<serverVars, otpVars>>

=============================================================================
