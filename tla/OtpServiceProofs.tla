-------------------------- MODULE OtpServiceProofs --------------------------
(***************************************************************************)
(* What TLAPS proves about OtpService for any number of requests,          *)
(* addresses and codes, overlapping and failing in any way.                *)
(***************************************************************************)
EXTENDS OtpService, TLAPS

-----------------------------------------------------------------------------
(* The inductive invariant.  It is stated for any set of labels a handler   *)
(* may be at, so that the modules that compose OtpService with other        *)
(* handlers can use the lemmas about its steps.                             *)

\* The requests that are about one-time passwords have an address; those of
\* other handlers may have none.
ServerInv(L) ==
  /\ pc \in [Requests -> AtRest \union L]
  /\ route \in [Requests -> Routes \union {Nil}]
  /\ email \in [Requests -> Emails \union {Nil}]
  /\ reply \in [Requests -> Outcomes \union {Nil}]
  /\ now \in Nat
  /\ dated \in [Requests -> Nat]
  /\ \A r \in Requests :
       pc[r] # "idle" /\ route[r] \in SendRoutes \union VerifyRoutes =>
         email[r] \in Emails

\* d is a document that request d.id saved, which is past saveOtp.  This is
\* why the document that saveOtp inserts is one that nobody has seen.
WasSaved(d) ==
  /\ pc[d.id] \in {"mailOtp", "replied", "lost"}
  /\ route[d.id] \in SendRoutes
  /\ email[d.id] = d.email
  /\ got[d.id] = d

EveryDocWasSaved ==
  /\ \A d \in otps : WasSaved(d)
  /\ \A r \in Requests : got[r] # Nil => WasSaved(got[r])
  /\ \A r \in Requests : \A d \in older[r] : WasSaved(d) /\ d.email = email[r]

\* What a handler holds is a document of its address; a send holds its own.
GotOfItsAddress ==
  \A r \in Requests : got[r] # Nil =>
    /\ got[r].email = email[r]
    /\ route[r] \in SendRoutes => got[r].id = r

\* A handler is at the steps of its endpoint, and has replied only at the end.
OnItsWay ==
  \A r \in Requests :
    /\ pc[r] = "idle" => got[r] = Nil /\ older[r] = {}
    /\ pc[r] \in {"deleteOtps", "saveOtp", "mailOtp"} => route[r] \in SendRoutes
    /\ pc[r] \in {"findOtp", "checkOtp", "consumeOtp", "otpVerified"} =>
         route[r] \in VerifyRoutes
    /\ pc[r] # "replied" => reply[r] = Nil

\* What was accepted had been compared.
AcceptedMatches ==
  \A r \in Requests : Accepted(r) => got[r] # Nil /\ got[r].otp = code[r]

\* From the first delete of createOtp on, the older codes are gone for good.
OlderDeleted ==
  \A r \in Requests : pc[r] = "saveOtp" \/ Saved(r) => older[r] \cap otps = {}

OtpInv(L) ==
  /\ ServerInv(L)
  /\ OtpVarsTypeOK
  /\ EveryDocWasSaved
  /\ GotOfItsAddress
  /\ OnItsWay
  /\ AcceptedMatches
  /\ OlderDeleted
  /\ SpentCodeIsGone

-----------------------------------------------------------------------------

\* The empty collection and idle requests satisfy the invariant.
LEMMA OtpInitInv ==
  ASSUME NEW L, OtpServiceInit
  PROVE  OtpInv(L)
<1> USE ServerAssumption, OtpAssumption DEF OtpServiceInit, ServerInit, OtpInit
<1>1. ServerInv(L) /\ OtpVarsTypeOK
  BY DEF ServerInv, OtpVarsTypeOK, AtRest
<1>2. EveryDocWasSaved /\ GotOfItsAddress /\ OnItsWay
  BY DEF EveryDocWasSaved, GotOfItsAddress, OnItsWay
<1>3. AcceptedMatches /\ SpentCodeIsGone
  BY DEF AcceptedMatches, SpentCodeIsGone, Accepted, AtRest, Outcomes
<1>4. OlderDeleted
  BY DEF OlderDeleted
<1> QED BY <1>1, <1>2, <1>3, <1>4 DEF OtpInv

\* Every arrival and every step of a handler keeps the invariant.  What has to
\* be argued is in SaveOtp, which needs that its document is new, and in the two
\* deletes, which need that they hit what was read (GotOfItsAddress).
LEMMA OtpStepInv ==
  ASSUME NEW L, OtpLabels \subseteq L, OtpInv(L),
         NEW r \in Requests, OtpArrival(r) \/ OtpHandler(r)
  PROVE  OtpInv(L)'
<1> USE ServerAssumption, OtpAssumption DEF OtpInv
<1>1. CASE \E e \in Emails : ResendOtp(r, e)
  <2> USE <1>1 DEF ResendOtp, Arrive, CallSendOtp, OtpsOf
  <2>1. ServerInv(L)' /\ OtpVarsTypeOK'
    BY DEF ServerInv, OtpVarsTypeOK, OtpLabels
  <2>2. EveryDocWasSaved' /\ GotOfItsAddress' /\ OnItsWay'
    BY DEF EveryDocWasSaved, WasSaved, GotOfItsAddress, OnItsWay, SendRoutes,
       ServerInv
  <2>3. AcceptedMatches'
    BY DEF AcceptedMatches, Accepted, ServerInv, VerifyRoutes
  <2>4. OlderDeleted'
    BY DEF OlderDeleted, Saved, OnItsWay
  <2>5. SpentCodeIsGone'
    BY DEF SpentCodeIsGone, Spent, Accepted, ServerInv, VerifyRoutes
  <2> QED BY <2>1, <2>2, <2>3, <2>4, <2>5
<1>2. CASE \E e \in Emails, c \in Codes : VerifyForgotOtp(r, e, c)
  <2> USE <1>2 DEF VerifyForgotOtp, Arrive
  <2>1. ServerInv(L)' /\ OtpVarsTypeOK'
    BY DEF ServerInv, OtpVarsTypeOK, OtpLabels
  <2>2. EveryDocWasSaved' /\ GotOfItsAddress' /\ OnItsWay'
    BY DEF EveryDocWasSaved, WasSaved, GotOfItsAddress, OnItsWay, VerifyRoutes,
       ServerInv
  <2>3. AcceptedMatches'
    BY DEF AcceptedMatches, Accepted, OnItsWay, AtRest, Outcomes
  <2>4. OlderDeleted'
    BY DEF OlderDeleted, Saved, SendRoutes
  <2>5. SpentCodeIsGone'
    BY DEF SpentCodeIsGone, Spent, Accepted, OnItsWay, AtRest, Outcomes
  <2> QED BY <2>1, <2>2, <2>3, <2>4, <2>5
<1>3. CASE DeleteOtps(r)
  <2> USE <1>3 DEF DeleteOtps, DeleteByEmail, OtpsOf, Goto
  <2>1. ServerInv(L)' /\ OtpVarsTypeOK'
    BY DEF ServerInv, OtpVarsTypeOK, OtpLabels
  <2>2. EveryDocWasSaved' /\ GotOfItsAddress' /\ OnItsWay'
    BY DEF EveryDocWasSaved, WasSaved, GotOfItsAddress, OnItsWay
  <2>3. AcceptedMatches'
    BY DEF AcceptedMatches, Accepted, AtRest
  <2>4. OlderDeleted'
    BY DEF OlderDeleted, Saved, EveryDocWasSaved
  <2>5. SpentCodeIsGone'
    BY DEF SpentCodeIsGone, Spent, Accepted, AtRest
  <2> QED BY <2>1, <2>2, <2>3, <2>4, <2>5
<1>4. CASE SaveOtp(r)
  <2> USE <1>4 DEF SaveOtp, Goto
  <2>1. ServerInv(L)' /\ OtpVarsTypeOK'
    BY DEF ServerInv, OtpVarsTypeOK, OtpLabels, OtpDoc, OtpLifetime,
       OnItsWay, SendRoutes
  <2>2. EveryDocWasSaved' /\ GotOfItsAddress' /\ OnItsWay'
    BY DEF EveryDocWasSaved, WasSaved, GotOfItsAddress, OnItsWay, SendRoutes,
       VerifyRoutes, ServerInv, OtpVarsTypeOK, OtpDoc
  <2>3. AcceptedMatches'
    BY DEF AcceptedMatches, Accepted, OnItsWay, SendRoutes, VerifyRoutes
  <2>4. OlderDeleted'
    BY DEF OlderDeleted, Saved, EveryDocWasSaved, WasSaved
  <2>5. SpentCodeIsGone'
    BY DEF SpentCodeIsGone, Spent, Accepted, EveryDocWasSaved, WasSaved,
       OnItsWay, AcceptedMatches, SendRoutes, VerifyRoutes
  <2> QED BY <2>1, <2>2, <2>3, <2>4, <2>5
<1>5. CASE MailOtp(r)
  <2> USE <1>5 DEF MailOtp, Reply
  <2>1. ServerInv(L)' /\ OtpVarsTypeOK'
    BY DEF ServerInv, OtpVarsTypeOK, AtRest, Outcomes
  <2>2. EveryDocWasSaved' /\ GotOfItsAddress' /\ OnItsWay'
    BY DEF EveryDocWasSaved, WasSaved, GotOfItsAddress, OnItsWay, ServerInv
  <2>3. AcceptedMatches'
    BY DEF AcceptedMatches, Accepted, AtRest
  <2>4. OlderDeleted'
    BY DEF OlderDeleted, Saved
  <2>5. SpentCodeIsGone'
    BY DEF SpentCodeIsGone, Spent, Accepted, AtRest
  <2> QED BY <2>1, <2>2, <2>3, <2>4, <2>5
<1>6. CASE FindOtp(r)
  <2> USE <1>6 DEF FindOtp, OtpsOf, Goto, Reply
  <2>1. ServerInv(L)' /\ OtpVarsTypeOK'
    BY DEF ServerInv, OtpVarsTypeOK, OtpLabels, AtRest, Outcomes
  <2>2. EveryDocWasSaved' /\ GotOfItsAddress' /\ OnItsWay'
    BY DEF EveryDocWasSaved, WasSaved, GotOfItsAddress, OnItsWay, SendRoutes,
       VerifyRoutes, ServerInv, OtpVarsTypeOK, OtpDoc
  <2>3. AcceptedMatches'
    BY DEF AcceptedMatches, Accepted, OnItsWay, ServerInv, OtpVarsTypeOK,
       AtRest, Outcomes
  <2>4. OlderDeleted'
    BY DEF OlderDeleted, Saved, OnItsWay, ServerInv, OtpVarsTypeOK,
       SendRoutes, VerifyRoutes
  <2>5. SpentCodeIsGone'
    BY DEF SpentCodeIsGone, Spent, Accepted, OnItsWay, ServerInv,
       OtpVarsTypeOK, AtRest, Outcomes
  <2> QED BY <2>1, <2>2, <2>3, <2>4, <2>5
<1>7. CASE CheckOtp(r)
  <2> USE <1>7 DEF CheckOtp, otpVars, Goto, Reply
  <2>1. ServerInv(L)' /\ OtpVarsTypeOK'
    BY DEF ServerInv, OtpVarsTypeOK, OtpLabels, AtRest, Outcomes
  <2>2. EveryDocWasSaved' /\ GotOfItsAddress' /\ OnItsWay'
    BY DEF EveryDocWasSaved, WasSaved, GotOfItsAddress, OnItsWay, ServerInv,
       OtpVarsTypeOK, OtpDoc
  <2>3. AcceptedMatches'
    BY DEF AcceptedMatches, Accepted, ServerInv, OtpVarsTypeOK, AtRest
  <2>4. OlderDeleted'
    BY DEF OlderDeleted, Saved, ServerInv
  <2>5. SpentCodeIsGone'
    BY DEF SpentCodeIsGone, Spent, Accepted, ServerInv, AtRest
  <2> QED BY <2>1, <2>2, <2>3, <2>4, <2>5
<1>8. CASE ConsumeOtp(r)
  <2> USE <1>8 DEF ConsumeOtp, DeleteByEmail, OtpsOf, Goto
  <2>1. ServerInv(L)' /\ OtpVarsTypeOK'
    BY DEF ServerInv, OtpVarsTypeOK, OtpLabels
  <2>2. EveryDocWasSaved' /\ GotOfItsAddress' /\ OnItsWay'
    BY DEF EveryDocWasSaved, WasSaved, GotOfItsAddress, OnItsWay
  <2>3. AcceptedMatches'
    BY DEF AcceptedMatches, Accepted, AtRest
  <2>4. OlderDeleted'
    BY DEF OlderDeleted, Saved
  <2>5. SpentCodeIsGone'
    BY DEF SpentCodeIsGone, Spent, Accepted, GotOfItsAddress, OtpVarsTypeOK
  <2> QED BY <2>1, <2>2, <2>3, <2>4, <2>5
<1>9. CASE ReplyVerified(r)
  <2> USE <1>9 DEF ReplyVerified, otpVars, Reply
  <2>1. ServerInv(L)' /\ OtpVarsTypeOK'
    BY DEF ServerInv, OtpVarsTypeOK, AtRest, Outcomes
  <2>2. EveryDocWasSaved' /\ GotOfItsAddress' /\ OnItsWay'
    BY DEF EveryDocWasSaved, WasSaved, GotOfItsAddress, OnItsWay, ServerInv
  <2>3. AcceptedMatches'
    BY DEF AcceptedMatches, Accepted, AtRest
  <2>4. OlderDeleted'
    BY DEF OlderDeleted, Saved
  <2>5. SpentCodeIsGone'
    BY DEF SpentCodeIsGone, Spent, Accepted, AtRest
  <2> QED BY <2>1, <2>2, <2>3, <2>4, <2>5
<1> QED
  BY <1>1, <1>2, <1>3, <1>4, <1>5, <1>6, <1>7, <1>8, <1>9 DEF OtpArrival,
     OtpHandler

\* So do a failing call, a crash and the clock, which change no document.
LEMMA OtpEnvironmentInv ==
  ASSUME NEW L, OtpInv(L), Environment \/ UNCHANGED serverVars, UNCHANGED otpVars
  PROVE  OtpInv(L)'
<1> USE ServerAssumption, OtpAssumption DEF OtpInv, otpVars
<1>1. CASE \E r \in Requests : Fail(r)
  <2> USE <1>1 DEF Fail, Reply, InFlight
  <2>1. ServerInv(L)' /\ OtpVarsTypeOK'
    BY DEF ServerInv, OtpVarsTypeOK, AtRest, Outcomes
  <2>2. EveryDocWasSaved' /\ GotOfItsAddress' /\ OnItsWay'
    BY DEF EveryDocWasSaved, WasSaved, GotOfItsAddress, OnItsWay, ServerInv
  <2>3. AcceptedMatches' /\ OlderDeleted' /\ SpentCodeIsGone'
    BY DEF AcceptedMatches, OlderDeleted, Saved, SpentCodeIsGone, Spent,
       Accepted, ServerInv, AtRest
  <2> QED BY <2>1, <2>2, <2>3
<1>2. CASE Crash
  <2> USE <1>2 DEF Crash, InFlight
  <2>1. ServerInv(L)' /\ OtpVarsTypeOK'
    BY DEF ServerInv, OtpVarsTypeOK, AtRest
  <2>2. EveryDocWasSaved' /\ GotOfItsAddress' /\ OnItsWay'
    BY DEF EveryDocWasSaved, WasSaved, GotOfItsAddress, OnItsWay,
      OtpVarsTypeOK,
       OtpDoc, AtRest
  <2>3. AcceptedMatches' /\ OlderDeleted' /\ SpentCodeIsGone'
    BY DEF AcceptedMatches, OlderDeleted, Saved, SpentCodeIsGone, Spent,
       Accepted, OnItsWay, AtRest, Outcomes
  <2> QED BY <2>1, <2>2, <2>3
<1>3. CASE Tick
  <2> USE <1>3 DEF Tick
  <2>1. ServerInv(L)' /\ OtpVarsTypeOK'
    BY DEF ServerInv, OtpVarsTypeOK
  <2>2. EveryDocWasSaved' /\ GotOfItsAddress' /\ OnItsWay'
    BY DEF EveryDocWasSaved, WasSaved, GotOfItsAddress, OnItsWay
  <2>3. AcceptedMatches' /\ OlderDeleted' /\ SpentCodeIsGone'
    BY DEF AcceptedMatches, OlderDeleted, Saved, SpentCodeIsGone, Spent,
       Accepted
  <2> QED BY <2>1, <2>2, <2>3
<1>4. CASE UNCHANGED serverVars
  <2> USE <1>4 DEF serverVars
  <2>1. ServerInv(L)' /\ OtpVarsTypeOK'
    BY DEF ServerInv, OtpVarsTypeOK
  <2>2. EveryDocWasSaved' /\ GotOfItsAddress' /\ OnItsWay'
    BY DEF EveryDocWasSaved, WasSaved, GotOfItsAddress, OnItsWay
  <2>3. AcceptedMatches' /\ OlderDeleted' /\ SpentCodeIsGone'
    BY DEF AcceptedMatches, OlderDeleted, Saved, SpentCodeIsGone, Spent,
       Accepted
  <2> QED BY <2>1, <2>2, <2>3
<1> QED
  BY <1>1, <1>2, <1>3, <1>4 DEF Environment, Rest

\* The inductive invariant holds in every reachable state of OtpService.
THEOREM OtpInvariance == OtpSpec => []OtpInv(AtRest \union OtpLabels)
<1> DEFINE L == AtRest \union OtpLabels
<1>1. OtpServiceInit => OtpInv(L)
  BY OtpInitInv
<1>2. OtpInv(L) /\ [OtpNext]_<<serverVars, otpVars>> => OtpInv(L)'
  <2> SUFFICES ASSUME OtpInv(L), [OtpNext]_<<serverVars, otpVars>>
               PROVE  OtpInv(L)'
    OBVIOUS
  <2>1. CASE \E r \in Requests : OtpArrival(r) \/ OtpHandler(r)
    BY <2>1, OtpStepInv
  <2>2. CASE Environment /\ UNCHANGED otpVars
    BY <2>2, OtpEnvironmentInv
  <2>3. CASE UNCHANGED <<serverVars, otpVars>>
    BY <2>3, OtpEnvironmentInv
  <2> QED BY <2>1, <2>2, <2>3 DEF OtpNext
<1> QED BY <1>1, <1>2, PTL DEF OtpSpec, OtpSafety

-----------------------------------------------------------------------------
(* Theorems for every interleaving.                                        *)

\* Every request that has arrived has an address.
Addressed == \A r \in Requests : pc[r] # "idle" => email[r] \in Emails

\* No step takes an address away, and every arrival of OtpService brings one.
LEMMA OtpStepAddressed ==
  ASSUME NEW L, OtpInv(L), Addressed,
         \/ \E r \in Requests : OtpArrival(r) \/ OtpHandler(r)
         \/ Environment \/ UNCHANGED serverVars
  PROVE  Addressed'
BY DEF OtpInv, ServerInv, Addressed, OtpArrival, ResendOtp, VerifyForgotOtp,
   Arrive, OtpHandler, DeleteOtps, SaveOtp, MailOtp, FindOtp, CheckOtp,
   ConsumeOtp, ReplyVerified, Goto, Reply, Environment, Fail, Crash, Tick, Rest,
   InFlight, AtRest, serverVars

\* The collection, and what the handlers remember of it, is well formed, and
\* none of them goes on to use a document its query did not find.
THEOREM OtpTypes == OtpSpec => []OtpTypeOK
<1> DEFINE L == AtRest \union OtpLabels
<1>1. OtpInv(L) /\ Addressed => OtpTypeOK
  BY DEF OtpInv, OtpTypeOK, ServerTypeOK, ServerInv, Addressed
<1>2. OtpServiceInit => Addressed
  BY DEF OtpServiceInit, ServerInit, Addressed
<1>3. OtpInv(L) /\ Addressed /\ [OtpNext]_<<serverVars, otpVars>> => Addressed'
  BY OtpStepAddressed DEF OtpNext
<1> QED BY <1>1, <1>2, <1>3, OtpInvariance, PTL DEF OtpSpec, OtpSafety

\* What verifyOtp accepts is gone, however sends and verifications interleave.
THEOREM OtpSpentCodesGone == OtpSpec => []SpentCodeIsGone
BY OtpInvariance, PTL DEF OtpInv

\* A send that has saved its code has revoked the codes the address had when
\* it was called.
THEOREM OtpOlderRevoked == OtpSpec => []OlderCodesRevoked
<1>1. OtpInv(AtRest \union OtpLabels) => OlderCodesRevoked
  BY DEF OtpInv, OlderDeleted, OlderCodesRevoked
<1> QED BY <1>1, OtpInvariance, PTL

\* A verification that gets through presented a code that was sent to its
\* address.
THEOREM OtpAcceptedIssued == OtpSpec => []AcceptedCodeWasIssued
<1>1. OtpInv(AtRest \union OtpLabels) => AcceptedCodeWasIssued
  BY DEF OtpInv, AcceptedMatches, EveryDocWasSaved, WasSaved, GotOfItsAddress,
     AcceptedCodeWasIssued
<1> QED BY <1>1, OtpInvariance, PTL

\* A request that deletes a code is another one than the request that saved it,
\* and is about the same address.
LEMMA OtpStepKeeps ==
  ASSUME NEW L, OtpInv(L), CodeKeptForItsAddress,
         NEW r \in Requests, OtpArrival(r) \/ OtpHandler(r)
  PROVE  CodeKeptForItsAddress'
<1> USE ServerAssumption, OtpAssumption
    DEF OtpInv, CodeKeptForItsAddress, Saved, MayHaveDeleted, Refused
<1>1. CASE \E e \in Emails : ResendOtp(r, e)
  BY <1>1 DEF ResendOtp, Arrive, OnItsWay
<1>2. CASE \E e \in Emails, c \in Codes : VerifyForgotOtp(r, e, c)
  BY <1>2 DEF VerifyForgotOtp, Arrive, ServerInv, SendRoutes
<1>3. CASE DeleteOtps(r)
  BY <1>3 DEF DeleteOtps, DeleteByEmail, OtpsOf, Goto, EveryDocWasSaved,
     WasSaved, GotOfItsAddress, OnItsWay, ServerInv, Outcomes
<1>4. CASE SaveOtp(r)
  BY <1>4 DEF SaveOtp, Goto
<1>5. CASE MailOtp(r)
  BY <1>5 DEF MailOtp, Reply
<1>6. CASE FindOtp(r)
  BY <1>6 DEF FindOtp, OtpsOf, Goto, Reply, ServerInv, OtpVarsTypeOK
<1>7. CASE CheckOtp(r)
  BY <1>7 DEF CheckOtp, otpVars, Goto, Reply, ServerInv
<1>8. CASE ConsumeOtp(r)
  BY <1>8 DEF ConsumeOtp, DeleteByEmail, OtpsOf, Goto, GotOfItsAddress,
     OnItsWay, ServerInv, Outcomes, SendRoutes, VerifyRoutes
<1>9. CASE ReplyVerified(r)
  BY <1>9 DEF ReplyVerified, otpVars, Reply
<1> QED
  BY <1>1, <1>2, <1>3, <1>4, <1>5, <1>6, <1>7, <1>8, <1>9 DEF OtpArrival,
     OtpHandler

\* A request that may have deleted something still may have after it failed.
LEMMA OtpEnvironmentKeeps ==
  ASSUME NEW L, OtpInv(L), CodeKeptForItsAddress,
         Environment \/ UNCHANGED serverVars, UNCHANGED otpVars
  PROVE  CodeKeptForItsAddress'
BY ServerAssumption DEF OtpInv, ServerInv, CodeKeptForItsAddress, Saved,
   MayHaveDeleted, Refused, Environment, Fail, Reply, Crash, Tick, Rest,
   otpVars, serverVars

\* Only requests about its own address take a saved code away.
THEOREM OtpCodeKept == OtpSpec => []CodeKeptForItsAddress
<1> DEFINE L == AtRest \union OtpLabels
<1>1. OtpServiceInit => CodeKeptForItsAddress
  BY DEF OtpServiceInit, OtpInit, CodeKeptForItsAddress, Saved
<1>2. OtpInv(L) /\ CodeKeptForItsAddress /\ [OtpNext]_<<serverVars, otpVars>>
        => CodeKeptForItsAddress'
  BY OtpStepKeeps, OtpEnvironmentKeeps DEF OtpNext, otpVars
<1> QED BY <1>1, <1>2, OtpInvariance, PTL DEF OtpSpec, OtpSafety

-----------------------------------------------------------------------------
(* Theorems for clients that wait for their replies.                       *)

\* No two requests in flight are about one address.
Alone == \A q, r \in InFlight : email[q] = email[r] => q = r

\* createOtp has deleted the codes of its address, and nobody has saved another.
SavesTheOnlyCode == \A r \in Requests : pc[r] = "saveOtp" => OtpsOf(email[r]) = {}

\* The document a verification has read is still stored.
ReadIsCurrent ==
  \A r \in Requests : pc[r] \in {"checkOtp", "consumeOtp"} => got[r] \in otps

SerialInv ==
  /\ Alone
  /\ SavesTheOnlyCode
  /\ ReadIsCurrent
  /\ OneCodePerEmail
  /\ CodeUsedOnce

\* A request about an address starts only when no other one is in flight, and
\* so no other one saves or deletes between what it reads and what it does.
LEMMA OtpStepSerial ==
  ASSUME NEW L, OtpInv(L), SerialInv, ~Overlapping,
         NEW r \in Requests, OtpArrival(r) \/ OtpHandler(r)
  PROVE  SerialInv'
<1> USE ServerAssumption, OtpAssumption DEF OtpInv, SerialInv
<1>1. CASE \E e \in Emails : ResendOtp(r, e)
  <2> USE <1>1 DEF ResendOtp, Arrive, CallSendOtp, OtpsOf
  <2>1. Alone' /\ SavesTheOnlyCode'
    BY DEF Alone, SavesTheOnlyCode, OtpsOf, InFlight, ServerInv
  <2>2. ReadIsCurrent' /\ OneCodePerEmail'
    BY DEF Alone, ReadIsCurrent, OneCodePerEmail
  <2>3. CodeUsedOnce'
    BY DEF CodeUsedOnce, Spent, Accepted, ServerInv, VerifyRoutes
  <2> QED BY <2>1, <2>2, <2>3
<1>2. CASE \E e \in Emails, c \in Codes : VerifyForgotOtp(r, e, c)
  <2> USE <1>2 DEF VerifyForgotOtp, Arrive
  <2>1. Alone' /\ SavesTheOnlyCode'
    BY DEF Alone, SavesTheOnlyCode, OtpsOf, InFlight, ServerInv
  <2>2. ReadIsCurrent' /\ OneCodePerEmail'
    BY DEF Alone, ReadIsCurrent, OneCodePerEmail
  <2>3. CodeUsedOnce'
    BY DEF CodeUsedOnce, Spent, Accepted, OnItsWay, AtRest, Outcomes
  <2> QED BY <2>1, <2>2, <2>3
<1>3. CASE DeleteOtps(r)
  <2> USE <1>3 DEF DeleteOtps, DeleteByEmail, OtpsOf, Goto
  <2>1. Alone' /\ SavesTheOnlyCode'
    BY DEF Alone, SavesTheOnlyCode, OtpsOf, InFlight, AtRest
  <2>2. ReadIsCurrent' /\ OneCodePerEmail'
    BY DEF Alone, SavesTheOnlyCode, OtpsOf, ReadIsCurrent, OneCodePerEmail,
       GotOfItsAddress, InFlight, AtRest, OtpVarsTypeOK
  <2>3. CodeUsedOnce'
    BY DEF CodeUsedOnce, Spent, Accepted, AtRest
  <2> QED BY <2>1, <2>2, <2>3
<1>4. CASE SaveOtp(r)
  <2> USE <1>4 DEF SaveOtp, Goto
  <2>1. Alone' /\ SavesTheOnlyCode'
    BY DEF Alone, SavesTheOnlyCode, OtpsOf, InFlight, AtRest, ServerInv
  <2>2. ReadIsCurrent' /\ OneCodePerEmail'
    BY DEF Alone, SavesTheOnlyCode, OtpsOf, ReadIsCurrent, OneCodePerEmail
  <2>3. CodeUsedOnce'
    BY DEF CodeUsedOnce, Spent, Accepted, OnItsWay, SendRoutes, VerifyRoutes
  <2> QED BY <2>1, <2>2, <2>3
<1>5. CASE MailOtp(r)
  <2> USE <1>5 DEF MailOtp, Reply
  <2>1. Alone' /\ SavesTheOnlyCode'
    BY DEF Alone, SavesTheOnlyCode, OtpsOf, InFlight, AtRest
  <2>2. ReadIsCurrent' /\ OneCodePerEmail'
    BY DEF Alone, ReadIsCurrent, OneCodePerEmail
  <2>3. CodeUsedOnce'
    BY DEF CodeUsedOnce, Spent, Accepted, AtRest
  <2> QED BY <2>1, <2>2, <2>3
<1>6. CASE FindOtp(r)
  <2> USE <1>6 DEF FindOtp, OtpsOf, Goto, Reply
  <2>1. Alone' /\ SavesTheOnlyCode'
    BY DEF Alone, SavesTheOnlyCode, OtpsOf, InFlight, AtRest, ServerInv
  <2>2. ReadIsCurrent' /\ OneCodePerEmail'
    BY DEF Alone, ReadIsCurrent, OneCodePerEmail, ServerInv, OtpVarsTypeOK
  <2>3. CodeUsedOnce'
    BY DEF CodeUsedOnce, Spent, Accepted, OnItsWay, ServerInv,
      OtpVarsTypeOK,
       AtRest, Outcomes
  <2> QED BY <2>1, <2>2, <2>3
<1>7. CASE CheckOtp(r)
  <2> USE <1>7 DEF CheckOtp, otpVars, Goto, Reply
  <2>1. Alone' /\ SavesTheOnlyCode'
    BY DEF Alone, SavesTheOnlyCode, OtpsOf, InFlight, AtRest, ServerInv
  <2>2. ReadIsCurrent' /\ OneCodePerEmail'
    BY DEF Alone, ReadIsCurrent, OneCodePerEmail, ServerInv
  <2>3. CodeUsedOnce'
    BY DEF CodeUsedOnce, Spent, Accepted, ServerInv, AtRest
  <2> QED BY <2>1, <2>2, <2>3
<1>8. CASE ConsumeOtp(r)
  <2> USE <1>8 DEF ConsumeOtp, DeleteByEmail, OtpsOf, Goto
  <2>1. Alone' /\ SavesTheOnlyCode'
    BY DEF Alone, SavesTheOnlyCode, OtpsOf, InFlight, AtRest
  <2>2. ReadIsCurrent' /\ OneCodePerEmail'
    BY DEF Alone, SavesTheOnlyCode, OtpsOf, ReadIsCurrent, OneCodePerEmail,
       GotOfItsAddress, InFlight, AtRest, ServerInv, OtpVarsTypeOK
  <2>3. CodeUsedOnce'
    BY DEF CodeUsedOnce, Spent, Accepted, ReadIsCurrent, SpentCodeIsGone
  <2> QED BY <2>1, <2>2, <2>3
<1>9. CASE ReplyVerified(r)
  <2> USE <1>9 DEF ReplyVerified, otpVars, Reply
  <2>1. Alone' /\ SavesTheOnlyCode'
    BY DEF Alone, SavesTheOnlyCode, OtpsOf, InFlight, AtRest
  <2>2. ReadIsCurrent' /\ OneCodePerEmail'
    BY DEF Alone, ReadIsCurrent, OneCodePerEmail
  <2>3. CodeUsedOnce'
    BY DEF CodeUsedOnce, Spent, Accepted, AtRest
  <2> QED BY <2>1, <2>2, <2>3
<1> QED
  BY <1>1, <1>2, <1>3, <1>4, <1>5, <1>6, <1>7, <1>8, <1>9 DEF OtpArrival,
     OtpHandler

\* Failing and crashing only take requests out of flight.
LEMMA OtpEnvironmentSerial ==
  ASSUME NEW L, OtpInv(L), SerialInv,
         Environment \/ UNCHANGED serverVars, UNCHANGED otpVars
  PROVE  SerialInv'
<1> USE ServerAssumption, OtpAssumption DEF OtpInv, SerialInv, Environment,
      Fail, Reply, Crash, Tick, Rest, InFlight, AtRest, otpVars, serverVars
<1>1. Alone' /\ SavesTheOnlyCode' /\ ReadIsCurrent' /\ OneCodePerEmail'
  BY DEF Alone, SavesTheOnlyCode, OtpsOf, ReadIsCurrent, OneCodePerEmail,
     ServerInv
<1>2. CodeUsedOnce'
  BY DEF CodeUsedOnce, Spent, Accepted, OnItsWay, ServerInv, Outcomes
<1> QED BY <1>1, <1>2

\* The invariant of waiting clients holds in every reachable state.
THEOREM OtpSerialInvariance ==
  ASSUME ~Overlapping
  PROVE  OtpSpec => []SerialInv
<1> DEFINE L == AtRest \union OtpLabels
<1>1. OtpServiceInit => SerialInv
  BY ServerAssumption DEF OtpServiceInit, ServerInit, OtpInit, SerialInv,
    Alone,
     InFlight, AtRest, SavesTheOnlyCode, ReadIsCurrent, OneCodePerEmail,
     CodeUsedOnce, Spent, Accepted, Outcomes
<1>2. OtpInv(L) /\ SerialInv /\ [OtpNext]_<<serverVars, otpVars>> => SerialInv'
  BY OtpStepSerial, OtpEnvironmentSerial DEF OtpNext, otpVars
<1> QED BY <1>1, <1>2, OtpInvariance, PTL DEF OtpSpec, OtpSafety

\* createOtp leaves an address one code.
THEOREM OtpOneCode ==
  ASSUME ~Overlapping
  PROVE  OtpSpec => []OneCodePerEmail
<1>1. OtpSpec => []SerialInv
  BY OtpSerialInvariance
<1> QED BY <1>1, PTL DEF SerialInv

\* A code lets one verification through.
THEOREM OtpUsedOnce ==
  ASSUME ~Overlapping
  PROVE  OtpSpec => []CodeUsedOnce
<1>1. OtpSpec => []SerialInv
  BY OtpSerialInvariance
<1> QED BY <1>1, PTL DEF SerialInv

\* A live code that the address holds is never refused.
THEOREM OtpLiveAccepted ==
  ASSUME ~Overlapping
  PROVE  OtpSpec => LiveCodeAccepted
<1> DEFINE L == AtRest \union OtpLabels
<1>1. ASSUME OtpInv(L), SerialInv, [OtpNext]_<<serverVars, otpVars>>,
             NEW r \in Requests, LiveCodeRefused(r)
      PROVE  FALSE
  <2> USE ServerAssumption DEF OtpInv, ServerInv, Outcomes, LiveCodeRefused
  <2>1. FindOtp(r) \/ CheckOtp(r)
    BY <1>1 DEF OtpNext, OtpArrival, OtpHandler, Environment, ResendOtp,
       VerifyForgotOtp, DeleteOtps, SaveOtp, MailOtp, FindOtp, CheckOtp,
       ConsumeOtp, ReplyVerified, Arrive, Goto, Reply, Fail, Crash, Tick, Rest,
       serverVars
  <2>2. CASE FindOtp(r)
    BY <1>1, <2>2 DEF FindOtp, Goto
  <2>3. CASE CheckOtp(r)
    BY <1>1, <2>3 DEF CheckOtp, Goto, OtpsOf, SerialInv, ReadIsCurrent,
       OneCodePerEmail, GotOfItsAddress, OtpVarsTypeOK, OtpDoc
  <2> QED BY <2>1, <2>2, <2>3
<1>2. OtpInv(L) /\ SerialInv /\ [OtpNext]_<<serverVars, otpVars>>
        => [\A r \in Requests : ~ LiveCodeRefused(r)]_<<serverVars, otpVars>>
  BY <1>1
<1>3. OtpSpec => []SerialInv
  BY OtpSerialInvariance
<1> QED
  BY <1>2, <1>3, OtpInvariance, PTL DEF OtpSpec, OtpSafety, LiveCodeAccepted

-----------------------------------------------------------------------------
(* OtpService implements OneTimeCode when clients wait for their replies.  *)

\* The code an address is mapped to is one of its documents, if it has any.
LEMMA StoredCode ==
  ASSUME NEW e \in Emails
  PROVE  /\ OtpsOf(e) = {} => CodeOf(e) = Nil
         /\ OtpsOf(e) # {} => CodeOf(e) \in OtpsOf(e)
         /\ OtpsOf(e)' = {} => CodeOf(e)' = Nil
         /\ OtpsOf(e)' # {} => CodeOf(e)' \in OtpsOf(e)'
BY DEF CodeOf

\* An address whose documents a step leaves alone keeps its code.
LEMMA CodeUnmoved ==
  ASSUME NEW e \in Emails, OneCodePerEmail, OneCodePerEmail',
         OtpsOf(e)' = OtpsOf(e)
  PROVE  CodeOf(e)' = CodeOf(e)
<1>1. CASE OtpsOf(e) = {}
  BY <1>1, StoredCode
<1>2. CASE OtpsOf(e) # {}
  <2>1. CodeOf(e) \in OtpsOf(e) /\ CodeOf(e)' \in OtpsOf(e)
    BY <1>2, StoredCode
  <2> QED BY <2>1 DEF OneCodePerEmail, OtpsOf
<1> QED BY <1>1, <1>2

\* A step that leaves the collection and the sends' codes alone, and admits
\* nobody, is at most a retraction.
LEMMA QuietStep ==
  ASSUME OneCodePerEmail, OneCodePerEmail', otps' = otps,
         \A r \in Requests : Saved(r)' = Saved(r),
         \A r \in Requests : Saved(r) => got'[r] = got[r],
         \A r \in Requests : Spent(r)' => Spent(r) /\ got'[r] = got[r]
  PROVE  C!CodeNext
<1>1. \A e \in Emails : CodeOf(e)' = CodeOf(e)
  BY CodeUnmoved DEF OtpsOf
<1>2. Valid' = Valid
  BY <1>1 DEF Valid
<1>3. Issued' = Issued
  BY DEF Issued
<1>4. Admitted' \subseteq Admitted
  BY DEF Admitted
<1> QED BY <1>2, <1>3, <1>4 DEF C!CodeNext, C!Retract

\* Every step of an arrival or a handler is one of OneTimeCode.
LEMMA OtpStepImplements ==
  ASSUME NEW L, OtpInv(L), SerialInv, OtpInv(L)', SerialInv',
         NEW r \in Requests, OtpArrival(r) \/ OtpHandler(r)
  PROVE  C!CodeNext
<1> USE ServerAssumption, OtpAssumption
<1>0. OneCodePerEmail /\ OneCodePerEmail'
  BY DEF SerialInv
<1>00. pc[r] \in OtpLabels => email[r] \in Emails
  BY DEF OtpInv, ServerInv, OnItsWay, OtpLabels
<1>1. CASE \/ \E e \in Emails : ResendOtp(r, e)
           \/ \E e \in Emails, c \in Codes : VerifyForgotOtp(r, e, c)
  <2> USE <1>1 DEF ResendOtp, VerifyForgotOtp, Arrive
  <2>1. \A q \in Requests : Saved(q)' = Saved(q)
    BY DEF Saved, OtpInv, OnItsWay, ServerInv
  <2>2. \A q \in Requests : Spent(q)' => Spent(q)
    BY DEF Spent, Accepted, OtpInv, OnItsWay, ServerInv, AtRest, Outcomes,
       VerifyRoutes
  <2> QED BY <1>0, <2>1, <2>2, QuietStep
<1>2. CASE DeleteOtps(r)
  <2> USE <1>2 DEF DeleteOtps, DeleteByEmail, Goto
  <2>1. OtpsOf(email[r])' = {} /\ email[r] \in Emails
    BY <1>00 DEF OtpsOf, OtpLabels
  <2>2. \A e \in Emails \ {email[r]} : OtpsOf(e)' = OtpsOf(e)
    BY DEF OtpsOf
  <2>3. Valid' = [Valid EXCEPT ![email[r]] = Nil]
    BY <1>0, <2>1, <2>2, StoredCode, CodeUnmoved DEF Valid
  <2>4. Issued' = Issued
    BY DEF Issued, Saved
  <2>5. \A q \in Requests : Spent(q)' = Spent(q)
    BY DEF Spent, Accepted, OtpInv, OnItsWay, ServerInv, AtRest, SendRoutes,
       VerifyRoutes
  <2>6. Admitted' = Admitted
    BY <2>5 DEF Admitted
  <2> QED BY <2>1, <2>3, <2>4, <2>6 DEF C!CodeNext, C!Revoke
<1>3. CASE SaveOtp(r)
  <2> USE <1>3 DEF SaveOtp, Goto
  <2>1. email[r] \in Emails /\ route[r] \in SendRoutes
    BY <1>00 DEF OtpInv, OnItsWay, OtpLabels
  <2>2. /\ got'[r] \in OtpDoc /\ got'[r].email = email[r] /\ got'[r].id = r
        /\ otps' = otps \union {got'[r]}
        /\ got' = [got EXCEPT ![r] = got'[r]]
    BY <2>1 DEF OtpInv, ServerInv, OtpVarsTypeOK, OtpDoc, OtpLifetime
  <2>3. OtpsOf(email[r]) = {} /\ OtpsOf(email[r])' = {got'[r]}
    BY <2>2 DEF SerialInv, SavesTheOnlyCode, OtpsOf
  <2>4. \A e \in Emails \ {email[r]} : OtpsOf(e)' = OtpsOf(e)
    BY <2>2 DEF OtpsOf
  <2>5. CodeOf(email[r]) = Nil /\ CodeOf(email[r])' = got'[r]
    BY <2>1, <2>3, StoredCode
  <2>6. Valid' = [Valid EXCEPT ![email[r]] = got'[r]]
    BY <1>0, <2>1, <2>4, <2>5, CodeUnmoved DEF Valid
  <2>7. \A q \in Requests : Saved(q) => got[q] # got'[r] /\ q # r
    BY <2>1, <2>2 DEF Saved, OtpInv, EveryDocWasSaved, WasSaved,
       GotOfItsAddress
  <2>8. Issued' = Issued \union {got'[r]} /\ got'[r] \notin Issued
    <3>1. Saved(r)' /\ \A q \in Requests \ {r} : Saved(q)' = Saved(q)
      BY <2>1, <2>2 DEF Saved
    <3> QED BY <2>2, <2>7, <3>1 DEF Issued
  <2>9. \A q \in Requests : Spent(q)' = Spent(q) /\ (Spent(q) => q # r)
    BY <2>1, <2>2 DEF Spent, Accepted, SendRoutes, VerifyRoutes
  <2>10. Admitted' = Admitted
    BY <2>2, <2>9 DEF Admitted
  <2>11. Valid[email[r]] = Nil /\ Valid'[email[r]] = got'[r]
    BY <2>1, <2>5 DEF Valid
  <2> QED
    BY <2>1, <2>2, <2>6, <2>8, <2>10, <2>11 DEF C!CodeNext, C!Issue
<1>4. CASE ConsumeOtp(r)
  <2> USE <1>4 DEF ConsumeOtp, DeleteByEmail, Goto
  <2>1. OtpsOf(email[r])' = {} /\ email[r] \in Emails
    BY <1>00 DEF OtpsOf, OtpLabels
  <2>2. \A e \in Emails \ {email[r]} : OtpsOf(e)' = OtpsOf(e)
    BY DEF OtpsOf
  <2>3. Valid' = [Valid EXCEPT ![email[r]] = Nil]
    BY <1>0, <2>1, <2>2, StoredCode, CodeUnmoved DEF Valid
  <2>4. got[r] \in OtpsOf(email[r]) /\ got[r] # Nil
    BY DEF SerialInv, ReadIsCurrent, OtpInv, GotOfItsAddress, OtpVarsTypeOK,
       OtpsOf
  <2>5. Valid[email[r]] = got[r]
    BY <1>0, <2>1, <2>4, StoredCode DEF Valid, OneCodePerEmail, OtpsOf
  <2>6. Issued' = Issued
    BY DEF Issued, Saved
  <2>7. Spent(r)' /\ \A q \in Requests \ {r} : Spent(q)' = Spent(q)
    BY DEF Spent, Accepted, OtpInv, OnItsWay, ServerInv, AtRest
  <2>8. Admitted' = Admitted \union {got[r]}
    <3>1. ~ Spent(r)
      BY DEF Spent
    <3> QED BY <2>7, <3>1 DEF Admitted
  <2> QED BY <2>1, <2>3, <2>4, <2>5, <2>6, <2>8 DEF C!CodeNext, C!Admit
<1>5. CASE MailOtp(r) \/ FindOtp(r) \/ CheckOtp(r) \/ ReplyVerified(r)
  <2> USE <1>5 DEF MailOtp, FindOtp, CheckOtp, ReplyVerified, Goto, Reply,
      otpVars
  <2>1. \A q \in Requests : /\ Saved(q)' = Saved(q)
                            /\ Saved(q) => got'[q] = got[q]
    BY DEF Saved, OtpInv, OnItsWay, ServerInv, OtpVarsTypeOK, SendRoutes,
       VerifyRoutes
  <2>2. \A q \in Requests : Spent(q)' => Spent(q) /\ got'[q] = got[q]
    BY DEF Spent, Accepted, OtpInv, OnItsWay, ServerInv, OtpVarsTypeOK,
       AtRest, Outcomes, SendRoutes, VerifyRoutes
  <2> QED BY <1>0, <2>1, <2>2, QuietStep
<1> QED
  BY <1>1, <1>2, <1>3, <1>4, <1>5 DEF OtpArrival, OtpHandler

\* An error or a crash retracts what had got through and not been answered.
LEMMA OtpEnvironmentImplements ==
  ASSUME NEW L, OtpInv(L), SerialInv, SerialInv',
         Environment \/ UNCHANGED serverVars, UNCHANGED otpVars
  PROVE  C!CodeNext
<1> USE ServerAssumption DEF Environment, Fail, Reply, Crash, Tick, Rest,
    InFlight, serverVars, otpVars
<1>1. \A q \in Requests : Saved(q)' = Saved(q)
  BY DEF Saved
<1>2. \A q \in Requests : Spent(q)' => Spent(q)
  BY DEF Spent, Accepted, OtpInv, OnItsWay, ServerInv, AtRest, Outcomes
<1> QED BY <1>1, <1>2, QuietStep DEF SerialInv

\* When clients wait, OtpService implements OneTimeCode.
THEOREM OtpImplementsOneTimeCode ==
  ASSUME ~Overlapping
  PROVE  OtpSpec => ImplementsOneTimeCode
<1> DEFINE L == AtRest \union OtpLabels
<1>1. OtpServiceInit => C!CodeInit
  BY ServerAssumption, OtpAssumption DEF OtpServiceInit, ServerInit, OtpInit,
     C!CodeInit, Valid, Issued, Admitted, CodeOf, OtpsOf, Saved, Spent,
     Accepted, AtRest, Outcomes
<1>2. OtpInv(L) /\ SerialInv /\ OtpInv(L)' /\ SerialInv'
        /\ [OtpNext]_<<serverVars, otpVars>> => [C!CodeNext]_C!codeVars
  BY OtpStepImplements, OtpEnvironmentImplements DEF OtpNext, otpVars
<1>3. OtpSpec => []SerialInv
  BY OtpSerialInvariance
<1> QED
  BY <1>1, <1>2, <1>3, OtpInvariance, PTL DEF OtpSpec, OtpSafety,
     ImplementsOneTimeCode, C!CodeSpec
=============================================================================
