------------------------------- MODULE Server -------------------------------
(***************************************************************************)
(* The request machinery every component of the backend runs on: a single  *)
(* Node process that serves HTTP requests concurrently.  A handler runs    *)
(* from one await to the next without interruption, and other handlers run *)
(* in between, so a handler is a program counter that moves by one         *)
(* database, mail or bcrypt call at a time.  The controllers and services  *)
(* are the modules that extend this one.                                   *)
(***************************************************************************)
EXTENDS Naturals

CONSTANTS
  Requests,     \* the HTTP requests of a behaviour; each is served once
  Emails,       \* the addresses requests are about
  Routes,       \* the endpoints that clients use
  Overlapping,  \* may two requests about one address be in flight at once?
  Faults,       \* may database and mail calls fail, and the process crash?
  MaxTime,      \* bound on the clock, in ticks of 30 seconds
  Nil           \* null, undefined

\* What a client is told: success, or an exception of the handler.
Outcomes == {"ok", "notFound", "invalidOtp", "expiredOtp",
             "unauthorized", "badRequest", "conflict", "serverError"}

ASSUME ServerAssumption ==
  /\ Overlapping \in BOOLEAN
  /\ Faults \in BOOLEAN
  /\ MaxTime \in Nat
  /\ Nil \notin Emails \union Outcomes

VARIABLES
  pc,     \* the call a request's handler has in flight; idle, replied or lost
  route,  \* the endpoint that was called
  email,  \* body.email
  reply,  \* the outcome: "ok" or the exception that was thrown
  now,    \* the wall clock
  dated   \* the time a handler read before it issued the call that stores it

serverVars == <<pc, route, email, reply, now, dated>>

ServerInit ==
  /\ pc = [r \in Requests |-> "idle"]
  /\ route = [r \in Requests |-> Nil]
  /\ email = [r \in Requests |-> Nil]
  /\ reply = [r \in Requests |-> Nil]
  /\ now = 0
  /\ dated = [r \in Requests |-> 0]

AtRest == {"idle", "replied", "lost"}

InFlight == {r \in Requests : pc[r] \notin AtRest}

\* A request about address e reaches endpoint rt, whose handler starts at l.
\* When requests do not overlap, a client waits for the reply to its last
\* request about an address before it sends the next one.
Arrive(r, rt, e, l) ==
  /\ pc[r] = "idle"
  /\ rt \in Routes
  /\ Overlapping \/ \A q \in InFlight : email[q] # e
  /\ pc' = [pc EXCEPT ![r] = l]
  /\ route' = [route EXCEPT ![r] = rt]
  /\ email' = [email EXCEPT ![r] = e]
  /\ UNCHANGED <<reply, now, dated>>

\* The calls that store a date, which their handler computes before the await.
DatedCalls == {"saveOtp", "matchToken"}

\* The handler of r issues its next call.
Goto(r, l) ==
  /\ pc' = [pc EXCEPT ![r] = l]
  /\ dated' = IF l \in DatedCalls THEN [dated EXCEPT ![r] = now] ELSE dated
  /\ UNCHANGED <<route, email, reply, now>>

\* The handler of r returns or throws.
Reply(r, outcome) ==
  /\ pc' = [pc EXCEPT ![r] = "replied"]
  /\ reply' = [reply EXCEPT ![r] = outcome]
  /\ UNCHANGED <<route, email, now, dated>>

\* The call r has in flight is rejected (database or mail server down, schema
\* validation): no handler recovers, and the exception filter answers 500.  A
\* guard catches everything and refuses the request.
Fail(r) ==
  /\ Faults
  /\ r \in InFlight
  /\ Reply(r, IF pc[r] = "guard" THEN "unauthorized" ELSE "serverError")

\* The process dies.  Nothing about a request outlives it.
Crash ==
  /\ Faults
  /\ InFlight # {}
  /\ pc' = [r \in Requests |-> IF r \in InFlight THEN "lost" ELSE pc[r]]
  /\ UNCHANGED <<route, email, reply, now, dated>>

Tick ==
  /\ now < MaxTime
  /\ now' = now + 1
  /\ UNCHANGED <<pc, route, email, reply, dated>>

\* No request is in flight: the server waits.  With this step a behaviour
\* that stops is a handler that is stuck.
Rest == InFlight = {} /\ UNCHANGED serverVars
=============================================================================
