----------------------------- MODULE TripProofs -----------------------------
(***************************************************************************)
(* What TLAPS proves about Trip for any number of requests and names.      *)
(***************************************************************************)
EXTENDS Trip, TLAPS

\* The creations in flight are of different people, a trip has the person of the
\* request that saved it, and a name that its person has not used when it is
\* looked up is still one that the person has not used when the trip is saved.
TripInv ==
  /\ pc \in [Requests -> AtRest \union TripLabels]
  /\ email \in [Requests -> Emails \union {Nil}]
  /\ tripName \in [Requests -> TripNames \union {Nil}]
  /\ \A q, r \in InFlight : email[q] = email[r] => q = r
  /\ \A d \in trips : d.id \in Requests /\ pc[d.id] # "idle"
  /\ \A r \in Requests : pc[r] = "saveTrip" =>
       \A d \in trips : email[d.id] = email[r] => d.tripName # tripName[r]
  /\ OwnTripsDiffer

\* When clients wait, every step keeps the invariant.
LEMMA TripStepInv ==
  ASSUME ~Overlapping, TripInv, [TripNext]_<<serverVars, tripVars>>
  PROVE  TripInv'
<1> USE DEF TripInv, InFlight, AtRest, tripVars
<1>1. ASSUME NEW r \in Requests, NEW e \in Emails, NEW n \in TripNames,
             CreateTrip(r, e, n)
      PROVE  TripInv'
  BY <1>1 DEF CreateTrip, Arrive, TripLabels, OwnTripsDiffer
<1>2. ASSUME NEW r \in Requests, FindTrip(r)
      PROVE  TripInv'
  BY <1>2 DEF FindTrip, Goto, Reply, TripLabels, OwnTripsDiffer
<1>3. ASSUME NEW r \in Requests, SaveTrip(r)
      PROVE  TripInv'
  BY <1>3 DEF SaveTrip, Goto, TripLabels, OwnTripsDiffer
<1>4. ASSUME NEW r \in Requests, ReplyTrip(r)
      PROVE  TripInv'
  BY <1>4 DEF ReplyTrip, Reply, OwnTripsDiffer
<1>5. CASE (Environment \/ UNCHANGED serverVars) /\ UNCHANGED tripVars
  BY <1>5 DEF Environment, Fail, Reply, Crash, Tick, Rest, serverVars,
     OwnTripsDiffer
<1> QED
  BY <1>1, <1>2, <1>3, <1>4, <1>5 DEF TripNext, TripArrival, TripHandler

\* When clients wait, a person's trips have different names, whatever fails half
\* way and is tried again, and whatever trips others create meanwhile.
THEOREM TripsOfOneDiffer ==
  ASSUME ~Overlapping
  PROVE  TripSpec => []OwnTripsDiffer
<1>1. TripServiceInit => TripInv
  BY DEF TripServiceInit, ServerInit, TripInit, TripInv, InFlight, AtRest,
     OwnTripsDiffer
<1>2. TripInv /\ [TripNext]_<<serverVars, tripVars>> => TripInv'
  BY TripStepInv
<1>3. TripInv => OwnTripsDiffer
  BY DEF TripInv
<1> QED BY <1>1, <1>2, <1>3, PTL DEF TripSpec
=============================================================================
