-------------------------------- MODULE Trip --------------------------------
(***************************************************************************)
(* Trips: TripService.create and the trips collection, which has no unique *)
(* index on tripName.                                                      *)
(*                                                                         *)
(*   POST trip/create   trips, then trips                                  *)
(*                                                                         *)
(* A trip does not say whose it is, and anybody may create one: email[r]   *)
(* names the person whose client sends r, who waits for the answer before  *)
(* the next request when requests do not overlap; others do not wait.      *)
(***************************************************************************)
EXTENDS Server

CONSTANT TripNames

VARIABLES
  trips,    \* the trips collection
  tripName  \* body.tripName

tripVars == <<trips, tripName>>

TripDoc == [id : Requests, tripName : TripNames]

TripInit ==
  /\ trips = {}
  /\ tripName = [r \in Requests |-> Nil]

CreateTrip(r, e, n) ==
  /\ Arrive(r, "create", e, "findTrip")
  /\ tripName' = [tripName EXCEPT ![r] = n]
  /\ UNCHANGED trips

\* A bug: the name is not looked up.
TrustsTripName(r) ==
  /\ pc[r] = "findTrip"
  /\ Goto(r, "saveTrip")
  /\ UNCHANGED tripVars

FindTrip(r) ==
  LET taken == \E d \in trips : d.tripName = tripName[r]
  IN /\ pc[r] = "findTrip"
     /\ \/ taken /\ Reply(r, "conflict")
        \/ ~taken /\ Goto(r, "saveTrip")
     /\ UNCHANGED tripVars

\* The trip is stored before the client is told: an error or a crash after
\* this step leaves a trip that its client knows nothing of.
SaveTrip(r) ==
  /\ pc[r] = "saveTrip"
  /\ trips' = trips \union {[id |-> r, tripName |-> tripName[r]]}
  /\ Goto(r, "tripSaved")
  /\ UNCHANGED tripName

ReplyTrip(r) ==
  /\ pc[r] = "tripSaved"
  /\ Reply(r, "ok")
  /\ UNCHANGED tripVars

TripArrival(r) == \E e \in Emails, n \in TripNames : CreateTrip(r, e, n)

TripHandler(r) == FindTrip(r) \/ SaveTrip(r) \/ ReplyTrip(r)

Environment == (\E r \in Requests : Fail(r)) \/ Crash \/ Tick \/ Rest

TripNext ==
  \/ \E r \in Requests : TripArrival(r) \/ TripHandler(r)
  \/ Environment /\ UNCHANGED tripVars

TripServiceInit == ServerInit /\ TripInit

TripSpec ==
  /\ TripServiceInit /\ [][TripNext]_<<serverVars, tripVars>>
  /\ \A r \in Requests : WF_<<serverVars, tripVars>>(TripHandler(r))

-----------------------------------------------------------------------------
(* Properties                                                              *)

TripLabels == {"findTrip", "saveTrip", "tripSaved"}

\* A person who waits never has two trips of one name, also when a creation that
\* was cut off after its insert is tried again and when others create trips.
OwnTripsDiffer ==
  \A d, t \in trips :
    d.tripName = t.tripName /\ email[d.id] = email[t.id] => d = t

\* "Trip name already exist": a name is used once, whoever creates the trip.
\* (Not so: the creations of two people both find the name free.)
OneTripPerName ==
  \A d, t \in trips : d.tripName = t.tripName => d = t
=============================================================================
