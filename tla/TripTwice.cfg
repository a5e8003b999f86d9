\* Two people who wait for their replies create a trip each.
SPECIFICATION TripSpec
CONSTANTS
  Requests = {r1, r2}
  Emails = {e1, e2}
  TripNames = {t1}
  Routes = {"create"}
  Overlapping = FALSE
  Faults = FALSE
  MaxTime = 0
  Nil = Nil
INVARIANT OneTripPerName
