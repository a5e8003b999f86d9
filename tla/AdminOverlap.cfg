\* Two requests of two people, who are admins or not, at the same time, with
\* calls that fail, crashes, updates that outlive them, and tokens that expire.
SPECIFICATION AdminSpec
CONSTANTS
  e1 = e1
  e2 = e2
  b1 = b1
  b2 = b2
  Requests = {r1, r2}
  Emails = {e1, e2}
  UserIds = {u1, u2}
  Browsers = {b1, b2}
  Owner <- TwoOwners
  Routes = {"adminLogin", "refresh", "logout", "users", "updateStatus"}
  Overlapping = TRUE
  Faults = TRUE
  MaxTime = 1
  AccessLifetime = 0
  RefreshLifetime = 0
  Nil = Nil
INVARIANTS
  AdminTypeOK
  OnlyAdminsHoldSessions
  BlockedOnRequest
  ReportedStatusHolds
SYMMETRY Symmetry
