\* Three requests of two people at the same time, with calls that fail,
\* crashes, and an admin who blocks and unblocks.  No token expires.
SPECIFICATION SessionsSpec
CONSTANTS
  e1 = e1
  e2 = e2
  b1 = b1
  b2 = b2
  Requests = {r1, r2, r3}
  Emails = {e1, e2}
  Browsers = {b1, b2}
  Owner <- TwoOwners
  Routes = {"login", "google-login", "refresh", "logout", "getUserDetails"}
  Overlapping = TRUE
  Faults = TRUE
  MaxTime = 0
  AccessLifetime = 0
  RefreshLifetime = 0
  Nil = Nil
INVARIANTS
  SessionsTypeOK
  SessionsStayApart
  BlockedIsRefused
  LoggedOutTokenIsDead
SYMMETRY Symmetry
