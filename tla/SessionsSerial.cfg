\* Three requests of one person with two browsers, one after another, while
\* access and refresh tokens expire, calls fail and the process crashes.
SPECIFICATION SessionsSpec
CONSTANTS
  e1 = e1
  e2 = e2
  b1 = b1
  b2 = b2
  Requests = {r1, r2, r3}
  Emails = {e1}
  Browsers = {b1, b2}
  Owner <- OneOwner
  Routes = {"login", "google-login", "refresh", "logout", "getUserDetails"}
  Overlapping = FALSE
  Faults = TRUE
  MaxTime = 2
  AccessLifetime = 0
  RefreshLifetime = 1
  Nil = Nil
INVARIANTS
  OneAccountPerUser
  OneTokenPerUser
  RotatedTokenIsDead
  SessionSurvives
  LogoutEndsSession
SYMMETRY Symmetry
