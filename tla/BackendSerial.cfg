\* Three requests of one person to any endpoint, one after another, while calls
\* fail, the process crashes and an admin blocks and unblocks.
SPECIFICATION BackendSafety
CONSTANTS
  e1 = e1
  b1 = b1
  Requests = {r1, r2, r3}
  Emails = {e1}
  Codes = {c1}
  Passwords = {p1, p2}
  Browsers = {b1}
  Owner <- OneOwner
  TripNames = {t1}
  Routes = {"register", "verify-otp", "resend-otp", "forgotOtp", "verifyForgotOtp", "changePassword", "login", "google-login", "refresh", "logout", "getUserDetails", "create"}
  Overlapping = FALSE
  Faults = TRUE
  MaxTime = 0
  AccessLifetime = 0
  RefreshLifetime = 0
  Nil = Nil
INVARIANTS
  BackendTypeOK
  OneAccountPerEmail
  GoogleHasNoPassword
  OwnTripsDiffer
PROPERTIES
  
  ImplementsMembership
SYMMETRY Symmetry
