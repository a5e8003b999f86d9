\* Four requests of clients that wait for each reply before their next request
\* about an address; calls fail and the process crashes at any point.
SPECIFICATION AccountsSpec
CONSTANTS
  Requests = {r1, r2, r3, r4}
  Emails = {e1}
  Codes = {c1}
  Passwords = {p1, p2}
  Routes = {"register", "verify-otp", "changePassword", "forgotOtp", "resend-otp", "verifyForgotOtp"}
  Overlapping = FALSE
  Faults = TRUE
  MaxTime = 0
  Nil = Nil
INVARIANTS
  OneAccountPerEmail
  OneRegistrationPerEmail
  VerifiedLeavesNoRegistration
PROPERTIES
  ChangeReallyChanges
  ImplementsMembership
SYMMETRY Symmetry
