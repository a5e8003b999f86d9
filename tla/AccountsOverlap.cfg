\* Three requests of every endpoint, overlapping, for two addresses; calls
\* fail and the process crashes at any point.
SPECIFICATION AccountsSpec
CONSTANTS
  Requests = {r1, r2, r3}
  Emails = {e1, e2}
  Codes = {c1}
  Passwords = {p1, p2}
  Routes = {"register", "verify-otp", "changePassword", "forgotOtp", "resend-otp", "verifyForgotOtp"}
  Overlapping = TRUE
  Faults = TRUE
  MaxTime = 0
  Nil = Nil
INVARIANTS
  AccountsTypeOK
  AccountFromCode
  RegistrationKept
  PasswordWasSubmitted
SYMMETRY Symmetry
