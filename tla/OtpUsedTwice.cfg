\* Two verifications of one code overlap.
SPECIFICATION OtpSpec
CONSTANTS
  Requests = {r1, r2, r3}
  Emails = {e1}
  Codes = {c1}
  Routes = {"resend-otp", "verifyForgotOtp"}
  Overlapping = TRUE
  Faults = FALSE
  MaxTime = 0
  Nil = Nil
INVARIANT CodeUsedOnce
