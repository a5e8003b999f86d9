\* The mail promises two minutes, saveOtp gives one.
SPECIFICATION OtpSpec
CONSTANTS
  Requests = {r1, r2}
  Emails = {e1}
  Codes = {c1}
  Routes = {"resend-otp", "verifyForgotOtp"}
  Overlapping = FALSE
  Faults = FALSE
  MaxTime = 4
  Nil = Nil
PROPERTY ExpiresAsMailed
