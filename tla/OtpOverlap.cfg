\* Three requests, in any order and overlapping, for two addresses; calls fail and the process
\* crashes at any point.
SPECIFICATION OtpSpec
CONSTANTS
  Requests = {r1, r2, r3}
  Emails = {e1, e2}
  Codes = {c1, c2}
  Routes = {"resend-otp", "verifyForgotOtp"}
  Overlapping = TRUE
  Faults = TRUE
  MaxTime = 3
  Nil = Nil
INVARIANTS
  OtpTypeOK
  SpentCodeIsGone
  OlderCodesRevoked
  AcceptedCodeWasIssued
  CodeKeptForItsAddress
SYMMETRY Symmetry
