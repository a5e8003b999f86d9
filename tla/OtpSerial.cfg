\* Clients that wait for each reply before their next request about an
\* address, over the whole life of a code.
SPECIFICATION OtpSpec
CONSTANTS
  Requests = {r1, r2, r3}
  Emails = {e1}
  Codes = {c1, c2}
  Routes = {"resend-otp", "verifyForgotOtp"}
  Overlapping = FALSE
  Faults = TRUE
  MaxTime = 3
  Nil = Nil
INVARIANTS
  OneCodePerEmail
  CodeUsedOnce
PROPERTIES
  LiveCodeAccepted
  ImplementsOneTimeCode
  EveryRequestAnswered
