\* Two verifications of one registration overlap.
SPECIFICATION AccountsSpec
CONSTANTS
  Requests = {r1, r2, r3}
  Emails = {e1}
  Codes = {c1}
  Passwords = {p1}
  Routes = {"register", "verify-otp"}
  Overlapping = TRUE
  Faults = FALSE
  MaxTime = 0
  Nil = Nil
INVARIANT OneAccountPerEmail
