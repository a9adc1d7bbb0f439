\* Two handlers and two passwords; the third wrong password locks, the second wrong code is the last.
SPECIFICATION Spec
CONSTANTS
  Requests = {r1, r2}
  Passwords = {p1, p2}
  MaxFailed = 3
  MaxAttempts = 2
  MaxIssued = 3
SYMMETRY Symmetry
INVARIANTS LockedAtLimit OneValidPerHandler
PROPERTY PasswordReplaced
