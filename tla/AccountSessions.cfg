\* One address registered twice, two logins, three calls.
SPECIFICATION Spec
CONSTANTS
  Emails = {x}
  Registrations = {a1, a2}
  Logins = {l1, l2}
  Calls = {c1, c2, c3}
  Nothing = Nothing
SYMMETRY Alike
CHECK_DEADLOCK FALSE
INVARIANTS
  AccountsInv
  OneAccountPerEmail
  LoggedOutStaysOut
  OnlyOwnersDelete
