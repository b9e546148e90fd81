SPECIFICATION Spec
CONSTANTS
  User = {own, usr}
  Owner = own
  Password = {p1, p2}
  None = None
  Caller = {c1, c2}
  IdleLife = 2
  AbsoluteLife = 3
  MaxTime = 2
  MaxSessions = 2
PROPERTIES OpenedWithTheirPassword
