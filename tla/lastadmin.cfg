SPECIFICATION Spec
CONSTANTS
  Requests = {r1, r2}
  UserIds = {u1, u2, u3}
  ServerIds = {s1}
  Names = {n1, n2, n3}
  AllowRegistration = TRUE
  SeedNames = {n1, n2, n3}
  None = None
SYMMETRY Symmetry
CHECK_DEADLOCK FALSE
PROPERTIES AlwaysAnAdmin
