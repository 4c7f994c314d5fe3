SPECIFICATION Spec
CONSTANTS
  r1 = r1
  r2 = r2
  t1 = t1
  t2 = t2
  Names = {"a", "u"}
  Branches = {"b1", "b2"}
  Passwords = {"p"}
  MaxRows = 3
  Terminals = {t1, t2}
  AdminName = "a"
  SeedFile <- MCSeedFile
  Requests = {r1, r2}
  Kinds <- MCKinds
  Forms <- MCForms
  Scopes = {"ALL"}
  MaxToken = 2
  TTL = 0
  MaxTime = 2
INVARIANTS TypeOK UniqueUsernames EndedIsShut ShownAsHeld
PROPERTIES KeepsAccounts AdminsFromAdmins
CHECK_DEADLOCK FALSE
SYMMETRY TerminalSymmetry
