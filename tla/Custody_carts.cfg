SPECIFICATION CartsSpec
CONSTANTS
  adm = adm
  stu = stu
  oth = oth
  r1 = r1
  r2 = r2
  r3 = r3
  e1 = e1
  e2 = e2
  e3 = e3
  e4 = e4
  k1 = k1
  None = None
  Assets <- TwoUnits
  People = {adm}
  Admins = {adm}
  Events = {e1, e2, e3, e4}
  Kits = {}
  Requests = {r1, r2}
  OverdueBlocks = FALSE
  Calls = {"checkout", "checkin"}
  Ways = {"scan"}
  Notes = {FALSE}
INVARIANT OneOpenLoan
PROPERTIES EveryRequestEnds
