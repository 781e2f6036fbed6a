SPECIFICATION Spec
CONSTANTS
  adm = adm
  stu = stu
  oth = oth
  r1 = r1
  r2 = r2
  r3 = r3
  e1 = e1
  e2 = e2
  e3 = e3
  e4 = e4
  k1 = k1
  None = None
  Assets <- OneUnit
  People = {adm}
  Admins = {adm}
  Events = {e1}
  Kits = {k1}
  Requests = {r1, r2}
  OverdueBlocks = FALSE
  Calls = {"add_to_kit", "retire", "unretire"}
  Ways = {"scan"}
  Notes = {FALSE}
SYMMETRY Interchangeable
INVARIANTS RetiredIsInNoKit
