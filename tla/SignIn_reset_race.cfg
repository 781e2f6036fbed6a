SPECIFICATION SignInSpec
CONSTANTS
  adm = adm
  oth = oth
  stu = stu
  t1 = t1
  t2 = t2
  r1 = r1
  r2 = r2
  None = None
  People = {adm, stu}
  Admins = {adm}
  Unset = {}
  Failsafe = adm
  Tokens = {t1, t2}
  Requests = {r1, r2}
  Calls = {"typed", "reset"}
INVARIANT NoneOutlivesTheReset
