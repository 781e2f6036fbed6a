SPECIFICATION SignInSpec
CONSTANTS
  adm = adm
  oth = oth
  stu = stu
  t1 = t1
  t2 = t2
  r1 = r1
  r2 = r2
  None = None
  People = {adm, stu}
  Admins = {adm}
  Unset = {stu}
  Failsafe = adm
  Tokens = {t1, t2}
  Requests = {r1, r2}
  Calls = {"scan", "typed", "first", "logout", "promote", "demote", "reset", "archive", "unarchive", "delete"}
SYMMETRY Symmetric
INVARIANTS SessionsThereAreDropped SignInsAreLogged FirstPasswordIsSetOnce FullMeansPassword
PROPERTY LastAdminFallsToAStaleOne
