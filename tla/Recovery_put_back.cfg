SPECIFICATION RecoverySpec
CONSTANTS
  r1 = r1
  r2 = r2
  r3 = r3
  None = None
  Requests = {r1, r2}
  Calls = {"create", "backup", "restore"}
  MaxTag = 2
  MaxLog = 3
  MaxKept = 2
SYMMETRY Symmetric
PROPERTY PutBackIsFree
