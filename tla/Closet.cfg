SPECIFICATION ClosetSpec
CONSTANTS
  adm = adm
  stu = stu
  oth = oth
  r1 = r1
  r2 = r2
  r3 = r3
  e1 = e1
  e2 = e2
  e3 = e3
  e4 = e4
  k1 = k1
  None = None
  Assets <- OneUnit
  People = {adm, stu}
  Admins = {adm}
  Events = {e1, e2}
  Kits = {k1}
  Requests = {r1, r2}
  OverdueBlocks = TRUE
  Calls <- AllCalls
  Ways = {"button", "kit", "scan", "typed"}
  Notes = {FALSE}
  DayHours = 3
  Calendars = {{}, {3, 4, 7}, {4, 7, 8, 9}}
  Closings = {1, 2}
  Caps = {1, 3}
  DefaultClosing = 2
  DefaultCap = 3
  MaxClosedRun = 4
  OtherTimes = {5, 14, 16, 20}
  MaxHour = 15
  MaxRuleSaves = 1
  w1 = w1
  w2 = w2
  Servers = {w1, w2}
  Binaries <- MCBinaries
  FirstSchemas <- MCFirstSchemas
  DumpModes = {"required"}
  DumpKeep = 3
  MaxUpgrades = 4
  MaxEntries = 1
SYMMETRY Alike
CHECK_DEADLOCK FALSE
INVARIANTS StatusTellsCustody RetiredIsPutAway ClosedAccountsHoldNothing UnscannedReturnsAreMarked DueAtClosing UpgradeCanBeUndone
PROPERTIES LendsLikeACloset
