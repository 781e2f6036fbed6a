SPECIFICATION BackupsSpec
CONSTANTS
  None = None
  HoursPerDay = 2
  ScheduleHour = 0
  StaleHours = 3
  KeepDays = 1
  Enabled = {"drive", "github"}
  PerPage = 3
  RunHours = 2
  LastHour = 4
  MaxManual = 1
  MaxFaults = 2
  Pictured = {camera}
  camera = camera
  Extensions = {"jpg", "png"}
  Uploaders = {u1, u2}
  u1 = u1
  u2 = u2
  GenerationDays = 1
  RacingDeletes = FALSE
  MaxPicture = 2
  LastNight = 2
  MaxChores = 2
  MaxMishaps = 1
  r1 = r1
  r2 = r2
  Requests = {r1, r2}
  Calls = {"create", "backup", "restore"}
  MaxTag = 2
  MaxLog = 3
  MaxKept = 2
SYMMETRY Symmetric
INVARIANTS SuccessMeansHeld DriveCatchesUp SilenceMeansBackups RowsKeepTheirPhotos  BackupsAreWhole RestoredTagsAreFree
PROPERTIES LogNeverShrinks
CHECK_DEADLOCK FALSE
