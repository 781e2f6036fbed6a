SPECIFICATION FairCameraSpec
CONSTANTS
  e1 = e1
  e2 = e2
  closet = closet
  door = door
  None = None
  Events = {e1, e2}
  Cameras = {closet}
  CameraOf <- AllInCloset
  Spurious = {}
  OnTheDot = {}
  Kinds = {"clip"}
  Unmade <- NoClip
  MinVisit = 2
  Overlap = 2
  MediaDelay = 0
  Attempts = 1
  PerPoll = 1
  Retention = 1
  AdminCalls = {"keep", "enable"}
  Minded = {e1}
  MaxTime = 3
  MaxFaults = 1
INVARIANTS KeptRecordingsStay 
PROPERTIES VisitsEnd
