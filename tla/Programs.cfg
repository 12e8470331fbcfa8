SPECIFICATION Spec
CONSTANTS
  Media = {f1}  FirstMedia = f1  NoMedia = NoMedia  NoSample = NoSample
  Duration = 5  Frames <- MCFrames  Keyframes = {0, 3}  Marks = {1, 3}
  SampleWindow = 1  WindowLimit = 2  BegSource = TRUE  JobIds = {1, 2, 3, 4, 5}
  MaxPresses = 2  MaxOffset = 1
  Path = {1, 2}  Text = {"long", "alike"}  Informative = {"long"}  FirstLine = "long"
  Score <- MCScore  MaxLines = 2  MaxCommits = 4  MaxMerges = 1
  MaxSize = 9
  SceneFile = {"f", "g"}  SceneFrame = {0, 10, 20, 30}  SceneDuration = 40  Window = 20
  MaxScans = 2  MaxSeeks = 1
  MaxRecords = 2  Slots = 1  MaxCoordinators = 2  MaxMeddling = 2
  PageSize = 64  Pads = {8, 21}
  ra = ra  rb = rb  Ranger = {ra, rb}  IndexPath = {1, 2}  MsOf <- MCMs  Tolerance = 1
  MaxTouches = 1  MaxMisfires = 1  MaxGlances = 1
  OtherWord = {"clip", "w", "t"}  Original <- MCOriginal  Given <- MCGiven  Options <- MCOptions  Argument <- MCArgument
  Devices = {"nvidia"}  MaxCalls = 2  MaxTampers = 1
  Listing <- MCListing  Sorted <- MCSorted  ScanRoot = "root"  AnimRoots = {"p"}  Inputs <- MCInputs
  Workers = 2  ParMin = 2  Batch = 2  MaxRewrites = 1  MaxDeaths = 1
  Pid = {1, 2}  TrackedKey = {"i"}  Binding = {"mine"}  CountsTyped = {2, 12}  Presets <- MCPresets
  MaxStarts = 2  MaxMeddles = 1  MaxHeld = 5
  Picture = {1, 2, 3, 4, 5, 6}  Natures <- MCNatures  ArgOf <- MCArgOf  MaxBytes = 11  Steps = 4
  MaxPicks = 2  MaxLooks = 1  MaxBreaks = 1
INVARIANTS ProgramsTypeOK PlayersAreLed LinesAreTrue QueueIsKept HeadersAreRead IndexIsComplete BatchesSettle
CHECK_DEADLOCK FALSE
SYMMETRY Rangers
