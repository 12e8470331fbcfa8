SPECIFICATION Spec
CONSTANTS
  home = home  work = work
  Places = {home, work}  FirstPlace = home  MaxHistory = 3  MaxEnters = 5
  p1 = p1  p2 = p2  i1 = i1  i2 = i2  t1 = t1  t2 = t2  t3 = t3  ranger = ranger  worker = worker
  Inode = {i1, i2}  MediaPath = {p1, p2}  Thread = {t1, t2, t3}  Process = {ranger, worker}
  ProcessOf <- MCProcessOf  Keeper <- MCKeeper  Deferring = {worker}  Odd = {i2}
  FlushEvery = 2  MaxStamp = 1  MaxLookups = 2  MaxErrors = 1  Renames = "quiet"
  root = root  sub = sub
  Dir = {root, sub}  Root = root  Above <- MCAbove  Link = {l1}
  MaxClock = 1  MaxChanges = 2  MaxWalks = 2  MaxUnlisted = 1
  Shelf = {d1}  Codec = {av1, hevc}  DefaultCodec = av1  Anytime = FALSE
  MaxCommands = 2  MaxEdits = 1  MaxFails = 1
  DcFolder = {"top", "sub"}  DcTop = "top"  DcItem = {"sub", "h", "t", "l", "b"}
  Holder <- MCHolder  Nature <- MCNature  CodecOf <- MCCodecOf  DcCommands <- MCDcCommands
  MaxDcs = 2  MaxHands = 2
  top = top  dir = dir  deep = deep  leaf = leaf  note = note
  Top = top  Entry = {dir, deep, leaf, note}  FolderOf <- MCFolderOf  Folders = {top, dir, deep}
  MaxSearches = 2  MaxUndos = 2
  Spot = {1, 2, 3, 4}  NameAt <- MCNameAt  TwinOf <- MCTwinOf  Flagged <- MCFlagged  Hook = {1, 2}
  Backlink <- MCBacklink  SourceFile = "source"  TargetFile = "target"  OtherFile = "other"
  MaxVdsyms = 2  MaxMoves = 1  MaxAsks = 1
  PairFile = {1, 2, 3}  OtherFiles = {7, 8}  Length = {0, 1000, 1400, 1800}  OtherMs <- MCOtherMs
  MaxRetouches = 1  MaxMarks = 2
  Node = {1, 2, 3, 4, 5, 6, 7, 8}  FolderAbove <- MCFolderAbove  TypeOf <- MCTypeOf  Dotted = {3, 5}
  Banned = {7}  MaxFlats = 3  MaxSprouts = 1
  Plugin = {"dangling", "sym", "guard", "flow"}  KindOf <- MCKindOf  MaxLoads = 4  MaxWrappers = 1
  TreeAt <- MCTreeAt  StartDir <- MCStart  Todays <- MCTodays  MaxJumps = 3
  SearchRoot = {"view", "data"}  ViewRoot = "view"  Item <- MCItem  Shot <- MCPicture
  Word = {"a", "A", "ab", "1-05"}  FoldOf <- MCFold  PartOf <- MCPartOf  Numeric <- MCNumeric
  Queries <- MCQueries  PicsZeroes = 3  MaxSearched = 2  MaxSeekChanges = 1  MaxReloads = 1
INVARIANTS PluginsTypeOK ViewsAreTrue VdsymKeepsItsWord HooksRunOnce DcViewIsTrue
PROPERTIES RowsAreTrue IndexFresh SizesAreTrue
CHECK_DEADLOCK FALSE
