SPECIFICATION Spec
CONSTANTS
  None = None
  mp4 = mp4
  webp = webp
  other = other
  out = out
  otherOut = otherOut
  v1 = v1
  v2 = v2
  Name = {mp4, webp}
  Out = {out}
  OutOf <- SharedStem
  Video = {v1, v2}
  Codec <- AllGood
  Job = {1, 2}
  Attempt = {a1, a2, a3}
  Faults = {"encoder", "interrupt", "kill", "replay", "watcher", "writer"}
  MaxFaults = 2
SYMMETRY Symmetry
INVARIANTS NoVideoLost NoOutputLost IInv OutputsAreWhole
PROPERTIES ArchiveIsKept
CHECK_DEADLOCK FALSE
