SPECIFICATION Spec
CONSTANTS
  None = None
  mp4 = mp4
  webp = webp
  other = other
  out = out
  otherOut = otherOut
  v1 = v1
  v2 = v2
  Name = {mp4}
  Out = {out}
  OutOf <- SharedStem
  Video = {v1, v2}
  Codec <- AllGood
  Job = {1, 2}
  Attempt = {a1, a2}
  Faults = {}
  MaxFaults = 0
PROPERTIES ArrivalsEnqueue
CHECK_DEADLOCK FALSE
