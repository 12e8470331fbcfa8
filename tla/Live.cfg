SPECIFICATION LiveSpec
CONSTANTS
  None = None  mp4 = mp4  other = other  out = out  otherOut = otherOut  v1 = v1  v2 = v2
  Name = {mp4, other}  Out = {out, otherOut}  OutOf <- OwnStems  Video = {v1, v2}  Codec <- OneAv1
  Job = {1, 2, 3, 4}  Attempt = {a1, a2, a3, a4}  Faults = {"watcher"}  MaxFaults = 1
  Symlink = {l1}  TaskView = FALSE  MaxBreaks = 2  MaxTasks = 2  MaxVisits = 2
  pics = pics  more = more  img1 = img1  img2 = img2  img3 = img3
  Folder = {pics, more}  FilesOf <- MCFilesOf  Image = {img1, img2, img3}
  MaxKeys = 3  MaxViews = 1  MaxViewers = 2  MaxLost = 0
PROPERTIES ArrivalsAreArchived DanglingIsTold ViewerAgrees
CHECK_DEADLOCK FALSE
