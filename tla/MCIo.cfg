SPECIFICATION Spec
CONSTANTS
  Thread = {t1, t2, t3}
  NoThread = NoThread
  Pool = 2
  Ring = 2
  IdxMod = 6
  Header = 1
  ReqLen = {1}
  RepLen = {1}
  MaxEvents = 1
  Task = {k1, k2}
  File = {f1, f2}
  NoFile = null
  MaxFiles = 3
  MaxCount = 4
  Calls = {"dup3", "reserve"}
  Caller = {t1, t2, t3}
  Req = {r1, r2, r3}
  NumTags = 4
  None = none
  Slots = 2
SYMMETRY Symmetries
CHECK_DEADLOCK FALSE
INVARIANTS
  XsInv
  OwnReply
  XsRing
  BitmapInv
  V9pInv
