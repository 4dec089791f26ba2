SPECIFICATION Spec
CONSTANTS
  Byte = {0, 1}
  Capacity = 2
  IdxMod = 8
  IntMod = 8
  ReadIov <- Short
  WriteIov <- Long
  NonBlocking = {FALSE, TRUE}
  MayClose = TRUE
  Drivers = {"9p", "blk"}
  MaxCloses = 2
  MayVanish = TRUE
  Caller = {c1, c2, c3}
  Req = {r1, r2}
  NumTags = 4
  None = none
  RingSize = 1
  Granter = {k1, k2}
  Reserved = 1
  Entries = 4
CHECK_DEADLOCK FALSE
INVARIANTS
  PInv
  BusInv
  P9fInv
  GntInv
PROPERTIES
  StreamOfBytes
  WaitersServed
  WaitsEnd
