SPECIFICATION Spec
CONSTANTS
  Thread = {p, r, s}
  Irq = irq
  Msg = {x, y}
  NoMsg = nomsg
  Size = 2
  PAGE_SIZE = 4096
  BITS_PER_BYTE = 8
  MAPWORD = 8
  MEMR_SIZE = 40
  METALEN = 4096
  FREELIST_SIZE = 5
  Ranges <- SmallRanges
  Requests = {1, 2, 3}
  Data = {0, 1}
  size = 4
  IdxMod = 12
  Producer = {p1}
  Consumer = {c1}
  Value = {a, b}
  MaxBurst = 2
VIEW Live
SYMMETRY Symmetries
INVARIANTS
  MboxInv
  BuddyInv
PROPERTIES
  FifoMailbox
  PagesNotShared
  FifoRing
