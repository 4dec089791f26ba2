SPECIFICATION Spec
CONSTANTS
  Buffers = {a, b, c}
  Caller1 = c1
  Caller2 = c2
VIEW Live
SYMMETRY Symmetries
CHECK_DEADLOCK FALSE
INVARIANTS
  DescPartition
  RxInv
  TxInv
  BlkInv
PROPERTY BuffersComeBack
