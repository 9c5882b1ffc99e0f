SPECIFICATION Spec
CONSTANTS
  Conns = {c1, c2}
  EFFECTIVE_SIZE = 2
  MAX_PAYLOAD_SIZE = 3
  ms_maxSize = 4
  Strategy = "Buffer"
  PacketSize = 5
  Lengths = {3, 5}
  MaxBytes = 8
PROPERTIES StreamSpec
CHECK_DEADLOCK FALSE
