SPECIFICATION FairSpec
CONSTANTS
  Conns = {c1}
  EFFECTIVE_SIZE = 3
  MAX_PAYLOAD_SIZE = 6
  ms_maxSize = 7
  Strategy = "InPlace"
  PacketSize = 1
  Lengths = {3, 4, 7, 8}
  MaxBytes = 13
INVARIANTS TypeOK BufferBound InPlaceAsserts InOrderDelivery CloseReason IInv
PROPERTIES StreamSpec Delivery
CHECK_DEADLOCK FALSE
