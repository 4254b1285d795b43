SPECIFICATION Spec
CONSTANTS
  Uplinks = {u1}
  Downlinks = {d1}
  Consumers = {k1, k2}
  Names <- MCNames
  Lines <- MCLines
  Messages <- MCMessages
  BufferSize = 8
  Stubs = {5, 6}
  MaxSends = 2
INVARIANTS StreamTypeOK NobodyWaitsOnAPacket NoLostWakeUp
PROPERTY IsAChannel
CHECK_DEADLOCK FALSE
