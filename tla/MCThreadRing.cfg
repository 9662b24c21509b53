SPECIFICATION Spec
CONSTANTS
  Capacity = 8
  HdrSize = 2
  PayloadSizes <- MCPayloadSizes
  MaxPayload = 4
  MaxEvents = 6
INVARIANTS TypeOK StreamParses RecheckSucceeds NeverPartial
PROPERTIES UnreadUntouched RingIsQueue EventuallyDelivered ReserveSucceeds
CHECK_DEADLOCK FALSE
