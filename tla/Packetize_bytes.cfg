CONSTANTS
  MaxLength = 5
  MaxPayload = 3
  MaxNuls = 0
  FLT_INTEGERS = 8
SPECIFICATION Spec
INVARIANTS EveryByteIsPacked
CHECK_DEADLOCK FALSE
