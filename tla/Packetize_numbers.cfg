CONSTANTS
  MaxLength = 10
  MaxPayload = 4
  MaxNuls = 2
  FLT_INTEGERS = 8
SPECIFICATION Spec
INVARIANTS TypeOK MakesTheNumbers RoomForNull HoldsStretchToNul HeaderSurvivesPayload PayloadArrivesToSemicolon
CHECK_DEADLOCK FALSE
