CONSTANTS
  file_length = 2
  MAX_PAYLOAD_SIZE = 3
  WINDOW_SIZE = 3
  MAX_TIMERS = 3
SPECIFICATION TimelySpec
PROPERTIES ReceiverEnds
CHECK_DEADLOCK FALSE
