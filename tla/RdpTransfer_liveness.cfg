CONSTANTS
  file_length = 5
  MAX_PAYLOAD_SIZE = 3
  WINDOW_SIZE = 3
  MAX_TIMERS = 4
SPECIFICATION FairSpec
PROPERTIES FileIsWritten
CHECK_DEADLOCK FALSE
