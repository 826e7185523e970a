CONSTANTS
  file_length = 11
  MAX_PAYLOAD_SIZE = 3
  WINDOW_SIZE = 6
  MAX_TIMERS = 6
  ChannelBound = 2
SPECIFICATION Spec
CONSTRAINT ShortChannels
ACTION_CONSTRAINT PollsBeforeResend
INVARIANTS WindowIsSlid BaseIsSent FlightFitsWindow ResendsTheExpired
PROPERTIES AcksAreFinal ResendsOnce
CHECK_DEADLOCK FALSE
