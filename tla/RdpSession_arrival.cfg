CONSTANTS
  file_length = 8
  MAX_PAYLOAD_SIZE = 3
  WINDOW_SIZE = 3
  MAX_TIMERS = 5
  MAX_PACKETS = 4
  ChannelBound = 2
SPECIFICATION Spec
CONSTRAINT ShortChannels
ACTION_CONSTRAINT PollsBeforeResend
INVARIANTS TypeOK FileHasEveryPayload OvertakesWithinWindow
PROPERTIES ImplementsTransfer
CHECK_DEADLOCK FALSE
