\* Three commands, so that a late character of the first can meet the third.
\* Serial packets of one character, as the endpoint is set up for half of the
\* packet size, and buffers that hold a few of them.
CONSTANTS
  MaxCommands = 3
  MaxCorrupt = 2
  MaxTimeouts = 3
  MaxInterrupts = 2
  RTT_DOWN_BUF_SIZE = 6
  CDCACM_PACKET_SIZE = 2
  AUX_UART_BUFFER_SIZE = 4
  Modes = {"skip", "trim", "block"}
  MaxBytes = 6
  MaxToggles = 2
  RxSize = 4
  RxPacket = 2
  MaxLine = 5
  MaxDebug = 1
  MaxOther = 1
  MaxResets = 1
  NUM_TRACE_PACKETS = 3
  MaxTrace = 6
SPECIFICATION HostSpec
INVARIANTS ExecutedOnce SharedNoLoss InOrder
PROPERTIES ReplyMatches Answered AuxDelivered AuxReceived TraceSent
CHECK_DEADLOCK FALSE
