CONSTANTS
  NUM_TRACE_PACKETS = 3
  MaxTrace = 5
SPECIFICATION TraceSpec
PROPERTY TraceNeverLeft
CHECK_DEADLOCK FALSE
