SPECIFICATION KernelSpec
CONSTANTS
  Parts = {"stacks", "services", "clock", "timer"}
  \* stacks and services
  SystemTask = {init}
  UserTask = {t1, t2}
  Block = {b1, b2, b3, b4}
  NULL = NULL
  WILD = WILD
  USE_MPROTECT_STACK = FALSE
  IDLE_CREATES = FALSE
  NUM_SVC = 1
  Svc = {svc1, svc2}
  no_support = no_support
  Counting = {serial_read}
  LeavesEarly = {}
  DEPTH = 2
  \* clock
  PERIOD = 6
  GET_TOLERANCE = 2
  LATENCY = 3
  NESTED = FALSE
  MAX_TICKS = 20
  \* timer
  Timed = {t1}
  Cyc = {c1, c2}
  Alm = {a1}
  TIMER_PERIOD = 1
  MAX_TIME = 2
  MAX_REL = 2
VIEW View
INVARIANTS
  MemorySound
  RightsMatchServices
  ReadsTheTime
PROPERTIES
  ServesDeadlines
CHECK_DEADLOCK FALSE
