SPECIFICATION LiveSpec
CONSTANTS
  Parts = {"serial", "nonblocking_io", "system_log"}
  PortTask = {t1}
  Writers = {}
  SERIAL_BUFSZ = 2
  IXOFF_STOP = 2
  IXOFF_START = 1
  LAST = 2
  LINE = 2
  FileTask = {n1, n2, n3}
  File = {f1}
  CHK_SELF = TRUE
  READY = 2
  Caller = {c1, c2}
  MESSAGES = 3
  MBF_LOG = 1
PROPERTIES
  PortServed
  CallbackCalled
  PutOutInTheEnd
CHECK_DEADLOCK FALSE
