SPECIFICATION DevicesSpec
CONSTANTS
  Parts = {"serial", "serial_output", "bsd_serial", "nonblocking_io", "system_log"}
  PortTask = {t1, t2}
  Writers = {t2}
  SERIAL_BUFSZ = 3
  IXOFF_STOP = 2
  IXOFF_START = 1
  LAST = 6
  LINE = 2
  FileTask = {n1, n2, n3}
  File = {f1, f2}
  CHK_SELF = TRUE
  READY = 2
  Caller = {c1, c2}
  MESSAGES = 4
  MBF_LOG = 2
VIEW View
SYMMETRY Symmetry
INVARIANTS
  CharactersInOrder
  PortGoesOn
  CallsGetResults
  LogComplete
CHECK_DEADLOCK FALSE
