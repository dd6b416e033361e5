SPECIFICATION ExchangesSpec
CONSTANTS
  t1 = t1
  t2 = t2
  t3 = t3
  Task = {t1, t2, t3}
  NoTask = NoTask
  TSK_INIT = t1
  TSK_INIT_PRI = 0
  NUM_PRI = 1
  BITMAPSZ = 1
  INT_MAX = 1
  IPM_MAX = 1
  b1 = b1
  s1 = s1
  Gcb = {b1, s1, p1}
  TaTpri = {}
  Mbf = {b1}
  send_queue <- MCsend_queue
  HEADERSZ = 2
  BufSizes = {0, 10}
  MsgSizes = {1, 4, 8}
  MaxSizes = {4, 10}
  BUFSZ = 12
  MAXMSZ = 5
  Sender = {x1, x2}
  Mpl = {p1}
  PoolSizes = {1, 5, 6, 16}
  BlockSizes = {1, 2, 3, 5}
VIEW View
SYMMETRY TaskSymmetry
INVARIANTS
  NobodyWaitsInVain
  BlocksSound
PROPERTIES
  ServedInTurn
  RingServesFifo
