\* Two tasks and the two interrupts of the sources, the timer and the input
\* from files.  The mask that handlers pass to chg_ims is SIGMASK_LOC: a handler
\* that unmasks its own signal may lie on top of itself any number of times.
SPECIFICATION FairSpec
CONSTANTS
  SIGUSR2 = SIGUSR2
  NULL = NULL
  Task = {t1, t2}
  Irq = {SIGALRM, SIGIO}
  HANDLER_MASKS = {{SIGALRM, SIGIO, SIGUSR2}}
INVARIANTS
  NeededDispatchPending
  RunsAsItself
PROPERTIES
  GoesOnUnmasked
  ChosenTaskRuns
