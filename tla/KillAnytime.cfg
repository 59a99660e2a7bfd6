SPECIFICATION Spec
CONSTANTS
  NPROC = 3
  Creators = {main}
  NOBODY = NOBODY
  NFRAMES = 5
  NUM_GLOBAL = 1
  PAGETABSIZE = 2
  MAX_BS_ENTRIES = 2
  MAX_PAGES_PER_BS = 2
  Values = {0}
  MAXHEAP = 1
  MAXCREATE = 3
  HSizes = {1}
  Policies = {"FIFO"}
  WORD = 8
  KillRaces = TRUE
  SwitchWhileLive = FALSE
INVARIANTS MutualExclusion SemaphoreOK
CHECK_DEADLOCK FALSE
