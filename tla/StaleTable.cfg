SPECIFICATION Spec
CONSTANTS
  NPROC = 1
  Creators = {main}
  NOBODY = NOBODY
  NFRAMES = 6
  NUM_GLOBAL = 0
  PAGETABSIZE = 2
  MAX_BS_ENTRIES = 2
  MAX_PAGES_PER_BS = 2
  Values = {0, 1}
  MAXHEAP = 3
  MAXCREATE = 2
  HSizes = {3}
  Policies = {"FIFO"}
  WORD = 8
  KillRaces = FALSE
  SwitchWhileLive = FALSE
INVARIANT NoLostWrite
CHECK_DEADLOCK FALSE
