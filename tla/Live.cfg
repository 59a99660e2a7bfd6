SPECIFICATION FairSpec
CONSTANTS
  NPROC = 2
  Creators = {main}
  NOBODY = NOBODY
  NFRAMES = 6
  NUM_GLOBAL = 1
  PAGETABSIZE = 2
  MAX_BS_ENTRIES = 2
  MAX_PAGES_PER_BS = 3
  Values = {0}
  MAXHEAP = 1
  MAXCREATE = 2
  HSizes = {1}
  Policies = {"FIFO"}
  WORD = 8
  KillRaces = FALSE
  SwitchWhileLive = FALSE
PROPERTIES FaultServed VcreateReturns
