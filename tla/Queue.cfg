SPECIFICATION Spec
CONSTANTS
  NPROC = 1
  Creators = {main}
  NOBODY = NOBODY
  NFRAMES = 7
  NUM_GLOBAL = 1
  PAGETABSIZE = 4
  MAX_BS_ENTRIES = 2
  MAX_PAGES_PER_BS = 3
  Values = {0}
  MAXHEAP = 4
  MAXCREATE = 2
  HSizes = {4}
  Policies = {"FIFO"}
  WORD = 8
  KillRaces = FALSE
  SwitchWhileLive = FALSE
INVARIANT QueueLinks
PROPERTY FIFOReplacement
