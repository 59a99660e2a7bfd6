SPECIFICATION Spec
CONSTANTS
  NPROC = 1
  Creators = {main}
  NOBODY = NOBODY
  NFRAMES = 6
  NUM_GLOBAL = 1
  PAGETABSIZE = 3
  MAX_BS_ENTRIES = 2
  MAX_PAGES_PER_BS = 2
  Values = {0, 1}
  MAXHEAP = 3
  MAXCREATE = 1
  HSizes = {3}
  Policies = {"FIFO", "GCA"}
  WORD = 8
  KillRaces = FALSE
  SwitchWhileLive = FALSE
INVARIANTS TypeOK NoLostWrite InvertedTable NoFatal

