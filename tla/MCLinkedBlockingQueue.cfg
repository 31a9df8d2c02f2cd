SPECIFICATION FairSpec
CONSTANTS
  Callers = {a, b}
  Consumer = c
  Entries = {e1, e2, e3}
  SizeBound = 2
  NULL = NULL
INVARIANTS TypeOK EntriesAccounted NoLostWakeup
PROPERTIES ImplementsFifo ReaderServed
