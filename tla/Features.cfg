SPECIFICATION Spec
CONSTANTS
  e1 = e1
  t1 = t1
  None = None
  Sentinel = Sentinel
  Entries = {e1}
  EntryDigests = {g1, g2}
  Texts = {t1}
  Terms = {k1}
  Features = {f1, f2}
  Procs = {p1, p2}
  MaxVersion = 2
  MaxLedger = 2
  MaxStarts = 5
  Batches <- MCBatches
INVARIANTS
  StampedWasReviewed
  OneAtATime
PROPERTIES
  ReceiptsHold
CHECK_DEADLOCK FALSE
SYMMETRY Symmetry
