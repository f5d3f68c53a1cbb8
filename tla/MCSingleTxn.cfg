SPECIFICATION FairSpec
CONSTANTS
  r = r
  f = f
  g = g
  h = h
  s1 = s1
  s2 = s2
  LastCluster = 7
  Cluster <- MCCluster
  Logical = {r, f, g, h}
  FileHead = {f, h}
  Slot = {s1, s2}
  Copy = {k1, k2}
  Active = k1
  Boot = {b1}
  FixedRoot = FixedRoot
  Zero = 0
  EOC = EOC
  NextL <- MCNext
  Sub <- MCSub
  RootL = r
  NoJournal = NoJournal
  MaxTxn = 2
  MaxDie = 2
  MaxLoss = 2
  MixFaults = FALSE
INVARIANTS TypeOK AtRestIntact NeverUnreadable
PROPERTIES Relocates JournalCleared
CHECK_DEADLOCK FALSE
