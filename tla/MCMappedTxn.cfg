SPECIFICATION OnePlacementSpec
CONSTANTS
  r = r
  d = d
  f = f
  g = g
  s1 = s1
  s2 = s2
  c1 = c1
  c2 = c2
  c3 = c3
  c4 = c4
  Cluster = {c1, c2, c3, c4, c5, c6}
  Logical = {r, d, f, g}
  Slot = {s1, s2}
  Copy = {k1, k2}
  Active = k1
  Boot = {b1, b2}
  FixedRoot = FixedRoot
  Zero = Zero
  EOC = EOC
  NextL <- MCNext
  Sub <- Sub32
  RootL = r
  NoJournal = NoJournal
  MaxTxn = 1
  MaxFault = 2
INVARIANTS TypeOK AtRestIntact Recoverable Progress
PROPERTIES JournalCleared
CHECK_DEADLOCK FALSE
