SPECIFICATION FairSpec
CONSTANTS
  a = a
  b = b
  d = d
  r = r
  Root = r
  Directory = {d, r}
  ScanOrder <- MCOrder
  Requests <- MCRequests
  MaxCluster = 9
  Cells = 4
  NoFreeCluster = NoFreeCluster
  BatchClusters = 2
  BatchObjects = 2
  LayoutClusters = 3
INVARIANTS TypeOK NoCrossLink EntriesFollow Packed OnlyTailMoves MovedWhole LimitsKept MapAccounts Idempotent NoLateRefusal
PROPERTIES Ends
