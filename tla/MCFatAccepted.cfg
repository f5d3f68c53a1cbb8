SPECIFICATION Spec
CONSTANTS
  a = a
  b = b
  d = d
  r = r
  Root = r
  Directory = {d, r}
  ScanOrder <- MCOrder
  Requests <- MCRequests
  MaxCluster = 9
  Cells = 4
  NoFreeCluster = NoFreeCluster
  BatchClusters = 2
  BatchObjects = 2
  LayoutClusters = 3
INVARIANT AcceptedAsPlanned
