SPECIFICATION FairSpec
CONSTANTS
  Floor = 1
  MaxMove = 2
  MaxPasses = 3
  MaxRounds = 2
  Slack = 4
  BtrfsRounds = 3
  Volumes <- MCVolumes
INVARIANTS TypeOK  GeometryKept 
PROPERTIES Downward Ends
