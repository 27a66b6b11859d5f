SPECIFICATION FairSpec
CONSTANTS
  j1 = j1 j2 = j2 t1 = t1
  Jobs = {j1}
  Terms = {}
  NoId = NoId
  SendCap = 2
  ExecCap = 1
  MaxGen = 1
  Events = {"beat"}
PROPERTY FullQueueDrains
CHECK_DEADLOCK FALSE
