SPECIFICATION FairSpec
CONSTANTS
  Workers = {w1}
  Loops = {l1, l2, l3, l4}
  NoLoop = NoLoop
PROPERTIES StopEndsARunningWorker
