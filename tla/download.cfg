SPECIFICATION FairSpec
CONSTANTS
  NChunks = 2
  MaxClicks = 2
  Down = {d1}
  Worker = {w1, w2}
INVARIANTS
  TypeOK
  DoneMeansWhole
  GoneLeavesNoPartial
  NoGap
PROPERTIES
  EveryDownloadEnds
  PromiseKept
CHECK_DEADLOCK FALSE
