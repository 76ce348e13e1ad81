SPECIFICATION AllListSpec
CONSTANTS
  LastPage = 4
  MaxTid = 4
INVARIANT EveryThreadListed
