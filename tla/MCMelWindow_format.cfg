SPECIFICATION FairSpec
CONSTANTS
  Rates = {3, 5}
  Channels = {1, 2}
  Calls = {1, 2}
  SizeMod = 256
  MaxUpdates = 1
PROPERTIES
  LevelsKeepComing
