CONSTANTS
  whole = whole
  index = index
  None = None
  Fact = {"f"}
  Version = {1, 2}
  Consumer = {"c"}
  FirstTree <- MCFirstTree
  MaxCommits = 5
  Order <- MCOrder
  WholeFile = {whole}
  Text = {1, 2}
  MaxBase = 3
  MaxEdits = 2
  MaxFaults = 2
SPECIFICATION PrepareSpec
INVARIANTS GenesisIsFresh GenesisIsForever PublishedOrRestored
CHECK_DEADLOCK FALSE
