SPECIFICATION FairSpec
CONSTANTS
  Acquisition = 2
  Profile = 4
  Offer = 3
  Grace = 2
  Off = Off
INVARIANTS TerminalHasCause ReleasedByName
PROPERTIES WithinBudget Concludes
CHECK_DEADLOCK FALSE
