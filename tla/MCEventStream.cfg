SPECIFICATION FairSpec
CONSTANTS
  None = None
  a = a
  b = b
  timed_out = timed_out
  completed = completed
  Fact = {a, b}
  Last = {completed, timed_out}
  MaxGeneration = 2
  MaxEmissions = 2
INVARIANT NumbersAreUnique
PROPERTIES StreamSpec EmissionEnds
CHECK_DEADLOCK FALSE
