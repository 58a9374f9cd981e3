SPECIFICATION Spec
CONSTANTS
  None = None
  File = {a}
  MaxEpoch = 2
  MaxCommits = 4
INVARIANTS RoundsWereReviews RoundsAreKept EstablishedTogether EpochsWereReviewed
CHECK_DEADLOCK FALSE
