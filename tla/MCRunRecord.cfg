\* One owner whose calls may throw, hang or answer late; or a first owner that
\* may be displaced at any point by a second while calls hang or answer late.
CONSTANTS
  Owners = 2
  Undisputed = 3
  Faulted = 4
  Budgets <- MCBudgets
SPECIFICATION RecordSpec
INVARIANTS JournalIsSound ConclusionsAreTrue
PROPERTIES Concludes LostIsSilent
CHECK_DEADLOCK FALSE
