SPECIFICATION Spec
CONSTANTS
  base = base
  derived = derived
  baseFile = baseFile
  Root = Root
  Image = {base, derived}
  File = {baseFile}
  Parent <- MCParent
  Consumers <- MCConsumers
  Content = {0, 1}
  Relocks <- MCRelocks
  MaxCommits = 5
  MaxBuilds = 2
INVARIANTS ProofsAreSound
CHECK_DEADLOCK FALSE
