SPECIFICATION FairSpec
CONSTANTS
  c1 = c1
  c2 = c2
  c3 = c3
  c4 = c4
  c5 = c5
  idDone = idDone
  idStop = idStop
  idNext = idNext
  done = done
  stop = stop
  stop2 = stop2
  next = next
  None = None
  Call = {c1, c2, c3, c4, c5}
  Id = {idDone, idStop, idNext}
  Intent = {done, stop, stop2, next}
  Event <- MCEvent
  GenOf <- MCGenOf
  IdOf <- MCIdOf
  IntentOf <- MCIntentOf
  AgainOf <- MCAgainOf
  EventOf <- MCEventOf
  GenOfId <- MCGenOfId
  MaxGeneration = 2
  MaxCalls = 3
  MaxFaults = 1
INVARIANTS NothingLeftBehind OkMeansPublished
PROPERTIES RecordSpec EveryCallResolves
