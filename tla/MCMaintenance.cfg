CONSTANTS
  a = a
  b = b
  one = one
  both = both
  Nobody = Nobody
  Tool = {a, b}
  Class = {one, both}
  Policies <- MCPolicies
  MaxMain = 3
  MaxPushes = 2
  MaxRuns = 1
SPECIFICATION MaintenanceSpec
INVARIANTS EvidenceMet MaintenanceMovesOnlyTools MovedToolsWereJudged
CHECK_DEADLOCK FALSE
