SPECIFICATION FairSpec
CONSTANTS
  a1 = a1
  a2 = a2
  a3 = a3
  r1 = r1
  r2 = r2
  Run = {r1, r2}
  Attempt = {a1, a2, a3}
  MaxGeneration = 3
  RunOf <- MCRunOf
INVARIANTS NoOrphanedGrant
PROPERTIES DisplacedOnlyByNewer FencedGenerations OwnershipSpec Freed
