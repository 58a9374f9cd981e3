CONSTANTS
  a = a
  b = b
  q = q
  r = r
  g0 = g0
  g1 = g1
  h0 = h0
  l0 = l0
  l1 = l1
  s0 = s0
  s1 = s1
  s2 = s2
  Nil = Nil
  Adr = {a, b}
  Question = {q, r}
  Gate = {g0, g1}
  Landing = {h0, l0, l1, s0, s1, s2}
  Spike = {h0, s0, s1, s2}
  Text = {1, 2}
  Genesis <- MCGenesis
  RootOf <- MCRootOf
  MaxRevisions = 5
SPECIFICATION RegistrySpec
INVARIANTS DecisionsStand ReadyIsKept ProgramKeepsShape
CHECK_DEADLOCK FALSE
