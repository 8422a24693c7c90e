SPECIFICATION Spec
CONSTANTS
  l1 = l1
  l2 = l2
  m1 = m1
  Workers = {w1, w2}
  Letters = {l1, l2}
  Members = {m1, m2}
  Asks <- MCAsks
  Panels <- MCPanels
  MaxAttempts = 2
  LastEdition = 2
  LastNumber = 3
  NoRow = NoRow
  NoSlot = NoSlot
  Nobody = Nobody
SYMMETRY Symmetry
INVARIANT EveryoneHasSigned
CHECK_DEADLOCK FALSE
