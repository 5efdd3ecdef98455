SPECIFICATION Spec
CHECK_DEADLOCK FALSE
CONSTANTS
  None = None
  g1 = g1
  g2 = g2
  platform1 = platform1
  platform2 = platform2
  product1 = product1
  customer1 = customer1
  customer2 = customer2
  deployment1 = deployment1
  k1 = k1
  k2 = k2
  x = x
  y = y
  z = z
  t1 = t1
  t2 = t2
  Registers = {g1, g2}
  Values <- MCValues
  Kind <- MCKind
  Fresh = {g2, customer2}
  Risks = {k1, k2}
  Codes = {x, y, z}
  Txs = {t1, t2}
  MaxRequests = 4
  Mixes <- MCMixes
SYMMETRY MCSymmetry
INVARIANTS TypeOK RisksFitRegister NextCodeFree
PROPERTY AddedValuesActive
