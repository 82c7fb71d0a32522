\* Operations of every kind while servers fail and failovers overlap.
SPECIFICATION Spec
CONSTANTS
  p = p
  a = a
  b = b
  c = c
  f1 = f1
  f2 = f2
  g1 = g1
  g2 = g2
  None = None
  Unknown = Unknown
  Names <- MCNames
  defaultName = p
  Mssql <- MCMssql
  Guarded <- MCGuarded
  Groups <- MCGroups
  writeName <- MCWriteName
  readNames <- MCReadNames
  primaryName = p
  standbyNames <- MCStandbyNames
  tenantOf <- MCTenantOf
  Failovers <- MCFailovers
  MaxReads = 3
  MaxOutages = 2
SYMMETRY FailoverSymmetry
INVARIANTS
  RoutedRight
  PromotedFirst
