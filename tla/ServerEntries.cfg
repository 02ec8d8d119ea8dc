CONSTANTS
  NoRegion = NoRegion
  s1 = s1
  s2 = s2
  t1 = t1
  t2 = t2
  t3 = t3
  r1 = r1
  r2 = r2
  ID = {s1, s2}
  Tag = {t1, t2, t3}
  Region = {r1, r2}
  Egress = {r1, NoRegion}
  Catalog <- MCCatalog
  Prefix <- MCPrefix
  MaxMoveToFront = 1
  MaxCorrupt = 1
  NoID = NoID
SPECIFICATION Spec
INVARIANTS
  PrunedStaysPruned
  TagRecordsCurrent
  RoundComplete
