CONSTANTS
  Callers = {g1, g2, g3}
  Sectors = {tech}
  sectorTTL = 1
  MaxTime = 5
  None = None
SPECIFICATION SectorFairSpec
INVARIANTS
  SectorTypeOK
  OneFetchPerSector
  RefetchesBounded
PROPERTIES
  CallsReturn
CHECK_DEADLOCK FALSE
