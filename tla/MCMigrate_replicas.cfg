SPECIFICATION FairSpec
CONSTANTS
  r1 = r1
  r2 = r2
  r3 = r3
  Nobody = Nobody
  Lingering = Lingering
  Replicas = {r1, r2, r3}
  Releases <- MCReleases
  Files <- MCFiles
INVARIANTS
  TypeOK
  NoCollision
  ServedSchemaStays
PROPERTIES
  StartsOnItsSchema
  EveryStartEnds
