SPECIFICATION FairSpec
CONSTANTS
  Calls = {c1, c2}
  Rotations = {r1, r2}
  MaxSecrets = 3
INVARIANTS TypeOK IssuedSecretWorks
PROPERTIES LostOnlyToStaleUpgrade FleetMigrates
