SPECIFICATION Spec
CONSTANTS
  Nobody = Nobody
  Holder = {h1, h2}
  Ttl = {1, 2}
  MaxClock = 5
  MaxLease = 3
INVARIANTS
  TypeOK
  MutualExclusion
  RelianceIsBacked
  AnnouncedStatus
PROPERTIES
  ImplementsLock
