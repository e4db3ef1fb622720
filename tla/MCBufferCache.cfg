SPECIFICATION Spec
CONSTANTS
  s1 = s1
  s2 = s2
  s3 = s3
  s4 = s4
  a = a
  b = b
  Absent = Absent
  Zeros = a
  CacheSize = 3
  Sector <- MCDevice
  Device <- MCDevice
  Content <- MCContent
INVARIANTS
  TypeOK
  OneSlotPerSector
  CleanMatchesDisk
  ClosedIsDurable
PROPERTY
  ImplementsStore
