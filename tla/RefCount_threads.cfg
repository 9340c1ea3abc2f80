SPECIFICATION FairSpec
CONSTANTS
  Threads = {t1, t2, t3}
  Objects = {o1, o2}
INVARIANTS
  TypeOK
  LastReleaseDeletes
  AccessAfterFreeReported
  GoodReleaseSafe
PROPERTY UnreferencedIsFreed
CHECK_DEADLOCK FALSE
