SPECIFICATION FairSpec
CONSTANTS
  Threads = {t1, t2, t3}
  Ids = {u1, u2}
  NoThread = NoThread
  NoId = NoId
  MaxDepth = 3
INVARIANTS
  IInv
  MutualExclusion
  MapMatchesHandles
  NoLostWakeup
PROPERTIES
  ImplementsUserMutex
  FreeLockIsTaken
  LockIsReleased
