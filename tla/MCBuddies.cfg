SPECIFICATION FairSpec
CONSTANTS
  Users = {u1, u2}
  Threads = {t1, t2}
  NoUser = NoUser
  Habits = {}
  MaxBuddies = 4
  MaxLeavers = 1
INVARIANTS
  TypeOK
  PreparationNeverFails
  BuddiesAgree
  DisconnectIsUnderway
  InvitationCanBeAnswered
  RequestsAreOpen
PROPERTIES
  BuddyListSettles
