SPECIFICATION Spec
CONSTANTS
  Users = {u1, u2, u3}
  Threads = {t1, t2}
  NoUser = NoUser
  Habits = {}
  MaxBuddies = 3
  MaxLeavers = 1
INVARIANTS
  OverwrittenUserInformsBuddies
