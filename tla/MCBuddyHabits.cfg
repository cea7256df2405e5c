SPECIFICATION Spec
CHECK_DEADLOCK FALSE
CONSTANTS
  Users = {u1, u2}
  Threads = {t1, t2}
  NoUser = NoUser
  Habits = {"withdraw", "repeat"}
  MaxBuddies = 4
  MaxLeavers = 1
INVARIANTS
  Consent
PROPERTIES
  ImplementsBuddyPair
