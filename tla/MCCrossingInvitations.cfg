SPECIFICATION Spec
CONSTANTS
  Users = {u1, u2}
  Threads = {t1, t2}
  NoUser = NoUser
  Habits = {"cross"}
  MaxBuddies = 4
  MaxLeavers = 0
INVARIANTS
  OneRowPerBuddy
