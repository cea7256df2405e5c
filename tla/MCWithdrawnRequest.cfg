SPECIFICATION Spec
CONSTANTS
  Users = {u1, u2}
  Threads = {t1, t2}
  NoUser = NoUser
  Habits = {"withdraw"}
  MaxBuddies = 2
  MaxLeavers = 0
INVARIANTS
  RequestsAreOpen
