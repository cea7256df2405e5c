SPECIFICATION FairSpec
CONSTANTS
  Users = {u1, u2}
  Expiry = 2
  MaxTime = 6
INVARIANTS
  TypeOK
PROPERTIES
  UsableRequestsStay
  LoneRequestIsDeleted
