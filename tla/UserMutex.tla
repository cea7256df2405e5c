------------------------------ MODULE UserMutex ------------------------------
(***************************************************************************)
(* What the rest of the analysis service may assume of a lock per user:    *)
(* one owner at most, taken only when free, given back only by its owner.  *)
(* LockPool implements it; AnalysisEngine relies on it.                    *)
(***************************************************************************)

CONSTANTS
  Threads,    \* request threads
  Ids,        \* the IDs locked on (anonymized users)
  NoThread    \* owner of an ID nobody has locked

VARIABLE owner    \* owner[id]: the thread inside the critical section of id

TypeOK == owner \in [Ids -> Threads \cup {NoThread}]

Init == owner = [id \in Ids |-> NoThread]

Acquire(t, id) ==
  /\ owner[id] = NoThread
  /\ owner' = [owner EXCEPT ![id] = t]

Release(t, id) ==
  /\ owner[id] = t
  /\ owner' = [owner EXCEPT ![id] = NoThread]

Next == \E t \in Threads, id \in Ids : Acquire(t, id) \/ Release(t, id)

Spec == Init /\ [][Next]_owner
=============================================================================
