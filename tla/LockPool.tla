------------------------------ MODULE LockPool ------------------------------
(***************************************************************************)
(* nu.yona.server.util.LockPool: a reentrant lock per ID, built on one     *)
(* Java monitor.  A thread calls lock(id), which either returns a Lock     *)
(* object (a handle) or waits on the monitor, and closes its handles in    *)
(* the reverse order (try-with-resources).                                 *)
(*                                                                         *)
(* A synchronized block is one step; pool.wait() splits lock(id) in two.   *)
(***************************************************************************)
EXTENDS Integers, Sequences

CONSTANTS
  Threads,    \* request threads of the analysis service
  Ids,        \* the IDs locked on (anonymized users)
  NoThread,   \* an ID that is no key of the map
  NoId,       \* a thread that is not inside lock(id)
  MaxDepth    \* bound on the nesting of one thread's handles

ASSUME LockPoolAssumption ==
  /\ NoThread \notin Threads
  /\ NoId \notin Ids
  /\ MaxDepth \in Nat \ {0}

VARIABLES
  pool,       \* pool[id]: the thread the map holds for id
  handles,    \* handles[t]: the open Lock objects of t, outermost first
  wants,      \* wants[t]: the ID of the lock(id) call t is inside
  waitSet     \* the threads inside pool.wait()

vars == <<pool, handles, wants, waitSet>>

Handle == [id : Ids, mustUnlock : BOOLEAN]

TypeOK ==
  /\ pool \in [Ids -> Threads \cup {NoThread}]
  /\ handles \in [Threads -> Seq(Handle)]
  /\ wants \in [Threads -> Ids \cup {NoId}]
  /\ waitSet \subseteq Threads

Init ==
  /\ pool = [id \in Ids |-> NoThread]
  /\ handles = [t \in Threads |-> <<>>]
  /\ wants = [t \in Threads |-> NoId]
  /\ waitSet = {}

-----------------------------------------------------------------------------
(* The parts of lock(id) and close().                                      *)

\* Mutant: another thread's lock is taken for this thread's own.
AnyLockIsMine(t, id) == IF pool[id] = NoThread THEN "FREE" ELSE "LOCKED_BY_ME"

LockStatus(t, id) ==
  IF pool[id] = NoThread THEN "FREE"
  ELSE IF pool[id] = t THEN "LOCKED_BY_ME" ELSE "LOCKED"

\* Mutant: every handle unlocks, the nested ones too.
EveryHandleUnlocks(status) == TRUE

\* Mutant: only nested handles unlock.
NestedHandleUnlocks(status) == status = "LOCKED_BY_ME"

MustUnlock(status) == status = "FREE"

\* Mutant: close() forgets to notify.
WakeNobody(parked) == parked

\* The threads that stay in the wait set after pool.notifyAll().
AfterNotifyAll(parked) == {}

\* A thread that holds an ID locks no other one: the callers in
\* AnalysisEngineService and InactivityManagementService lock one user, and
\* LockPoolTest nests locks of one ID only.
MayLock(t, id) == \A i \in 1..Len(handles[t]) : handles[t][i].id = id

-----------------------------------------------------------------------------
(* The steps.                                                              *)

\* A caller invokes lock(id) and contends for the monitor.
Call(t, id) ==
  /\ wants[t] = NoId
  /\ Len(handles[t]) < MaxDepth
  /\ MayLock(t, id)
  /\ wants' = [wants EXCEPT ![t] = id]
  /\ UNCHANGED <<pool, handles, waitSet>>

\* Inside the monitor: the ID is free or this thread's own; the call returns.
Enter(t) ==
  /\ wants[t] # NoId
  /\ t \notin waitSet
  /\ LET id == wants[t]
         status == LockStatus(t, id)
     IN /\ status # "LOCKED"
        /\ pool' = [pool EXCEPT ![id] = t]
        /\ handles' = [handles EXCEPT ![t] =
                         Append(@, [id |-> id, mustUnlock |-> MustUnlock(status)])]
  /\ wants' = [wants EXCEPT ![t] = NoId]
  /\ UNCHANGED waitSet

\* Inside the monitor: another thread has the ID; pool.wait().
Park(t) ==
  /\ wants[t] # NoId
  /\ t \notin waitSet
  /\ LockStatus(t, wants[t]) = "LOCKED"
  /\ waitSet' = waitSet \cup {t}
  /\ UNCHANGED <<pool, handles, wants>>

\* Object.wait() may return without a notification; the loop checks again.
SpuriousWakeup(t) ==
  /\ t \in waitSet
  /\ waitSet' = waitSet \ {t}
  /\ UNCHANGED <<pool, handles, wants>>

\* The thread is interrupted while it waits: lock(id) throws, no handle.
Interrupt(t) ==
  /\ t \in waitSet
  /\ waitSet' = waitSet \ {t}
  /\ wants' = [wants EXCEPT ![t] = NoId]
  /\ UNCHANGED <<pool, handles>>

\* close() of the innermost handle, at the end of its try block.
Close(t) ==
  /\ wants[t] = NoId
  /\ handles[t] # <<>>
  /\ LET depth == Len(handles[t])
         handle == handles[t][depth]
     IN /\ handles' = [handles EXCEPT ![t] = SubSeq(@, 1, depth - 1)]
        /\ IF handle.mustUnlock
           THEN /\ pool' = [pool EXCEPT ![handle.id] = NoThread]
                /\ waitSet' = AfterNotifyAll(waitSet)
           ELSE UNCHANGED <<pool, waitSet>>
  /\ UNCHANGED wants

Next ==
  \E t \in Threads :
    \/ \E id \in Ids : Call(t, id)
    \/ Enter(t)
    \/ Park(t)
    \/ SpuriousWakeup(t)
    \/ Interrupt(t)
    \/ Close(t)

Spec == Init /\ [][Next]_vars

\* A thread that may enter the monitor does, and a try block ends: no caller
\* opens handles inside the one of some depth for ever without closing that.
CloseAt(t, depth) == Len(handles[t]) = depth /\ Close(t)

Fairness ==
  \A t \in Threads :
    /\ WF_vars(Enter(t))
    /\ \A depth \in 1..MaxDepth : SF_vars(CloseAt(t, depth))

FairSpec == Spec /\ Fairness

-----------------------------------------------------------------------------
(* Properties.                                                             *)

Holds(t, id) == \E i \in 1..Len(handles[t]) : handles[t][i].id = id

\* Two threads never have an open Lock on the same ID
\* (LockPoolTest.lock_accessSameLockIdConcurrently_isNotExecutedConcurrently),
\* whatever the nesting, the interrupts and the wakeups.
MutualExclusion ==
  \A s, t \in Threads, id \in Ids : Holds(s, id) /\ Holds(t, id) => s = t

\* The map holds exactly the threads that have an open handle: no ID stays
\* locked after its last close(), none is unlocked by a nested close().
MapMatchesHandles ==
  \A t \in Threads, id \in Ids : pool[id] = t <=> Holds(t, id)

\* Only the outermost handle of a thread unlocks.
OutermostUnlocks ==
  \A t \in Threads : \A i \in 1..Len(handles[t]) :
    handles[t][i].mustUnlock <=> i = 1

\* A thread in pool.wait() waits for an ID another thread still has, so the
\* notifyAll() that frees it is still to come.
NoLostWakeup ==
  \A t \in waitSet : wants[t] \in Ids /\ pool[wants[t]] \notin {NoThread, t}

\* Strengthening of the above for induction: a thread's handles are all on
\* one ID, the ID of a nested lock(id) call too, so that a nested close() leaves the ID held.
OneIdPerThread ==
  \A t \in Threads : \A i, j \in 1..Len(handles[t]) :
    /\ handles[t][i].id = handles[t][j].id
    /\ wants[t] # NoId => handles[t][i].id = wants[t]

IInv ==
  /\ TypeOK
  /\ OneIdPerThread
  /\ OutermostUnlocks
  /\ MapMatchesHandles
  /\ NoLostWakeup

\* The critical sections, seen from outside, are those of a mutex per ID.
HolderOf(id) ==
  IF \E t \in Threads : Holds(t, id)
  THEN CHOOSE t \in Threads : Holds(t, id)
  ELSE NoThread

Mutex == INSTANCE UserMutex WITH owner <- [id \in Ids |-> HolderOf(id)]

ImplementsUserMutex == Mutex!Spec

\* A free ID somebody asks for is taken, or nobody asks for it any more: no
\* caller of lock(id) sleeps beside a free lock.
FreeLockIsTaken ==
  \A id \in Ids :
    (pool[id] = NoThread /\ \E t \in Threads : wants[t] = id)
      ~> (pool[id] # NoThread \/ \A t \in Threads : wants[t] # id)

\* A locked ID is unlocked again.
LockIsReleased ==
  \A id \in Ids : pool[id] # NoThread ~> pool[id] = NoThread
=============================================================================
