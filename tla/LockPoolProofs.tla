--------------------------- MODULE LockPoolProofs ---------------------------
(***************************************************************************)
(* Proofs about LockPool, for any set of threads and of IDs and any        *)
(* nesting depth: mutual exclusion, no lost wakeup, and that the pool      *)
(* implements a mutex per ID.                                              *)
(***************************************************************************)
EXTENDS LockPool, SequenceTheorems, TLAPS

(* Opening a handle: the open ones stay, the new one comes last. *)
LEMMA PushHandle ==
  ASSUME NEW hs \in Seq(Handle), NEW h \in Handle
  PROVE  /\ Append(hs, h) \in Seq(Handle)
         /\ Len(Append(hs, h)) = Len(hs) + 1
         /\ \A i \in 1..Len(hs) : Append(hs, h)[i] = hs[i]
         /\ Append(hs, h)[Len(hs) + 1] = h
  BY AppendProperties

(* Closing a handle: the others stay. *)
LEMMA PopHandle ==
  ASSUME NEW hs \in Seq(Handle), hs # <<>>
  PROVE  /\ SubSeq(hs, 1, Len(hs) - 1) \in Seq(Handle)
         /\ Len(SubSeq(hs, 1, Len(hs) - 1)) = Len(hs) - 1
         /\ \A i \in 1..Len(hs) - 1 : SubSeq(hs, 1, Len(hs) - 1)[i] = hs[i]
         /\ Len(hs) \in Nat
         /\ Len(hs) >= 1
         /\ hs[Len(hs)] \in Handle
<1>1. Len(hs) \in Nat /\ Len(hs) >= 1
  <2>1. Len(hs) \in Nat /\ Len(hs) # 0
    BY EmptySeq
  <2>2. QED
    BY <2>1
<1>2. \A i \in 1..Len(hs) : hs[i] \in Handle
  BY ElementOfSeq
<1> DEFINE n == Len(hs) - 1
<1>3. n \in Nat /\ n < Len(hs)
  BY <1>1
<1>4. /\ SubSeq(hs, 1, n) \in Seq(Handle)
      /\ Len(SubSeq(hs, 1, n)) = IF 1 <= n THEN n - 1 + 1 ELSE 0
      /\ \A i \in 1..(n - 1 + 1) : SubSeq(hs, 1, n)[i] = hs[1 + i - 1]
  <2>1. \A i \in 1..n : hs[i] \in Handle
    BY <1>1, <1>2, <1>3
  <2> HIDE DEF n
  <2>2. QED
    BY <1>3, <2>1, SubSeqProperties, 1 \in Int, n \in Int
<1>5. Len(SubSeq(hs, 1, n)) = n
  <2> HIDE DEF n
  <2> QED
    BY <1>3, <1>4
<1>6. \A i \in 1..n : SubSeq(hs, 1, n)[i] = hs[i]
  <2> HIDE DEF n
  <2>1. n - 1 + 1 = n /\ \A i \in 1..n : 1 + i - 1 = i
    BY <1>3
  <2> QED
    BY <1>4, <2>1
<1>7. QED
  BY <1>1, <1>2, <1>4, <1>5, <1>6
-----------------------------------------------------------------------------
(* The invariant holds initially: the map and all handles are empty. *)
LEMMA InitIInv == Init => IInv
<1> SUFFICES ASSUME Init PROVE IInv
  OBVIOUS
<1>1. \A t \in Threads : handles[t] = <<>> /\ Len(handles[t]) = 0
  BY EmptySeq DEF Init
<1>2. TypeOK
  BY EmptySeq DEF Init, TypeOK
<1>3. \A t \in Threads, id \in Ids : pool[id] # t
  BY LockPoolAssumption DEF Init
<1>4. QED
  BY <1>1, <1>2, <1>3
  DEF Init, IInv, OneIdPerThread, OutermostUnlocks, MapMatchesHandles, Holds,
      NoLostWakeup

(* lock(id) returns: the ID was free, or the thread has it already. *)
LEMMA EnterStep ==
  ASSUME IInv, NEW t \in Threads, Enter(t)
  PROVE  IInv'
<1> DEFINE id == wants[t]
           h == [id |-> id, mustUnlock |-> MustUnlock(LockStatus(t, id))]
<1>1. /\ TypeOK /\ OneIdPerThread /\ OutermostUnlocks
      /\ MapMatchesHandles /\ NoLostWakeup
  BY DEF IInv
<1>2. /\ id \in Ids
      /\ pool[id] = NoThread \/ pool[id] = t
      /\ pool' = [pool EXCEPT ![id] = t]
      /\ handles' = [handles EXCEPT ![t] = Append(@, h)]
      /\ wants' = [wants EXCEPT ![t] = NoId]
      /\ waitSet' = waitSet
      /\ t \notin waitSet
  BY <1>1 DEF Enter, LockStatus, TypeOK
<1>3. /\ h \in Handle
      /\ h.id = id
      /\ h.mustUnlock <=> pool[id] = NoThread
  BY <1>2, LockPoolAssumption DEF Handle, MustUnlock, LockStatus
<1> HIDE DEF h
<1>4. /\ handles[t] \in Seq(Handle)
      /\ handles'[t] = Append(handles[t], h)
      /\ \A s \in Threads \ {t} : handles'[s] = handles[s]
  BY <1>1, <1>2 DEF TypeOK
<1>5. /\ handles'[t] \in Seq(Handle)
      /\ Len(handles[t]) \in Nat
      /\ Len(handles'[t]) = Len(handles[t]) + 1
      /\ \A i \in 1..Len(handles[t]) : handles'[t][i] = handles[t][i]
      /\ handles'[t][Len(handles[t]) + 1] = h
  BY <1>3, <1>4, PushHandle, LenProperties
<1>6. TypeOK'
  BY <1>1, <1>2, <1>4, <1>5 DEF TypeOK
<1>7. \A i \in 1..Len(handles[t]) : handles[t][i].id = id
  BY <1>1, <1>2, LockPoolAssumption DEF OneIdPerThread
<1>8. \A i \in 1..Len(handles'[t]) : handles'[t][i].id = id
  BY <1>3, <1>5, <1>7
<1>9. OneIdPerThread'
  BY <1>1, <1>2, <1>4, <1>8 DEF OneIdPerThread, TypeOK
<1>10. pool[id] = NoThread <=> Len(handles[t]) = 0
  <2>1. pool[id] = t <=> \E i \in 1..Len(handles[t]) : handles[t][i].id = id
    BY <1>1, <1>2 DEF MapMatchesHandles, Holds
  <2>2. pool[id] = t <=> Len(handles[t]) # 0
    BY <2>1, <1>5, <1>7
  <2>3. QED
    BY <2>2, <1>2, LockPoolAssumption
<1>11. OutermostUnlocks'
  <2>1. \A i \in 1..Len(handles'[t]) : handles'[t][i].mustUnlock <=> i = 1
    BY <1>1, <1>3, <1>5, <1>10 DEF OutermostUnlocks
  <2>2. QED
    BY <1>1, <1>4, <2>1 DEF OutermostUnlocks
<1>12. MapMatchesHandles'
  <2> SUFFICES ASSUME NEW s \in Threads, NEW k \in Ids
               PROVE  pool'[k] = s <=>
                        \E i \in 1..Len(handles'[s]) : handles'[s][i].id = k
    BY DEF MapMatchesHandles, Holds
  <2>1. pool[k] = s <=> \E i \in 1..Len(handles[s]) : handles[s][i].id = k
    BY <1>1 DEF MapMatchesHandles, Holds
  <2>2. pool'[k] = IF k = id THEN t ELSE pool[k]
    BY <1>1, <1>2 DEF TypeOK
  <2>3. CASE s = t
    <3>1. (\E i \in 1..Len(handles'[t]) : handles'[t][i].id = k) <=> k = id
      BY <1>5, <1>8
    <3>2. k # id => pool[k] # t
      BY <2>1, <2>3, <1>7
    <3>3. QED
      BY <2>2, <2>3, <3>1, <3>2
  <2>4. CASE s # t
    <3>1. handles'[s] = handles[s]
      BY <1>4, <2>4
    <3>2. pool[id] # s
      BY <1>2, <2>4, LockPoolAssumption
    <3>3. QED
      BY <2>1, <2>2, <2>4, <3>1, <3>2
  <2>5. QED
    BY <2>3, <2>4
<1>13. NoLostWakeup'
  \* taking a free ID, or one already taken, frees none
  <2> SUFFICES ASSUME NEW s \in waitSet
               PROVE  wants'[s] \in Ids /\ pool'[wants'[s]] \notin {NoThread, s}
    BY <1>2 DEF NoLostWakeup
  <2>1. s \in Threads /\ s # t /\ wants'[s] = wants[s]
    BY <1>1, <1>2 DEF TypeOK
  <2>2. wants[s] \in Ids /\ pool[wants[s]] \notin {NoThread, s}
    BY <1>1 DEF NoLostWakeup
  <2>3. QED
    BY <1>1, <1>2, <2>1, <2>2, LockPoolAssumption DEF TypeOK
<1>14. QED
  BY <1>6, <1>9, <1>11, <1>12, <1>13 DEF IInv

(* close(): a nested handle changes nothing but the stack, the outermost one
   frees the ID and empties the wait set. *)
LEMMA CloseStep ==
  ASSUME IInv, NEW t \in Threads, Close(t)
  PROVE  IInv'
<1> DEFINE depth == Len(handles[t])
           h == handles[t][depth]
<1>1. /\ TypeOK /\ OneIdPerThread /\ OutermostUnlocks
      /\ MapMatchesHandles /\ NoLostWakeup
  BY DEF IInv
<1>2. /\ wants[t] = NoId
      /\ handles[t] # <<>>
      /\ handles[t] \in Seq(Handle)
      /\ handles' = [handles EXCEPT ![t] = SubSeq(@, 1, depth - 1)]
      /\ wants' = wants
  BY <1>1 DEF Close, TypeOK
<1>3. /\ handles'[t] \in Seq(Handle)
      /\ depth \in Nat /\ depth >= 1
      /\ Len(handles'[t]) = depth - 1
      /\ \A i \in 1..depth - 1 : handles'[t][i] = handles[t][i]
      /\ h \in Handle
      /\ \A s \in Threads \ {t} : handles'[s] = handles[s]
  <2>1. handles'[t] = SubSeq(handles[t], 1, depth - 1)
    BY <1>1, <1>2 DEF TypeOK
  <2>2. \A s \in Threads \ {t} : handles'[s] = handles[s]
    BY <1>1, <1>2 DEF TypeOK
  <2>3. QED
    BY <1>2, <2>1, <2>2, PopHandle
<1>4. /\ h.id \in Ids
      /\ h.mustUnlock <=> depth = 1
      /\ \A i \in 1..depth : handles[t][i].id = h.id
  <2>1. depth \in 1..depth
    <3> HIDE DEF depth
    <3> QED
      BY <1>3
  <2>2. h.mustUnlock <=> depth = 1
    BY <1>1, <2>1 DEF OutermostUnlocks
  <2>3. \A i \in 1..depth : handles[t][i].id = h.id
    BY <1>1, <2>1 DEF OneIdPerThread
  <2>4. h.id \in Ids
    BY <1>3 DEF Handle
  <2>5. QED
    BY <2>2, <2>3, <2>4
<1>5. /\ depth = 1 => /\ pool' = [pool EXCEPT ![h.id] = NoThread]
                      /\ waitSet' = {}
      /\ depth # 1 => pool' = pool /\ waitSet' = waitSet
  BY <1>4 DEF Close, AfterNotifyAll
<1> HIDE DEF h
<1>6. TypeOK'
  BY <1>1, <1>2, <1>3, <1>4, <1>5 DEF TypeOK
<1>7. OneIdPerThread' /\ OutermostUnlocks'
  BY <1>1, <1>2, <1>3 DEF OneIdPerThread, OutermostUnlocks
<1>8. MapMatchesHandles'
  <2> SUFFICES ASSUME NEW s \in Threads, NEW k \in Ids
               PROVE  pool'[k] = s <=>
                        \E i \in 1..Len(handles'[s]) : handles'[s][i].id = k
    BY DEF MapMatchesHandles, Holds
  <2>1. pool[k] = s <=> \E i \in 1..Len(handles[s]) : handles[s][i].id = k
    BY <1>1 DEF MapMatchesHandles, Holds
  <2>2. pool[h.id] = t
    <3>1. \E i \in 1..Len(handles[t]) : handles[t][i].id = h.id
      BY <1>3, <1>4
    <3>2. QED
      BY <1>1, <1>4, <3>1 DEF MapMatchesHandles, Holds
  <2>3. CASE s # t
    <3>1. handles'[s] = handles[s]
      BY <1>3, <2>3
    <3>2. k = h.id => pool[k] # s /\ pool'[k] # s
      BY <2>2, <2>3, <1>1, <1>4, <1>5, LockPoolAssumption DEF TypeOK
    <3>3. k # h.id => pool'[k] = pool[k]
      BY <1>1, <1>4, <1>5 DEF TypeOK
    <3>4. QED
      BY <2>1, <3>1, <3>2, <3>3
  <2>4. CASE s = t /\ depth = 1
    <3>1. ~ \E i \in 1..Len(handles'[t]) : handles'[t][i].id = k
      BY <1>3, <2>4
    <3>2. k # h.id => pool[k] # t
      BY <1>4, <2>1, <2>4
    <3>3. pool'[k] # t
      BY <1>1, <1>4, <1>5, <2>4, <3>2, LockPoolAssumption DEF TypeOK
    <3>4. QED
      BY <2>4, <3>1, <3>3
  <2>5. CASE s = t /\ depth # 1
    <3>1. (\E i \in 1..Len(handles'[t]) : handles'[t][i].id = k) <=> k = h.id
      <4>1. 1 \in 1..depth - 1 /\ 1 \in 1..depth
        <5>1. depth \in Nat /\ depth >= 1 /\ depth # 1
          BY <1>3, <2>5
        <5> HIDE DEF depth
        <5>2. QED
          BY <5>1
      <4>2. \A i \in 1..depth - 1 : i \in 1..depth /\ handles'[t][i].id = h.id
        BY <1>3, <1>4
      <4>3. QED
        BY <1>3, <4>1, <4>2
    <3>2. pool[k] = t <=> k = h.id
      BY <1>3, <1>4, <2>1, <2>2, <2>5
    <3>3. QED
      BY <1>5, <2>5, <3>1, <3>2
  <2>6. QED
    BY <2>3, <2>4, <2>5
<1>9. NoLostWakeup'
  BY <1>1, <1>2, <1>5 DEF NoLostWakeup
<1>10. QED
  BY <1>6, <1>7, <1>8, <1>9 DEF IInv

(* The other steps move a thread in or out of lock(id) and its wait set. *)
LEMMA WaitingSteps ==
  ASSUME IInv, NEW t \in Threads,
         \/ \E id \in Ids : Call(t, id)
         \/ Park(t)
         \/ SpuriousWakeup(t)
         \/ Interrupt(t)
  PROVE  IInv'
<1>1. /\ TypeOK /\ OneIdPerThread /\ OutermostUnlocks
      /\ MapMatchesHandles /\ NoLostWakeup
  BY DEF IInv
<1>2. pool' = pool /\ handles' = handles
  BY DEF Call, Park, SpuriousWakeup, Interrupt
<1>3. OutermostUnlocks' /\ MapMatchesHandles'
  BY <1>1, <1>2 DEF OutermostUnlocks, MapMatchesHandles, Holds
<1>4. ASSUME NEW id \in Ids, Call(t, id)
      PROVE  TypeOK' /\ OneIdPerThread' /\ NoLostWakeup'
  <2>1. /\ wants[t] = NoId
        /\ wants' = [wants EXCEPT ![t] = id]
        /\ waitSet' = waitSet
        /\ \A i \in 1..Len(handles[t]) : handles[t][i].id = id
    BY <1>4 DEF Call, MayLock
  <2>2. t \notin waitSet
    BY <1>1, <2>1, LockPoolAssumption DEF NoLostWakeup
  <2>3. QED
    BY <1>1, <1>2, <2>1, <2>2 DEF TypeOK, OneIdPerThread, NoLostWakeup
<1>5. ASSUME Park(t)
      PROVE  TypeOK' /\ OneIdPerThread' /\ NoLostWakeup'
  <2>1. pool[wants[t]] \notin {NoThread, t} /\ wants[t] \in Ids
    BY <1>1, <1>5 DEF Park, LockStatus, TypeOK
  <2>2. QED
    BY <1>1, <1>2, <1>5, <2>1 DEF Park, TypeOK, OneIdPerThread, NoLostWakeup
<1>6. ASSUME SpuriousWakeup(t) \/ Interrupt(t)
      PROVE  TypeOK' /\ OneIdPerThread' /\ NoLostWakeup'
  BY <1>1, <1>2, <1>6, ZenonT(60)
  DEF SpuriousWakeup, Interrupt, TypeOK, OneIdPerThread, NoLostWakeup
<1>7. QED
  BY <1>3, <1>4, <1>5, <1>6 DEF IInv

(* The inductive invariant holds in every reachable state. *)
THEOREM Invariance == Spec => []IInv
<1>1. IInv /\ [Next]_vars => IInv'
  <2> SUFFICES ASSUME IInv, [Next]_vars PROVE IInv'
    OBVIOUS
  <2>1. CASE UNCHANGED vars
    BY <2>1 DEF vars, IInv, TypeOK, OneIdPerThread, OutermostUnlocks,
                MapMatchesHandles, Holds, NoLostWakeup
  <2>2. CASE Next
    BY <2>2, EnterStep, CloseStep, WaitingSteps DEF Next
  <2>3. QED
    BY <2>1, <2>2
<1>2. QED
  BY <1>1, InitIInv, PTL DEF Spec

-----------------------------------------------------------------------------
(* Two threads never have an open Lock on one ID: LockPool is a lock. *)
THEOREM LocksExclude == Spec => []MutualExclusion
<1>1. IInv => MutualExclusion
  BY DEF IInv, MapMatchesHandles, MutualExclusion
<1>2. QED
  BY <1>1, Invariance, PTL

(* No thread sleeps in pool.wait() for an ID that is free. *)
THEOREM WakeupsAreNotLost == Spec => []NoLostWakeup
<1>1. IInv => NoLostWakeup
  BY DEF IInv
<1>2. QED
  BY <1>1, Invariance, PTL

(* No ID stays locked without an open handle, nor is unlocked under one. *)
THEOREM MapIsExact == Spec => []MapMatchesHandles
<1>1. IInv => MapMatchesHandles
  BY DEF IInv
<1>2. QED
  BY <1>1, Invariance, PTL
-----------------------------------------------------------------------------
(* Refinement: what a caller sees of the pool is a mutex per ID. *)

(* The holder of an ID is the thread in the map. *)
MapNamesHolders == \A id \in Ids : HolderOf(id) = pool[id]

(* The holder the mapping chooses is the thread in the map. *)
LEMMA HolderIsInMap == IInv => MapNamesHolders
<1> SUFFICES ASSUME IInv, NEW id \in Ids PROVE HolderOf(id) = pool[id]
  BY DEF MapNamesHolders
<1>1. /\ \A t \in Threads : pool[id] = t <=> Holds(t, id)
      /\ pool[id] \in Threads \cup {NoThread}
  BY DEF IInv, MapMatchesHandles, TypeOK
<1>2. CASE pool[id] \in Threads
  BY <1>1, <1>2 DEF HolderOf
<1>3. CASE pool[id] = NoThread
  BY <1>1, <1>3, LockPoolAssumption DEF HolderOf
<1>4. QED
  BY <1>1, <1>2, <1>3

(* Every step of the pool acquires one ID, releases one, or is a stutter. *)
LEMMA StepOfMap ==
  ASSUME IInv, Next
  PROVE  \/ \E t \in Threads, id \in Ids :
              \/ pool[id] = NoThread /\ pool' = [pool EXCEPT ![id] = t]
              \/ pool[id] = t /\ pool' = [pool EXCEPT ![id] = NoThread]
         \/ pool' = pool
<1> USE DEF IInv, TypeOK
<1>1. PICK t \in Threads :
        \/ \E id \in Ids : Call(t, id)
        \/ Enter(t) \/ Park(t) \/ SpuriousWakeup(t) \/ Interrupt(t)
        \/ Close(t)
  BY DEF Next
<1>2. CASE Enter(t)
  <2>1. /\ wants[t] \in Ids
        /\ pool[wants[t]] \in {NoThread, t}
        /\ pool' = [pool EXCEPT ![wants[t]] = t]
    BY <1>2 DEF Enter, LockStatus
  <2>2. QED
    BY <2>1
<1>3. CASE Close(t)
  <2> DEFINE h == handles[t][Len(handles[t])]
  <2>1. Len(handles[t]) \in 1..Len(handles[t]) /\ h \in Handle
    <3>1. handles[t] \in Seq(Handle) /\ handles[t] # <<>>
      BY <1>3 DEF Close
    <3>2. Len(handles[t]) \in Nat /\ Len(handles[t]) >= 1 /\ h \in Handle
      BY <3>1, PopHandle
    <3>3. QED
      BY <3>2
  <2>2. h.id \in Ids /\ pool[h.id] = t
    BY <2>1 DEF MapMatchesHandles, Holds, Handle
  <2>3. \/ pool' = [pool EXCEPT ![h.id] = NoThread]
        \/ pool' = pool
    BY <1>3 DEF Close
  <2>4. QED
    BY <2>2, <2>3
<1>4. QED
  BY <1>1, <1>2, <1>3 DEF Call, Park, SpuriousWakeup, Interrupt

(* LockPool implements UserMutex. *)
THEOREM RefinesUserMutex == Spec => ImplementsUserMutex
<1> DEFINE owner == [id \in Ids |-> HolderOf(id)]
<1>1. Init => Mutex!Init
  <2> SUFFICES ASSUME Init PROVE Mutex!Init
    OBVIOUS
  <2>1. \A id \in Ids : HolderOf(id) = NoThread
    BY InitIInv, HolderIsInMap DEF Init, MapNamesHolders
  <2>2. QED
    BY <2>1 DEF Mutex!Init
<1>2. IInv /\ IInv' /\ [Next]_vars => [Mutex!Next]_owner
  <2> SUFFICES ASSUME IInv, IInv', [Next]_vars PROVE [Mutex!Next]_owner
    OBVIOUS
  <2>1. owner = pool
    BY HolderIsInMap DEF IInv, TypeOK, MapNamesHolders
  <2>2. owner' = pool'
    <3>1. MapNamesHolders'
      BY HolderIsInMap, PTL
    <3>2. QED
      BY <3>1 DEF IInv, TypeOK, MapNamesHolders
  <2>3. CASE UNCHANGED vars
    BY <2>1, <2>2, <2>3 DEF vars
  <2>4. CASE Next
    <3> HIDE DEF owner
    <3>1. QED
      BY <2>1, <2>2, <2>4, StepOfMap
      DEF owner, Mutex!Next, Mutex!Acquire, Mutex!Release
  <2>5. QED
    BY <2>3, <2>4
<1>3. QED
  BY <1>1, <1>2, Invariance, PTL DEF Spec, ImplementsUserMutex, Mutex!Spec
=============================================================================
