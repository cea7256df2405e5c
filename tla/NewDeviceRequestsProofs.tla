----------------------- MODULE NewDeviceRequestsProofs -----------------------
(***************************************************************************)
(* Proofs about NewDeviceRequests, for any set of users and any validity.  *)
(***************************************************************************)
EXTENDS NewDeviceRequests, TLAPS

(* Whom the job found has either the expired request it found, or one that *)
(* was set after it started.                                               *)
IInv ==
  /\ TypeOK
  /\ job.started <= now
  /\ \A u \in job.todo \union job.locked :
       \A c \in request[u] : c < job.started => c + Expiry < now

(* The invariant holds initially. *)
LEMMA InitIInv == Init => IInv
  BY DEF Init, IInv, TypeOK, CleanUp, Idle

(* A request is set, which is younger than the job. *)
LEMMA SetIInv ==
  ASSUME IInv, NEW u \in Users, SetNewDeviceRequestForUser(u)
  PROVE  IInv'
<1>1. /\ now \in Nat /\ job \in CleanUp /\ request \in [Users -> SUBSET Nat]
      /\ request' = [request EXCEPT ![u] = {now}]
      /\ now' = now /\ job' = job
  BY DEF IInv, TypeOK, SetNewDeviceRequestForUser, Renewed
<1>2. \A v \in Users : request'[v] = IF v = u THEN {now} ELSE request[v]
  BY <1>1
<1>3. TypeOK'
  BY <1>1, <1>2 DEF IInv, TypeOK
<1>4. job.todo \union job.locked \subseteq Users /\ job.started \in Nat
  BY <1>1 DEF CleanUp
<1>5. \A v \in job.todo \union job.locked :
        \A c \in request'[v] : c < job.started => c + Expiry < now
  <2>1. ~(now < job.started)
    BY <1>1, <1>4 DEF IInv
  <2>2. QED
    BY <1>2, <1>4, <2>1 DEF IInv
<1>6. QED
  BY <1>1, <1>3, <1>5 DEF IInv

(* A request is cleared. *)
LEMMA ClearIInv ==
  ASSUME IInv, NEW u \in Users, ClearNewDeviceRequestForUser(u)
  PROVE  IInv'
<1>1. /\ job \in CleanUp /\ request \in [Users -> SUBSET Nat]
      /\ request' = [request EXCEPT ![u] = {}]
      /\ now' = now /\ job' = job
  BY DEF IInv, TypeOK, ClearNewDeviceRequestForUser
<1>2. \A v \in Users : request'[v] \subseteq request[v]
  BY <1>1
<1>3. TypeOK'
  BY <1>1, <1>2 DEF IInv, TypeOK
<1>4. job.todo \union job.locked \subseteq Users
  BY <1>1 DEF CleanUp
<1>5. QED
  BY <1>1, <1>2, <1>3, <1>4 DEF IInv

(* Time passes: what had expired stays expired. *)
LEMMA TickIInv ==
  ASSUME IInv, Tick
  PROVE  IInv'
<1>1. /\ now' = now + 1 /\ UNCHANGED <<request, job>> /\ now \in Nat
      /\ job.started \in Nat /\ job.todo \union job.locked \subseteq Users
      /\ \A u \in Users : \A c \in request[u] : c \in Nat
  BY DEF Tick, IInv, TypeOK, CleanUp
<1>2. TypeOK'
  BY <1>1 DEF IInv, TypeOK
<1>3. \A u \in job.todo \union job.locked :
        \A c \in request[u] : c < job.started => c + Expiry < now'
  BY <1>1, NewDeviceRequestsAssumption DEF IInv
<1>4. QED
  BY <1>1, <1>2, <1>3 DEF IInv

(* The job starts with users whose request is expired. *)
LEMMA StartIInv ==
  ASSUME IInv, DeleteAllExpiredRequests
  PROVE  IInv'
<1> DEFINE started == [running |-> TRUE, started |-> now,
                       todo |-> UsersWithExpiredRequest, locked |-> {}]
<1>1. job' = started /\ UNCHANGED <<now, request>> /\ now \in Nat
  BY DEF DeleteAllExpiredRequests, IInv, TypeOK
<1>2. UsersWithExpiredRequest \subseteq Users
  BY DEF UsersWithExpiredRequest
<1>3. started \in CleanUp
  BY <1>1, <1>2 DEF CleanUp
<1>4. TypeOK'
  BY <1>1, <1>3 DEF IInv, TypeOK
<1>5. ASSUME NEW u \in UsersWithExpiredRequest, NEW c \in request[u]
      PROVE  c + Expiry < now
  <2>1. PICK d \in request[u] : d < now - Expiry
    BY DEF UsersWithExpiredRequest
  <2>2. c = d /\ c \in Nat
    BY <1>2, <2>1 DEF IInv, TypeOK
  <2>3. QED
    BY <1>1, <2>1, <2>2, NewDeviceRequestsAssumption
<1>6. QED
  BY <1>1, <1>4, <1>5 DEF IInv

(* The job locks one more user. *)
LEMMA RemoveIInv ==
  ASSUME IInv, NEW u \in Users, RemoveNewDeviceRequest(u)
  PROVE  IInv'
<1>1. /\ job' = [job EXCEPT !.todo = @ \ {u}, !.locked = @ \union {u}]
      /\ UNCHANGED <<now, request>> /\ u \in job.todo /\ job \in CleanUp
  BY DEF RemoveNewDeviceRequest, IInv, TypeOK
<1>2. /\ job' \in CleanUp /\ job'.started = job.started
      /\ job'.running = job.running
      /\ job'.todo \union job'.locked = job.todo \union job.locked
  BY <1>1 DEF CleanUp
<1>3. job.running
  BY <1>1 DEF IInv, TypeOK, Idle
<1>4. TypeOK'
  BY <1>1, <1>2, <1>3 DEF IInv, TypeOK
<1>5. QED
  BY <1>1, <1>2, <1>4 DEF IInv

(* The job ends, with what it removed or with what there was. *)
LEMMA EndIInv ==
  ASSUME IInv, FailForDirtySession \/ CommitCleanUp
  PROVE  IInv'
<1>1. /\ job' = Idle /\ now' = now /\ now \in Nat
      /\ request \in [Users -> SUBSET Nat]
  BY DEF FailForDirtySession, CommitCleanUp, IInv, TypeOK
<1>2. /\ request' \in [Users -> SUBSET Nat]
      /\ \A u \in Users : request'[u] \subseteq request[u]
  BY <1>1 DEF FailForDirtySession, CommitCleanUp
<1>3. Idle \in CleanUp /\ Idle.started = 0
      /\ Idle.todo = {} /\ Idle.locked = {}
  BY DEF Idle, CleanUp
<1>4. TypeOK'
  BY <1>1, <1>2, <1>3 DEF IInv, TypeOK
<1>5. QED
  BY <1>1, <1>3, <1>4 DEF IInv

(* Every step preserves the invariant. *)
LEMMA NextIInv ==
  ASSUME IInv, [Next]_vars
  PROVE  IInv'
<1>1. CASE UNCHANGED vars
  BY <1>1 DEF vars, IInv, TypeOK
<1>2. CASE Next
  BY <1>2, SetIInv, ClearIInv, TickIInv, StartIInv, RemoveIInv, EndIInv
     DEF Next, CleanUpStep
<1>3. QED
  BY <1>1, <1>2

(* The types, and that what the job found had expired or is younger than it. *)
THEOREM Invariance == Spec => []IInv
  BY InitIInv, NextIInv, PTL DEF Spec

(***************************************************************************)
(* The types: a clean-up that has ended leaves no list of users behind.    *)
(***************************************************************************)
THEOREM TypeCorrect == Spec => []TypeOK
<1>1. IInv => TypeOK
  BY DEF IInv
<1>2. QED
  BY <1>1, Invariance, PTL

(***************************************************************************)
(* Nobody loses a request that was there when the clean-up started and can *)
(* still be used.                                                          *)
(***************************************************************************)
THEOREM UsableRequestsAreKept == Spec => UsableRequestsStay
<1>1. IInv /\ [Next]_vars =>
        [\A u \in Users :
           \A c \in request[u] :
             (u \in job.locked /\ c < job.started /\ c \notin request'[u])
                => c + Expiry < now]_vars
  BY DEF IInv
<1>2. QED
  BY <1>1, Invariance, PTL DEF Spec, UsableRequestsStay
=============================================================================
