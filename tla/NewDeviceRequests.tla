------------------------- MODULE NewDeviceRequests -------------------------
(***************************************************************************)
(* The requests of users to add another device, and the job of the batch   *)
(* service that deletes the expired ones.                                  *)
(*                                                                         *)
(* A user has one request at most, which a new device reads till it is     *)
(* expired or cleared.  The job is one transaction: it looks for users     *)
(* with an expired request without a lock, then locks them one by one, and *)
(* removes the request each has.  Hibernate must not lock another user     *)
(* with changes pending in its session (clearSessionIfNotLockedYet).       *)
(***************************************************************************)
EXTENDS Integers

CONSTANTS
  Users,
  Expiry,    \* newDeviceRequestExpirationTime
  MaxTime    \* bound on the clock

ASSUME NewDeviceRequestsAssumption == Expiry \in Nat /\ MaxTime \in Nat

VARIABLES
  now,       \* the clock
  request,   \* request[u]: the creation time of the request of u, none or one
  job        \* the clean-up: what it found, and whom it locked

vars == <<now, request, job>>

CleanUp ==
  [running : BOOLEAN, started : Nat, todo : SUBSET Users,
   locked : SUBSET Users]

Idle == [running |-> FALSE, started |-> 0, todo |-> {}, locked |-> {}]

(***************************************************************************)
(* The types.  A user has one request, and one that is not running holds   *)
(* no locks.                                                               *)
(***************************************************************************)
TypeOK ==
  /\ now \in Nat
  /\ request \in [Users -> SUBSET Nat]
  /\ \A u \in Users : \A c, d \in request[u] : c = d
  /\ job \in CleanUp
  /\ ~job.running => job = Idle

Init ==
  /\ now = 0
  /\ request = [u \in Users |-> {}]
  /\ job = Idle

\* A new device cannot use the request any more.
IsExpired(u) == \E c \in request[u] : c + Expiry < now

----------------------------------------------------------------------------
(* The application service: each transaction locks the user first *)

\* Mutant: the existing request stays.
Added(u) == request[u] \union {now}

Renewed(u) == {now}

SetNewDeviceRequestForUser(u) ==
  /\ u \notin job.locked
  /\ request' = [request EXCEPT ![u] = Renewed(u)]
  /\ UNCHANGED <<now, job>>

ClearNewDeviceRequestForUser(u) ==
  /\ u \notin job.locked
  /\ request[u] # {}
  /\ request' = [request EXCEPT ![u] = {}]
  /\ UNCHANGED <<now, job>>

Tick ==
  /\ now < MaxTime
  /\ now' = now + 1
  /\ UNCHANGED <<request, job>>

----------------------------------------------------------------------------
(* The clean-up job *)

\* Mutant: the cut-off date itself counts.
UsersAtCutOffDate == {u \in Users : \E c \in request[u] : c <= now - Expiry}

UsersWithExpiredRequest == {u \in Users : \E c \in request[u] : c < now - Expiry}

DeleteAllExpiredRequests ==
  /\ ~job.running
  /\ job' = [running |-> TRUE, started |-> now,
             todo |-> UsersWithExpiredRequest, locked |-> {}]
  /\ UNCHANGED <<now, request>>

\* Mutant: the session is dirty from the start.
AlwaysDirty == TRUE

\* A request that was removed is to be written to the database.
IsDirty == \E u \in job.locked : request[u] # {}

\* The user is locked, and whatever request there is will be removed.
RemoveNewDeviceRequest(u) ==
  /\ u \in job.todo
  /\ ~IsDirty
  /\ job' = [job EXCEPT !.todo = @ \ {u}, !.locked = @ \union {u}]
  /\ UNCHANGED <<now, request>>

\* The exception rolls everything back.
FailForDirtySession ==
  /\ job.todo # {}
  /\ IsDirty
  /\ job' = Idle
  /\ UNCHANGED <<now, request>>

CommitCleanUp ==
  /\ job.running
  /\ job.todo = {}
  /\ request' = [u \in Users |-> IF u \in job.locked THEN {} ELSE request[u]]
  /\ job' = Idle
  /\ UNCHANGED now

CleanUpStep ==
  \/ DeleteAllExpiredRequests
  \/ \E u \in Users : RemoveNewDeviceRequest(u)
  \/ FailForDirtySession
  \/ CommitCleanUp

Next ==
  \/ \E u \in Users :
       \/ SetNewDeviceRequestForUser(u)
       \/ ClearNewDeviceRequestForUser(u)
  \/ Tick
  \/ CleanUpStep

Spec == Init /\ [][Next]_vars

\* The scheduler runs the job time and again.
FairSpec == Spec /\ WF_vars(CleanUpStep)

----------------------------------------------------------------------------
(* Properties *)

(***************************************************************************)
(* The job removes no request that was there when it started and can still *)
(* be used: what the query calls expired is what getNewDeviceRequestForUser*)
(* calls expired, and a request is not changed between the two.            *)
(***************************************************************************)
UsableRequestsStay ==
  [][\A u \in Users :
       \A c \in request[u] :
         (u \in job.locked /\ c < job.started /\ c \notin request'[u])
            => c + Expiry < now]_vars

(***************************************************************************)
(* An expired request does not stay, as long as no other user has one for  *)
(* good.                                                                   *)
(***************************************************************************)
LoneRequestIsDeleted ==
  \A u \in Users :
    <>[](\A v \in Users \ {u} : request[v] = {}) => []<>~IsExpired(u)

(***************************************************************************)
(* What the job is for: no expired request stays.                          *)
(***************************************************************************)
ExpiredRequestsAreDeleted == \A u \in Users : []<>~IsExpired(u)
=============================================================================
