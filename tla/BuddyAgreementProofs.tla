------------------------ MODULE BuddyAgreementProofs ------------------------
(***************************************************************************)
(* Proofs about BuddyRelation for users without any of the Habits: no two  *)
(* invite each other, nobody withdraws, answers twice or makes two         *)
(* requests at a time.  That is an assumption on users, not a check of the *)
(* code.  Then the rows and the messages of any two users agree in every   *)
(* state, however the requests of any number of users interleave.          *)
(*                                                                         *)
(* The inductive invariant Agreement speaks of two users at a time: of the *)
(* rows they have for each other and the messages they sent each other.    *)
(* A step changes these for one pair only, or for all pairs of one user;   *)
(* for the other pairs the Same... lemmas carry the invariant over.        *)
(***************************************************************************)
EXTENDS BuddyRelationProofs, FiniteSetTheorems

-----------------------------------------------------------------------------
(* The inductive invariant.                                                *)

\* What u has of w: rows, messages sent directly, messages in the box u reads.
RowsFor(u, w) == OfUser(buddies[u], w)
NamedFrom(u, w) == OfUser(named[u], w)
AnonymousFrom(u, w) == OfUser(anonymous[u], w)
BoxFrom(u, w) == NamedFrom(u, w) \cup AnonymousFrom(u, w)
ResponsesFrom(u, w) == Responses(AnonymousFrom(u, w))

\* A request that offers the links to accept and to reject.
IsOpen(m) == m.type = "request" /\ m.status = "REQUESTED"

HasDisconnect(u, w) == DisconnectMessage(w) \in NamedFrom(u, w)

\* There is one row at most, which is linked while it is accepted, nobody is
\* related to himself, and responses and disconnects are where they are sent to.
Regular(u, w) ==
  /\ \A q, r \in RowsFor(u, w) : q = r
  /\ \A r \in RowsFor(u, w) : r.linked <=> r.status = "ACCEPTED"
  /\ u = w => RowsFor(u, w) = {} /\ NamedFrom(u, w) = {} /\ AnonymousFrom(u, w) = {}
  /\ \A m \in NamedFrom(u, w) :
       /\ m.type # "response"
       /\ m.type = "disconnect" => m = DisconnectMessage(w)
  /\ \A m \in AnonymousFrom(u, w) :
       /\ m.type # "disconnect"
       /\ m.type = "response" => m.status # "REQUESTED"

\* A response in the box of u is the only one of w and for a pending row, also
\* when w has gone; a deleted user left no accepted row behind.
Answers(u, w) ==
  /\ \A m, n \in ResponsesFrom(u, w) : m = n
  /\ \A m \in ResponsesFrom(u, w) :
       \E r \in RowsFor(u, w) : r.id = m.buddy /\ r.status = "REQUESTED"
  /\ account[w] = "deleted" => \A r \in RowsFor(u, w) : r.status # "ACCEPTED"

\* A pending row of u for w is unanswered, answered or disconnected.
PendingRows(u, w) ==
  \A r \in RowsFor(u, w) : r.status = "REQUESTED" =>
    \/ \E m \in BoxFrom(w, u) : IsOpen(m) /\ m.buddy = r.id
    \/ ResponsesFrom(u, w) # {}
    \/ HasDisconnect(u, w)

\* A request of u that w can answer is of a pending row without any answer.
OpenRequests(u, w) ==
  \A m \in BoxFrom(w, u) : IsOpen(m) =>
    /\ \E r \in RowsFor(u, w) : r.id = m.buddy /\ r.status = "REQUESTED"
    /\ ResponsesFrom(u, w) = {}
    /\ ~HasDisconnect(u, w)

\* When w can answer, w has no row for u any more.  While the request is in the
\* named box, w may have one that the next preparation of w removes.
ReceivedRequests(u, w) ==
  /\ \A m \in AnonymousFrom(w, u) : IsOpen(m) =>
       /\ RowsFor(w, u) = {} /\ ~HasDisconnect(w, u)
       /\ \A n \in NamedFrom(w, u) : ~IsOpen(n)
  /\ \A m \in NamedFrom(w, u) : IsOpen(m) =>
       \/ RowsFor(w, u) = {}
       \/ HasDisconnect(w, u)
       \/ \E n \in ResponsesFrom(w, u) : n.status = "REJECTED"

\* An accepted row of u has its counterpart, or will have it after the response
\* of u is processed; and whoever sent an acceptance has an accepted row.
AcceptedRows(u, w) ==
  /\ \A r \in RowsFor(u, w) : r.status = "ACCEPTED" =>
       \E q \in RowsFor(w, u) :
         \/ q.status = "ACCEPTED"
         \/ q.status = "REQUESTED" /\ \E m \in ResponsesFrom(w, u) : m.status = "ACCEPTED"
  /\ \A m \in ResponsesFrom(u, w) : m.status = "ACCEPTED" =>
       \E q \in RowsFor(w, u) : q.status = "ACCEPTED"

\* A disconnected row has its disconnect.  Whoever sent one has no row left for
\* the receiver, or one whose request the receiver gets together with it.
Disconnects(u, w) ==
  /\ \A r \in RowsFor(u, w) : r.status = "REJECTED" => HasDisconnect(u, w)
  /\ HasDisconnect(u, w) =>
       /\ \A r \in RowsFor(u, w) : r.status # "ACCEPTED"
       /\ \A q \in RowsFor(w, u) :
            /\ q.status = "REQUESTED"
            /\ \E m \in NamedFrom(u, w) : IsOpen(m) /\ m.buddy = q.id

Agree(u, w) ==
  /\ PendingRows(u, w)
  /\ OpenRequests(u, w)
  /\ ReceivedRequests(u, w)
  /\ AcceptedRows(u, w)
  /\ Disconnects(u, w)

\* The rows of a user have different IDs.
IdsAreUnique ==
  \A u \in Users : \A q, r \in buddies[u] : q.id = r.id => q.user = r.user

\* One request of a user is served at a time.
OneRequestAtATime ==
  \A s, t \in Threads :
    request[s].user \in Users /\ request[s].user = request[t].user => s = t

\* While a request is served the user gets no row for the checked invitee, and
\* no disconnect of somebody the user has no row for.
ChecksHold(t, u) ==
  /\ request[t].stage = "checked" =>
       request[t].invitee \in Users \ {u} /\ RowsFor(u, request[t].invitee) = {}
  /\ \A w \in Active : HasDisconnect(u, w) => RowsFor(u, w) # {}

RequestsAreUpToDate ==
  \A t \in Threads, u \in Active : request[t].user = u => ChecksHold(t, u)

PairsAgree ==
  /\ \A u, w \in Users : Regular(u, w)
  /\ \A u \in Active, w \in Users : Answers(u, w)
  /\ \A u, w \in Active : Agree(u, w)

Agreement ==
  /\ IInv
  /\ IdsAreUnique
  /\ PairsAgree
  /\ OneRequestAtATime
  /\ RequestsAreUpToDate

\* Between its check and the invitation itself nobody is invited by the user
\* that is to be invited, and no invitation goes the other way.
NoCrossing ==
  \A u, v \in Users :
    IsInviting(u, v) => ~IsInvitedBy(u, v) /\ ~IsInviting(v, u)

-----------------------------------------------------------------------------
(* What the operators of the model return.                                 *)

\* The smaller one of two numbers.
LEMMA MinOfTwo ==
  ASSUME NEW a \in Nat, NEW b \in Nat, a <= b
  PROVE  Min({a, b}) = a /\ Min({b, a}) = a
<1>1. (CHOOSE x \in {a, b} : \A y \in {a, b} : x =< y) = a
  OBVIOUS
<1>2. (CHOOSE x \in {b, a} : \A y \in {b, a} : x =< y) = a
  OBVIOUS
<1> QED
  BY <1>1, <1>2 DEF Min

\* Of a set with one element at most, k are none or all of them.
LEMMA PickAllOrNone ==
  ASSUME NEW set, \A x, y \in set : x = y, NEW k \in {0, 1},
         NEW S \in SUBSET set, Cardinality(S) = Min({k, Cardinality(set)})
  PROVE  S = IF k = 0 THEN {} ELSE set
<1>1. Cardinality({}) = 0
  BY FS_EmptySet
<1>2. CASE set = {}
  BY <1>2
<1>3. CASE set # {}
  <2>1. PICK x \in set : set = {x}
    BY <1>3
  <2>2. Cardinality({x}) = 1
    BY FS_Singleton
  <2>3. Cardinality(S) = k
    BY <2>1, <2>2, MinOfTwo
  <2>4. S = {} \/ S = {x}
    BY <2>1
  <2> QED
    BY <1>1, <2>1, <2>2, <2>3, <2>4
<1> QED
  BY <1>2, <1>3

\* Picks takes none or all of what a user has one of at most.
LEMMA PicksOfUser ==
  ASSUME NEW set, NEW n, NEW S \in Picks(set, n), NEW v \in Users,
         \A x, y \in OfUser(set, v) : x = y, n[v] \in {0, 1}
  PROVE  OfUser(S, v) = IF n[v] = 0 THEN {} ELSE OfUser(set, v)
<1>1. OfUser(S, v) \in SUBSET OfUser(set, v)
  BY DEF Picks, OfUser
<1>2. Cardinality(OfUser(S, v)) = Min({n[v], Cardinality(OfUser(set, v))})
  BY DEF Picks
<1> QED
  BY <1>1, <1>2, PickAllOrNone

\* An accepted row.
LEMMA SetAcceptedRow ==
  ASSUME NEW r \in Row, r.status = "REQUESTED"
  PROVE  /\ SetAccepted(r).id = r.id /\ SetAccepted(r).user = r.user
         /\ SetAccepted(r).status = "ACCEPTED" /\ SetAccepted(r).linked
BY DEF SetAccepted, Row

\* A disconnected row.
LEMMA SetDisconnectedRow ==
  ASSUME NEW r \in Row
  PROVE  /\ SetDisconnected(r).id = r.id /\ SetDisconnected(r).user = r.user
         /\ SetDisconnected(r).status = "REJECTED" /\ ~SetDisconnected(r).linked
BY DEF SetDisconnected, Row

\* A row without response stays as it is.
LEMMA AnsweredByNone ==
  ASSUME NEW rows, NEW responses,
         \A r \in rows : \A m \in responses : m.buddy # r.id
  PROVE  Answered(rows, responses) = rows
BY DEF Answered, Rejects, Accepts

\* The rows for one user after responses are those for the user there were,
\* after the responses with their IDs.
LEMMA AnsweredOfUser ==
  ASSUME NEW rows \in SUBSET Row, NEW responses, NEW w
  PROVE  OfUser(Answered(rows, responses), w) = Answered(OfUser(rows, w), responses)
<1>1. \A r \in Row : SetAccepted(r).user = r.user
  BY DEF SetAccepted, Row
<1> QED
  BY <1>1 DEF Answered, OfUser

-----------------------------------------------------------------------------
(* Carrying the invariant over.                                            *)

\* What a user has of another one does not change.
Same(u, w) ==
  /\ RowsFor(u, w)' = RowsFor(u, w)
  /\ NamedFrom(u, w)' = NamedFrom(u, w)
  /\ AnonymousFrom(u, w)' = AnonymousFrom(u, w)

(* What concerns two users is regular as long as it stays the same. *)
LEMMA SameRegular ==
  ASSUME NEW u, NEW w, Same(u, w), Regular(u, w)
  PROVE  Regular(u, w)'
BY DEF Same, Regular

(* Rows that fit what is in the boxes do so as long as both stay the same. *)
LEMMA SameAnswers ==
  ASSUME NEW u, NEW w, Same(u, w), Answers(u, w),
         account'[w] = "deleted" => account[w] = "deleted"
  PROVE  Answers(u, w)'
BY DEF Same, Answers, ResponsesFrom

(* Two users agree as long as what concerns them stays the same. *)
LEMMA SameAgree ==
  ASSUME NEW u, NEW w, Same(u, w), Same(w, u), Agree(u, w)
  PROVE  Agree(u, w)'
BY DEF Same, Agree, PendingRows, OpenRequests, ReceivedRequests, AcceptedRows,
       Disconnects, ResponsesFrom, BoxFrom, HasDisconnect

\* A step that concerns a pair of users keeps the invariant of all pairs if it
\* keeps that of the pair.
LEMMA OnePair ==
  ASSUME PairsAgree, NEW u \in Users, NEW w \in Users, account' = account,
         \A x, y \in Users :
           ~(x = u /\ y = w) /\ ~(x = w /\ y = u) => Same(x, y),
         Regular(u, w)', Regular(w, u)',
         u \in Active => Answers(u, w)',
         w \in Active => Answers(w, u)',
         u \in Active /\ w \in Active => Agree(u, w)' /\ Agree(w, u)'
  PROVE  PairsAgree'
<1>1. Active' = Active
  BY DEF Active
<1>2. \A x, y \in Users : Regular(x, y)'
  BY SameRegular DEF PairsAgree
<1>3. \A x \in Active, y \in Users : Answers(x, y)'
  <2> SUFFICES ASSUME NEW x \in Active, NEW y \in Users
               PROVE  Answers(x, y)'
    OBVIOUS
  <2>1. x \in Users
    BY DEF Active
  <2> QED
    BY <2>1, SameAnswers DEF PairsAgree
<1>4. \A x, y \in Active : Agree(x, y)'
  <2> SUFFICES ASSUME NEW x \in Active, NEW y \in Active
               PROVE  Agree(x, y)'
    OBVIOUS
  <2>1. x \in Users /\ y \in Users
    BY DEF Active
  <2> QED
    BY <2>1, SameAgree DEF PairsAgree
<1> QED
  BY <1>1, <1>2, <1>3, <1>4 DEF PairsAgree

\* IDs stay unique when rows derive from rows.
LEMMA IdsStayUnique ==
  ASSUME IdsAreUnique,
         \A u \in Users : \A q \in buddies'[u] :
           \E r \in buddies[u] : q.id = r.id /\ q.user = r.user
  PROVE  IdsAreUnique'
BY DEF IdsAreUnique

\* After its step a thread is idle, and the other requests, which are of other
\* users, find what they have checked unchanged.
LEMMA RequestsStayUpToDate ==
  ASSUME OneRequestAtATime, RequestsAreUpToDate, TypeOK,
         NEW t \in Threads, NEW u \in Users, request[t].user = u, Done(t),
         Active' \subseteq Active,
         \A x \in Active' \ {u}, y \in Users : RowsFor(x, y) = {} => RowsFor(x, y)' = {},
         \A x \in Active' \ {u}, y \in Active' :
           HasDisconnect(x, y)' =>
             \/ HasDisconnect(x, y) /\ (RowsFor(x, y)' = {} => RowsFor(x, y) = {})
             \/ RowsFor(x, y)' # {}
  PROVE  OneRequestAtATime' /\ RequestsAreUpToDate'
<1>1. /\ request' = [request EXCEPT ![t] = Idle]
      /\ request \in [Threads -> Request]
      /\ Idle.user = NoUser /\ NoUser \notin Users
  BY BuddyRelationAssumption DEF Done, TypeOK, Idle
<1>2. \A s \in Threads : request'[s].user \in Users =>
        s # t /\ request'[s] = request[s] /\ request[s].user # u
  BY <1>1 DEF OneRequestAtATime
<1>3. OneRequestAtATime'
  BY <1>1, <1>2 DEF OneRequestAtATime
<1>4. ASSUME NEW s \in Threads, NEW x \in Active', request'[s].user = x
      PROVE  ChecksHold(s, x)'
  <2>1. x \in Users /\ x \in Active
    BY DEF Active
  <2>2. request'[s] = request[s] /\ x # u
    BY <1>2, <1>4, <2>1
  <2>3. ChecksHold(s, x)
    BY <1>4, <2>1, <2>2 DEF RequestsAreUpToDate
  <2>4. request[s].stage = "checked" =>
          /\ request[s].invitee \in Users \ {x}
          /\ RowsFor(x, request[s].invitee)' = {}
    BY <2>2, <2>3 DEF ChecksHold
  <2>5. \A y \in Active' : HasDisconnect(x, y)' => RowsFor(x, y)' # {}
    BY <2>2, <2>3 DEF ChecksHold
  <2> QED
    BY <2>2, <2>4, <2>5 DEF ChecksHold
<1> QED
  BY <1>3, <1>4 DEF RequestsAreUpToDate

-----------------------------------------------------------------------------
(* The steps.                                                              *)

\* The parts of the invariant that say something of one pair.
LEMMA PairFacts ==
  ASSUME Agreement, NEW u \in Active, NEW w \in Active
  PROVE  /\ u \in Users /\ w \in Users
         /\ Regular(u, w) /\ Answers(u, w) /\ Agree(u, w)
         /\ PendingRows(u, w) /\ OpenRequests(u, w) /\ ReceivedRequests(u, w)
         /\ AcceptedRows(u, w) /\ Disconnects(u, w)
BY DEF Agreement, PairsAgree, Agree, Active

\* Nobody has any rows and messages in the beginning.
LEMMA InitAgreement == Init => Agreement
<1> SUFFICES ASSUME Init PROVE Agreement
  OBVIOUS
<1>1. IInv
  BY InitIInv
<1>2. \A u, w \in Users :
        RowsFor(u, w) = {} /\ NamedFrom(u, w) = {} /\ AnonymousFrom(u, w) = {}
  BY DEF Init, RowsFor, NamedFrom, AnonymousFrom, OfUser
<1>3. \A u, w \in Users : Regular(u, w) /\ Answers(u, w) /\ Agree(u, w)
  BY <1>2 DEF Regular, Answers, Agree, PendingRows, OpenRequests, ReceivedRequests,
              AcceptedRows, Disconnects, ResponsesFrom, Responses, BoxFrom, HasDisconnect
<1>4. PairsAgree
  BY <1>3 DEF PairsAgree, Active
<1>5. \A t \in Threads : request[t].user \notin Users
  BY BuddyRelationAssumption DEF Init, Idle
<1>6. IdsAreUnique /\ OneRequestAtATime /\ RequestsAreUpToDate
  BY <1>5 DEF Init, IdsAreUnique, OneRequestAtATime, RequestsAreUpToDate, Active
<1> QED
  BY <1>1, <1>4, <1>6 DEF Agreement

\* Nothing is checked a second time when the invitation is made: what MayInvite
\* says of users at the check lasts until then, as no invitation comes in
\* between that does not go the other way.
LEMMA NextNoCrossing ==
  ASSUME TypeOK, "cross" \notin Habits, NoCrossing, [Next]_vars
  PROVE  NoCrossing'
<1>1. ASSUME NEW t \in Threads, NEW u \in Users, NEW v \in Users, AssertValidBuddy(t, u, v)
      PROVE  NoCrossing'
  <2>1. /\ ~IsInvitedBy(u, v) /\ ~IsInviting(v, u) /\ u # v
        /\ request' = [request EXCEPT ![t].stage = "checked", ![t].invitee = v]
        /\ request[t].user = u
        /\ UNCHANGED <<named, anonymous>>
    BY <1>1 DEF AssertValidBuddy, MayInvite, Serves
  <2>2. \A x, y \in Users : IsInvitedBy(x, y)' <=> IsInvitedBy(x, y)
    BY <2>1 DEF IsInvitedBy, Box
  <2>3. \A x, y \in Users : IsInviting(x, y)' => IsInviting(x, y) \/ (x = u /\ y = v)
    BY <2>1 DEF IsInviting, TypeOK
  <2> QED
    BY <2>1, <2>2, <2>3 DEF NoCrossing
<1>2. ASSUME NEW t \in Threads, NEW u \in Users, NEW v \in Users,
             HandleBuddyRequest(t, u, v)
      PROVE  NoCrossing'
  <2>1. /\ request[t].user = u /\ request[t].stage = "checked" /\ request[t].invitee = v
        /\ named' = [named EXCEPT ![v] = @ \cup {RequestMessage(u)}]
        /\ request' = [request EXCEPT ![t] = Idle]
        /\ UNCHANGED anonymous
    BY <1>2 DEF HandleBuddyRequest, Serves, Done
  <2>2. IsInviting(u, v)
    BY <2>1 DEF IsInviting
  <2>3. \A x, y \in Users : IsInviting(x, y)' => IsInviting(x, y)
    BY <2>1 DEF IsInviting, TypeOK, Idle
  <2>4. \A x, y \in Users :
          IsInvitedBy(x, y)' => IsInvitedBy(x, y) \/ (x = v /\ y = u)
    BY <2>1 DEF IsInvitedBy, Box, RequestMessage, TypeOK
  <2> QED
    BY <2>2, <2>3, <2>4 DEF NoCrossing
<1>3. ASSUME \A t \in Threads : request'[t] = request[t] \/ request'[t].stage # "checked",
             \A x \in Users : \A m \in Box(x)' : IsOpen(m) => m \in Box(x)
      PROVE  NoCrossing'
  <2>1. \A x, y \in Users : IsInviting(x, y)' => IsInviting(x, y)
    BY <1>3 DEF IsInviting
  <2>2. \A x, y \in Users : IsInvitedBy(x, y)' => IsInvitedBy(x, y)
    BY <1>3 DEF IsInvitedBy, IsOpen
  <2> QED
    BY <2>1, <2>2 DEF NoCrossing
<1>4. ASSUME NEW t \in Threads, Done(t),
             \A x \in Users : \A m \in Box(x)' : IsOpen(m) => m \in Box(x)
      PROVE  NoCrossing'
  BY <1>3, <1>4 DEF Done, TypeOK, Idle
<1>5. ASSUME NEW t \in Threads, NEW u \in Users, Prepare(t, u)
      PROVE  NoCrossing'
  <2>1. /\ request' = [request EXCEPT ![t] =
                         [user |-> u, stage |-> "prepared", invitee |-> NoUser]]
        /\ named' = [named EXCEPT ![u] = {}]
    BY <1>5 DEF Prepare
  <2>2. anonymous' = [x \in Users |->
          IF x = u THEN {m \in AnonymousAfterForget(u) \cup NamedAfterForget(u) :
                           m.type = "request"}
          ELSE IF x \in EstablishedGone(buddies[u]) THEN NotFrom(anonymous[x], {u})
          ELSE anonymous[x]]
    BY <1>5 DEF Prepare
  <2>3. \A x \in Users : Box(x)' \subseteq Box(x)
    BY <2>1, <2>2 DEF Box, TypeOK, NotFrom, AnonymousAfterForget, NamedAfterForget
  <2> QED
    BY <1>3, <2>1, <2>3 DEF TypeOK
<1>6. ASSUME NEW t \in Threads, NEW u \in Users, NEW m \in anonymous[u],
             Accept(t, u, m) \/ Reject(t, u, m)
      PROVE  NoCrossing'
  <2>1. PICK status \in {"ACCEPTED", "REJECTED"} :
          /\ anonymous' = [anonymous EXCEPT
               ![u] = WithStatus(@, m, status),
               ![m.user] = @ \cup {ResponseMessage(u, m.buddy, status)}]
          /\ Done(t) /\ UNCHANGED named
    BY <1>6 DEF Accept, Reject
  <2>2. m \in Message
    BY DEF TypeOK
  <2>3. /\ ~IsOpen([m EXCEPT !.status = status])
        /\ ~IsOpen(ResponseMessage(u, m.buddy, status))
    BY <2>2 DEF IsOpen, Message, ResponseMessage
  <2>4. \A x \in Users : \A n \in Box(x)' : IsOpen(n) => n \in Box(x)
    BY <2>1, <2>2, <2>3 DEF Box, WithStatus, TypeOK, Message
  <2> QED
    BY <1>4, <2>1, <2>4
<1>7. ASSUME NEW t \in Threads, NEW u \in Users, NEW m \in anonymous[u],
             DeleteMessage(t, u, m)
      PROVE  NoCrossing'
  <2>1. \A x \in Users : Box(x)' \subseteq Box(x)
    BY <1>7 DEF DeleteMessage, Box, TypeOK
  <2> QED
    BY <1>4, <1>7, <2>1 DEF DeleteMessage
<1>8. \A u \in Users : ~IsOpen(DisconnectMessage(u))
  BY DEF IsOpen, DisconnectMessage
<1>9. ASSUME NEW t \in Threads, NEW u \in Users, NEW r \in buddies[u],
             RemoveBuddy(t, u, r)
      PROVE  NoCrossing'
  <2>0. PICK pending :
          LET dropped == {q \in Answered(buddies[u], pending) : q.id = r.id}
              strangers == BuddyUsers({q \in dropped : q.linked})
          IN \E told :
               /\ named' = [NamedAfterDrop(u, {r.user}, told) EXCEPT
                              ![u] = NotFrom(@, strangers)]
               /\ anonymous' = [AnonymousAfterDrop(u, dropped) EXCEPT
                                  ![u] = NotFrom(@ \ pending, strangers)]
    BY <1>9 DEF RemoveBuddy
  <2>1. PICK dropped, strangers, told :
          /\ named' = [NamedAfterDrop(u, {r.user}, told) EXCEPT
                         ![u] = NotFrom(@, strangers)]
          /\ anonymous' = [AnonymousAfterDrop(u, dropped) EXCEPT
                             ![u] = NotFrom(@ \ pending, strangers)]
    BY <2>0
  <2>2. \A x \in Users : \A n \in named'[x] : IsOpen(n) => n \in named[x]
    BY <1>8, <2>1 DEF NamedAfterDrop, NotFrom, TypeOK
  <2>3. \A x \in Users : anonymous'[x] \subseteq anonymous[x]
    BY <2>1 DEF AnonymousAfterDrop, NotFrom, TypeOK
  <2>4. \A x \in Users : \A n \in Box(x)' : IsOpen(n) => n \in Box(x)
    BY <2>2, <2>3 DEF Box
  <2> QED
    BY <1>4, <1>9, <2>4 DEF RemoveBuddy
<1>10. ASSUME NEW t \in Threads, NEW u \in Users, DeleteUser(t, u)
       PROVE  NoCrossing'
  <2>0. PICK pending :
          LET rows == Answered(buddies[u], pending)
              dropped == rows \ RelatedToRemovedUsers(rows)
          IN \E lost \in Disconnections(u, dropped), told \in Told(dropped) :
               /\ buddies' = [RowsAfterDrop(lost) EXCEPT ![u] = {}]
               /\ named' = [NamedAfterDrop(u, BuddyUsers(dropped), told) EXCEPT ![u] = {}]
               /\ anonymous' = [v \in Users |->
                    IF v = u THEN {}
                    ELSE IF v \in EstablishedGone(rows) THEN NotFrom(anonymous[v], {u})
                    ELSE AnonymousAfterDrop(u, dropped)[v]]
    BY <1>10 DEF DeleteUser
  <2> DEFINE rows == Answered(buddies[u], pending)
             dropped == rows \ RelatedToRemovedUsers(rows)
  <2>1. PICK told :
          /\ named' = [NamedAfterDrop(u, BuddyUsers(dropped), told) EXCEPT ![u] = {}]
          /\ anonymous' = [x \in Users |->
               IF x = u THEN {}
               ELSE IF x \in EstablishedGone(rows) THEN NotFrom(anonymous[x], {u})
               ELSE AnonymousAfterDrop(u, dropped)[x]]
    BY <2>0
  <2> HIDE DEF rows, dropped
  <2>2. \A x \in Users : \A n \in named'[x] : IsOpen(n) => n \in named[x]
    BY <1>8, <2>1 DEF NamedAfterDrop, NotFrom, TypeOK
  <2>3. \A x \in Users : anonymous'[x] \subseteq anonymous[x]
    BY <2>1 DEF AnonymousAfterDrop, NotFrom, TypeOK
  <2>4. \A x \in Users : \A n \in Box(x)' : IsOpen(n) => n \in Box(x)
    BY <2>2, <2>3 DEF Box
  <2> QED
    BY <1>4, <1>10, <2>4 DEF DeleteUser
<1>11. CASE \E t \in Threads : EndRequest(t)
  <2>1. UNCHANGED <<named, anonymous>>
    BY <1>11 DEF EndRequest
  <2>2. \A x \in Users : Box(x)' = Box(x)
    BY <2>1 DEF Box
  <2> QED
    BY <1>4, <1>11, <2>2 DEF EndRequest, Done
<1>12. CASE (\E u \in Users : OverwriteUser(u)) \/ UNCHANGED vars
  <2>1. UNCHANGED <<request, named, anonymous>>
    BY <1>12 DEF OverwriteUser, vars
  <2>2. \A x \in Users : Box(x)' = Box(x)
    BY <2>1 DEF Box
  <2> QED
    BY <1>3, <2>1, <2>2
<1> QED
  BY <1>1, <1>2, <1>5, <1>6, <1>7, <1>9, <1>10, <1>11, <1>12 DEF Next, RequestStep

\* Without the habit cross, no two invitations cross.
THEOREM NoneCross ==
  ASSUME "cross" \notin Habits
  PROVE  Spec => []NoCrossing
<1>1. Init => NoCrossing
  BY DEF Init, NoCrossing, IsInviting, Idle
<1>2. TypeOK /\ NoCrossing /\ [Next]_vars => NoCrossing'
  BY NextNoCrossing
<1> QED
  BY <1>1, <1>2, TypeCorrect, PTL DEF Spec

\* An invitation.  The inviting user has no row for the invited one, so that one
\* has none that will stay for the inviting one.
LEMMA HandleBuddyRequestAgreement ==
  ASSUME Agreement, NoCrossing, NEW t \in Threads, NEW u \in Users, NEW v \in Users,
         HandleBuddyRequest(t, u, v)
  PROVE  Agreement'
<1> DEFINE row == NewRow(v, "REQUESTED")
           message == RequestMessage(u)
<1>0. IInv /\ TypeOK /\ IInv'
  BY HandleBuddyRequestIInv DEF Agreement, IInv
<1>1. /\ request[t].user = u /\ request[t].stage = "checked" /\ request[t].invitee = v
      /\ u \in Active /\ v \in Active
      /\ created < MaxBuddies
      /\ buddies' = [buddies EXCEPT ![u] = @ \cup {row}]
      /\ named' = [named EXCEPT ![v] = @ \cup {message}]
      /\ Done(t)
      /\ UNCHANGED <<account, anonymous>>
  BY DEF HandleBuddyRequest, Serves, Active
<1>2. u # v /\ RowsFor(u, v) = {} /\ ~HasDisconnect(u, v)
  BY <1>1 DEF Agreement, RequestsAreUpToDate, ChecksHold
<1>3. /\ row \in Row /\ row.id = created + 1 /\ row.user = v /\ row.status = "REQUESTED"
      /\ ~row.linked
      /\ \A w \in Users : \A r \in buddies[w] : r.id # row.id
  <2>1. \A w \in Users : \A r \in buddies[w] : r.id \in Nat /\ r.id <= created
    BY <1>0, <1>1, NewRowIsNew
  <2>2. /\ row \in Row /\ row.id = created + 1 /\ row.user = v
        /\ row.status = "REQUESTED" /\ created \in Nat
    BY <1>0, <1>1, NewRowIsNew
  <2>3. ~row.linked
    BY DEF NewRow
  <2> QED
    BY <2>1, <2>2, <2>3
<1>4. /\ message.type = "request" /\ message.user = u /\ IsOpen(message)
      /\ message.buddy = row.id
  BY <1>3 DEF RequestMessage, IsOpen
<1>5. \A m \in BoxFrom(u, v) : ~IsOpen(m)
  <2>1. ~IsInvitedBy(u, v)
    BY <1>1 DEF NoCrossing, IsInviting
  <2> QED
    BY <2>1 DEF IsInvitedBy, IsOpen, BoxFrom, NamedFrom, AnonymousFrom, OfUser, Box
<1> HIDE DEF row, message
<1>6. /\ RowsFor(u, v)' = {row} /\ RowsFor(v, u)' = RowsFor(v, u)
      /\ NamedFrom(v, u)' = NamedFrom(v, u) \cup {message}
      /\ NamedFrom(u, v)' = NamedFrom(u, v)
      /\ AnonymousFrom(u, v)' = AnonymousFrom(u, v)
      /\ AnonymousFrom(v, u)' = AnonymousFrom(v, u)
  <2>1. RowsFor(u, v)' = RowsFor(u, v) \cup {row}
    BY <1>0, <1>1, <1>3 DEF RowsFor, OfUser, TypeOK
  <2>2. NamedFrom(v, u)' = NamedFrom(v, u) \cup {message}
    BY <1>0, <1>1, <1>4 DEF NamedFrom, OfUser, TypeOK
  <2> QED
    BY <1>0, <1>1, <1>2, <2>1, <2>2
       DEF RowsFor, NamedFrom, AnonymousFrom, OfUser, TypeOK
<1>7. \A x, y \in Users : ~(x = u /\ y = v) /\ ~(x = v /\ y = u) => Same(x, y)
  BY <1>0, <1>1, <1>3, <1>4
     DEF Same, RowsFor, NamedFrom, AnonymousFrom, OfUser, TypeOK
<1>8. /\ Regular(u, v) /\ Regular(v, u) /\ Answers(u, v) /\ Answers(v, u)
      /\ PendingRows(v, u) /\ OpenRequests(u, v) /\ AcceptedRows(v, u)
      /\ Disconnects(v, u)
  BY <1>1, PairFacts
<1>9. ResponsesFrom(u, v) = {}
  BY <1>2, <1>8 DEF Answers
<1>10. \A m \in BoxFrom(v, u) : ~IsOpen(m)
  BY <1>2, <1>8 DEF OpenRequests
<1>11. /\ ResponsesFrom(u, v)' = ResponsesFrom(u, v)
       /\ ResponsesFrom(v, u)' = ResponsesFrom(v, u)
       /\ BoxFrom(u, v)' = BoxFrom(u, v)
       /\ BoxFrom(v, u)' = BoxFrom(v, u) \cup {message}
       /\ HasDisconnect(u, v)' = HasDisconnect(u, v)
       /\ HasDisconnect(v, u)' = HasDisconnect(v, u)
  <2>1. DisconnectMessage(u) # message
    BY <1>4 DEF DisconnectMessage
  <2> QED
    BY <1>6, <2>1 DEF ResponsesFrom, BoxFrom, HasDisconnect
<1>12. /\ Regular(u, v)' /\ Regular(v, u)' /\ Answers(u, v)' /\ Answers(v, u)'
  <2>1. Regular(u, v)' /\ Regular(v, u)'
    BY <1>2, <1>3, <1>4, <1>6, <1>8 DEF Regular
  <2>2. Answers(u, v)' /\ Answers(v, u)'
    BY <1>1, <1>3, <1>6, <1>8, <1>9, <1>11 DEF Answers
  <2> QED
    BY <2>1, <2>2
\* Whatever the invited user has for the inviting one is doomed.
<1>13. \A q \in RowsFor(v, u) :
         \/ HasDisconnect(v, u)
         \/ \E n \in ResponsesFrom(v, u) : n.status = "REJECTED"
  <2> SUFFICES ASSUME NEW q \in RowsFor(v, u)
               PROVE  \/ HasDisconnect(v, u)
                      \/ \E n \in ResponsesFrom(v, u) : n.status = "REJECTED"
    OBVIOUS
  <2>1. q.status \in {"REQUESTED", "ACCEPTED", "REJECTED"}
    BY <1>0, <1>1 DEF RowsFor, OfUser, TypeOK, Row
  <2>2. q.status # "ACCEPTED"
    BY <1>2, <1>8 DEF AcceptedRows
  <2>3. CASE q.status = "REJECTED"
    BY <1>8, <2>3 DEF Disconnects
  <2>4. CASE q.status = "REQUESTED"
    <3>1. ResponsesFrom(v, u) # {} \/ HasDisconnect(v, u)
      BY <1>5, <1>8, <2>4 DEF PendingRows
    <3>2. \A n \in ResponsesFrom(v, u) : n.status = "REJECTED"
      <4> SUFFICES ASSUME NEW n \in ResponsesFrom(v, u) PROVE n.status = "REJECTED"
        OBVIOUS
      <4>1. n \in Message /\ n \in AnonymousFrom(v, u) /\ n.type = "response"
        BY <1>0 DEF ResponsesFrom, Responses, AnonymousFrom, OfUser, TypeOK
      <4>2. n.status # "REQUESTED"
        BY <1>8, <4>1 DEF Regular
      <4>3. n.status # "ACCEPTED"
        BY <1>2, <1>8 DEF AcceptedRows
      <4> QED
        BY <4>1, <4>2, <4>3 DEF Message
    <3> QED
      BY <3>1, <3>2
  <2> QED
    BY <2>1, <2>2, <2>3, <2>4
<1>14. Agree(u, v)'
  <2>1. PendingRows(u, v)'
    BY <1>4, <1>6, <1>11 DEF PendingRows
  <2>2. OpenRequests(u, v)'
    BY <1>2, <1>3, <1>4, <1>6, <1>9, <1>10, <1>11 DEF OpenRequests
  <2>3. ReceivedRequests(u, v)'
    BY <1>6, <1>10, <1>11, <1>13 DEF ReceivedRequests, BoxFrom
  <2>4. AcceptedRows(u, v)'
    BY <1>3, <1>6, <1>9, <1>11 DEF AcceptedRows
  <2>5. Disconnects(u, v)'
    BY <1>2, <1>3, <1>6, <1>11 DEF Disconnects
  <2> QED
    BY <2>1, <2>2, <2>3, <2>4, <2>5 DEF Agree
<1>15. Agree(v, u)'
  <2>1. PendingRows(v, u)'
    BY <1>6, <1>8, <1>11 DEF PendingRows
  <2>2. OpenRequests(v, u)'
    BY <1>5, <1>11 DEF OpenRequests
  <2>3. ReceivedRequests(v, u)'
    BY <1>5, <1>6 DEF ReceivedRequests, BoxFrom
  <2>4. AcceptedRows(v, u)'
    BY <1>2, <1>6, <1>8, <1>11 DEF AcceptedRows
  <2>5. Disconnects(v, u)'
    BY <1>3, <1>4, <1>6, <1>8, <1>11 DEF Disconnects
  <2> QED
    BY <2>1, <2>2, <2>3, <2>4, <2>5 DEF Agree
<1>16. PairsAgree'
  BY <1>1, <1>7, <1>12, <1>14, <1>15, OnePair DEF Agreement
<1>17. IdsAreUnique'
  BY <1>0, <1>1, <1>3 DEF Agreement, IdsAreUnique, TypeOK
<1>18. OneRequestAtATime' /\ RequestsAreUpToDate'
  <2>1. Active' = Active /\ \A x \in Active : x \in Users
    BY <1>1 DEF Active
  <2>2. \A x \in Active \ {u}, y \in Users : RowsFor(x, y)' = RowsFor(x, y)
    BY <1>6, <1>7, <2>1 DEF Same
  <2>3. \A x \in Active \ {u}, y \in Active : HasDisconnect(x, y)' = HasDisconnect(x, y)
    BY <1>7, <1>11, <2>1 DEF Same, HasDisconnect
  <2> QED
    BY <1>0, <1>1, <2>1, <2>2, <2>3, RequestsStayUpToDate DEF Agreement
<1> QED
  BY <1>0, <1>16, <1>17, <1>18 DEF Agreement

\* What u and w have after u answered the request m of w: answered is the
\* request as it is then, response the response to it.
AnswersRequest(u, w, m, answered, response) ==
  /\ AnonymousFrom(u, w)' = (AnonymousFrom(u, w) \ {m}) \cup {answered}
  /\ AnonymousFrom(w, u)' = AnonymousFrom(w, u) \cup {response}
  /\ NamedFrom(u, w)' = NamedFrom(u, w)
  /\ NamedFrom(w, u)' = NamedFrom(w, u)
  /\ RowsFor(w, u)' = RowsFor(w, u)
  /\ \A x, y \in Users : ~(x = u /\ y = w) /\ ~(x = w /\ y = u) => Same(x, y)

\* The change of the boxes in Accept and Reject.
PutsAnswer(u, w, m, answered, response) ==
  anonymous' = [anonymous EXCEPT
    ![u] = (@ \ {m}) \cup {answered}, ![w] = @ \cup {response}]

\* The effect of an answer on the boxes.
LEMMA AnswerEffect ==
  ASSUME TypeOK, NEW u \in Users, NEW w \in Users, u # w,
         NEW m \in anonymous[u], m.type = "request", m.user = w,
         NEW status \in {"ACCEPTED", "REJECTED"},
         NEW answered, answered = [m EXCEPT !.status = status],
         NEW response, response = ResponseMessage(u, m.buddy, status),
         PutsAnswer(u, w, m, answered, response),
         named' = named,
         \A x, y \in Users : ~(x = u /\ y = w) => RowsFor(x, y)' = RowsFor(x, y)
  PROVE  /\ answered.type = "request" /\ answered.status = status
         /\ response.type = "response" /\ response.status = status
         /\ response.buddy = m.buddy
         /\ AnswersRequest(u, w, m, answered, response)
<1>1. m \in Message
  BY DEF TypeOK
<1>2. /\ answered.type = "request" /\ answered.user = w
      /\ response.type = "response" /\ response.status = status
      /\ response.user = u /\ response.buddy = m.buddy
  BY <1>1, AnswerTyped
<1>3. answered.status = status
  BY <1>1 DEF Message
<1>4. /\ AnonymousFrom(u, w)' = (AnonymousFrom(u, w) \ {m}) \cup {answered}
      /\ AnonymousFrom(w, u)' = AnonymousFrom(w, u) \cup {response}
  BY <1>1, <1>2 DEF PutsAnswer, AnonymousFrom, OfUser, TypeOK
<1>5. \A x, y \in Users : ~(x = u /\ y = w) /\ ~(x = w /\ y = u) =>
        AnonymousFrom(x, y)' = AnonymousFrom(x, y)
  BY <1>1, <1>2 DEF PutsAnswer, AnonymousFrom, OfUser, TypeOK
<1>6. \A x, y \in Users : NamedFrom(x, y)' = NamedFrom(x, y)
  BY DEF NamedFrom
<1> QED
  BY <1>2, <1>3, <1>4, <1>5, <1>6 DEF AnswersRequest, Same

\* An answer keeps the invariant of the pair, if the one who answers has a new
\* accepted row exactly when the request is accepted.  The sender's row is then
\* answered, and there is no other request it could be accepted by.
LEMMA AnswerAgreement ==
  ASSUME Agreement, NEW u \in Active, NEW w \in Active, u # w,
         NEW m \in AnonymousFrom(u, w), IsOpen(m),
         NEW status \in {"ACCEPTED", "REJECTED"},
         NEW answered, answered.type = "request", answered.status = status,
         NEW response, response.type = "response", response.status = status,
         response.buddy = m.buddy,
         AnswersRequest(u, w, m, answered, response), account' = account,
         status = "REJECTED" => RowsFor(u, w)' = RowsFor(u, w),
         status = "ACCEPTED" =>
           \E row : RowsFor(u, w)' = {row} /\ row.status = "ACCEPTED"
  PROVE  /\ Answers(u, w)' /\ Answers(w, u)'
         /\ Agree(u, w)' /\ Agree(w, u)'
<1>1. /\ Regular(u, w) /\ Regular(w, u) /\ Answers(u, w) /\ Answers(w, u)
      /\ OpenRequests(w, u) /\ ReceivedRequests(w, u) /\ OpenRequests(u, w)
  BY PairFacts
<1>2. RowsFor(u, w) = {} /\ ~HasDisconnect(u, w) /\ \A n \in NamedFrom(u, w) : ~IsOpen(n)
  BY <1>1 DEF ReceivedRequests
<1>3. PICK r \in RowsFor(w, u) : r.id = m.buddy /\ r.status = "REQUESTED"
  BY <1>1 DEF OpenRequests, BoxFrom
<1>4. ResponsesFrom(w, u) = {} /\ ~HasDisconnect(w, u)
  BY <1>1 DEF OpenRequests, BoxFrom
<1>5. ResponsesFrom(u, w) = {}
  BY <1>1, <1>2 DEF Answers
<1>6. \A q \in RowsFor(w, u) : q = r
  BY <1>1 DEF Regular
<1>7. \A n \in AnonymousFrom(u, w) : IsOpen(n) => n = m
  <2> SUFFICES ASSUME NEW n \in AnonymousFrom(u, w), IsOpen(n) PROVE n = m
    OBVIOUS
  <2>1. n.buddy = m.buddy
    BY <1>1, <1>3, <1>6 DEF OpenRequests, BoxFrom
  <2>2. u \in Users
    BY DEF Active
  <2>3. n \in Message /\ m \in Message /\ n.user = w /\ m.user = w
    BY <2>2 DEF AnonymousFrom, OfUser, Agreement, IInv, TypeOK
  <2> QED
    BY <2>1, <2>3 DEF Message, IsOpen
<1>8. \A n \in BoxFrom(w, u) : ~IsOpen(n)
  BY <1>1, <1>2 DEF OpenRequests
<1>9. /\ RowsFor(w, u)' = RowsFor(w, u)
      /\ HasDisconnect(u, w)' = HasDisconnect(u, w)
      /\ HasDisconnect(w, u)' = HasDisconnect(w, u)
      /\ ResponsesFrom(u, w)' = {}
      /\ ResponsesFrom(w, u)' = {response}
      /\ \A n \in BoxFrom(u, w)' : ~IsOpen(n)
      /\ \A n \in BoxFrom(w, u)' : ~IsOpen(n)
  <2>1. ~IsOpen(answered) /\ ~IsOpen(response)
    BY DEF IsOpen
  <2>2. ResponsesFrom(u, w)' = {} /\ ResponsesFrom(w, u)' = {response}
    BY <1>4, <1>5 DEF AnswersRequest, ResponsesFrom, Responses
  <2> QED
    BY <1>2, <1>7, <1>8, <2>1, <2>2 DEF AnswersRequest, HasDisconnect, BoxFrom
<1>10. Active' = Active /\ account[u] = "active" /\ account[w] = "active"
  BY DEF Active
<1>11. Answers(u, w)' /\ Answers(w, u)'
  BY <1>3, <1>9, <1>10 DEF Answers
<1>12. Agree(u, w)'
  <2>1. \A q \in RowsFor(u, w)' : q.status = "ACCEPTED" /\ status = "ACCEPTED"
    BY <1>2
  <2>2. PendingRows(u, w)' /\ OpenRequests(u, w)' /\ ReceivedRequests(u, w)'
    BY <1>9, <2>1 DEF PendingRows, OpenRequests, ReceivedRequests, BoxFrom
  <2>3. AcceptedRows(u, w)'
    BY <1>3, <1>9, <2>1 DEF AcceptedRows
  <2>4. Disconnects(u, w)'
    BY <1>2, <1>9, <2>1 DEF Disconnects
  <2> QED
    BY <2>2, <2>3, <2>4 DEF Agree
<1>13. Agree(w, u)'
  <2>1. \A q \in RowsFor(w, u)' : q.status = "REQUESTED"
    BY <1>3, <1>6, <1>9
  <2>2. PendingRows(w, u)' /\ OpenRequests(w, u)' /\ ReceivedRequests(w, u)'
    BY <1>9 DEF PendingRows, OpenRequests, ReceivedRequests, BoxFrom
  <2>3. AcceptedRows(w, u)'
    BY <1>9, <2>1 DEF AcceptedRows
  <2>4. Disconnects(w, u)'
    BY <1>4, <1>9, <2>1 DEF Disconnects
  <2> QED
    BY <2>2, <2>3, <2>4 DEF Agree
<1> QED
  BY <1>11, <1>12, <1>13

\* An acceptance.
LEMMA AcceptAgreement ==
  ASSUME Agreement, Habits = {}, NEW t \in Threads, NEW u \in Users, NEW m \in anonymous[u],
         Accept(t, u, m)
  PROVE  Agreement'
<1> DEFINE w == m.user
           row == NewRow(w, "ACCEPTED")
           answered == [m EXCEPT !.status = "ACCEPTED"]
           response == ResponseMessage(u, m.buddy, "ACCEPTED")
<1>0. IInv /\ TypeOK /\ IInv'
  BY AcceptIInv DEF Agreement, IInv
<1>1. /\ request[t].user = u /\ u \in Active /\ w \in Active
      /\ m.type = "request" /\ m.status = "REQUESTED"
      /\ created < MaxBuddies
      /\ buddies' = [buddies EXCEPT ![u] = @ \cup {row}]
      /\ PutsAnswer(u, w, m, answered, response)
      /\ Done(t)
      /\ UNCHANGED <<account, named>>
  <2>1. m.user \in Users
    BY <1>0 DEF TypeOK, Message
  <2> QED
    BY <2>1 DEF Accept, Serves, Active, MayAnswer, WithStatus, PutsAnswer
<1>2. w \in Users /\ m \in AnonymousFrom(u, w) /\ IsOpen(m)
  BY <1>1 DEF AnonymousFrom, OfUser, IsOpen, Active
<1>3. u # w
  BY <1>2 DEF Agreement, PairsAgree, Regular
<1>4. /\ row.id = created + 1 /\ row.user = w /\ row.status = "ACCEPTED" /\ row.linked
      /\ \A x \in Users : \A r \in buddies[x] : r.id # row.id
  <2>1. \A x \in Users : \A r \in buddies[x] : r.id \in Nat /\ r.id <= created
    BY <1>0, <1>1, <1>2, NewRowIsNew
  <2>2. row.id = created + 1 /\ row.user = w /\ row.status = "ACCEPTED" /\ created \in Nat
    BY <1>0, <1>1, <1>2, NewRowIsNew
  <2>3. row.linked
    BY DEF NewRow
  <2> QED
    BY <2>1, <2>2, <2>3
<1> HIDE DEF w, row
<1>5. \A x, y \in Users :
        RowsFor(x, y)' = IF x = u /\ y = w THEN RowsFor(x, y) \cup {row} ELSE RowsFor(x, y)
  BY <1>0, <1>1, <1>4 DEF RowsFor, OfUser, TypeOK
<1>6. /\ answered.type = "request" /\ answered.status = "ACCEPTED"
      /\ response.type = "response" /\ response.status = "ACCEPTED"
      /\ response.buddy = m.buddy
      /\ AnswersRequest(u, w, m, answered, response)
  <2>1. "ACCEPTED" \in {"ACCEPTED", "REJECTED"} /\ m.user = w
    BY DEF w
  <2>2. \A x, y \in Users : ~(x = u /\ y = w) => RowsFor(x, y)' = RowsFor(x, y)
    BY <1>5
  <2> HIDE DEF answered, response
  <2>3. answered = [m EXCEPT !.status = "ACCEPTED"]
        /\ response = ResponseMessage(u, m.buddy, "ACCEPTED")
    BY DEF answered, response
  <2> QED
    BY <1>0, <1>1, <1>2, <1>3, <2>1, <2>2, <2>3, AnswerEffect
<1> HIDE DEF answered, response
<1>7. RowsFor(u, w)' = {row}
  <2>1. ReceivedRequests(w, u)
    BY <1>1, PairFacts
  <2>2. RowsFor(u, w) = {}
    BY <1>2, <2>1 DEF ReceivedRequests
  <2> QED
    BY <1>2, <1>5, <2>2
<1>8. /\ Answers(u, w)' /\ Answers(w, u)' /\ Agree(u, w)' /\ Agree(w, u)'
  BY <1>1, <1>2, <1>3, <1>4, <1>6, <1>7, AnswerAgreement
<1>9. Regular(u, w)' /\ Regular(w, u)'
  <2>1. Regular(u, w) /\ Regular(w, u)
    BY <1>2 DEF Agreement, PairsAgree
  <2> QED
    BY <1>3, <1>4, <1>6, <1>7, <2>1 DEF Regular, AnswersRequest
<1>10. PairsAgree'
  BY <1>1, <1>2, <1>6, <1>8, <1>9, OnePair DEF Agreement, AnswersRequest
<1>11. IdsAreUnique'
  BY <1>0, <1>1, <1>4 DEF Agreement, IdsAreUnique, TypeOK
<1>12. OneRequestAtATime' /\ RequestsAreUpToDate'
  <2>1. Active' = Active /\ \A x \in Active : x \in Users
    BY <1>1 DEF Active
  <2>2. \A x \in Active \ {u}, y \in Users : RowsFor(x, y)' = RowsFor(x, y)
    BY <1>5, <2>1
  <2>3. \A x \in Active \ {u}, y \in Active : HasDisconnect(x, y)' = HasDisconnect(x, y)
    BY <1>6, <2>1 DEF Same, HasDisconnect, AnswersRequest
  <2> QED
    BY <1>0, <1>1, <2>1, <2>2, <2>3, RequestsStayUpToDate, SMTT(30) DEF Agreement
<1> QED
  BY <1>0, <1>10, <1>11, <1>12 DEF Agreement

\* A rejection.  The sender may have been overwritten.
LEMMA RejectAgreement ==
  ASSUME Agreement, Habits = {}, NEW t \in Threads, NEW u \in Users, NEW m \in anonymous[u],
         Reject(t, u, m)
  PROVE  Agreement'
<1> DEFINE w == m.user
           answered == [m EXCEPT !.status = "REJECTED"]
           response == ResponseMessage(u, m.buddy, "REJECTED")
<1>0. IInv /\ TypeOK /\ IInv'
  BY RejectIInv DEF Agreement, IInv
<1>1. /\ request[t].user = u /\ u \in Active /\ w \in Users
      /\ m.type = "request" /\ m.status = "REQUESTED"
      /\ PutsAnswer(u, w, m, answered, response)
      /\ Done(t)
      /\ UNCHANGED <<account, buddies, named>>
  <2>1. m.user \in Users
    BY <1>0 DEF TypeOK, Message
  <2> QED
    BY <2>1 DEF Reject, MayAnswer, Serves, Active, WithStatus, PutsAnswer
<1>2. m \in AnonymousFrom(u, w) /\ IsOpen(m)
  BY <1>1 DEF AnonymousFrom, OfUser, IsOpen
<1>3. u # w
  BY <1>1, <1>2 DEF Agreement, PairsAgree, Regular
<1>4. \A x, y \in Users : RowsFor(x, y)' = RowsFor(x, y)
  BY <1>1 DEF RowsFor
<1>5. "REJECTED" \in {"ACCEPTED", "REJECTED"} /\ m.user = w
  BY DEF w
<1> HIDE DEF w, answered, response
<1>6. /\ answered.type = "request" /\ answered.status = "REJECTED"
      /\ response.type = "response" /\ response.status = "REJECTED"
      /\ response.buddy = m.buddy
      /\ AnswersRequest(u, w, m, answered, response)
  <2>1. answered = [m EXCEPT !.status = "REJECTED"]
        /\ response = ResponseMessage(u, m.buddy, "REJECTED")
    BY DEF answered, response
  <2> QED
    BY <1>0, <1>1, <1>2, <1>3, <1>4, <1>5, <2>1, AnswerEffect
<1>7. Regular(u, w)' /\ Regular(w, u)'
  <2>1. Regular(u, w) /\ Regular(w, u)
    BY <1>1 DEF Agreement, PairsAgree
  <2> QED
    BY <1>1, <1>3, <1>4, <1>6, <2>1 DEF Regular, AnswersRequest
<1>8. ASSUME w \in Active
      PROVE  PairsAgree'
  <2>1. /\ Answers(u, w)' /\ Answers(w, u)' /\ Agree(u, w)' /\ Agree(w, u)'
    BY <1>1, <1>2, <1>3, <1>4, <1>5, <1>6, <1>8, AnswerAgreement
  <2> QED
    BY <1>1, <1>6, <1>7, <2>1, OnePair DEF Agreement, AnswersRequest
<1>9. ASSUME w \notin Active
      PROVE  PairsAgree'
  <2>1. ResponsesFrom(u, w)' = ResponsesFrom(u, w)
    BY <1>1, <1>6 DEF AnswersRequest, ResponsesFrom, Responses
  <2>2. Answers(u, w)'
    BY <1>1, <1>4, <2>1 DEF Answers, Agreement, PairsAgree
  <2> QED
    BY <1>1, <1>6, <1>7, <1>9, <2>2, OnePair DEF Agreement, AnswersRequest
<1>10. PairsAgree'
  BY <1>8, <1>9
<1>11. IdsAreUnique'
  BY <1>1 DEF Agreement, IdsAreUnique
<1>12. OneRequestAtATime' /\ RequestsAreUpToDate'
  <2>1. Active' = Active /\ \A x \in Active : x \in Users
    BY <1>1 DEF Active
  <2>2. \A x \in Active \ {u}, y \in Users : RowsFor(x, y)' = RowsFor(x, y)
    BY <1>4, <2>1
  <2>3. \A x \in Active \ {u}, y \in Active : HasDisconnect(x, y)' = HasDisconnect(x, y)
    BY <1>6, <2>1 DEF Same, HasDisconnect, AnswersRequest
  <2> QED
    BY <1>0, <1>1, <2>1, <2>2, <2>3, RequestsStayUpToDate DEF Agreement
<1> QED
  BY <1>0, <1>10, <1>11, <1>12 DEF Agreement

\* Deleting an answered request changes nothing that matters.
LEMMA DeleteMessageAgreement ==
  ASSUME Agreement, NEW t \in Threads, NEW u \in Users, NEW m \in anonymous[u],
         DeleteMessage(t, u, m)
  PROVE  Agreement'
<1> DEFINE w == m.user
<1>0. IInv /\ TypeOK /\ IInv'
  BY DeleteMessageIInv DEF Agreement, IInv
<1>1. /\ request[t].user = u /\ u \in Active /\ w \in Users
      /\ m.type = "request" /\ ~IsOpen(m)
      /\ anonymous' = [anonymous EXCEPT ![u] = @ \ {m}]
      /\ Done(t)
      /\ UNCHANGED <<account, buddies, named>>
  <2>1. m.user \in Users
    BY <1>0 DEF TypeOK, Message
  <2> QED
    BY <2>1 DEF DeleteMessage, Serves, Active, IsOpen
<1>2. /\ \A x, y \in Users : RowsFor(x, y)' = RowsFor(x, y)
      /\ \A x, y \in Users : NamedFrom(x, y)' = NamedFrom(x, y)
      /\ \A x, y \in Users : ~(x = u /\ y = w) =>
           AnonymousFrom(x, y)' = AnonymousFrom(x, y)
      /\ AnonymousFrom(u, w)' = AnonymousFrom(u, w) \ {m}
  BY <1>0, <1>1 DEF RowsFor, NamedFrom, AnonymousFrom, OfUser, TypeOK
<1>3. u # w
  <2>1. m \in AnonymousFrom(u, w)
    BY DEF AnonymousFrom, OfUser
  <2> QED
    BY <1>1, <2>1 DEF Agreement, PairsAgree, Regular
<1> HIDE DEF w
<1>4. /\ \A x, y \in Users : ResponsesFrom(x, y)' = ResponsesFrom(x, y)
      /\ \A x, y \in Users : HasDisconnect(x, y)' = HasDisconnect(x, y)
      /\ BoxFrom(w, u)' = BoxFrom(w, u)
      /\ BoxFrom(u, w)' \subseteq BoxFrom(u, w)
      /\ \A n \in BoxFrom(u, w) : IsOpen(n) => n \in BoxFrom(u, w)'
  <2>1. ResponsesFrom(u, w)' = ResponsesFrom(u, w)
    BY <1>1, <1>2 DEF ResponsesFrom, Responses
  <2>2. \A x, y \in Users : ~(x = u /\ y = w) =>
          ResponsesFrom(x, y)' = ResponsesFrom(x, y)
    BY <1>2 DEF ResponsesFrom
  <2> QED
    BY <1>1, <1>2, <1>3, <2>1, <2>2 DEF HasDisconnect, BoxFrom
<1>5. Regular(u, w)' /\ Regular(w, u)'
  <2>1. Regular(u, w) /\ Regular(w, u)
    BY <1>1 DEF Agreement, PairsAgree
  <2> QED
    BY <1>1, <1>2, <1>3, <2>1 DEF Regular
<1>6. /\ u \in Active => Answers(u, w)'
      /\ w \in Active => Answers(w, u)'
  BY <1>1, <1>2, <1>4 DEF Agreement, PairsAgree, Answers
<1>7. ASSUME w \in Active
      PROVE  Agree(u, w)' /\ Agree(w, u)'
  <2>1. Agree(u, w) /\ Agree(w, u)
    BY <1>1, <1>7, PairFacts
  <2>2. /\ PendingRows(u, w)' /\ OpenRequests(u, w)' /\ AcceptedRows(u, w)'
        /\ PendingRows(w, u)' /\ OpenRequests(w, u)' /\ AcceptedRows(w, u)'
    BY <1>1, <1>2, <1>4, <2>1 DEF Agree, PendingRows, OpenRequests, AcceptedRows
  <2>3. /\ ReceivedRequests(u, w)' /\ Disconnects(u, w)'
        /\ ReceivedRequests(w, u)' /\ Disconnects(w, u)'
    BY <1>1, <1>2, <1>3, <1>4, <2>1 DEF Agree, ReceivedRequests, Disconnects
  <2> QED
    BY <2>2, <2>3 DEF Agree
<1>8. PairsAgree'
  <2>1. \A x, y \in Users : ~(x = u /\ y = w) /\ ~(x = w /\ y = u) => Same(x, y)
    BY <1>2 DEF Same
  <2> QED
    BY <1>1, <1>5, <1>6, <1>7, <2>1, OnePair DEF Agreement
<1>9. IdsAreUnique'
  BY <1>1 DEF Agreement, IdsAreUnique
<1>10. OneRequestAtATime' /\ RequestsAreUpToDate'
  <2>1. Active' = Active /\ \A x \in Active : x \in Users
    BY <1>1 DEF Active
  <2> QED
    BY <1>0, <1>1, <1>2, <1>4, <2>1, RequestsStayUpToDate DEF Agreement
<1> QED
  BY <1>0, <1>8, <1>9, <1>10 DEF Agreement

\* A step that leaves rows and messages alone, and brings back no account.
LEMMA SamePairsAgree ==
  ASSUME PairsAgree, UNCHANGED <<buddies, named, anonymous>>, Active' \subseteq Active,
         \A u \in Users : account'[u] = "deleted" => account[u] = "deleted"
  PROVE  /\ PairsAgree'
         /\ \A u, w \in Users : Same(u, w)
<1>1. \A u, w \in Users : Same(u, w)
  BY DEF Same, RowsFor, NamedFrom, AnonymousFrom
<1>2. \A u \in Active' : u \in Users /\ u \in Active
  BY DEF Active
<1>3. \A u, w \in Users : Regular(u, w)'
  BY <1>1, SameRegular DEF PairsAgree
<1>4. \A u \in Active', w \in Users : Answers(u, w)'
  BY <1>1, <1>2, SameAnswers DEF PairsAgree
<1>5. \A u, w \in Active' : Agree(u, w)'
  BY <1>1, <1>2, SameAgree DEF PairsAgree
<1> QED
  BY <1>1, <1>3, <1>4, <1>5 DEF PairsAgree

\* The check of an invitation.
LEMMA AssertValidBuddyAgreement ==
  ASSUME Agreement, NEW t \in Threads, NEW u \in Users, NEW v \in Users,
         AssertValidBuddy(t, u, v)
  PROVE  Agreement'
<1>0. IInv /\ TypeOK /\ IInv'
  BY OtherStepsIInv DEF Agreement, IInv
<1>1. /\ request[t].user = u /\ u \in Active /\ v # u
      /\ \A r \in buddies[u] : r.user # v
      /\ request' = [request EXCEPT ![t].stage = "checked", ![t].invitee = v]
      /\ UNCHANGED <<account, buddies, named, anonymous>>
  BY DEF AssertValidBuddy, Serves, Active
<1>2. Active' = Active
  BY <1>1 DEF Active
<1>3. PairsAgree' /\ \A x, y \in Users : Same(x, y)
  BY <1>1, <1>2, SamePairsAgree DEF Agreement
<1>4. /\ \A s \in Threads \ {t} : request'[s] = request[s]
      /\ request'[t].user = u /\ request'[t].invitee = v
  BY <1>0, <1>1 DEF TypeOK, Request
<1>5. OneRequestAtATime'
  <2>1. \A s \in Threads : request'[s].user = request[s].user
    BY <1>1, <1>4
  <2> QED
    BY <2>1 DEF Agreement, OneRequestAtATime
<1>6. ASSUME NEW s \in Threads, NEW x \in Active, request'[s].user = x
      PROVE  ChecksHold(s, x)'
  <2>1. x \in Users /\ request[s].user = x
    BY <1>1, <1>4, <1>6 DEF Active
  <2>2. ChecksHold(s, x)
    BY <2>1 DEF Agreement, RequestsAreUpToDate
  <2>3. \A y \in Users : RowsFor(x, y)' = RowsFor(x, y)
                          /\ HasDisconnect(x, y)' = HasDisconnect(x, y)
    BY <1>3, <2>1 DEF Same, HasDisconnect
  <2>4. \A y \in Active : y \in Users
    BY DEF Active
  <2>5. CASE s = t
    <3>1. RowsFor(u, v) = {} /\ x = u
      BY <1>1, <2>1, <2>5 DEF RowsFor, OfUser
    <3> QED
      BY <1>1, <1>2, <1>4, <2>2, <2>3, <2>4, <2>5, <3>1 DEF ChecksHold
  <2>6. CASE s # t
    BY <1>2, <1>4, <2>2, <2>3, <2>4, <2>6 DEF ChecksHold
  <2> QED
    BY <2>5, <2>6
<1>7. RequestsAreUpToDate'
  BY <1>2, <1>6 DEF RequestsAreUpToDate
<1>8. IdsAreUnique'
  BY <1>1 DEF Agreement, IdsAreUnique
<1> QED
  BY <1>0, <1>3, <1>5, <1>7, <1>8 DEF Agreement

\* The other steps that leave rows and messages alone.
LEMMA OtherStepsAgreement ==
  ASSUME Agreement,
         \/ \E t \in Threads : EndRequest(t)
         \/ \E u \in Users : OverwriteUser(u)
         \/ UNCHANGED vars
  PROVE  Agreement'
<1>0. IInv /\ TypeOK /\ IInv'
  BY OtherStepsIInv DEF Agreement, IInv
<1>1. UNCHANGED <<buddies, named, anonymous>>
  BY DEF EndRequest, OverwriteUser, vars
<1>2. /\ Active' \subseteq Active
      /\ \A u \in Users : account'[u] = "deleted" => account[u] = "deleted"
  BY <1>0 DEF EndRequest, OverwriteUser, vars, Active, TypeOK
<1>3. PairsAgree' /\ \A x, y \in Users : Same(x, y)
  BY <1>1, <1>2, SamePairsAgree DEF Agreement
<1>4. \A s \in Threads : request'[s] = request[s] \/ request'[s].user \notin Users
  BY <1>0, BuddyRelationAssumption DEF EndRequest, OverwriteUser, vars, TypeOK, Idle
<1>5. OneRequestAtATime'
  BY <1>4 DEF Agreement, OneRequestAtATime
<1>6. ASSUME NEW s \in Threads, NEW x \in Active', request'[s].user = x
      PROVE  ChecksHold(s, x)'
  <2>1. x \in Users /\ x \in Active /\ request'[s] = request[s]
    BY <1>2, <1>4, <1>6 DEF Active
  <2>2. ChecksHold(s, x)
    BY <1>6, <2>1 DEF Agreement, RequestsAreUpToDate
  <2>3. \A y \in Users : RowsFor(x, y)' = RowsFor(x, y)
                          /\ HasDisconnect(x, y)' = HasDisconnect(x, y)
    BY <1>3, <2>1 DEF Same, HasDisconnect
  <2>4. \A y \in Active' : y \in Users /\ y \in Active
    BY <1>2 DEF Active
  <2> QED
    BY <2>1, <2>2, <2>3, <2>4 DEF ChecksHold
<1>7. RequestsAreUpToDate'
  BY <1>6 DEF RequestsAreUpToDate
<1>8. IdsAreUnique'
  BY <1>1 DEF Agreement, IdsAreUnique
<1> QED
  BY <1>0, <1>3, <1>5, <1>7, <1>8 DEF Agreement

\* What the responses of w in the box of u make of the row of u for w.
LEMMA AnsweredRow ==
  ASSUME TypeOK, NEW u \in Users, NEW w \in Users, Regular(u, w), Answers(u, w),
         NEW after, after = Answered(RowsFor(u, w), ResponsesFrom(u, w))
  PROVE  /\ ResponsesFrom(u, w) = {} => after = RowsFor(u, w)
         /\ \A m \in ResponsesFrom(u, w) :
              /\ m.type = "response" /\ m.status \in {"ACCEPTED", "REJECTED"}
              /\ m.status = "REJECTED" => after = {}
              /\ m.status = "ACCEPTED" =>
                   \E q : /\ after = {q} /\ q.id = m.buddy /\ q.user = w
                          /\ q.status = "ACCEPTED" /\ q.linked
<1>1. RowsFor(u, w) \in SUBSET Row /\ \A r \in RowsFor(u, w) : r.user = w
  BY DEF TypeOK, RowsFor, OfUser
<1>2. ASSUME ResponsesFrom(u, w) = {}
      PROVE  after = RowsFor(u, w)
  BY <1>2, AnsweredByNone
<1>3. ASSUME NEW m \in ResponsesFrom(u, w)
      PROVE  /\ m.type = "response" /\ m.status \in {"ACCEPTED", "REJECTED"}
             /\ m.status = "REJECTED" => after = {}
             /\ m.status = "ACCEPTED" =>
                  \E q : /\ after = {q} /\ q.id = m.buddy /\ q.user = w
                         /\ q.status = "ACCEPTED" /\ q.linked
  <2>1. m \in Message /\ m.type = "response" /\ m \in AnonymousFrom(u, w)
    BY DEF TypeOK, ResponsesFrom, Responses, AnonymousFrom, OfUser
  <2>2. m.status \in {"ACCEPTED", "REJECTED"}
    BY <2>1 DEF Message, Regular
  <2>3. PICK r \in RowsFor(u, w) : r.id = m.buddy /\ r.status = "REQUESTED"
    BY DEF Answers
  <2>4. RowsFor(u, w) = {r} /\ ResponsesFrom(u, w) = {m}
    BY <2>3 DEF Answers, Regular
  <2>5. after = {IF Accepts(m, r) THEN SetAccepted(r) ELSE r :
                   x \in {q \in {r} : ~Rejects(m, q)}}
    BY <2>4 DEF Answered
  <2>6. CASE m.status = "REJECTED"
    BY <2>1, <2>2, <2>3, <2>5, <2>6 DEF Rejects
  <2>7. CASE m.status = "ACCEPTED"
    <3>1. after = {SetAccepted(r)}
      BY <2>3, <2>5, <2>7 DEF Rejects, Accepts
    <3>2. /\ SetAccepted(r).id = r.id /\ SetAccepted(r).user = r.user
          /\ SetAccepted(r).status = "ACCEPTED" /\ SetAccepted(r).linked
      BY <1>1, <2>3, SetAcceptedRow
    <3> QED
      BY <1>1, <2>1, <2>2, <2>3, <2>7, <3>1, <3>2
  <2> QED
    BY <2>1, <2>2, <2>6, <2>7
<1> QED
  BY <1>2, <1>3

\* One row at most is left of one row, whatever the responses.
LEMMA AnsweredAtMostOne ==
  ASSUME NEW rows, \A q, r \in rows : q = r, NEW responses
  PROVE  \A q, r \in Answered(rows, responses) : q = r
BY DEF Answered

\* Responses that concern the same rows have the same effect.
LEMMA AnsweredBySame ==
  ASSUME NEW rows, NEW P, NEW Q,
         \A r \in rows : \A m \in P : m.buddy = r.id => m \in Q,
         \A r \in rows : \A m \in Q : m.buddy = r.id => m \in P
  PROVE  Answered(rows, P) = Answered(rows, Q)
<1>1. \A r \in rows :
        /\ (\E m \in P : Accepts(m, r)) <=> (\E m \in Q : Accepts(m, r))
        /\ (\E m \in P : Rejects(m, r)) <=> (\E m \in Q : Rejects(m, r))
  BY DEF Accepts, Rejects
<1> QED
  BY <1>1 DEF Answered

\* The responses in the anonymous box of u to a row of u for w are of w.
LEMMA ResponsesAreFrom ==
  ASSUME IInv, NEW u \in Users, NEW w \in Users,
         NEW r \in RowsFor(u, w), NEW m \in Responses(anonymous[u]), m.buddy = r.id
  PROVE  m \in ResponsesFrom(u, w)
<1>1. m \in Box(u) /\ m.type = "response" /\ r \in buddies[u] /\ r.user = w
  BY DEF Responses, Box, RowsFor, OfUser
<1>2. \A q \in buddies[u] : q.id = m.buddy => q.user = m.user
  BY <1>1 DEF IInv, MessagesAreWanted, MessageIsWanted
<1>3. m.user = w
  BY <1>1, <1>2
<1> QED
  BY <1>1, <1>3 DEF ResponsesFrom, Responses, AnonymousFrom, OfUser

\* The preparation brings the rows up to date, and moves the requests.
LEMMA PrepareEffect ==
  ASSUME Agreement, NEW t \in Threads, NEW u \in Users, Prepare(t, u)
  PROVE  /\ \A w \in Active :
              /\ RowsFor(u, w)' = IF HasDisconnect(u, w) THEN {}
                                  ELSE Answered(RowsFor(u, w), ResponsesFrom(u, w))
              /\ AnonymousFrom(u, w)' = {m \in BoxFrom(u, w) : m.type = "request"}
         /\ \A w \in Users \ Active :
              /\ RowsFor(u, w)' = {}
              /\ AnonymousFrom(u, w)' \subseteq {m \in BoxFrom(u, w) : m.type = "request"}
         /\ \A w \in Users : NamedFrom(u, w)' = {}
         /\ \A x \in Users \ {u}, y \in Users :
              /\ RowsFor(x, y)' = RowsFor(x, y) /\ NamedFrom(x, y)' = NamedFrom(x, y)
              /\ AnonymousFrom(x, y)' \subseteq AnonymousFrom(x, y)
              /\ x \in Active => AnonymousFrom(x, y)' = AnonymousFrom(x, y)
<1> DEFINE box == AnonymousAfterForget(u) \cup NamedAfterForget(u)
           rows == buddies[u] \ RelatedToRemovedUsers(buddies[u])
           parted == {m.user : m \in {n \in box : n.type = "disconnect"}}
           gone == EstablishedGone(buddies[u])
           unheard == AnsweredGone(buddies[u], anonymous[u])
<1>0. IInv /\ TypeOK
  BY DEF Agreement, IInv
<1>1. PICK dropped \in Picks(Answered(rows, Responses(box)), OneOf(parted)) :
        buddies' = [buddies EXCEPT ![u] = Answered(rows, Responses(box)) \ dropped]
  BY DEF Prepare
<1>2. /\ anonymous' = [v \in Users |->
             IF v = u THEN {m \in box : m.type = "request"}
             ELSE IF v \in gone THEN NotFrom(anonymous[v], {u})
             ELSE anonymous[v]]
      /\ named' = [named EXCEPT ![u] = {}]
  BY DEF Prepare
<1>3. /\ box = (NotFrom(anonymous[u], gone \cup unheard)) \cup NotFrom(named[u], gone)
      /\ gone \cap Active = {} /\ unheard \cap Active = {}
  BY DEF AnonymousAfterForget, NamedAfterForget, EstablishedGone, AnsweredGone,
         RelatedToRemovedUsers, AcceptedBuddies, Active
<1>4. rows \in SUBSET Row /\ \A r \in buddies[u] : r \in rows <=> r.user \in Active
  BY <1>0 DEF TypeOK, RelatedToRemovedUsers, Active, Row
<1>5. \A w \in Active : w \in Users
  BY DEF Active
<1> HIDE DEF box, rows, parted, gone, unheard
<1>6. \A w \in Users : OfUser(box, w) \subseteq BoxFrom(u, w)
  BY <1>3 DEF OfUser, NotFrom, BoxFrom, NamedFrom, AnonymousFrom
<1>7. \A w \in Active : OfUser(box, w) = BoxFrom(u, w)
  BY <1>3 DEF OfUser, NotFrom, BoxFrom, NamedFrom, AnonymousFrom
<1>8. ASSUME NEW w \in Active
      PROVE  RowsFor(u, w)' = IF HasDisconnect(u, w) THEN {}
                              ELSE Answered(RowsFor(u, w), ResponsesFrom(u, w))
  <2>1. OfUser(rows, w) = RowsFor(u, w)
    BY <1>4 DEF OfUser, RowsFor, rows
  <2>2. Responses(box) \subseteq Responses(anonymous[u])
    <3>1. \A m \in named[u] : m.type # "response"
      <4> SUFFICES ASSUME NEW m \in named[u] PROVE m.type # "response"
        OBVIOUS
      <4>1. m.user \in Users
        BY <1>0 DEF TypeOK, Message
      <4>2. m \in NamedFrom(u, m.user)
        BY DEF NamedFrom, OfUser
      <4> QED
        BY <4>1, <4>2 DEF Agreement, PairsAgree, Regular
    <3> QED
      BY <1>3, <3>1 DEF Responses, NotFrom
  <2>3. ResponsesFrom(u, w) \subseteq Responses(box)
    BY <1>7 DEF ResponsesFrom, Responses, BoxFrom, OfUser
  <2>4. Answered(RowsFor(u, w), Responses(box)) = Answered(RowsFor(u, w), ResponsesFrom(u, w))
    <3>1. \A r \in RowsFor(u, w) : \A m \in Responses(box) :
            m.buddy = r.id => m \in ResponsesFrom(u, w)
      BY <1>0, <1>5, <2>2, ResponsesAreFrom
    <3> QED
      BY <2>3, <3>1, AnsweredBySame
  <2>5. OfUser(Answered(rows, Responses(box)), w)
          = Answered(RowsFor(u, w), ResponsesFrom(u, w))
    BY <1>4, <2>1, <2>4, AnsweredOfUser
  <2>6. w \in parted <=> HasDisconnect(u, w)
    <3>1. \A m \in BoxFrom(u, w) : m.type = "disconnect" => m = DisconnectMessage(w)
                                    /\ m \in NamedFrom(u, w)
      BY <1>5 DEF Agreement, PairsAgree, Regular, BoxFrom
    <3>2. DisconnectMessage(w).type = "disconnect" /\ DisconnectMessage(w).user = w
      BY DEF DisconnectMessage
    <3>3. w \in parted <=> \E m \in OfUser(box, w) : m.type = "disconnect"
      BY DEF parted, OfUser
    <3> QED
      BY <1>7, <3>1, <3>2, <3>3 DEF HasDisconnect, BoxFrom
  <2>7. OfUser(dropped, w) = IF HasDisconnect(u, w)
                              THEN OfUser(Answered(rows, Responses(box)), w) ELSE {}
    <3>1. OneOf(parted)[w] = IF HasDisconnect(u, w) THEN 1 ELSE 0
      BY <1>5, <2>6 DEF OneOf
    <3>2. \A q, r \in RowsFor(u, w) : q = r
      BY <1>5 DEF Agreement, PairsAgree, Regular
    <3>3. \A q, r \in OfUser(Answered(rows, Responses(box)), w) : q = r
      BY <2>5, <3>2, AnsweredAtMostOne
    <3> QED
      BY <1>5, <3>1, <3>3, PicksOfUser
  <2>8. RowsFor(u, w)' = OfUser(Answered(rows, Responses(box)), w) \ OfUser(dropped, w)
    BY <1>0, <1>1 DEF RowsFor, OfUser, TypeOK
  <2> QED
    BY <2>5, <2>7, <2>8
<1>9. ASSUME NEW w \in Users \ Active
      PROVE  RowsFor(u, w)' = {}
  <2>1. \A q \in Answered(rows, Responses(box)) : q.user # w
    <3>1. OfUser(rows, w) = {}
      BY <1>4 DEF OfUser, rows
    <3>2. OfUser(Answered(rows, Responses(box)), w) = Answered({}, Responses(box))
      BY <1>4, <3>1, AnsweredOfUser, ZenonT(60)
    <3>3. Answered({}, Responses(box)) = {}
      BY DEF Answered
    <3> QED
      BY <3>2, <3>3 DEF OfUser
  <2> QED
    BY <1>0, <1>1, <2>1 DEF RowsFor, OfUser, TypeOK
<1>10. /\ \A w \in Active :
            AnonymousFrom(u, w)' = {m \in BoxFrom(u, w) : m.type = "request"}
       /\ \A w \in Users :
            AnonymousFrom(u, w)' \subseteq {m \in BoxFrom(u, w) : m.type = "request"}
  <2>1. anonymous'[u] = {m \in box : m.type = "request"}
    BY <1>2
  <2> QED
    BY <1>6, <1>7, <2>1 DEF AnonymousFrom, OfUser
<1>11. \A w \in Users : NamedFrom(u, w)' = {}
  BY <1>0, <1>2 DEF NamedFrom, OfUser, TypeOK
<1>12. \A x \in Users \ {u}, y \in Users :
         /\ RowsFor(x, y)' = RowsFor(x, y) /\ NamedFrom(x, y)' = NamedFrom(x, y)
         /\ AnonymousFrom(x, y)' \subseteq AnonymousFrom(x, y)
         /\ x \in Active => AnonymousFrom(x, y)' = AnonymousFrom(x, y)
  BY <1>0, <1>1, <1>2, <1>3
     DEF RowsFor, NamedFrom, AnonymousFrom, OfUser, NotFrom, TypeOK
<1> QED
  BY <1>8, <1>9, <1>10, <1>11, <1>12

\* The rows and messages of a pair still agree after the preparation of u.
LEMMA PreparePair ==
  ASSUME Agreement, NEW u \in Active, NEW w \in Active, u # w,
         RowsFor(u, w)' = IF HasDisconnect(u, w) THEN {}
                          ELSE Answered(RowsFor(u, w), ResponsesFrom(u, w)),
         AnonymousFrom(u, w)' = {m \in BoxFrom(u, w) : m.type = "request"},
         NamedFrom(u, w)' = {},
         Same(w, u)
  PROVE  Agree(u, w)' /\ Agree(w, u)'
<1> DEFINE after == Answered(RowsFor(u, w), ResponsesFrom(u, w))
<1>1. /\ TypeOK /\ u \in Users /\ w \in Users
      /\ Regular(u, w) /\ Answers(u, w)
      /\ PendingRows(u, w) /\ OpenRequests(u, w) /\ ReceivedRequests(u, w)
      /\ AcceptedRows(u, w) /\ Disconnects(u, w)
      /\ PendingRows(w, u) /\ OpenRequests(w, u) /\ ReceivedRequests(w, u)
      /\ AcceptedRows(w, u) /\ Disconnects(w, u)
  BY PairFacts DEF Agreement, IInv
<1>2. /\ ResponsesFrom(u, w) = {} => after = RowsFor(u, w)
      /\ \A m \in ResponsesFrom(u, w) :
           /\ m.type = "response" /\ m.status \in {"ACCEPTED", "REJECTED"}
           /\ m.status = "REJECTED" => after = {}
           /\ m.status = "ACCEPTED" =>
                \E q : after = {q} /\ q.status = "ACCEPTED"
  BY <1>1, AnsweredRow
<1>3. RowsFor(u, w)' = IF HasDisconnect(u, w) THEN {} ELSE after
  OBVIOUS
<1> HIDE DEF after
<1>4. RowsFor(u, w) = {} => RowsFor(u, w)' = {}
  <2>1. RowsFor(u, w) = {} => ResponsesFrom(u, w) = {}
    BY <1>1 DEF Answers
  <2> QED
    BY <1>2, <1>3, <2>1
<1>5. \A r \in RowsFor(u, w) : r.status = "ACCEPTED" => RowsFor(u, w)' = RowsFor(u, w)
  <2> SUFFICES ASSUME NEW r \in RowsFor(u, w), r.status = "ACCEPTED"
               PROVE  RowsFor(u, w)' = RowsFor(u, w)
    OBVIOUS
  <2>1. ResponsesFrom(u, w) = {}
    BY <1>1 DEF Answers, Regular
  <2>2. ~HasDisconnect(u, w)
    BY <1>1 DEF Disconnects
  <2> QED
    BY <1>2, <1>3, <2>1, <2>2
<1>6. /\ RowsFor(w, u)' = RowsFor(w, u)
      /\ ResponsesFrom(w, u)' = ResponsesFrom(w, u)
      /\ BoxFrom(w, u)' = BoxFrom(w, u)
      /\ NamedFrom(w, u)' = NamedFrom(w, u)
      /\ AnonymousFrom(w, u)' = AnonymousFrom(w, u)
      /\ HasDisconnect(w, u)' = HasDisconnect(w, u)
      /\ ~HasDisconnect(u, w)'
      /\ ResponsesFrom(u, w)' = {}
      /\ BoxFrom(u, w)' = {m \in BoxFrom(u, w) : m.type = "request"}
  BY DEF Same, ResponsesFrom, Responses, BoxFrom, HasDisconnect
<1>7. Agree(u, w)'
  <2>1. PendingRows(u, w)'
    BY <1>1, <1>2, <1>3, <1>6 DEF PendingRows
  <2>2. OpenRequests(u, w)'
    BY <1>1, <1>2, <1>3, <1>6 DEF OpenRequests
  <2>3. ReceivedRequests(u, w)'
    BY <1>1, <1>6 DEF ReceivedRequests
  <2>4. AcceptedRows(u, w)'
    BY <1>1, <1>2, <1>3, <1>6 DEF AcceptedRows
  <2>5. Disconnects(u, w)'
    BY <1>1, <1>2, <1>3, <1>6 DEF Disconnects
  <2> QED
    BY <2>1, <2>2, <2>3, <2>4, <2>5 DEF Agree
<1>8. Agree(w, u)'
  <2>1. PendingRows(w, u)'
    BY <1>1, <1>6 DEF PendingRows, IsOpen
  <2>2. OpenRequests(w, u)'
    BY <1>1, <1>6 DEF OpenRequests
  <2>3. ReceivedRequests(w, u)'
    <3>1. ASSUME NEW m \in AnonymousFrom(u, w)', IsOpen(m)
          PROVE  RowsFor(u, w)' = {}
      <4>1. CASE m \in AnonymousFrom(u, w)
        BY <1>1, <1>4, <3>1, <4>1 DEF ReceivedRequests
      <4>2. CASE m \in NamedFrom(u, w)
        BY <1>1, <1>2, <1>3, <1>4, <3>1, <4>2 DEF ReceivedRequests
      <4> QED
        BY <4>1, <4>2 DEF BoxFrom
    <3> QED
      BY <1>6, <3>1 DEF ReceivedRequests
  <2>4. AcceptedRows(w, u)'
    <3>1. ASSUME NEW r \in RowsFor(w, u), r.status = "ACCEPTED"
          PROVE  \E q \in RowsFor(u, w)' : q.status = "ACCEPTED"
      <4>1. ~HasDisconnect(u, w)
        BY <1>1, <3>1 DEF Disconnects
      <4>2. PICK q \in RowsFor(u, w) :
              \/ q.status = "ACCEPTED"
              \/ q.status = "REQUESTED"
                 /\ \E m \in ResponsesFrom(u, w) : m.status = "ACCEPTED"
        BY <1>1, <3>1 DEF AcceptedRows
      <4> QED
        BY <1>2, <1>3, <1>5, <4>1, <4>2
    <3>2. ASSUME NEW m \in ResponsesFrom(w, u), m.status = "ACCEPTED"
          PROVE  \E q \in RowsFor(u, w)' : q.status = "ACCEPTED"
      BY <1>1, <1>5, <3>2 DEF AcceptedRows
    <3> QED
      BY <1>6, <3>1, <3>2 DEF AcceptedRows
  <2>5. Disconnects(w, u)'
    <3>1. ASSUME HasDisconnect(w, u)
          PROVE  RowsFor(u, w)' = RowsFor(u, w)
      <4>1. CASE RowsFor(u, w) = {}
        BY <1>4, <4>1
      <4>2. CASE RowsFor(u, w) # {}
        <5>1. \E m \in BoxFrom(w, u) : IsOpen(m)
          BY <1>1, <3>1, <4>2 DEF Disconnects, BoxFrom
        <5>2. ResponsesFrom(u, w) = {} /\ ~HasDisconnect(u, w)
          BY <1>1, <5>1 DEF OpenRequests
        <5> QED
          BY <1>2, <1>3, <5>2
      <4> QED
        BY <4>1, <4>2
    <3> QED
      BY <1>1, <1>6, <3>1 DEF Disconnects
  <2> QED
    BY <2>1, <2>2, <2>3, <2>4, <2>5 DEF Agree
<1> QED
  BY <1>7, <1>8

\* The IDs stay unique when each row is one the user had for the same buddy.
LEMMA IdsStayUniqueByPair ==
  ASSUME IdsAreUnique, TypeOK',
         \A x, y \in Users : \A q \in RowsFor(x, y)' :
           \E r \in RowsFor(x, y) : q.id = r.id
  PROVE  IdsAreUnique'
<1>1. ASSUME NEW x \in Users, NEW q \in buddies'[x]
      PROVE  \E r \in buddies[x] : q.id = r.id /\ q.user = r.user
  <2>1. q.user \in Users
    BY DEF TypeOK, Row
  <2>2. q \in RowsFor(x, q.user)'
    BY DEF RowsFor, OfUser
  <2>3. PICK r \in RowsFor(x, q.user) : q.id = r.id
    BY <2>1, <2>2
  <2> QED
    BY <2>3 DEF RowsFor, OfUser
<1> QED
  BY <1>1, IdsStayUnique

\* The preparation of a request.
LEMMA PrepareAgreement ==
  ASSUME Agreement, Habits = {}, NEW t \in Threads, NEW u \in Users, Prepare(t, u)
  PROVE  Agreement'
<1>0. IInv /\ TypeOK /\ IInv' /\ TypeOK'
  BY PrepareIInv DEF Agreement, IInv
<1>1. /\ u \in Active /\ Active' = Active /\ account' = account
      /\ \A s \in Threads : request[s].user # u
      /\ request' = [request EXCEPT ![t] = [user |-> u, stage |-> "prepared", invitee |-> NoUser]]
  BY DEF Prepare, MayStart, Active
<1>2. \A w \in Active :
        /\ RowsFor(u, w)' = IF HasDisconnect(u, w) THEN {}
                            ELSE Answered(RowsFor(u, w), ResponsesFrom(u, w))
        /\ AnonymousFrom(u, w)' = {m \in BoxFrom(u, w) : m.type = "request"}
  BY PrepareEffect
<1>3. \A w \in Users :
        /\ w \notin Active => RowsFor(u, w)' = {}
        /\ AnonymousFrom(u, w)' \subseteq {m \in BoxFrom(u, w) : m.type = "request"}
        /\ NamedFrom(u, w)' = {}
  BY <1>2, PrepareEffect
<1>4. \A x \in Users \ {u}, y \in Users :
        /\ RowsFor(x, y)' = RowsFor(x, y) /\ NamedFrom(x, y)' = NamedFrom(x, y)
        /\ AnonymousFrom(x, y)' \subseteq AnonymousFrom(x, y)
        /\ x \in Active => Same(x, y)
  BY PrepareEffect DEF Same
<1>5. ASSUME NEW w \in Active
      PROVE  /\ \A q, r \in RowsFor(u, w)' : q = r
             /\ \A r \in RowsFor(u, w)' : r.linked <=> r.status = "ACCEPTED"
             /\ \A q \in RowsFor(u, w)' : \E r \in RowsFor(u, w) : q.id = r.id
             /\ account[w] = "deleted" => \A r \in RowsFor(u, w)' : r.status # "ACCEPTED"
             /\ RowsFor(u, w) = {} => RowsFor(u, w)' = {}
  <2> DEFINE after == Answered(RowsFor(u, w), ResponsesFrom(u, w))
  <2>1. w \in Users /\ account[w] = "active" /\ Regular(u, w) /\ Answers(u, w)
    BY <1>1, PairFacts DEF Active
  <2>2. RowsFor(u, w) \in SUBSET Row
    BY <1>0 DEF TypeOK, RowsFor, OfUser
  <2>3. ResponsesFrom(u, w) \in SUBSET Message
    BY <1>0 DEF TypeOK, ResponsesFrom, Responses, AnonymousFrom, OfUser
  <2>4. \A q \in after : \E r \in RowsFor(u, w) : q.id = r.id
    BY <2>2, <2>3, AnsweredRows
  <2>5. /\ ResponsesFrom(u, w) = {} => after = RowsFor(u, w)
        /\ \A m \in ResponsesFrom(u, w) :
             /\ m.type = "response" /\ m.status \in {"ACCEPTED", "REJECTED"}
             /\ m.status = "REJECTED" => after = {}
             /\ m.status = "ACCEPTED" =>
                  \E q : after = {q} /\ q.status = "ACCEPTED" /\ q.linked
    BY <1>0, <2>1, AnsweredRow
  <2>6. RowsFor(u, w)' \subseteq after
    BY <1>2
  <2> HIDE DEF after
  <2>7. /\ \A q, r \in after : q = r
        /\ \A r \in after : r.linked <=> r.status = "ACCEPTED"
    BY <2>1, <2>5 DEF Regular
  <2> QED
    BY <2>1, <2>4, <2>6, <2>7
<1>6. \A x, y \in Users : Regular(x, y)'
  <2> SUFFICES ASSUME NEW x \in Users, NEW y \in Users PROVE Regular(x, y)'
    OBVIOUS
  <2>1. Regular(x, y)
    BY DEF Agreement, PairsAgree
  <2>2. CASE x # u
    BY <1>4, <2>1, <2>2 DEF Regular
  <2>3. CASE x = u
    <3>1. /\ \A q, r \in RowsFor(u, y)' : q = r
          /\ \A r \in RowsFor(u, y)' : r.linked <=> r.status = "ACCEPTED"
          /\ RowsFor(u, y) = {} => RowsFor(u, y)' = {}
      BY <1>3, <1>5
    <3>2. NamedFrom(u, y)' = {} /\ \A m \in AnonymousFrom(u, y)' : m.type = "request"
      BY <1>3
    <3>3. u = y => AnonymousFrom(u, y)' = {}
      BY <1>3, <2>1, <2>3 DEF Regular, BoxFrom
    <3> QED
      BY <2>1, <2>3, <3>1, <3>2, <3>3 DEF Regular
  <2> QED
    BY <2>2, <2>3
<1>7. ASSUME NEW w \in Users
      PROVE  Answers(u, w)'
  <2>1. ResponsesFrom(u, w)' = {}
    BY <1>3 DEF ResponsesFrom, Responses
  <2>2. account'[w] = "deleted" => \A r \in RowsFor(u, w)' : r.status # "ACCEPTED"
    BY <1>1, <1>3, <1>5 DEF Active
  <2> QED
    BY <2>1, <2>2 DEF Answers
<1>8. ASSUME NEW x \in Active', NEW y \in Users
      PROVE  Answers(x, y)'
  <2>1. x \in Users /\ Answers(x, y)
    BY <1>1 DEF Agreement, PairsAgree, Active
  <2>2. CASE x # u
    BY <1>1, <1>4, <2>1, <2>2, SameAnswers
  <2> QED
    BY <1>7, <2>2
<1>9. ASSUME NEW w \in Active \ {u}
      PROVE  Agree(u, w)' /\ Agree(w, u)'
  <2>1. w \in Users /\ Same(w, u)
    BY <1>1, <1>4 DEF Active
  <2> QED
    BY <1>1, <1>2, <1>3, <2>1, PreparePair
<1>10. Agree(u, u)'
  <2>1. RowsFor(u, u)' = {} /\ NamedFrom(u, u)' = {} /\ AnonymousFrom(u, u)' = {}
    BY <1>6 DEF Regular
  <2> QED
    BY <2>1 DEF Agree, PendingRows, OpenRequests, ReceivedRequests, AcceptedRows,
                Disconnects, BoxFrom, ResponsesFrom, Responses, HasDisconnect
<1>11. ASSUME NEW x \in Active', NEW y \in Active'
       PROVE  Agree(x, y)'
  <2>1. x \in Active /\ y \in Active /\ x \in Users /\ y \in Users /\ Agree(x, y)
    BY <1>1, PairFacts DEF Active
  <2>2. CASE x # u /\ y # u
    BY <1>4, <2>1, <2>2, SameAgree
  <2> QED
    BY <1>9, <1>10, <2>1, <2>2
<1>12. PairsAgree'
  BY <1>6, <1>8, <1>11 DEF PairsAgree
<1>13. IdsAreUnique'
  <2>1. ASSUME NEW x \in Users, NEW y \in Users, NEW q \in RowsFor(x, y)'
        PROVE  \E r \in RowsFor(x, y) : q.id = r.id
    BY <1>3, <1>4, <1>5, <2>1
  <2> QED
    BY <1>0, <2>1, IdsStayUniqueByPair DEF Agreement
<1>14. /\ request'[t].user = u /\ request'[t].stage = "prepared"
       /\ \A s \in Threads \ {t} : request'[s] = request[s]
  BY <1>0, <1>1 DEF TypeOK
<1>15. OneRequestAtATime'
  <2> SUFFICES ASSUME NEW s \in Threads, NEW p \in Threads,
                      request'[s].user \in Users, request'[s].user = request'[p].user
               PROVE  s = p
    BY DEF OneRequestAtATime
  <2>1. s = t <=> p = t
    BY <1>1, <1>14
  <2> QED
    BY <1>14, <2>1 DEF Agreement, OneRequestAtATime
<1>16. ASSUME NEW s \in Threads, NEW x \in Active', request'[s].user = x
       PROVE  ChecksHold(s, x)'
  <2>1. x \in Users /\ x \in Active
    BY <1>1 DEF Active
  <2>2. CASE s = t
    <3>1. x = u /\ request'[s].stage # "checked"
      BY <1>14, <1>16, <2>2
    <3>2. \A w \in Active' : ~HasDisconnect(x, w)'
      BY <1>1, <1>3, <3>1 DEF HasDisconnect, Active
    <3> QED
      BY <3>1, <3>2 DEF ChecksHold
  <2>3. CASE s # t
    <3>1. request'[s] = request[s] /\ x # u
      BY <1>1, <1>14, <1>16, <2>3
    <3>2. ChecksHold(s, x)
      BY <1>16, <2>1, <3>1 DEF Agreement, RequestsAreUpToDate
    <3>3. \A y \in Users : RowsFor(x, y)' = RowsFor(x, y)
                            /\ HasDisconnect(x, y)' = HasDisconnect(x, y)
      BY <1>4, <2>1, <3>1 DEF HasDisconnect
    <3>4. \A y \in Active : y \in Users
      BY DEF Active
    <3> QED
      BY <1>1, <3>1, <3>2, <3>3, <3>4 DEF ChecksHold
  <2> QED
    BY <2>2, <2>3
<1>17. RequestsAreUpToDate'
  BY <1>16 DEF RequestsAreUpToDate
<1> QED
  BY <1>0, <1>12, <1>13, <1>15, <1>17 DEF Agreement

\* What the rows others have for u become when u drops buddies: for an accepted
\* row of u the row of the other one is disconnected.
LEMMA LostRows ==
  ASSUME TypeOK, PairsAgree, NEW u \in Users, NEW v \in Users, NEW dropped,
         NEW lost \in Disconnections(u, dropped),
         NEW k \in {0, 1}, Cardinality(OfUser(AcceptedBuddies(dropped), v)) = k,
         buddies'[v] = RowsAfterDrop(lost)[v]
  PROVE  /\ \A y \in Users \ {u} : RowsFor(v, y)' = RowsFor(v, y)
         /\ RowsFor(v, u)' = {IF k = 1 /\ q.linked THEN SetDisconnected(q) ELSE q :
                                q \in RowsFor(v, u)}
<1> DEFINE links == LinksTo(u) \cap buddies[v]
           some == lost \cap buddies[v]
<1>1. links = {q \in RowsFor(v, u) : q.linked}
  BY DEF LinksTo, RowsFor, OfUser
<1>2. some = IF k = 0 THEN {} ELSE links
  <2>1. \A p, q \in links : p = q
    BY <1>1 DEF PairsAgree, Regular
  <2>2. some \in SUBSET links
    BY DEF Disconnections
  <2>3. Cardinality(some) = Min({k, Cardinality(links)})
    BY DEF Disconnections
  <2> HIDE DEF links, some
  <2> QED
    BY <2>1, <2>2, <2>3, PickAllOrNone
<1> HIDE DEF links
<1>3. \A q \in buddies[v] :
        /\ q \in lost <=> k = 1 /\ q.user = u /\ q.linked
        /\ SetDisconnected(q).user = q.user
  <2>1. \A q \in buddies[v] : SetDisconnected(q).user = q.user
    BY SetDisconnectedRow DEF TypeOK
  <2>2. \A q \in buddies[v] : q \in lost <=> k = 1 /\ q.user = u /\ q.linked
    BY <1>1, <1>2 DEF RowsFor, OfUser
  <2> QED
    BY <2>1, <2>2
<1>4. buddies'[v] = {IF q \in lost THEN SetDisconnected(q) ELSE q : q \in buddies[v]}
  BY DEF RowsAfterDrop
<1>5. \A y \in Users \ {u} : RowsFor(v, y)' = RowsFor(v, y)
  BY <1>3, <1>4 DEF RowsFor, OfUser
<1>6. RowsFor(v, u)' = {IF k = 1 /\ q.linked THEN SetDisconnected(q) ELSE q :
                          q \in RowsFor(v, u)}
  BY <1>3, <1>4 DEF RowsFor, OfUser
<1> QED
  BY <1>5, <1>6

\* w has agreed to be a buddy of u, or has refused or disconnected.
Agreed(u, w) ==
  \E r \in RowsFor(u, w) :
    \/ r.status = "ACCEPTED"
    \/ \E m \in ResponsesFrom(u, w) : m.status = "ACCEPTED"

Refused(u, w) ==
  \E r \in RowsFor(u, w) :
    \/ r.status = "REJECTED"
    \/ \E m \in ResponsesFrom(u, w) : m.status = "REJECTED"

\* What u and w have after u dropped w, when w had agreed.
Parted(u, w) ==
  /\ RowsFor(u, w)' = {} /\ NamedFrom(u, w)' = {} /\ AnonymousFrom(u, w)' = {}
  /\ RowsFor(w, u)' = {IF q.linked THEN SetDisconnected(q) ELSE q : q \in RowsFor(w, u)}
  /\ NamedFrom(w, u)' = {DisconnectMessage(u)} /\ AnonymousFrom(w, u)' = {}

\* And when w had refused or disconnected.
Forgotten(u, w) ==
  /\ RowsFor(u, w)' = {}
  /\ NamedFrom(u, w)' = NamedFrom(u, w)
  /\ AnonymousFrom(u, w)' = AnonymousFrom(u, w) \ ResponsesFrom(u, w)
  /\ RowsFor(w, u)' = RowsFor(w, u)
  /\ NamedFrom(w, u)' = {}
  /\ AnonymousFrom(w, u)' = AnonymousFrom(w, u)

\* After u dropped w who had agreed, w has a disconnected row at most, and the
\* disconnect.
LEMMA PartedPair ==
  ASSUME Agreement, NEW u \in Active, NEW w \in Active, u # w,
         account' = account, Parted(u, w)
  PROVE  /\ Regular(u, w)' /\ Regular(w, u)'
         /\ Answers(u, w)' /\ Answers(w, u)'
         /\ Agree(u, w)' /\ Agree(w, u)'
<1>1. /\ TypeOK /\ u \in Users /\ w \in Users /\ Regular(w, u)
      /\ account[u] = "active" /\ account[w] = "active"
  BY PairFacts DEF Agreement, IInv, Active
<1>2. /\ RowsFor(u, w)' = {} /\ NamedFrom(u, w)' = {} /\ AnonymousFrom(u, w)' = {}
      /\ NamedFrom(w, u)' = {DisconnectMessage(u)} /\ AnonymousFrom(w, u)' = {}
  BY DEF Parted
<1>3. \A q, r \in RowsFor(w, u)' : q = r
  BY <1>1 DEF Parted, Regular
<1>4. \A q \in RowsFor(w, u)' : ~q.linked /\ q.status # "ACCEPTED"
  <2>1. \A q \in RowsFor(w, u) : q \in Row
    BY <1>1 DEF TypeOK, RowsFor, OfUser
  <2>2. \A q \in RowsFor(w, u) :
          ~SetDisconnected(q).linked /\ SetDisconnected(q).status = "REJECTED"
    BY <2>1, SetDisconnectedRow
  <2> QED
    BY <1>1, <2>2 DEF Parted, Regular
<1>5. /\ ResponsesFrom(u, w)' = {} /\ ResponsesFrom(w, u)' = {}
      /\ BoxFrom(u, w)' = {} /\ BoxFrom(w, u)' = {DisconnectMessage(u)}
      /\ ~HasDisconnect(u, w)' /\ HasDisconnect(w, u)'
      /\ DisconnectMessage(u).type = "disconnect" /\ ~IsOpen(DisconnectMessage(u))
  BY <1>2 DEF ResponsesFrom, Responses, BoxFrom, HasDisconnect, DisconnectMessage, IsOpen
<1>6. Regular(u, w)' /\ Regular(w, u)'
  BY <1>1, <1>2, <1>3, <1>4, <1>5 DEF Regular
<1>7. Answers(u, w)' /\ Answers(w, u)'
  BY <1>1, <1>5 DEF Answers
<1>8. Agree(u, w)'
  BY <1>2, <1>5 DEF Agree, PendingRows, OpenRequests, ReceivedRequests, AcceptedRows,
                    Disconnects
<1>9. Agree(w, u)'
  <2>1. PendingRows(w, u)' /\ OpenRequests(w, u)' /\ ReceivedRequests(w, u)'
    BY <1>2, <1>5 DEF PendingRows, OpenRequests, ReceivedRequests
  <2>2. AcceptedRows(w, u)' /\ Disconnects(w, u)'
    BY <1>2, <1>4, <1>5 DEF AcceptedRows, Disconnects
  <2> QED
    BY <2>1, <2>2 DEF Agree
<1> QED
  BY <1>6, <1>7, <1>8, <1>9

\* After u dropped w who had refused or disconnected nothing is left but what w
\* has asked for since.
LEMMA ForgottenPair ==
  ASSUME Agreement, NEW u \in Active, NEW w \in Active, u # w,
         account' = account, Refused(u, w), Forgotten(u, w)
  PROVE  /\ Regular(u, w)' /\ Regular(w, u)'
         /\ Answers(u, w)' /\ Answers(w, u)'
         /\ Agree(u, w)' /\ Agree(w, u)'
<1>1. /\ Regular(u, w) /\ Answers(u, w)
      /\ OpenRequests(u, w) /\ Disconnects(u, w)
      /\ Regular(w, u) /\ Answers(w, u)
      /\ PendingRows(w, u) /\ OpenRequests(w, u) /\ ReceivedRequests(w, u)
      /\ AcceptedRows(w, u) /\ Disconnects(w, u)
  BY PairFacts
<1>2. PICK r \in RowsFor(u, w) :
        \/ r.status = "REJECTED"
        \/ \E m \in ResponsesFrom(u, w) : m.status = "REJECTED"
  BY DEF Refused
<1>3. /\ \A q \in RowsFor(u, w) : q.status # "ACCEPTED"
      /\ \A m \in ResponsesFrom(u, w) : m.status # "ACCEPTED"
  BY <1>1, <1>2 DEF Answers, Regular
<1>4. /\ \A q \in RowsFor(w, u) : q.status # "ACCEPTED"
      /\ \A m \in ResponsesFrom(w, u) : m.status # "ACCEPTED"
  BY <1>1, <1>3 DEF AcceptedRows
<1>5. \A m \in BoxFrom(w, u) : ~IsOpen(m)
  BY <1>1, <1>2 DEF OpenRequests, Regular
<1>6. ~HasDisconnect(w, u)
  BY <1>1, <1>2, <1>5 DEF Disconnects, BoxFrom
<1>7. /\ RowsFor(u, w)' = {} /\ NamedFrom(u, w)' = NamedFrom(u, w)
      /\ AnonymousFrom(u, w)' = AnonymousFrom(u, w) \ ResponsesFrom(u, w)
      /\ RowsFor(w, u)' = RowsFor(w, u) /\ NamedFrom(w, u)' = {}
      /\ AnonymousFrom(w, u)' = AnonymousFrom(w, u)
      /\ ResponsesFrom(u, w)' = {} /\ ResponsesFrom(w, u)' = ResponsesFrom(w, u)
      /\ HasDisconnect(u, w)' = HasDisconnect(u, w) /\ ~HasDisconnect(w, u)'
      /\ BoxFrom(w, u)' \subseteq BoxFrom(w, u)
      /\ BoxFrom(u, w)' \subseteq BoxFrom(u, w)
      /\ \A m \in BoxFrom(u, w) : IsOpen(m) => m \in BoxFrom(u, w)'
  BY DEF Forgotten, ResponsesFrom, Responses, HasDisconnect, BoxFrom, IsOpen
<1>8. Regular(u, w)' /\ Regular(w, u)'
  BY <1>1, <1>7 DEF Regular
<1>9. Answers(u, w)' /\ Answers(w, u)'
  BY <1>1, <1>7 DEF Answers
<1>10. Agree(u, w)'
  <2>1. PendingRows(u, w)' /\ OpenRequests(u, w)' /\ ReceivedRequests(u, w)'
    BY <1>5, <1>7 DEF PendingRows, OpenRequests, ReceivedRequests, BoxFrom
  <2>2. AcceptedRows(u, w)' /\ Disconnects(u, w)'
    BY <1>1, <1>7 DEF AcceptedRows, Disconnects
  <2> QED
    BY <2>1, <2>2 DEF Agree
<1>11. Agree(w, u)'
  <2>1. PendingRows(w, u)' /\ OpenRequests(w, u)'
    BY <1>1, <1>6, <1>7 DEF PendingRows, OpenRequests
  <2>2. ReceivedRequests(w, u)'
    BY <1>1, <1>2, <1>7 DEF ReceivedRequests
  <2>3. AcceptedRows(w, u)' /\ Disconnects(w, u)'
    BY <1>1, <1>4, <1>6, <1>7 DEF AcceptedRows, Disconnects
  <2> QED
    BY <2>1, <2>2, <2>3 DEF Agree
<1> QED
  BY <1>8, <1>9, <1>10, <1>11

\* A removal first processes the responses of the buddy, if any, and no others.
LEMMA PendingOfRemoval ==
  ASSUME Agreement, NEW u \in Active, NEW r \in buddies[u], NEW w \in Users, w = r.user,
         NEW pending \in Picks(Responses(anonymous[u]),
                               OneOf(IF r.status = "REQUESTED" THEN {w} ELSE {}))
  PROVE  pending = ResponsesFrom(u, w)
<1> DEFINE n == OneOf(IF r.status = "REQUESTED" THEN {w} ELSE {})
           all == Responses(anonymous[u])
<1>1. TypeOK /\ u \in Users /\ Regular(u, w) /\ Answers(u, w) /\ r \in RowsFor(u, w)
  BY DEF Agreement, IInv, PairsAgree, Active, RowsFor, OfUser
<1>2. /\ n[w] = IF r.status = "REQUESTED" THEN 1 ELSE 0
      /\ \A v \in Users : n[v] \in {0, 1} /\ (v # w => n[v] = 0)
  BY DEF OneOf
<1>3. \A v \in Users : OfUser(all, v) = ResponsesFrom(u, v)
  BY DEF OfUser, Responses, ResponsesFrom, AnonymousFrom
<1>4. \A v \in Users : \A p, q \in ResponsesFrom(u, v) : p = q
  BY <1>1 DEF Agreement, PairsAgree, Answers
<1>5. r.status # "REQUESTED" => ResponsesFrom(u, w) = {}
  BY <1>1 DEF Answers, Regular
<1>6. pending \subseteq all /\ \A m \in all : m.user \in Users
  BY <1>1 DEF Picks, Responses, TypeOK, Message
<1> HIDE DEF n, all
<1>7. ASSUME NEW v \in Users
      PROVE  OfUser(pending, v) = IF n[v] = 0 THEN {} ELSE ResponsesFrom(u, v)
  <2>1. pending \in Picks(all, n)
    BY DEF all, n
  <2> QED
    BY <1>2, <1>3, <1>4, <2>1, PicksOfUser
<1>8. OfUser(pending, w) = ResponsesFrom(u, w)
  BY <1>2, <1>5, <1>7
<1>9. \A m \in pending : m.user = w
  BY <1>2, <1>6, <1>7 DEF OfUser
<1> QED
  BY <1>8, <1>9 DEF OfUser

\* What a removal does: a buddy who had agreed is told.
LEMMA RemoveBuddyEffect ==
  ASSUME Agreement, Habits = {}, NEW t \in Threads, NEW u \in Users, NEW r \in buddies[u],
         RemoveBuddy(t, u, r), NEW w, w = r.user
  PROVE  /\ u \in Active /\ w \in Active /\ u # w
         /\ (Agreed(u, w) /\ Parted(u, w)) \/ (Refused(u, w) /\ Forgotten(u, w))
         /\ \A x, y \in Users : ~(x = u /\ y = w) /\ ~(x = w /\ y = u) => Same(x, y)
<1> DEFINE after == Answered(RowsFor(u, w), ResponsesFrom(u, w))
           rows == Answered(buddies[u], ResponsesFrom(u, w))
           dropped == {q \in rows : q.id = r.id}
           strangers == BuddyUsers({q \in dropped : q.linked})
           has == ResponsesFrom(u, w)
<1>0. IInv /\ TypeOK
  BY DEF Agreement, IInv
<1>1. u \in Active /\ w \in Active /\ w \in Users
  BY <1>0 DEF RemoveBuddy, MayDrop, Serves, Active, TypeOK, Row
<1>2. r \in RowsFor(u, w) /\ Regular(u, w) /\ Answers(u, w) /\ u # w
  <2>1. r \in RowsFor(u, w)
    BY DEF RowsFor, OfUser
  <2> QED
    BY <1>1, <2>1, PairFacts DEF Regular
<1>3. PICK lost \in Disconnections(u, dropped), told \in Told(dropped) :
        /\ buddies' = [RowsAfterDrop(lost) EXCEPT ![u] = rows \ dropped]
        /\ named' = [NamedAfterDrop(u, {w}, told) EXCEPT ![u] = NotFrom(@, strangers)]
        /\ anonymous' = [AnonymousAfterDrop(u, dropped) EXCEPT
                           ![u] = NotFrom(@ \ has, strangers)]
  <2>1. PICK pending \in Picks(Responses(anonymous[u]),
                               OneOf(IF r.status = "REQUESTED" THEN {w} ELSE {})) :
          LET rs == Answered(buddies[u], pending)
              ds == {q \in rs : q.id = r.id}
              ss == BuddyUsers({q \in ds : q.linked})
          IN \E lost \in Disconnections(u, ds), told \in Told(ds) :
               /\ buddies' = [RowsAfterDrop(lost) EXCEPT ![u] = rs \ ds]
               /\ named' = [NamedAfterDrop(u, {w}, told) EXCEPT ![u] = NotFrom(@, ss)]
               /\ anonymous' = [AnonymousAfterDrop(u, ds) EXCEPT
                                  ![u] = NotFrom(@ \ pending, ss)]
    BY DEF RemoveBuddy
  <2>2. pending = ResponsesFrom(u, w)
    BY <1>1, PendingOfRemoval
  <2> QED
    BY <2>1, <2>2
<1>4. r.status # "REQUESTED" \/ has # {}
  BY <1>0, <1>1 DEF RemoveBuddy, MayDrop, ResponsesFrom, Responses, AnonymousFrom, OfUser
<1>5. /\ buddies[u] \in SUBSET Row /\ has \in SUBSET Message
      /\ RowsFor(u, w) = {r} /\ r \in Row
  BY <1>0, <1>2 DEF TypeOK, ResponsesFrom, Responses, AnonymousFrom, OfUser, Regular, RowsFor
<1>6. OfUser(rows, w) = after
  BY <1>1, <1>5, AnsweredOfUser DEF RowsFor
<1>7. ASSUME NEW y \in Users \ {w}
      PROVE  OfUser(rows, y) = RowsFor(u, y)
  <2>1. OfUser(rows, y) = Answered(RowsFor(u, y), has)
    BY <1>5, AnsweredOfUser DEF RowsFor
  <2>2. \A q \in RowsFor(u, y) : \A m \in has : m.buddy # q.id
    <3> SUFFICES ASSUME NEW q \in RowsFor(u, y), NEW m \in has, m.buddy = q.id PROVE FALSE
      OBVIOUS
    <3>1. m \in Responses(anonymous[u]) /\ m.user = w
      BY DEF ResponsesFrom, Responses, AnonymousFrom, OfUser
    <3>2. m \in ResponsesFrom(u, y)
      BY <1>0, <3>1, ResponsesAreFrom
    <3> QED
      BY <3>1, <3>2 DEF ResponsesFrom, Responses, AnonymousFrom, OfUser
  <2> QED
    BY <2>1, <2>2, AnsweredByNone
<1>8. \A q \in after : q.id = r.id /\ q.user = w
  BY <1>5, AnsweredRows
<1>9. dropped = after
  <2>1. \A q \in rows : q.id = r.id => q.user = w
    <3> SUFFICES ASSUME NEW q \in rows, q.id = r.id PROVE q.user = w
      OBVIOUS
    <3>1. PICK p \in buddies[u] : q.id = p.id /\ q.user = p.user
      BY <1>5, AnsweredRows
    <3> QED
      BY <3>1 DEF Agreement, IdsAreUnique
  <2> QED
    BY <1>6, <1>8, <2>1 DEF OfUser
<1>10. /\ has = {} => after = {r}
       /\ \A m \in has :
            /\ m.status \in {"ACCEPTED", "REJECTED"}
            /\ m.status = "REJECTED" => after = {}
            /\ m.status = "ACCEPTED" =>
                 \E q : after = {q} /\ q.user = w /\ q.status = "ACCEPTED" /\ q.linked
  BY <1>0, <1>1, <1>2, <1>5, AnsweredRow
<1>11. (r.linked <=> r.status = "ACCEPTED") /\ r.status \in {"REQUESTED", "ACCEPTED", "REJECTED"}
  BY <1>2, <1>5 DEF Regular, Row
<1> HIDE DEF rows, dropped, after, strangers, has
<1>12. \/ /\ Agreed(u, w)
          /\ \E q : after = {q} /\ q.user = w /\ q.status = "ACCEPTED" /\ q.linked
       \/ /\ Refused(u, w)
          /\ \/ after = {}
             \/ after = {r} /\ r.status # "ACCEPTED" /\ ~r.linked
  <2>1. CASE has = {}
    BY <1>2, <1>4, <1>10, <1>11, <2>1 DEF Agreed, Refused, has
  <2>2. CASE has # {}
    BY <1>2, <1>10, <2>2 DEF Agreed, Refused, has
  <2> QED
    BY <2>1, <2>2
<1>13. ASSUME NEW k \in {0, 1}, Cardinality(OfUser(AcceptedBuddies(dropped), w)) = k
       PROVE  /\ RowsFor(u, w)' = {}
              /\ \A y \in Users \ {w} : RowsFor(u, y)' = RowsFor(u, y)
              /\ \A y \in Users \ {u} : RowsFor(w, y)' = RowsFor(w, y)
              /\ RowsFor(w, u)' = {IF k = 1 /\ q.linked THEN SetDisconnected(q) ELSE q :
                                     q \in RowsFor(w, u)}
              /\ \A x \in Users \ {u, w}, y \in Users : RowsFor(x, y)' = RowsFor(x, y)
  <2>1. /\ buddies'[u] = rows \ dropped
        /\ \A x \in Users \ {u} : buddies'[x] = RowsAfterDrop(lost)[x]
    BY <1>3 DEF RowsAfterDrop
  <2>2. \A y \in Users : RowsFor(u, y)' = OfUser(rows, y) \ after
    BY <1>9, <2>1 DEF RowsFor, OfUser
  <2>3. \A y \in Users \ {w} : RowsFor(u, y)' = RowsFor(u, y)
    BY <1>7, <1>8, <2>2 DEF RowsFor, OfUser
  <2>4. /\ \A y \in Users \ {u} : RowsFor(w, y)' = RowsFor(w, y)
        /\ RowsFor(w, u)' = {IF k = 1 /\ q.linked THEN SetDisconnected(q) ELSE q :
                               q \in RowsFor(w, u)}
    BY <1>0, <1>1, <1>2, <1>13, <2>1, LostRows DEF Agreement
  <2>5. ASSUME NEW x \in Users \ {u, w}
        PROVE  \A y \in Users : RowsFor(x, y)' = RowsFor(x, y)
    <3>1. OfUser(AcceptedBuddies(dropped), x) = {}
      BY <1>8, <1>9 DEF OfUser, AcceptedBuddies
    <3>2. Cardinality(OfUser(AcceptedBuddies(dropped), x)) = 0
      BY <3>1, FS_EmptySet
    <3>3. /\ \A y \in Users \ {u} : RowsFor(x, y)' = RowsFor(x, y)
          /\ RowsFor(x, u)' = {IF 0 = 1 /\ q.linked THEN SetDisconnected(q) ELSE q :
                                 q \in RowsFor(x, u)}
      BY <1>0, <2>1, <3>2, LostRows DEF Agreement
    <3>4. {IF 0 = 1 /\ q.linked THEN SetDisconnected(q) ELSE q : q \in RowsFor(x, u)}
            = RowsFor(x, u)
      OBVIOUS
    <3> QED
      BY <3>3, <3>4
  <2> QED
    BY <1>1, <1>6, <2>2, <2>3, <2>4, <2>5
<1>14. ASSUME NEW q, after = {q}, q.user = w, q.status = "ACCEPTED", q.linked
       PROVE  /\ Parted(u, w)
              /\ \A x, y \in Users : ~(x = u /\ y = w) /\ ~(x = w /\ y = u) => Same(x, y)
  <2>1. /\ AcceptedBuddies(dropped) = {q} /\ strangers = {w}
        /\ BuddyUsers(AcceptedBuddies(dropped)) = {w}
        /\ \A p \in dropped : p.status = "ACCEPTED"
    BY <1>9, <1>14 DEF AcceptedBuddies, strangers, BuddyUsers
  <2>2. Cardinality(OfUser(AcceptedBuddies(dropped), w)) = 1
    <3>1. OfUser(AcceptedBuddies(dropped), w) = {q}
      BY <1>14, <2>1 DEF OfUser
    <3> QED
      BY <3>1, FS_Singleton
  <2>3. told = {w}
    BY <2>1 DEF Told
  <2>4. /\ \A y \in Users : NamedFrom(u, y)' = IF y = w THEN {} ELSE NamedFrom(u, y)
        /\ \A y \in Users :
             NamedFrom(w, y)' = IF y = u THEN {DisconnectMessage(u)} ELSE NamedFrom(w, y)
        /\ \A x \in Users \ {u, w}, y \in Users : NamedFrom(x, y)' = NamedFrom(x, y)
    <3>1. DisconnectMessage(u).user = u
      BY DEF DisconnectMessage
    <3>2. named'[u] = NotFrom(named[u], {w})
      BY <1>2, <1>3, <2>1, <2>3 DEF NamedAfterDrop
    <3>3. named'[w] = NotFrom(named[w], {u}) \cup {DisconnectMessage(u)}
      BY <1>1, <1>2, <1>3, <2>3 DEF NamedAfterDrop
    <3>4. \A x \in Users \ {u, w} : named'[x] = named[x]
      BY <1>3, <2>3 DEF NamedAfterDrop
    <3> QED
      BY <1>1, <1>2, <3>1, <3>2, <3>3, <3>4 DEF NamedFrom, OfUser, NotFrom
  <2>5. /\ \A y \in Users : AnonymousFrom(u, y)' = IF y = w THEN {} ELSE AnonymousFrom(u, y)
        /\ \A y \in Users : AnonymousFrom(w, y)' = IF y = u THEN {} ELSE AnonymousFrom(w, y)
        /\ \A x \in Users \ {u, w}, y \in Users : AnonymousFrom(x, y)' = AnonymousFrom(x, y)
    <3>1. anonymous'[u] = NotFrom(anonymous[u] \ has, {w})
      BY <1>2, <1>3, <2>1 DEF AnonymousAfterDrop
    <3>2. anonymous'[w] = NotFrom(anonymous[w], {u})
      BY <1>1, <1>2, <1>3, <2>1 DEF AnonymousAfterDrop
    <3>3. \A x \in Users \ {u, w} : anonymous'[x] = anonymous[x]
      BY <1>3, <2>1 DEF AnonymousAfterDrop
    <3>4. \A m \in has : m.user = w
      BY DEF has, ResponsesFrom, Responses, AnonymousFrom, OfUser
    <3> QED
      BY <1>1, <1>2, <3>1, <3>2, <3>3, <3>4 DEF AnonymousFrom, OfUser, NotFrom
  <2>6. /\ RowsFor(u, w)' = {}
        /\ \A y \in Users \ {w} : RowsFor(u, y)' = RowsFor(u, y)
        /\ \A y \in Users \ {u} : RowsFor(w, y)' = RowsFor(w, y)
        /\ RowsFor(w, u)' = {IF p.linked THEN SetDisconnected(p) ELSE p :
                               p \in RowsFor(w, u)}
        /\ \A x \in Users \ {u, w}, y \in Users : RowsFor(x, y)' = RowsFor(x, y)
    BY <1>13, <2>2
  <2>7. Parted(u, w)
    BY <1>1, <2>4, <2>5, <2>6 DEF Parted
  <2> QED
    BY <2>4, <2>5, <2>6, <2>7 DEF Same
<1>15. ASSUME \/ after = {}
              \/ after = {r} /\ r.status # "ACCEPTED" /\ ~r.linked
       PROVE  /\ Forgotten(u, w)
              /\ \A x, y \in Users : ~(x = u /\ y = w) /\ ~(x = w /\ y = u) => Same(x, y)
  <2>1. /\ AcceptedBuddies(dropped) = {} /\ strangers = {}
        /\ BuddyUsers(AcceptedBuddies(dropped)) = {}
    BY <1>9, <1>15 DEF AcceptedBuddies, strangers, BuddyUsers
  <2>2. Cardinality(OfUser(AcceptedBuddies(dropped), w)) = 0
    <3>1. OfUser(AcceptedBuddies(dropped), w) = {}
      BY <2>1 DEF OfUser
    <3> QED
      BY <3>1, FS_EmptySet
  <2>3. told = {}
    BY <2>1 DEF Told
  <2>4. /\ \A x \in Users \ {w}, y \in Users : NamedFrom(x, y)' = NamedFrom(x, y)
        /\ \A y \in Users : NamedFrom(w, y)' = IF y = u THEN {} ELSE NamedFrom(w, y)
    <3>1. named'[u] = named[u]
      BY <1>2, <1>3, <2>1, <2>3 DEF NamedAfterDrop, NotFrom
    <3>2. named'[w] = NotFrom(named[w], {u})
      BY <1>1, <1>2, <1>3, <2>3 DEF NamedAfterDrop
    <3>3. \A x \in Users \ {u, w} : named'[x] = named[x]
      BY <1>3, <2>3 DEF NamedAfterDrop
    <3> QED
      BY <1>1, <3>1, <3>2, <3>3 DEF NamedFrom, OfUser, NotFrom
  <2>5. /\ \A x \in Users \ {u}, y \in Users : AnonymousFrom(x, y)' = AnonymousFrom(x, y)
        /\ \A y \in Users : AnonymousFrom(u, y)' =
             IF y = w THEN AnonymousFrom(u, y) \ ResponsesFrom(u, y) ELSE AnonymousFrom(u, y)
    <3>1. anonymous'[u] = anonymous[u] \ has
      BY <1>3, <2>1 DEF AnonymousAfterDrop, NotFrom
    <3>2. \A x \in Users \ {u} : anonymous'[x] = anonymous[x]
      BY <1>3, <2>1 DEF AnonymousAfterDrop
    <3>3. \A m \in has : m.user = w
      BY DEF has, ResponsesFrom, Responses, AnonymousFrom, OfUser
    <3>4. \A y \in Users \ {w} : AnonymousFrom(u, y)' = AnonymousFrom(u, y)
      BY <3>1, <3>3 DEF AnonymousFrom, OfUser
    <3>5. AnonymousFrom(u, w)' = AnonymousFrom(u, w) \ ResponsesFrom(u, w)
      BY <3>1 DEF AnonymousFrom, OfUser, has
    <3> QED
      BY <3>2, <3>4, <3>5 DEF AnonymousFrom
  <2>6. /\ RowsFor(u, w)' = {}
        /\ \A y \in Users \ {w} : RowsFor(u, y)' = RowsFor(u, y)
        /\ \A x \in Users \ {u}, y \in Users : RowsFor(x, y)' = RowsFor(x, y)
    <3>1. {IF 0 = 1 /\ p.linked THEN SetDisconnected(p) ELSE p : p \in RowsFor(w, u)}
            = RowsFor(w, u)
      OBVIOUS
    <3> QED
      BY <1>13, <2>2, <3>1
  <2>7. Forgotten(u, w)
    BY <1>1, <1>2, <2>4, <2>5, <2>6 DEF Forgotten
  <2> QED
    BY <2>4, <2>5, <2>6, <2>7 DEF Same
<1> QED
  BY <1>1, <1>2, <1>12, <1>14, <1>15

\* The removal of a buddy.
LEMMA RemoveBuddyAgreement ==
  ASSUME Agreement, Habits = {}, NEW t \in Threads, NEW u \in Users, NEW r \in buddies[u],
         RemoveBuddy(t, u, r)
  PROVE  Agreement'
<1>0. IInv /\ TypeOK /\ IInv' /\ TypeOK'
  BY RemoveBuddyIInv DEF Agreement, IInv
<1>1. request[t].user = u /\ Done(t) /\ account' = account /\ Active' = Active
  BY DEF RemoveBuddy, Serves, Active
<1>2. PICK w : w = r.user
  OBVIOUS
<1>3. /\ u \in Active /\ w \in Active /\ u # w /\ w \in Users
      /\ (Agreed(u, w) /\ Parted(u, w)) \/ (Refused(u, w) /\ Forgotten(u, w))
      /\ \A x, y \in Users : ~(x = u /\ y = w) /\ ~(x = w /\ y = u) => Same(x, y)
  BY <1>2, RemoveBuddyEffect DEF Active
<1>4. PairsAgree'
  <2>1. /\ Regular(u, w)' /\ Regular(w, u)'
        /\ Answers(u, w)' /\ Answers(w, u)'
        /\ Agree(u, w)' /\ Agree(w, u)'
    BY <1>1, <1>3, PartedPair, ForgottenPair
  <2> QED
    BY <1>1, <1>3, <2>1, OnePair DEF Agreement
<1>5. IdsAreUnique'
  <2>1. \A q \in RowsFor(w, u) : SetDisconnected(q).id = q.id
    BY <1>0, <1>3, SetDisconnectedRow DEF TypeOK, RowsFor, OfUser
  <2>2. /\ RowsFor(u, w)' = {}
        /\ \A q \in RowsFor(w, u)' : \E p \in RowsFor(w, u) : q.id = p.id
    BY <1>3, <2>1 DEF Parted, Forgotten
  <2>3. ASSUME NEW x \in Users, NEW y \in Users, NEW q \in RowsFor(x, y)'
        PROVE  \E p \in RowsFor(x, y) : q.id = p.id
    BY <1>3, <2>2, <2>3 DEF Same
  <2> QED
    BY <1>0, <2>3, IdsStayUniqueByPair DEF Agreement
<1>6. OneRequestAtATime' /\ RequestsAreUpToDate'
  <2>1. \A x \in Active : x \in Users
    BY DEF Active
  <2>2. RowsFor(w, u) = {} <=> RowsFor(w, u)' = {}
    BY <1>3 DEF Parted, Forgotten
  <2>3. \A x \in Active \ {u}, y \in Users : RowsFor(x, y) = {} <=> RowsFor(x, y)' = {}
    BY <1>3, <2>1, <2>2 DEF Same
  <2>4. HasDisconnect(w, u)' => RowsFor(w, u)' # {}
    <3>1. CASE Forgotten(u, w)
      BY <3>1 DEF Forgotten, HasDisconnect
    <3>2. CASE Agreed(u, w)
      <4>1. AcceptedRows(u, w)
        BY <1>3, PairFacts
      <4> QED
        BY <2>2, <3>2, <4>1 DEF Agreed, AcceptedRows
    <3> QED
      BY <1>3, <3>1, <3>2
  <2>5. ASSUME NEW x \in Active \ {u}, NEW y \in Active, HasDisconnect(x, y)'
        PROVE  \/ HasDisconnect(x, y) /\ (RowsFor(x, y)' = {} => RowsFor(x, y) = {})
               \/ RowsFor(x, y)' # {}
    <3>1. CASE x = w /\ y = u
      BY <2>4, <2>5, <3>1
    <3>2. CASE ~(x = w /\ y = u)
      BY <1>3, <2>1, <2>5, <3>2 DEF Same, HasDisconnect
    <3> QED
      BY <3>1, <3>2
  <2> QED
    BY <1>0, <1>1, <2>3, <2>5, RequestsStayUpToDate, SMTT(30) DEF Agreement
<1> QED
  BY <1>0, <1>4, <1>5, <1>6 DEF Agreement

\* When u leaves, every buddy who is still there and had an accepted row for u
\* has a disconnected one.
LEMMA DeleteUserEffect ==
  ASSUME Agreement, NEW t \in Threads, NEW u \in Users, DeleteUser(t, u)
  PROVE  /\ \A y \in Users :
              /\ RowsFor(u, y)' = {} /\ NamedFrom(u, y)' = {} /\ AnonymousFrom(u, y)' = {}
         /\ \A x, y \in Users \ {u} : Same(x, y)
         /\ \A x \in Users \ {u} :
              /\ NamedFrom(x, u)' \subseteq NamedFrom(x, u) \cup {DisconnectMessage(u)}
              /\ AnonymousFrom(x, u)' \subseteq AnonymousFrom(x, u)
              /\ \E k \in {0, 1} :
                   /\ RowsFor(x, u)' =
                        {IF k = 1 /\ q.linked THEN SetDisconnected(q) ELSE q :
                           q \in RowsFor(x, u)}
                   /\ x \in Active /\ Agreed(u, x) => k = 1
<1>0. IInv /\ TypeOK /\ u \in Active
  BY DEF Agreement, IInv, DeleteUser, Serves, Active
<1> DEFINE n == [v \in Users |-> Cardinality(OfUser(buddies[u], v))]
<1>1. PICK pending \in Picks(Responses(anonymous[u]), n) :
        LET rows == Answered(buddies[u], pending)
            dropped == rows \ RelatedToRemovedUsers(rows)
        IN \E lost \in Disconnections(u, dropped), told \in Told(dropped) :
             /\ buddies' = [RowsAfterDrop(lost) EXCEPT ![u] = {}]
             /\ named' = [NamedAfterDrop(u, BuddyUsers(dropped), told) EXCEPT ![u] = {}]
             /\ anonymous' = [v \in Users |->
                  IF v = u THEN {}
                  ELSE IF v \in EstablishedGone(rows) THEN NotFrom(anonymous[v], {u})
                  ELSE AnonymousAfterDrop(u, dropped)[v]]
  BY DEF DeleteUser
<1> DEFINE rows == Answered(buddies[u], pending)
           dropped == rows \ RelatedToRemovedUsers(rows)
           users == BuddyUsers(dropped)
           gone == EstablishedGone(rows)
<1>2. PICK lost \in Disconnections(u, dropped), told \in Told(dropped) :
        /\ buddies' = [RowsAfterDrop(lost) EXCEPT ![u] = {}]
        /\ named' = [NamedAfterDrop(u, users, told) EXCEPT ![u] = {}]
        /\ anonymous' = [v \in Users |->
             IF v = u THEN {}
             ELSE IF v \in gone THEN NotFrom(anonymous[v], {u})
             ELSE AnonymousAfterDrop(u, dropped)[v]]
  BY <1>1
<1>3. pending \subseteq Responses(anonymous[u])
  BY <1>1, PicksSubsets
<1>4. /\ pending \in SUBSET Message /\ buddies[u] \in SUBSET Row
      /\ \A v \in Users : RowsFor(u, v) \in SUBSET Row
  BY <1>0, <1>3 DEF Responses, TypeOK, RowsFor, OfUser
<1>5. \A x \in Active : OfUser(dropped, x) = OfUser(rows, x)
  BY DEF OfUser, RelatedToRemovedUsers, Active
<1>6. ASSUME NEW x \in Users
      PROVE  /\ OfUser(rows, x) = Answered(RowsFor(u, x), pending)
             /\ \A p, q \in OfUser(rows, x) : p = q
  <2>1. OfUser(rows, x) = Answered(RowsFor(u, x), pending)
    BY <1>4, AnsweredOfUser DEF RowsFor
  <2>2. \A p, q \in RowsFor(u, x) : p = q
    BY DEF Agreement, PairsAgree, Regular
  <2> QED
    BY <2>1, <2>2, AnsweredAtMostOne
<1>7. ASSUME NEW x \in Active, Agreed(u, x)
      PROVE  \E q \in OfUser(rows, x) : q.status = "ACCEPTED"
  <2>1. x \in Users /\ Regular(u, x) /\ Answers(u, x)
    BY <1>0, PairFacts
  <2>2. PICK r \in RowsFor(u, x) :
          \/ r.status = "ACCEPTED"
          \/ \E m \in ResponsesFrom(u, x) : m.status = "ACCEPTED"
    BY <1>7 DEF Agreed
  <2>3. RowsFor(u, x) = {r}
    BY <2>1, <2>2 DEF Regular
  <2>4. OfUser(pending, x) = ResponsesFrom(u, x)
    <3>1. n[x] = 1
      <4>1. n[x] = Cardinality({r})
        BY <2>1, <2>3 DEF RowsFor
      <4> QED
        BY <4>1, FS_Singleton
    <3>2. OfUser(Responses(anonymous[u]), x) = ResponsesFrom(u, x)
      BY DEF OfUser, Responses, ResponsesFrom, AnonymousFrom
    <3>3. \A p, q \in ResponsesFrom(u, x) : p = q
      BY <2>1 DEF Answers
    <3> HIDE DEF n
    <3> QED
      BY <1>1, <2>1, <3>1, <3>2, <3>3, PicksOfUser
  <2>5. OfUser(rows, x) = Answered(RowsFor(u, x), ResponsesFrom(u, x))
    <3>1. \A q \in RowsFor(u, x) : \A m \in pending :
            m.buddy = q.id => m \in ResponsesFrom(u, x)
      BY <1>0, <1>3, <2>1, ResponsesAreFrom
    <3>2. ResponsesFrom(u, x) \subseteq pending
      BY <2>4 DEF OfUser
    <3>3. Answered(RowsFor(u, x), pending) = Answered(RowsFor(u, x), ResponsesFrom(u, x))
      BY <3>1, <3>2, AnsweredBySame
    <3> QED
      BY <1>6, <2>1, <3>3
  <2> HIDE DEF rows
  <2>6. /\ ResponsesFrom(u, x) = {} => OfUser(rows, x) = RowsFor(u, x)
        /\ \A m \in ResponsesFrom(u, x) : m.status = "ACCEPTED" =>
             \E q : OfUser(rows, x) = {q} /\ q.status = "ACCEPTED"
    BY <1>0, <2>1, <2>5, AnsweredRow
  <2>7. CASE ResponsesFrom(u, x) = {}
    BY <2>2, <2>6, <2>7
  <2>8. CASE ResponsesFrom(u, x) # {}
    <3>1. r.status # "ACCEPTED"
      BY <2>1, <2>3, <2>8 DEF Answers
    <3> QED
      BY <2>2, <2>6, <3>1
  <2> QED
    BY <2>7, <2>8
<1> HIDE DEF n, rows, dropped, users, gone
<1>8. \A y \in Users :
        /\ RowsFor(u, y)' = {} /\ NamedFrom(u, y)' = {} /\ AnonymousFrom(u, y)' = {}
  BY <1>2 DEF RowsFor, NamedFrom, AnonymousFrom, OfUser, RowsAfterDrop, NamedAfterDrop
<1>9. ASSUME NEW x \in Users \ {u}
      PROVE  /\ \A y \in Users \ {u} : RowsFor(x, y)' = RowsFor(x, y)
             /\ \E k \in {0, 1} :
                  /\ RowsFor(x, u)' =
                       {IF k = 1 /\ q.linked THEN SetDisconnected(q) ELSE q :
                          q \in RowsFor(x, u)}
                  /\ x \in Active /\ Agreed(u, x) => k = 1
  <2>1. PICK k \in {0, 1} :
          /\ Cardinality(OfUser(AcceptedBuddies(dropped), x)) = k
          /\ x \in Active /\ Agreed(u, x) => k = 1
    <3>1. CASE OfUser(AcceptedBuddies(dropped), x) = {}
      <4>1. ~(x \in Active /\ Agreed(u, x))
        BY <1>5, <1>7, <3>1 DEF OfUser, AcceptedBuddies
      <4>2. Cardinality({}) = 0
        BY FS_EmptySet
      <4> QED
        BY <3>1, <4>1, <4>2
    <3>2. CASE OfUser(AcceptedBuddies(dropped), x) # {}
      <4>1. \A p, q \in OfUser(AcceptedBuddies(dropped), x) : p = q
        BY <1>6 DEF dropped, OfUser, AcceptedBuddies
      <4>2. PICK q : OfUser(AcceptedBuddies(dropped), x) = {q}
        BY <3>2, <4>1
      <4>3. Cardinality({q}) = 1
        BY FS_Singleton
      <4> QED
        BY <4>2, <4>3
    <3> QED
      BY <3>1, <3>2
  <2>2. buddies'[x] = RowsAfterDrop(lost)[x]
    BY <1>2 DEF RowsAfterDrop
  <2>3. /\ \A y \in Users \ {u} : RowsFor(x, y)' = RowsFor(x, y)
        /\ RowsFor(x, u)' = {IF k = 1 /\ q.linked THEN SetDisconnected(q) ELSE q :
                               q \in RowsFor(x, u)}
    BY <1>0, <2>1, <2>2, LostRows DEF Agreement
  <2> QED
    BY <2>1, <2>3
<1>10. ASSUME NEW x \in Users \ {u}
       PROVE  /\ \A y \in Users \ {u} : NamedFrom(x, y)' = NamedFrom(x, y)
              /\ NamedFrom(x, u)' \subseteq NamedFrom(x, u) \cup {DisconnectMessage(u)}
  <2>1. named'[x] = (IF x \in users THEN NotFrom(named[x], {u}) ELSE named[x])
                       \cup (IF x \in told THEN {DisconnectMessage(u)} ELSE {})
    BY <1>2 DEF NamedAfterDrop
  <2>2. DisconnectMessage(u).user = u
    BY DEF DisconnectMessage
  <2> QED
    BY <2>1, <2>2 DEF NamedFrom, OfUser, NotFrom
<1>11. ASSUME NEW x \in Users \ {u}
       PROVE  /\ \A y \in Users \ {u} : AnonymousFrom(x, y)' = AnonymousFrom(x, y)
              /\ AnonymousFrom(x, u)' \subseteq AnonymousFrom(x, u)
  <2>1. anonymous'[x] \in {anonymous[x], NotFrom(anonymous[x], {u})}
    BY <1>2 DEF AnonymousAfterDrop
  <2> QED
    BY <2>1 DEF AnonymousFrom, OfUser, NotFrom
<1> QED
  BY <1>8, <1>9, <1>10, <1>11 DEF Same

\* The deletion of an account.
LEMMA DeleteUserAgreement ==
  ASSUME Agreement, NEW t \in Threads, NEW u \in Users, DeleteUser(t, u)
  PROVE  Agreement'
<1>0. IInv /\ TypeOK /\ IInv' /\ TypeOK'
  BY DeleteUserIInv DEF Agreement, IInv
<1>1. /\ request[t].user = u /\ Done(t) /\ u \in Active
      /\ account' = [account EXCEPT ![u] = "deleted"]
  BY DEF DeleteUser, Serves, Active
<1>2. /\ Active' = Active \ {u}
      /\ \A x \in Users \ {u} : account'[x] = account[x]
      /\ \A x \in Active : x \in Users /\ account[x] = "active"
  BY <1>0, <1>1 DEF Active, TypeOK
<1>3. \A x, y \in Users \ {u} : Same(x, y)
  BY DeleteUserEffect
<1>4. \A y \in Users :
        /\ RowsFor(u, y)' = {} /\ NamedFrom(u, y)' = {} /\ AnonymousFrom(u, y)' = {}
  BY DeleteUserEffect
<1>5. ASSUME NEW x \in Users \ {u}
      PROVE  /\ Regular(x, u)'
             /\ x \in Active => Answers(x, u)'
             /\ \A q \in RowsFor(x, u)' : \E r \in RowsFor(x, u) : q.id = r.id
             /\ RowsFor(x, u) = {} => RowsFor(x, u)' = {}
  <2>1. /\ NamedFrom(x, u)' \subseteq NamedFrom(x, u) \cup {DisconnectMessage(u)}
        /\ AnonymousFrom(x, u)' \subseteq AnonymousFrom(x, u)
    BY DeleteUserEffect
  <2>2. PICK k \in {0, 1} :
          /\ RowsFor(x, u)' =
               {IF k = 1 /\ q.linked THEN SetDisconnected(q) ELSE q : q \in RowsFor(x, u)}
          /\ x \in Active /\ Agreed(u, x) => k = 1
    BY DeleteUserEffect
  <2>3. Regular(x, u)
    BY DEF Agreement, PairsAgree
  <2>4. \A q \in RowsFor(x, u) :
          /\ SetDisconnected(q).id = q.id
          /\ SetDisconnected(q).status = "REJECTED" /\ ~SetDisconnected(q).linked
    BY <1>0, SetDisconnectedRow DEF TypeOK, RowsFor, OfUser
  <2>5. /\ \A p, q \in RowsFor(x, u)' : p = q
        /\ \A q \in RowsFor(x, u)' : q.linked <=> q.status = "ACCEPTED"
        /\ \A q \in RowsFor(x, u)' : \E r \in RowsFor(x, u) : q.id = r.id
        /\ RowsFor(x, u) = {} => RowsFor(x, u)' = {}
        /\ \A r \in RowsFor(x, u) : r.status = "REQUESTED" => r \in RowsFor(x, u)'
    BY <2>2, <2>3, <2>4 DEF Regular
  <2>6. Regular(x, u)'
    <3>1. DisconnectMessage(u).type = "disconnect"
      BY DEF DisconnectMessage
    <3> QED
      BY <2>1, <2>3, <2>5, <3>1 DEF Regular
  <2>7. ASSUME x \in Active
        PROVE  Answers(x, u)'
    <3>1. Answers(x, u) /\ AcceptedRows(u, x) /\ AcceptedRows(x, u)
      BY <1>1, <2>7, PairFacts
    <3>2. ResponsesFrom(x, u)' \subseteq ResponsesFrom(x, u)
      BY <2>1 DEF ResponsesFrom, Responses
    <3>3. \A q \in RowsFor(x, u)' : q.status # "ACCEPTED"
      <4>1. CASE k = 1
        BY <2>2, <2>3, <2>4, <4>1 DEF Regular
      <4>2. CASE k = 0
        <5>1. ~Agreed(u, x)
          BY <2>2, <2>7, <4>2
        <5>2. \A q \in RowsFor(x, u) : q.status # "ACCEPTED"
          BY <3>1, <5>1 DEF Agreed, AcceptedRows
        <5> QED
          BY <2>2, <4>2, <5>2
      <4> QED
        BY <4>1, <4>2
    <3> QED
      BY <2>5, <3>1, <3>2, <3>3 DEF Answers
  <2> QED
    BY <2>5, <2>6, <2>7
<1>6. \A x, y \in Users : Regular(x, y)'
  <2> SUFFICES ASSUME NEW x \in Users, NEW y \in Users PROVE Regular(x, y)'
    OBVIOUS
  <2>1. CASE x = u
    BY <1>4, <2>1 DEF Regular
  <2>2. CASE x # u /\ y = u
    BY <1>5, <2>2
  <2>3. CASE x # u /\ y # u
    BY <1>3, <2>3, SameRegular DEF Agreement, PairsAgree
  <2> QED
    BY <2>1, <2>2, <2>3
<1>7. ASSUME NEW x \in Active', NEW y \in Users
      PROVE  Answers(x, y)'
  <2>1. x \in Active /\ x \in Users \ {u}
    BY <1>2
  <2>2. CASE y = u
    BY <1>5, <2>1, <2>2
  <2>3. CASE y # u
    BY <1>2, <1>3, <2>1, <2>3, SameAnswers DEF Agreement, PairsAgree
  <2> QED
    BY <2>2, <2>3
<1>8. ASSUME NEW x \in Active', NEW y \in Active'
      PROVE  Agree(x, y)'
  <2>1. x \in Active /\ y \in Active /\ x \in Users \ {u} /\ y \in Users \ {u}
    BY <1>2
  <2> QED
    BY <1>3, <2>1, SameAgree DEF Agreement, PairsAgree
<1>9. PairsAgree'
  BY <1>6, <1>7, <1>8 DEF PairsAgree
<1>10. IdsAreUnique'
  <2>1. ASSUME NEW x \in Users, NEW y \in Users, NEW q \in RowsFor(x, y)'
        PROVE  \E r \in RowsFor(x, y) : q.id = r.id
    BY <1>3, <1>4, <1>5, <2>1 DEF Same
  <2> QED
    BY <1>0, <2>1, IdsStayUniqueByPair DEF Agreement
<1>11. OneRequestAtATime' /\ RequestsAreUpToDate'
  <2>1. \A x \in Active' \ {u}, y \in Users : RowsFor(x, y) = {} => RowsFor(x, y)' = {}
    BY <1>2, <1>3, <1>5 DEF Same
  <2>2. \A x, y \in Active' : /\ HasDisconnect(x, y)' <=> HasDisconnect(x, y)
                              /\ RowsFor(x, y)' = RowsFor(x, y)
    BY <1>2, <1>3 DEF Same, HasDisconnect
  <2> QED
    BY <1>0, <1>1, <1>2, <2>1, <2>2, RequestsStayUpToDate DEF Agreement
<1> QED
  BY <1>0, <1>9, <1>10, <1>11 DEF Agreement

\* Every step keeps the invariant, for users without Habits.
LEMMA NextAgreement ==
  ASSUME Agreement, NoCrossing, Habits = {}, [Next]_vars
  PROVE  Agreement'
<1>1. ASSUME NEW t \in Threads, NEW u \in Users, Prepare(t, u)
      PROVE  Agreement'
  BY <1>1, PrepareAgreement
<1>2. ASSUME NEW t \in Threads, NEW u \in Users, RequestStep(t, u)
      PROVE  Agreement'
  <2>1. ASSUME NEW v \in Users, AssertValidBuddy(t, u, v)
        PROVE  Agreement'
    BY <2>1, AssertValidBuddyAgreement
  <2>2. ASSUME NEW v \in Users, HandleBuddyRequest(t, u, v)
        PROVE  Agreement'
    BY <2>2, HandleBuddyRequestAgreement
  <2>3. ASSUME NEW m \in anonymous[u], Accept(t, u, m)
        PROVE  Agreement'
    BY <2>3, AcceptAgreement
  <2>4. ASSUME NEW m \in anonymous[u], Reject(t, u, m)
        PROVE  Agreement'
    BY <2>4, RejectAgreement
  <2>5. ASSUME NEW m \in anonymous[u], DeleteMessage(t, u, m)
        PROVE  Agreement'
    BY <2>5, DeleteMessageAgreement
  <2>6. ASSUME NEW r \in buddies[u], RemoveBuddy(t, u, r)
        PROVE  Agreement'
    BY <2>6, RemoveBuddyAgreement
  <2>7. CASE DeleteUser(t, u)
    BY <2>7, DeleteUserAgreement
  <2> QED
    BY <1>2, <2>1, <2>2, <2>3, <2>4, <2>5, <2>6, <2>7 DEF RequestStep
<1>3. CASE \/ \E t \in Threads : EndRequest(t)
           \/ \E u \in Users : OverwriteUser(u)
           \/ UNCHANGED vars
  BY <1>3, OtherStepsAgreement
<1> QED
  BY <1>1, <1>2, <1>3 DEF Next

-----------------------------------------------------------------------------
(* The theorems.                                                           *)

\* The rows and messages of any two users agree in every state.
THEOREM PairsAlwaysAgree ==
  ASSUME Habits = {}
  PROVE  Spec => []Agreement
<1>1. Init => Agreement
  BY InitAgreement
<1>2. Agreement /\ NoCrossing /\ [Next]_vars => Agreement'
  BY NextAgreement
<1>3. Spec => []NoCrossing
  BY NoneCross
<1> QED
  BY <1>1, <1>2, <1>3, PTL DEF Spec

\* What the properties speak of, in terms of pairs.
LEMMA RowOfPair ==
  ASSUME Agreement, NEW u \in Active, NEW r \in buddies[u]
  PROVE  /\ u \in Users /\ r.user \in Users /\ r \in RowsFor(u, r.user)
         /\ Regular(u, r.user) /\ Answers(u, r.user)
         /\ r.user \in Active => Agree(u, r.user)
<1>1. u \in Users /\ r.user \in Users
  BY DEF Agreement, IInv, TypeOK, Row, Active
<1> QED
  BY <1>1 DEF Agreement, PairsAgree, RowsFor, OfUser

\* The same of a message.
LEMMA MessageOfPair ==
  ASSUME Agreement, NEW u \in Active, NEW m \in Box(u)
  PROVE  /\ u \in Users /\ m.user \in Users
         /\ m \in named[u] <=> m \in NamedFrom(u, m.user)
         /\ m \in anonymous[u] <=> m \in AnonymousFrom(u, m.user)
         /\ m \in BoxFrom(u, m.user)
         /\ Regular(u, m.user) /\ Answers(u, m.user)
<1>1. u \in Users /\ m.user \in Users
  BY DEF Agreement, IInv, TypeOK, Message, Active, Box
<1> QED
  BY <1>1 DEF Agreement, PairsAgree, NamedFrom, AnonymousFrom, BoxFrom, OfUser, Box

\* A request with an accept link is one of a pending row, so that the response
\* to it finds the row.
THEOREM OpenRequestsHaveRows ==
  ASSUME Habits = {}
  PROVE  Spec => []RequestsAreOpen
<1>1. ASSUME Agreement PROVE RequestsAreOpen
  <2> SUFFICES ASSUME NEW v \in Active, NEW m \in Box(v), m.type = "request",
                      m.status = "REQUESTED", m.user \in Active
               PROVE  \E r \in buddies[m.user] : r.id = m.buddy /\ r.status = "REQUESTED"
    BY DEF RequestsAreOpen
  <2>1. m \in BoxFrom(v, m.user) /\ OpenRequests(m.user, v)
    BY <1>1, MessageOfPair, PairFacts
  <2>2. IsOpen(m)
    BY DEF IsOpen
  <2> QED
    BY <2>1, <2>2 DEF OpenRequests, RowsFor, OfUser
<1> QED
  BY <1>1, PairsAlwaysAgree, PTL

\* Nobody waits for ever: a pending row has an open request, a response or a
\* disconnect, which will settle it.
THEOREM PendingRowsCanSettle ==
  ASSUME Habits = {}
  PROVE  Spec => []InvitationCanBeAnswered
<1>1. ASSUME Agreement PROVE InvitationCanBeAnswered
  <2> SUFFICES ASSUME NEW u \in Active, NEW r \in buddies[u],
                      r.status = "REQUESTED", r.user \in Active
               PROVE  \/ \E m \in Box(r.user) :
                           m.type = "request" /\ m.buddy = r.id /\ m.status = "REQUESTED"
                      \/ \E m \in Responses(anonymous[u]) : m.buddy = r.id
                      \/ DisconnectMessage(r.user) \in named[u]
    BY DEF InvitationCanBeAnswered
  <2> DEFINE w == r.user
  <2>1. /\ r \in RowsFor(u, w) /\ Regular(u, w) /\ Answers(u, w) /\ PendingRows(u, w)
    BY <1>1, RowOfPair DEF Agree
  <2> HIDE DEF w
  <2>2. CASE \E m \in BoxFrom(w, u) : IsOpen(m) /\ m.buddy = r.id
    BY <2>2 DEF BoxFrom, NamedFrom, AnonymousFrom, OfUser, Box, IsOpen, w
  <2>3. CASE ResponsesFrom(u, w) # {}
    <3>1. PICK m \in ResponsesFrom(u, w) : m.buddy = r.id
      BY <2>1, <2>3 DEF Answers, Regular
    <3> QED
      BY <3>1 DEF ResponsesFrom, Responses, AnonymousFrom, OfUser
  <2>4. CASE HasDisconnect(u, w)
    BY <2>4 DEF HasDisconnect, NamedFrom, OfUser, w
  <2> QED
    BY <2>1, <2>2, <2>3, <2>4 DEF PendingRows
<1> QED
  BY <1>1, PairsAlwaysAgree, PTL

\* Buddies are buddies of each other, up to an acceptance not yet processed.
THEOREM BuddiesAreMutual ==
  ASSUME Habits = {}
  PROVE  Spec => []BuddiesAgree
<1>1. ASSUME Agreement PROVE BuddiesAgree
  <2> SUFFICES ASSUME NEW u \in Active, NEW r \in AcceptedBuddies(buddies[u]),
                      r.user \in Active
               PROVE  \E q \in buddies[r.user] :
                        \/ q.user = u /\ q.linked
                        \/ q.status = "REQUESTED" /\ HasAcceptance(r.user, q)
    BY DEF BuddiesAgree
  <2> DEFINE w == r.user
  <2>1. r \in buddies[u] /\ r.status = "ACCEPTED" /\ w \in Active
    BY DEF AcceptedBuddies
  <2>2. r \in RowsFor(u, w) /\ AcceptedRows(u, w)
    BY <1>1, <2>1, RowOfPair DEF Agree
  <2>3. Regular(w, u) /\ Answers(w, u)
    BY <1>1, <2>1, PairFacts
  <2> HIDE DEF w
  <2>4. PICK q \in RowsFor(w, u) :
          \/ q.status = "ACCEPTED"
          \/ q.status = "REQUESTED" /\ \E m \in ResponsesFrom(w, u) : m.status = "ACCEPTED"
    BY <2>1, <2>2 DEF AcceptedRows
  <2>5. q \in buddies[w] /\ q.user = u
    BY DEF RowsFor, OfUser
  <2>6. CASE q.status = "ACCEPTED"
    BY <2>3, <2>5, <2>6 DEF Regular, w
  <2>7. CASE q.status = "REQUESTED" /\ \E m \in ResponsesFrom(w, u) : m.status = "ACCEPTED"
    <3>1. PICK m \in ResponsesFrom(w, u) : m.status = "ACCEPTED"
      BY <2>7
    <3>2. m.buddy = q.id
      BY <2>3 DEF Answers, Regular
    <3>3. m \in Responses(anonymous[w])
      BY DEF ResponsesFrom, Responses, AnonymousFrom, OfUser
    <3>4. HasAcceptance(w, q)
      BY <3>1, <3>2, <3>3 DEF HasAcceptance, Accepts
    <3> QED
      BY <2>5, <2>7, <3>4 DEF w
  <2> QED
    BY <2>4, <2>6, <2>7
<1> QED
  BY <1>1, PairsAlwaysAgree, PTL

\* A disconnected row does not stay: its disconnect is on the way.
THEOREM DisconnectedRowsGo ==
  ASSUME Habits = {}
  PROVE  Spec => []DisconnectIsUnderway
<1>1. ASSUME Agreement PROVE DisconnectIsUnderway
  <2> SUFFICES ASSUME NEW u \in Active, NEW r \in buddies[u],
                      r.status = "REJECTED", r.user \in Active
               PROVE  DisconnectMessage(r.user) \in named[u]
    BY DEF DisconnectIsUnderway
  <2>1. r \in RowsFor(u, r.user) /\ Disconnects(u, r.user)
    BY <1>1, RowOfPair DEF Agree
  <2> QED
    BY <2>1 DEF Disconnects, HasDisconnect, NamedFrom, OfUser
<1> QED
  BY <1>1, PairsAlwaysAgree, PTL

\* The preparation, which every request of an app starts with, finds no message
\* it fails on: nobody is locked out by a buddy who has gone.
THEOREM NobodyIsLockedOut ==
  ASSUME Habits = {}
  PROVE  Spec => []PreparationNeverFails
<1>1. ASSUME Agreement PROVE PreparationNeverFails
  <2> SUFFICES ASSUME NEW u \in Active
               PROVE  /\ CanForget(buddies[u])
                      /\ CanBeAnswered(
                           buddies[u] \ RelatedToRemovedUsers(buddies[u]),
                           Responses(AnonymousAfterForget(u) \cup NamedAfterForget(u)))
    BY DEF PreparationNeverFails
  <2>1. CanForget(buddies[u])
    <3> SUFFICES ASSUME NEW r \in AcceptedBuddies(RelatedToRemovedUsers(buddies[u]))
                 PROVE  account[r.user] = "overwritten"
      BY DEF CanForget
    <3>1. r \in buddies[u] /\ r.status = "ACCEPTED" /\ account[r.user] # "active"
      BY DEF AcceptedBuddies, RelatedToRemovedUsers
    <3>2. r.user \in Users /\ account[r.user] # "deleted"
      BY <1>1, <3>1, RowOfPair DEF Answers
    <3> QED
      BY <1>1, <3>1, <3>2 DEF Agreement, IInv, TypeOK
  <2>2. ASSUME NEW m \in Responses(AnonymousAfterForget(u) \cup NamedAfterForget(u))
        PROVE  \E r \in buddies[u] \ RelatedToRemovedUsers(buddies[u]) : r.id = m.buddy
    <3>1. m \in Box(u) /\ m.type = "response"
      BY DEF Responses, AnonymousAfterForget, NamedAfterForget, NotFrom, Box
    <3>2. m \in AnonymousFrom(u, m.user) /\ m \notin named[u] /\ Answers(u, m.user)
      BY <1>1, <3>1, MessageOfPair DEF Regular, Box
    <3>3. m \in anonymous[u] /\ m.user \notin AnsweredGone(buddies[u], anonymous[u])
      BY <3>2 DEF Responses, AnonymousAfterForget, NamedAfterForget, NotFrom,
                  AnonymousFrom, OfUser
    <3>4. PICK r \in RowsFor(u, m.user) : r.id = m.buddy /\ r.status = "REQUESTED"
      BY <3>1, <3>2 DEF Answers, ResponsesFrom, Responses
    <3>5. r \in buddies[u] /\ r.user = m.user
      BY DEF RowsFor, OfUser
    <3>6. r \notin RelatedToRemovedUsers(buddies[u])
      BY <3>1, <3>3, <3>4, <3>5 DEF AnsweredGone, Responses
    <3> QED
      BY <3>4, <3>5, <3>6
  <2> QED
    BY <2>1, <2>2 DEF CanBeAnswered
<1> QED
  BY <1>1, PairsAlwaysAgree, PTL

=============================================================================
