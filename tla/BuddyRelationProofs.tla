------------------------ MODULE BuddyRelationProofs ------------------------
(***************************************************************************)
(* Proofs about BuddyRelation, for any users, threads and habits: type     *)
(* correctness, and that nobody becomes a buddy who did not want to.       *)
(***************************************************************************)
EXTENDS BuddyRelation, TLAPS

-----------------------------------------------------------------------------
(* What the operators on rows and messages return.                         *)

\* A row that was brought up to date is one there was, accepted by a response
\* if it was not before.
LEMMA AnsweredRows ==
  ASSUME NEW rows \in SUBSET Row, NEW responses \in SUBSET Message,
         NEW q \in Answered(rows, responses)
  PROVE  \E r \in rows :
           /\ q \in Row /\ q.id = r.id /\ q.user = r.user
           /\ q.status = "ACCEPTED" =>
                \/ r.status = "ACCEPTED"
                \/ \E m \in responses : Accepts(m, r)
<1>1. PICK r \in rows : q = IF \E m \in responses : Accepts(m, r)
                            THEN SetAccepted(r) ELSE r
  BY DEF Answered
<1>2. CASE \E m \in responses : Accepts(m, r)
  <2>1. q = SetAccepted(r)
    BY <1>1, <1>2
  <2>2. q \in Row /\ q.id = r.id /\ q.user = r.user
    BY <2>1 DEF SetAccepted, Row
  <2> QED
    BY <1>2, <2>2
<1>3. CASE ~\E m \in responses : Accepts(m, r)
  BY <1>1, <1>3
<1> QED
  BY <1>2, <1>3

\* The rows of the others after u dropped buddies are the ones there were, and
\* no more of them are accepted.
LEMMA DroppedRows ==
  ASSUME NEW lost, NEW v \in Users, buddies \in [Users -> SUBSET Row],
         NEW q \in RowsAfterDrop(lost)[v]
  PROVE  \E r \in buddies[v] :
           /\ q \in Row /\ q.id = r.id /\ q.user = r.user
           /\ q.status = "ACCEPTED" => r.status = "ACCEPTED"
<1>1. PICK r \in buddies[v] : q = IF r \in lost THEN SetDisconnected(r) ELSE r
  BY DEF RowsAfterDrop
<1>2. r \in Row
  BY <1>1
<1> QED
  BY <1>1, <1>2 DEF SetDisconnected, Row

\* The subsets that Picks returns are subsets.
LEMMA PicksSubsets ==
  ASSUME NEW set, NEW n, NEW S \in Picks(set, n)
  PROVE  S \subseteq set
BY DEF Picks

\* A disconnect is a message.
LEMMA DisconnectIsMessage ==
  ASSUME NEW u \in Users
  PROVE  /\ DisconnectMessage(u) \in Message
         /\ DisconnectMessage(u).type = "disconnect"
         /\ DisconnectMessage(u).buddy = 0
BY DEF DisconnectMessage, Message

\* What is in the named boxes after u dropped buddies.
LEMMA DroppedNamed ==
  ASSUME NEW u \in Users, NEW users, NEW told, NEW v \in Users,
         named \in [Users -> SUBSET Message],
         NEW m \in NamedAfterDrop(u, users, told)[v]
  PROVE  m \in named[v] \/ m = DisconnectMessage(u)
BY DEF NamedAfterDrop, NotFrom

\* What is in the anonymous boxes after u dropped buddies.
LEMMA DroppedAnonymous ==
  ASSUME NEW u \in Users, NEW dropped, NEW v \in Users,
         NEW m \in AnonymousAfterDrop(u, dropped)[v]
  PROVE  m \in anonymous[v]
BY DEF AnonymousAfterDrop, NotFrom

-----------------------------------------------------------------------------
(* Steps that create no row.                                               *)

\* Every row is one there was, brought up to date at most.
RowsDerive ==
  \A u \in Users : \A q \in buddies'[u] : \E r \in buddies[u] :
    /\ q.id = r.id /\ q.user = r.user
    /\ q.status = "ACCEPTED" =>
         r.status = "ACCEPTED" \/ \E m \in Responses(Box(u)) : Accepts(m, r)

\* Every message was in the same box, up to the status of a request, or is a
\* disconnect.
MessagesDerive ==
  \A u \in Users : \A m \in Box(u)' :
    \/ m.type = "disconnect" /\ m.buddy = 0
    \/ \E n \in Box(u) :
         /\ n.type = m.type /\ n.user = m.user /\ n.buddy = m.buddy
         /\ m.type = "response" => n.status = m.status

\* Rows that derive from wanted ones by wanted responses are wanted.
LEMMA RowsStayWanted ==
  ASSUME IInv, RowsDerive, created' = created, consent' = consent
  PROVE  RowsAreWanted'
<1> SUFFICES ASSUME NEW u \in Users, NEW q \in buddies'[u]
             PROVE  /\ q.id <= created
                    /\ <<u, q.user>> \in consent
                    /\ q.status = "ACCEPTED" => <<q.user, u>> \in consent
  BY DEF RowsAreWanted
<1>1. PICK r \in buddies[u] :
        /\ q.id = r.id /\ q.user = r.user
        /\ q.status = "ACCEPTED" =>
             r.status = "ACCEPTED" \/ \E m \in Responses(Box(u)) : Accepts(m, r)
  BY DEF RowsDerive
<1>2. /\ r.id <= created
      /\ <<u, r.user>> \in consent
      /\ r.status = "ACCEPTED" => <<r.user, u>> \in consent
  BY DEF IInv, RowsAreWanted
<1>3. ASSUME NEW m \in Responses(Box(u)), Accepts(m, r)
      PROVE  <<r.user, u>> \in consent
  <2>1. m \in Box(u) /\ m.type = "response"
    BY DEF Responses
  <2>2. m.buddy = r.id /\ m.status = "ACCEPTED"
    BY <1>3 DEF Accepts
  <2>3. <<m.user, u>> \in consent /\ r.user = m.user
    BY <2>1, <2>2 DEF IInv, MessagesAreWanted, MessageIsWanted
  <2> QED
    BY <2>3
<1> QED
  BY <1>1, <1>2, <1>3

\* Messages that were there are wanted, as no row gets another user.
LEMMA MessagesStayWanted ==
  ASSUME IInv, RowsDerive, MessagesDerive, created' = created, consent' = consent
  PROVE  MessagesAreWanted'
<1> SUFFICES ASSUME NEW u \in Users, NEW m \in Box(u)'
             PROVE  /\ m.buddy <= created'
                    /\ m.type = "request" =>
                         /\ <<m.user, u>> \in consent'
                         /\ \A v \in Users : \A r \in buddies'[v] :
                              r.id = m.buddy => v = m.user /\ r.user = u
                    /\ m.type = "response" =>
                         /\ m.status = "ACCEPTED" => <<m.user, u>> \in consent'
                         /\ \A r \in buddies'[u] : r.id = m.buddy => r.user = m.user
  BY DEF MessagesAreWanted, MessageIsWanted
<1>1. CASE m.type = "disconnect" /\ m.buddy = 0
  BY <1>1 DEF IInv, TypeOK
<1>2. CASE \E n \in Box(u) :
             /\ n.type = m.type /\ n.user = m.user /\ n.buddy = m.buddy
             /\ m.type = "response" => n.status = m.status
  <2>1. PICK n \in Box(u) :
          /\ n.type = m.type /\ n.user = m.user /\ n.buddy = m.buddy
          /\ m.type = "response" => n.status = m.status
    BY <1>2
  <2>2. n \in Message
    BY DEF IInv, TypeOK, Box
  <2>3. n.user \in Users
    BY <2>2 DEF Message
  <2>4. /\ n.buddy <= created
        /\ n.type = "request" =>
             /\ <<n.user, u>> \in consent
             /\ \A v \in Users : \A r \in buddies[v] :
                  r.id = n.buddy => v = n.user /\ r.user = u
        /\ n.type = "response" =>
             /\ n.status = "ACCEPTED" => <<n.user, u>> \in consent
             /\ \A r \in buddies[u] : r.id = n.buddy => r.user = n.user
    BY DEF IInv, MessagesAreWanted, MessageIsWanted
  <2>5. \A w \in Users : \A q \in buddies'[w] :
          \E r \in buddies[w] : q.id = r.id /\ q.user = r.user
    BY DEF RowsDerive
  <2> QED
    BY <2>1, <2>3, <2>4, <2>5
<1> QED
  BY <1>1, <1>2 DEF MessagesDerive

-----------------------------------------------------------------------------
(* The steps.                                                              *)

\* Everybody starts without buddies, messages and requests.
LEMMA InitIInv == Init => IInv
<1> SUFFICES ASSUME Init PROVE IInv
  OBVIOUS
<1>1. TypeOK
  BY BuddyRelationAssumption DEF Init, TypeOK, Idle, Request
<1>2. RowsAreWanted
  BY DEF Init, RowsAreWanted
<1>3. MessagesAreWanted
  BY DEF Init, MessagesAreWanted, MessageIsWanted, Box
<1> QED
  BY <1>1, <1>2, <1>3 DEF IInv

\* A step that leaves the rows and the messages alone.
LEMMA SameRowsAndMessages ==
  ASSUME IInv, UNCHANGED <<buddies, named, anonymous, created, consent>>
  PROVE  RowsAreWanted' /\ MessagesAreWanted'
BY DEF IInv, RowsAreWanted, MessagesAreWanted, MessageIsWanted, Box

\* The preparation brings rows up to date and moves messages.
LEMMA PrepareIInv ==
  ASSUME IInv, NEW t \in Threads, NEW u \in Users, Prepare(t, u)
  PROVE  IInv'
<1> DEFINE box == AnonymousAfterForget(u) \cup NamedAfterForget(u)
           rows == buddies[u] \ RelatedToRemovedUsers(buddies[u])
           parted == {m.user : m \in {n \in box : n.type = "disconnect"}}
<1>0. TypeOK
  BY DEF IInv
<1>1. box \subseteq Box(u) /\ box \in SUBSET Message
  BY <1>0 DEF AnonymousAfterForget, NamedAfterForget, NotFrom, Box, TypeOK
<1>2. rows \subseteq buddies[u] /\ rows \in SUBSET Row
  BY <1>0 DEF TypeOK
<1>3. PICK dropped \in Picks(Answered(rows, Responses(box)), OneOf(parted)) :
        buddies' = [buddies EXCEPT ![u] = Answered(rows, Responses(box)) \ dropped]
  BY DEF Prepare
<1>4. /\ anonymous' = [v \in Users |->
             IF v = u THEN {m \in box : m.type = "request"}
             ELSE IF v \in EstablishedGone(buddies[u]) THEN NotFrom(anonymous[v], {u})
             ELSE anonymous[v]]
      /\ named' = [named EXCEPT ![u] = {}]
      /\ request' = [request EXCEPT ![t] =
                       [user |-> u, stage |-> "prepared", invitee |-> NoUser]]
      /\ UNCHANGED <<account, created, consent>>
  BY DEF Prepare
<1> HIDE DEF box, rows, parted
<1>5. Responses(box) \in SUBSET Message /\ Responses(box) \subseteq Responses(Box(u))
  BY <1>1 DEF Responses
<1>6. \A q \in Answered(rows, Responses(box)) : \E r \in buddies[u] :
        /\ q \in Row /\ q.id = r.id /\ q.user = r.user
        /\ q.status = "ACCEPTED" =>
             r.status = "ACCEPTED" \/ \E m \in Responses(Box(u)) : Accepts(m, r)
  BY <1>2, <1>5, AnsweredRows
<1>7. RowsDerive
  <2> SUFFICES ASSUME NEW w \in Users, NEW q \in buddies'[w]
               PROVE  \E r \in buddies[w] :
                        /\ q.id = r.id /\ q.user = r.user
                        /\ q.status = "ACCEPTED" =>
                             r.status = "ACCEPTED" \/ \E m \in Responses(Box(w)) : Accepts(m, r)
    BY DEF RowsDerive
  <2>1. CASE w = u
    BY <1>0, <1>3, <1>6, <2>1 DEF TypeOK
  <2>2. CASE w # u
    BY <1>0, <1>3, <2>2 DEF TypeOK
  <2> QED
    BY <2>1, <2>2
<1>8. \A w \in Users : Box(w)' \subseteq Box(w)
  BY <1>0, <1>1, <1>4 DEF Box, TypeOK, NotFrom
<1>9. MessagesDerive
  BY <1>8 DEF MessagesDerive
<1>10. TypeOK'
  <2>1. buddies' \in [Users -> SUBSET Row]
    BY <1>0, <1>3, <1>6 DEF TypeOK
  <2>2. named' \in [Users -> SUBSET Message]
    BY <1>0, <1>4 DEF TypeOK
  <2>3. anonymous' \in [Users -> SUBSET Message]
    BY <1>0, <1>1, <1>4 DEF TypeOK, NotFrom
  <2>4. request' \in [Threads -> Request]
    BY <1>0, <1>4 DEF TypeOK, Request
  <2> QED
    BY <1>0, <1>4, <2>1, <2>2, <2>3, <2>4 DEF TypeOK
<1> QED
  BY <1>4, <1>7, <1>9, <1>10, RowsStayWanted, MessagesStayWanted DEF IInv

\* The new row for v, and that its ID is in no row and in no message yet.
LEMMA NewRowIsNew ==
  ASSUME IInv, created < MaxBuddies, NEW v \in Users,
         NEW status \in {"REQUESTED", "ACCEPTED"}
  PROVE  /\ NewRow(v, status) \in Row
         /\ NewRow(v, status).id = created + 1
         /\ NewRow(v, status).user = v
         /\ NewRow(v, status).status = status
         /\ created \in Nat /\ created + 1 \in Id /\ created + 1 \in 0..MaxBuddies
         /\ \A w \in Users : \A r \in buddies[w] : r.id \in Nat /\ r.id <= created
         /\ \A w \in Users : \A m \in Box(w) : m.buddy \in Nat /\ m.buddy <= created
<1>1. created \in 0..MaxBuddies /\ MaxBuddies \in Nat
  BY BuddyRelationAssumption DEF IInv, TypeOK
<1>2. created \in Nat /\ created + 1 \in Id /\ created + 1 \in 0..MaxBuddies
  BY <1>1 DEF Id
<1>3. /\ NewRow(v, status) \in Row
      /\ NewRow(v, status).id = created + 1
      /\ NewRow(v, status).user = v
      /\ NewRow(v, status).status = status
  BY <1>2 DEF NewRow, Row
<1>4. \A w \in Users : \A r \in buddies[w] : r \in Row /\ r.id <= created
  BY DEF IInv, TypeOK, RowsAreWanted
<1>5. \A w \in Users : \A m \in Box(w) : m \in Message /\ m.buddy <= created
  BY DEF IInv, TypeOK, MessagesAreWanted, MessageIsWanted, Box
<1>6. \A r \in Row : r.id \in Nat
  BY DEF Row, Id
<1>7. \A m \in Message : m.buddy \in Nat
  BY DEF Message, Id
<1> QED
  BY <1>2, <1>3, <1>4, <1>5, <1>6, <1>7

\* An invitation: a row and a message with the same new ID.
LEMMA HandleBuddyRequestIInv ==
  ASSUME IInv, NEW t \in Threads, NEW u \in Users, NEW v \in Users,
         HandleBuddyRequest(t, u, v)
  PROVE  IInv'
<1> DEFINE row == NewRow(v, "REQUESTED")
           message == RequestMessage(u)
<1>0. TypeOK
  BY DEF IInv
<1>1. /\ created < MaxBuddies
      /\ buddies' = [buddies EXCEPT ![u] = @ \cup {row}]
      /\ named' = [named EXCEPT ![v] = @ \cup {message}]
      /\ consent' = consent \cup {<<u, v>>}
      /\ created' = created + 1
      /\ request' = [request EXCEPT ![t] = Idle]
      /\ UNCHANGED <<account, anonymous>>
  BY DEF HandleBuddyRequest, Done
<1>2. /\ row \in Row /\ row.id = created + 1 /\ row.user = v /\ row.status = "REQUESTED"
      /\ created \in Nat /\ created + 1 \in Id /\ created + 1 \in 0..MaxBuddies
      /\ \A w \in Users : \A r \in buddies[w] : r.id \in Nat /\ r.id <= created
      /\ \A w \in Users : \A m \in Box(w) : m.buddy \in Nat /\ m.buddy <= created
  BY <1>1, NewRowIsNew
<1>3. /\ message \in Message /\ message.type = "request" /\ message.user = u
      /\ message.buddy = created + 1
  BY <1>2 DEF RequestMessage, Message
<1> HIDE DEF row, message
<1>4. TypeOK'
  BY <1>0, <1>1, <1>2, <1>3 DEF TypeOK, Idle, Request
<1>5. \A w \in Users : buddies'[w] = IF w = u THEN buddies[w] \cup {row} ELSE buddies[w]
  BY <1>0, <1>1 DEF TypeOK
<1>6. \A w \in Users : Box(w)' \subseteq (IF w = v THEN Box(w) \cup {message} ELSE Box(w))
  BY <1>0, <1>1 DEF TypeOK, Box
<1>7. RowsAreWanted'
  <2> SUFFICES ASSUME NEW w \in Users, NEW r \in buddies'[w]
               PROVE  /\ r.id <= created'
                      /\ <<w, r.user>> \in consent'
                      /\ r.status = "ACCEPTED" => <<r.user, w>> \in consent'
    BY DEF RowsAreWanted
  <2>1. CASE r \in buddies[w]
    BY <1>1, <1>2, <2>1 DEF IInv, RowsAreWanted
  <2>2. CASE w = u /\ r = row
    BY <1>1, <1>2, <2>2
  <2> QED
    BY <1>5, <2>1, <2>2
<1>8. MessagesAreWanted'
  <2> SUFFICES ASSUME NEW w \in Users, NEW m \in Box(w)'
               PROVE  /\ m.buddy <= created'
                      /\ m.type = "request" =>
                           /\ <<m.user, w>> \in consent'
                           /\ \A x \in Users : \A r \in buddies'[x] :
                                r.id = m.buddy => x = m.user /\ r.user = w
                      /\ m.type = "response" =>
                           /\ m.status = "ACCEPTED" => <<m.user, w>> \in consent'
                           /\ \A r \in buddies'[w] : r.id = m.buddy => r.user = m.user
    BY DEF MessagesAreWanted, MessageIsWanted
  <2>1. CASE m \in Box(w)
    <3>1. m.user \in Users /\ m.buddy \in Nat /\ m.buddy <= created
      BY <1>0, <1>2, <2>1 DEF TypeOK, Box, Message
    <3>2. m.buddy # created + 1
      BY <1>2, <3>1
    <3>3. \A z \in Users : \A r \in buddies'[z] : r.id = m.buddy => r \in buddies[z]
      BY <1>2, <1>5, <3>2
    <3>4. m.buddy <= created'
      BY <1>1, <1>2, <3>1
    <3> QED
      BY <1>1, <2>1, <3>1, <3>3, <3>4 DEF IInv, MessagesAreWanted, MessageIsWanted
  <2>2. CASE w = v /\ m = message
    <3>1. \A r \in buddies[u] : r.id # created + 1
      BY <1>2
    <3> QED
      BY <1>1, <1>2, <1>3, <1>5, <2>2, <3>1
  <2> QED
    BY <1>6, <2>1, <2>2
<1> QED
  BY <1>4, <1>7, <1>8 DEF IInv

\* What the box says of an unanswered request.
LEMMA RequestIsWanted ==
  ASSUME IInv, NEW u \in Users, NEW m \in anonymous[u], m.type = "request"
  PROVE  /\ m \in Box(u) /\ m \in Message /\ m.user \in Users
         /\ m.buddy \in Nat /\ m.buddy <= created /\ created \in Nat
         /\ <<m.user, u>> \in consent
         /\ \A v \in Users : \A r \in buddies[v] :
              r.id = m.buddy => v = m.user /\ r.user = u
<1>1. m \in Box(u) /\ m \in Message
  BY DEF IInv, TypeOK, Box
<1>2. m.user \in Users /\ m.buddy \in Nat
  BY <1>1 DEF Message, Id
<1>3. /\ m.buddy <= created
      /\ <<m.user, u>> \in consent
      /\ \A v \in Users : \A r \in buddies[v] :
           r.id = m.buddy => v = m.user /\ r.user = u
  BY <1>1 DEF IInv, MessagesAreWanted, MessageIsWanted
<1>4. created \in Nat
  BY BuddyRelationAssumption DEF IInv, TypeOK
<1> QED
  BY <1>1, <1>2, <1>3, <1>4

\* The request with another status, and the response to it.
LEMMA AnswerTyped ==
  ASSUME NEW u \in Users, NEW m \in Message, m.type = "request",
         NEW status \in {"ACCEPTED", "REJECTED"},
         NEW answered, answered = [m EXCEPT !.status = status],
         NEW response, response = ResponseMessage(u, m.buddy, status)
  PROVE  /\ answered \in Message /\ answered.type = "request"
         /\ answered.user = m.user /\ answered.buddy = m.buddy
         /\ response \in Message /\ response.type = "response"
         /\ response.user = u /\ response.buddy = m.buddy
         /\ response.status = status
<1>1. /\ answered \in Message /\ answered.type = "request"
      /\ answered.user = m.user /\ answered.buddy = m.buddy
  BY DEF Message
<1>2. m.buddy \in Id \cup {0}
  BY DEF Message
<1>3. /\ response \in Message /\ response.type = "response"
      /\ response.user = u /\ response.buddy = m.buddy
      /\ response.status = status
  BY <1>2 DEF ResponseMessage, Message
<1> QED
  BY <1>1, <1>3

\* An acceptance: a row for the sender, who asked for it, and the response that
\* makes the row of the sender accepted.
LEMMA AcceptIInv ==
  ASSUME IInv, NEW t \in Threads, NEW u \in Users, NEW m \in anonymous[u],
         Accept(t, u, m)
  PROVE  IInv'
<1> DEFINE row == NewRow(m.user, "ACCEPTED")
           answered == [m EXCEPT !.status = "ACCEPTED"]
           response == ResponseMessage(u, m.buddy, "ACCEPTED")
<1>0. TypeOK
  BY DEF IInv
<1>1. /\ m.type = "request"
      /\ created < MaxBuddies
      /\ buddies' = [buddies EXCEPT ![u] = @ \cup {row}]
      /\ anonymous' = [anonymous EXCEPT
           ![u] = (@ \ {m}) \cup {answered},
           ![m.user] = @ \cup {response}]
      /\ consent' = consent \cup {<<u, m.user>>}
      /\ created' = created + 1
      /\ request' = [request EXCEPT ![t] = Idle]
      /\ UNCHANGED <<account, named>>
  BY DEF Accept, Done, WithStatus
<1>2. /\ m \in Box(u) /\ m \in Message /\ m.user \in Users
      /\ m.buddy \in Nat /\ m.buddy <= created /\ created \in Nat
      /\ <<m.user, u>> \in consent
      /\ \A v \in Users : \A r \in buddies[v] :
           r.id = m.buddy => v = m.user /\ r.user = u
  BY <1>1, RequestIsWanted
<1>10. /\ answered \in Message /\ answered.type = "request"
      /\ answered.user = m.user /\ answered.buddy = m.buddy
      /\ response \in Message /\ response.type = "response"
      /\ response.user = u /\ response.buddy = m.buddy
  <2>1. "ACCEPTED" \in {"ACCEPTED", "REJECTED"}
    OBVIOUS
  <2> QED
    BY <1>1, <1>2, <2>1, AnswerTyped
<1>3. /\ row \in Row /\ row.id = created + 1 /\ row.user = m.user
      /\ created + 1 \in Id /\ created + 1 \in 0..MaxBuddies
      /\ \A w \in Users : \A r \in buddies[w] : r.id \in Nat /\ r.id <= created
      /\ \A w \in Users : \A n \in Box(w) : n.buddy \in Nat /\ n.buddy <= created
  BY <1>1, <1>2, NewRowIsNew
<1> HIDE DEF row, answered, response
<1>4. TypeOK'
  <2>1. buddies' \in [Users -> SUBSET Row]
    BY <1>0, <1>1, <1>3 DEF TypeOK
  <2>2. anonymous' \in [Users -> SUBSET Message]
    BY <1>0, <1>1, <1>2, <1>10 DEF TypeOK
  <2>3. request' \in [Threads -> Request]
    BY <1>0, <1>1 DEF TypeOK, Idle, Request
  <2> QED
    BY <1>0, <1>1, <1>2, <1>3, <2>1, <2>2, <2>3 DEF TypeOK
<1>5. \A w \in Users : buddies'[w] = IF w = u THEN buddies[w] \cup {row} ELSE buddies[w]
  BY <1>0, <1>1 DEF TypeOK
<1>6. \A w \in Users : \A n \in Box(w)' :
        n \in Box(w) \/ (w = u /\ n = answered) \/ (w = m.user /\ n = response)
  BY <1>0, <1>1, <1>2, <1>10 DEF TypeOK, Box
<1>7. RowsAreWanted'
  <2> SUFFICES ASSUME NEW w \in Users, NEW r \in buddies'[w]
               PROVE  /\ r.id <= created'
                      /\ <<w, r.user>> \in consent'
                      /\ r.status = "ACCEPTED" => <<r.user, w>> \in consent'
    BY DEF RowsAreWanted
  <2>1. CASE r \in buddies[w]
    BY <1>1, <1>2, <1>3, <2>1 DEF IInv, RowsAreWanted
  <2>2. CASE w = u /\ r = row
    BY <1>1, <1>2, <1>3, <2>2
  <2> QED
    BY <1>5, <2>1, <2>2
<1>8. \A w \in Users : \A n \in Nat : n <= created =>
        \A r \in buddies'[w] : r.id = n => r \in buddies[w]
  <2> SUFFICES ASSUME NEW w \in Users, NEW n \in Nat, n <= created,
                      NEW r \in buddies'[w], r.id = n
               PROVE  r \in buddies[w]
    OBVIOUS
  <2>1. n # created + 1
    BY <1>2
  <2> QED
    BY <1>3, <1>5, <2>1
<1>9. MessagesAreWanted'
  <2> SUFFICES ASSUME NEW w \in Users, NEW n \in Box(w)'
               PROVE  /\ n.buddy <= created'
                      /\ n.type = "request" =>
                           /\ <<n.user, w>> \in consent'
                           /\ \A v \in Users : \A r \in buddies'[v] :
                                r.id = n.buddy => v = n.user /\ r.user = w
                      /\ n.type = "response" =>
                           /\ n.status = "ACCEPTED" => <<n.user, w>> \in consent'
                           /\ \A r \in buddies'[w] : r.id = n.buddy => r.user = n.user
    BY DEF MessagesAreWanted, MessageIsWanted
  <2>1. CASE n \in Box(w)
    <3>1. n.user \in Users /\ n.buddy \in Nat /\ n.buddy <= created
      BY <1>0, <1>3, <2>1 DEF TypeOK, Box, Message
    <3>2. n.buddy <= created'
      BY <1>1, <1>2, <3>1
    <3> QED
      BY <1>1, <1>8, <2>1, <3>1, <3>2 DEF IInv, MessagesAreWanted, MessageIsWanted
  <2>2. CASE w = u /\ n = answered
    <3>1. n.buddy <= created'
      BY <1>1, <1>2, <1>10, <2>2
    <3> QED
      BY <1>1, <1>2, <1>10, <1>8, <2>2, <3>1
  <2>3. CASE w = m.user /\ n = response
    <3>1. n.buddy <= created'
      BY <1>1, <1>2, <1>10, <2>3
    <3> QED
      BY <1>1, <1>2, <1>10, <1>8, <2>3, <3>1
  <2> QED
    BY <1>6, <2>1, <2>2, <2>3
<1> QED
  BY <1>4, <1>7, <1>9 DEF IInv

\* A rejection: a response that makes no row accepted.
LEMMA RejectIInv ==
  ASSUME IInv, NEW t \in Threads, NEW u \in Users, NEW m \in anonymous[u],
         Reject(t, u, m)
  PROVE  IInv'
<1> DEFINE answered == [m EXCEPT !.status = "REJECTED"]
           response == ResponseMessage(u, m.buddy, "REJECTED")
<1>0. TypeOK
  BY DEF IInv
<1>1. /\ m.type = "request"
      /\ anonymous' = [anonymous EXCEPT
           ![u] = (@ \ {m}) \cup {answered},
           ![m.user] = @ \cup {response}]
      /\ request' = [request EXCEPT ![t] = Idle]
      /\ UNCHANGED <<account, buddies, named, created, consent>>
  BY DEF Reject, Done, WithStatus
<1>2. /\ m \in Box(u) /\ m \in Message /\ m.user \in Users
      /\ m.buddy <= created
      /\ <<m.user, u>> \in consent
      /\ \A v \in Users : \A r \in buddies[v] :
           r.id = m.buddy => v = m.user /\ r.user = u
  BY <1>1, RequestIsWanted
<1>10. /\ answered \in Message /\ answered.type = "request"
      /\ answered.user = m.user /\ answered.buddy = m.buddy
      /\ response \in Message /\ response.type = "response"
      /\ response.user = u /\ response.buddy = m.buddy /\ response.status = "REJECTED"
  <2>1. "REJECTED" \in {"ACCEPTED", "REJECTED"}
    OBVIOUS
  <2> QED
    BY <1>1, <1>2, <2>1, AnswerTyped
<1> HIDE DEF answered, response
<1>3. TypeOK'
  <2>1. anonymous' \in [Users -> SUBSET Message]
    BY <1>0, <1>1, <1>2, <1>10 DEF TypeOK
  <2>2. request' \in [Threads -> Request]
    BY <1>0, <1>1 DEF TypeOK, Idle, Request
  <2> QED
    BY <1>0, <1>1, <2>1, <2>2 DEF TypeOK
<1>4. \A w \in Users : \A n \in Box(w)' :
        n \in Box(w) \/ (w = u /\ n = answered) \/ (w = m.user /\ n = response)
  BY <1>0, <1>1, <1>2, <1>10 DEF TypeOK, Box
<1>5. RowsAreWanted'
  BY <1>1 DEF IInv, RowsAreWanted
<1>6. MessagesAreWanted'
  <2> SUFFICES ASSUME NEW w \in Users, NEW n \in Box(w)'
               PROVE  /\ n.buddy <= created'
                      /\ n.type = "request" =>
                           /\ <<n.user, w>> \in consent'
                           /\ \A v \in Users : \A r \in buddies'[v] :
                                r.id = n.buddy => v = n.user /\ r.user = w
                      /\ n.type = "response" =>
                           /\ n.status = "ACCEPTED" => <<n.user, w>> \in consent'
                           /\ \A r \in buddies'[w] : r.id = n.buddy => r.user = n.user
    BY DEF MessagesAreWanted, MessageIsWanted
  <2>1. CASE n \in Box(w)
    BY <1>1, <2>1 DEF IInv, MessagesAreWanted, MessageIsWanted
  <2>2. CASE w = u /\ n = answered
    BY <1>1, <1>2, <1>10, <2>2
  <2>3. CASE w = m.user /\ n = response
    BY <1>1, <1>2, <1>10, <2>3
  <2> QED
    BY <1>4, <2>1, <2>2, <2>3
<1> QED
  BY <1>3, <1>5, <1>6 DEF IInv

\* Dropping buddies: nothing new but disconnects, and rows are lost at most.
LEMMA RemoveBuddyIInv ==
  ASSUME IInv, NEW t \in Threads, NEW u \in Users, NEW r \in buddies[u],
         RemoveBuddy(t, u, r)
  PROVE  IInv'
<1>0. TypeOK
  BY DEF IInv
<1>1. PICK pending \in Picks(Responses(anonymous[u]),
                             OneOf(IF r.status = "REQUESTED" THEN {r.user} ELSE {})) :
        LET rows == Answered(buddies[u], pending)
            dropped == {q \in rows : q.id = r.id}
            strangers == BuddyUsers({q \in dropped : q.linked})
        IN \E lost \in Disconnections(u, dropped), told \in Told(dropped) :
             /\ buddies' = [RowsAfterDrop(lost) EXCEPT ![u] = rows \ dropped]
             /\ named' = [NamedAfterDrop(u, {r.user}, told) EXCEPT
                            ![u] = NotFrom(@, strangers)]
             /\ anonymous' = [AnonymousAfterDrop(u, dropped) EXCEPT
                                ![u] = NotFrom(@ \ pending, strangers)]
  BY DEF RemoveBuddy
<1> DEFINE dropped == {q \in Answered(buddies[u], pending) : q.id = r.id}
           strangers == BuddyUsers({q \in dropped : q.linked})
<1>2. PICK lost, told :
          /\ buddies' = [RowsAfterDrop(lost) EXCEPT
                           ![u] = Answered(buddies[u], pending) \ dropped]
          /\ named' = [NamedAfterDrop(u, {r.user}, told) EXCEPT
                         ![u] = NotFrom(@, strangers)]
          /\ anonymous' = [AnonymousAfterDrop(u, dropped) EXCEPT
                             ![u] = NotFrom(@ \ pending, strangers)]
  BY <1>1
<1> HIDE DEF dropped, strangers
<1>3. /\ request' = [request EXCEPT ![t] = Idle]
      /\ UNCHANGED <<account, created, consent>>
  BY DEF RemoveBuddy, Done
<1>4. pending \subseteq Responses(Box(u)) /\ pending \in SUBSET Message
  <2>1. pending \subseteq Responses(anonymous[u])
    BY <1>1, PicksSubsets
  <2> QED
    BY <1>0, <2>1 DEF Responses, Box, TypeOK
<1>5. \A q \in Answered(buddies[u], pending) : \E p \in buddies[u] :
        /\ q \in Row /\ q.id = p.id /\ q.user = p.user
        /\ q.status = "ACCEPTED" =>
             p.status = "ACCEPTED" \/ \E m \in Responses(Box(u)) : Accepts(m, p)
  <2>1. buddies[u] \in SUBSET Row
    BY <1>0 DEF TypeOK
  <2> QED
    BY <1>4, <2>1, AnsweredRows
<1>6. \A v \in Users : \A q \in RowsAfterDrop(lost)[v] : \E p \in buddies[v] :
        /\ q \in Row /\ q.id = p.id /\ q.user = p.user
        /\ q.status = "ACCEPTED" => p.status = "ACCEPTED"
  BY <1>0, DroppedRows DEF TypeOK
<1>7. /\ buddies'[u] \subseteq Answered(buddies[u], pending)
      /\ \A v \in Users \ {u} : buddies'[v] = RowsAfterDrop(lost)[v]
      /\ buddies' = [v \in Users |-> buddies'[v]]
  BY <1>2 DEF RowsAfterDrop
<1>8. RowsDerive
  BY <1>5, <1>6, <1>7 DEF RowsDerive
<1>9. \A v \in Users : \A m \in named'[v] : m \in named[v] \/ m = DisconnectMessage(u)
  <2>1. \A v \in Users : named'[v] \subseteq NamedAfterDrop(u, {r.user}, told)[v]
    BY <1>2 DEF NamedAfterDrop, NotFrom
  <2> QED
    BY <1>0, <2>1, DroppedNamed DEF TypeOK
<1>10. \A v \in Users : anonymous'[v] \subseteq anonymous[v]
  <2>1. \A v \in Users : anonymous'[v] \subseteq AnonymousAfterDrop(u, dropped)[v]
    BY <1>2 DEF AnonymousAfterDrop, NotFrom
  <2> QED
    BY <2>1, DroppedAnonymous
<1>11. MessagesDerive
  <2> SUFFICES ASSUME NEW v \in Users, NEW m \in Box(v)'
               PROVE  m \in Box(v) \/ (m.type = "disconnect" /\ m.buddy = 0)
    BY DEF MessagesDerive
  <2> QED
    BY <1>9, <1>10, DisconnectIsMessage DEF Box
<1>12. TypeOK'
  <2>1. buddies' \in [Users -> SUBSET Row]
    BY <1>5, <1>6, <1>7
  <2>2. named' = [v \in Users |-> named'[v]] /\ anonymous' = [v \in Users |-> anonymous'[v]]
    BY <1>2 DEF NamedAfterDrop, AnonymousAfterDrop
  <2>3. named' \in [Users -> SUBSET Message]
    BY <1>0, <1>9, <2>2, DisconnectIsMessage DEF TypeOK
  <2>4. anonymous' \in [Users -> SUBSET Message]
    BY <1>0, <1>10, <2>2 DEF TypeOK
  <2>5. request' \in [Threads -> Request]
    BY <1>0, <1>3 DEF TypeOK, Idle, Request
  <2> QED
    BY <1>0, <1>3, <2>1, <2>3, <2>4, <2>5 DEF TypeOK
<1> QED
  BY <1>3, <1>8, <1>11, <1>12, RowsStayWanted, MessagesStayWanted DEF IInv

\* Deleting an account: likewise, and the rows and messages of the user go.
LEMMA DeleteUserIInv ==
  ASSUME IInv, NEW t \in Threads, NEW u \in Users, DeleteUser(t, u)
  PROVE  IInv'
<1>0. TypeOK
  BY DEF IInv
<1>1. PICK pending :
        LET rows == Answered(buddies[u], pending)
            dropped == rows \ RelatedToRemovedUsers(rows)
        IN \E lost \in Disconnections(u, dropped), told \in Told(dropped) :
             /\ buddies' = [RowsAfterDrop(lost) EXCEPT ![u] = {}]
             /\ named' = [NamedAfterDrop(u, BuddyUsers(dropped), told) EXCEPT ![u] = {}]
             /\ anonymous' = [v \in Users |->
                  IF v = u THEN {}
                  ELSE IF v \in EstablishedGone(rows) THEN NotFrom(anonymous[v], {u})
                  ELSE AnonymousAfterDrop(u, dropped)[v]]
  BY DEF DeleteUser
<1> DEFINE rows == Answered(buddies[u], pending)
           dropped == rows \ RelatedToRemovedUsers(rows)
           users == BuddyUsers(dropped)
           gone == EstablishedGone(rows)
<1>10. PICK lost, told :
          /\ buddies' = [RowsAfterDrop(lost) EXCEPT ![u] = {}]
          /\ named' = [NamedAfterDrop(u, users, told) EXCEPT ![u] = {}]
          /\ anonymous' = [v \in Users |->
               IF v = u THEN {}
               ELSE IF v \in gone THEN NotFrom(anonymous[v], {u})
               ELSE AnonymousAfterDrop(u, dropped)[v]]
  BY <1>1
<1> HIDE DEF dropped, users, gone
<1>2. /\ account' = [account EXCEPT ![u] = "deleted"]
      /\ request' = [request EXCEPT ![t] = Idle]
      /\ UNCHANGED <<created, consent>>
  BY DEF DeleteUser, Done
<1>3. \A v \in Users : \A q \in RowsAfterDrop(lost)[v] : \E p \in buddies[v] :
        /\ q \in Row /\ q.id = p.id /\ q.user = p.user
        /\ q.status = "ACCEPTED" => p.status = "ACCEPTED"
  BY <1>0, DroppedRows DEF TypeOK
<1>4. /\ buddies' = [v \in Users |-> buddies'[v]]
      /\ \A v \in Users : buddies'[v] \subseteq RowsAfterDrop(lost)[v]
  BY <1>10 DEF RowsAfterDrop
<1>5. RowsDerive
  BY <1>3, <1>4 DEF RowsDerive
<1>6. \A v \in Users : \A m \in named'[v] : m \in named[v] \/ m = DisconnectMessage(u)
  <2>1. \A v \in Users : named'[v] \subseteq NamedAfterDrop(u, users, told)[v]
    BY <1>10 DEF NamedAfterDrop
  <2> QED
    BY <1>0, <2>1, DroppedNamed DEF TypeOK
<1>7. \A v \in Users : anonymous'[v] \subseteq anonymous[v]
  BY <1>10, DroppedAnonymous DEF NotFrom
<1>8. MessagesDerive
  <2> SUFFICES ASSUME NEW v \in Users, NEW m \in Box(v)'
               PROVE  m \in Box(v) \/ (m.type = "disconnect" /\ m.buddy = 0)
    BY DEF MessagesDerive
  <2> QED
    BY <1>6, <1>7, DisconnectIsMessage DEF Box
<1>9. TypeOK'
  <2>1. buddies' \in [Users -> SUBSET Row]
    BY <1>3, <1>4
  <2>2. named' = [v \in Users |-> named'[v]] /\ anonymous' = [v \in Users |-> anonymous'[v]]
    BY <1>10 DEF NamedAfterDrop
  <2>3. named' \in [Users -> SUBSET Message]
    BY <1>0, <1>6, <2>2, DisconnectIsMessage DEF TypeOK
  <2>4. anonymous' \in [Users -> SUBSET Message]
    BY <1>0, <1>7, <2>2 DEF TypeOK
  <2>5. request' \in [Threads -> Request]
    BY <1>0, <1>2 DEF TypeOK, Idle, Request
  <2> QED
    BY <1>0, <1>2, <2>1, <2>3, <2>4, <2>5 DEF TypeOK
<1> QED
  BY <1>2, <1>5, <1>8, <1>9, RowsStayWanted, MessagesStayWanted DEF IInv

\* Deleting a message loses one.
LEMMA DeleteMessageIInv ==
  ASSUME IInv, NEW t \in Threads, NEW u \in Users, NEW m \in anonymous[u],
         DeleteMessage(t, u, m)
  PROVE  IInv'
<1>0. TypeOK
  BY DEF IInv
<1>1. /\ anonymous' = [anonymous EXCEPT ![u] = @ \ {m}]
      /\ request' = [request EXCEPT ![t] = Idle]
      /\ UNCHANGED <<account, buddies, named, created, consent>>
  BY DEF DeleteMessage, Done
<1>2. \A v \in Users : Box(v)' \subseteq Box(v)
  BY <1>0, <1>1 DEF TypeOK, Box
<1>3. RowsDerive
  BY <1>1 DEF RowsDerive
<1>4. MessagesDerive
  BY <1>2 DEF MessagesDerive
<1>5. TypeOK'
  BY <1>0, <1>1 DEF TypeOK, Idle, Request
<1> QED
  BY <1>1, <1>3, <1>4, <1>5, RowsStayWanted, MessagesStayWanted DEF IInv

\* The other steps change neither rows nor messages.
LEMMA OtherStepsIInv ==
  ASSUME IInv,
         \/ \E t \in Threads, u, v \in Users : AssertValidBuddy(t, u, v)
         \/ \E t \in Threads : EndRequest(t)
         \/ \E u \in Users : OverwriteUser(u)
         \/ UNCHANGED vars
  PROVE  IInv'
<1>0. TypeOK
  BY DEF IInv
<1>1. UNCHANGED <<buddies, named, anonymous, created, consent>>
  BY DEF AssertValidBuddy, EndRequest, OverwriteUser, vars
<1>2. TypeOK'
  <2>1. CASE \E t \in Threads, u, v \in Users : AssertValidBuddy(t, u, v)
    <3>1. PICK t \in Threads, v \in Users :
            /\ request' = [request EXCEPT ![t].stage = "checked", ![t].invitee = v]
            /\ account' = account
      BY <2>1 DEF AssertValidBuddy
    <3>2. request[t] \in Request
      BY <1>0 DEF TypeOK
    <3>3. [request[t] EXCEPT !.stage = "checked", !.invitee = v] \in Request
      BY <3>2 DEF Request
    <3>4. request' \in [Threads -> Request]
      BY <1>0, <3>1, <3>3 DEF TypeOK
    <3> QED
      BY <1>0, <1>1, <3>1, <3>4 DEF TypeOK
  <2>2. CASE \E t \in Threads : EndRequest(t)
    BY <1>0, <2>2 DEF EndRequest, TypeOK, Idle, Request
  <2>3. CASE \E u \in Users : OverwriteUser(u)
    BY <1>0, <2>3 DEF OverwriteUser, TypeOK
  <2>4. CASE UNCHANGED vars
    BY <1>0, <2>4 DEF vars, TypeOK
  <2> QED
    BY <2>1, <2>2, <2>3, <2>4
<1> QED
  BY <1>1, <1>2, SameRowsAndMessages DEF IInv

\* Every step keeps the invariant.
LEMMA NextIInv ==
  ASSUME IInv, [Next]_vars
  PROVE  IInv'
<1>1. ASSUME NEW t \in Threads, NEW u \in Users, Prepare(t, u)
      PROVE  IInv'
  BY <1>1, PrepareIInv
<1>2. ASSUME NEW t \in Threads, NEW u \in Users, RequestStep(t, u)
      PROVE  IInv'
  <2>1. ASSUME NEW v \in Users, AssertValidBuddy(t, u, v)
        PROVE  IInv'
    BY <2>1, OtherStepsIInv
  <2>2. ASSUME NEW v \in Users, HandleBuddyRequest(t, u, v)
        PROVE  IInv'
    BY <2>2, HandleBuddyRequestIInv
  <2>3. ASSUME NEW m \in anonymous[u], Accept(t, u, m)
        PROVE  IInv'
    BY <2>3, AcceptIInv
  <2>4. ASSUME NEW m \in anonymous[u], Reject(t, u, m)
        PROVE  IInv'
    BY <2>4, RejectIInv
  <2>5. ASSUME NEW m \in anonymous[u], DeleteMessage(t, u, m)
        PROVE  IInv'
    BY <2>5, DeleteMessageIInv
  <2>6. ASSUME NEW r \in buddies[u], RemoveBuddy(t, u, r)
        PROVE  IInv'
    BY <2>6, RemoveBuddyIInv
  <2>7. CASE DeleteUser(t, u)
    BY <2>7, DeleteUserIInv
  <2> QED
    BY <1>2, <2>1, <2>2, <2>3, <2>4, <2>5, <2>6, <2>7 DEF RequestStep
<1>3. CASE \/ \E t \in Threads : EndRequest(t)
           \/ \E u \in Users : OverwriteUser(u)
           \/ UNCHANGED vars
  BY <1>3, OtherStepsIInv
<1> QED
  BY <1>1, <1>2, <1>3 DEF Next

-----------------------------------------------------------------------------
(* The theorems.                                                           *)

\* The invariant holds in every state, whatever the apps do.
THEOREM Invariance == Spec => []IInv
<1>1. Init => IInv
  BY InitIInv
<1>2. IInv /\ [Next]_vars => IInv'
  BY NextIInv
<1> QED
  BY <1>1, <1>2, PTL DEF Spec

\* Type correctness.
THEOREM TypeCorrect == Spec => []TypeOK
<1>1. IInv => TypeOK
  BY DEF IInv
<1> QED
  BY <1>1, Invariance, PTL

\* Nobody has a buddy who did not want to be one, or whom the user did not want:
\* with any number of users and requests at a time, guarded links or not.
THEOREM ConsentHolds == Spec => []Consent
<1>1. IInv => Consent
  BY DEF IInv, RowsAreWanted, Consent, AcceptedBuddies
<1> QED
  BY <1>1, Invariance, PTL
=============================================================================
