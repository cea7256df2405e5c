----------------------- MODULE BuddyRefinementProofs -----------------------
(***************************************************************************)
(* With users who have none of the Habits, rows and messages implement one *)
(* relation between pairs of users: BuddyRelation implements BuddyPair,    *)
(* for any users and threads.                                              *)
(*                                                                         *)
(* With the invariant Agreement the two variables of BuddyPair are simple: *)
(* u has invited w if there is an open request of u in a box of w, and two *)
(* users are connected if one of them has an accepted row for the other.   *)
(* Each step is described by what it does to these two predicates.         *)
(***************************************************************************)
EXTENDS BuddyAgreementProofs

-----------------------------------------------------------------------------
(* The abstract variables.                                                 *)

Asked(u, w) == \E m \in BoxFrom(w, u) : IsOpen(m)

HasAccepted(u, w) == \E r \in RowsFor(u, w) : r.status = "ACCEPTED"

Joined(u, w) == HasAccepted(u, w) \/ HasAccepted(w, u)

InvitedAreAsked ==
  Invited = {pair \in Active \X Active : Asked(pair[1], pair[2])}

ConnectedAreJoined ==
  Connected = {pair \in SUBSET Active :
                 \E u, w \in Active : pair = {u, w} /\ Joined(u, w)}

\* The request in a box names a row of its sender, and of nobody else.
LEMMA RequestsNameRows ==
  ASSUME MessagesAreWanted, NEW u \in Users, NEW m \in Box(u), m.type = "request",
         NEW v \in Users, NEW r \in buddies[v], r.id = m.buddy
  PROVE  v = m.user /\ r.user = u
<1>1. MessageIsWanted(u, m)
  BY DEF MessagesAreWanted
<1> QED
  BY <1>1 DEF MessageIsWanted

\* The variables of BuddyPair are the requests that can be answered and the pairs
\* with an accepted row.
LEMMA RelationIsPaired == Agreement => InvitedAreAsked /\ ConnectedAreJoined
<1> SUFFICES ASSUME Agreement PROVE InvitedAreAsked /\ ConnectedAreJoined
  OBVIOUS
<1>1. ASSUME NEW u \in Active, NEW w \in Active
      PROVE  IsOpenInvitation(u, w) <=> Asked(u, w)
  <2>1. ASSUME IsOpenInvitation(u, w)
        PROVE  Asked(u, w)
    <3>1. PICK r \in buddies[u], m \in Box(w) :
            m.type = "request" /\ m.buddy = r.id /\ m.status = "REQUESTED"
      BY <2>1 DEF IsOpenInvitation
    <3>2. u \in Users /\ w \in Users
      BY DEF Active
    <3>3. MessagesAreWanted
      BY DEF Agreement, IInv
    <3>4. m.user = u
      BY <3>1, <3>2, <3>3, RequestsNameRows
    <3> QED
      BY <3>1, <3>4 DEF Asked, IsOpen, BoxFrom, NamedFrom, AnonymousFrom, OfUser, Box
  <2>2. ASSUME Asked(u, w)
        PROVE  IsOpenInvitation(u, w)
    <3>1. PICK m \in BoxFrom(w, u) : IsOpen(m)
      BY <2>2 DEF Asked
    <3>2. PICK r \in RowsFor(u, w) : r.id = m.buddy /\ r.status = "REQUESTED"
      BY <3>1, PairFacts DEF OpenRequests
    <3>3. m \in Box(w) /\ m.type = "request" /\ m.status = "REQUESTED"
      BY <3>1 DEF IsOpen, BoxFrom, NamedFrom, AnonymousFrom, OfUser, Box
    <3> QED
      BY <3>2, <3>3 DEF IsOpenInvitation, RowsFor, OfUser
  <2> QED
    BY <2>1, <2>2
<1>2. InvitedAreAsked
  BY <1>1 DEF InvitedAreAsked, Invited
<1>3. ASSUME NEW u \in Active, NEW w \in Active
      PROVE  /\ Has(u, w) <=> HasAccepted(u, w)
             /\ Has(u, w) => u # w /\ (Has(w, u) \/ WillHave(w, u))
  <2>1. Has(u, w) <=> HasAccepted(u, w)
    BY DEF Has, HasAccepted, AcceptedBuddies, RowsFor, OfUser
  <2>2. ASSUME Has(u, w)
        PROVE  u # w /\ (Has(w, u) \/ WillHave(w, u))
    <3>1. PICK r \in RowsFor(u, w) : r.status = "ACCEPTED"
      BY <2>1, <2>2 DEF HasAccepted
    <3>2. Regular(u, w) /\ Answers(w, u) /\ Regular(w, u) /\ AcceptedRows(u, w)
      BY PairFacts
    <3>3. u # w
      BY <3>1, <3>2 DEF Regular
    <3>4. PICK q \in RowsFor(w, u) :
            \/ q.status = "ACCEPTED"
            \/ q.status = "REQUESTED" /\ \E m \in ResponsesFrom(w, u) : m.status = "ACCEPTED"
      BY <3>1, <3>2 DEF AcceptedRows
    <3>5. q \in buddies[w] /\ q.user = u
      BY DEF RowsFor, OfUser
    <3>6. CASE q.status = "ACCEPTED"
      BY <3>3, <3>5, <3>6 DEF Has, AcceptedBuddies
    <3>7. CASE q.status = "REQUESTED" /\ \E m \in ResponsesFrom(w, u) : m.status = "ACCEPTED"
      <4>1. PICK m \in ResponsesFrom(w, u) : m.status = "ACCEPTED"
        BY <3>7
      <4>2. m.buddy = q.id /\ m \in Responses(anonymous[w])
        BY <3>2 DEF Answers, Regular, ResponsesFrom, Responses, AnonymousFrom, OfUser
      <4> QED
        BY <3>3, <3>5, <3>7, <4>1, <4>2 DEF WillHave, HasAcceptance, Accepts
    <3> QED
      BY <3>4, <3>6, <3>7
  <2> QED
    BY <2>1, <2>2
<1>4. ConnectedAreJoined
  <2>1. \A pair \in Connected : \E u, w \in Active : pair = {u, w} /\ Joined(u, w)
    BY <1>3 DEF Connected, Joined
  <2>2. ASSUME NEW u \in Active, NEW w \in Active, Joined(u, w)
        PROVE  {u, w} \in Connected
    <3>1. PICK x \in {u, w}, y \in {u, w} : {x, y} = {u, w} /\ Has(x, y)
      BY <1>3, <2>2 DEF Joined
    <3> QED
      BY <1>3, <3>1 DEF Connected
  <2>3. Connected \subseteq SUBSET Active
    BY DEF Connected
  <2> QED
    BY <2>1, <2>2, <2>3 DEF ConnectedAreJoined
<1> QED
  BY <1>2, <1>4

-----------------------------------------------------------------------------
(* What a step does to the relation.                                       *)

KeepsInvitations == \A x, y \in Active : Asked(x, y)' <=> Asked(x, y)

KeepsConnections == \A x, y \in Active : Joined(x, y)' <=> Joined(x, y)

AddsInvitation(u, w) ==
  \A x, y \in Active : Asked(x, y)' <=> Asked(x, y) \/ (x = u /\ y = w)

RemovesInvitation(u, w) ==
  /\ Asked(u, w)
  /\ \A x, y \in Active : Asked(x, y)' <=> Asked(x, y) /\ ~(x = u /\ y = w)

Connects(u, w) ==
  \A x, y \in Active : Joined(x, y)' <=> Joined(x, y) \/ {x, y} = {u, w}

Disconnected(u, w) ==
  /\ Joined(u, w)
  /\ \A x, y \in Active : Joined(x, y)' <=> Joined(x, y) /\ {x, y} # {u, w}

IsSilent == Active' = Active /\ KeepsInvitations /\ KeepsConnections

Invites(u, w) ==
  u # w /\ Active' = Active /\ AddsInvitation(u, w) /\ KeepsConnections

AcceptsInvitation(u, w) ==
  Active' = Active /\ RemovesInvitation(u, w) /\ Connects(u, w)

CallsOff(u, w) ==
  Active' = Active /\ RemovesInvitation(u, w) /\ KeepsConnections

Parts(u, w) ==
  Active' = Active /\ KeepsInvitations /\ Disconnected(u, w)

Leaves(u) ==
  /\ Active' = Active \ {u}
  /\ \A x, y \in Active' : Asked(x, y)' <=> Asked(x, y)
  /\ \A x, y \in Active' : Joined(x, y)' <=> Joined(x, y)

\* The step that does this is the one of BuddyPair.
LEMMA StepOfPair ==
  ASSUME InvitedAreAsked, ConnectedAreJoined, InvitedAreAsked', ConnectedAreJoined'
  PROVE  /\ IsSilent => UNCHANGED <<Invited, Connected>>
         /\ \A u, w \in Active : Invites(u, w) => Pair!Invite(u, w)
         /\ \A u, w \in Active : AcceptsInvitation(u, w) => Pair!Accept(w, u)
         /\ \A u, w \in Active : CallsOff(u, w) => Pair!CallOff(u, w)
         /\ \A u, w \in Active : Parts(u, w) => Pair!Part(u, w)
         /\ \A u \in Users : Leaves(u) => Pair!Leave(u)
<1>1. ASSUME Active' = Active, KeepsInvitations
      PROVE  Invited' = Invited
  BY <1>1 DEF InvitedAreAsked, KeepsInvitations
<1>2. ASSUME Active' = Active, KeepsConnections
      PROVE  Connected' = Connected
  BY <1>2 DEF ConnectedAreJoined, KeepsConnections
<1>3. ASSUME NEW u \in Active, NEW w \in Active, Active' = Active, AddsInvitation(u, w)
      PROVE  Invited' = Invited \cup {<<u, w>>}
  BY <1>3 DEF InvitedAreAsked, AddsInvitation
<1>4. ASSUME NEW u \in Active, NEW w \in Active, Active' = Active, RemovesInvitation(u, w)
      PROVE  <<u, w>> \in Invited /\ Invited' = Invited \ {<<u, w>>}
  BY <1>4 DEF InvitedAreAsked, RemovesInvitation
<1>5. ASSUME NEW u \in Active, NEW w \in Active, Active' = Active, Connects(u, w)
      PROVE  Connected' = Connected \cup {{u, w}}
  BY <1>5 DEF ConnectedAreJoined, Connects
<1>6. ASSUME NEW u \in Active, NEW w \in Active, Active' = Active, Disconnected(u, w)
      PROVE  {u, w} \in Connected /\ Connected' = Connected \ {{u, w}}
  <2>1. {u, w} \in Connected
    BY <1>6 DEF ConnectedAreJoined, Disconnected
  <2>2. ASSUME NEW pair \in Connected'
        PROVE  pair \in Connected /\ pair # {u, w}
    BY <1>6 DEF ConnectedAreJoined, Disconnected
  <2>3. ASSUME NEW pair \in Connected, pair # {u, w}
        PROVE  pair \in Connected'
    BY <1>6, <2>3 DEF ConnectedAreJoined, Disconnected
  <2> HIDE DEF Connected
  <2> QED
    BY <2>1, <2>2, <2>3
<1>7. ASSUME NEW u \in Users, Leaves(u)
      PROVE  Pair!Leave(u)
  <2>1. Invited' = {pair \in Invited : pair[1] # u /\ pair[2] # u}
    BY <1>7 DEF InvitedAreAsked, Leaves
  <2>2. Connected' = {pair \in Connected : u \notin pair}
    BY <1>7 DEF ConnectedAreJoined, Leaves
  <2> QED
    BY <2>1, <2>2 DEF Pair!Leave
<1>8. \A u, w \in Active : {u, w} = {w, u}
  OBVIOUS
<1> HIDE DEF Invited, Connected
<1> QED
  BY <1>1, <1>2, <1>3, <1>4, <1>5, <1>6, <1>7, <1>8
     DEF IsSilent, Invites, AcceptsInvitation, CallsOff, Parts,
         Pair!Invite, Pair!Accept, Pair!CallOff, Pair!Part

-----------------------------------------------------------------------------
(* The steps.                                                              *)

\* Boxes and rows that stay the same, up to messages that are not open.
LEMMA SameRelation ==
  ASSUME NEW x, NEW y
  PROVE  /\ Same(y, x) => (Asked(x, y)' <=> Asked(x, y))
         /\ (\A m : IsOpen(m) => (m \in BoxFrom(y, x)' <=> m \in BoxFrom(y, x)))
              => (Asked(x, y)' <=> Asked(x, y))
         /\ RowsFor(x, y)' = RowsFor(x, y) => (HasAccepted(x, y)' <=> HasAccepted(x, y))
BY DEF Same, BoxFrom, Asked, HasAccepted

\* A preparation only carries out what has been agreed on.
LEMMA PrepareIsSilent ==
  ASSUME Agreement, NEW t \in Threads, NEW u \in Users, Prepare(t, u)
  PROVE  IsSilent
<1>1. u \in Active /\ Active' = Active /\ TypeOK
  BY DEF Prepare, Active, Agreement, IInv
<1>2. \A x \in Active : x \in Users
  BY DEF Active
<1>3. /\ \A w \in Active :
           /\ RowsFor(u, w)' = IF HasDisconnect(u, w) THEN {}
                               ELSE Answered(RowsFor(u, w), ResponsesFrom(u, w))
           /\ AnonymousFrom(u, w)' = {m \in BoxFrom(u, w) : m.type = "request"}
      /\ \A w \in Users : NamedFrom(u, w)' = {}
      /\ \A x \in Users \ {u}, y \in Users :
           RowsFor(x, y)' = RowsFor(x, y) /\ (x \in Active => Same(x, y))
  BY PrepareEffect DEF Same
<1>4. KeepsInvitations
  <2> SUFFICES ASSUME NEW x \in Active, NEW y \in Active
               PROVE  Asked(x, y)' <=> Asked(x, y)
    BY DEF KeepsInvitations
  <2>1. CASE y = u
    BY <1>2, <1>3, <2>1, SameRelation DEF BoxFrom, IsOpen
  <2>2. CASE y # u
    BY <1>2, <1>3, <2>2, SameRelation
  <2> QED
    BY <2>1, <2>2
<1>5. ASSUME NEW w \in Active
      PROVE  /\ HasAccepted(u, w) => HasAccepted(u, w)'
             /\ HasAccepted(u, w)' => Joined(u, w)
  <2> DEFINE after == Answered(RowsFor(u, w), ResponsesFrom(u, w))
  <2>1. /\ w \in Users /\ Regular(u, w) /\ Answers(u, w)
        /\ AcceptedRows(u, w) /\ Disconnects(u, w)
    BY <1>1, PairFacts
  <2>2. /\ ResponsesFrom(u, w) = {} => after = RowsFor(u, w)
        /\ \A m \in ResponsesFrom(u, w) :
             /\ m.status \in {"ACCEPTED", "REJECTED"}
             /\ m.status = "REJECTED" => after = {}
    BY <1>1, <2>1, AnsweredRow
  <2>3. RowsFor(u, w)' = IF HasDisconnect(u, w) THEN {} ELSE after
    BY <1>3
  <2> HIDE DEF after
  <2>4. ASSUME HasAccepted(u, w)
        PROVE  HasAccepted(u, w)'
    <3>1. PICK r \in RowsFor(u, w) : r.status = "ACCEPTED"
      BY <2>4 DEF HasAccepted
    <3>2. ~HasDisconnect(u, w) /\ ResponsesFrom(u, w) = {}
      BY <2>1, <3>1 DEF Disconnects, Answers, Regular
    <3>3. RowsFor(u, w)' = RowsFor(u, w)
      BY <2>2, <2>3, <3>2
    <3> QED
      BY <2>4, <3>3, SameRelation
  <2>5. ASSUME HasAccepted(u, w)'
        PROVE  Joined(u, w)
    <3>1. PICK r \in RowsFor(u, w)' : r.status = "ACCEPTED"
      BY <2>5 DEF HasAccepted
    <3>2. CASE ResponsesFrom(u, w) = {}
      BY <2>2, <2>3, <3>1, <3>2 DEF Joined, HasAccepted
    <3>3. CASE ResponsesFrom(u, w) # {}
      <4>1. PICK m \in ResponsesFrom(u, w) : m.status = "ACCEPTED"
        BY <2>2, <2>3, <3>1, <3>3
      <4> QED
        BY <2>1, <4>1 DEF AcceptedRows, Joined, HasAccepted
    <3> QED
      BY <3>2, <3>3
  <2> QED
    BY <2>4, <2>5
<1>6. \A x \in Active \ {u}, y \in Active : HasAccepted(x, y)' <=> HasAccepted(x, y)
  BY <1>2, <1>3, SameRelation
<1>7. KeepsConnections
  <2> SUFFICES ASSUME NEW x \in Active, NEW y \in Active
               PROVE  Joined(x, y)' <=> Joined(x, y)
    BY DEF KeepsConnections
  <2>1. Joined(x, y)' <=> HasAccepted(x, y)' \/ HasAccepted(y, x)'
    BY DEF Joined
  <2>2. Joined(u, x) <=> Joined(x, u)
    BY DEF Joined
  <2> QED
    BY <1>5, <1>6, <2>1, <2>2 DEF Joined
<1> QED
  BY <1>1, <1>4, <1>7 DEF IsSilent

\* An invitation.
LEMMA HandleBuddyRequestInvites ==
  ASSUME Agreement, NEW t \in Threads, NEW u \in Users, NEW v \in Users,
         HandleBuddyRequest(t, u, v)
  PROVE  u \in Active /\ v \in Active /\ Invites(u, v)
<1> DEFINE row == NewRow(v, "REQUESTED")
           message == RequestMessage(u)
<1>1. /\ request[t].user = u /\ request[t].stage = "checked" /\ request[t].invitee = v
      /\ u \in Active /\ v \in Active /\ Active' = Active
      /\ buddies' = [buddies EXCEPT ![u] = @ \cup {row}]
      /\ named' = [named EXCEPT ![v] = @ \cup {message}]
      /\ anonymous' = anonymous
  BY DEF HandleBuddyRequest, Serves, Active
<1>2. u # v
  BY <1>1 DEF Agreement, RequestsAreUpToDate, ChecksHold
<1>3. row.status = "REQUESTED" /\ IsOpen(message) /\ message.user = u
  BY DEF NewRow, RequestMessage, IsOpen
<1>4. TypeOK /\ \A x \in Active : x \in Users
  BY DEF Agreement, IInv, Active
<1> HIDE DEF row, message
<1>5. \A x, y \in Active : HasAccepted(x, y)' <=> HasAccepted(x, y)
  BY <1>1, <1>3, <1>4 DEF HasAccepted, RowsFor, OfUser, TypeOK
<1>6. KeepsConnections
  BY <1>5 DEF KeepsConnections, Joined
<1>7. \A x, y \in Active :
        BoxFrom(y, x)' = IF x = u /\ y = v THEN BoxFrom(y, x) \cup {message} ELSE BoxFrom(y, x)
  BY <1>1, <1>3, <1>4 DEF BoxFrom, NamedFrom, AnonymousFrom, OfUser, TypeOK
<1>8. AddsInvitation(u, v)
  BY <1>3, <1>7 DEF AddsInvitation, Asked
<1> QED
  BY <1>1, <1>2, <1>6, <1>8 DEF Invites

\* An answer to m takes the invitation away: it is the only open one.
LEMMA AnswerRemovesInvitation ==
  ASSUME Agreement, Agreement', NEW u \in Active, NEW w \in Active, Active' = Active,
         NEW m \in AnonymousFrom(u, w), IsOpen(m),
         NEW answered, NEW response, response.type = "response",
         AnswersRequest(u, w, m, answered, response)
  PROVE  RemovesInvitation(w, u)
<1>1. u \in Users /\ w \in Users /\ \A x \in Active : x \in Users
  BY DEF Active
<1>2. Asked(w, u)
  BY DEF Asked, BoxFrom
<1>3. ~Asked(w, u)'
  <2>1. OpenRequests(w, u)'
    BY DEF Agreement, PairsAgree, Agree
  <2>2. response \in ResponsesFrom(w, u)'
    BY DEF AnswersRequest, ResponsesFrom, Responses
  <2> QED
    BY <2>1, <2>2 DEF OpenRequests, Asked
<1>4. Asked(u, w)' <=> Asked(u, w)
  BY SameRelation DEF AnswersRequest, BoxFrom, IsOpen
<1>5. \A x, y \in Active : ~(x = u /\ y = w) /\ ~(x = w /\ y = u) =>
        (Asked(x, y)' <=> Asked(x, y))
  BY <1>1, SameRelation DEF AnswersRequest
<1> QED
  BY <1>2, <1>3, <1>4, <1>5 DEF RemovesInvitation

\* An acceptance: the one who accepts has an accepted row now.
LEMMA AcceptAcceptsInvitation ==
  ASSUME Agreement, Agreement', Habits = {}, NEW t \in Threads, NEW u \in Users,
         NEW m \in anonymous[u], Accept(t, u, m)
  PROVE  u \in Active /\ m.user \in Active /\ AcceptsInvitation(m.user, u)
<1> DEFINE w == m.user
           row == NewRow(w, "ACCEPTED")
           answered == [m EXCEPT !.status = "ACCEPTED"]
           response == ResponseMessage(u, m.buddy, "ACCEPTED")
<1>0. TypeOK /\ \A x \in Active : x \in Users
  BY DEF Agreement, IInv, Active
<1>1. /\ u \in Active /\ w \in Active /\ w \in Users /\ Active' = Active
      /\ m.type = "request" /\ m.status = "REQUESTED"
      /\ buddies' = [buddies EXCEPT ![u] = @ \cup {row}]
      /\ PutsAnswer(u, w, m, answered, response)
      /\ named' = named
  <2>1. m.user \in Users
    BY <1>0 DEF TypeOK, Message
  <2> QED
    BY <2>1 DEF Accept, Serves, Active, MayAnswer, WithStatus, PutsAnswer
<1>2. m \in AnonymousFrom(u, w) /\ IsOpen(m)
  BY <1>1 DEF AnonymousFrom, OfUser, IsOpen
<1>3. u # w
  BY <1>1, <1>2 DEF Agreement, PairsAgree, Regular
<1>4. row.user = w /\ row.status = "ACCEPTED"
  BY DEF NewRow
<1>5. "ACCEPTED" \in {"ACCEPTED", "REJECTED"} /\ m.user = w
  BY DEF w
<1> HIDE DEF w, row, answered, response
<1>6. \A x, y \in Users :
        RowsFor(x, y)' = IF x = u /\ y = w THEN RowsFor(x, y) \cup {row} ELSE RowsFor(x, y)
  BY <1>0, <1>1, <1>4 DEF RowsFor, OfUser, TypeOK
<1>7. response.type = "response" /\ AnswersRequest(u, w, m, answered, response)
  <2>1. answered = [m EXCEPT !.status = "ACCEPTED"]
        /\ response = ResponseMessage(u, m.buddy, "ACCEPTED")
    BY DEF answered, response
  <2> QED
    BY <1>0, <1>1, <1>3, <1>5, <1>6, <2>1, AnswerEffect
<1>8. RemovesInvitation(w, u)
  BY <1>1, <1>2, <1>7, AnswerRemovesInvitation
<1>9. \A x, y \in Active :
        HasAccepted(x, y)' <=> HasAccepted(x, y) \/ (x = u /\ y = w)
  BY <1>0, <1>4, <1>6 DEF HasAccepted
<1>10. Connects(w, u)
  <2> SUFFICES ASSUME NEW x \in Active, NEW y \in Active
               PROVE  Joined(x, y)' <=> Joined(x, y) \/ {x, y} = {w, u}
    BY DEF Connects
  <2>1. {x, y} = {w, u} <=> (x = u /\ y = w) \/ (x = w /\ y = u)
    OBVIOUS
  <2> QED
    BY <1>9, <2>1 DEF Joined
<1> QED
  BY <1>1, <1>5, <1>8, <1>10 DEF AcceptsInvitation

\* A rejection, which calls the invitation off if the sender is still there.
LEMMA RejectCallsOff ==
  ASSUME Agreement, Agreement', Habits = {}, NEW t \in Threads, NEW u \in Users,
         NEW m \in anonymous[u], Reject(t, u, m)
  PROVE  \/ u \in Active /\ m.user \in Active /\ CallsOff(m.user, u)
         \/ IsSilent
<1> DEFINE w == m.user
           answered == [m EXCEPT !.status = "REJECTED"]
           response == ResponseMessage(u, m.buddy, "REJECTED")
<1>0. TypeOK /\ \A x \in Active : x \in Users
  BY DEF Agreement, IInv, Active
<1>1. /\ u \in Active /\ w \in Users /\ Active' = Active
      /\ m.type = "request" /\ m.status = "REQUESTED"
      /\ PutsAnswer(u, w, m, answered, response)
      /\ UNCHANGED <<buddies, named>>
  <2>1. m.user \in Users
    BY <1>0 DEF TypeOK, Message
  <2> QED
    BY <2>1 DEF Reject, MayAnswer, Serves, Active, WithStatus, PutsAnswer
<1>2. m \in AnonymousFrom(u, w) /\ IsOpen(m)
  BY <1>1 DEF AnonymousFrom, OfUser, IsOpen
<1>3. u # w
  BY <1>1, <1>2 DEF Agreement, PairsAgree, Regular
<1>4. "REJECTED" \in {"ACCEPTED", "REJECTED"} /\ m.user = w
  BY DEF w
<1> HIDE DEF w, answered, response
<1>5. \A x, y \in Users : RowsFor(x, y)' = RowsFor(x, y)
  BY <1>1 DEF RowsFor
<1>6. response.type = "response" /\ AnswersRequest(u, w, m, answered, response)
  <2>1. answered = [m EXCEPT !.status = "REJECTED"]
        /\ response = ResponseMessage(u, m.buddy, "REJECTED")
    BY DEF answered, response
  <2> QED
    BY <1>0, <1>1, <1>3, <1>4, <1>5, <2>1, AnswerEffect
<1>7. KeepsConnections
  BY <1>0, <1>5 DEF KeepsConnections, Joined, HasAccepted
<1>8. ASSUME w \in Active
      PROVE  CallsOff(w, u)
  <2>1. RemovesInvitation(w, u)
    BY <1>1, <1>2, <1>6, <1>8, AnswerRemovesInvitation
  <2> QED
    BY <1>1, <1>7, <2>1 DEF CallsOff
<1>9. ASSUME w \notin Active
      PROVE  IsSilent
  <2>1. \A x, y \in Active : Same(x, y)
    BY <1>0, <1>6, <1>9 DEF AnswersRequest
  <2>2. KeepsInvitations
    BY <2>1, SameRelation DEF KeepsInvitations
  <2> QED
    BY <1>1, <1>7, <2>2 DEF IsSilent
<1> QED
  BY <1>1, <1>4, <1>8, <1>9

\* Only an answered request can be deleted.
LEMMA DeleteMessageIsSilent ==
  ASSUME Agreement, NEW t \in Threads, NEW u \in Users, NEW m \in anonymous[u],
         DeleteMessage(t, u, m)
  PROVE  IsSilent
<1>0. TypeOK /\ \A x \in Active : x \in Users
  BY DEF Agreement, IInv, Active
<1>1. /\ Active' = Active /\ ~IsOpen(m)
      /\ anonymous' = [anonymous EXCEPT ![u] = @ \ {m}]
      /\ UNCHANGED <<buddies, named>>
  BY DEF DeleteMessage, Active, IsOpen
<1>2. \A x, y \in Active : \A n : IsOpen(n) => (n \in BoxFrom(y, x)' <=> n \in BoxFrom(y, x))
  BY <1>0, <1>1 DEF BoxFrom, NamedFrom, AnonymousFrom, OfUser, TypeOK
<1>3. KeepsInvitations
  BY <1>2, SameRelation DEF KeepsInvitations
<1>4. KeepsConnections
  BY <1>1 DEF KeepsConnections, Joined, HasAccepted, RowsFor
<1> QED
  BY <1>1, <1>3, <1>4 DEF IsSilent

\* The removal of a buddy who had agreed parts the two; that of one who had not
\* only tidies up.
LEMMA RemoveBuddyParts ==
  ASSUME Agreement, Habits = {}, NEW t \in Threads, NEW u \in Users, NEW r \in buddies[u],
         RemoveBuddy(t, u, r)
  PROVE  \/ u \in Active /\ r.user \in Active /\ Parts(u, r.user)
         \/ IsSilent
<1>1. PICK w : w = r.user
  OBVIOUS
<1>2. /\ u \in Active /\ w \in Active /\ u # w
      /\ (Agreed(u, w) /\ Parted(u, w)) \/ (Refused(u, w) /\ Forgotten(u, w))
      /\ \A x, y \in Users : ~(x = u /\ y = w) /\ ~(x = w /\ y = u) => Same(x, y)
  BY <1>1, RemoveBuddyEffect
<1>3. Active' = Active /\ \A x \in Active : x \in Users
  BY DEF RemoveBuddy, Active
<1>4. /\ Regular(u, w) /\ Answers(u, w) /\ OpenRequests(u, w) /\ AcceptedRows(u, w)
      /\ Regular(w, u) /\ OpenRequests(w, u) /\ AcceptedRows(w, u) /\ TypeOK
  BY <1>2, PairFacts DEF Agreement, IInv
<1>5. \A x, y \in Active : ~(x = u /\ y = w) /\ ~(x = w /\ y = u) =>
        /\ Asked(x, y)' <=> Asked(x, y)
        /\ HasAccepted(x, y)' <=> HasAccepted(x, y)
  <2>1. \A x, y \in Active : ~(x = u /\ y = w) /\ ~(x = w /\ y = u) =>
          Same(x, y) /\ Same(y, x)
    BY <1>2, <1>3
  <2> QED
    BY <2>1, SameRelation DEF Same
<1>6. KeepsInvitations <=> /\ Asked(u, w)' <=> Asked(u, w)
                           /\ Asked(w, u)' <=> Asked(w, u)
  BY <1>2, <1>5 DEF KeepsInvitations
<1>7. ASSUME Agreed(u, w), Parted(u, w)
      PROVE  Parts(u, w)
  <2>1. /\ ~Asked(u, w)' /\ ~Asked(w, u)' /\ ~HasAccepted(u, w)'
    BY <1>7 DEF Parted, Asked, HasAccepted, BoxFrom, IsOpen, DisconnectMessage
  <2>2. ~HasAccepted(w, u)'
    <3>1. \A q \in RowsFor(w, u) : SetDisconnected(q).status = "REJECTED"
      BY <1>2, <1>3, <1>4, SetDisconnectedRow DEF TypeOK, RowsFor, OfUser
    <3> QED
      BY <1>4, <1>7, <3>1 DEF Parted, HasAccepted, Regular
  <2>3. Joined(u, w) /\ Joined(w, u)
    BY <1>4, <1>7 DEF Agreed, AcceptedRows, Joined, HasAccepted
  <2>4. ~Asked(u, w)
    BY <1>4, <1>7 DEF Agreed, OpenRequests, Asked, Regular
  <2>5. ~Asked(w, u)
    <3>1. PICK q \in RowsFor(w, u) :
            \/ q.status = "ACCEPTED"
            \/ q.status = "REQUESTED" /\ ResponsesFrom(w, u) # {}
      BY <1>4, <1>7 DEF Agreed, AcceptedRows
    <3> QED
      BY <1>4, <3>1 DEF OpenRequests, Asked, Regular
  <2>6. KeepsInvitations
    BY <1>6, <2>1, <2>4, <2>5
  <2>7. Disconnected(u, w)
    <3> SUFFICES ASSUME NEW x \in Active, NEW y \in Active
                 PROVE  Joined(x, y)' <=> Joined(x, y) /\ {x, y} # {u, w}
      BY <2>3 DEF Disconnected
    <3>1. {x, y} = {u, w} <=> (x = u /\ y = w) \/ (x = w /\ y = u)
      OBVIOUS
    <3> QED
      BY <1>5, <2>1, <2>2, <3>1 DEF Joined
  <2> QED
    BY <1>3, <2>6, <2>7 DEF Parts
<1>8. ASSUME Refused(u, w), Forgotten(u, w)
      PROVE  IsSilent
  <2>1. /\ HasAccepted(w, u)' <=> HasAccepted(w, u)
        /\ Asked(w, u)' <=> Asked(w, u)
        /\ ~HasAccepted(u, w)' /\ (Asked(u, w)' => Asked(u, w))
    BY <1>8 DEF Forgotten, HasAccepted, Asked, BoxFrom, ResponsesFrom, Responses, IsOpen
  <2>2. ~HasAccepted(u, w)
    BY <1>4, <1>8 DEF Refused, HasAccepted, Answers, Regular
  <2>3. ~Asked(u, w)
    BY <1>4, <1>8 DEF Refused, OpenRequests, Asked, Regular
  <2>4. KeepsInvitations
    BY <1>6, <2>1, <2>3
  <2>5. KeepsConnections
    BY <1>5, <2>1, <2>2 DEF KeepsConnections, Joined
  <2> QED
    BY <1>3, <2>4, <2>5 DEF IsSilent
<1> QED
  BY <1>1, <1>2, <1>7, <1>8

\* A step that leaves rows and messages of the others alone.
LEMMA UserLeaves ==
  ASSUME Agreement, NEW u \in Users,
         (\E t \in Threads : DeleteUser(t, u)) \/ OverwriteUser(u)
  PROVE  Leaves(u)
<1>1. Active' = Active \ {u}
  BY DEF DeleteUser, OverwriteUser, Active, Agreement, IInv, TypeOK
<1>2. \A x, y \in Active' : Same(x, y)
  <2>1. \A x \in Active' : x \in Users \ {u}
    BY <1>1 DEF Active
  <2>2. CASE \E t \in Threads : DeleteUser(t, u)
    BY <2>1, <2>2, DeleteUserEffect
  <2>3. CASE OverwriteUser(u)
    BY <2>3 DEF OverwriteUser, Same, RowsFor, NamedFrom, AnonymousFrom
  <2> QED
    BY <2>2, <2>3
<1>3. \A x, y \in Active' :
        (Asked(x, y)' <=> Asked(x, y)) /\ (HasAccepted(x, y)' <=> HasAccepted(x, y))
  BY <1>2, SameRelation DEF Same
<1> QED
  BY <1>1, <1>3 DEF Leaves, Joined

\* The other steps change neither rows nor messages.
LEMMA OtherStepsAreSilent ==
  ASSUME \/ \E t \in Threads, u, v \in Users : AssertValidBuddy(t, u, v)
         \/ \E t \in Threads : EndRequest(t)
         \/ UNCHANGED vars
  PROVE  IsSilent
<1>1. UNCHANGED <<account, buddies, named, anonymous>>
  BY DEF AssertValidBuddy, EndRequest, vars
<1> QED
  BY <1>1 DEF IsSilent, KeepsInvitations, KeepsConnections, Joined, HasAccepted, Asked,
              BoxFrom, NamedFrom, AnonymousFrom, RowsFor, Active

-----------------------------------------------------------------------------
(* The theorem.                                                            *)

\* Every step is one of BuddyPair, or a stutter.
LEMMA NextImplementsPair ==
  ASSUME Agreement, Agreement', Habits = {}, [Next]_vars,
         InvitedAreAsked, ConnectedAreJoined, InvitedAreAsked', ConnectedAreJoined'
  PROVE  Pair!Next \/ UNCHANGED <<Invited, Connected>>
<1>0. \A x \in Active : x \in Users
  BY DEF Active
<1>1. ASSUME IsSilent
      PROVE  UNCHANGED <<Invited, Connected>>
  BY <1>1, StepOfPair
<1>2. ASSUME NEW u \in Users, Leaves(u)
      PROVE  Pair!Next
  BY <1>2, StepOfPair DEF Pair!Next
<1>3. ASSUME NEW u \in Active, NEW w \in Active,
             Invites(u, w) \/ AcceptsInvitation(u, w) \/ CallsOff(u, w) \/ Parts(u, w)
      PROVE  Pair!Next
  <2>1. Pair!Invite(u, w) \/ Pair!Accept(w, u) \/ Pair!CallOff(u, w) \/ Pair!Part(u, w)
    BY <1>3, StepOfPair
  <2>2. u \in Users /\ w \in Users
    BY <1>0
  <2> QED
    BY <2>1, <2>2 DEF Pair!Next
<1>4. ASSUME NEW t \in Threads, NEW u \in Users, Prepare(t, u)
      PROVE  UNCHANGED <<Invited, Connected>>
  BY <1>1, <1>4, PrepareIsSilent
<1>5. ASSUME NEW t \in Threads, NEW u \in Users, RequestStep(t, u)
      PROVE  Pair!Next \/ UNCHANGED <<Invited, Connected>>
  <2>1. ASSUME NEW v \in Users, AssertValidBuddy(t, u, v)
        PROVE  UNCHANGED <<Invited, Connected>>
    BY <1>1, <2>1, OtherStepsAreSilent
  <2>2. ASSUME NEW v \in Users, HandleBuddyRequest(t, u, v)
        PROVE  Pair!Next
    BY <1>3, <2>2, HandleBuddyRequestInvites
  <2>3. ASSUME NEW m \in anonymous[u], Accept(t, u, m)
        PROVE  Pair!Next
    BY <1>3, <2>3, AcceptAcceptsInvitation
  <2>4. ASSUME NEW m \in anonymous[u], Reject(t, u, m)
        PROVE  Pair!Next \/ UNCHANGED <<Invited, Connected>>
    BY <1>1, <1>3, <2>4, RejectCallsOff
  <2>5. ASSUME NEW m \in anonymous[u], DeleteMessage(t, u, m)
        PROVE  UNCHANGED <<Invited, Connected>>
    BY <1>1, <2>5, DeleteMessageIsSilent
  <2>6. ASSUME NEW r \in buddies[u], RemoveBuddy(t, u, r)
        PROVE  Pair!Next \/ UNCHANGED <<Invited, Connected>>
    BY <1>1, <1>3, <2>6, RemoveBuddyParts
  <2>7. ASSUME DeleteUser(t, u)
        PROVE  Pair!Next
    BY <1>2, <2>7, UserLeaves
  <2> QED
    BY <1>5, <2>1, <2>2, <2>3, <2>4, <2>5, <2>6, <2>7 DEF RequestStep
<1>6. ASSUME NEW u \in Users, OverwriteUser(u)
      PROVE  Pair!Next
  BY <1>2, <1>6, UserLeaves
<1>7. ASSUME (\E t \in Threads : EndRequest(t)) \/ UNCHANGED vars
      PROVE  UNCHANGED <<Invited, Connected>>
  BY <1>1, <1>7, OtherStepsAreSilent
<1> QED
  BY <1>4, <1>5, <1>6, <1>7 DEF Next

\* The rows and messages of both sides implement the relation of BuddyPair: two
\* users are buddies, both or neither, from the acceptance of an invitation until
\* one of them removes the other or leaves.
THEOREM RefinesBuddyPair ==
  ASSUME Habits = {}
  PROVE  Spec => ImplementsBuddyPair
<1>1. Init => Pair!Init
  <2> SUFFICES ASSUME Init PROVE Invited = {} /\ Connected = {}
    BY DEF Pair!Init
  <2>1. \A u, w \in Active : ~Asked(u, w) /\ ~Joined(u, w)
    BY DEF Init, Active, Asked, Joined, HasAccepted, BoxFrom, NamedFrom, AnonymousFrom,
           RowsFor, OfUser
  <2>2. InvitedAreAsked /\ ConnectedAreJoined
    BY InitAgreement, RelationIsPaired
  <2> QED
    BY <2>1, <2>2 DEF InvitedAreAsked, ConnectedAreJoined
<1>2. Agreement /\ Agreement' /\ [Next]_vars => [Pair!Next]_(Pair!vars)
  <2> SUFFICES ASSUME Agreement, Agreement', [Next]_vars
               PROVE  [Pair!Next]_(Pair!vars)
    OBVIOUS
  <2>1. InvitedAreAsked /\ ConnectedAreJoined
    BY RelationIsPaired
  <2>2. InvitedAreAsked' /\ ConnectedAreJoined'
    BY RelationIsPaired, PTL
  <2>3. Pair!Next \/ UNCHANGED <<Invited, Connected>>
    BY <2>1, <2>2, NextImplementsPair
  <2> QED
    BY <2>3 DEF Pair!vars
<1> QED
  BY <1>1, <1>2, PairsAlwaysAgree, PTL DEF Spec, ImplementsBuddyPair, Pair!Spec

=============================================================================
