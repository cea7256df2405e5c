--------------------------- MODULE BuddyRelation ---------------------------
(***************************************************************************)
(* The buddy relation between users and the messages that carry it.        *)
(*                                                                         *)
(* Each side of a relation has a row of its own (Buddy with its            *)
(* BuddyAnonymized), and a user can only write the rows of the other one   *)
(* as far as they are not encrypted.  The rest is done by messages.  A     *)
(* direct message goes to the receiver's named box; when the receiver's    *)
(* app makes its next request, it is moved to the anonymous box and        *)
(* processed, together with the responses sent to the anonymous box.       *)
(*                                                                         *)
(* A request of an app is several transactions: the preparation, then the  *)
(* operation it came for (two transactions for an invitation).  Each is    *)
(* one step here: they are taken to be serialized.                         *)
(***************************************************************************)
EXTENDS Integers, FiniteSets, FiniteSetsExt

CONSTANTS
  Users,
  Threads,       \* the request threads of the application service
  NoUser,        \* a thread serves no request, or checked no invitation
  Habits,        \* what the users do, see below
  MaxBuddies,    \* bound on the Buddy rows ever created
  MaxLeavers     \* bound on the accounts deleted or overwritten

\* What the users do besides inviting, answering once and dropping those who
\* have answered, one request at a time.  The server guards against none of it:
\* that a habit is absent is an assumption on the users (MayStart, MayInvite,
\* MayAnswer and MayDrop say which), and the properties that need it say so.
\*   withdraw  a user drops a buddy who has not answered yet, as the edit link
\*             of every buddy allows
\*   cross     two users invite each other, at a time or one after the other
\*   repeat    a user gives the same answer to a request again: the link was
\*             followed twice, or the app did not get to know that it worked
\*   revise    a user gives the other answer to a request that is answered, by
\*             a link that was there before, or on a second device
\*   parallel  two requests of one user at a time (a user with two devices)
ASSUME BuddyRelationAssumption ==
  /\ NoUser \notin Users
  /\ Habits \subseteq {"withdraw", "cross", "repeat", "revise", "parallel"}
  /\ MaxBuddies \in Nat /\ MaxLeavers \in Nat

VARIABLES
  account,     \* account[u]: whether the user still exists
  buddies,     \* buddies[u]: the buddy rows of u
  named,       \* named[u]: the messages sent directly to u
  anonymous,   \* anonymous[u]: the messages in the box u reads
  request,     \* request[t]: the app's request thread t serves
  created,     \* the number of buddy rows created, which are their IDs
  consent      \* history: <<u, v>> when u invited v or accepted v's request

vars == <<account, buddies, named, anonymous, request, created, consent>>

Id == 1..MaxBuddies

\* A buddy row.  It is linked while it knows the anonymized user of the buddy.
\* The sending and the receiving status are always the same (assertValidBuddy).
Row ==
  [id : Id, user : Users, status : {"REQUESTED", "ACCEPTED", "REJECTED"},
   linked : BOOLEAN]

\* A message: its sender, and the row of the sender (a request) or of the
\* receiver (a response) it is about.
\* Processed responses and disconnects play no part any more and are left out.
Message ==
  [type : {"request", "response", "disconnect"}, user : Users,
   buddy : Id \cup {0}, status : {"REQUESTED", "ACCEPTED", "REJECTED"}]

Request ==
  [user : Users \cup {NoUser}, stage : {"idle", "prepared", "checked"},
   invitee : Users \cup {NoUser}]

Idle == [user |-> NoUser, stage |-> "idle", invitee |-> NoUser]

TypeOK ==
  /\ account \in [Users -> {"active", "deleted", "overwritten"}]
  /\ buddies \in [Users -> SUBSET Row]
  /\ named \in [Users -> SUBSET Message]
  /\ anonymous \in [Users -> SUBSET Message]
  /\ request \in [Threads -> Request]
  /\ created \in 0..MaxBuddies
  /\ consent \in SUBSET (Users \X Users)

Init ==
  /\ account = [u \in Users |-> "active"]
  /\ buddies = [u \in Users |-> {}]
  /\ named = [u \in Users |-> {}]
  /\ anonymous = [u \in Users |-> {}]
  /\ request = [t \in Threads |-> Idle]
  /\ created = 0
  /\ consent = {}

-----------------------------------------------------------------------------
(* Rows and messages.                                                      *)

\* Mutant: the row gets the ID of the row before it.
RowWithOldId(v, status) ==
  [id |-> created, user |-> v, status |-> status, linked |-> status = "ACCEPTED"]

NewRow(v, status) ==
  [id |-> created + 1, user |-> v, status |-> status, linked |-> status = "ACCEPTED"]

RequestMessage(u) ==
  [type |-> "request", user |-> u, buddy |-> created + 1, status |-> "REQUESTED"]

\* Mutant: a rejection is sent as an acceptance.
AcceptanceAnyway(u, id, status) ==
  [type |-> "response", user |-> u, buddy |-> id, status |-> "ACCEPTED"]

ResponseMessage(u, id, status) ==
  [type |-> "response", user |-> u, buddy |-> id, status |-> status]

DisconnectMessage(u) ==
  [type |-> "disconnect", user |-> u, buddy |-> 0, status |-> "REJECTED"]

NotFrom(box, users) == {m \in box : m.user \notin users}

Responses(box) == {m \in box : m.type = "response"}

AcceptedBuddies(rows) == {r \in rows : r.status = "ACCEPTED"}

\* The row has disappeared, or knows the buddy's anonymized user now.
Rejects(response, r) == response.buddy = r.id /\ response.status = "REJECTED"
Accepts(response, r) == response.buddy = r.id /\ response.status = "ACCEPTED"

SetAccepted(r) ==
  [r EXCEPT !.status = IF @ = "REQUESTED" THEN "ACCEPTED" ELSE @, !.linked = TRUE]

\* The rows after the responses are processed.  A row that a revised answer both
\* accepts and rejects goes (when the acceptance is the newer one the code fails,
\* and leaves everything as it was, which is a step less).
Answered(rows, responses) ==
  {IF \E m \in responses : Accepts(m, r) THEN SetAccepted(r) ELSE r :
     r \in {q \in rows : ~\E m \in responses : Rejects(m, q)}}

\* An acceptance of a row that is gone fails (BuddyNotFoundException).
CanBeAnswered(rows, responses) ==
  \A m \in responses : m.status = "ACCEPTED" => \E r \in rows : r.id = m.buddy

Box(u) == named[u] \cup anonymous[u]

OfUser(set, v) == {x \in set : x.user = v}

\* The subsets with n[v] rows (or messages) of each user v, as far as there are.
Picks(set, n) ==
  {S \in SUBSET set : \A v \in Users :
     Cardinality(OfUser(S, v)) = Min({n[v], Cardinality(OfUser(set, v))})}

OneOf(users) == [v \in Users |-> IF v \in users THEN 1 ELSE 0]

-----------------------------------------------------------------------------
(* A user finds the buddies whose accounts have gone                       *)
(* (removeBuddyInfoForRemovedUser).  The messages this sends to the user's *)
(* own box are processed in the same transaction and change nothing.       *)

\* Mutant: the buddies whose accounts were overwritten stay.
RelatedToDeletedUsers(rows) == {r \in rows : account[r.user] = "deleted"}

RelatedToRemovedUsers(rows) == {r \in rows : account[r.user] # "active"}

\* Of an established buddy the anonymized user is read, which a deleted user
\* does not leave behind and an overwritten user does.
CanForget(rows) ==
  \A r \in AcceptedBuddies(RelatedToRemovedUsers(rows)) : account[r.user] = "overwritten"

EstablishedGone(rows) ==
  {r.user : r \in AcceptedBuddies(RelatedToRemovedUsers(rows))}

\* Mutant: the answers of buddies that have gone stay in the box.
NoneAnswered(rows, box) == {}

\* Those whose answer to a pending request is in the box.
AnsweredGone(rows, box) ==
  {r.user : r \in {q \in RelatedToRemovedUsers(rows) :
     q.status = "REQUESTED" /\ \E m \in Responses(box) : m.buddy = q.id}}

NamedAfterForget(u) == NotFrom(named[u], EstablishedGone(buddies[u]))

AnonymousAfterForget(u) ==
  NotFrom(anonymous[u],
          EstablishedGone(buddies[u]) \cup AnsweredGone(buddies[u], anonymous[u]))

-----------------------------------------------------------------------------
(* The requests of the apps.                                               *)

Serves(t, u, stage) ==
  /\ request[t].user = u /\ request[t].stage = stage
  /\ account[u] = "active"

MayStart(u) ==
  "parallel" \in Habits \/ \A t \in Threads : request[t].user # u

\* doPreparationsAndCheckCanAccessPrivateData: before anything else the
\* buddies that have gone are removed, the named box is emptied into the
\* anonymous one, and what is unprocessed in there is processed: the responses
\* first, as their IDs are lower than those of the messages just moved.
Prepare(t, u) ==
  /\ request[t] = Idle /\ account[u] = "active" /\ MayStart(u)
  /\ CanForget(buddies[u])
  /\ LET box == AnonymousAfterForget(u) \cup NamedAfterForget(u)
         rows == buddies[u] \ RelatedToRemovedUsers(buddies[u])
         parted == {m.user : m \in {n \in box : n.type = "disconnect"}}
     IN /\ CanBeAnswered(rows, Responses(box))
        /\ \E dropped \in Picks(Answered(rows, Responses(box)), OneOf(parted)) :
             buddies' = [buddies EXCEPT ![u] = Answered(rows, Responses(box)) \ dropped]
        /\ anonymous' = [v \in Users |->
             IF v = u THEN {m \in box : m.type = "request"}
             ELSE IF v \in EstablishedGone(buddies[u]) THEN NotFrom(anonymous[v], {u})
             ELSE anonymous[v]]
  /\ named' = [named EXCEPT ![u] = {}]
  /\ request' = [request EXCEPT ![t] = [user |-> u, stage |-> "prepared", invitee |-> NoUser]]
  /\ UNCHANGED <<account, created, consent>>

\* The request is done, has failed, or was only there to read something.
EndRequest(t) ==
  /\ request[t] # Idle
  /\ request' = [request EXCEPT ![t] = Idle]
  /\ UNCHANGED <<account, buddies, named, anonymous, created, consent>>

Done(t) == request' = [request EXCEPT ![t] = Idle]

\* An unanswered request of v has reached u.
IsInvitedBy(u, v) ==
  \E m \in Box(u) :
    m.type = "request" /\ m.user = v /\ m.status = "REQUESTED"

\* An invitation of v by u is checked and not yet made.
IsInviting(u, v) ==
  \E t \in Threads :
    request[t].user = u /\ request[t].stage = "checked" /\ request[t].invitee = v

\* No check of the code: without the habit cross two users have agreed which of
\* them invites the other one.
MayInvite(u, v) ==
  "cross" \in Habits \/ ~(IsInvitedBy(u, v) \/ IsInviting(v, u))

\* addBuddyToRequestingUser validates the invitation before the transaction
\* that locks the user; the users of all buddies must exist then.
AssertValidBuddy(t, u, v) ==
  /\ Serves(t, u, "prepared")
  /\ v # u /\ account[v] = "active"
  /\ \A r \in buddies[u] : account[r.user] = "active" /\ r.user # v
  /\ MayInvite(u, v)
  /\ request' = [request EXCEPT ![t].stage = "checked", ![t].invitee = v]
  /\ UNCHANGED <<account, buddies, named, anonymous, created, consent>>

\* handleBuddyRequestForExistingUser checks nothing of it again.
HandleBuddyRequest(t, u, v) ==
  /\ Serves(t, u, "checked") /\ request[t].invitee = v
  /\ account[v] = "active"
  /\ created < MaxBuddies
  /\ buddies' = [buddies EXCEPT ![u] = @ \cup {NewRow(v, "REQUESTED")}]
  /\ named' = [named EXCEPT ![v] = @ \cup {RequestMessage(u)}]
  /\ consent' = consent \cup {<<u, v>>}
  /\ created' = created + 1
  /\ Done(t)
  /\ UNCHANGED <<account, anonymous>>

\* Mutant: the request stays unanswered after it is accepted.
StaysUnanswered(box, m, status) == box

\* updateMessageStatusAsAccepted, updateMessageStatusAsRejected.
WithStatus(box, m, status) == (box \ {m}) \cup {[m EXCEPT !.status = status]}

\* No check of the code, which offers the links to accept and to reject for as
\* long as a request is unanswered, but handles whatever request it gets.
MayAnswer(m, answer) ==
  \/ m.status = "REQUESTED"
  \/ m.status = answer /\ "repeat" \in Habits
  \/ m.status \notin {"REQUESTED", answer} /\ "revise" \in Habits

Accept(t, u, m) ==
  /\ Serves(t, u, "prepared")
  /\ m \in anonymous[u] /\ m.type = "request" /\ MayAnswer(m, "ACCEPTED")
  /\ account[m.user] = "active"
  /\ created < MaxBuddies
  /\ buddies' = [buddies EXCEPT ![u] = @ \cup {NewRow(m.user, "ACCEPTED")}]
  /\ anonymous' = [anonymous EXCEPT
       ![u] = WithStatus(@, m, "ACCEPTED"),
       ![m.user] = @ \cup {ResponseMessage(u, m.buddy, "ACCEPTED")}]
  /\ created' = created + 1
  /\ consent' = consent \cup {<<u, m.user>>}
  /\ Done(t)
  /\ UNCHANGED <<account, named>>

\* The sender may have been overwritten: its anonymous box is still there.
Reject(t, u, m) ==
  /\ Serves(t, u, "prepared")
  /\ m \in anonymous[u] /\ m.type = "request" /\ MayAnswer(m, "REJECTED")
  /\ account[m.user] # "deleted"
  /\ anonymous' = [anonymous EXCEPT
       ![u] = WithStatus(@, m, "REJECTED"),
       ![m.user] = @ \cup {ResponseMessage(u, m.buddy, "REJECTED")}]
  /\ Done(t)
  /\ UNCHANGED <<account, buddies, named, created, consent>>

\* Mutant: an unanswered request can be deleted.
DeleteAnyMessage(t, u, m) ==
  /\ Serves(t, u, "prepared")
  /\ m \in anonymous[u] /\ m.type = "request"
  /\ anonymous' = [anonymous EXCEPT ![u] = @ \ {m}]
  /\ Done(t)
  /\ UNCHANGED <<account, buddies, named, created, consent>>

\* Only an answered request can be deleted (canBeDeleted).
DeleteMessage(t, u, m) ==
  /\ Serves(t, u, "prepared")
  /\ m \in anonymous[u] /\ m.type = "request" /\ m.status # "REQUESTED"
  /\ anonymous' = [anonymous EXCEPT ![u] = @ \ {m}]
  /\ Done(t)
  /\ UNCHANGED <<account, buddies, named, created, consent>>

-----------------------------------------------------------------------------
(* A user drops buddies: one of them, or all with the account              *)
(* (removeBuddyInfoForBuddy).                                              *)

BuddyUsers(rows) == {r.user : r \in rows}

\* Mutant: the buddy's row stays as it is.
StaysConnected(r) == r

SetDisconnected(r) == [r EXCEPT !.status = "REJECTED", !.linked = FALSE]

\* The rows by which others know u.
LinksTo(u) == {r \in UNION {buddies[v] : v \in Users} : r.user = u /\ r.linked}

\* disconnectBuddyIfConnected: for an accepted row of u for v, one linked row
\* of v for u, if there is one.
Disconnections(u, dropped) ==
  {lost \in SUBSET LinksTo(u) : \A v \in Users :
     Cardinality(lost \cap buddies[v]) =
       Min({Cardinality(OfUser(AcceptedBuddies(dropped), v)),
            Cardinality(LinksTo(u) \cap buddies[v])})}

\* Mutant: the messages u sent are removed after the disconnect is sent.
DropAfterTelling(u, users, told) ==
  [v \in Users |-> IF v \in users THEN NotFrom(named[v], {u}) ELSE named[v]]

\* The named messages u sent go, also the disconnect of another row for the
\* same user; a disconnect is sent for an accepted row.
NamedAfterDrop(u, users, told) ==
  [v \in Users |->
     (IF v \in users THEN NotFrom(named[v], {u}) ELSE named[v])
       \cup (IF v \in told THEN {DisconnectMessage(u)} ELSE {})]

Told(dropped) ==
  {S \in SUBSET BuddyUsers(AcceptedBuddies(dropped)) :
     \A v \in BuddyUsers(AcceptedBuddies(dropped)) \ S :
       \E r \in dropped : r.user = v /\ r.status # "ACCEPTED"}

AnonymousAfterDrop(u, dropped) ==
  [v \in Users |->
     IF v \in BuddyUsers(AcceptedBuddies(dropped)) THEN NotFrom(anonymous[v], {u})
     ELSE anonymous[v]]

RowsAfterDrop(lost) ==
  [v \in Users |-> {IF r \in lost THEN SetDisconnected(r) ELSE r : r \in buddies[v]}]

\* No check of the code: without the habit withdraw a user drops only buddies
\* who have answered, though the answer may have come a moment ago.
MayDrop(u, r) ==
  \/ r.status # "REQUESTED"
  \/ "withdraw" \in Habits
  \/ OfUser(Responses(anonymous[u]), r.user) # {}

\* removeBuddy: a response that came after the preparation is processed first.
\* (If that removed the row, the rest may also fail and be rolled back.)
RemoveBuddy(t, u, r) ==
  /\ Serves(t, u, "prepared")
  /\ r \in buddies[u] /\ account[r.user] = "active"
  /\ MayDrop(u, r)
  /\ \E pending \in Picks(Responses(anonymous[u]),
                          OneOf(IF r.status = "REQUESTED" THEN {r.user} ELSE {})) :
       LET rows == Answered(buddies[u], pending)
           dropped == {q \in rows : q.id = r.id}
           strangers == BuddyUsers({q \in dropped : q.linked})
       IN /\ CanBeAnswered(buddies[u], pending)
          /\ \E lost \in Disconnections(u, dropped), told \in Told(dropped) :
               /\ buddies' = [RowsAfterDrop(lost) EXCEPT ![u] = rows \ dropped]
               /\ named' = [NamedAfterDrop(u, {r.user}, told) EXCEPT
                              ![u] = NotFrom(@, strangers)]
               /\ anonymous' = [AnonymousAfterDrop(u, dropped) EXCEPT
                                  ![u] = NotFrom(@ \ pending, strangers)]
  /\ Done(t)
  /\ UNCHANGED <<account, created, consent>>

Leavers == {u \in Users : account[u] # "active"}

\* deleteUser: one response for each buddy is processed, then the buddies that
\* have gone are removed, then all the others are told.
DeleteUser(t, u) ==
  /\ Serves(t, u, "prepared")
  /\ Cardinality(Leavers) < MaxLeavers
  /\ \E pending \in Picks(Responses(anonymous[u]),
                          [v \in Users |-> Cardinality(OfUser(buddies[u], v))]) :
       LET rows == Answered(buddies[u], pending)
           dropped == rows \ RelatedToRemovedUsers(rows)
       IN /\ CanBeAnswered(buddies[u], pending)
          /\ CanForget(rows)
          /\ \E lost \in Disconnections(u, dropped), told \in Told(dropped) :
               /\ buddies' = [RowsAfterDrop(lost) EXCEPT ![u] = {}]
               /\ named' = [NamedAfterDrop(u, BuddyUsers(dropped), told) EXCEPT ![u] = {}]
               /\ anonymous' = [v \in Users |->
                    IF v = u THEN {}
                    ELSE IF v \in EstablishedGone(rows) THEN NotFrom(anonymous[v], {u})
                    ELSE AnonymousAfterDrop(u, dropped)[v]]
  /\ account' = [account EXCEPT ![u] = "deleted"]
  /\ Done(t)
  /\ UNCHANGED <<created, consent>>

\* deleteExistingUserToOverwriteIt: the account goes, for whoever has the phone
\* but not the password.  What is encrypted or anonymized stays behind.
OverwriteUser(u) ==
  /\ account[u] = "active"
  /\ Cardinality(Leavers) < MaxLeavers
  /\ account' = [account EXCEPT ![u] = "overwritten"]
  /\ UNCHANGED <<buddies, named, anonymous, request, created, consent>>

RequestStep(t, u) ==
  \/ \E v \in Users : AssertValidBuddy(t, u, v) \/ HandleBuddyRequest(t, u, v)
  \/ \E m \in anonymous[u] : Accept(t, u, m) \/ Reject(t, u, m) \/ DeleteMessage(t, u, m)
  \/ \E r \in buddies[u] : RemoveBuddy(t, u, r)
  \/ DeleteUser(t, u)

Next ==
  \/ \E t \in Threads, u \in Users : Prepare(t, u) \/ RequestStep(t, u)
  \/ \E t \in Threads : EndRequest(t)
  \/ \E u \in Users : OverwriteUser(u)

Spec == Init /\ [][Next]_vars

\* Every app makes a request from time to time, and requests end.
Fairness ==
  /\ \A t \in Threads : WF_vars(request[t] # Idle /\ \E u \in Users : RequestStep(t, u) \/ EndRequest(t))
  /\ \A u \in Users : SF_vars(\E t \in Threads : Prepare(t, u))

FairSpec == Spec /\ Fairness

-----------------------------------------------------------------------------
(* Properties.                                                             *)

Active == {u \in Users : account[u] = "active"}

\* Nobody has an accepted buddy who did not, at some time, ask for it or agree
\* to it, nor one the user did not ask for or agree to: whatever the order of
\* the messages and whatever the apps do.
Consent ==
  \A u \in Users : \A r \in AcceptedBuddies(buddies[u]) :
    <<u, r.user>> \in consent /\ <<r.user, u>> \in consent

\* Strengthening of Consent for induction.  The ID in a request is one of a row
\* its sender has for the receiver, that in a response one of a row its receiver
\* has for the sender, if the row is still there, and a message that may lead to
\* an acceptance comes from somebody who wants it.
RowsAreWanted ==
  \A u \in Users : \A r \in buddies[u] :
    /\ r.id <= created
    /\ <<u, r.user>> \in consent
    /\ r.status = "ACCEPTED" => <<r.user, u>> \in consent

MessageIsWanted(u, m) ==
  /\ m.buddy <= created
  /\ m.type = "request" =>
       /\ <<m.user, u>> \in consent
       /\ \A v \in Users : \A r \in buddies[v] :
            r.id = m.buddy => v = m.user /\ r.user = u
  /\ m.type = "response" =>
       /\ m.status = "ACCEPTED" => <<m.user, u>> \in consent
       /\ \A r \in buddies[u] : r.id = m.buddy => r.user = m.user

MessagesAreWanted == \A u \in Users : \A m \in Box(u) : MessageIsWanted(u, m)

IInv == TypeOK /\ RowsAreWanted /\ MessagesAreWanted

\* The preparation of a request never fails, for any user, and so no message
\* or row locks a user out of the whole application.
PreparationNeverFails ==
  \A u \in Active :
    /\ CanForget(buddies[u])
    /\ CanBeAnswered(buddies[u] \ RelatedToRemovedUsers(buddies[u]),
                     Responses(AnonymousAfterForget(u) \cup NamedAfterForget(u)))

HasAcceptance(u, r) == \E m \in Responses(anonymous[u]) : Accepts(m, r)

\* An established buddy has the user as an established buddy too, or has yet to
\* process the acceptance of its own request.
BuddiesAgree ==
  \A u \in Active : \A r \in AcceptedBuddies(buddies[u]) :
    r.user \in Active =>
      \E q \in buddies[r.user] :
        \/ q.user = u /\ q.linked
        \/ q.status = "REQUESTED" /\ HasAcceptance(r.user, q)

\* A disconnected row will be removed: the disconnect that does so is in the
\* named box, or the buddy's account has gone.
DisconnectIsUnderway ==
  \A u \in Active : \A r \in buddies[u] :
    r.status = "REJECTED" /\ r.user \in Active =>
      DisconnectMessage(r.user) \in named[u]

\* A pending row can still be answered, or its answer is in the box, or the
\* disconnect of a buddy who answered and had second thoughts.
InvitationCanBeAnswered ==
  \A u \in Active : \A r \in buddies[u] :
    r.status = "REQUESTED" /\ r.user \in Active =>
      \/ \E m \in Box(r.user) :
           m.type = "request" /\ m.buddy = r.id /\ m.status = "REQUESTED"
      \/ \E m \in Responses(anonymous[u]) : m.buddy = r.id
      \/ DisconnectMessage(r.user) \in named[u]

\* A request that can be accepted belongs to a pending row of its sender.
RequestsAreOpen ==
  \A v \in Active : \A m \in Box(v) :
    m.type = "request" /\ m.status = "REQUESTED" /\ m.user \in Active =>
      \E r \in buddies[m.user] : r.id = m.buddy /\ r.status = "REQUESTED"

\* A user has at most one row for another one ("Cannot invite someone who is
\* already a buddy", messages.properties).
OneRowPerBuddy ==
  \A u \in Active : \A q, r \in buddies[u] : q.user = r.user => q = r

\* getBuddyUsersAnonymized: who is told of the activities of u.  A pending row
\* of the other user counts as a row for u, whoever it is for.
KnowsUser(v, u) ==
  \E r \in buddies[v] : (r.user = u /\ r.linked) \/ r.status = "REQUESTED"

BuddyUsersAnonymized(u) ==
  {v \in Active : KnowsUser(v, u) /\
     \E r \in AcceptedBuddies(buddies[u]) : r.user = v /\ r.linked}

\* The devices of an overwritten account inform nobody who has no such buddy
\* any more (the comment in otherBuddyAnonymizedStillExists).
OverwrittenUserInformsBuddies ==
  \A u \in Users : \A v \in BuddyUsersAnonymized(u) : \E r \in buddies[v] : r.user = u

IsOpenInvitation(u, v) ==
  \E r \in buddies[u] : r.user = v /\ r.status = "REQUESTED" /\
    \E m \in Box(v) :
      m.type = "request" /\ m.buddy = r.id /\ m.status = "REQUESTED"

Invited == {pair \in Active \X Active : IsOpenInvitation(pair[1], pair[2])}

Has(u, v) == \E r \in AcceptedBuddies(buddies[u]) : r.user = v

WillHave(u, v) ==
  \E r \in buddies[u] : r.user = v /\ r.status = "REQUESTED" /\ HasAcceptance(u, r)

Connected ==
  {pair \in SUBSET Active : \E u, v \in Active :
     u # v /\ pair = {u, v} /\ Has(u, v) /\ (Has(v, u) \/ WillHave(v, u))}

Pair == INSTANCE BuddyPair WITH invited <- Invited, connected <- Connected

\* Rows and messages together implement one relation between pairs of users.
ImplementsBuddyPair == Pair!Spec

MustSettle(u, id) ==
  \E r \in buddies[u] : r.id = id /\
    \/ r.status = "REJECTED"
    \/ r.user \notin Active
    \/ \E m \in Responses(anonymous[u]) : m.buddy = id

\* A row whose buddy has answered, has disconnected or has gone is brought up to
\* date: at the latest when the user's app makes its next request.
BuddyListSettles ==
  \A u \in Users, id \in Id :
    (u \in Active /\ MustSettle(u, id)) ~> (u \notin Active \/ ~MustSettle(u, id))
=============================================================================
