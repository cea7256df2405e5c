----------------------------- MODULE BuddyPair -----------------------------
(***************************************************************************)
(* What the buddy relation promises, whatever the message boxes and the    *)
(* rows on either side look like: two users are buddies of each other,     *)
(* both or neither, and only because one of them accepted an invitation    *)
(* of the other one.                                                       *)
(***************************************************************************)
CONSTANT Users

VARIABLES
  invited,     \* the pairs <<u, v>>: u invited v, who may accept or reject
  connected    \* the pairs {u, v} that are buddies

vars == <<invited, connected>>

Init == invited = {} /\ connected = {}

Invite(u, v) ==
  /\ u # v
  /\ invited' = invited \cup {<<u, v>>}
  /\ UNCHANGED connected

Accept(v, u) ==
  /\ <<u, v>> \in invited
  /\ invited' = invited \ {<<u, v>>}
  /\ connected' = connected \cup {{u, v}}

\* The invited user rejects the invitation, or the inviting one withdraws it.
CallOff(u, v) ==
  /\ <<u, v>> \in invited
  /\ invited' = invited \ {<<u, v>>}
  /\ UNCHANGED connected

Part(u, v) ==
  /\ {u, v} \in connected
  /\ connected' = connected \ {{u, v}}
  /\ UNCHANGED invited

\* The account of u disappears.
Leave(u) ==
  /\ invited' = {pair \in invited : pair[1] # u /\ pair[2] # u}
  /\ connected' = {pair \in connected : u \notin pair}

Next ==
  \E u \in Users :
    \/ \E v \in Users : Invite(u, v) \/ Accept(u, v) \/ CallOff(u, v) \/ Part(u, v)
    \/ Leave(u)

Spec == Init /\ [][Next]_vars
=============================================================================
