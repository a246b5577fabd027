----------------------------- MODULE ChatRooms ------------------------------
(***************************************************************************)
(* What the system promises its users, without processes, sockets, rows    *)
(* and windows: a room has the user who founded it and others who were     *)
(* invited to it and agreed, in this order; the posts in a room are        *)
(* numbered 1, 2, 3, ..., and there are none in a room nobody is in.       *)
(* Nobody leaves, and nothing is taken back.                               *)
(***************************************************************************)
EXTENDS Integers, Sequences, FiniteSets

CONSTANT Users

VARIABLES
    founders,  \* founders[c]: who founded room c
    invited,   \* who was invited to which room
    agreed,    \* who agreed to join which room
    members,   \* who is in which room
    posts      \* the posts, in order: their room and number

roomVars == <<founders, invited, agreed, members, posts>>

Rooms == DOMAIN founders
Place(u, c) == [user |-> u, chat |-> c]

Found(u) ==
    /\ founders' = Append(founders, u)
    /\ UNCHANGED <<invited, agreed, members, posts>>

Invite(u, c) ==
    /\ c \in Rooms
    /\ invited' = invited \cup {Place(u, c)}
    /\ UNCHANGED <<founders, agreed, members, posts>>

Agree(u, c) ==
    /\ Place(u, c) \in invited
    /\ agreed' = agreed \cup {Place(u, c)}
    /\ UNCHANGED <<founders, invited, members, posts>>

\* Somebody else answers in the place of u.
AgreeFor(u, v, c) ==
    /\ Place(u, c) \in invited
    /\ agreed' = agreed \cup {Place(v, c)}
    /\ UNCHANGED <<founders, invited, members, posts>>

Join(u, c) ==
    /\ Place(u, c) \in agreed \/ (c \in Rooms /\ founders[c] = u)
    /\ members' = members \cup {Place(u, c)}
    /\ UNCHANGED <<founders, invited, agreed, posts>>

NumberOfPosts(c) == Cardinality({i \in DOMAIN posts : posts[i].chat = c})

PostIn(c) ==
    /\ \E m \in members : m.chat = c
    /\ posts' = Append(posts, [chat |-> c, id |-> NumberOfPosts(c) + 1])
    /\ UNCHANGED <<founders, invited, agreed, members>>

RoomsInit ==
    /\ founders = <<>>
    /\ invited = {} /\ agreed = {} /\ members = {}
    /\ posts = <<>>

RoomsNext ==
    \/ \E u \in Users : Found(u)
    \/ \E u \in Users, c \in Rooms : Invite(u, c) \/ Agree(u, c) \/ Join(u, c)
    \/ \E c \in Rooms : PostIn(c)

RoomsSpec == RoomsInit /\ [][RoomsNext]_roomVars

\* The rooms of users who leave their open box to others.
SharedRoomsNext ==
    \/ RoomsNext
    \/ \E u, v \in Users, c \in Rooms : AgreeFor(u, v, c)

SharedRoomsSpec == RoomsInit /\ [][SharedRoomsNext]_roomVars
=============================================================================
