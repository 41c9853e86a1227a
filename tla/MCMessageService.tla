-------------------------- MODULE MCMessageService --------------------------
(* Small instances of MessageService: two connections, each with a loop of   *)
(* its own, on one node or on two.                                           *)
EXTENDS MessageService, TLC

CONSTANTS n1, n2, l1, l2, c1, c2, ann, bob, eve, team, ghost, hi

TwoLoops == l1 :> n1 @@ l2 :> n1
TwoNodes == l1 :> n1 @@ l2 :> n2
FirstOnOne == c1 :> l1 @@ c2 :> l2

NoGroup == <<>>
Pair == team :> {ann, bob}
BobAndEve == team :> {bob, eve}
BigTeam == team :> {ann, bob, eve}

\* Who speaks over a connection: two users, or one user twice.
AnnAndBob == c1 :> {ann} @@ c2 :> {bob}
AllBob == [c \in Conn |-> {bob}]
=============================================================================
