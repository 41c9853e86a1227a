------------------------------ MODULE ChatLog ------------------------------
(***************************************************************************)
(* What the chat page promises its user: every conversation has a log, a    *)
(* received message is appended to the log of its conversation and to no    *)
(* other, what the user writes is appended to the log of one conversation   *)
(* and is sent, if at all, to that one, and nothing is ever removed,        *)
(* changed or moved.  It does not promise that what is shown was sent.      *)
(***************************************************************************)
EXTENDS Sequences

CONSTANTS Peer, Entry

VARIABLES
    log,           \* log[p]: what the conversation with p shows
    got,           \* <<p, e>>: e was received for p
    sent           \* <<p, e>>: e was handed to the socket, for p

vars == <<log, got, sent>>

Init ==
    /\ log = [p \in Peer |-> <<>>]
    /\ got = {}
    /\ sent = {}

Append1(p, e) == log' = [log EXCEPT ![p] = Append(@, e)]

Receive(p, e) ==
    /\ Append1(p, e)
    /\ got' = got \union {<<p, e>>}
    /\ UNCHANGED sent

Write(p, e) ==
    /\ Append1(p, e)
    /\ sent' \in {sent, sent \union {<<p, e>>}}
    /\ UNCHANGED got

Next == \E p \in Peer, e \in Entry : Receive(p, e) \/ Write(p, e)

Spec == Init /\ [][Next]_vars

=============================================================================
