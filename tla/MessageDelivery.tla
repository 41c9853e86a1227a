-------------------------- MODULE MessageDelivery --------------------------
(***************************************************************************)
(* What the message path of the cluster promises, whatever the interleaving *)
(* of nodes, loops and listener threads: frames and offline copies carry    *)
(* published messages to their recipients only, and an offline message      *)
(* leaves the mailbox only together with all that rank up to a message for  *)
(* which a frame to the same user was written.  It promises neither that a  *)
(* message is sent once nor that an unsent one stays.                       *)
(***************************************************************************)
EXTENDS Integers

CONSTANTS
    Message, User,
    For,           \* [Message -> SUBSET User]: the recipients
    Rank           \* [Message -> Int]: the order of the mailbox

VARIABLES
    published,     \* the messages handed to the cluster
    mailbox,       \* mailbox[u]: the messages kept for u
    attempted      \* <<u, m>>: a frame with m was written for u

vars == <<published, mailbox, attempted>>

Init ==
    /\ published = {}
    /\ mailbox = [u \in User |-> {}]
    /\ attempted = {}

Publish(m) ==
    /\ published' = published \union {m}
    /\ UNCHANGED <<mailbox, attempted>>

Keep(u, m) ==
    /\ m \in published /\ u \in For[m]
    /\ mailbox' = [mailbox EXCEPT ![u] = @ \union {m}]
    /\ UNCHANGED <<published, attempted>>

Attempt(u, m) ==
    /\ m \in published /\ u \in For[m]
    /\ attempted' = attempted \union {<<u, m>>}
    /\ UNCHANGED <<published, mailbox>>

PruneUpTo(u, sent) ==
    /\ <<u, sent>> \in attempted
    /\ mailbox' = [mailbox EXCEPT ![u] = {m \in @ : Rank[m] > Rank[sent]}]
    /\ UNCHANGED <<published, attempted>>

Next ==
    \/ \E m \in Message : Publish(m)
    \/ \E u \in User, m \in Message : Keep(u, m) \/ Attempt(u, m) \/ PruneUpTo(u, m)

Spec == Init /\ [][Next]_vars

=============================================================================
