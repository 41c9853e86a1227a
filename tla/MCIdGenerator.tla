--------------------------- MODULE MCIdGenerator ---------------------------
(* Small instances of IdGenerator: two nodes, the first with two loops. *)
EXTENDS IdGenerator, TLC

CONSTANTS g1, g2, t1, t2, t3

MCGenerator == {g1, g2}
MCThread == {t1, t2, t3}
MCGenOf == t1 :> g1 @@ t2 :> g1 @@ t3 :> g2
\* datacenterId and workerId as the class comment asks for: one per node.
MCDistinct == g1 :> 0 @@ g2 :> 1
\* WebsocketConfig, lines 51-54: every node runs new IdGenerator(), worker 0.
MCSame == [g \in Generator |-> 0]
=============================================================================
