------------------------ MODULE MessageServiceProofs ------------------------
(***************************************************************************)
(* What MessageService.tla claims about the message path, proved for any    *)
(* number of nodes, loops, connections, users and messages: types first;    *)
(* then where messages go and when offline copies leave, DeliveredToRecipient,*)
(* PrunedBelowSent and the refinement of MessageDelivery; at the end that    *)
(* nobody is passed over.                                                   *)
(***************************************************************************)
EXTENDS MessageService, TLAPS

\* What the handler a loop is inside of works on.
LoopShape ==
    \A l \in Loop :
        /\ loop[l].pc # "idle" => loop[l].conn \in Conn
        /\ loop[l].pc \notin {"idle", "publish"} => loop[l].user \in User
        /\ loop[l].pc \in {"publish", "record"} => loop[l].msg \in Message

\* A chat frame is for a user and carries a message.
QueueShape ==
    \A l \in Loop : \A i \in 1 .. Len(queue[l]) :
        queue[l][i].kind = "chat" => queue[l][i].user \in User /\ queue[l][i].msg \in Message

\* What a call of handlerMessageSend works on; a loop has one call at most, and
\* only while it drains.
DispatchShape ==
    \A d \in dispatching :
        /\ d.pc \in {"send", "store", "flag"} => d.user \in User
        /\ d.pc = "send" => d.ctx \in Conn
        /\ d.owner # None => loop[d.owner].pc = "drain" /\ NodeOf[d.owner] = d.node
        /\ \A e \in dispatching : d.owner = e.owner /\ d.owner # None => d = e

WellFormed == TypeOK /\ LoopShape /\ QueueShape /\ DispatchShape

-----------------------------------------------------------------------------
(* Lemmas about the operators of the model. *)

LEMMA RecipientsType ==
    ASSUME NEW m \in Message
    PROVE  Recipients(m) \in SUBSET User
  BY TopologyAssumption DEF Recipients, Message

LEMMA IdleType == Idle \in Handler /\ Idle.pc = "idle"
  BY BoundAssumption DEF Idle, Doing, Handler

\* What a handler record must satisfy to be well formed.
WellShaped(h) ==
    /\ h.pc # "idle" => h.conn \in Conn
    /\ h.pc \notin {"idle", "publish"} => h.user \in User
    /\ h.pc \in {"publish", "record"} => h.msg \in Message

\* The handlers the steps of a loop start.
LEMMA PublishType ==
    ASSUME NEW c \in Conn, NEW m \in Message
    PROVE  Doing("publish", c, None, m) \in Handler /\ WellShaped(Doing("publish", c, None, m))
  BY BoundAssumption DEF Doing, Handler, WellShaped

LEMMA CheckType ==
    ASSUME NEW c \in Conn, NEW u \in User
    PROVE  Doing("check", c, u, None) \in Handler /\ WellShaped(Doing("check", c, u, None))
  BY BoundAssumption DEF Doing, Handler, WellShaped

LEMMA RemoveType ==
    ASSUME NEW c \in Conn, NEW u \in User
    PROVE  Doing("remove", c, u, None) \in Handler /\ WellShaped(Doing("remove", c, u, None))
  BY BoundAssumption DEF Doing, Handler, WellShaped

LEMMA RecordType ==
    ASSUME NEW c \in Conn, NEW u \in User, NEW m \in Message
    PROVE  Doing("record", c, u, m) \in Handler /\ WellShaped(Doing("record", c, u, m))
  BY BoundAssumption DEF Doing, Handler, WellShaped

LEMMA TaskTypes ==
    ASSUME NEW c \in Conn
    PROVE  /\ Notice(c) \in Task /\ Notice(c).kind = "notice" /\ Notice(c).conn = c
           /\ Inactive(c) \in Task /\ Inactive(c).kind = "inactive" /\ Inactive(c).conn = c
  BY DEF Notice, Inactive, Task

\* What follows when a handler throws: perhaps a notice, then channelInactive.
LEMMA ClosingTasks ==
    ASSUME NEW c \in Conn,
           NEW new \in {<<Inactive(c)>>, <<Notice(c), Inactive(c)>>}
    PROVE  new \in Seq(Task) /\ \A i \in 1 .. Len(new) : new[i].kind # "chat"
<1> DEFINE x == Inactive(c)
           y == Notice(c)
<1>1. x \in Task /\ y \in Task /\ x.kind # "chat" /\ y.kind # "chat"
  BY TaskTypes
<1> HIDE DEF x, y
<1>2. new = <<x>> \/ new = <<y, x>>
  BY DEF x, y
<1>3. <<x>> \in Seq(Task) /\ \A i \in 1 .. Len(<<x>>) : <<x>>[i].kind # "chat"
  <2>1. Len(<<x>>) = 1 /\ <<x>>[1] = x
    OBVIOUS
  <2> QED
    BY <1>1, <2>1
<1>4. <<y, x>> \in Seq(Task) /\ \A i \in 1 .. Len(<<y, x>>) : <<y, x>>[i].kind # "chat"
  <2>1. Len(<<y, x>>) = 2 /\ <<y, x>>[1] = y /\ <<y, x>>[2] = x
    OBVIOUS
  <2> QED
    BY <1>1, <2>1
<1> QED
  BY <1>2, <1>3, <1>4

\* What follows on text that is no message.
LEMMA NoticeTasks ==
    ASSUME NEW c \in Conn,
           NEW new \in {<<Notice(c)>>, <<Notice(c), Notice(c)>>}
    PROVE  new \in Seq(Task) /\ \A i \in 1 .. Len(new) : new[i].kind # "chat"
<1> DEFINE y == Notice(c)
<1>1. y \in Task /\ y.kind # "chat"
  BY TaskTypes
<1> HIDE DEF y
<1>2. new = <<y>> \/ new = <<y, y>>
  BY DEF y
<1>3. <<y>> \in Seq(Task) /\ \A i \in 1 .. Len(<<y>>) : <<y>>[i].kind # "chat"
  <2>1. Len(<<y>>) = 1 /\ <<y>>[1] = y
    OBVIOUS
  <2> QED
    BY <1>1, <2>1
<1>4. <<y, y>> \in Seq(Task) /\ \A i \in 1 .. Len(<<y, y>>) : <<y, y>>[i].kind # "chat"
  <2>1. Len(<<y, y>>) = 2 /\ <<y, y>>[1] = y /\ <<y, y>>[2] = y
    OBVIOUS
  <2> QED
    BY <1>1, <2>1
<1> QED
  BY <1>2, <1>3, <1>4

LEMMA ChatType ==
    ASSUME NEW c \in Conn, NEW u \in User, NEW m \in Message
    PROVE  /\ Chat(c, u, m) \in Task /\ Chat(c, u, m).kind = "chat"
           /\ Chat(c, u, m).conn = c /\ Chat(c, u, m).user = u /\ Chat(c, u, m).msg = m
  BY DEF Chat, Task

LEMMA CallType ==
    ASSUME NEW owner \in Loop \union {None}, NEW n \in Node, NEW m \in Message
    PROVE  /\ Call(owner, n, m) \in DispatchCall
           /\ Call(owner, n, m).owner = owner /\ Call(owner, n, m).node = n
           /\ Call(owner, n, m).msg = m /\ Call(owner, n, m).todo = Recipients(m)
           /\ Call(owner, n, m).pc \in {"group", "next"}
  BY RecipientsType DEF Call, DispatchCall

\* A loop goes from one well-formed handler to another.
LEMMA LoopStep ==
    ASSUME WellFormed, NEW l \in Loop, NEW h \in Handler, WellShaped(h),
           loop' = [loop EXCEPT ![l] = h]
    PROVE  loop' \in [Loop -> Handler] /\ LoopShape'
  BY DEF WellFormed, TypeOK, LoopShape, WellShaped

\* A well-formed task is queued.
LEMMA EnqueueStep ==
    ASSUME WellFormed, NEW task \in Task, Enqueue(task),
           task.kind = "chat" => task.user \in User /\ task.msg \in Message
    PROVE  queue' \in [Loop -> Seq(Task)] /\ QueueShape'
<1> DEFINE l == LoopOf[task.conn]
<1>1. l \in Loop /\ queue[l] \in Seq(Task)
  BY TopologyAssumption DEF WellFormed, TypeOK, Task
<1>2. queue' = [queue EXCEPT ![l] = Append(queue[l], task)]
  BY DEF Enqueue
<1>3. Append(queue[l], task) \in Seq(Task)
  BY <1>1
<1>4. queue' \in [Loop -> Seq(Task)]
  BY <1>1, <1>2, <1>3 DEF WellFormed, TypeOK
<1>5. \A i \in 1 .. Len(Append(queue[l], task)) :
         Append(queue[l], task)[i] = task
         \/ (i \in 1 .. Len(queue[l]) /\ Append(queue[l], task)[i] = queue[l][i])
  BY <1>1
<1>6. QueueShape'
  BY <1>1, <1>2, <1>5 DEF WellFormed, TypeOK, QueueShape
<1> QED
  BY <1>4, <1>6

\* ctx.close() is well typed.
LEMMA CloseStep ==
    ASSUME WellFormed, NEW c \in Conn, Close(c)
    PROVE  /\ channel' \in [Conn -> {"new", "open", "gone", "closed"}]
           /\ queue' \in [Loop -> Seq(Task)]
           /\ QueueShape'
<1>1. channel' \in [Conn -> {"new", "open", "gone", "closed"}]
  BY DEF Close, WellFormed, TypeOK
<1>2. CASE channel[c] = "closed"
  BY <1>1, <1>2 DEF Close, WellFormed, TypeOK, QueueShape
<1>3. CASE channel[c] # "closed"
  BY <1>1, <1>3, TaskTypes, EnqueueStep DEF Close
<1> QED
  BY <1>2, <1>3

USE DEF netVars, counters, history, redisVars, IsIdle, At

LEMMA NetworkWellFormed ==
    ASSUME WellFormed, Network
    PROVE  WellFormed'
<1>1. ASSUME NEW c \in Conn, Connect(c) \/ PeerVanishes(c)
      PROVE  WellFormed'
  <2>1. channel' \in [Conn -> {"new", "open", "gone", "closed"}]
    BY <1>1 DEF Connect, PeerVanishes, WellFormed, TypeOK
  <2>2. UNCHANGED <<up, onlineUserMap, queue, loop, dispatching, lastId, redisVars, counters, history>>
    BY <1>1 DEF Connect, PeerVanishes
  <2> QED
    BY <2>1, <2>2 DEF WellFormed, TypeOK, LoopShape, QueueShape, DispatchShape
<1>2. ASSUME NEW c \in Conn, EndOfStream(c)
      PROVE  WellFormed'
  <2>1. UNCHANGED <<up, onlineUserMap, loop, dispatching, lastId, redisVars, counters, history>>
    BY <1>2 DEF EndOfStream
  <2>2. /\ channel' \in [Conn -> {"new", "open", "gone", "closed"}]
        /\ queue' \in [Loop -> Seq(Task)]
        /\ QueueShape'
    BY <1>2, CloseStep DEF EndOfStream
  <2> QED
    BY <2>1, <2>2 DEF WellFormed, TypeOK, LoopShape, DispatchShape
<1> QED
  BY <1>1, <1>2 DEF Network

\* A loop that does not drain owns no call, so it may go anywhere.
LEMMA DispatchKeeps ==
    ASSUME WellFormed, UNCHANGED dispatching,
           NEW l \in Loop, loop[l].pc # "drain" \/ Dispatches(l) = {},
           NEW h, loop' = [loop EXCEPT ![l] = h]
    PROVE  DispatchShape'
  BY DEF WellFormed, TypeOK, DispatchShape, DispatchCall, Dispatches

\* A queue is replaced by a well-formed one.
LEMMA QueueStep ==
    ASSUME WellFormed, NEW l \in Loop, NEW q \in Seq(Task),
           \A i \in 1 .. Len(q) : q[i].kind = "chat" => q[i].user \in User /\ q[i].msg \in Message,
           queue' = [queue EXCEPT ![l] = q]
    PROVE  queue' \in [Loop -> Seq(Task)] /\ QueueShape'
  BY DEF WellFormed, TypeOK, QueueShape

\* Notices and the task of channelInactive are added at the end of a queue.
LEMMA ExtendStep ==
    ASSUME WellFormed, NEW l \in Loop, NEW new \in Seq(Task),
           \A i \in 1 .. Len(new) : new[i].kind # "chat",
           queue' = [queue EXCEPT ![l] = @ \o new]
    PROVE  queue' \in [Loop -> Seq(Task)] /\ QueueShape'
<1>1. queue[l] \in Seq(Task)
  BY DEF WellFormed, TypeOK
<1>2. queue[l] \o new \in Seq(Task)
  BY <1>1
<1>3. \A i \in 1 .. Len(queue[l] \o new) :
         \/ i \in 1 .. Len(queue[l]) /\ (queue[l] \o new)[i] = queue[l][i]
         \/ i - Len(queue[l]) \in 1 .. Len(new) /\ (queue[l] \o new)[i] = new[i - Len(queue[l])]
  BY <1>1
<1>4. \A i \in 1 .. Len(queue[l]) :
         queue[l][i].kind = "chat" => queue[l][i].user \in User /\ queue[l][i].msg \in Message
  BY DEF WellFormed, QueueShape
<1>5. \A i \in 1 .. Len(queue[l] \o new) :
         (queue[l] \o new)[i].kind = "chat" =>
            (queue[l] \o new)[i].user \in User /\ (queue[l] \o new)[i].msg \in Message
  BY <1>3, <1>4
<1> QED
  BY <1>2, <1>5, QueueStep

\* connectionDisconnect found an entry.
LEMMA FindsStep ==
    ASSUME WellFormed, NEW l \in Loop, NEW c \in Conn, NEW u \in User,
           DisconnectFinds(l, c, u), loop[l].pc = "idle", UNCHANGED dispatching
    PROVE  loop' \in [Loop -> Handler] /\ LoopShape' /\ DispatchShape'
<1>1. loop' = [loop EXCEPT ![l] = Doing("remove", c, u, None)]
  BY DEF DisconnectFinds
<1>2. Doing("remove", c, u, None) \in Handler /\ WellShaped(Doing("remove", c, u, None))
  BY RemoveType
<1> QED
  BY <1>1, <1>2, LoopStep, DispatchKeeps

LEMMA ReadWellFormed ==
    ASSUME WellFormed, Read
    PROVE  WellFormed'
<1> USE TopologyAssumption, BoundAssumption
<1>1. ASSUME NEW c \in Conn, NEW u \in Identities[c], ReadRegister(c, u)
      PROVE  WellFormed'
  <2>1. LoopOf[c] \in Loop /\ NodeOf[LoopOf[c]] \in Node /\ u \in User
    OBVIOUS
  <2>2. /\ loop' = [loop EXCEPT ![LoopOf[c]] = Doing("check", c, u, None)]
        /\ loop[LoopOf[c]].pc = "idle"
        /\ frames' \in 0 .. MaxFrames
    BY <1>1 DEF ReadRegister, ReadFrame, WellFormed, TypeOK
  <2>3. Doing("check", c, u, None) \in Handler /\ WellShaped(Doing("check", c, u, None))
    BY <2>1, CheckType
  <2>4. loop' \in [Loop -> Handler] /\ LoopShape'
    BY <2>1, <2>2, <2>3, LoopStep
  <2>5. /\ UNCHANGED <<netVars, queue, dispatching, lastId, redisVars, faults, crashes,
                       published, handled, attempted, delivered, kept>>
        /\ onlineUserMap' = [onlineUserMap EXCEPT ![NodeOf[LoopOf[c]]][u] = c]
        /\ identity' = [identity EXCEPT ![c] = @ \union {u}]
        /\ holder' = [holder EXCEPT ![NodeOf[LoopOf[c]]][u] = c]
    BY <1>1 DEF ReadRegister
  <2>6. DispatchShape'
    BY <2>1, <2>2, <2>5, DispatchKeeps
  <2>7. /\ onlineUserMap' \in [Node -> [User -> Conn \union {None}]]
        /\ holder' \in [Node -> [User -> Conn \union {None}]]
        /\ identity' \in [Conn -> SUBSET User]
    BY <2>1, <2>5 DEF WellFormed, TypeOK
  <2> QED
    BY <2>2, <2>4, <2>5, <2>6, <2>7 DEF WellFormed, TypeOK, QueueShape
<1>2. ASSUME NEW c \in Conn, NEW u \in Identities[c], NEW to \in Target, NEW body \in Body,
             ReadChat(c, u, to, body)
      PROVE  WellFormed'
  <2> DEFINE n == NodeOf[LoopOf[c]]
  <2>1. LoopOf[c] \in Loop /\ n \in Node /\ u \in User
    OBVIOUS
  <2>2. PICK id \in lastId[n] + 1 .. MaxId :
            /\ lastId' = [lastId EXCEPT ![n] = id]
            /\ loop' = [loop EXCEPT ![LoopOf[c]] = Doing("publish", c, None,
                     [id |-> id, node |-> n, from |-> u, to |-> to, body |-> body])]
    BY <1>2 DEF ReadChat
  <2>3. /\ UNCHANGED <<netVars, onlineUserMap, queue, dispatching, redisVars, faults, crashes, history>>
        /\ frames' \in 0 .. MaxFrames
        /\ loop[LoopOf[c]].pc = "idle"
    BY <1>2 DEF ReadChat, ReadFrame, WellFormed, TypeOK
  <2>4. id \in FirstId .. MaxId
    BY <2>1 DEF WellFormed, TypeOK
  <2>5. PICK m \in Message : loop' = [loop EXCEPT ![LoopOf[c]] = Doing("publish", c, None, m)]
    <3>1. [id |-> id, node |-> n, from |-> u, to |-> to, body |-> body] \in Message
      BY <2>1, <2>4 DEF Message
    <3> QED
      BY <2>2, <3>1
  <2>6. lastId' \in [Node -> FirstId - 1 .. MaxId]
    BY <2>1, <2>2, <2>4 DEF WellFormed, TypeOK
  <2>7. Doing("publish", c, None, m) \in Handler /\ WellShaped(Doing("publish", c, None, m))
    BY PublishType
  <2>8. loop' \in [Loop -> Handler] /\ LoopShape'
    BY <2>1, <2>5, <2>7, LoopStep
  <2>9. DispatchShape'
    BY <2>1, <2>3, <2>5, DispatchKeeps
  <2> QED
    BY <2>3, <2>6, <2>8, <2>9 DEF WellFormed, TypeOK, QueueShape
<1>3. ASSUME NEW c \in Conn, ReadMalformed(c)
      PROVE  WellFormed'
  <2>1. PICK new \in {<<Notice(c)>>, <<Notice(c), Notice(c)>>} :
            queue' = [queue EXCEPT ![LoopOf[c]] = @ \o new]
    BY <1>3 DEF ReadMalformed
  <2>2. LoopOf[c] \in Loop /\ new \in Seq(Task) /\ \A i \in 1 .. Len(new) : new[i].kind # "chat"
    BY NoticeTasks
  <2>3. queue' \in [Loop -> Seq(Task)] /\ QueueShape'
    BY <2>1, <2>2, ExtendStep
  <2>4. /\ UNCHANGED <<netVars, onlineUserMap, loop, dispatching, lastId, redisVars, faults, crashes, history>>
        /\ frames' \in 0 .. MaxFrames
    BY <1>3 DEF ReadMalformed, ReadFrame, WellFormed, TypeOK
  <2> QED
    BY <2>3, <2>4 DEF WellFormed, TypeOK, LoopShape, DispatchShape
<1>4. ASSUME NEW c \in Conn, ReadRefused(c)
      PROVE  WellFormed'
  <2>1. PICK new \in {<<Inactive(c)>>, <<Notice(c), Inactive(c)>>} :
            queue' = [queue EXCEPT ![LoopOf[c]] = @ \o new]
    BY <1>4 DEF ReadRefused
  <2>2. LoopOf[c] \in Loop
    OBVIOUS
  <2>3. new \in Seq(Task) /\ \A i \in 1 .. Len(new) : new[i].kind # "chat"
    BY ClosingTasks
  <2>4. queue' \in [Loop -> Seq(Task)] /\ QueueShape'
    BY <2>1, <2>2, <2>3, ExtendStep
  <2>5. /\ UNCHANGED <<up, onlineUserMap, loop, dispatching, lastId, redisVars, faults, crashes, history>>
        /\ channel' = [channel EXCEPT ![c] = "closed"]
        /\ frames' \in 0 .. MaxFrames
    BY <1>4 DEF ReadRefused, ReadFrame, WellFormed, TypeOK
  <2> QED
    BY <2>4, <2>5 DEF WellFormed, TypeOK, LoopShape, DispatchShape
<1>5. ASSUME NEW c \in Conn, ReaderIdle(c)
      PROVE  WellFormed'
  <2>1. PICK u \in User : DisconnectFinds(LoopOf[c], c, u)
    BY <1>5 DEF ReaderIdle
  <2>2. /\ UNCHANGED <<up, onlineUserMap, dispatching, lastId, redisVars, counters, history>>
        /\ loop[LoopOf[c]].pc = "idle"
        /\ LoopOf[c] \in Loop
        /\ Close(c)
    BY <1>5 DEF ReaderIdle
  <2>3. loop' \in [Loop -> Handler] /\ LoopShape' /\ DispatchShape'
    BY <2>1, <2>2, FindsStep
  <2>4. /\ channel' \in [Conn -> {"new", "open", "gone", "closed"}]
        /\ queue' \in [Loop -> Seq(Task)]
        /\ QueueShape'
    BY <2>2, CloseStep
  <2> QED
    BY <2>2, <2>3, <2>4 DEF WellFormed, TypeOK
<1> QED
  BY <1>1, <1>2, <1>3, <1>4, <1>5 DEF Read

LEMMA BecomesIdle ==
    ASSUME WellFormed, NEW l \in Loop, loop' = [loop EXCEPT ![l] = Idle]
    PROVE  loop' \in [Loop -> Handler] /\ LoopShape'
<1>1. WellShaped(Idle)
  BY IdleType DEF WellShaped
<1> QED
  BY <1>1, IdleType, LoopStep

\* A message is broadcast: every call it starts is a listener's.
LEMMA BroadcastStep ==
    ASSUME WellFormed, NEW m \in Message, Broadcast(m),
           NEW l \in Loop, loop[l].pc # "drain", loop' = [loop EXCEPT ![l] = Idle]
    PROVE  /\ published' \in SUBSET Message
           /\ dispatching' \in SUBSET DispatchCall
           /\ DispatchShape'
<1>1. \A n \in Node : /\ Call(None, n, m) \in DispatchCall
                      /\ Call(None, n, m).owner = None
                      /\ Call(None, n, m).pc \in {"group", "next"}
  BY CallType
<1>2. \A d \in dispatching' : d \in dispatching
          \/ (d \in DispatchCall /\ d.owner = None /\ d.pc \in {"group", "next"})
  BY <1>1 DEF Broadcast
<1>3. dispatching' \in SUBSET DispatchCall
  BY <1>2 DEF WellFormed, TypeOK
<1>4. \A d \in dispatching : d.owner # None => d.owner \in Loop /\ d.owner # l
  BY DEF WellFormed, TypeOK, DispatchCall, DispatchShape
<1>5. DispatchShape'
  BY <1>2, <1>4 DEF WellFormed, TypeOK, DispatchShape
<1> QED
  BY <1>3, <1>5 DEF Broadcast, WellFormed, TypeOK

\* A loop inside a handler goes on with other fields of the same handler.
LEMMA EditStep ==
    ASSUME WellFormed, NEW l \in Loop, NEW h \in Handler,
           loop[l].pc \notin {"idle", "publish", "record"},
           h.pc \notin {"idle", "publish", "record"},
           h.conn = loop[l].conn, h.user = loop[l].user,
           loop' = [loop EXCEPT ![l] = h]
    PROVE  loop' \in [Loop -> Handler] /\ LoopShape'
<1>1. WellShaped(h)
  BY DEF WellFormed, LoopShape, WellShaped
<1> QED
  BY <1>1, LoopStep

LEMMA ContinueWellFormed ==
    ASSUME WellFormed, NEW l \in Loop, Continue(l)
    PROVE  WellFormed'
<1>0. loop[l] \in Handler
  BY DEF WellFormed, TypeOK
<1>1. CASE Publish(l)
  <2>1. /\ loop[l].msg \in Message /\ loop[l].pc # "drain"
        /\ Broadcast(loop[l].msg)
        /\ loop' = [loop EXCEPT ![l] = Idle]
        /\ UNCHANGED <<netVars, onlineUserMap, queue, lastId, redisVars, counters,
                       handled, attempted, delivered, kept, identity, holder>>
    BY <1>1 DEF Publish, WellFormed, LoopShape
  <2> QED
    BY <2>1, BecomesIdle, BroadcastStep DEF WellFormed, TypeOK, QueueShape
<1>2. CASE AckAndCheckFlag(l)
  <2> DEFINE h == IF flag[loop[l].user] THEN [loop[l] EXCEPT !.pc = "latest"] ELSE Idle
  <2>1. /\ loop[l].pc = "check"
        /\ Enqueue(Notice(loop[l].conn))
        /\ loop' = [loop EXCEPT ![l] = h]
        /\ UNCHANGED <<netVars, onlineUserMap, dispatching, lastId, redisVars, counters, history>>
    BY <1>0, <1>2 DEF AckAndCheckFlag, WellFormed, TypeOK
  <2>2. loop[l].conn \in Conn
    BY <2>1 DEF WellFormed, LoopShape
  <2>3. queue' \in [Loop -> Seq(Task)] /\ QueueShape'
    BY <2>1, <2>2, TaskTypes, EnqueueStep
  <2>4. loop' \in [Loop -> Handler] /\ LoopShape'
    <3>1. CASE flag[loop[l].user]
      <4>1. /\ h \in Handler /\ h.pc = "latest"
            /\ h.conn = loop[l].conn /\ h.user = loop[l].user
        BY <1>0, <3>1 DEF Handler
      <4> HIDE DEF h
      <4> QED
        BY <2>1, <4>1, EditStep
    <3>2. CASE ~flag[loop[l].user]
      BY <2>1, <3>2, BecomesIdle
    <3> QED
      BY <3>1, <3>2
  <2> HIDE DEF h
  <2>5. DispatchShape'
    BY <2>1, DispatchKeeps
  <2> QED
    BY <2>1, <2>3, <2>4, <2>5 DEF WellFormed, TypeOK
<1>3. CASE GetSendInfo(l)
  <2> DEFINE h == [loop[l] EXCEPT !.pc = "prune", !.latest = record[loop[l].user]]
  <2>1. /\ loop[l].pc = "latest"
        /\ loop' = [loop EXCEPT ![l] = h]
        /\ UNCHANGED <<netVars, onlineUserMap, queue, dispatching, lastId, redisVars, counters, history>>
    BY <1>0, <1>3 DEF GetSendInfo, WellFormed, TypeOK
  <2>2. record[loop[l].user] \in 0 .. MaxId
    BY <2>1 DEF WellFormed, TypeOK, LoopShape
  <2>3. /\ h \in Handler /\ h.pc = "prune"
        /\ h.conn = loop[l].conn /\ h.user = loop[l].user
    BY <1>0, <2>2 DEF Handler
  <2> HIDE DEF h
  <2>4. loop' \in [Loop -> Handler] /\ LoopShape'
    BY <2>1, <2>3, EditStep
  <2>5. DispatchShape'
    BY <2>1, DispatchKeeps
  <2> QED
    BY <2>1, <2>4, <2>5 DEF WellFormed, TypeOK, QueueShape
<1>4. CASE PruneSent(l)
  <2> DEFINE h == [loop[l] EXCEPT !.pc = "fetch"]
  <2>1. /\ loop[l].pc = "prune"
        /\ loop' = [loop EXCEPT ![l] = h]
        /\ zset' = [zset EXCEPT ![loop[l].user] =
                      {m \in @ : Score(m.id) > Score(loop[l].latest)}]
        /\ UNCHANGED <<netVars, onlineUserMap, queue, dispatching, lastId, flag, record, counters, history>>
    BY <1>0, <1>4 DEF PruneSent, Goto, RemoveUpTo, WellFormed, TypeOK
  <2>2. /\ h \in Handler /\ h.pc = "fetch"
        /\ h.conn = loop[l].conn /\ h.user = loop[l].user
    BY <1>0 DEF Handler
  <2> HIDE DEF h
  <2>3. loop' \in [Loop -> Handler] /\ LoopShape'
    BY <2>1, <2>2, EditStep
  <2>4. DispatchShape'
    BY <2>1, DispatchKeeps
  <2>5. zset' \in [User -> SUBSET Message]
    BY <2>1 DEF WellFormed, TypeOK
  <2> QED
    BY <2>1, <2>3, <2>4, <2>5 DEF WellFormed, TypeOK, QueueShape
<1>5. CASE FetchUnsent(l)
  <2>1. PICK batch \in Deduplicated(FromLatest(loop[l].user, loop[l].latest)) :
            loop' = [loop EXCEPT ![l].pc = "drain", ![l].batch = batch]
    BY <1>5 DEF FetchUnsent
  <2> DEFINE h == [loop[l] EXCEPT !.pc = "drain", !.batch = batch]
  <2>2. /\ loop[l].pc = "fetch"
        /\ loop' = [loop EXCEPT ![l] = h]
        /\ UNCHANGED <<netVars, onlineUserMap, queue, dispatching, lastId, redisVars, counters, history>>
    BY <1>0, <1>5, <2>1 DEF FetchUnsent, WellFormed, TypeOK
  <2>3. batch \in SUBSET Message
    BY <2>2 DEF Deduplicated, FromLatest, WellFormed, TypeOK, LoopShape
  <2>4. /\ h \in Handler /\ h.pc = "drain"
        /\ h.conn = loop[l].conn /\ h.user = loop[l].user
    BY <1>0, <2>3 DEF Handler
  <2> HIDE DEF h
  <2>5. loop' \in [Loop -> Handler] /\ LoopShape'
    BY <2>2, <2>4, EditStep
  <2>6. DispatchShape'
    BY <2>2, DispatchKeeps
  <2> QED
    BY <2>2, <2>5, <2>6 DEF WellFormed, TypeOK, QueueShape
<1>6. CASE DrainNext(l)
  <2>1. PICK m \in loop[l].batch :
            /\ loop' = [loop EXCEPT ![l].batch = @ \ {m}]
            /\ dispatching' = dispatching \union {Call(l, NodeOf[l], m)}
    BY <1>6 DEF DrainNext
  <2> DEFINE h == [loop[l] EXCEPT !.batch = @ \ {m}]
             e == Call(l, NodeOf[l], m)
  <2>2. /\ loop[l].pc = "drain" /\ Dispatches(l) = {}
        /\ loop' = [loop EXCEPT ![l] = h]
        /\ UNCHANGED <<netVars, onlineUserMap, queue, lastId, redisVars, counters, history>>
    BY <1>0, <1>6, <2>1 DEF DrainNext, WellFormed, TypeOK
  <2>3. /\ h \in Handler /\ h.pc = "drain"
        /\ h.conn = loop[l].conn /\ h.user = loop[l].user
    BY <1>0, <2>2 DEF Handler
  <2>4. m \in Message /\ NodeOf[l] \in Node
    BY <1>0, TopologyAssumption DEF Handler
  <2>5. e \in DispatchCall /\ e.owner = l /\ e.node = NodeOf[l] /\ e.pc \in {"group", "next"}
    BY <2>4, CallType
  <2> HIDE DEF h, e
  <2>6. loop' \in [Loop -> Handler] /\ LoopShape'
    BY <2>2, <2>3, EditStep
  <2>7. \A k \in Loop : loop'[k].pc = loop[k].pc
    BY <2>2, <2>3 DEF WellFormed, TypeOK
  <2>8. dispatching' = dispatching \union {e}
    BY <2>1 DEF e
  <2>9. DispatchShape'
    <3>1. \A d \in dispatching : d.owner # l
      BY <2>2 DEF Dispatches
    <3>2. \A d \in dispatching : d.owner # None => d.owner \in Loop
      BY DEF WellFormed, TypeOK, DispatchCall
    <3> QED
      BY <2>2, <2>5, <2>7, <2>8, <3>1, <3>2 DEF WellFormed, DispatchShape
  <2> QED
    BY <2>2, <2>5, <2>6, <2>8, <2>9 DEF WellFormed, TypeOK, QueueShape
<1>7. CASE ClearOfflineFlag(l)
  <2>1. /\ Dispatches(l) = {}
        /\ loop' = [loop EXCEPT ![l] = Idle]
        /\ flag' = [flag EXCEPT ![loop[l].user] = FALSE]
        /\ UNCHANGED <<netVars, onlineUserMap, queue, dispatching, lastId, zset, record, counters, history>>
    BY <1>7 DEF ClearOfflineFlag, LowerFlag
  <2>2. DispatchShape'
    BY <2>1, DispatchKeeps
  <2>3. flag' \in [User -> BOOLEAN]
    BY <2>1 DEF WellFormed, TypeOK
  <2> QED
    BY <2>1, <2>2, <2>3, BecomesIdle DEF WellFormed, TypeOK, QueueShape
<1>8. CASE InsertSendInfo(l)
  <2>1. /\ loop[l].pc = "record" /\ loop[l].msg \in Message
        /\ loop' = [loop EXCEPT ![l] = Idle]
        /\ record' = [record EXCEPT ![loop[l].user] = loop[l].msg.id]
        /\ UNCHANGED <<netVars, onlineUserMap, queue, dispatching, lastId, zset, flag, counters, history>>
    BY <1>8 DEF InsertSendInfo, PutRecord, WellFormed, LoopShape
  <2>2. DispatchShape'
    BY <2>1, DispatchKeeps
  <2>3. record' \in [User -> 0 .. MaxId]
    <3>1. loop[l].msg.id \in 0 .. MaxId
      BY <2>1, BoundAssumption DEF Message
    <3> QED
      BY <2>1, <3>1 DEF WellFormed, TypeOK
  <2> QED
    BY <2>1, <2>2, <2>3, BecomesIdle DEF WellFormed, TypeOK, QueueShape
<1>9. CASE DisconnectRemoves(l)
  <2>1. /\ loop[l].pc = "remove"
        /\ loop' = [loop EXCEPT ![l] = Idle]
        /\ onlineUserMap' = [onlineUserMap EXCEPT ![NodeOf[l]][loop[l].user] = None]
        /\ UNCHANGED <<netVars, queue, dispatching, lastId, redisVars, counters, history>>
    BY <1>9 DEF DisconnectRemoves, RemoveEntry
  <2>2. DispatchShape'
    BY <2>1, DispatchKeeps
  <2>3. onlineUserMap' \in [Node -> [User -> Conn \union {None}]]
    BY <2>1, TopologyAssumption DEF WellFormed, TypeOK
  <2> QED
    BY <2>1, <2>2, <2>3, BecomesIdle DEF WellFormed, TypeOK, QueueShape
<1> QED
  BY <1>1, <1>2, <1>3, <1>4, <1>5, <1>6, <1>7, <1>8, <1>9 DEF Continue

\* A call goes on for the same owner.
LEMMA BecomesStep ==
    ASSUME WellFormed, NEW d \in dispatching, NEW e \in DispatchCall,
           e.owner = d.owner, e.node = d.node,
           e.pc \in {"send", "store", "flag"} => e.user \in User,
           e.pc = "send" => e.ctx \in Conn,
           Becomes(d, e), UNCHANGED loop
    PROVE  dispatching' \in SUBSET DispatchCall /\ DispatchShape'
<1>1. \A x \in dispatching' : (x \in dispatching /\ x # d) \/ x = e
  BY DEF Becomes
<1>2. dispatching' \in SUBSET DispatchCall
  BY <1>1 DEF WellFormed, TypeOK
<1>3. DispatchShape'
  BY <1>1 DEF WellFormed, DispatchShape
<1> QED
  BY <1>2, <1>3

\* A call goes on to its next recipient, or ends.
LEMMA ProceedStep ==
    ASSUME WellFormed, NEW d \in dispatching, Proceed(d), UNCHANGED loop
    PROVE  /\ dispatching' \in SUBSET DispatchCall
           /\ handled' \in SUBSET (Node \X Message)
           /\ DispatchShape'
<1>0. d \in DispatchCall
  BY DEF WellFormed, TypeOK
<1>1. CASE d.todo = {}
  <2>1. /\ dispatching' = dispatching \ {d}
        /\ handled' = IF d.owner = None THEN handled \union {<<d.node, d.msg>>} ELSE handled
    BY <1>1 DEF Proceed
  <2>2. handled' \in SUBSET (Node \X Message)
    BY <1>0, <2>1 DEF WellFormed, TypeOK, DispatchCall
  <2> QED
    BY <2>1, <2>2 DEF WellFormed, TypeOK, DispatchShape
<1>2. CASE d.todo # {}
  <2> DEFINE e == [d EXCEPT !.pc = "next", !.user = None, !.ctx = None]
  <2>1. Becomes(d, e) /\ UNCHANGED handled
    BY <1>2 DEF Proceed
  <2>2. e \in DispatchCall /\ e.owner = d.owner /\ e.node = d.node /\ e.pc = "next"
    BY <1>0 DEF DispatchCall
  <2> HIDE DEF e
  <2> QED
    BY <2>1, <2>2, BecomesStep DEF WellFormed, TypeOK
<1> QED
  BY <1>1, <1>2

LEMMA DispatchWellFormed ==
    ASSUME WellFormed, NEW d \in dispatching, Dispatch(d)
    PROVE  WellFormed'
<1>0. d \in DispatchCall
  BY DEF WellFormed, TypeOK
<1>1. CASE ReadGroup(d)
  BY <1>1, ProceedStep DEF ReadGroup, WellFormed, TypeOK, LoopShape, QueueShape
<1>2. CASE ReadGroupFails(d)
  <2>1. /\ dispatching' = dispatching \ {d}
        /\ UNCHANGED <<netVars, onlineUserMap, queue, loop, lastId, redisVars, counters, history>>
    BY <1>2 DEF ReadGroupFails
  <2> QED
    BY <2>1 DEF WellFormed, TypeOK, LoopShape, QueueShape, DispatchShape
<1>3. ASSUME NEW u \in d.todo, Lookup(d, u)
      PROVE  WellFormed'
  <2> DEFINE ctx == onlineUserMap[d.node][u]
             e == [d EXCEPT !.pc = IF ctx = None THEN "store" ELSE "send",
                            !.todo = @ \ {u}, !.user = u, !.ctx = ctx]
  <2>1. /\ Becomes(d, e)
        /\ UNCHANGED <<netVars, onlineUserMap, queue, loop, lastId, redisVars, counters, history>>
    BY <1>3 DEF Lookup
  <2>2. u \in User /\ ctx \in Conn \union {None}
    BY <1>0 DEF DispatchCall, WellFormed, TypeOK
  <2> HIDE DEF ctx
  <2>3. /\ e \in DispatchCall /\ e.owner = d.owner /\ e.node = d.node /\ e.user = u /\ e.ctx = ctx
        /\ e.pc = "send" => ctx # None
    BY <1>0, <2>2 DEF DispatchCall
  <2> HIDE DEF e
  <2>4. dispatching' \in SUBSET DispatchCall /\ DispatchShape'
    BY <2>1, <2>2, <2>3, BecomesStep
  <2> QED
    BY <2>1, <2>4 DEF WellFormed, TypeOK, LoopShape, QueueShape
<1>4. CASE Send(d)
  <2>1. /\ Enqueue(Chat(d.ctx, d.user, d.msg)) /\ Proceed(d)
        /\ UNCHANGED <<netVars, onlineUserMap, loop, lastId, redisVars, counters,
                       published, attempted, delivered, kept, identity, holder>>
    BY <1>4 DEF Send
  <2>2. d.ctx \in Conn /\ d.user \in User /\ d.msg \in Message
    BY <1>0, <1>4 DEF Send, WellFormed, DispatchShape, DispatchCall
  <2>3. queue' \in [Loop -> Seq(Task)] /\ QueueShape'
    BY <2>1, <2>2, ChatType, EnqueueStep
  <2> QED
    BY <2>1, <2>3, ProceedStep DEF WellFormed, TypeOK, LoopShape
<1>5. CASE Store(d)
  <2> DEFINE e == [d EXCEPT !.pc = "flag"]
  <2>1. /\ zset' = [zset EXCEPT ![d.user] = @ \union {d.msg}]
        /\ kept' = kept \union {<<d.user, d.msg>>}
        /\ Becomes(d, e)
        /\ UNCHANGED <<netVars, onlineUserMap, queue, loop, lastId, flag, record, counters,
                       published, handled, attempted, delivered, identity, holder>>
    BY <1>5 DEF Store, ZAdd
  <2>2. d.user \in User /\ d.msg \in Message
    BY <1>0, <1>5 DEF Store, WellFormed, DispatchShape, DispatchCall
  <2>3. e \in DispatchCall /\ e.owner = d.owner /\ e.node = d.node /\ e.user = d.user /\ e.pc = "flag"
    BY <1>0 DEF DispatchCall
  <2> HIDE DEF e
  <2>4. dispatching' \in SUBSET DispatchCall /\ DispatchShape'
    BY <2>1, <2>2, <2>3, BecomesStep
  <2>5. zset' \in [User -> SUBSET Message] /\ kept' \in SUBSET (User \X Message)
    BY <2>1, <2>2 DEF WellFormed, TypeOK
  <2> QED
    BY <2>1, <2>4, <2>5 DEF WellFormed, TypeOK, LoopShape, QueueShape
<1>6. CASE StoreFlag(d)
  <2>1. /\ flag' = [flag EXCEPT ![d.user] = TRUE]
        /\ Proceed(d)
        /\ UNCHANGED <<netVars, onlineUserMap, queue, loop, lastId, zset, record, counters,
                       published, attempted, delivered, kept, identity, holder>>
    BY <1>6 DEF StoreFlag, RaiseFlag
  <2>2. flag' \in [User -> BOOLEAN]
    BY <2>1 DEF WellFormed, TypeOK
  <2> QED
    BY <2>1, <2>2, ProceedStep DEF WellFormed, TypeOK, LoopShape, QueueShape
<1> QED
  BY <1>1, <1>2, <1>3, <1>4, <1>5, <1>6 DEF Dispatch

\* The first task is taken off a queue.
LEMMA TakeStep ==
    ASSUME WellFormed, NEW l \in Loop, NEW kind, TakeTask(l, kind)
    PROVE  /\ queue' \in [Loop -> Seq(Task)] /\ QueueShape'
           /\ Head(queue[l]) \in Task /\ Head(queue[l]).kind = kind
           /\ kind = "chat" => Head(queue[l]).user \in User /\ Head(queue[l]).msg \in Message
<1>1. queue[l] \in Seq(Task) /\ queue[l] # <<>>
  BY DEF TakeTask, WellFormed, TypeOK
<1>2. /\ Tail(queue[l]) \in Seq(Task)
      /\ \A i \in 1 .. Len(Tail(queue[l])) :
            i + 1 \in 1 .. Len(queue[l]) /\ Tail(queue[l])[i] = queue[l][i + 1]
      /\ 1 \in 1 .. Len(queue[l]) /\ Head(queue[l]) = queue[l][1] /\ queue[l][1] \in Task
  BY <1>1
<1>3. \A i \in 1 .. Len(queue[l]) :
         queue[l][i].kind = "chat" => queue[l][i].user \in User /\ queue[l][i].msg \in Message
  BY DEF WellFormed, QueueShape
<1>4. queue' = [queue EXCEPT ![l] = Tail(queue[l])]
  BY DEF TakeTask
<1>5. queue' \in [Loop -> Seq(Task)] /\ QueueShape'
  BY <1>2, <1>3, <1>4, QueueStep
<1> QED
  BY <1>2, <1>3, <1>5 DEF TakeTask

LEMMA RunTaskWellFormed ==
    ASSUME WellFormed, NEW l \in Loop, RunTask(l)
    PROVE  WellFormed'
<1>1. CASE RunNotice(l)
  BY <1>1, TakeStep DEF RunNotice, WellFormed, TypeOK, LoopShape, DispatchShape
<1>2. CASE RunChat(l)
  <2> DEFINE task == Head(queue[l])
  <2>1. /\ TakeTask(l, "chat")
        /\ attempted' = attempted \union {<<task.user, task.msg>>}
        /\ delivered' \in {delivered, delivered \union {<<task.conn, task.user, task.msg>>}}
        /\ loop' = [loop EXCEPT ![l] = Doing("record", task.conn, task.user, task.msg)]
        /\ UNCHANGED <<netVars, onlineUserMap, dispatching, lastId, redisVars, counters,
                       published, handled, kept, identity, holder>>
    BY <1>2 DEF RunChat
  <2>2. /\ queue' \in [Loop -> Seq(Task)] /\ QueueShape'
        /\ task \in Task /\ task.user \in User /\ task.msg \in Message
    BY <2>1, TakeStep
  <2>3. task.conn \in Conn
    BY <2>2 DEF Task
  <2> HIDE DEF task
  <2>4. loop' \in [Loop -> Handler] /\ LoopShape'
    BY <2>1, <2>2, <2>3, RecordType, LoopStep
  <2>5. DispatchShape'
    BY <2>1, DispatchKeeps DEF TakeTask
  <2>6. attempted' \in SUBSET (User \X Message) /\ delivered' \in SUBSET (Conn \X User \X Message)
    BY <2>1, <2>2, <2>3 DEF WellFormed, TypeOK
  <2> QED
    BY <2>1, <2>2, <2>4, <2>5, <2>6 DEF WellFormed, TypeOK
<1>3. CASE RunInactive(l)
  <2> DEFINE c == Head(queue[l]).conn
  <2>1. /\ TakeTask(l, "inactive")
        /\ (\E u \in User : DisconnectFinds(l, c, u)) \/ UNCHANGED loop
        /\ UNCHANGED <<netVars, onlineUserMap, dispatching, lastId, redisVars, counters, history>>
    BY <1>3 DEF RunInactive
  <2>2. queue' \in [Loop -> Seq(Task)] /\ QueueShape' /\ c \in Conn
    BY <2>1, TakeStep DEF Task
  <2>3. CASE UNCHANGED loop
    BY <2>1, <2>2, <2>3 DEF WellFormed, TypeOK, LoopShape, DispatchShape
  <2>4. CASE \E u \in User : DisconnectFinds(l, c, u)
    <3>1. PICK u \in User : DisconnectFinds(l, c, u)
      BY <2>4
    <3>2. loop[l].pc = "idle"
      BY <2>1 DEF TakeTask
    <3>3. loop' \in [Loop -> Handler] /\ LoopShape' /\ DispatchShape'
      BY <2>1, <2>2, <3>1, <3>2, FindsStep
    <3> QED
      BY <2>1, <2>2, <3>3 DEF WellFormed, TypeOK
  <2> QED
    BY <2>1, <2>3, <2>4
<1> QED
  BY <1>1, <1>2, <1>3 DEF RunTask

LEMMA FailWellFormed ==
    ASSUME WellFormed, Fail
    PROVE  WellFormed'
<1> USE BoundAssumption
<1>1. ASSUME NEW l \in Loop, PublishFails(l)
      PROVE  WellFormed'
  <2>1. /\ loop[l].pc = "publish"
        /\ Broadcast(loop[l].msg) \/ UNCHANGED <<published, dispatching>>
        /\ Enqueue(Notice(loop[l].conn))
        /\ loop' = [loop EXCEPT ![l] = Idle]
        /\ faults' \in 0 .. MaxFaults
        /\ UNCHANGED <<netVars, onlineUserMap, lastId, redisVars, frames, crashes,
                       handled, attempted, delivered, kept, identity, holder>>
    BY <1>1 DEF PublishFails, WellFormed, TypeOK
  <2>2. loop[l].conn \in Conn /\ loop[l].msg \in Message
    BY <2>1 DEF WellFormed, LoopShape
  <2>3. queue' \in [Loop -> Seq(Task)] /\ QueueShape'
    BY <2>1, <2>2, TaskTypes, EnqueueStep
  <2>4. loop' \in [Loop -> Handler] /\ LoopShape'
    BY <2>1, BecomesIdle
  <2>5. CASE Broadcast(loop[l].msg)
    BY <2>1, <2>2, <2>3, <2>4, <2>5, BroadcastStep DEF WellFormed, TypeOK
  <2>6. CASE UNCHANGED <<published, dispatching>>
    <3>1. DispatchShape'
      BY <2>1, <2>6, DispatchKeeps
    <3> QED
      BY <2>1, <2>3, <2>4, <2>6, <3>1 DEF WellFormed, TypeOK
  <2> QED
    BY <2>1, <2>5, <2>6
<1>2. ASSUME NEW l \in Loop, RegisterFails(l)
      PROVE  WellFormed'
  <2> DEFINE c == loop[l].conn
  <2>1. PICK new \in {<<Inactive(c)>>, <<Notice(c), Inactive(c)>>} :
            queue' = [queue EXCEPT ![l] = @ \o new]
    BY <1>2 DEF RegisterFails
  <2>2. /\ loop[l].pc # "idle"
        /\ loop[l].pc # "drain" \/ Dispatches(l) = {}
        /\ channel' = [channel EXCEPT ![c] = "closed"]
        /\ loop' = [loop EXCEPT ![l] = Idle]
        /\ faults' \in 0 .. MaxFaults
        /\ UNCHANGED <<up, onlineUserMap, dispatching, lastId, redisVars, frames, crashes, history>>
    BY <1>2 DEF RegisterFails, WellFormed, TypeOK
  <2>3. c \in Conn
    BY <2>2 DEF WellFormed, LoopShape
  <2>4. new \in Seq(Task) /\ \A i \in 1 .. Len(new) : new[i].kind # "chat"
    BY <2>3, ClosingTasks
  <2>5. queue' \in [Loop -> Seq(Task)] /\ QueueShape'
    BY <2>1, <2>4, ExtendStep
  <2>6. DispatchShape'
    BY <2>2, DispatchKeeps
  <2> QED
    BY <2>2, <2>5, <2>6, BecomesIdle DEF WellFormed, TypeOK
<1>3. ASSUME NEW l \in Loop, RecordFails(l)
      PROVE  WellFormed'
  <2>1. /\ loop[l].pc = "record"
        /\ loop' = [loop EXCEPT ![l] = Idle]
        /\ faults' \in 0 .. MaxFaults
        /\ UNCHANGED <<netVars, onlineUserMap, queue, dispatching, lastId, redisVars, frames, crashes, history>>
    BY <1>3 DEF RecordFails, WellFormed, TypeOK
  <2>2. DispatchShape'
    BY <2>1, DispatchKeeps
  <2> QED
    BY <2>1, <2>2, BecomesIdle DEF WellFormed, TypeOK, QueueShape
<1>4. ASSUME NEW d \in dispatching, DispatchFails(d)
      PROVE  WellFormed'
  <2>1. /\ dispatching' = dispatching \ {d}
        /\ faults' \in 0 .. MaxFaults
        /\ UNCHANGED <<up, onlineUserMap, lastId, redisVars, frames, crashes, history>>
    BY <1>4 DEF DispatchFails, WellFormed, TypeOK
  <2>2. CASE d.owner = None
    BY <1>4, <2>1, <2>2 DEF DispatchFails, WellFormed, TypeOK, LoopShape, QueueShape, DispatchShape
  <2>3. CASE d.owner # None
    <3>1. /\ Close(loop[d.owner].conn)
          /\ loop' = [loop EXCEPT ![d.owner] = Idle]
      BY <1>4, <2>3 DEF DispatchFails
    <3>2. /\ d.owner \in Loop
          /\ loop[d.owner].pc = "drain"
          /\ \A e \in dispatching \ {d} : e.owner # d.owner
      BY <2>3 DEF WellFormed, TypeOK, DispatchCall, DispatchShape
    <3>3. loop[d.owner].conn \in Conn
      BY <3>2 DEF WellFormed, LoopShape
    <3>4. /\ channel' \in [Conn -> {"new", "open", "gone", "closed"}]
          /\ queue' \in [Loop -> Seq(Task)]
          /\ QueueShape'
      BY <3>1, <3>3, CloseStep
    <3>5. loop' \in [Loop -> Handler] /\ LoopShape'
      BY <3>1, <3>2, BecomesIdle
    <3>6. DispatchShape'
      BY <2>1, <3>1, <3>2 DEF WellFormed, TypeOK, DispatchShape, DispatchCall
    <3> QED
      BY <2>1, <3>4, <3>5, <3>6 DEF WellFormed, TypeOK
  <2> QED
    BY <2>2, <2>3
<1>5. ASSUME NEW n \in Node, Crash(n)
      PROVE  WellFormed'
  <2>1. /\ crashes' \in 0 .. MaxCrashes
        /\ up' = [up EXCEPT ![n] = FALSE]
        /\ channel' = [c \in Conn |->
              IF NodeOf[LoopOf[c]] = n /\ channel[c] # "new" THEN "closed" ELSE channel[c]]
        /\ onlineUserMap' = [onlineUserMap EXCEPT ![n] = [u \in User |-> None]]
        /\ queue' = [l \in Loop |-> IF NodeOf[l] = n THEN <<>> ELSE queue[l]]
        /\ loop' = [l \in Loop |-> IF NodeOf[l] = n THEN Idle ELSE loop[l]]
        /\ dispatching' = {d \in dispatching : d.node # n}
        /\ handled' = {h \in handled : h[1] # n}
        /\ holder' = [holder EXCEPT ![n] = [u \in User |-> None]]
        /\ UNCHANGED <<lastId, redisVars, frames, faults, published, attempted, delivered, kept, identity>>
    BY <1>5 DEF Crash, WellFormed, TypeOK
  <2>2. loop' \in [Loop -> Handler] /\ LoopShape'
    BY <2>1, IdleType DEF WellFormed, TypeOK, LoopShape
  <2>3. queue' \in [Loop -> Seq(Task)] /\ QueueShape'
    BY <2>1 DEF WellFormed, TypeOK, QueueShape
  <2>4. DispatchShape'
    <3>1. ASSUME NEW d \in dispatching, d.node # n, d.owner # None
          PROVE  loop'[d.owner] = loop[d.owner] /\ NodeOf[d.owner] = d.node
      <4>1. d.owner \in Loop /\ NodeOf[d.owner] = d.node
        BY <3>1 DEF WellFormed, TypeOK, DispatchCall, DispatchShape
      <4> QED
        BY <2>1, <3>1, <4>1
    <3> QED
      BY <2>1, <3>1 DEF WellFormed, DispatchShape
  <2>5. /\ channel' \in [Conn -> {"new", "open", "gone", "closed"}]
        /\ onlineUserMap' \in [Node -> [User -> Conn \union {None}]]
        /\ holder' \in [Node -> [User -> Conn \union {None}]]
        /\ up' \in [Node -> BOOLEAN]
        /\ dispatching' \in SUBSET DispatchCall
        /\ handled' \in SUBSET (Node \X Message)
    BY <2>1 DEF WellFormed, TypeOK
  <2> QED
    BY <2>1, <2>2, <2>3, <2>4, <2>5 DEF WellFormed, TypeOK
<1>6. ASSUME NEW n \in Node, Restart(n)
      PROVE  WellFormed'
  BY <1>6 DEF Restart, WellFormed, TypeOK, LoopShape, QueueShape, DispatchShape
<1> QED
  BY <1>1, <1>2, <1>3, <1>4, <1>5, <1>6 DEF Fail

LEMMA InitWellFormed ==
    ASSUME Init
    PROVE  WellFormed
<1> USE BoundAssumption DEF Init, RedisInit
<1>1. TypeOK
  <2>1. loop \in [Loop -> Handler]
    BY IdleType
  <2>2. queue \in [Loop -> Seq(Task)]
    <3>1. <<>> \in Seq(Task)
      OBVIOUS
    <3> QED
      BY <3>1
  <2>3. /\ channel \in [Conn -> {"new", "open", "gone", "closed"}]
        /\ onlineUserMap \in [Node -> [User -> Conn \union {None}]]
        /\ holder \in [Node -> [User -> Conn \union {None}]]
        /\ identity \in [Conn -> SUBSET User]
        /\ up \in [Node -> BOOLEAN]
        /\ dispatching \in SUBSET DispatchCall
    OBVIOUS
  <2>4. /\ zset \in [User -> SUBSET Message]
        /\ flag \in [User -> BOOLEAN]
        /\ record \in [User -> 0 .. MaxId]
    OBVIOUS
  <2>5. lastId \in [Node -> FirstId - 1 .. MaxId]
    <3>1. FirstId - 1 \in FirstId - 1 .. MaxId
      OBVIOUS
    <3> QED
      BY <3>1
  <2>6. frames \in 0 .. MaxFrames /\ faults \in 0 .. MaxFaults /\ crashes \in 0 .. MaxCrashes
    OBVIOUS
  <2> QED
    BY <2>1, <2>2, <2>3, <2>4, <2>5, <2>6 DEF TypeOK
<1>2. LoopShape /\ QueueShape /\ DispatchShape
  BY IdleType DEF LoopShape, QueueShape, DispatchShape
<1> QED
  BY <1>1, <1>2 DEF WellFormed

LEMMA StepWellFormed ==
    ASSUME WellFormed, [Next]_vars
    PROVE  WellFormed'
<1>1. CASE Next
  BY <1>1, NetworkWellFormed, ReadWellFormed, ContinueWellFormed, RunTaskWellFormed,
     DispatchWellFormed, FailWellFormed DEF Next
<1>2. CASE UNCHANGED vars
  BY <1>2 DEF vars, WellFormed, TypeOK, LoopShape, QueueShape, DispatchShape
<1> QED
  BY <1>1, <1>2

\* Every variable has its type in every reachable state: the invariant that is
\* inductive is WellFormed, which also says what a handler, a task and a call of
\* handlerMessageSend carry at each of their steps.
THEOREM TypeCorrect == Spec => []TypeOK
<1>1. Spec => []WellFormed
  BY InitWellFormed, StepWellFormed, PTL DEF Spec
<1>2. WellFormed => TypeOK
  BY DEF WellFormed
<1> QED
  BY <1>1, <1>2, PTL

-----------------------------------------------------------------------------
(* Where messages go. *)

\* m is a published message to u.
Due(u, m) == u \in Recipients(m) /\ m \in published

\* A frame to u with this id was written.
SentId(u, id) == \E y \in attempted : y[1] = u /\ y[2].id = id

\* A user is reached by a connection that registered the user.
MapFits ==
    \A n \in Node, u \in User :
        onlineUserMap[n][u] # None => u \in identity[onlineUserMap[n][u]]

\* The same of a frame on its way through a queue.
TaskFits(task) ==
    task.kind = "chat" => Due(task.user, task.msg) /\ task.user \in identity[task.conn]

QueueFits == \A l \in Loop : \A i \in 1 .. Len(queue[l]) : TaskFits(queue[l][i])

\* A call of handlerMessageSend works for recipients of a published message,
\* over connections that registered them, also while the map moves on.
CallFits(d) ==
    /\ d.msg \in published
    /\ d.todo \subseteq Recipients(d.msg)
    /\ d.pc \in {"send", "store", "flag"} => d.user \in Recipients(d.msg)
    /\ d.pc = "send" => d.user \in identity[d.ctx]

DispatchFits == \A d \in dispatching : CallFits(d)

\* Offline copies and the batch of a drain are published messages.
StoreFits ==
    /\ \A u \in User : zset[u] \subseteq published
    /\ \A l \in Loop : loop[l].batch \subseteq published

\* A record, read or stored, is the id of a frame that was written.
RecordFits ==
    /\ \A u \in User : record[u] # 0 => SentId(u, record[u])
    /\ \A l \in Loop : loop[l].latest # 0 => SentId(loop[l].user, loop[l].latest)
    /\ \A l \in Loop : loop[l].pc = "record" => <<loop[l].user, loop[l].msg>> \in attempted

Routed ==
    /\ WellFormed
    /\ MapFits /\ QueueFits /\ DispatchFits /\ StoreFits /\ RecordFits
    /\ DeliveredToRecipient /\ PrunedBelowSent

-----------------------------------------------------------------------------
(* Which actions write which variables. *)

USE DEF netVars, counters, history, redisVars, IsIdle, At

LEMMA MapWriters ==
    ASSUME Next
    PROVE  \/ UNCHANGED onlineUserMap
           \/ \E c \in Conn : \E u \in Identities[c] : ReadRegister(c, u)
           \/ \E l \in Loop : DisconnectRemoves(l)
           \/ \E n \in Node : Crash(n)
  BY DEF Next, Network, Connect, PeerVanishes, EndOfStream,
     Read, ReadChat, ReadMalformed, ReadRefused, ReaderIdle,
     Continue, Publish, AckAndCheckFlag, GetSendInfo, PruneSent, FetchUnsent, DrainNext,
     ClearOfflineFlag, InsertSendInfo, RunTask, RunNotice, RunChat, RunInactive,
     Dispatch, ReadGroup, ReadGroupFails, Lookup, Send, Store, StoreFlag,
     Fail, PublishFails, RegisterFails, RecordFails, DispatchFails, Restart

LEMMA StoreWriters ==
    ASSUME Next
    PROVE  \/ UNCHANGED zset
           \/ \E l \in Loop : PruneSent(l)
           \/ \E d \in dispatching : Store(d)
  BY DEF Next, Network, Connect, PeerVanishes, EndOfStream,
     Read, ReadRegister, ReadChat, ReadMalformed, ReadRefused, ReaderIdle,
     Continue, Publish, AckAndCheckFlag, GetSendInfo, FetchUnsent, DrainNext,
     ClearOfflineFlag, InsertSendInfo, DisconnectRemoves, RunTask, RunNotice, RunChat, RunInactive,
     Dispatch, ReadGroup, ReadGroupFails, Lookup, Send, StoreFlag,
     Fail, PublishFails, RegisterFails, RecordFails, DispatchFails, Crash, Restart

LEMMA KeptWriters ==
    ASSUME Next
    PROVE  UNCHANGED kept \/ \E d \in dispatching : Store(d)
  BY DEF Next, Network, Connect, PeerVanishes, EndOfStream,
     Read, ReadRegister, ReadChat, ReadMalformed, ReadRefused, ReaderIdle,
     Continue, Publish, AckAndCheckFlag, GetSendInfo, PruneSent, FetchUnsent, DrainNext,
     ClearOfflineFlag, InsertSendInfo, DisconnectRemoves, RunTask, RunNotice, RunChat, RunInactive,
     Dispatch, ReadGroup, ReadGroupFails, Lookup, Send, StoreFlag,
     Fail, PublishFails, RegisterFails, RecordFails, DispatchFails, Crash, Restart

LEMMA RecordWriters ==
    ASSUME Next
    PROVE  UNCHANGED record \/ \E l \in Loop : InsertSendInfo(l)
  BY DEF Next, Network, Connect, PeerVanishes, EndOfStream,
     Read, ReadRegister, ReadChat, ReadMalformed, ReadRefused, ReaderIdle,
     Continue, Publish, AckAndCheckFlag, GetSendInfo, PruneSent, FetchUnsent, DrainNext,
     ClearOfflineFlag, DisconnectRemoves, RunTask, RunNotice, RunChat, RunInactive,
     Dispatch, ReadGroup, ReadGroupFails, Lookup, Send, Store, StoreFlag,
     Fail, PublishFails, RegisterFails, RecordFails, DispatchFails, Crash, Restart

\* The frames written, and where they went.
LEMMA FrameWriters ==
    ASSUME Next
    PROVE  UNCHANGED <<attempted, delivered>> \/ \E l \in Loop : RunChat(l)
  BY DEF Next, Network, Connect, PeerVanishes, EndOfStream,
     Read, ReadRegister, ReadChat, ReadMalformed, ReadRefused, ReaderIdle,
     Continue, Publish, AckAndCheckFlag, GetSendInfo, PruneSent, FetchUnsent, DrainNext,
     ClearOfflineFlag, InsertSendInfo, DisconnectRemoves, RunTask, RunNotice, RunInactive,
     Dispatch, ReadGroup, ReadGroupFails, Lookup, Send, Store, StoreFlag,
     Fail, PublishFails, RegisterFails, RecordFails, DispatchFails, Crash, Restart

LEMMA PublishedWriters ==
    ASSUME Next
    PROVE  UNCHANGED published \/ \E l \in Loop : Broadcast(loop[l].msg)
  BY DEF Next, Network, Connect, PeerVanishes, EndOfStream,
     Read, ReadRegister, ReadChat, ReadMalformed, ReadRefused, ReaderIdle,
     Continue, Publish, AckAndCheckFlag, GetSendInfo, PruneSent, FetchUnsent, DrainNext,
     ClearOfflineFlag, InsertSendInfo, DisconnectRemoves, RunTask, RunNotice, RunChat, RunInactive,
     Dispatch, ReadGroup, ReadGroupFails, Lookup, Send, Store, StoreFlag,
     Fail, PublishFails, RegisterFails, RecordFails, DispatchFails, Crash, Restart

LEMMA IdentityWriters ==
    ASSUME Next
    PROVE  \/ UNCHANGED identity
           \/ \E c \in Conn : \E u \in Identities[c] : ReadRegister(c, u)
  BY DEF Next, Network, Connect, PeerVanishes, EndOfStream,
     Read, ReadChat, ReadMalformed, ReadRefused, ReaderIdle,
     Continue, Publish, AckAndCheckFlag, GetSendInfo, PruneSent, FetchUnsent, DrainNext,
     ClearOfflineFlag, InsertSendInfo, DisconnectRemoves, RunTask, RunNotice, RunChat, RunInactive,
     Dispatch, ReadGroup, ReadGroupFails, Lookup, Send, Store, StoreFlag,
     Fail, PublishFails, RegisterFails, RecordFails, DispatchFails, Crash, Restart

LEMMA QueueWriters ==
    ASSUME Next
    PROVE  \/ UNCHANGED queue
           \/ \E c \in Conn : ReadMalformed(c) \/ ReadRefused(c)
           \/ \E c \in Conn : Close(c)
           \/ \E l \in Loop : loop[l].pc # "idle" /\ Enqueue(Notice(loop[l].conn))
           \/ \E l \in Loop : RegisterFails(l)
           \/ \E d \in dispatching : Send(d)
           \/ \E d \in dispatching : d.owner # None /\ Close(loop[d.owner].conn)
           \/ \E l \in Loop, kind \in {"chat", "notice", "inactive"} : TakeTask(l, kind)
           \/ \E n \in Node : Crash(n)
  BY DEF Next, Network, Connect, PeerVanishes, EndOfStream,
     Read, ReadRegister, ReadChat, ReaderIdle,
     Continue, Publish, AckAndCheckFlag, GetSendInfo, PruneSent, FetchUnsent, DrainNext,
     ClearOfflineFlag, InsertSendInfo, DisconnectRemoves, RunTask, RunNotice, RunChat, RunInactive,
     Dispatch, ReadGroup, ReadGroupFails, Lookup, Store, StoreFlag,
     Fail, PublishFails, RecordFails, DispatchFails, Restart

LEMMA DispatchWriters ==
    ASSUME Next
    PROVE  \/ dispatching' \subseteq dispatching
           \/ \E l \in Loop : loop[l].pc = "publish" /\ Broadcast(loop[l].msg)
           \/ \E l \in Loop : DrainNext(l)
           \/ \E d \in dispatching : (\E u \in d.todo : Lookup(d, u)) \/ Store(d) \/ Proceed(d)
  BY DEF Next, Network, Connect, PeerVanishes, EndOfStream,
     Read, ReadRegister, ReadChat, ReadMalformed, ReadRefused, ReaderIdle,
     Continue, Publish, AckAndCheckFlag, GetSendInfo, PruneSent, FetchUnsent,
     ClearOfflineFlag, InsertSendInfo, DisconnectRemoves, RunTask, RunNotice, RunChat, RunInactive,
     Dispatch, ReadGroup, ReadGroupFails, Send, StoreFlag,
     Fail, PublishFails, RegisterFails, RecordFails, DispatchFails, Crash, Restart

\* The history grows.
LEMMA Grows ==
    ASSUME WellFormed, Next
    PROVE  /\ published \subseteq published'
           /\ attempted \subseteq attempted'
           /\ \A c \in Conn : identity[c] \subseteq identity'[c]
<1>1. published \subseteq published'
  BY PublishedWriters DEF Broadcast
<1>2. attempted \subseteq attempted'
  BY FrameWriters DEF RunChat
<1>3. \A c \in Conn : identity[c] \subseteq identity'[c]
  <2>1. identity \in [Conn -> SUBSET User]
    BY DEF WellFormed, TypeOK
  <2>2. ASSUME NEW c \in Conn, NEW u \in Identities[c], ReadRegister(c, u)
        PROVE  identity' = [identity EXCEPT ![c] = @ \union {u}]
    BY <2>2 DEF ReadRegister
  <2> QED
    BY <2>1, <2>2, IdentityWriters
<1> QED
  BY <1>1, <1>2, <1>3

-----------------------------------------------------------------------------
(* One lemma for each part of the invariant. *)

LEMMA MapStep ==
    ASSUME Routed, Next
    PROVE  MapFits'
<1> USE DEF Routed, WellFormed, TypeOK, MapFits
<1>1. CASE UNCHANGED onlineUserMap
  BY <1>1, Grows
<1>2. ASSUME NEW c \in Conn, NEW u \in Identities[c], ReadRegister(c, u)
      PROVE  MapFits'
  <2>1. /\ onlineUserMap' = [onlineUserMap EXCEPT ![NodeOf[LoopOf[c]]][u] = c]
        /\ identity' = [identity EXCEPT ![c] = @ \union {u}]
    BY <1>2 DEF ReadRegister
  <2>2. u \in User /\ NodeOf[LoopOf[c]] \in Node
    BY TopologyAssumption
  <2>3. ASSUME NEW n \in Node, NEW v \in User, onlineUserMap'[n][v] # None
        PROVE  v \in identity'[onlineUserMap'[n][v]]
    <3>1. CASE n = NodeOf[LoopOf[c]] /\ v = u
      BY <2>1, <2>2, <3>1
    <3>2. CASE ~(n = NodeOf[LoopOf[c]] /\ v = u)
      <4>1. onlineUserMap'[n][v] = onlineUserMap[n][v]
        BY <2>1, <2>2, <3>2
      <4> QED
        BY <2>1, <2>3, <4>1
    <3> QED
      BY <3>1, <3>2
  <2> QED
    BY <2>3
<1>3. ASSUME \/ \E l \in Loop : DisconnectRemoves(l)
             \/ \E n \in Node : Crash(n)
      PROVE  MapFits'
  <2>1. \A n \in Node, u \in User : onlineUserMap'[n][u] \in {None, onlineUserMap[n][u]}
    <3>1. CASE \E l \in Loop : DisconnectRemoves(l)
      BY <3>1, TopologyAssumption DEF DisconnectRemoves, RemoveEntry, LoopShape
    <3>2. CASE \E n \in Node : Crash(n)
      BY <3>2 DEF Crash
    <3> QED
      BY <1>3, <3>1, <3>2
  <2> QED
    BY <2>1, Grows
<1> QED
  BY <1>1, <1>2, <1>3, MapWriters

LEMMA TaskKept ==
    ASSUME Routed, Next
    PROVE  \A task \in Task : TaskFits(task) => TaskFits(task)'
  BY Grows DEF Routed, TaskFits, Due, Task

\* Every task of a queue was in it before, or is new and fits.
LEMMA QueueFromTasks ==
    ASSUME Routed, Next, WellFormed',
           \A l \in Loop : \A i \in 1 .. Len(queue'[l]) :
               \/ \E j \in 1 .. Len(queue[l]) : queue'[l][i] = queue[l][j]
               \/ queue'[l][i].kind # "chat"
               \/ TaskFits(queue[l][i])'
    PROVE  QueueFits'
<1>1. \A l \in Loop : \A j \in 1 .. Len(queue[l]) : queue[l][j] \in Task /\ TaskFits(queue[l][j])
  BY DEF Routed, WellFormed, TypeOK, QueueFits
<1>2. ASSUME NEW l \in Loop, NEW i \in 1 .. Len(queue'[l]),
             NEW j \in 1 .. Len(queue[l]), queue'[l][i] = queue[l][j]
      PROVE  TaskFits(queue[l][i])'
  BY <1>1, <1>2, TaskKept DEF TaskFits, Due
<1> QED
  BY <1>2 DEF QueueFits, TaskFits

LEMMA QueueStepFits ==
    ASSUME Routed, Next, WellFormed'
    PROVE  QueueFits'
<1> DEFINE Old(l, i) == \E j \in 1 .. Len(queue[l]) : queue'[l][i] = queue[l][j]
           Fine(l, i) == Old(l, i) \/ queue'[l][i].kind # "chat" \/ TaskFits(queue[l][i])'
<1>0. /\ queue \in [Loop -> Seq(Task)] /\ LoopOf \in [Conn -> Loop]
      /\ queue' \in [Loop -> Seq(Task)]
  BY TopologyAssumption DEF Routed, WellFormed, TypeOK
<1>1. ASSUME NEW l \in Loop, NEW new \in Seq(Task), queue' = [queue EXCEPT ![l] = @ \o new],
             \A i \in 1 .. Len(new) : new[i].kind # "chat"
      PROVE  \A k \in Loop : \A i \in 1 .. Len(queue'[k]) : Fine(k, i)
  <2>1. ASSUME NEW i \in 1 .. Len(queue'[l])
        PROVE  \/ i \in 1 .. Len(queue[l]) /\ queue'[l][i] = queue[l][i]
               \/ i - Len(queue[l]) \in 1 .. Len(new) /\ queue'[l][i] = new[i - Len(queue[l])]
    BY <1>0, <1>1
  <2> QED
    BY <1>0, <1>1, <2>1
<1>2. ASSUME NEW task \in Task, Enqueue(task), task.kind # "chat" \/ TaskFits(task)'
      PROVE  \A k \in Loop : \A i \in 1 .. Len(queue'[k]) : Fine(k, i)
  <2> DEFINE l == LoopOf[task.conn]
  <2>1. l \in Loop /\ queue' = [queue EXCEPT ![l] = Append(queue[l], task)]
    BY <1>0, <1>2 DEF Enqueue, Task
  <2>2. ASSUME NEW i \in 1 .. Len(queue'[l])
        PROVE  \/ i \in 1 .. Len(queue[l]) /\ queue'[l][i] = queue[l][i]
               \/ queue'[l][i] = task
    BY <1>0, <2>1
  <2>3. ASSUME NEW k \in Loop, k # l
        PROVE  queue'[k] = queue[k]
    BY <1>0, <2>1, <2>3
  <2> QED
    BY <1>2, <2>2, <2>3 DEF TaskFits
<1>3. ASSUME NEW c \in Conn, Close(c)
      PROVE  \A k \in Loop : \A i \in 1 .. Len(queue'[k]) : Fine(k, i)
  <2>1. UNCHANGED queue \/ Enqueue(Inactive(c))
    BY <1>3 DEF Close
  <2>2. Inactive(c) \in Task /\ Inactive(c).kind # "chat"
    BY TaskTypes
  <2>3. CASE UNCHANGED queue
    BY <2>3
  <2>4. CASE Enqueue(Inactive(c))
    BY <1>2, <2>2, <2>4
  <2> QED
    BY <2>1, <2>3, <2>4
<1>4. ASSUME NEW c \in Conn, ReadMalformed(c) \/ ReadRefused(c)
      PROVE  \A k \in Loop : \A i \in 1 .. Len(queue'[k]) : Fine(k, i)
  <2>1. PICK new \in {<<Notice(c)>>, <<Notice(c), Notice(c)>>, <<Inactive(c)>>, <<Notice(c), Inactive(c)>>} :
            queue' = [queue EXCEPT ![LoopOf[c]] = @ \o new]
    BY <1>4 DEF ReadMalformed, ReadRefused
  <2>2. new \in Seq(Task) /\ \A i \in 1 .. Len(new) : new[i].kind # "chat"
    BY ClosingTasks, NoticeTasks
  <2> QED
    BY <1>0, <1>1, <2>1, <2>2
<1>5. ASSUME NEW l \in Loop, RegisterFails(l)
      PROVE  \A k \in Loop : \A i \in 1 .. Len(queue'[k]) : Fine(k, i)
  <2> DEFINE c == loop[l].conn
  <2>1. PICK new \in {<<Inactive(c)>>, <<Notice(c), Inactive(c)>>} :
            queue' = [queue EXCEPT ![l] = @ \o new]
    BY <1>5 DEF RegisterFails
  <2>2. c \in Conn
    BY <1>5 DEF RegisterFails, Routed, WellFormed, LoopShape
  <2>3. new \in Seq(Task) /\ \A i \in 1 .. Len(new) : new[i].kind # "chat"
    BY <2>2, ClosingTasks
  <2> QED
    BY <1>1, <2>1, <2>3
<1>6. ASSUME NEW l \in Loop, loop[l].pc # "idle", Enqueue(Notice(loop[l].conn))
      PROVE  \A k \in Loop : \A i \in 1 .. Len(queue'[k]) : Fine(k, i)
  <2>1. loop[l].conn \in Conn
    BY <1>6 DEF Routed, WellFormed, LoopShape
  <2> QED
    BY <1>2, <1>6, <2>1, TaskTypes
<1>7. ASSUME NEW d \in dispatching, Send(d)
      PROVE  \A k \in Loop : \A i \in 1 .. Len(queue'[k]) : Fine(k, i)
  <2> DEFINE task == Chat(d.ctx, d.user, d.msg)
  <2>1. d.pc = "send" /\ Enqueue(task)
    BY <1>7 DEF Send
  <2>2. d.ctx \in Conn /\ d.user \in User /\ d.msg \in Message
    BY <2>1 DEF Routed, WellFormed, TypeOK, DispatchShape, DispatchCall
  <2>3. /\ task \in Task /\ task.kind = "chat"
        /\ task.conn = d.ctx /\ task.user = d.user /\ task.msg = d.msg
    BY <2>2, ChatType
  <2>4. TaskFits(task)
    BY <2>1, <2>3 DEF Routed, DispatchFits, CallFits, TaskFits, Due
  <2> HIDE DEF task
  <2>5. TaskFits(task)'
    BY <2>3, <2>4, TaskKept DEF TaskFits, Due
  <2> QED
    BY <1>2, <2>1, <2>3, <2>5
<1>8. ASSUME NEW d \in dispatching, d.owner # None, Close(loop[d.owner].conn)
      PROVE  \A k \in Loop : \A i \in 1 .. Len(queue'[k]) : Fine(k, i)
  <2>1. loop[d.owner].conn \in Conn
    BY <1>8 DEF Routed, WellFormed, TypeOK, LoopShape, DispatchShape, DispatchCall
  <2> QED
    BY <1>3, <1>8, <2>1
<1>9. ASSUME NEW l \in Loop, NEW kind, TakeTask(l, kind)
      PROVE  \A k \in Loop : \A i \in 1 .. Len(queue'[k]) : Fine(k, i)
  <2>1. queue[l] # <<>> /\ queue' = [queue EXCEPT ![l] = Tail(queue[l])]
    BY <1>9 DEF TakeTask
  <2>2. \A i \in 1 .. Len(Tail(queue[l])) :
            i + 1 \in 1 .. Len(queue[l]) /\ Tail(queue[l])[i] = queue[l][i + 1]
    BY <1>0, <2>1
  <2> QED
    BY <1>0, <2>1, <2>2
<1>10. ASSUME NEW n \in Node, Crash(n)
       PROVE  \A k \in Loop : \A i \in 1 .. Len(queue'[k]) : Fine(k, i)
  BY <1>0, <1>10 DEF Crash
<1>11. CASE UNCHANGED queue
  BY <1>11, QueueFromTasks
<1>12. CASE ~UNCHANGED queue
  <2>1. \A k \in Loop : \A i \in 1 .. Len(queue'[k]) : Fine(k, i)
    BY <1>12, <1>3, <1>4, <1>5, <1>6, <1>7, <1>8, <1>9, <1>10, QueueWriters
  <2> QED
    BY <2>1, QueueFromTasks
<1> QED
  BY <1>11, <1>12

LEMMA CallKept ==
    ASSUME Routed, Next
    PROVE  \A d \in dispatching : CallFits(d)'
  BY Grows DEF Routed, WellFormed, TypeOK, DispatchFits, DispatchShape, CallFits, DispatchCall

LEMMA DispatchStepFits ==
    ASSUME Routed, Next
    PROVE  DispatchFits'
<1>0. \A d \in dispatching : d \in DispatchCall /\ CallFits(d) /\ CallFits(d)'
  BY CallKept DEF Routed, WellFormed, TypeOK, DispatchFits
<1>1. CASE dispatching' \subseteq dispatching
  BY <1>0, <1>1 DEF DispatchFits, CallFits
<1>2. ASSUME NEW l \in Loop, loop[l].pc = "publish", Broadcast(loop[l].msg)
      PROVE  DispatchFits'
  <2> DEFINE m == loop[l].msg
  <2>1. m \in Message /\ m \in published'
    BY <1>2 DEF Routed, WellFormed, LoopShape, Broadcast
  <2>2. ASSUME NEW d \in dispatching', d \notin dispatching
        PROVE  d.msg = m /\ d.todo = Recipients(m) /\ d.pc \in {"group", "next"}
    <3>1. PICK n \in Node : d = Call(None, n, m)
      BY <1>2, <2>2 DEF Broadcast
    <3> QED
      BY <2>1, <3>1, CallType
  <2> QED
    BY <1>0, <2>1, <2>2 DEF DispatchFits, CallFits
<1>3. ASSUME NEW l \in Loop, DrainNext(l)
      PROVE  DispatchFits'
  <2>1. PICK m \in loop[l].batch : dispatching' = dispatching \union {Call(l, NodeOf[l], m)}
    BY <1>3 DEF DrainNext
  <2>2. m \in Message /\ m \in published' /\ NodeOf[l] \in Node
    BY Grows, TopologyAssumption DEF Routed, WellFormed, TypeOK, Handler, StoreFits
  <2>3. ASSUME NEW d \in dispatching', d \notin dispatching
        PROVE  d.msg = m /\ d.todo = Recipients(m) /\ d.pc \in {"group", "next"}
    BY <2>1, <2>2, <2>3, CallType
  <2> QED
    BY <1>0, <2>2, <2>3 DEF DispatchFits, CallFits
<1>4. ASSUME NEW d \in dispatching, NEW u \in d.todo, Lookup(d, u)
      PROVE  DispatchFits'
  <2> DEFINE ctx == onlineUserMap[d.node][u]
             e == [d EXCEPT !.pc = IF ctx = None THEN "store" ELSE "send",
                            !.todo = @ \ {u}, !.user = u, !.ctx = ctx]
  <2>1. dispatching' = (dispatching \ {d}) \union {e} /\ UNCHANGED identity
    BY <1>4 DEF Lookup, Becomes
  <2>2. u \in User /\ d.node \in Node /\ u \in Recipients(d.msg) /\ d.msg \in published'
    BY <1>0, Grows DEF CallFits, DispatchCall
  <2>3. ctx # None => u \in identity[ctx]
    BY <2>2 DEF Routed, MapFits
  <2> HIDE DEF ctx
  <2>4. /\ e.msg = d.msg /\ e.todo \subseteq d.todo /\ e.user = u /\ e.ctx = ctx
        /\ e.pc = "send" => ctx # None
    BY <1>0 DEF DispatchCall
  <2> HIDE DEF e
  <2> QED
    BY <1>0, <2>1, <2>2, <2>3, <2>4 DEF DispatchFits, CallFits
<1>5. ASSUME NEW d \in dispatching, Store(d)
      PROVE  DispatchFits'
  <2> DEFINE e == [d EXCEPT !.pc = "flag"]
  <2>1. dispatching' = (dispatching \ {d}) \union {e} /\ d.pc = "store"
    BY <1>5 DEF Store, Becomes
  <2>2. e.msg = d.msg /\ e.todo = d.todo /\ e.user = d.user /\ e.pc = "flag"
    BY <1>0 DEF DispatchCall
  <2> HIDE DEF e
  <2> QED
    BY <1>0, <2>1, <2>2 DEF DispatchFits, CallFits
<1>6. ASSUME NEW d \in dispatching, Proceed(d)
      PROVE  DispatchFits'
  <2> DEFINE e == [d EXCEPT !.pc = "next", !.user = None, !.ctx = None]
  <2>1. dispatching' \subseteq (dispatching \ {d}) \union {e}
    BY <1>6 DEF Proceed, Becomes
  <2>2. e.msg = d.msg /\ e.todo = d.todo /\ e.pc = "next"
    BY <1>0 DEF DispatchCall
  <2> HIDE DEF e
  <2> QED
    BY <1>0, <2>1, <2>2 DEF DispatchFits, CallFits
<1> QED
  BY <1>1, <1>2, <1>3, <1>4, <1>5, <1>6, DispatchWriters

LEMMA LoopWriters ==
    ASSUME Next
    PROVE  \/ UNCHANGED loop
           \/ \E c \in Conn : \E u \in Identities[c] : ReadRegister(c, u)
           \/ \E c \in Conn : \E u \in Identities[c], to \in Target, body \in Body :
                 ReadChat(c, u, to, body)
           \/ \E l \in Loop : \E c \in Conn, u \in User : DisconnectFinds(l, c, u)
           \/ \E l \in Loop : \E c : \E u \in User :
                 TakeTask(l, "inactive") /\ DisconnectFinds(l, c, u)
           \/ \E l \in Loop : loop' = [loop EXCEPT ![l] = Idle]
           \/ \E l \in Loop : \/ RunChat(l) \/ AckAndCheckFlag(l) \/ GetSendInfo(l)
                              \/ PruneSent(l) \/ FetchUnsent(l) \/ DrainNext(l)
           \/ \E d \in dispatching : d.owner # None /\ loop' = [loop EXCEPT ![d.owner] = Idle]
           \/ \E n \in Node : Crash(n)
  BY TopologyAssumption DEF Next, Network, Connect, PeerVanishes, EndOfStream,
     Read, ReadMalformed, ReadRefused, ReaderIdle,
     Continue, Publish, ClearOfflineFlag, InsertSendInfo, DisconnectRemoves,
     RunTask, RunNotice, RunInactive,
     Dispatch, ReadGroup, ReadGroupFails, Lookup, Send, Store, StoreFlag,
     Fail, PublishFails, RegisterFails, RecordFails, DispatchFails, Restart

\* A handler that has read nothing from Redis and records nothing.
Fresh(h) == h.batch = {} /\ h.latest = 0 /\ h.pc # "record"

\* A handler that goes on for the same user, with what it has read so far.
GoesOn(h, k) ==
    /\ k.user = h.user /\ k.pc # "record"
    /\ k.batch \subseteq h.batch \/ (h.user \in User /\ k.batch \subseteq zset[h.user])
    /\ \/ k.latest = h.latest
       \/ h.user \in User /\ k.latest = record[h.user]

LEMMA FreshDoing ==
    /\ Fresh(Idle)
    /\ \A c, u, m : /\ Fresh(Doing("check", c, u, m))
                    /\ Fresh(Doing("publish", c, u, m))
                    /\ Fresh(Doing("remove", c, u, m))
  BY DEF Fresh, Idle, Doing

LEMMA LoopEffect ==
    ASSUME WellFormed, Next, NEW l \in Loop
    PROVE  \/ loop'[l] = loop[l]
           \/ Fresh(loop'[l])
           \/ GoesOn(loop[l], loop'[l])
           \/ /\ RunChat(l)
              /\ loop'[l].batch = {} /\ loop'[l].latest = 0
              /\ loop'[l].user = Head(queue[l]).user /\ loop'[l].msg = Head(queue[l]).msg
<1> DEFINE Effect == \/ loop'[l] = loop[l]
                     \/ Fresh(loop'[l])
                     \/ GoesOn(loop[l], loop'[l])
                     \/ /\ RunChat(l)
                        /\ loop'[l].batch = {} /\ loop'[l].latest = 0
                        /\ loop'[l].user = Head(queue[l]).user
                        /\ loop'[l].msg = Head(queue[l]).msg
<1>0. loop \in [Loop -> Handler] /\ loop[l] \in Handler
  BY DEF WellFormed, TypeOK
<1>1. ASSUME NEW k, NEW h, loop' = [loop EXCEPT ![k] = h], Fresh(h)
      PROVE  Effect
  BY <1>0, <1>1
<1>2. CASE \E c \in Conn : \E u \in Identities[c] : ReadRegister(c, u)
  BY <1>1, <1>2, FreshDoing DEF ReadRegister
<1>3. CASE \E c \in Conn : \E u \in Identities[c], to \in Target, body \in Body :
                 ReadChat(c, u, to, body)
  BY <1>1, <1>3, FreshDoing DEF ReadChat
<1>4. CASE \E k \in Loop : \E c : \E u \in User : DisconnectFinds(k, c, u)
  BY <1>1, <1>4, FreshDoing DEF DisconnectFinds
<1>5. CASE \E k : loop' = [loop EXCEPT ![k] = Idle]
  BY <1>1, <1>5, FreshDoing
<1>6. CASE \E n \in Node : Crash(n)
  BY <1>0, <1>6, FreshDoing DEF Crash
<1>7. ASSUME NEW k \in Loop, RunChat(k)
      PROVE  Effect
  <2> DEFINE h == Doing("record", Head(queue[k]).conn, Head(queue[k]).user, Head(queue[k]).msg)
  <2>1. loop' = [loop EXCEPT ![k] = h]
    BY <1>7 DEF RunChat
  <2>2. /\ h.batch = {} /\ h.latest = 0
        /\ h.user = Head(queue[k]).user /\ h.msg = Head(queue[k]).msg
    BY DEF Doing
  <2> HIDE DEF h
  <2> QED
    BY <1>0, <1>7, <2>1, <2>2
<1>8. ASSUME NEW k \in Loop, NEW h, loop' = [loop EXCEPT ![k] = h], Fresh(h) \/ GoesOn(loop[k], h)
      PROVE  Effect
  BY <1>0, <1>8
<1>9. ASSUME NEW k \in Loop, \/ AckAndCheckFlag(k) \/ GetSendInfo(k)
                             \/ PruneSent(k) \/ FetchUnsent(k) \/ DrainNext(k)
      PROVE  Effect
  <2>1. loop[k] \in Handler /\ loop[k].user \in User
    BY <1>0, <1>9 DEF WellFormed, LoopShape, AckAndCheckFlag, GetSendInfo, PruneSent, FetchUnsent, DrainNext
  <2>2. CASE AckAndCheckFlag(k)
    <3>1. PICK h \in {[loop[k] EXCEPT !.pc = "latest"], Idle} : loop' = [loop EXCEPT ![k] = h]
      BY <1>0, <2>2 DEF AckAndCheckFlag
    <3>2. GoesOn(loop[k], [loop[k] EXCEPT !.pc = "latest"])
      BY <2>1 DEF GoesOn, Handler
    <3> QED
      BY <1>8, <3>1, <3>2, FreshDoing
  <2>3. CASE GetSendInfo(k)
    <3> DEFINE h == [loop[k] EXCEPT !.pc = "prune", !.latest = record[loop[k].user]]
    <3>1. loop' = [loop EXCEPT ![k] = h]
      BY <1>0, <2>3 DEF GetSendInfo
    <3>2. GoesOn(loop[k], h)
      BY <2>1 DEF GoesOn, Handler
    <3> QED
      BY <1>8, <3>1, <3>2
  <2>4. CASE PruneSent(k)
    <3> DEFINE h == [loop[k] EXCEPT !.pc = "fetch"]
    <3>1. loop' = [loop EXCEPT ![k] = h]
      BY <1>0, <2>4 DEF PruneSent, Goto
    <3>2. GoesOn(loop[k], h)
      BY <2>1 DEF GoesOn, Handler
    <3> QED
      BY <1>8, <3>1, <3>2
  <2>5. CASE FetchUnsent(k)
    <3>1. PICK batch \in Deduplicated(FromLatest(loop[k].user, loop[k].latest)) :
              loop' = [loop EXCEPT ![k].pc = "drain", ![k].batch = batch]
      BY <2>5 DEF FetchUnsent
    <3> DEFINE h == [loop[k] EXCEPT !.pc = "drain", !.batch = batch]
    <3>2. loop' = [loop EXCEPT ![k] = h]
      BY <1>0, <3>1
    <3>3. batch \subseteq zset[loop[k].user]
      BY DEF Deduplicated, FromLatest
    <3>4. GoesOn(loop[k], h)
      BY <2>1, <3>3 DEF GoesOn, Handler
    <3> QED
      BY <1>8, <3>2, <3>4
  <2>6. CASE DrainNext(k)
    <3>1. PICK m : loop' = [loop EXCEPT ![k].batch = @ \ {m}] /\ loop[k].pc = "drain"
      BY <2>6 DEF DrainNext
    <3> DEFINE h == [loop[k] EXCEPT !.batch = @ \ {m}]
    <3>2. loop' = [loop EXCEPT ![k] = h]
      BY <1>0, <3>1
    <3>3. GoesOn(loop[k], h)
      BY <2>1, <3>1 DEF GoesOn, Handler
    <3> QED
      BY <1>8, <3>2, <3>3
  <2> QED
    BY <1>9, <2>2, <2>3, <2>4, <2>5, <2>6
<1>10. CASE UNCHANGED loop
  BY <1>10
<1> QED
  BY <1>2, <1>3, <1>4, <1>5, <1>6, <1>7, <1>9, <1>10, LoopWriters

LEMMA StoreStepFits ==
    ASSUME Routed, Next
    PROVE  StoreFits'
<1>0. /\ \A u \in User : zset[u] \subseteq published
      /\ \A l \in Loop : loop[l].batch \subseteq published
      /\ zset \in [User -> SUBSET Message]
      /\ published \subseteq published'
  BY Grows DEF Routed, StoreFits, WellFormed, TypeOK
<1>1. ASSUME NEW u \in User
      PROVE  zset'[u] \subseteq published'
  <2>1. CASE UNCHANGED zset
    BY <1>0, <2>1
  <2>2. ASSUME NEW l \in Loop, PruneSent(l)
        PROVE  zset'[u] \subseteq zset[u]
    BY <1>0, <2>2 DEF PruneSent, RemoveUpTo
  <2>3. ASSUME NEW d \in dispatching, Store(d)
        PROVE  zset'[u] \subseteq zset[u] \union {d.msg} /\ d.msg \in published
    BY <1>0, <2>3 DEF Store, ZAdd, Routed, DispatchFits, CallFits
  <2> QED
    BY <1>0, <2>1, <2>2, <2>3, StoreWriters
<1>2. ASSUME NEW l \in Loop
      PROVE  loop'[l].batch \subseteq published'
  <2>1. WellFormed
    BY DEF Routed
  <2> QED
    BY <1>0, <2>1, LoopEffect DEF Fresh, GoesOn
<1> QED
  BY <1>1, <1>2 DEF StoreFits

LEMMA RecordStepFits ==
    ASSUME Routed, Next
    PROVE  RecordFits'
<1>0. /\ WellFormed /\ RecordFits
      /\ attempted \subseteq attempted'
      /\ record \in [User -> 0 .. MaxId]
  BY Grows DEF Routed, WellFormed, TypeOK
<1>1. \A u, id : SentId(u, id) => SentId(u, id)'
  BY <1>0 DEF SentId
<1>2. ASSUME NEW u \in User, record'[u] # 0
      PROVE  SentId(u, record[u])'
  <2>1. CASE UNCHANGED record
    BY <1>0, <1>1, <1>2, <2>1 DEF RecordFits, SentId
  <2>2. ASSUME NEW l \in Loop, InsertSendInfo(l)
        PROVE  SentId(u, record[u])'
    <3>1. /\ loop[l].pc = "record"
          /\ record' = [record EXCEPT ![loop[l].user] = loop[l].msg.id]
      BY <2>2 DEF InsertSendInfo, PutRecord
    <3>2. <<loop[l].user, loop[l].msg>> \in attempted'
      BY <1>0, <3>1 DEF RecordFits
    <3> QED
      BY <1>0, <1>1, <1>2, <3>1, <3>2 DEF RecordFits, SentId
  <2> QED
    BY <2>1, <2>2, RecordWriters
<1>3. ASSUME NEW l \in Loop
      PROVE  /\ loop'[l].latest # 0 => SentId(loop[l].user, loop[l].latest)'
             /\ loop'[l].pc = "record" => <<loop'[l].user, loop'[l].msg>> \in attempted'
  <2>1. CASE loop'[l] = loop[l]
    BY <1>0, <2>1 DEF RecordFits, SentId
  <2>2. CASE Fresh(loop'[l])
    BY <2>2 DEF Fresh
  <2>3. CASE GoesOn(loop[l], loop'[l])
    <3>1. loop'[l].latest # 0 => SentId(loop'[l].user, loop'[l].latest)
      BY <1>0, <2>3 DEF GoesOn, RecordFits
    <3> QED
      BY <1>0, <2>3, <3>1 DEF GoesOn, SentId
  <2>4. CASE /\ RunChat(l)
             /\ loop'[l].batch = {} /\ loop'[l].latest = 0
             /\ loop'[l].user = Head(queue[l]).user /\ loop'[l].msg = Head(queue[l]).msg
    BY <2>4 DEF RunChat
  <2> QED
    BY <1>0, <2>1, <2>2, <2>3, <2>4, LoopEffect
<1> QED
  BY <1>2, <1>3 DEF RecordFits

LEMMA DeliveredStep ==
    ASSUME Routed, Next
    PROVE  DeliveredToRecipient'
<1>0. /\ DeliveredToRecipient /\ QueueFits
      /\ delivered \in SUBSET (Conn \X User \X Message)
      /\ queue \in [Loop -> Seq(Task)]
      /\ published \subseteq published'
      /\ \A c \in Conn : identity[c] \subseteq identity'[c]
  BY Grows DEF Routed, WellFormed, TypeOK
<1>1. CASE UNCHANGED <<attempted, delivered>>
  BY <1>0, <1>1 DEF DeliveredToRecipient
<1>2. ASSUME NEW l \in Loop, RunChat(l)
      PROVE  DeliveredToRecipient'
  <2> DEFINE task == Head(queue[l])
  <2>1. /\ TakeTask(l, "chat")
        /\ delivered' \subseteq delivered \union {<<task.conn, task.user, task.msg>>}
    BY <1>2 DEF RunChat
  <2>2. task \in Task /\ TaskFits(task) /\ task.kind = "chat"
    <3>1. 1 \in 1 .. Len(queue[l]) /\ task = queue[l][1]
      BY <1>0, <2>1 DEF TakeTask
    <3> QED
      BY <1>0, <2>1, <3>1 DEF TakeTask, QueueFits
  <2>3. Due(task.user, task.msg) /\ task.user \in identity[task.conn] /\ task.conn \in Conn
    BY <2>2 DEF TaskFits, Task
  <2> HIDE DEF task
  <2> QED
    BY <1>0, <2>1, <2>3 DEF DeliveredToRecipient, Due
<1> QED
  BY <1>1, <1>2, FrameWriters

\* An id of a message has a score above that of "no record".
LEMMA ScoreType ==
    ASSUME NEW id \in Nat
    PROVE  Score(id) \in Nat
  BY UlpAssumption DEF Score

LEMMA ScoreOfNone == Score(0) = 0
  BY UlpAssumption DEF Score

LEMMA ScorePositive ==
    ASSUME NEW id \in Nat, id >= Ulp
    PROVE  Score(id) > 0
  BY UlpAssumption DEF Score

\* getOfflineMessage deletes nothing as long as nothing was sent to the user.
LEMMA PruneStep ==
    ASSUME Routed, NEW l \in Loop, PruneSent(l),
           NEW u \in User, NEW m \in zset[u], m \notin zset'[u]
    PROVE  \E y \in attempted : y[1] = u /\ Score(y[2].id) >= Score(m.id)
<1>0. /\ zset \in [User -> SUBSET Message] /\ loop[l] \in Handler
      /\ attempted \in SUBSET (User \X Message)
  BY DEF Routed, WellFormed, TypeOK
<1>1. /\ zset' = [zset EXCEPT ![loop[l].user] = {k \in @ : Score(k.id) > Score(loop[l].latest)}]
      /\ loop[l].pc = "prune"
  BY DEF PruneSent, RemoveUpTo
<1>2. u = loop[l].user /\ ~(Score(m.id) > Score(loop[l].latest))
  BY <1>0, <1>1
<1>3. m.id \in Nat /\ m.id >= Ulp /\ loop[l].latest \in Nat
  BY <1>0, BoundAssumption, UlpAssumption DEF Message, Handler
<1>4. Score(m.id) \in Nat /\ Score(loop[l].latest) \in Nat /\ Score(m.id) > 0
  BY <1>3, ScoreType, ScorePositive
<1>5. loop[l].latest # 0
  BY <1>2, <1>4, ScoreOfNone
<1>6. PICK y \in attempted : y[1] = u /\ y[2].id = loop[l].latest
  BY <1>2, <1>5 DEF Routed, RecordFits, SentId
<1> QED
  BY <1>2, <1>4, <1>6

LEMMA PrunedStep ==
    ASSUME Routed, Next
    PROVE  PrunedBelowSent'
<1>0. /\ PrunedBelowSent
      /\ kept \in SUBSET (User \X Message) /\ zset \in [User -> SUBSET Message]
      /\ attempted \subseteq attempted'
  BY Grows DEF Routed, WellFormed, TypeOK
<1>1. ASSUME NEW l \in Loop, PruneSent(l)
      PROVE  PrunedBelowSent'
  <2>1. UNCHANGED <<kept, attempted>>
    BY <1>1 DEF PruneSent
  <2>2. ASSUME NEW x \in kept, x[2] \notin zset'[x[1]]
        PROVE  \E y \in attempted : y[1] = x[1] /\ Score(y[2].id) >= Score(x[2].id)
    <3>1. CASE x[2] \in zset[x[1]]
      BY <1>0, <1>1, <2>2, <3>1, PruneStep
    <3>2. CASE x[2] \notin zset[x[1]]
      BY <1>0, <3>2 DEF PrunedBelowSent
    <3> QED
      BY <3>1, <3>2
  <2> QED
    BY <2>1, <2>2 DEF PrunedBelowSent
<1>2. ASSUME NEW d \in dispatching, Store(d)
      PROVE  PrunedBelowSent'
  <2>1. /\ zset' = [zset EXCEPT ![d.user] = @ \union {d.msg}]
        /\ kept' = kept \union {<<d.user, d.msg>>}
        /\ d.user \in User
    BY <1>2 DEF Store, ZAdd, Routed, WellFormed, DispatchShape
  <2> QED
    BY <1>0, <2>1 DEF PrunedBelowSent
<1>3. CASE UNCHANGED <<zset, kept>>
  BY <1>0, <1>3 DEF PrunedBelowSent
<1> QED
  BY <1>1, <1>2, <1>3, StoreWriters, KeptWriters

-----------------------------------------------------------------------------
(* The invariant, and what follows from it. *)

LEMMA InitRouted ==
    ASSUME Init
    PROVE  Routed
<1>1. WellFormed
  BY InitWellFormed
<1>2. MapFits /\ QueueFits /\ DispatchFits
  BY DEF Init, MapFits, QueueFits, DispatchFits
<1>3. StoreFits /\ RecordFits
  BY DEF Init, RedisInit, StoreFits, RecordFits, Idle, Doing
<1>4. DeliveredToRecipient /\ PrunedBelowSent
  BY DEF Init, DeliveredToRecipient, PrunedBelowSent
<1> QED
  BY <1>1, <1>2, <1>3, <1>4 DEF Routed

LEMMA StepRouted ==
    ASSUME Routed, [Next]_vars
    PROVE  Routed'
<1>1. WellFormed'
  BY StepWellFormed DEF Routed
<1>2. CASE Next
  BY <1>1, <1>2, MapStep, QueueStepFits, DispatchStepFits, StoreStepFits, RecordStepFits,
     DeliveredStep, PrunedStep DEF Routed
<1>3. CASE UNCHANGED vars
  <2>1. MapFits' /\ QueueFits' /\ DispatchFits'
    BY <1>3 DEF vars, Routed, MapFits, QueueFits, TaskFits, Due, DispatchFits, CallFits
  <2>2. StoreFits' /\ RecordFits'
    BY <1>3 DEF vars, Routed, StoreFits, RecordFits, SentId
  <2>3. DeliveredToRecipient' /\ PrunedBelowSent'
    BY <1>3 DEF vars, Routed, DeliveredToRecipient, PrunedBelowSent
  <2> QED
    BY <1>1, <2>1, <2>2, <2>3 DEF Routed
<1> QED
  BY <1>2, <1>3

LEMMA AlwaysRouted == Spec => []Routed
  BY InitRouted, StepRouted, PTL DEF Spec

\* A frame reaches a peer only with a published message, for a recipient of it
\* who registered over this very connection, although sendOne and sendGroup use
\* the context after the look at the map and the task runs later still.
THEOREM OnlyToRecipients == Spec => []DeliveredToRecipient
<1>1. Routed => DeliveredToRecipient
  BY DEF Routed
<1> QED
  BY <1>1, AlwaysRouted, PTL

\* getOfflineMessage deletes only what ranks up to a frame written to the same
\* user, whatever other nodes record between the two commands.
THEOREM OnlyPrunedBelowSent == Spec => []PrunedBelowSent
<1>1. Routed => PrunedBelowSent
  BY DEF Routed
<1> QED
  BY <1>1, AlwaysRouted, PTL

\* A drain of l deletes up to the last id sent to the user, or nothing.
LEMMA PruneRefines ==
    ASSUME Routed, NEW l \in Loop, PruneSent(l)
    PROVE  [Delivery!Next]_(Delivery!vars)
<1> DEFINE u == loop[l].user
<1>0. /\ zset \in [User -> SUBSET Message] /\ loop[l] \in Handler /\ u \in User
      /\ attempted \in SUBSET (User \X Message)
      /\ UNCHANGED <<published, attempted>>
      /\ zset' = [zset EXCEPT ![u] = {k \in @ : Score(k.id) > Score(loop[l].latest)}]
  BY DEF Routed, WellFormed, TypeOK, LoopShape, PruneSent, RemoveUpTo
<1>1. CASE loop[l].latest = 0
  <2>1. \A k \in Message : Score(k.id) > Score(loop[l].latest)
    BY <1>1, BoundAssumption, UlpAssumption, ScorePositive, ScoreOfNone DEF Message
  <2>2. {k \in zset[u] : Score(k.id) > Score(loop[l].latest)} = zset[u]
    BY <1>0, <2>1
  <2>3. UNCHANGED zset
    BY <1>0, <2>2
  <2> QED
    BY <1>0, <2>3 DEF Delivery!vars
<1>2. CASE loop[l].latest # 0
  <2>1. PICK y \in attempted : y[1] = u /\ y[2].id = loop[l].latest
    BY <1>2 DEF Routed, RecordFits, SentId
  <2> DEFINE m == y[2]
             Rank == [k \in Message |-> Score(k.id)]
  <2>2. m \in Message /\ <<u, m>> \in attempted
    BY <1>0, <2>1
  <2>3. {k \in zset[u] : Score(k.id) > Score(loop[l].latest)} = {k \in zset[u] : Rank[k] > Rank[m]}
    BY <1>0, <2>1, <2>2
  <2>4. zset' = [zset EXCEPT ![u] = {k \in @ : Rank[k] > Rank[m]}]
    BY <1>0, <2>3
  <2>5. Delivery!PruneUpTo(u, m)
    BY <1>0, <2>2, <2>4 DEF Delivery!PruneUpTo
  <2> QED
    BY <1>0, <2>2, <2>5 DEF Delivery!Next
<1> QED
  BY <1>1, <1>2

\* An offline copy is kept for a recipient.
LEMMA StoreRefines ==
    ASSUME Routed, NEW d \in dispatching, Store(d)
    PROVE  Delivery!Next
<1>1. /\ d.user \in User /\ d.msg \in Message /\ d.msg \in published /\ d.user \in Recipients(d.msg)
      /\ zset' = [zset EXCEPT ![d.user] = @ \union {d.msg}]
      /\ UNCHANGED <<published, attempted>>
  BY DEF Store, ZAdd, Routed, WellFormed, TypeOK, DispatchShape, DispatchCall, DispatchFits, CallFits
<1>2. Delivery!Keep(d.user, d.msg)
  BY <1>1 DEF Delivery!Keep
<1> QED
  BY <1>1, <1>2 DEF Delivery!Next

\* A frame is written for a recipient.
LEMMA FrameRefines ==
    ASSUME Routed, NEW l \in Loop, RunChat(l)
    PROVE  Delivery!Next
<1> DEFINE task == Head(queue[l])
<1>1. /\ TakeTask(l, "chat")
      /\ attempted' = attempted \union {<<task.user, task.msg>>}
      /\ UNCHANGED <<published, zset>>
  BY DEF RunChat
<1>2. 1 \in 1 .. Len(queue[l]) /\ task = queue[l][1]
  BY <1>1 DEF TakeTask, Routed, WellFormed, TypeOK
<1>3. TaskFits(task) /\ task.kind = "chat" /\ task.user \in User /\ task.msg \in Message
  BY <1>1, <1>2 DEF TakeTask, Routed, QueueFits, WellFormed, QueueShape
<1> HIDE DEF task
<1>4. Delivery!Attempt(task.user, task.msg)
  BY <1>1, <1>3 DEF Delivery!Attempt, TaskFits, Due
<1> QED
  BY <1>3, <1>4 DEF Delivery!Next

\* Redis broadcasts a message.
LEMMA BroadcastRefines ==
    ASSUME Routed, NEW m \in Message, published' = published \union {m},
           UNCHANGED <<zset, attempted>>
    PROVE  Delivery!Next
<1>1. Delivery!Publish(m)
  BY DEF Delivery!Publish
<1> QED
  BY <1>1 DEF Delivery!Next

\* The three abstract variables: a step writes at most one of them.
LEMMA OneAtATime ==
    ASSUME Next
    PROVE  \/ UNCHANGED <<published, zset, attempted>>
           \/ \E l \in Loop : PruneSent(l) \/ RunChat(l)
           \/ \E d \in dispatching : Store(d)
           \/ /\ UNCHANGED <<zset, attempted>>
              /\ \E l \in Loop : loop[l].pc = "publish" /\ Broadcast(loop[l].msg)
  BY DEF Next, Network, Connect, PeerVanishes, EndOfStream,
     Read, ReadRegister, ReadChat, ReadMalformed, ReadRefused, ReaderIdle,
     Continue, Publish, AckAndCheckFlag, GetSendInfo, FetchUnsent, DrainNext,
     ClearOfflineFlag, InsertSendInfo, DisconnectRemoves, RunTask, RunNotice, RunInactive,
     Dispatch, ReadGroup, ReadGroupFails, Lookup, Send, StoreFlag,
     Fail, PublishFails, RegisterFails, RecordFails, DispatchFails, Crash, Restart

LEMMA StepRefines ==
    ASSUME Routed, [Next]_vars
    PROVE  [Delivery!Next]_(Delivery!vars)
<1>1. CASE UNCHANGED <<published, zset, attempted>>
  BY <1>1 DEF Delivery!vars
<1>2. ASSUME NEW l \in Loop, loop[l].pc = "publish", Broadcast(loop[l].msg),
             UNCHANGED <<zset, attempted>>
      PROVE  Delivery!Next
  BY <1>2, BroadcastRefines DEF Broadcast, Routed, WellFormed, LoopShape
<1>3. CASE Next
  BY <1>1, <1>2, <1>3, OneAtATime, PruneRefines, FrameRefines, StoreRefines
<1>4. CASE UNCHANGED vars
  BY <1>1, <1>4 DEF vars
<1> QED
  BY <1>3, <1>4

\* The cluster implements the promise of MessageDelivery: each of its steps
\* publishes, keeps, writes or prunes one thing there, or changes nothing.
THEOREM Refinement == Spec => ImplementsDelivery
<1>1. Init => Delivery!Init
  BY DEF Init, RedisInit, Delivery!Init
<1>2. Routed /\ [Next]_vars => [Delivery!Next]_(Delivery!vars)
  BY StepRefines
<1> QED
  BY <1>1, <1>2, AlwaysRouted, PTL DEF Spec, ImplementsDelivery, Delivery!Spec

-----------------------------------------------------------------------------
(* Nobody is passed over and no entry outlives its connection: Accounted and *)
(* MapIsLive.  Both follow the tasks of the event loops: a task leaves its   *)
(* queue only when its loop runs it, or with the node.                       *)

\* u was written to, has an offline copy of m, or waits for it in a queue of n.
Reached(n, u, m) ==
    \/ <<u, m>> \in attempted \union kept
    \/ \E l \in Loop : NodeOf[l] = n /\ Queued(l, u, m)

\* A node's map holds connections of the node's own loops, each for a user that
\* its client speaks for.
MapIsOwn ==
    \A n \in Node, u \in User :
        onlineUserMap[n][u] # None =>
            /\ NodeOf[LoopOf[onlineUserMap[n][u]]] = n
            /\ u \in Identities[onlineUserMap[n][u]]

\* Whom a call of handlerMessageSend has still to reach.
Ahead(d) == d.todo \union {u \in User : u = d.user /\ d.pc \in {"send", "store"}}

\* A call has reached every recipient that is not ahead of it, and the context it
\* found belongs to its node.
CallAccounts(d) ==
    /\ d.pc = "send" => NodeOf[LoopOf[d.ctx]] = d.node
    /\ \A u \in Recipients(d.msg) : u \in Ahead(d) \/ Reached(d.node, u, d.msg)

DispatchAccounts == \A d \in dispatching : CallAccounts(d)

Accounting == WellFormed /\ MapIsOwn /\ DispatchAccounts /\ Accounted

-----------------------------------------------------------------------------
(* Where tasks go. *)

USE DEF netVars, counters, history, redisVars, IsIdle, At

LEMMA QueueMoves ==
    ASSUME Next
    PROVE  \/ UNCHANGED queue
           \/ \E c \in Conn : ReadMalformed(c) \/ ReadRefused(c)
           \/ \E c \in Conn : Close(c)
           \/ \E l \in Loop : loop[l].pc # "idle" /\ Enqueue(Notice(loop[l].conn))
           \/ \E l \in Loop : RegisterFails(l)
           \/ \E d \in dispatching : Send(d)
           \/ \E d \in dispatching : d.owner # None /\ Close(loop[d.owner].conn)
           \/ \E l \in Loop : RunTask(l)
           \/ \E n \in Node : Crash(n)
  BY DEF Next, Network, Connect, PeerVanishes, EndOfStream,
     Read, ReadRegister, ReadChat, ReaderIdle,
     Continue, Publish, AckAndCheckFlag, GetSendInfo, PruneSent, FetchUnsent, DrainNext,
     ClearOfflineFlag, InsertSendInfo, DisconnectRemoves,
     Dispatch, ReadGroup, ReadGroupFails, Lookup, Store, StoreFlag,
     Fail, PublishFails, RecordFails, DispatchFails, Restart

\* The tasks of the queues keep their places.
Stay == \A l \in Loop : \A i \in 1 .. Len(queue[l]) :
            i \in 1 .. Len(queue'[l]) /\ queue'[l][i] = queue[l][i]

\* Tasks are added at the end.
LEMMA AppendStays ==
    ASSUME WellFormed, NEW l \in Loop, NEW new \in Seq(Task),
           queue' = [queue EXCEPT ![l] = @ \o new]
    PROVE  Stay
<1>1. queue \in [Loop -> Seq(Task)]
  BY DEF WellFormed, TypeOK
<1>2. ASSUME NEW i \in 1 .. Len(queue[l])
      PROVE  i \in 1 .. Len(queue[l] \o new) /\ (queue[l] \o new)[i] = queue[l][i]
  <2>1. queue[l] \in Seq(Task)
    BY <1>1
  <2> QED
    BY <2>1
<1> QED
  BY <1>1, <1>2 DEF Stay

LEMMA EnqueueStays ==
    ASSUME WellFormed, NEW task \in Task, Enqueue(task)
    PROVE  /\ Stay
           /\ \E i \in 1 .. Len(queue'[LoopOf[task.conn]]) : queue'[LoopOf[task.conn]][i] = task
<1> DEFINE l == LoopOf[task.conn]
<1>1. queue \in [Loop -> Seq(Task)] /\ l \in Loop
  BY TopologyAssumption DEF WellFormed, TypeOK, Task
<1>2. queue' = [queue EXCEPT ![l] = Append(queue[l], task)]
  BY DEF Enqueue
<1> HIDE DEF l
<1>3. /\ \A i \in 1 .. Len(queue[l]) :
            i \in 1 .. Len(Append(queue[l], task)) /\ Append(queue[l], task)[i] = queue[l][i]
      /\ Len(queue[l]) + 1 \in 1 .. Len(Append(queue[l], task))
      /\ Append(queue[l], task)[Len(queue[l]) + 1] = task
  <2>1. queue[l] \in Seq(Task)
    BY <1>1
  <2> QED
    BY <2>1
<1>4. Stay
  BY <1>1, <1>2, <1>3 DEF Stay
<1>5. queue'[l] = Append(queue[l], task)
  BY <1>1, <1>2
<1> QED
  BY <1>3, <1>4, <1>5 DEF l

LEMMA CloseStays ==
    ASSUME WellFormed, NEW c \in Conn, Close(c)
    PROVE  Stay
<1>1. UNCHANGED queue \/ Enqueue(Inactive(c))
  BY DEF Close
<1>2. UNCHANGED queue => Stay
  BY DEF Stay
<1> QED
  BY <1>1, <1>2, TaskTypes, EnqueueStays

\* No step but the loop's own takes a task, unless the node crashes.
LEMMA TasksStay ==
    ASSUME WellFormed, Next
    PROVE  \/ Stay
           \/ \E l \in Loop : RunTask(l)
           \/ \E n \in Node : Crash(n)
<1> USE TopologyAssumption
<1>1. UNCHANGED queue => Stay
  BY DEF Stay
<1>2. ASSUME NEW c \in Conn, ReadMalformed(c) \/ ReadRefused(c)
      PROVE  Stay
  <2>1. PICK new \in {<<Notice(c)>>, <<Notice(c), Notice(c)>>, <<Inactive(c)>>, <<Notice(c), Inactive(c)>>} :
            queue' = [queue EXCEPT ![LoopOf[c]] = @ \o new]
    BY <1>2 DEF ReadMalformed, ReadRefused
  <2>2. new \in Seq(Task)
    BY ClosingTasks, NoticeTasks
  <2> QED
    BY <2>1, <2>2, AppendStays
<1>3. ASSUME NEW l \in Loop, loop[l].pc # "idle"
      PROVE  loop[l].conn \in Conn
  BY <1>3 DEF WellFormed, LoopShape
<1>4. ASSUME NEW l \in Loop, RegisterFails(l)
      PROVE  Stay
  <2> DEFINE c == loop[l].conn
  <2>1. PICK new \in {<<Inactive(c)>>, <<Notice(c), Inactive(c)>>} :
            queue' = [queue EXCEPT ![l] = @ \o new]
    BY <1>4 DEF RegisterFails
  <2>2. c \in Conn
    BY <1>3, <1>4 DEF RegisterFails
  <2>3. new \in Seq(Task)
    BY <2>2, ClosingTasks
  <2> QED
    BY <2>1, <2>3, AppendStays
<1>5. ASSUME NEW d \in dispatching, Send(d)
      PROVE  Stay
  <2>1. d.ctx \in Conn /\ d.user \in User /\ d.msg \in Message
    BY <1>5 DEF Send, WellFormed, TypeOK, DispatchShape, DispatchCall
  <2> QED
    BY <1>5, <2>1, ChatType, EnqueueStays DEF Send
<1>6. ASSUME NEW d \in dispatching, d.owner # None, Close(loop[d.owner].conn)
      PROVE  Stay
  <2>1. d.owner \in Loop /\ loop[d.owner].pc = "drain"
    BY <1>6 DEF WellFormed, TypeOK, DispatchShape, DispatchCall
  <2> QED
    BY <1>3, <1>6, <2>1, CloseStays
<1>7. ASSUME NEW l \in Loop, loop[l].pc # "idle", Enqueue(Notice(loop[l].conn))
      PROVE  Stay
  BY <1>3, <1>7, TaskTypes, EnqueueStays
<1> QED
  BY <1>1, <1>2, <1>4, <1>5, <1>6, <1>7, CloseStays, QueueMoves

\* A loop that runs a task takes the first one of its queue.
LEMMA OneTaken ==
    ASSUME WellFormed, NEW l \in Loop, RunTask(l), NEW k \in Loop, NEW i \in 1 .. Len(queue[k])
    PROVE  \/ k = l /\ i = 1
           \/ \E j \in 1 .. Len(queue'[k]) : queue'[k][j] = queue[k][i]
<1>1. queue \in [Loop -> Seq(Task)]
  BY DEF WellFormed, TypeOK
<1>2. queue[l] # <<>> /\ queue' = [queue EXCEPT ![l] = Tail(queue[l])]
  BY DEF RunTask, RunNotice, RunChat, RunInactive, TakeTask
<1>3. CASE k # l
  BY <1>1, <1>2, <1>3
<1>4. CASE k = l /\ i # 1
  <2>1. queue[l] \in Seq(Task)
    BY <1>1
  <2>2. i - 1 \in 1 .. Len(Tail(queue[l])) /\ Tail(queue[l])[i - 1] = queue[l][i]
    BY <1>2, <1>4, <2>1
  <2>3. queue'[l] = Tail(queue[l])
    BY <1>1, <1>2
  <2> QED
    BY <1>4, <2>2, <2>3
<1> QED
  BY <1>3, <1>4

-----------------------------------------------------------------------------
(* Accounting for recipients. *)

LEMMA KeptGrows ==
    ASSUME WellFormed, Next
    PROVE  attempted \union kept \subseteq attempted' \union kept'
<1>1. kept \subseteq kept'
  BY KeptWriters DEF Store
<1> QED
  BY <1>1, Grows

\* Who is reached stays reached as long as the node runs.
LEMMA ReachedStays ==
    ASSUME WellFormed, Next, NEW n \in Node, NEW u, NEW m, Reached(n, u, m), ~Crash(n)
    PROVE  Reached(n, u, m)'
<1>1. CASE <<u, m>> \in attempted \union kept
  BY <1>1, KeptGrows DEF Reached
<1>2. ASSUME NEW l \in Loop, NodeOf[l] = n, NEW i \in 1 .. Len(queue[l]),
             queue[l][i].kind = "chat", queue[l][i].user = u, queue[l][i].msg = m
      PROVE  Reached(n, u, m)'
  <2>1. CASE Stay
    BY <1>2, <2>1 DEF Stay, Reached, Queued
  <2>2. ASSUME NEW k \in Loop, RunTask(k)
        PROVE  Reached(n, u, m)'
    <3>1. CASE \E j \in 1 .. Len(queue'[l]) : queue'[l][j] = queue[l][i]
      BY <1>2, <3>1 DEF Reached, Queued
    <3>2. CASE k = l /\ i = 1
      <4>1. Head(queue[l]) = queue[l][i]
        BY <1>2, <3>2 DEF WellFormed, TypeOK
      <4>2. RunChat(l)
        BY <1>2, <2>2, <3>2, <4>1 DEF RunTask, RunNotice, RunInactive, TakeTask
      <4>3. <<u, m>> \in attempted'
        BY <1>2, <4>1, <4>2 DEF RunChat
      <4> QED
        BY <4>3 DEF Reached
    <3> QED
      BY <1>2, <2>2, <3>1, <3>2, OneTaken
  <2>3. ASSUME NEW k \in Node, Crash(k)
        PROVE  Reached(n, u, m)'
    <3>1. queue'[l] = queue[l]
      BY <1>2, <2>3 DEF Crash
    <3> QED
      BY <1>2, <3>1 DEF Reached, Queued
  <2> QED
    BY <2>1, <2>2, <2>3, TasksStay
<1> QED
  BY <1>1, <1>2 DEF Reached, Queued

\* register puts the connection into the map of its own node.
LEMMA MapStaysOwn ==
    ASSUME WellFormed, MapIsOwn, Next
    PROVE  MapIsOwn'
<1> USE TopologyAssumption DEF WellFormed, TypeOK, MapIsOwn
<1>1. CASE UNCHANGED onlineUserMap
  BY <1>1
<1>2. ASSUME NEW c \in Conn, NEW u \in Identities[c], ReadRegister(c, u)
      PROVE  MapIsOwn'
  <2>1. onlineUserMap' = [onlineUserMap EXCEPT ![NodeOf[LoopOf[c]]][u] = c]
    BY <1>2 DEF ReadRegister
  <2> QED
    BY <2>1
<1>3. ASSUME NEW l \in Loop, DisconnectRemoves(l)
      PROVE  MapIsOwn'
  BY <1>3 DEF DisconnectRemoves, RemoveEntry, LoopShape
<1>4. ASSUME NEW n \in Node, Crash(n)
      PROVE  MapIsOwn'
  BY <1>4 DEF Crash
<1> QED
  BY <1>1, <1>2, <1>3, <1>4, MapWriters

LEMMA CallMoves ==
    ASSUME Next
    PROVE  \/ dispatching' \subseteq dispatching /\ handled' \subseteq handled
           \/ \E l \in Loop : /\ loop[l].pc = "publish" /\ Broadcast(loop[l].msg)
                              /\ UNCHANGED handled
           \/ \E l \in Loop : DrainNext(l)
           \/ \E d \in dispatching : Dispatch(d)
  BY DEF Next, Network, Connect, PeerVanishes, EndOfStream,
     Read, ReadRegister, ReadChat, ReadMalformed, ReadRefused, ReaderIdle,
     Continue, Publish, AckAndCheckFlag, GetSendInfo, PruneSent, FetchUnsent,
     ClearOfflineFlag, InsertSendInfo, DisconnectRemoves, RunTask, RunNotice, RunChat, RunInactive,
     Fail, PublishFails, RegisterFails, RecordFails, DispatchFails, Crash, Restart

\* A call that goes on as it is still accounts for its recipients.
LEMMA CallStays ==
    ASSUME Accounting, Next, NEW d \in dispatching, d \in dispatching'
    PROVE  CallAccounts(d)'
<1>1. d.node \in Node /\ CallAccounts(d)
  BY DEF Accounting, WellFormed, TypeOK, DispatchCall, DispatchAccounts
<1>2. ~Crash(d.node)
  BY DEF Crash
<1>3. \A u \in Recipients(d.msg) : Reached(d.node, u, d.msg) => Reached(d.node, u, d.msg)'
  BY <1>1, <1>2, ReachedStays DEF Accounting
<1> QED
  BY <1>1, <1>3 DEF CallAccounts, Ahead

\* What is handled stays accounted for.
LEMMA HandledStays ==
    ASSUME Accounting, Next, NEW h \in handled, h \in handled', NEW u \in Recipients(h[2])
    PROVE  Reached(h[1], u, h[2])'
<1>1. h[1] \in Node /\ Reached(h[1], u, h[2])
  BY DEF Accounting, WellFormed, TypeOK, Accounted, Reached
<1>2. ~Crash(h[1])
  BY DEF Crash
<1> QED
  BY <1>1, <1>2, ReachedStays DEF Accounting

\* A call passes on to its next recipient, or ends, when it has dealt with the one
\* it had at hand.
LEMMA ProceedAccounts ==
    ASSUME Accounting, Next, NEW d \in dispatching, Proceed(d),
           \A u \in Recipients(d.msg) : u \in d.todo \/ Reached(d.node, u, d.msg)'
    PROVE  DispatchAccounts' /\ Accounted'
<1>0. d \in DispatchCall
  BY DEF Accounting, WellFormed, TypeOK
<1>1. CASE d.todo = {}
  <2>1. /\ dispatching' \subseteq dispatching
        /\ handled' \subseteq handled \union {<<d.node, d.msg>>}
    BY <1>1 DEF Proceed
  <2>2. DispatchAccounts'
    BY <2>1, CallStays DEF DispatchAccounts
  <2>3. ASSUME NEW h \in handled', NEW u \in Recipients(h[2])
        PROVE  Reached(h[1], u, h[2])'
    BY <1>1, <2>1, HandledStays
  <2>4. Accounted'
    BY <2>3 DEF Accounted, Reached
  <2> QED
    BY <2>2, <2>4
<1>2. CASE d.todo # {}
  <2> DEFINE e == [d EXCEPT !.pc = "next", !.user = None, !.ctx = None]
  <2>1. dispatching' = (dispatching \ {d}) \union {e} /\ UNCHANGED handled
    BY <1>2 DEF Proceed, Becomes
  <2>2. e.pc = "next" /\ e.todo = d.todo /\ e.node = d.node /\ e.msg = d.msg
    BY <1>0 DEF DispatchCall
  <2> HIDE DEF e
  <2>3. CallAccounts(e)'
    BY <2>2 DEF CallAccounts, Ahead
  <2>4. DispatchAccounts'
    BY <2>1, <2>3, CallStays DEF DispatchAccounts
  <2>5. Accounted'
    BY <2>1, HandledStays DEF Accounted, Reached
  <2> QED
    BY <2>4, <2>5
<1> QED
  BY <1>1, <1>2

\* A call goes on to a step that accounts for its recipients.
LEMMA BecomesAccounts ==
    ASSUME Accounting, Next, NEW d \in dispatching, NEW e, Becomes(d, e),
           CallAccounts(e)', UNCHANGED handled
    PROVE  DispatchAccounts' /\ Accounted'
<1>1. DispatchAccounts'
  BY CallStays DEF Becomes, DispatchAccounts
<1>2. Accounted'
  BY HandledStays DEF Accounted, Reached
<1> QED
  BY <1>1, <1>2

LEMMA DispatchKeepsAccount ==
    ASSUME Accounting, Next, NEW d \in dispatching, Dispatch(d)
    PROVE  DispatchAccounts' /\ Accounted'
<1>0. d \in DispatchCall /\ CallAccounts(d) /\ ~Crash(d.node)
  <2>1. d.node \in Node => up'[d.node] = up[d.node]
    BY DEF Dispatch, ReadGroup, ReadGroupFails, Lookup, Send, Store, StoreFlag
  <2> QED
    BY <2>1 DEF Accounting, WellFormed, TypeOK, DispatchAccounts, DispatchCall, Crash
<1>1. \A u \in Recipients(d.msg) : u \in Ahead(d) \/ Reached(d.node, u, d.msg)'
  <2>1. d.node \in Node
    BY <1>0 DEF DispatchCall
  <2> QED
    BY <1>0, <2>1, ReachedStays DEF CallAccounts, Accounting
<1>2. CASE ReadGroup(d) \/ StoreFlag(d)
  BY <1>1, <1>2, ProceedAccounts DEF ReadGroup, StoreFlag, Ahead
<1>3. CASE ReadGroupFails(d)
  <2>1. dispatching' \subseteq dispatching /\ UNCHANGED handled
    BY <1>3 DEF ReadGroupFails
  <2> QED
    BY <2>1, CallStays, HandledStays DEF DispatchAccounts, Accounted, Reached
<1>4. ASSUME NEW u \in d.todo, Lookup(d, u)
      PROVE  DispatchAccounts' /\ Accounted'
  <2>0. PICK ctx : ctx = onlineUserMap[d.node][u]
    OBVIOUS
  <2>1. PICK e : e = [d EXCEPT !.pc = IF ctx = None THEN "store" ELSE "send",
                               !.todo = @ \ {u}, !.user = u, !.ctx = ctx]
    OBVIOUS
  <2>2. Becomes(d, e) /\ UNCHANGED handled /\ d.pc = "next"
    BY <1>4, <2>0, <2>1 DEF Lookup
  <2>3. u \in User /\ d.node \in Node
    BY <1>0 DEF DispatchCall
  <2>4. ctx # None => NodeOf[LoopOf[ctx]] = d.node
    BY <2>0, <2>3 DEF Accounting, MapIsOwn
  <2>5. /\ e.pc = IF ctx = None THEN "store" ELSE "send"
        /\ e.todo = d.todo \ {u} /\ e.user = u /\ e.ctx = ctx
        /\ e.node = d.node /\ e.msg = d.msg
    BY <1>0, <2>1 DEF DispatchCall
  <2>6. CallAccounts(e)'
    BY <1>1, <2>2, <2>3, <2>4, <2>5 DEF CallAccounts, Ahead
  <2> QED
    BY <2>2, <2>6, BecomesAccounts
<1>5. CASE Send(d)
  <2> DEFINE l == LoopOf[d.ctx]
  <2>1. /\ d.ctx \in Conn /\ d.user \in User /\ d.msg \in Message
        /\ Enqueue(Chat(d.ctx, d.user, d.msg)) /\ Proceed(d) /\ d.pc = "send"
    BY <1>0, <1>5 DEF Send, Accounting, WellFormed, DispatchShape, DispatchCall
  <2>2. l \in Loop /\ NodeOf[l] = d.node
    BY <1>0, <2>1, TopologyAssumption DEF CallAccounts
  <2>3. Queued(l, d.user, d.msg)'
    BY <2>1, ChatType, EnqueueStays DEF Accounting, Queued
  <2>4. Reached(d.node, d.user, d.msg)'
    BY <2>2, <2>3 DEF Reached
  <2> QED
    BY <1>1, <2>1, <2>4, ProceedAccounts DEF Ahead
<1>6. CASE Store(d)
  <2> DEFINE e == [d EXCEPT !.pc = "flag"]
  <2>1. /\ kept' = kept \union {<<d.user, d.msg>>}
        /\ Becomes(d, e) /\ UNCHANGED handled
    BY <1>6 DEF Store
  <2>2. /\ e.pc = "flag" /\ e.todo = d.todo /\ e.user = d.user
        /\ e.node = d.node /\ e.msg = d.msg
    BY <1>0 DEF DispatchCall
  <2> HIDE DEF e
  <2>3. Reached(d.node, d.user, d.msg)'
    BY <2>1 DEF Reached
  <2>4. CallAccounts(e)'
    BY <1>1, <2>2, <2>3 DEF CallAccounts, Ahead
  <2> QED
    BY <2>1, <2>4, BecomesAccounts
<1> QED
  BY <1>2, <1>3, <1>4, <1>5, <1>6 DEF Dispatch

\* A new call has everybody ahead of it.
LEMMA NewCallAccounts ==
    ASSUME NEW owner \in Loop \union {None}, NEW n \in Node, NEW m \in Message
    PROVE  CallAccounts(Call(owner, n, m))'
  BY CallType DEF CallAccounts, Ahead

LEMMA StepAccounts ==
    ASSUME Accounting, Next
    PROVE  DispatchAccounts' /\ Accounted'
<1>1. CASE dispatching' \subseteq dispatching /\ handled' \subseteq handled
  BY <1>1, CallStays, HandledStays DEF DispatchAccounts, Accounted, Reached
<1>2. ASSUME NEW l \in Loop, loop[l].pc = "publish", Broadcast(loop[l].msg), UNCHANGED handled
      PROVE  DispatchAccounts' /\ Accounted'
  <2>1. PICK m \in Message : m = loop[l].msg
    BY <1>2 DEF Accounting, WellFormed, LoopShape
  <2>2. \A d \in dispatching' : d \in dispatching \/ \E n \in Node : d = Call(None, n, m)
    BY <1>2, <2>1 DEF Broadcast
  <2>3. \A n \in Node : CallAccounts(Call(None, n, m))'
    BY NewCallAccounts
  <2>4. DispatchAccounts'
    BY <2>2, <2>3, CallStays DEF DispatchAccounts
  <2> QED
    BY <1>2, <2>4, HandledStays DEF Accounted, Reached
<1>3. ASSUME NEW l \in Loop, DrainNext(l)
      PROVE  DispatchAccounts' /\ Accounted'
  <2>1. PICK m \in loop[l].batch : dispatching' = dispatching \union {Call(l, NodeOf[l], m)}
    BY <1>3 DEF DrainNext
  <2>2. m \in Message /\ NodeOf[l] \in Node
    BY TopologyAssumption DEF Accounting, WellFormed, TypeOK, Handler
  <2>3. CallAccounts(Call(l, NodeOf[l], m))'
    BY <2>2, NewCallAccounts
  <2>4. DispatchAccounts'
    BY <2>1, <2>3, CallStays DEF DispatchAccounts
  <2>5. UNCHANGED handled
    BY <1>3 DEF DrainNext
  <2> QED
    BY <2>4, <2>5, HandledStays DEF Accounted, Reached
<1> QED
  BY <1>1, <1>2, <1>3, DispatchKeepsAccount, CallMoves

LEMMA InitAccounts == Init => Accounting
  BY InitWellFormed DEF Init, Accounting, MapIsOwn, DispatchAccounts, Accounted

LEMMA NextAccounts == Accounting /\ [Next]_vars => Accounting'
<1> SUFFICES ASSUME Accounting, [Next]_vars
             PROVE  Accounting'
  OBVIOUS
<1>1. WellFormed'
  BY StepWellFormed DEF Accounting
<1>2. CASE Next
  BY <1>1, <1>2, MapStaysOwn, StepAccounts DEF Accounting
<1>3. CASE UNCHANGED vars
  BY <1>1, <1>3 DEF vars, Accounting, MapIsOwn, DispatchAccounts, CallAccounts, Ahead,
     Reached, Accounted, Queued
<1> QED
  BY <1>2, <1>3

\* Whatever registers, disconnects, fails or crashes between the look at the map
\* and the end of the call: when sendOne or sendGroup is through, every recipient
\* was written to, waits in a queue of the node or has an offline copy.
THEOREM NobodyPassedOver == Spec => []Accounted
<1>1. Accounting => Accounted
  BY DEF Accounting
<1> QED
  BY <1>1, InitAccounts, NextAccounts, PTL DEF Spec

-----------------------------------------------------------------------------
(* Entries of connections that are closed. *)

\* Every client speaks for one user at most, as the chat page does: it registers
\* the user of its session (wsRegister of ChatClient).
SpeaksForOne == \A c \in Conn : \A u, v \in Identities[c] : u = v

\* channelInactive of c is queued.
Waits(c) ==
    \E i \in 1 .. Len(queue[LoopOf[c]]) :
        queue[LoopOf[c]][i].kind = "inactive" /\ queue[LoopOf[c]][i].conn = c

\* connectionDisconnect has found the entry of u and is about to remove it.
Removing(c, u) ==
    loop[LoopOf[c]].pc = "remove" /\ loop[LoopOf[c]].conn = c /\ loop[LoopOf[c]].user = u

\* MapIsLive alone is not inductive: the removal has to be that of this entry.
EntryLives(u, c) == channel[c] \in {"open", "gone"} \/ Waits(c) \/ Removing(c, u)

EntriesLive ==
    \A n \in Node, u \in User :
        onlineUserMap[n][u] # None => EntryLives(u, onlineUserMap[n][u])

\* A loop works on its own connections only, and so do the tasks in its queue.
LoopIsOwn == \A l \in Loop : loop[l].pc # "idle" => LoopOf[loop[l].conn] = l

QueueIsOwn ==
    \A l \in Loop : \A i \in 1 .. Len(queue[l]) : LoopOf[queue[l][i].conn] = l

Living == WellFormed /\ LoopIsOwn /\ QueueIsOwn /\ MapIsOwn /\ EntriesLive

\* Tasks for connections of a loop are added to its queue.
LEMMA ExtendOwn ==
    ASSUME WellFormed, QueueIsOwn, NEW c \in Conn, NEW l \in Loop, LoopOf[c] = l,
           NEW new \in {<<Notice(c)>>, <<Notice(c), Notice(c)>>,
                        <<Inactive(c)>>, <<Notice(c), Inactive(c)>>},
           queue' = [queue EXCEPT ![l] = @ \o new]
    PROVE  QueueIsOwn'
<1>1. queue \in [Loop -> Seq(Task)] /\ queue[l] \in Seq(Task)
  BY DEF WellFormed, TypeOK
<1>2. new \in Seq(Task)
  BY ClosingTasks, NoticeTasks
<1>3. \A k \in 1 .. Len(new) : new[k].conn = c
  <2> DEFINE x == Inactive(c)
             y == Notice(c)
  <2>1. x.conn = c /\ y.conn = c
    BY TaskTypes
  <2> HIDE DEF x, y
  <2>2. new \in {<<y>>, <<y, y>>, <<x>>, <<y, x>>}
    BY DEF x, y
  <2>3. /\ Len(<<x>>) = 1 /\ <<x>>[1] = x /\ Len(<<y>>) = 1 /\ <<y>>[1] = y
        /\ Len(<<y, x>>) = 2 /\ <<y, x>>[1] = y /\ <<y, x>>[2] = x
        /\ Len(<<y, y>>) = 2 /\ <<y, y>>[1] = y /\ <<y, y>>[2] = y
    OBVIOUS
  <2> QED
    BY <2>1, <2>2, <2>3
<1>4. \A i \in 1 .. Len(queue[l] \o new) :
         \/ i \in 1 .. Len(queue[l]) /\ (queue[l] \o new)[i] = queue[l][i]
         \/ i - Len(queue[l]) \in 1 .. Len(new) /\ (queue[l] \o new)[i] = new[i - Len(queue[l])]
  BY <1>1, <1>2
<1>5. \A i \in 1 .. Len(queue[l] \o new) : LoopOf[(queue[l] \o new)[i].conn] = l
  BY <1>3, <1>4 DEF QueueIsOwn
<1> QED
  BY <1>1, <1>5 DEF QueueIsOwn

LEMMA EnqueueOwn ==
    ASSUME WellFormed, QueueIsOwn, NEW task \in Task, Enqueue(task)
    PROVE  QueueIsOwn'
<1> DEFINE l == LoopOf[task.conn]
<1>1. l \in Loop /\ queue \in [Loop -> Seq(Task)] /\ queue[l] \in Seq(Task)
  BY TopologyAssumption DEF WellFormed, TypeOK, Task
<1>2. queue' = [queue EXCEPT ![l] = Append(queue[l], task)]
  BY DEF Enqueue
<1>3. \A i \in 1 .. Len(Append(queue[l], task)) :
         \/ i \in 1 .. Len(queue[l]) /\ Append(queue[l], task)[i] = queue[l][i]
         \/ Append(queue[l], task)[i] = task
  BY <1>1
<1>4. \A i \in 1 .. Len(Append(queue[l], task)) : LoopOf[Append(queue[l], task)[i].conn] = l
  BY <1>1, <1>3 DEF QueueIsOwn
<1> QED
  BY <1>1, <1>2, <1>4 DEF QueueIsOwn

LEMMA CloseOwn ==
    ASSUME WellFormed, QueueIsOwn, NEW c \in Conn, Close(c)
    PROVE  QueueIsOwn'
<1>1. UNCHANGED queue \/ Enqueue(Inactive(c))
  BY DEF Close
<1> QED
  BY <1>1, TaskTypes, EnqueueOwn DEF QueueIsOwn

LEMMA QueueStaysOwn ==
    ASSUME WellFormed, LoopIsOwn, QueueIsOwn, Next
    PROVE  QueueIsOwn'
<1> USE TopologyAssumption
<1>0. queue \in [Loop -> Seq(Task)]
  BY DEF WellFormed, TypeOK
<1>1. UNCHANGED queue => QueueIsOwn'
  BY DEF QueueIsOwn
<1>2. ASSUME NEW c \in Conn, ReadMalformed(c) \/ ReadRefused(c)
      PROVE  QueueIsOwn'
  <2>1. PICK new \in {<<Notice(c)>>, <<Notice(c), Notice(c)>>, <<Inactive(c)>>, <<Notice(c), Inactive(c)>>} :
            queue' = [queue EXCEPT ![LoopOf[c]] = @ \o new]
    BY <1>2 DEF ReadMalformed, ReadRefused
  <2> QED
    BY <2>1, ExtendOwn
<1>3. ASSUME NEW l \in Loop, loop[l].pc # "idle"
      PROVE  loop[l].conn \in Conn /\ LoopOf[loop[l].conn] = l
  BY <1>3 DEF WellFormed, LoopShape, LoopIsOwn
<1>4. ASSUME NEW l \in Loop, RegisterFails(l)
      PROVE  QueueIsOwn'
  <2>1. PICK c \in Conn : c = loop[l].conn /\ LoopOf[c] = l
    BY <1>3, <1>4 DEF RegisterFails
  <2>2. PICK new \in {<<Inactive(c)>>, <<Notice(c), Inactive(c)>>} :
            queue' = [queue EXCEPT ![l] = @ \o new]
    BY <1>4, <2>1 DEF RegisterFails
  <2> QED
    BY <2>1, <2>2, ExtendOwn
<1>5. ASSUME NEW d \in dispatching, Send(d)
      PROVE  QueueIsOwn'
  <2>1. d.ctx \in Conn /\ d.user \in User /\ d.msg \in Message
    BY <1>5 DEF Send, WellFormed, TypeOK, DispatchShape, DispatchCall
  <2> QED
    BY <1>5, <2>1, ChatType, EnqueueOwn DEF Send
<1>6. ASSUME NEW d \in dispatching, d.owner # None, Close(loop[d.owner].conn)
      PROVE  QueueIsOwn'
  <2>1. d.owner \in Loop /\ loop[d.owner].pc = "drain"
    BY <1>6 DEF WellFormed, TypeOK, DispatchShape, DispatchCall
  <2> QED
    BY <1>3, <1>6, <2>1, CloseOwn
<1>7. ASSUME NEW l \in Loop, loop[l].pc # "idle", Enqueue(Notice(loop[l].conn))
      PROVE  QueueIsOwn'
  BY <1>3, <1>7, TaskTypes, EnqueueOwn
<1>8. ASSUME NEW l \in Loop, RunTask(l)
      PROVE  QueueIsOwn'
  <2>1. queue[l] # <<>> /\ queue' = [queue EXCEPT ![l] = Tail(queue[l])]
    BY <1>8 DEF RunTask, RunNotice, RunChat, RunInactive, TakeTask
  <2>2. \A i \in 1 .. Len(Tail(queue[l])) :
            i + 1 \in 1 .. Len(queue[l]) /\ Tail(queue[l])[i] = queue[l][i + 1]
    BY <1>0, <2>1
  <2> QED
    BY <1>0, <2>1, <2>2 DEF QueueIsOwn
<1>9. ASSUME NEW n \in Node, Crash(n)
      PROVE  QueueIsOwn'
  BY <1>9 DEF Crash, QueueIsOwn
<1> QED
  BY <1>1, <1>2, <1>4, <1>5, <1>6, <1>7, <1>8, <1>9, CloseOwn, QueueMoves

LEMMA ChannelWriters ==
    ASSUME Next
    PROVE  \/ UNCHANGED channel
           \/ \E c \in Conn : Connect(c) \/ PeerVanishes(c) \/ ReadRefused(c) \/ Close(c)
           \/ \E l \in Loop : RegisterFails(l)
           \/ \E d \in dispatching : d.owner # None /\ Close(loop[d.owner].conn)
           \/ \E n \in Node : Crash(n)
  BY DEF Next, Network, EndOfStream,
     Read, ReadRegister, ReadChat, ReadMalformed, ReaderIdle,
     Continue, Publish, AckAndCheckFlag, GetSendInfo, PruneSent, FetchUnsent, DrainNext,
     ClearOfflineFlag, InsertSendInfo, DisconnectRemoves, RunTask, RunNotice, RunChat, RunInactive,
     Dispatch, ReadGroup, ReadGroupFails, Lookup, Send, Store, StoreFlag,
     Fail, PublishFails, RecordFails, DispatchFails, Restart

\* Two tasks at most are added when a handler throws, and channelInactive is one.
LEMMA ClosingWaits ==
    ASSUME WellFormed, NEW c \in Conn,
           NEW new \in {<<Inactive(c)>>, <<Notice(c), Inactive(c)>>},
           queue' = [queue EXCEPT ![LoopOf[c]] = @ \o new]
    PROVE  Waits(c)'
<1> DEFINE l == LoopOf[c]
<1>1. l \in Loop /\ queue \in [Loop -> Seq(Task)] /\ queue[l] \in Seq(Task)
  BY TopologyAssumption DEF WellFormed, TypeOK
<1>2. new \in Seq(Task)
  BY ClosingTasks
<1>3. PICK k \in 1 .. Len(new) : new[k] = Inactive(c)
  <2> DEFINE x == Inactive(c)
             y == Notice(c)
  <2> HIDE DEF x, y
  <2>1. new = <<x>> \/ new = <<y, x>>
    BY DEF x, y
  <2>2. /\ 1 \in 1 .. Len(<<x>>) /\ <<x>>[1] = x
        /\ 2 \in 1 .. Len(<<y, x>>) /\ <<y, x>>[2] = x
    OBVIOUS
  <2> QED
    BY <2>1, <2>2 DEF x
<1>4. /\ Len(queue[l]) + k \in 1 .. Len(queue[l] \o new)
      /\ (queue[l] \o new)[Len(queue[l]) + k] = new[k]
  BY <1>1, <1>2
<1>5. queue'[l] = queue[l] \o new
  BY <1>1
<1> HIDE DEF l
<1>6. \E i \in 1 .. Len(queue'[l]) : queue'[l][i] = Inactive(c)
  BY <1>3, <1>4, <1>5
<1> QED
  BY <1>6, TaskTypes DEF Waits, l

LEMMA CloseWaits ==
    ASSUME WellFormed, NEW c \in Conn, Close(c), channel[c] # "closed"
    PROVE  Waits(c)'
<1>1. Enqueue(Inactive(c))
  BY DEF Close
<1> QED
  BY <1>1, TaskTypes, EnqueueStays DEF Waits

\* A connection is closed with its channelInactive queued, or with its node.
LEMMA ClosedWaits ==
    ASSUME WellFormed, LoopIsOwn, Next, NEW c \in Conn, channel[c] \in {"open", "gone"}
    PROVE  \/ channel'[c] \in {"open", "gone"}
           \/ Waits(c)'
           \/ Crash(NodeOf[LoopOf[c]])
<1>0. channel \in [Conn -> {"new", "open", "gone", "closed"}]
  BY DEF WellFormed, TypeOK
<1>1. ASSUME NEW x \in Conn, Connect(x) \/ PeerVanishes(x)
      PROVE  channel'[c] \in {"open", "gone"}
  BY <1>0, <1>1 DEF Connect, PeerVanishes
<1>2. ASSUME NEW x \in Conn, ReadRefused(x)
      PROVE  channel'[c] \in {"open", "gone"} \/ Waits(c)'
  <2>1. CASE x # c
    BY <1>0, <1>2, <2>1 DEF ReadRefused
  <2>2. CASE x = c
    BY <1>2, <2>2, ClosingWaits DEF ReadRefused
  <2> QED
    BY <2>1, <2>2
<1>3. ASSUME NEW x \in Conn, Close(x)
      PROVE  channel'[c] \in {"open", "gone"} \/ Waits(c)'
  <2>1. CASE x # c
    BY <1>0, <1>3, <2>1 DEF Close
  <2>2. CASE x = c
    BY <1>3, <2>2, CloseWaits
  <2> QED
    BY <2>1, <2>2
<1>4. ASSUME NEW l \in Loop, RegisterFails(l)
      PROVE  channel'[c] \in {"open", "gone"} \/ Waits(c)'
  <2>1. channel' = [channel EXCEPT ![loop[l].conn] = "closed"]
    BY <1>4 DEF RegisterFails
  <2>2. CASE loop[l].conn # c
    BY <1>0, <2>1, <2>2
  <2>3. CASE loop[l].conn = c
    <3>1. PICK new \in {<<Inactive(c)>>, <<Notice(c), Inactive(c)>>} :
              queue' = [queue EXCEPT ![l] = @ \o new]
      BY <1>4, <2>3 DEF RegisterFails
    <3>2. l = LoopOf[c]
      BY <1>4, <2>3 DEF RegisterFails, LoopIsOwn
    <3> QED
      BY <3>1, <3>2, ClosingWaits
  <2> QED
    BY <2>2, <2>3
<1>5. ASSUME NEW d \in dispatching, d.owner # None, Close(loop[d.owner].conn)
      PROVE  channel'[c] \in {"open", "gone"} \/ Waits(c)'
  <2>1. loop[d.owner].conn \in Conn
    BY <1>5 DEF WellFormed, TypeOK, LoopShape, DispatchShape, DispatchCall
  <2> QED
    BY <1>3, <1>5, <2>1
<1>6. ASSUME NEW n \in Node, Crash(n)
      PROVE  channel'[c] \in {"open", "gone"} \/ Crash(NodeOf[LoopOf[c]])
  BY <1>6 DEF Crash
<1> QED
  BY <1>1, <1>2, <1>3, <1>4, <1>5, <1>6, ChannelWriters

\* What a loop does next: it starts on one of its own connections, goes on with
\* the connection it works on, comes to its end, or is at the removal.
LEMMA LoopMoves ==
    ASSUME WellFormed, QueueIsOwn, Next, NEW l \in Loop, loop'[l] # loop[l]
    PROVE  \/ loop[l].pc = "idle" /\ LoopOf[loop'[l].conn] = l
           \/ loop[l].pc \notin {"idle", "remove"} /\ loop'[l].conn = loop[l].conn
           \/ loop[l].pc # "remove" /\ loop'[l].pc = "idle"
           \/ DisconnectRemoves(l) /\ loop'[l].pc = "idle"
           \/ Crash(NodeOf[l]) /\ loop'[l].pc = "idle"
<1> USE TopologyAssumption
<1>0. /\ loop \in [Loop -> Handler] /\ Idle.pc = "idle"
  BY IdleType DEF WellFormed, TypeOK
<1>1. ASSUME NEW c \in Conn, NEW step, NEW u, NEW m, loop[LoopOf[c]].pc = "idle",
             loop' = [loop EXCEPT ![LoopOf[c]] = Doing(step, c, u, m)]
      PROVE  loop[l].pc = "idle" /\ LoopOf[loop'[l].conn] = l
  <2>1. l = LoopOf[c] /\ loop'[l] = Doing(step, c, u, m)
    BY <1>0, <1>1
  <2>2. Doing(step, c, u, m).conn = c
    BY DEF Doing
  <2> QED
    BY <1>1, <2>1, <2>2
<1>2. ASSUME Read,
             ~(loop[l].pc = "idle" /\ LoopOf[loop'[l].conn] = l)
      PROVE  FALSE
  <2>1. ASSUME NEW x \in Conn, NEW step, NEW u, NEW m, loop[LoopOf[x]].pc = "idle",
               loop' = [loop EXCEPT ![LoopOf[x]] = Doing(step, x, u, m)]
        PROVE  FALSE
    BY <1>1, <1>2, <2>1
  <2>2. ASSUME NEW x \in Conn, NEW u, ReadRegister(x, u)
        PROVE  FALSE
    BY <2>1, <2>2 DEF ReadRegister, ReadFrame
  <2>3. ASSUME NEW x \in Conn, NEW u, NEW to, NEW body, ReadChat(x, u, to, body)
        PROVE  FALSE
    <3>1. loop[LoopOf[x]].pc = "idle"
      BY <2>3 DEF ReadChat, ReadFrame
    <3>2. PICK m : loop' = [loop EXCEPT ![LoopOf[x]] = Doing("publish", x, None, m)]
      BY <2>3 DEF ReadChat
    <3> QED
      BY <2>1, <3>1, <3>2
  <2>4. ASSUME NEW x \in Conn, ReadMalformed(x) \/ ReadRefused(x)
        PROVE  FALSE
    BY <2>4 DEF ReadMalformed, ReadRefused
  <2>5. ASSUME NEW x \in Conn, ReaderIdle(x)
        PROVE  FALSE
    <3>1. loop[LoopOf[x]].pc = "idle"
      BY <2>5 DEF ReaderIdle
    <3>2. PICK u : loop' = [loop EXCEPT ![LoopOf[x]] = Doing("remove", x, u, None)]
      BY <2>5 DEF ReaderIdle, DisconnectFinds
    <3> QED
      BY <2>1, <3>1, <3>2
  <2> QED
    BY <1>2, <2>2, <2>3, <2>4, <2>5 DEF Read
<1>3. ASSUME NEW k \in Loop, Continue(k)
      PROVE  \/ loop[l].pc \notin {"idle", "remove"} /\ loop'[l].conn = loop[l].conn
             \/ loop[l].pc # "remove" /\ loop'[l].pc = "idle"
             \/ DisconnectRemoves(l) /\ loop'[l].pc = "idle"
  <2>1. CASE Publish(k) \/ ClearOfflineFlag(k) \/ InsertSendInfo(k)
    BY <1>0, <2>1 DEF Publish, ClearOfflineFlag, InsertSendInfo
  <2>2. CASE AckAndCheckFlag(k)
    BY <1>0, <2>2 DEF AckAndCheckFlag, Handler
  <2>3. CASE GetSendInfo(k) \/ PruneSent(k)
    BY <1>0, <2>3 DEF GetSendInfo, PruneSent, Goto, Handler
  <2>4. CASE FetchUnsent(k)
    BY <1>0, <2>4 DEF FetchUnsent, Handler
  <2>5. CASE DrainNext(k)
    BY <1>0, <2>5 DEF DrainNext, Handler
  <2>6. CASE DisconnectRemoves(k)
    BY <1>0, <2>6 DEF DisconnectRemoves
  <2> QED
    BY <1>3, <2>1, <2>2, <2>3, <2>4, <2>5, <2>6 DEF Continue
<1>4. ASSUME NEW k \in Loop, RunTask(k)
      PROVE  loop[l].pc = "idle" /\ LoopOf[loop'[l].conn] = l
  <2> DEFINE task == Head(queue[k])
  <2>1. loop[k].pc = "idle" /\ queue[k] # <<>>
    BY <1>4 DEF RunTask, RunNotice, RunChat, RunInactive, TakeTask
  <2>2. 1 \in 1 .. Len(queue[k]) /\ task = queue[k][1] /\ queue[k][1] \in Task
    BY <2>1 DEF WellFormed, TypeOK
  <2>3. LoopOf[task.conn] = k /\ task.conn \in Conn
    BY <2>2 DEF QueueIsOwn, Task
  <2> HIDE DEF task
  <2>4. CASE RunNotice(k) \/ UNCHANGED loop
    BY <2>4 DEF RunNotice
  <2>5. CASE RunChat(k)
    <3>1. loop' = [loop EXCEPT ![k] = Doing("record", task.conn, task.user, task.msg)]
      BY <2>5 DEF RunChat, task
    <3> QED
      BY <1>1, <2>1, <2>3, <3>1
  <2>6. ASSUME NEW u \in User, DisconnectFinds(k, task.conn, u)
        PROVE  loop[l].pc = "idle" /\ LoopOf[loop'[l].conn] = l
    BY <1>1, <2>1, <2>3, <2>6 DEF DisconnectFinds
  <2> QED
    BY <1>4, <2>4, <2>5, <2>6 DEF RunTask, RunInactive, task
<1>5. CASE Fail
  <2>1. ASSUME NEW k \in Loop, PublishFails(k) \/ RegisterFails(k) \/ RecordFails(k)
        PROVE  loop[l].pc # "remove" /\ loop'[l].pc = "idle"
    BY <1>0, <2>1 DEF PublishFails, RegisterFails, RecordFails
  <2>2. ASSUME NEW d \in dispatching, DispatchFails(d)
        PROVE  loop[l].pc # "remove" /\ loop'[l].pc = "idle"
    <3>1. d.owner # None => d.owner \in Loop /\ loop[d.owner].pc = "drain"
      BY DEF WellFormed, TypeOK, DispatchShape, DispatchCall
    <3> QED
      BY <1>0, <2>2, <3>1 DEF DispatchFails
  <2>3. ASSUME NEW n \in Node, Crash(n)
        PROVE  Crash(NodeOf[l]) /\ loop'[l].pc = "idle"
    BY <1>0, <2>3 DEF Crash
  <2>4. ASSUME NEW n \in Node, Restart(n)
        PROVE  FALSE
    BY <2>4 DEF Restart
  <2> QED
    BY <1>5, <2>1, <2>2, <2>3, <2>4 DEF Fail
<1>6. CASE Network \/ \E d \in dispatching : Dispatch(d)
  BY <1>6 DEF Network, Connect, PeerVanishes, EndOfStream,
     Dispatch, ReadGroup, ReadGroupFails, Lookup, Send, Store, StoreFlag
<1> QED
  BY <1>2, <1>3, <1>4, <1>5, <1>6 DEF Next

LEMMA LoopStaysOwn ==
    ASSUME WellFormed, LoopIsOwn, QueueIsOwn, Next
    PROVE  LoopIsOwn'
<1> SUFFICES ASSUME NEW l \in Loop, loop'[l].pc # "idle"
             PROVE  LoopOf[loop'[l].conn] = l
  BY DEF LoopIsOwn
<1> QED
  BY LoopMoves DEF LoopIsOwn

\* channelInactive finds the one entry of a connection that speaks for one user.
LEMMA InactiveRemoves ==
    ASSUME Living, SpeaksForOne, NEW n \in Node, NEW u \in User, NEW c \in Conn,
           onlineUserMap[n][u] = c, c # None,
           RunInactive(LoopOf[c]), Head(queue[LoopOf[c]]).conn = c
    PROVE  Removing(c, u)'
<1>1. NodeOf[LoopOf[c]] = n /\ u \in Matches(c)
  BY DEF Living, MapIsOwn, Matches
<1>2. PICK v \in User : DisconnectFinds(LoopOf[c], c, v)
  BY <1>1 DEF RunInactive
<1>3. onlineUserMap[NodeOf[LoopOf[c]]][v] = c
  BY <1>2 DEF DisconnectFinds, Matches
<1>4. NodeOf[LoopOf[c]] \in Node /\ LoopOf[c] \in Loop
  BY TopologyAssumption
<1>5. v \in Identities[c] /\ u \in Identities[c]
  BY <1>3, <1>4 DEF Living, MapIsOwn
<1>6. v = u
  BY <1>5 DEF SpeaksForOne
<1>7. loop' = [loop EXCEPT ![LoopOf[c]] = Doing("remove", c, u, None)]
  BY <1>2, <1>6 DEF DisconnectFinds
<1> QED
  BY <1>4, <1>7 DEF Removing, Doing, Living, WellFormed, TypeOK

\* An entry that stays in the map stays alive.
LEMMA EntryStaysLive ==
    ASSUME Living, SpeaksForOne, Next, NEW n \in Node, NEW u \in User, NEW c \in Conn,
           onlineUserMap[n][u] = c, onlineUserMap'[n][u] = c
    PROVE  EntryLives(u, c)'
<1> DEFINE l == LoopOf[c]
<1>0. /\ l \in Loop /\ NodeOf[l] = n /\ c # None
      /\ onlineUserMap \in [Node -> [User -> Conn \union {None}]]
      /\ EntryLives(u, c)
  <2>1. l \in Loop /\ c # None
    BY TopologyAssumption, NamesAssumption
  <2>2. NodeOf[l] = n /\ EntryLives(u, c)
    BY <2>1 DEF Living, MapIsOwn, EntriesLive
  <2> QED
    BY <2>1, <2>2 DEF Living, WellFormed, TypeOK
<1>1. ~Crash(n)
  BY <1>0 DEF Crash
<1>2. CASE channel[c] \in {"open", "gone"}
  BY <1>0, <1>1, <1>2, ClosedWaits DEF EntryLives, Living
<1>3. ASSUME NEW i \in 1 .. Len(queue[l]), queue[l][i].kind = "inactive", queue[l][i].conn = c
      PROVE  EntryLives(u, c)'
  <2>1. CASE Stay
    BY <1>0, <1>3, <2>1 DEF Stay, EntryLives, Waits
  <2>2. ASSUME NEW k \in Loop, RunTask(k)
        PROVE  EntryLives(u, c)'
    <3>1. CASE \E j \in 1 .. Len(queue'[l]) : queue'[l][j] = queue[l][i]
      BY <1>3, <3>1 DEF EntryLives, Waits
    <3>2. CASE k = l /\ i = 1
      <4>1. Head(queue[l]) = queue[l][i]
        BY <1>0, <1>3, <3>2 DEF Living, WellFormed, TypeOK
      <4>2. RunInactive(l)
        BY <1>3, <2>2, <3>2, <4>1 DEF RunTask, RunNotice, RunChat, TakeTask
      <4> QED
        BY <1>0, <1>3, <4>1, <4>2, InactiveRemoves DEF EntryLives
    <3> QED
      BY <1>0, <1>3, <2>2, <3>1, <3>2, OneTaken DEF Living
  <2>3. ASSUME NEW k \in Node, Crash(k)
        PROVE  EntryLives(u, c)'
    <3>1. queue'[l] = queue[l]
      BY <1>0, <1>1, <2>3 DEF Crash
    <3> QED
      BY <1>3, <3>1 DEF EntryLives, Waits
  <2> QED
    BY <2>1, <2>2, <2>3, TasksStay DEF Living
<1>4. CASE Removing(c, u)
  <2>1. ~DisconnectRemoves(l)
    <3>1. DisconnectRemoves(l) => onlineUserMap' = [onlineUserMap EXCEPT ![n][u] = None]
      BY <1>0, <1>4 DEF DisconnectRemoves, RemoveEntry, Removing
    <3> QED
      BY <1>0, <3>1
  <2>2. loop'[l] = loop[l]
    BY <1>0, <1>1, <1>4, <2>1, LoopMoves DEF Removing, Living
  <2> QED
    BY <1>4, <2>2 DEF EntryLives, Removing
<1> QED
  BY <1>0, <1>2, <1>3, <1>4 DEF EntryLives, Waits

LEMMA StepLives ==
    ASSUME Living, SpeaksForOne, Next
    PROVE  EntriesLive'
<1> SUFFICES ASSUME NEW n \in Node, NEW u \in User, NEW c \in Conn, onlineUserMap'[n][u] = c
             PROVE  EntryLives(u, c)'
  <2>1. onlineUserMap' \in [Node -> [User -> Conn \union {None}]]
    BY StepWellFormed DEF Living, WellFormed, TypeOK
  <2> QED
    BY <2>1 DEF EntriesLive, EntryLives
<1>1. CASE onlineUserMap[n][u] = c
  BY <1>1, EntryStaysLive
<1>2. CASE onlineUserMap[n][u] # c
  <2>0. onlineUserMap \in [Node -> [User -> Conn \union {None}]] /\ c # None
    BY NamesAssumption DEF Living, WellFormed, TypeOK
  <2>1. PICK x \in Conn : \E v \in Identities[x] : ReadRegister(x, v)
    <3>1. ASSUME NEW l \in Loop, DisconnectRemoves(l)
          PROVE  FALSE
      <4>1. NodeOf[l] \in Node /\ loop[l].user \in User
        BY <3>1, TopologyAssumption DEF DisconnectRemoves, Living, WellFormed, LoopShape
      <4> QED
        BY <1>2, <2>0, <3>1, <4>1 DEF DisconnectRemoves, RemoveEntry
    <3>2. ASSUME NEW k \in Node, Crash(k)
          PROVE  FALSE
      BY <1>2, <2>0, <3>2 DEF Crash
    <3> QED
      BY <1>2, <3>1, <3>2, MapWriters
  <2>2. x = c
    BY <1>2, <2>0, <2>1 DEF ReadRegister
  <2>3. channel'[c] = "open"
    BY <2>1, <2>2 DEF ReadRegister, ReadFrame
  <2> QED
    BY <2>3 DEF EntryLives
<1> QED
  BY <1>1, <1>2

LEMMA InitLives == Init => Living
  BY InitWellFormed DEF Init, Living, LoopIsOwn, QueueIsOwn, MapIsOwn, EntriesLive, Idle, Doing

LEMMA NextLives == SpeaksForOne /\ Living /\ [Next]_vars => Living'
<1> SUFFICES ASSUME SpeaksForOne, Living, [Next]_vars
             PROVE  Living'
  OBVIOUS
<1>1. WellFormed'
  BY StepWellFormed DEF Living
<1>2. CASE Next
  BY <1>1, <1>2, MapStaysOwn, LoopStaysOwn, QueueStaysOwn, StepLives DEF Living
<1>3. CASE UNCHANGED vars
  BY <1>1, <1>3 DEF vars, Living, LoopIsOwn, QueueIsOwn, MapIsOwn, EntriesLive, EntryLives,
     Waits, Removing
<1> QED
  BY <1>2, <1>3

\* If every client speaks for one user, an entry of the map never outlives its
\* connection for longer than the disconnection takes: no order of registrations,
\* idle timers, failed calls and queued channelInactive tasks leaves one behind
\* (connectionDisconnect, lines 140-155).
THEOREM NoEntryOutlives ==
    ASSUME SpeaksForOne
    PROVE  Spec => []MapIsLive
<1>1. Living => MapIsLive
  BY DEF Living, EntriesLive, EntryLives, Waits, Removing, MapIsLive
<1> QED
  BY <1>1, InitLives, NextLives, PTL DEF Spec
=============================================================================
