--------------------------- MODULE MessageService ---------------------------
(***************************************************************************)
(* The message path of the cluster: WebsocketServerHandler reads a frame on *)
(* the event loop of its connection, MessageServiceImpl registers the user  *)
(* or publishes the chat message to Redis, every node's RedisCustomListener *)
(* gets the message on a thread of its own, and handlerMessageSend queues a *)
(* frame for every recipient found in this node's onlineUserMap and stores  *)
(* an offline copy for every other one.  Registration drains the offline    *)
(* messages of the user on the event loop.                                  *)
(*                                                                          *)
(* A step ends where another thread can get in: at every Redis command, and *)
(* between a look at onlineUserMap and the use of what was found.           *)
(***************************************************************************)
EXTENDS MessageDao, Sequences

CONSTANTS
    Node,          \* the JVMs of the cluster
    Loop,          \* the worker event loops, one thread each
    NodeOf,        \* [Loop -> Node]
    Conn,          \* connections; each is opened once
    LoopOf,        \* [Conn -> Loop]: the loop the channel is registered with
    Group,         \* the groups Redis knows
    Members,       \* [Group -> SUBSET User]
    UnknownGroup,  \* a group id Redis does not know
    Body,          \* what a message says
    Identities,    \* [Conn -> SUBSET User]: the users a client speaks for
    Target,        \* input: where chat messages go
    FrameKind,     \* input: what clients send, of "register", "chat", "malformed", "refused"
    None,          \* no user, no context, no message
    FirstId,       \* the first message id
    MaxId,         \* bound: the last message id
    MaxFrames,     \* bound: the frames read
    MaxFaults,     \* bound: the failed calls of Redis
    MaxCrashes     \* bound: the crashes of nodes

ASSUME TopologyAssumption ==
    /\ NodeOf \in [Loop -> Node]
    /\ LoopOf \in [Conn -> Loop]
    /\ Members \in [Group -> SUBSET User]
    /\ Identities \in [Conn -> SUBSET User]
    /\ Target \subseteq User \union Group \union {UnknownGroup}

ASSUME NamesAssumption ==
    /\ User \intersect Group = {}
    /\ UnknownGroup \notin User \union Group
    /\ None \notin User \union Conn \union Loop

ASSUME BoundAssumption ==
    /\ {FirstId, MaxId, MaxFrames, MaxFaults, MaxCrashes} \subseteq Nat
    /\ FirstId >= Ulp /\ MaxId >= FirstId

VARIABLES
    channel,       \* channel[c]: "new", "open", "gone" (the peer left unnoticed), "closed"
    onlineUserMap, \* onlineUserMap[n][u]: the connection u is reached by, or None
    queue,         \* queue[l]: the tasks handed to event loop l
    loop,          \* loop[l]: the handler loop l is inside of
    dispatching,   \* the calls of handlerMessageSend under way
    lastId,        \* lastId[n]: the last id of the node's IdGenerator
    up,            \* up[n]: the node runs
    frames, faults, crashes,  \* counters for the bounds
    published,     \* history: messages Redis has broadcast
    handled,       \* history: <<n, m>>, a listener of n finished with m
    attempted,     \* history: <<u, m>>, a frame with m was written for u
    delivered,     \* history: <<c, u, m>>, a written frame reached the peer of c
    kept,          \* history: <<u, m>>, m was stored for u
    identity,      \* history: identity[c], the users c registered
    holder         \* history: holder[n][u], the connection that last registered u on n

netVars == <<channel, up>>
counters == <<frames, faults, crashes>>
history == <<published, handled, attempted, delivered, kept, identity, holder>>
vars == <<netVars, onlineUserMap, queue, loop, dispatching, lastId,
          redisVars, counters, history>>

-----------------------------------------------------------------------------
(* Messages, tasks, handlers and dispatches. *)

Message == [id : FirstId .. MaxId, node : Node, from : User, to : Target, body : Body]

\* Whom handlerMessageSend looks up for m: the user, or the members but the sender.
Recipients(m) ==
    IF m.to \in User THEN {m.to}
    ELSE IF m.to \in Group THEN Members[m.to] \ {m.from}
    ELSE {}

\* What sendMessage hands to the loop of a connection: a chat frame for a user,
\* or an acknowledgement or error notice for no user.
Chat(c, u, m) == [kind |-> "chat", conn |-> c, user |-> u, msg |-> m]
Notice(c) == [kind |-> "notice", conn |-> c, user |-> None, msg |-> None]
\* What Netty queues when a channel closes: the call of channelInactive.
Inactive(c) == [kind |-> "inactive", conn |-> c, user |-> None, msg |-> None]

\* The handler a loop is inside of: its next step, and what it works on.
Doing(step, c, u, m) ==
    [pc |-> step, conn |-> c, user |-> u, latest |-> 0, batch |-> {}, msg |-> m]
Idle == Doing("idle", None, None, None)
Goto(l, step) == loop' = [loop EXCEPT ![l].pc = step]

IsIdle(l) == loop[l].pc = "idle"
At(l, step) == loop[l].pc = step

\* Faulty: looks up every user instead of the recipients.
CallForEverybody(owner, n, m) ==
    [owner |-> owner, node |-> n, msg |-> m, pc |-> "next",
     todo |-> User, user |-> None, ctx |-> None]

\* A call of handlerMessageSend, by the loop that drains or by a listener thread.
Call(owner, n, m) ==
    [owner |-> owner, node |-> n, msg |-> m,
     pc |-> IF m.to \in User THEN "next" ELSE "group",
     todo |-> Recipients(m), user |-> None, ctx |-> None]

Enqueue(task) == queue' = [queue EXCEPT ![LoopOf[task.conn]] = Append(@, task)]

\* ctx.close(): the channel is closed at once, channelInactive follows as a task.
Close(c) ==
    /\ channel' = [channel EXCEPT ![c] = "closed"]
    /\ IF channel[c] = "closed" THEN UNCHANGED queue ELSE Enqueue(Inactive(c))

-----------------------------------------------------------------------------

Init ==
    /\ RedisInit
    /\ channel = [c \in Conn |-> "new"]
    /\ onlineUserMap = [n \in Node |-> [u \in User |-> None]]
    /\ queue = [l \in Loop |-> <<>>]
    /\ loop = [l \in Loop |-> Idle]
    /\ dispatching = {}
    /\ lastId = [n \in Node |-> FirstId - 1]
    /\ up = [n \in Node |-> TRUE]
    /\ frames = 0 /\ faults = 0 /\ crashes = 0
    /\ published = {} /\ handled = {} /\ attempted = {} /\ delivered = {} /\ kept = {}
    /\ identity = [c \in Conn |-> {}]
    /\ holder = [n \in Node |-> [u \in User |-> None]]

-----------------------------------------------------------------------------
(* The network. *)

\* A client connects and the WebSocket handshake completes.
Connect(c) ==
    /\ channel[c] = "new"
    /\ up[NodeOf[LoopOf[c]]]
    /\ channel' = [channel EXCEPT ![c] = "open"]
    /\ UNCHANGED <<up, onlineUserMap, queue, loop, dispatching, lastId, redisVars, counters, history>>

\* The peer leaves or its network does; the server has not noticed.
PeerVanishes(c) ==
    /\ channel[c] = "open"
    /\ channel' = [channel EXCEPT ![c] = "gone"]
    /\ UNCHANGED <<up, onlineUserMap, queue, loop, dispatching, lastId, redisVars, counters, history>>

\* The loop reads the end of the stream and Netty closes the channel.
EndOfStream(c) ==
    /\ channel[c] = "gone"
    /\ IsIdle(LoopOf[c])
    /\ Close(c)
    /\ UNCHANGED <<up, onlineUserMap, loop, dispatching, lastId, redisVars, counters, history>>

-----------------------------------------------------------------------------
(* WebsocketServerHandler.channelRead0, on the loop of the connection. *)

ReadFrame(kind, c) ==
    /\ kind \in FrameKind
    /\ channel[c] = "open"
    /\ IsIdle(LoopOf[c])
    /\ frames < MaxFrames
    /\ frames' = frames + 1

\* REGISTER: the put of register, line 64.
ReadRegister(c, u) ==
    LET n == NodeOf[LoopOf[c]]
    IN  /\ ReadFrame("register", c)
        /\ onlineUserMap' = [onlineUserMap EXCEPT ![n][u] = c]
        /\ loop' = [loop EXCEPT ![LoopOf[c]] = Doing("check", c, u, None)]
        /\ identity' = [identity EXCEPT ![c] = @ \union {u}]
        /\ holder' = [holder EXCEPT ![n][u] = c]
        /\ UNCHANGED <<netVars, queue, dispatching, lastId, redisVars, faults, crashes,
                       published, handled, attempted, delivered, kept>>

\* A chat frame gets its id; publishing is the next step, and other loops of
\* the node may publish later ids first.
ReadChat(c, u, to, body) ==
    LET n == NodeOf[LoopOf[c]]
    IN  /\ ReadFrame("chat", c)
        /\ \E id \in lastId[n] + 1 .. MaxId :
              /\ lastId' = [lastId EXCEPT ![n] = id]
              /\ loop' = [loop EXCEPT ![LoopOf[c]] = Doing("publish", c, None,
                     [id |-> id, node |-> n, from |-> u, to |-> to, body |-> body])]
        /\ UNCHANGED <<netVars, onlineUserMap, queue, dispatching, redisVars, faults, crashes, history>>

\* Text that is no JSON: lines 102 and 105 each queue a notice.  The text "null"
\* gets one.
ReadMalformed(c) ==
    /\ ReadFrame("malformed", c)
    /\ \E new \in {<<Notice(c)>>, <<Notice(c), Notice(c)>>} :
          queue' = [queue EXCEPT ![LoopOf[c]] = @ \o new]
    /\ UNCHANGED <<netVars, onlineUserMap, loop, dispatching, lastId, redisVars, faults, crashes, history>>

\* A frame whose handler throws: a binary one (after its notice was queued), or
\* a message without a type or a REGISTER without a user.  exceptionCaught closes.
ReadRefused(c) ==
    LET l == LoopOf[c]
    IN  /\ ReadFrame("refused", c)
        /\ \E new \in {<<Inactive(c)>>, <<Notice(c), Inactive(c)>>} :
              queue' = [queue EXCEPT ![l] = @ \o new]
        /\ channel' = [channel EXCEPT ![c] = "closed"]
        /\ UNCHANGED <<up, onlineUserMap, loop, dispatching, lastId, redisVars, faults, crashes, history>>

\* READER_IDLE and channelInactive both end in connectionDisconnect.  The scan
\* finds one entry of the connection, if there is any, and closes the channel.
Matches(c) == {u \in User : onlineUserMap[NodeOf[LoopOf[c]]][u] = c}

DisconnectFinds(l, c, u) ==
    /\ u \in Matches(c)
    /\ loop' = [loop EXCEPT ![l] = Doing("remove", c, u, None)]

ReaderIdle(c) ==
    /\ channel[c] \in {"open", "gone"}
    /\ IsIdle(LoopOf[c])
    /\ \E u \in User : DisconnectFinds(LoopOf[c], c, u)
    /\ Close(c)
    /\ UNCHANGED <<up, onlineUserMap, dispatching, lastId, redisVars, counters, history>>

\* Faulty: the entry stays.
KeepEntry(n, u) == UNCHANGED onlineUserMap

\* iterator.remove(), line 146: removes the key, whatever value it has by now.
RemoveEntry(n, u) == onlineUserMap' = [onlineUserMap EXCEPT ![n][u] = None]

DisconnectRemoves(l) ==
    /\ At(l, "remove")
    /\ RemoveEntry(NodeOf[l], loop[l].user)
    /\ loop' = [loop EXCEPT ![l] = Idle]
    /\ UNCHANGED <<netVars, queue, dispatching, lastId, redisVars, counters, history>>

-----------------------------------------------------------------------------
(* publishChatMessage and the listener containers. *)

\* Redis pushes the message to every node that is up; each container starts a
\* thread for it.
Broadcast(m) ==
    /\ published' = published \union {m}
    /\ dispatching' = dispatching \union {Call(None, n, m) : n \in {k \in Node : up[k]}}

Publish(l) ==
    /\ At(l, "publish")
    /\ Broadcast(loop[l].msg)
    /\ loop' = [loop EXCEPT ![l] = Idle]
    /\ UNCHANGED <<netVars, onlineUserMap, queue, lastId, redisVars, counters,
                   handled, attempted, delivered, kept, identity, holder>>

\* The call throws, before Redis saw the message or after (a timeout): the
\* sender gets a notice either way.
PublishFails(l) ==
    /\ At(l, "publish")
    /\ faults < MaxFaults
    /\ faults' = faults + 1
    /\ Broadcast(loop[l].msg) \/ UNCHANGED <<published, dispatching>>
    /\ Enqueue(Notice(loop[l].conn))
    /\ loop' = [loop EXCEPT ![l] = Idle]
    /\ UNCHANGED <<netVars, onlineUserMap, lastId, redisVars, frames, crashes,
                   handled, attempted, delivered, kept, identity, holder>>

-----------------------------------------------------------------------------
(* register after the put: the acknowledgement and checkAndSendOfflineMessage. *)

\* Lines 67 and 204: queue the acknowledgement, read the flag.
AckAndCheckFlag(l) ==
    /\ At(l, "check")
    /\ Enqueue(Notice(loop[l].conn))
    /\ loop' = [loop EXCEPT ![l] =
                  IF flag[loop[l].user] THEN [@ EXCEPT !.pc = "latest"] ELSE Idle]
    /\ UNCHANGED <<netVars, onlineUserMap, dispatching, lastId, redisVars, counters, history>>

GetSendInfo(l) ==
    /\ At(l, "latest")
    /\ loop' = [loop EXCEPT ![l].pc = "prune", ![l].latest = record[loop[l].user]]
    /\ UNCHANGED <<netVars, onlineUserMap, queue, dispatching, lastId, redisVars, counters, history>>

PruneSent(l) ==
    /\ At(l, "prune")
    /\ RemoveUpTo(loop[l].user, loop[l].latest)
    /\ Goto(l, "fetch")
    /\ UNCHANGED <<netVars, onlineUserMap, queue, dispatching, lastId, flag, record, counters, history>>

FetchUnsent(l) ==
    /\ At(l, "fetch")
    /\ \E batch \in Deduplicated(FromLatest(loop[l].user, loop[l].latest)) :
          loop' = [loop EXCEPT ![l].pc = "drain", ![l].batch = batch]
    /\ UNCHANGED <<netVars, onlineUserMap, queue, dispatching, lastId, redisVars, counters, history>>

Dispatches(l) == {d \in dispatching : d.owner = l}

\* forEach(this::handlerMessageSend): the next message, by its place in the set.
DrainNext(l) ==
    /\ At(l, "drain")
    /\ Dispatches(l) = {}
    /\ \E m \in loop[l].batch :
          /\ \A k \in loop[l].batch : m.id <= k.id
          /\ loop' = [loop EXCEPT ![l].batch = @ \ {m}]
          /\ dispatching' = dispatching \union {Call(l, NodeOf[l], m)}
    /\ UNCHANGED <<netVars, onlineUserMap, queue, lastId, redisVars, counters, history>>

\* Faulty: the drain ends only when the offline set is empty.
ClearFlagWhenEmpty(l) ==
    /\ At(l, "drain")
    /\ Dispatches(l) = {} /\ loop[l].batch = {} /\ zset[loop[l].user] = {}
    /\ LowerFlag(loop[l].user)
    /\ loop' = [loop EXCEPT ![l] = Idle]
    /\ UNCHANGED <<netVars, onlineUserMap, queue, dispatching, lastId, zset, record, counters, history>>

ClearOfflineFlag(l) ==
    /\ At(l, "drain")
    /\ Dispatches(l) = {} /\ loop[l].batch = {}
    /\ LowerFlag(loop[l].user)
    /\ loop' = [loop EXCEPT ![l] = Idle]
    /\ UNCHANGED <<netVars, onlineUserMap, queue, dispatching, lastId, zset, record, counters, history>>

-----------------------------------------------------------------------------
(* handlerMessageSend: sendOne and sendGroup. *)

Becomes(d, e) == dispatching' = (dispatching \ {d}) \union {e}

\* The call is done with d.user: the next recipient, or the end of the call.
Proceed(d) ==
    IF d.todo = {}
    THEN /\ dispatching' = dispatching \ {d}
         /\ handled' = IF d.owner = None THEN handled \union {<<d.node, d.msg>>} ELSE handled
    ELSE /\ Becomes(d, [d EXCEPT !.pc = "next", !.user = None, !.ctx = None])
         /\ UNCHANGED handled

\* sendGroup, line 110: the members of the group are read from Redis.
ReadGroup(d) ==
    /\ d.pc = "group" /\ d.msg.to \in Group
    /\ Proceed(d)
    /\ UNCHANGED <<netVars, onlineUserMap, queue, loop, lastId, redisVars, counters,
                   published, attempted, delivered, kept, identity, holder>>

\* GroupServiceImpl line 36 dereferences the missing group and the listener
\* swallows the exception; sendGroup's own check is never reached.
ReadGroupFails(d) ==
    /\ d.pc = "group" /\ d.msg.to \notin Group
    /\ dispatching' = dispatching \ {d}
    /\ UNCHANGED <<netVars, onlineUserMap, queue, loop, lastId, redisVars, counters, history>>

\* onlineUserMap.get, lines 91 and 118.
Lookup(d, u) ==
    LET ctx == onlineUserMap[d.node][u]
    IN  /\ d.pc = "next"
        /\ u \in d.todo
        /\ Becomes(d, [d EXCEPT !.pc = IF ctx = None THEN "store" ELSE "send",
                                !.todo = @ \ {u}, !.user = u, !.ctx = ctx])
        /\ UNCHANGED <<netVars, onlineUserMap, queue, loop, lastId, redisVars, counters, history>>

\* Faulty: waits for a connection whose peer is there.
SendWhenOpen(d) ==
    /\ d.pc = "send" /\ channel[d.ctx] = "open"
    /\ Enqueue(Chat(d.ctx, d.user, d.msg))
    /\ Proceed(d)
    /\ UNCHANGED <<netVars, onlineUserMap, loop, lastId, redisVars, counters,
                   published, attempted, delivered, kept, identity, holder>>

\* sendMessage, lines 97 and 127: the frame is queued on the loop of the context
\* that was found.
Send(d) ==
    /\ d.pc = "send"
    /\ Enqueue(Chat(d.ctx, d.user, d.msg))
    /\ Proceed(d)
    /\ UNCHANGED <<netVars, onlineUserMap, loop, lastId, redisVars, counters,
                   published, attempted, delivered, kept, identity, holder>>

\* offlineMessageDao.insert, lines 94 and 124: two commands.
Store(d) ==
    /\ d.pc = "store"
    /\ ZAdd(d.user, d.msg)
    /\ kept' = kept \union {<<d.user, d.msg>>}
    /\ Becomes(d, [d EXCEPT !.pc = "flag"])
    /\ UNCHANGED <<netVars, onlineUserMap, queue, loop, lastId, flag, record, counters,
                   published, handled, attempted, delivered, identity, holder>>

StoreFlag(d) ==
    /\ d.pc = "flag"
    /\ RaiseFlag(d.user)
    /\ Proceed(d)
    /\ UNCHANGED <<netVars, onlineUserMap, queue, loop, lastId, zset, record, counters,
                   published, attempted, delivered, kept, identity, holder>>

-----------------------------------------------------------------------------
(* The tasks of an event loop. *)

TakeTask(l, kind) ==
    /\ IsIdle(l)
    /\ queue[l] # <<>>
    /\ Head(queue[l]).kind = kind
    /\ queue' = [queue EXCEPT ![l] = Tail(@)]

\* An acknowledgement or error notice is written; nothing else follows.
RunNotice(l) ==
    /\ TakeTask(l, "notice")
    /\ UNCHANGED <<netVars, onlineUserMap, loop, dispatching, lastId, redisVars, counters, history>>

\* Faulty: drops the frame of a connection that is not open.
RunChatIfOpen(l) ==
    LET task == Head(queue[l])
    IN  /\ TakeTask(l, "chat")
        /\ IF channel[task.conn] = "open"
           THEN /\ attempted' = attempted \union {<<task.user, task.msg>>}
                /\ delivered' = delivered \union {<<task.conn, task.user, task.msg>>}
                /\ loop' = [loop EXCEPT ![l] = Doing("record", task.conn, task.user, task.msg)]
           ELSE UNCHANGED <<attempted, delivered, loop>>
        /\ UNCHANGED <<netVars, onlineUserMap, dispatching, lastId, redisVars, counters,
                       published, handled, kept, identity, holder>>

\* sendMessage's task, line 177: the result of writeAndFlush is not looked at.
RunChat(l) ==
    LET task == Head(queue[l])
    IN  /\ TakeTask(l, "chat")
        /\ attempted' = attempted \union {<<task.user, task.msg>>}
        /\ delivered' = IF channel[task.conn] = "open"
                        THEN delivered \union {<<task.conn, task.user, task.msg>>}
                        ELSE delivered
        /\ loop' = [loop EXCEPT ![l] = Doing("record", task.conn, task.user, task.msg)]
        /\ UNCHANGED <<netVars, onlineUserMap, dispatching, lastId, redisVars, counters,
                       published, handled, kept, identity, holder>>

\* Line 179: whether or not the frame was sent, the user's record is its id.
InsertSendInfo(l) ==
    /\ At(l, "record")
    /\ PutRecord(loop[l].user, loop[l].msg.id)
    /\ loop' = [loop EXCEPT ![l] = Idle]
    /\ UNCHANGED <<netVars, onlineUserMap, queue, dispatching, lastId, zset, flag, counters, history>>

\* channelInactive.
RunInactive(l) ==
    LET c == Head(queue[l]).conn
    IN  /\ TakeTask(l, "inactive")
        /\ \/ \E u \in User : DisconnectFinds(l, c, u)
           \/ Matches(c) = {} /\ UNCHANGED loop
        /\ UNCHANGED <<netVars, onlineUserMap, dispatching, lastId, redisVars, counters, history>>

-----------------------------------------------------------------------------
(* Failures. *)

\* A Redis call made by register throws: exceptionCaught closes the channel.
RegisterFails(l) ==
    /\ loop[l].pc \in {"check", "latest", "prune", "fetch"}
          \/ (At(l, "drain") /\ Dispatches(l) = {} /\ loop[l].batch = {})
    /\ faults < MaxFaults
    /\ faults' = faults + 1
    /\ channel' = [channel EXCEPT ![loop[l].conn] = "closed"]
    /\ LET c   == loop[l].conn
           new == IF At(l, "check") THEN <<Notice(c), Inactive(c)>> ELSE <<Inactive(c)>>
       IN  queue' = [queue EXCEPT ![l] = @ \o new]
    /\ loop' = [loop EXCEPT ![l] = Idle]
    /\ UNCHANGED <<up, onlineUserMap, dispatching, lastId, redisVars, frames, crashes, history>>

\* A Redis call made by handlerMessageSend throws.  A listener thread logs it
\* and gives the message up; a drain ends, and its channel is closed.
DispatchFails(d) ==
    /\ d.pc \in {"group", "store", "flag"}
    /\ faults < MaxFaults
    /\ faults' = faults + 1
    /\ dispatching' = dispatching \ {d}
    /\ IF d.owner = None
       THEN UNCHANGED <<channel, queue, loop>>
       ELSE /\ Close(loop[d.owner].conn)
            /\ loop' = [loop EXCEPT ![d.owner] = Idle]
    /\ UNCHANGED <<up, onlineUserMap, lastId, redisVars, frames, crashes, history>>

\* insertSendInfo throws: Netty logs it, the record keeps its value.
RecordFails(l) ==
    /\ At(l, "record")
    /\ faults < MaxFaults
    /\ faults' = faults + 1
    /\ loop' = [loop EXCEPT ![l] = Idle]
    /\ UNCHANGED <<netVars, onlineUserMap, queue, dispatching, lastId, redisVars, frames, crashes, history>>

\* The JVM of n dies: its connections, its map, its queues and its threads go.
Crash(n) ==
    /\ up[n]
    /\ crashes < MaxCrashes
    /\ crashes' = crashes + 1
    /\ up' = [up EXCEPT ![n] = FALSE]
    /\ channel' = [c \in Conn |->
          IF NodeOf[LoopOf[c]] = n /\ channel[c] # "new" THEN "closed" ELSE channel[c]]
    /\ onlineUserMap' = [onlineUserMap EXCEPT ![n] = [u \in User |-> None]]
    /\ queue' = [l \in Loop |-> IF NodeOf[l] = n THEN <<>> ELSE queue[l]]
    /\ loop' = [l \in Loop |-> IF NodeOf[l] = n THEN Idle ELSE loop[l]]
    /\ dispatching' = {d \in dispatching : d.node # n}
    /\ handled' = {h \in handled : h[1] # n}
    /\ holder' = [holder EXCEPT ![n] = [u \in User |-> None]]
    /\ UNCHANGED <<lastId, redisVars, frames, faults, published, attempted, delivered, kept, identity>>

\* A new JVM in its place.  Its IdGenerator starts from the clock, which is
\* past the ids of the old one.
Restart(n) ==
    /\ ~up[n]
    /\ up' = [up EXCEPT ![n] = TRUE]
    /\ UNCHANGED <<channel, onlineUserMap, queue, loop, dispatching, lastId, redisVars, counters, history>>

-----------------------------------------------------------------------------

Network ==
    \E c \in Conn : Connect(c) \/ PeerVanishes(c) \/ EndOfStream(c)

Read ==
    \E c \in Conn :
        \/ \E u \in Identities[c] : ReadRegister(c, u)
        \/ \E u \in Identities[c], to \in Target, body \in Body : ReadChat(c, u, to, body)
        \/ ReadMalformed(c)
        \/ ReadRefused(c)
        \/ ReaderIdle(c)

\* What loop l does once it is inside a handler.
Continue(l) ==
    \/ Publish(l)
    \/ AckAndCheckFlag(l)
    \/ GetSendInfo(l)
    \/ PruneSent(l)
    \/ FetchUnsent(l)
    \/ DrainNext(l)
    \/ ClearOfflineFlag(l)
    \/ InsertSendInfo(l)
    \/ DisconnectRemoves(l)

RunTask(l) == RunNotice(l) \/ RunChat(l) \/ RunInactive(l)

Dispatch(d) ==
    \/ ReadGroup(d)
    \/ ReadGroupFails(d)
    \/ \E u \in d.todo : Lookup(d, u)
    \/ Send(d)
    \/ Store(d)
    \/ StoreFlag(d)

Fail ==
    \/ \E l \in Loop : PublishFails(l) \/ RegisterFails(l) \/ RecordFails(l)
    \/ \E d \in dispatching : DispatchFails(d)
    \/ \E n \in Node : Crash(n) \/ Restart(n)

Next ==
    \/ Network
    \/ Read
    \/ \E l \in Loop : Continue(l) \/ RunTask(l)
    \/ \E d \in dispatching : Dispatch(d)
    \/ Fail

Spec == Init /\ [][Next]_vars

\* An event loop that is inside a handler goes on, and NioEventLoop runs its
\* tasks in every round, however much there is to read; the JVM schedules the
\* listener threads.  Nobody has to send, to leave or to come back.
Fairness ==
    /\ \A l \in Loop : WF_vars(Continue(l)) /\ SF_vars(RunTask(l))
    /\ WF_vars(\E d \in dispatching : Dispatch(d))

FairSpec == Spec /\ Fairness

-----------------------------------------------------------------------------
(* Properties. *)

Task == [kind : {"chat", "notice", "inactive"}, conn : Conn,
         user : User \union {None}, msg : Message \union {None}]

Handler == [pc : {"idle", "publish", "check", "latest", "prune", "fetch", "drain",
                  "record", "remove"},
            conn : Conn \union {None}, user : User \union {None},
            latest : 0 .. MaxId, batch : SUBSET Message, msg : Message \union {None}]

DispatchCall == [owner : Loop \union {None}, node : Node, msg : Message,
                 pc : {"group", "next", "send", "store", "flag"},
                 todo : SUBSET User, user : User \union {None}, ctx : Conn \union {None}]

\* Types of the variables.
TypeOK ==
    /\ channel \in [Conn -> {"new", "open", "gone", "closed"}]
    /\ onlineUserMap \in [Node -> [User -> Conn \union {None}]]
    /\ queue \in [Loop -> Seq(Task)]
    /\ loop \in [Loop -> Handler]
    /\ dispatching \in SUBSET DispatchCall
    /\ zset \in [User -> SUBSET Message]
    /\ flag \in [User -> BOOLEAN]
    /\ record \in [User -> 0 .. MaxId]
    /\ lastId \in [Node -> FirstId - 1 .. MaxId]
    /\ up \in [Node -> BOOLEAN]
    /\ frames \in 0 .. MaxFrames /\ faults \in 0 .. MaxFaults /\ crashes \in 0 .. MaxCrashes
    /\ published \in SUBSET Message
    /\ handled \in SUBSET (Node \X Message)
    /\ attempted \in SUBSET (User \X Message)
    /\ delivered \in SUBSET (Conn \X User \X Message)
    /\ kept \in SUBSET (User \X Message)
    /\ identity \in [Conn -> SUBSET User]
    /\ holder \in [Node -> [User -> Conn \union {None}]]

Queued(l, u, m) ==
    \E i \in 1 .. Len(queue[l]) :
        queue[l][i].kind = "chat" /\ queue[l][i].user = u /\ queue[l][i].msg = m

\* A frame reaches the peer of a connection only if it carries a message some
\* client published, to a recipient of the message, over a connection that
\* registered this recipient: through the look at the map, the use of what was
\* found there, the queue and the drain (sendOne, sendGroup, sendMessage).
DeliveredToRecipient ==
    \A x \in delivered :
        /\ x[3] \in published
        /\ x[2] \in Recipients(x[3])
        /\ x[2] \in identity[x[1]]

\* When a listener has finished with a message, every recipient has been
\* written to, waits in a queue of this node, or has an offline copy: no
\* interleaving of registrations and disconnections makes sendOne or sendGroup
\* pass over somebody.
Accounted ==
    \A h \in handled : \A u \in Recipients(h[2]) :
        \/ <<u, h[2]>> \in attempted \union kept
        \/ \E l \in Loop : NodeOf[l] = h[1] /\ Queued(l, u, h[2])

\* getOfflineMessage deletes an offline message only up to the score of one for
\* which a frame to the same user was written.
PrunedBelowSent ==
    \A x \in kept :
        \/ x[2] \in zset[x[1]]
        \/ \E y \in attempted : y[1] = x[1] /\ Score(y[2].id) >= Score(x[2].id)

\* A connection in onlineUserMap is one whose disconnection is not over yet:
\* it is open, or its channelInactive waits in the queue, or its loop is
\* between the match and the removal (Constant, line 55: contexts of online
\* clients).
MapIsLive ==
    \A n \in Node, u \in User :
        LET c == onlineUserMap[n][u]
        IN  c # None =>
            \/ channel[c] \in {"open", "gone"}
            \/ \E i \in 1 .. Len(queue[LoopOf[c]]) :
                  queue[LoopOf[c]][i].kind = "inactive" /\ queue[LoopOf[c]][i].conn = c
            \/ loop[LoopOf[c]].pc = "remove" /\ loop[LoopOf[c]].conn = c

\* The connection that registered a user last is found in the map as long as it
\* is open (Constant, line 55).
OnlineIsListed ==
    \A n \in Node, u \in User :
        LET c == holder[n][u]
        IN  c # None /\ channel[c] = "open" => onlineUserMap[n][u] = c

\* No registration or insertion for u is under way.
Settled(u) ==
    /\ \A l \in Loop : loop[l].user = u => loop[l].pc \in {"idle", "record", "remove"}
    /\ \A d \in dispatching : u \notin d.todo /\ d.user # u

\* checkOfflineMessage tells whether there are offline messages to send
\* (OfflineMessageDao, line 27): without the flag every stored message has been
\* written to the user or is about to be.
FlagTellsUnsent ==
    \A u \in User : Settled(u) /\ ~flag[u] =>
        \A m \in zset[u] : <<u, m>> \in attempted \/ \E l \in Loop : Queued(l, u, m)

\* A drain sends the offline messages to the user who registered
\* (MessageServiceImpl, line 199).
DrainGoesToUser ==
    \A d \in dispatching :
        d.owner # None => d.todo \subseteq {loop[d.owner].user}

\* An offline message is deleted only after a frame with it was written: a user
\* who registers gets what was not sent (MessageServiceImpl, line 70).
PruneOnlySent ==
    \A x \in kept : x[2] \in zset[x[1]] \/ x \in attempted

\* The service implements the promise of MessageDelivery: the mailboxes are the
\* offline sets, and the place of a message in them is its score.
Delivery == INSTANCE MessageDelivery WITH
    mailbox <- zset,
    For <- [m \in Message |-> Recipients(m)],
    Rank <- [m \in Message |-> Score(m.id)]

ImplementsDelivery == Delivery!Spec

\* Whoever a node is still to look up, write to or store a message for is dealt
\* with: every call of handlerMessageSend ends (RedisCustomListener, line 35).
PublishedIsHandled ==
    \A n \in Node : (\E d \in dispatching : d.node = n /\ d.owner = None)
                        ~> (\A d \in dispatching : d.node # n \/ d.owner # None)

\* A loop that entered a handler comes back to its other connections: a drain
\* ends although its own messages may be stored again while it runs
\* (checkAndSendOfflineMessage, lines 208-211).
LoopReturns == \A l \in Loop : ~IsIdle(l) ~> IsIdle(l)

\* A closed connection leaves the map, and nothing puts it back.
ClosedIsForgotten ==
    \A c \in Conn : channel[c] = "closed" ~> [](\A n \in Node, u \in User : onlineUserMap[n][u] # c)

=============================================================================
