# A verification project for springboot-netty-im

springboot-netty-im is a chat server: browsers speak JSON over WebSocket to a
Netty server inside a Spring Boot application, several such nodes share one
Redis, messages go to a user or to a group, and who is not connected gets the
messages later. This directory holds TLA+ modules of the parts where threads,
nodes and failures meet, TLC configurations that check them on small instances,
and proofs that TLAPS checks for all sizes. On the browser's side it covers both
chat pages, the message table they share, and those parts of the Vue library in
the repository that decide what the page shows.

Source paths are shortened: `LIB` is
`netty-im-websocket/src/main/java/com/github/baymin/im/websocket`, `SRV` is
`netty-im-websocket-server/src/main/java/com/github/baymin/im/websocketserver`,
`RES` is `netty-im-websocket-server/src/main/resources`.
The line numbers of every definition are in `PROJECT.json` under `map`.

## 1. Inventory

### Components, their state and their operations

| Component | State | Operations |
|---|---|---|
| `IdGenerator` (`LIB/util`) | `lastTimestamp`, `sequence`, per node; the monitor of `nextId` | `nextId`, `tilNextMillis` |
| `WebsocketServerHandler` (`LIB/netty`) | none; one instance for all channels | read a frame, reader idle, inactive, exception |
| `MessageServiceImpl` (`SRV/service/impl`) | `Constant.onlineUserMap`, per node | `register`, `handlerMessageSend` (`sendOne`, `sendGroup`), `sendMessage`, `publishChatMessage`, `connectionDisconnect`, `caughtException` |
| `OfflineMessageDaoImpl`, `OnlineMessageDaoImpl` | in Redis, shared: a sorted set of messages per user, a flag per user, the last id sent per user | `insert`, `clearOfflineFlag`, `checkOfflineMessage`, `getOfflineMessage`, `insertSendInfo`, `getSendInfo` |
| `RedisCustomListener`, `RedisConfig` | the subscription of each node; a new thread per message | `onMessage` |
| `WebsocketServer`, `WebsocketChannelInitializer` | channels, event loops and their task queues (Netty) | accept, run tasks, close |
| `GroupServiceImpl`, `GroupInfoDaoImpl` | groups and members in Redis, written at start-up | `getByGroupId`, `loadGroupInfo` |
| Start-up (`WebsocketConfig`, `ApplicationEventListener`) | the port, the loaded data, the subscription | beans in order, ready event |
| Chat client (`chatroom-vue.html`, `SentMessageMap.js`) | the socket, the windows, the messages shown | connect, register, receive, send |
| Old chat client (`RES/templates/chatroom.html`, `RES/static/js/chatroom.js`) | the socket, the list of entries with badges and handlers, the window, the hidden inputs, the upload dialog | connect, register, receive, open, send, upload |
| Message table (`SentMessageMap`, in a file of its own and again in `chatroom.js`) | an array of key-value elements | put, get, remove, list keys and values |
| Vue (`RES/static/js/common/vue.js`) | deps and watchers, the queue, the rendered tree and the document, the transitions and listeners of elements, the cache of keep-alive | read, write, flush; compile; patch; enter, leave; dispatch; activate, deactivate, destroy |
| Message box (`chatroom-vue.html`, line 126) | the draft, in the data and in the text area | type, compose, send, render |
| Login, user data, file upload (`SRV/controller`, `SRV/service/impl`) | HTTP session, files on disk | one HTTP request each |
| Consul registry, `HttpChannelHandler` | switched off or unreachable | none |

### How they interact

1. A frame is read on the event loop of its connection. `REGISTER` puts the
   connection into `onlineUserMap`, queues an acknowledgement, and, when the
   user's flag is set, drains the offline messages on that same loop: read the
   record, delete what lies up to it, fetch the rest, call `handlerMessageSend`
   for each, clear the flag.
2. A chat frame gets an id from the node's generator and is published to Redis.
3. Redis pushes it to every node, the sender's included. On each node a new
   thread runs `handlerMessageSend`: for every recipient, look into this node's
   `onlineUserMap`; if there is a connection, queue a frame on its event loop,
   otherwise store an offline copy and raise the flag.
4. The event loop writes the frame, whether or not the channel is still open,
   and overwrites the user's record with the id of the message.
5. A connection that idles or ends is searched in the map by value and removed
   by key, on its own event loop.

6. In the browser a callback of the page changes its data. Setters notify
   watchers, which queue themselves; a microtask flushes the queue; the watcher
   of the component runs the render function that the compiler made of the
   template and patches the document. Patching calls the modules for
   transitions, listeners and properties, which leave frames, timers and
   listeners behind that later patches meet.

So the map is shared by event loops and listener threads, the queues connect
listener threads to event loops, and Redis connects nodes, a command at a time.

### What is hard here

* No lock spans two steps: between a look at the map and its use, between two
  Redis commands, between the match and the removal in `connectionDisconnect`,
  other threads and nodes run.
* Nothing orders messages: ids are taken before publishing, listener threads
  are many, nodes have clocks of their own, yet the record and the pruning of
  the offline set treat the id as "everything before was sent".
* Scores are doubles and ids have 60 bits.
* Redis calls fail or time out after taking effect; nodes crash with messages
  in hand; the peer of an open connection may be gone.
* `tilNextMillis` spins inside a monitor.
* In the browser nothing runs in parallel, but much overlaps: callbacks write
  while the queue is flushed, elements leave while the list around them is
  patched again, a transition is turned round before it ended, an event climbs
  while its page is patched, an input method composes while the value is
  rendered, and the old page moves entries of its list by copying their text.

### What makes each component correct

* `IdGenerator`: ids of a node rise; ids of two nodes differ; the spinning
  thread is alone inside `nextId`; the spin ends.
* Message path: a frame reaches only recipients, over connections that
  registered them; when a node has finished with a message no recipient was
  passed over; offline messages leave the set only when the record allows it;
  the map holds live connections only; dispatches and handlers end.
* DAOs: what `getOfflineMessage` deletes and returns lies where the last id
  sent says.
* Start-up: no frame is read before the node can serve it.
* Client: a conversation is a log that only grows, a received message is in the
  log of its conversation and no other, what is sent is shown where it is sent;
  every socket that stays open is registered.

* Vue: at rest nothing shown is stale, and rest is reached; the document shows
  the tree, and hooks run once; the compiler loses nothing and what it renders
  is what the template means; transitions do not overlap and end where the
  condition says; handlers hear their events; a kept instance knows whether it
  is on the screen.
* Message box: what was typed is in the text area or was sent, once.

`PROJECT.json` lists under `hazards` where this code can go wrong, each at its
line, with the properties that watch it.

## 2. Modules

| Module | What it is |
|---|---|
| `IdGenerator` | the generators of the cluster, their threads and clocks |
| `MCIdGenerator`, `IdGeneratorProofs` | small instances; proofs |
| `MessageDao` | the Redis state and one operator per Redis command of the DAOs |
| `MessageService` | the message path of the whole cluster: connections, event loops, map, listeners, dispatch, faults; EXTENDS `MessageDao` |
| `MessageDelivery` | the abstract specification: what the path promises |
| `MCMessageService` | small instances |
| `MessageServiceProofs` | type correctness of `MessageService`, routing, pruning and the refinement; nobody is passed over, no entry of the map outlives its connection |
| `ChatClient` | the chat page of one browser tab |
| `OldChatClient` | the old chat page of one browser tab |
| `SentMessageMap` | the message table |
| `MCChatClient` | small instances of the three; EXTENDS both pages |
| `ChatLog` | the abstract specification: what the page promises about conversations |
| `ChatClientProofs`, `OldChatClientProofs` | proofs about the two pages, and that they implement `ChatLog` |
| `VueReactivity`, `VueReactivityProofs` | deps, watchers, computed properties, the queue and its flush; proofs |
| `VuePatch` | the tree of elements changed into what was rendered |
| `VueParser`, `VueCodegen` | the compiler: tokens to tree; tree to code and what it renders |
| `VueTransition`, `VueTransitionProofs` | entering and leaving elements; proofs |
| `VueListeners` | the listeners of `v-on` while events climb |
| `VueKeepAlive`, `VueKeepAliveProofs` | instances of components and the cache of keep-alive; proofs |
| `MessageBox` | `v-model` on the text area of the page |
| `VueEventProofs` | proofs about `VueListeners` and `MessageBox` |
| `MCVue` | small instances of these; EXTENDS `VueTransition`, `VueListeners`, `VueReactivity`, `MessageBox` and `VueKeepAlive`, instantiates the others |

Operators marked *Faulty* in a comment are plausible mistakes in the operator
that follows them. No specification uses them; they serve to see that the
properties notice such a mistake.

### IdGenerator

`lastTimestamp`, `sequence` and `pc` are the fields and the place of each event
loop thread in `nextId`; `clock[g]` is what `System.currentTimeMillis()` reads
on a node, counted from `twepoch`. A call is `Call` (the thread asks), then one
of `Refuse` (the clock moved backwards, exception), `NextIdFresh`, `NextIdSame`
or `Overflow` followed by `SpinEnds`. The monitor needs no variable: only a
spinning thread holds it across steps, so the other steps require that no
thread of the generator spins. `Tick` and `StepBack` move the clock. An id is
the number `Pack(g, time, sequence)`, with the 64-bit shift of the time; the
widths of the fields are constants. A refused call leaves the generator as it
was; its exception closes the channel, which `ReadRefused` of `MessageService`
also does.

### MessageDao

`zset`, `flag` and `record` are the three keys per user. `ZAdd`, `RaiseFlag`,
`LowerFlag`, `RemoveUpTo`, `FromLatest` and `PutRecord` are the commands;
`Score` rounds an id to a double (`Ulp` is the distance of neighbouring
doubles, half to even), `Deduplicated` is the `LinkedHashSet` of `MessageInfo`
whose `equals` does not see the id. A DAO method of two commands is two steps
of its caller.

### MessageService

| State | In the code |
|---|---|
| `channel[c]` | the Netty channel: not yet connected, open, peer gone unnoticed, closed |
| `onlineUserMap[n][u]` | `Constant.onlineUserMap` of node n |
| `queue[l]` | the tasks of event loop l: chat frames, notices, `channelInactive` |
| `loop[l]` | the handler loop l is inside of, and its locals (`latest`, `batch`) |
| `dispatching` | the calls of `handlerMessageSend` under way, each with an owner: the loop that drains, or no loop for a listener thread |
| `lastId[n]` | the last id of the generator of n |
| `zset`, `flag`, `record` | Redis |
| `up[n]` | the JVM of n runs |

`frames`, `faults` and `crashes` count towards the bounds. `published`,
`handled`, `attempted`, `delivered`, `kept`, `identity` and `holder` are
history: no guard reads them.

| Actions | In the code |
|---|---|
| `Connect`, `PeerVanishes`, `EndOfStream` | the network and Netty |
| `ReadRegister`, `AckAndCheckFlag`, `GetSendInfo`, `PruneSent`, `FetchUnsent`, `DrainNext`, `ClearOfflineFlag` | `register` and `checkAndSendOfflineMessage` |
| `ReadChat`, `Publish` | a chat frame: `nextId`, `publishChatMessage` |
| `ReadMalformed`, `ReadRefused`, `ReaderIdle` | the other ways through the handler |
| `RunInactive`, `DisconnectRemoves` | `connectionDisconnect`: the match and the close; the removal |
| `ReadGroup`, `ReadGroupFails`, `Lookup`, `Send`, `Store`, `StoreFlag` | `sendOne` and `sendGroup` |
| `RunNotice`, `RunChat`, `InsertSendInfo` | the task of `sendMessage` |
| `PublishFails`, `RegisterFails`, `DispatchFails`, `RecordFails`, `Crash`, `Restart` | failures |

A step ends where another thread can get in and matter: at a Redis command, and
between a look at the map and the use of what was found. What runs on one
thread without touching shared state is merged into the neighbouring step, for
instance queueing the acknowledgement with the read of the flag.

What the data abstracts from: a message has an id, the node it was published
on, a sender, a target and a body; times and formatting are left out. Messages
with files take the path of chat messages and are not told apart. Ids are
numbers that rise on a node and are independent between nodes (two nodes may
produce the same one, as in the code). A restart goes on with later ids, since
the clock does. A reconnection is another element of `Conn`.

Failures: a Redis call fails before it had an effect; that it fails afterwards
is modelled for the publication, where it matters, and for the others equals
the call that succeeded followed by a crash or the failure of the next call.
Redis itself does not crash.

### MessageDelivery

Three variables: what was published, the mailboxes, the frames attempted.
`Keep` and `Attempt` need a published message and one of its recipients;
`PruneUpTo(u, m)` needs a frame of `m` attempted for `u` and removes all that
rank up to it. `MessageService` implements it with the offline sets as
mailboxes and the rounded score as rank. It does **not** promise that a message
is sent once, that it is sent in order, or that an unsent one stays: the code
does not keep these (section 4).

### ChatClient and ChatLog

`ChatClient` is `chatroom-vue.html` with the two methods of `SentMessageMap`
the page uses. A JavaScript callback runs to its end, so every callback is one
step: the answer of `user_info`, the events of the socket, the timer that
registers a second after a socket opened, clicks, the answer of an upload, the
answer of the logout.

| State | In the code |
|---|---|
| `info` | whether `setUserInfo` was answered; before, `userInfo.userId` is `''` |
| `socket`, `timers` | `this.socket`, replaced at its close event; the timers of `socketOpen` |
| `heap`, `elements` | the arrays put for each friend and group, and the elements of the map, whose values are such arrays or messages |
| `window`, `msgBoxData` | the open conversation (`toUserId` or `toGroupId`) and the array it shows, by reference |
| `unreadNum`, `uploading`, `logout` | the badges, a file under way, the logout |

Arrays are shared by reference: the window and the map hold the same array, and
that is why messages appear in both. `put` appends and `get` takes the first
hit, so the further puts, some under a wrong key (lines 432, 527, 529) and some
with a message as value (lines 414, 439), do no harm; `WindowShowsItsLog` says
so, and fails if `get` took the newest. Messages arrive only over a socket
that registered the user, since the server has no other way to it.

`OldChatClient` is `chatroom.html` with `chatroom.js`. Its socket is not
reopened, its timer starts with the page, and its table has a fixed set of ids,
so a group of the list may be unknown to it: `push` on what `get` answers is
then an exception, which ends the callback where it is. The list is moved by
copying the text of an entry, which loses handlers; the copy gets its own
(lines 681-683, 705-707), and `OldListIntact` says that exactly one stays on
each. The upload dialog (a plug-in, external) is closed by a timer a second and
a half after an upload, whatever it holds by then.

`SentMessageMap` is the table with all its methods as operators, and a machine
that calls them. `ChatClient` has the two that its page uses, `OldChatClient`
takes them from there.

`ChatLog` has a log per conversation and the sets of what was received and
sent. `ChatClient` implements it with `heap[Get(p)]` as the log of p,
`OldChatClient` with the arrays of its table, for the ids the table knows.

### The modules about Vue

`vue.js` (version 2.6, development build) is a library that the repository
carries. It is modelled because all that the page promises to its user passes
through it, and it is by far the largest script here. Each module takes the
functions of one part; `map` names their lines.

| Module | State | Steps |
|---|---|---|
| `VueReactivity` | `data`, `contents` (objects with a dep of their own); `subs`, `deps`, `value`, `dirty`, `active`; the call `stack`; `queue`, `has`, `index`, `waiting`, `flushing`, `circular`, `pending` | one read of a getter, one write, one turn of the flush loop, one hook; a task writes or tears down a watcher when nothing runs |
| `VuePatch` | `vnode`, and the document `doc`: children, what elements show, the listeners of leaving elements, which hooks ran | a whole patch (`Mount`, `Render`); the end of a leave transition |
| `VueParser` | `ast`: the nodes, the open tags of `parseHTML`, the open elements of `parse` | one token |
| `VueCodegen` | `code`, a tree of calls (`_c`, `_l`, `_m`, `_v`, `_e`) | `Generate` once the template was parsed |
| `VueTransition` | the elements in the parent, `classes`, and every call to `enter` and `leave` with its frame, timer and listener | a change of the condition, a frame, a timer, a `transitionend`, a done callback |
| `VueListeners` | `listeners` per element, the `event` that climbs, the clock | a flush with any handlers, one listener that hears or is skipped, one step up |
| `VueKeepAlive` | `heap`: instances, caches, what is shown and told; what each keep-alive is to show | a handler selects, a keep-alive is rendered, the cache is pruned, activated hooks are called |
| `MessageBox` | the draft in the data, in the text area, and what is being composed | a key, the input method, a send, a render |

What getters read, what callbacks write, which trees are rendered and which
tokens come are parameters, chosen in `MCVue` so that the cases below happen.
Elements and instances are numbers in the order they are made; attributes are a
set of names; text is a model value. The seven machines never run together:
`VueReactivity` stands for the queue wherever another module has "to be
rendered", and a patch is one step, since JavaScript runs to its end.
`VueListeners` and `MessageBox` keep the one thing that matters of that: a
microtask runs between two listeners of an event, and before the next task.

## 3. The runs

`tlc -workers 2 -config X.cfg M`, in this directory. All instances are fixed
by the `.cfg`; no symmetry is used, since the loops and connections are told
apart by their topology.

| Run | Instance | States | Properties |
|---|---|---|---|
| `idgen_cluster` | 2 generators, 3 threads, sequence of 2, time of 3 ms, clocks to 3, 1 step back, 5 calls | 78 k | `TypeOK`, `SpinnerHoldsGenerator`, `Increasing`, `ClusterUnique`, `SpinTerminates` |
| `service_single` | 1 node, 2 loops, 2 connections of one user, 4 frames, 3 ids, `Ulp = 2` | 1.8 M | `TypeOK`, `ImplementsDelivery` |
| `service_cluster` | 2 nodes of one loop, a user each, a group of both, 3 frames, 2 ids per node | 3.2 M | `DeliveredToRecipient`, `PrunedBelowSent` |
| `service_faults` | 1 node, 2 loops, 3 users, a group of two and an unknown one, all kinds of frames, 3 frames, 1 fault, 1 crash | 2.6 M | `Accounted`, `MapIsLive` |
| `service_live` | as `service_single`, 3 frames, 1 id, with fairness | 20 k | `PublishedIsHandled`, `LoopReturns`, `ClosedIsForgotten` |
| `client` | a friend, a group, 3 sockets, 2 messages, with fairness; or the old page with two groups, one of them unknown to its table, and 2 messages; or a table of 4 elements | 198 k | `TypeOK`, `OpenIsRegistered`, `WindowShowsItsLog`, `UnreadCounts`, `ImplementsLog`, `OpenGetsRegistered`; `OldListIntact`, `OldWindowShowsTable`, `OldListTellsNews`, `OldImplementsLog`; `TableReadersAgree` |
| `vue` | one of seven machines, see below; with fairness of `VueReactivity` | 261 k | the fifteen properties about Vue |

What they ask:

* **idgen_cluster.** A sequence of two makes every second call in a millisecond
  overflow; two threads of one node compete for the monitor while one spins; a
  clock that passes `TimeSpan` reaches the sign bit, where order ends (the
  property says so); one step back makes refusals and a spin under a retreating
  clock. Five calls are enough for a wrapped sequence, a spin and a further id
  on the same node with the other node active.
* **service_single.** Two connections of one user, on two event loops, with
  four frames: register, chat, register again, chat. All of takeover, drain
  against dispatch, re-storing while draining and pruning between two records
  happen. `FirstId = 2` and `Ulp = 2` make ids 2, 3, 4 into scores 1, 2, 2, so
  that pruning meets two ids of one score. The user writes to himself from one
  device to the other, which keeps sender and recipient on two connections.
* **service_cluster.** Each message is handled on two nodes: by the one that
  has the recipient and by the one that stores a copy. Three frames are a
  registration, a message and one more of either.
* **service_faults.** One fault at each Redis call in turn, a crash at every
  point, a restart that finds the map empty and Redis full, and frames the
  handler answers with a notice or an exception.
* **service_live.** See "Fairness" below.
* **client.** Three sockets let two timers of older sockets fire over a newer
  one; two messages let a window be left and entered between a message and the
  next, an upload end in another window, and the map be looked up after a put.
  The old page has a stranger who is in its table and not in its list, and a
  group that is in its list and not in its table. Four elements let a key and a
  pair repeat with another key between.
* **vue.** *Reactivity*: two computed properties, of which one reads a cell only
  when another is 1 and throws when it is 2; two watchers with callbacks that
  write what an earlier or their own watcher reads; a component whose patch fails
  for one value, and a watcher behind it that waits for ever then; an array that
  changes inside; three writes by tasks, and a limit of 2 runs per flush in the
  place of 100. *Patching*: two patches between all lists of distinct children
  out of four kinds, and roots of other kinds, with every end of a leave in
  between. *Compiler*: four beginnings, then every sequence of three tokens out
  of ten start tags, four end tags and three texts, rendered with lists of none
  and two and with each branch. *Transitions*: all kinds, four changes.
  *Listeners*: two elements, two renders, two events, a clock of two ticks.
  *Message box*: three characters, three messages. *Keep-alive*: three keys of
  two components, one holding a keep-alive with two more, a cache of two, four
  changes of what is shown or kept.

The configurations say `CHECK_DEADLOCK FALSE`: the clients stop after
`MaxFrames` frames (`MaxCalls` calls), so every instance comes to rest; a page
and its library rest when nobody does anything.

### The properties

* `Increasing`, `ClusterUnique`, `SpinnerHoldsGenerator`, `SpinTerminates` (see
  the comments in `IdGenerator`).
* `DeliveredToRecipient`: a frame that reaches a peer carries a published
  message to a recipient of it, over a connection that registered this
  recipient. The context travels from the map through a dispatch into a queue
  while the map changes, so this relates the end of the path to its beginning.
* `Accounted`: when a listener has finished with a message, each recipient has
  been written to, waits in a queue of this node, or has an offline copy.
* `PrunedBelowSent`: a stored copy disappears only if a frame with the same or
  a higher score was written to that user. The record may be old, overwritten
  by another node, or written for a connection long closed when it is used.
* `MapIsLive`: an entry of the map is a connection whose disconnection is not
  over. Together with `ClosedIsForgotten` (it leaves the map for good) this says
  the map does not leak: the removal runs after any registration on the loop of
  the connection.
* `ImplementsDelivery`: the refinement.
* `PublishedIsHandled`: the listener threads of a node finish.
* `LoopReturns`: a handler comes back. A drain calls `handlerMessageSend`, which
  may store the drained message again, and still ends, as it works on the batch
  it fetched.
* `OpenIsRegistered`, `OpenGetsRegistered`: the timer looks at `this.socket`
  when it fires, not at the socket that started it, and still every socket that
  stays open is registered.
* `WindowShowsItsLog`, `UnreadCounts`, `ImplementsLog`: see `ChatClient` above;
  the badge counts exactly what arrived since the window was left.
* `OldListIntact`, `OldWindowShowsTable`, `OldListTellsNews`, `OldImplementsLog`:
  the list, its handlers, badges and order, and the window of the old page agree
  with its table.
* `TableReadersAgree`: however keys and pairs repeat, all readers of the table
  tell one story, that of the values of its distinct keys in order: `get` for the
  keys that are there, `element` counting from 0, null outside of the table.
* `SubscribedToWhatItRead`: in every state, in the middle of an evaluation too, a
  watcher is among the subscribers of a dep once if it read the dep in its last
  evaluation or has in the one that runs, and otherwise not at all.
* `NothingStale`: at rest the getter of every watcher would read what it read last
  and collect the same deps, from computed properties of which that is true as
  well. Excepted are the watchers whose getter or patch threw, those of a queue that
  was given up, those that wait in a queue whose flush an error in a patch broke
  off, and computed properties that nobody read since they became dirty. At rest
  none waits but after such an error.
* `QueueTellsTruth`, `FlushesEnd`: `has`, `waiting` and `flushing` agree with the
  queue in every state, in the middle of a flush too; a change is flushed and
  the flush ends, though a callback writes what its own watcher reads, unless an
  error in a patch breaks the flush off.
* `DocumentShowsTree`, `HooksRunOnce`, `KeyedChildrenKept`: after each patch the
  document is the tree, apart from elements that leave; create, insert and
  destroy hooks ran once for the right elements; a child with a key keeps its
  element.
* `TreeKeepsTemplate`: the tree holds the elements of the template once each, in
  their order. `RendersWhatItMeans`: what the code renders is a direct reading
  of the template (`Meaning`), also when its static trees were cached while the
  data was different. Excepted are templates with a raw `<template>` below a
  `v-pre` inside a larger static tree, which the code loses (section 4). `SiblingKeysDiffer`: patching may rely on keys.
* `RestsAsShown`, `OneTransitionAtATime`: see the comments in `VueTransition`.
* `HandlersHearTheirEvents`: each handler that was there when an event was made
  hears it once, with the newest function; one attached later does not, unless the
  clock stood still; a handler with `.once` runs once.
* `TypedIsKept`: nothing typed is lost, doubled or reordered by a render.
* `KeptAreTold`: an instance that is kept was told that it is active exactly when
  it is on the screen, through two levels, and none is lost or used after its end.

### Fairness

`FairSpec` of `MessageService` assumes: a loop inside a handler goes on
(`WF` of `Continue`: a thread that runs is scheduled); a loop with tasks runs
them although frames and idle events keep coming (`SF` of `RunTask`: reading a
frame takes the loop away from its tasks again and again, and `NioEventLoop.run`
runs tasks in every round after the selected keys); and some dispatch proceeds
as long as there is one (`WF`: the JVM schedules listener threads). Nobody has
to send, leave or return. `IdGenerator` assumes that clocks advance and that a
generator some thread can serve serves some thread; Java monitors promise no
more. With the bound `MaxTime` the clock halts, so `SpinTerminates` excuses the
last millisecond. `ChatClient` assumes that a timer fires. `VueReactivity`
assumes that JavaScript that runs goes on, and that a microtask that was asked
for comes (`WF` of `Goes`); tasks need not come. A flush cannot be starved: the
stack is empty when a task begins, and no task begins before the microtask ended.

## 4. Where the code does not do what its comments say

Each of these has a run that ends in a counterexample, and an entry under
`findings`.

* `idgen_default_worker`: every node builds `new IdGenerator()`, worker 0 of
  datacenter 0, so nodes return equal ids; the class comment promises none.
* `find_takeover`: `iterator.remove()` removes the key although the value is by
  now a newer session, when the two connections are on two event loops.
* `find_flag`: a message stored between the fetch of a drain and its
  `clearOfflineFlag` stays without the flag, and the next registration does not
  look.
* `find_drain`: draining a group message sends it to all members again.
* `find_reorder`: a message that is stored after one with a later id was sent
  lies below the record and is deleted unsent.

Seen while modelling, part of the model, without a run of their own:

* The record is written after `writeAndFlush` whatever its future says, so
  "last successfully sent" (`OfflineMessageDao`, line 35) also names frames to
  closed channels and vanished peers.
* The range of `getOfflineMessage` includes the last id sent, so a sent message
  that the other node stored is sent again.
* Two ids that round to one double are pruned together.
* A connection that registered two users keeps one of them in the map after it
  closed, as `connectionDisconnect` stops at its first match: `MapIsLive` and
  `ClosedIsForgotten` hold for one user per connection, which is what the runs
  use and what the client does.
* With a single event loop `OnlineIsListed` holds: the takeover needs two.
* The page registers with an empty user id when its socket has been open for a
  second before `user_info` is answered, and does not register again over that
  socket.
* A file goes to the conversation that is open when its upload ends.
* After `logout` closed the socket, the close event connects again until the
  page is left.
* `get` of `SentMessageMap` answers false where its comment says NULL (line 78) and
  the page compares with null; `element` answers null, as its comment says (line 92).
* The old page's registration timer starts when the page is loaded, not when the
  socket opened: a socket that opens later is never registered.
* A watcher that read a computed property that threw is not subscribed to what
  that one read, and stays as it is when the cause is gone.
* A watcher that is queued again more than 100 times has the rest of the queue
  thrown away, other watchers included; they are stale until their next change.
* `Watcher.get` passes on an error of a component's watcher that `_render` did not
  catch, as one thrown while patching (`PatchThrows`): it leaves the flush with
  `flushing` and `waiting` true, and nothing is flushed any more. `NothingStale` and
  `FlushesEnd` except what waits then.
* "All pre nodes are static roots" (`vue.js`, line 10992) is not so: a node with
  `v-pre` inside a larger static tree is none, as `markStaticRoots` returns at the
  root of that tree (line 10680). `state.pre` is false for it, and a `<template>` in
  it is rendered as its children (line 10961).
* `v-pre` inside a repeated `template` is one static tree, so its copies have one
  key; keys that the page itself gives twice are not in the model either.
* A done callback of a transition hook that comes before the frame leaves the
  class that the frame puts on.
* The listener of a `.once` handler keeps the function of the render that
  attached it; with an event and a flush of the same clock reading, a handler
  hears an event that is older than itself.
* Sending an emoji empties the draft. Enter released during a composition sends
  the text before it, which stays in the text area and is sent again. The newline
  of Enter, put in before the key is released, is part of what is sent.
* keep-alive compares tags when it prunes: an entry is not destroyed when the one
  shown is of the same component, and neither is what it holds. An instance that
  is cached only when it is shown already (`include` was widened) is not told
  that it is active. A hook that changes the selection within the flush that
  activates an instance may have `activated` called on one no longer shown; such
  hooks are left out.
* The shipped data puts the users into group `001` and creates group `G_001`.
* An unknown group ends in a null dereference before the check of `sendGroup`
  is reached.

## 5. What is proved

For any numbers of nodes, loops, connections, users and groups, any topology,
any friends, ids of the table, declared transitions and elements, and any bounds, from the
assumptions on the constants named in the modules (`SpanAssumption`,
`WorkerAssumption`, `UlpAssumption`, `TopologyAssumption`, `NamesAssumption`,
`BoundAssumption`, `PeerAssumption`, `OldIdsAssumption`, `OldBoundAssumption`,
`KindsAssumption`, `CountsAssumption`, `OutermostAssumption`, `LastWatcherAssumption`,
`StartAssumption`), which TLC evaluates in the runs. Four theorems have a hypothesis
more, explained below: `DistinctWorkersUnique`, `NoEntryOutlives`, `SubscribedOnce`
and `NothingIsStale`. The instances on which TLC checks their properties satisfy it.

**IdGeneratorProofs**
* `TypeCorrect`: `[]TypeOK`; it is inductive.
* `IdsIncrease`, `SpinKeepsMonitor`, `DistinctWorkersUnique`: `[]Increasing`,
  `[]SpinnerHoldsGenerator`, and `[]ClusterUnique` when no two nodes share a
  worker number. `Increasing` is not inductive: it does not say what bounds the
  ids issued. `IInv` adds `FieldsBoundIds` (every id issued is below the one
  its generator could build from `lastTimestamp` and `LastSequence`, where a
  spinner makes the sequence count as used up) and `IdsCarryWorker` (the worker
  bits of an id are those of its node). The arithmetic of the three fields is
  in the lemmas before.

**MessageServiceProofs**
* `TypeCorrect`: `[]TypeOK`. Not inductive alone: `Send` queues a frame for
  `d.ctx`, which has a type that allows `None`. `WellFormed` adds what each
  handler, task and call carries at each step (`LoopShape`, `QueueShape`,
  `DispatchShape`).
* `OnlyToRecipients`: `[]DeliveredToRecipient`; `OnlyPrunedBelowSent`:
  `[]PrunedBelowSent`; `Refinement`: `Spec => ImplementsDelivery`.
* The invariant of these three is `Routed`. `MapFits`: the map holds only connections that
  registered the user. `QueueFits` and `DispatchFits`: every queued frame and
  every call is for a recipient of a published message, over such a connection.
  `StoreFits`: what lies in the offline sets, and what a drain fetched, was
  published for that user. `RecordFits`: every record, and every `latest` a
  loop has read, is the id of a frame that was written for the user, so pruning
  up to it is `PruneUpTo` of that frame. The refinement maps `Broadcast` to
  `Publish`, `Store` to `Keep`, `RunChat` to `Attempt`, `PruneSent` to
  `PruneUpTo` (or to nothing, without a record), and all else to a stutter.
* `NobodyPassedOver`: `[]Accounted`. `Accounted` speaks of the end of a dispatch;
  the invariant `Accounting` of its middle: at every step of a call each recipient
  is still ahead of it, was written to, waits in a queue of the node or has an
  offline copy (`DispatchAccounts`), and what the map of a node holds, and a call
  found there, is a connection of the node's own loops (`MapIsOwn`), so that the
  queue is one of the node and a crash takes both.
* `NoEntryOutlives`: `[]MapIsLive`, if each connection speaks for one user
  (`SpeaksForOne`). The hypothesis is needed: `connectionDisconnect` stops at its
  first match, and a connection that registered two users leaves one behind
  (section 4); the client registers one. `MapIsLive` is not inductive, as a removal may be that of another
  entry: `Living` says that for an entry of a closed connection the
  `channelInactive` of that connection is queued, or its loop is about to remove
  that entry (`EntriesLive`), and that a loop and its queue deal with connections
  of the loop only (`LoopIsOwn`, `QueueIsOwn`).

**ChatClientProofs**
* `TypeCorrect`, `SocketsRegister`, `WindowIsItsLog`, `BadgesCount`: `[]TypeOK`,
  `[]OpenIsRegistered`, `[]WindowShowsItsLog`, `[]UnreadCounts`;
  `PageImplementsLog`: `Spec => ImplementsLog`.
* The invariant is `PageInv`. `WindowShowsItsLog` alone is not inductive: the
  window shows an array by reference, so opening another one needs that the map
  has, for every friend and group, a first hit that is an array of its own.
  `Tables` says so; `Put` appends, so no put under a wrong key or of a message
  changes a first hit. `Counters`: no badge and no number is ahead of the messages
  made, and each socket starts one timer. For the refinement
  the map sends `heap[Get(p)]` to the log of p; all but sending and receiving
  are stutters.

**OldChatClientProofs**
* `ListStaysWhole`, `WindowIsItsTable`, `ListIsNews`: `[]OldListIntact`,
  `[]OldWindowShowsTable`, `[]OldListTellsNews`; `OldPageImplementsLog`.
* `OldPage`: every conversation of the list has one entry, the open one and no
  other is highlighted (`Listing`), the table holds an array per id (`Chats`),
  and the window shows the open one. `OldTelling` adds that messages are numbered
  and none is ahead of the counter (`Numbered`), so that an entry that moves to
  the front has the newest message, which keeps order and badges true (`Tells`).

**VueTransitionProofs**
* `TransitionsTakeTurns`: `[]OneTransitionAtATime`; `TransitionsLeaveWhatIsShown`:
  `[]RestsAsShown`.
* The invariant is `TransInv`, after the first render `Fits(Now, shown, top)`.
  It is stated of a record of the state, because a turn of JavaScript calls
  several functions and each finds what the one before left: the lemmas say what
  `Callback`, `CancelOther`, `Starts`, `Enter` and `Leave` make of a state that
  fits. `Shows`: at most one call is open, it is for the last element, goes where
  the condition says, and the parent and the styles hold what both ask for.
  `Calls`: a call whose frame is to come has no timer and no listener, and if it
  is over already it was cancelled, told early, or its element is gone.
  `Classes`: every class on an element is accounted for by a call: the class of
  the start by a frame to come, the active one by an open call, that of the end
  by an open call, an early done, or an element that is gone; so when
  nothing is to come no class is left. That all listeners of an element hear one
  event in turn is a recursive function over the calls; that it exists, and
  that each of its values fits, is proved by the least call where it would not.

**VueEventProofs**
* `EventsAreHeard`: `[]HandlersHearTheirEvents`; `ListenersFollowRenders`: the
  invariant it follows from, `ListenInv`.
* The property speaks of what heard the event; the invariant also of the lists the
  event meets on its way. `Lists`: each listener is that of a handler of the last
  render, with the function it should have, no name has two, and one of `.once`
  has not run. `Climbs`: a listener that a flush attached after the event was made
  carries a time not before that of the event, so it hears it only when the clock
  stood still; one that the event is for has heard it or waits in the list taken
  when its element was reached (`Reaches`); and nothing in that list has heard it
  yet (`Snapshot`). What `UpdateListeners` makes of a list, of any length, is
  proved by the least step of its loop where it would go wrong.
* `TextIsKept`: `[]TypedIsKept`. The invariant `BoxInv` is about `Area`, the text
  area as the user sees it: while the input method composes it is the element's
  value with what is being composed behind it, otherwise the draft of the data.
  What was sent, followed by `Area`, has its characters in the order they were
  typed (`Increases`) and is all that was typed but for what was `taken`: a
  composition that was given up, a draft that the sending of an emoji emptied; what was sent in the middle of a
  composition (`doubtful`) is excepted, as it is sent again (section 4).

**VueReactivityProofs**
* `QueueIsTold`: `[]QueueTellsTruth`. The property looks at the queue, the flags
  and `index`; how they agree depends on where JavaScript is, so the invariant
  `SchedulerInv` speaks of the stack of calls too. `Stacked` is its shape: which
  call may lie below which, with the flush outermost. `Scheduled` says that from
  the position of the flush on the queue holds the watchers of `has`, once each
  and in order (`Awaits`), where "from" depends on whether the flush is before,
  inside or behind the run of a watcher (`PhaseOf`); a flush that an error in a
  patch broke off stays behind it (`Position`). A notification queues all
  subscribers of a dep in turn, each at its place: a recursive function, proved by
  the least turn where it would leave `Awaits`.
* `SubscribedOnce`: `[]SubscribedToWhatItRead`, if no computed property reads
  itself, directly or through others (`Acyclic`; the code then overflows the
  stack). The property is about lists of subscribers and the evaluations under
  way; `SubscriptionInv` adds that these are of watchers that were created and
  were not torn down, and that ranks fall from a reader to what it
  evaluates (`Evaluates`), so that no watcher is evaluated inside itself and the
  deps an evaluation collects are nobody else's.
* `NothingIsStale`: `[]NothingStale`, if `Acyclic`, if computed properties are
  created before the watchers that run at once and read them (`CreatedInTime`: `initComputed`
  comes before `initWatch` and the first render), and if no task tears down a
  computed property alone (`KeepsComputed`: it goes with its component, whose
  watchers are all that read it). The property speaks of rest; the invariant
  `FreshInv` of all states: what a clean watcher read, and what a getter that is
  running has read so far, is what the memory holds now, and its deps are those of
  that (`Sees`). A write to a dep tells all subscribers, so that only watchers
  without the dep are clean after it, for which nothing changed; here it needs the
  two invariants before. At rest nothing is evaluated, so all but the excepted
  watchers are clean. That none waits then, unless a flush was broken off, is from a
  second invariant, `FlushBroken`: a flush without a call of its own is behind a
  render watcher that threw.

**VueKeepAliveProofs**
* `KeptKnowTheScreen`: `[]KeptAreTold`, for any keys and components, any `max` of
  at least one (`MaxAssumption`) and any number of changes. The keep-alives are on two levels
  (`LevelsAssumption`), as in the runs; `KeysAssumption` keeps `Null` apart.
* The property speaks of the time between flushes; a turn of JavaScript goes
  through states where it is false, so the invariant `KeepInv` is about a heap
  (`Fits`) and each lemma says what one function of the code makes of a heap that
  fits. `Typed`: instances are in the root or in one that is. `Placed`: what is
  shown or cached is alive and is where its cache says, and whatever is alive is in
  reach, but for the one that is just created. `Hears`: an instance is active if and
  only if it was told so or its hook is in the queue of `activatedChildren`; one
  that its keep-alive does not show is directly inactive; the one inside follows
  the one around unless that waits in the queue. `Listed`: `keys` and `cache`
  agree, but for the key that `render` has listed and not yet cached.
* `Mounted` adds what makes a turn start well: hooks wait only in a flush, and
  only for keep-alives whose render is over, the root's first; a key that
  `include` dropped stays cached only while the watcher of `include` is queued; the
  kept are cached. Without the order of the watchers an instance could be queued
  and be taken from the screen before its hook is called, and hear `activated` while it is
  not shown.
* The loops of `callActivatedHooks` and `pruneCache` are functions of the number of
  turns; that they exist, and that each value fits, is proved by the least turn where
  it would not.

## 6. Only model-checked

* Liveness (`OpenGetsRegistered`, `FlushesEnd`, `SpinTerminates`, `PublishedIsHandled`, `LoopReturns`,
  `ClosedIsForgotten`): fairness and `ENABLED` are out of the prover's reach.
* `KeyedChildrenKept`, `DocumentShowsTree`, `HooksRunOnce`, `TreeKeepsTemplate`,
  `RendersWhatItMeans`, `SiblingKeysDiffer`: they compare what recursive
  operators compute over trees and templates, which needs induction over data.
* `TableReadersAgree`: it sums over a filtered sequence (`SelectSeq` and a fold), the same.
* `ClusterUnique` where two nodes share a worker number is false (section 4).
* The counterexamples of section 4.

## 7. Not modelled, and why

* Start-up: planned (section 8).
* Several users on one connection: the model allows it (`Identities`), but the
  runs have one user per connection (section 4).
* Of the client: avatars, the text of the last message, senders who are no
  friends. Of the old page: widths and scrolling.
* Of Vue: props, slots, provide and inject, asynchronous and functional
  components, hydration, deep and sync watchers, filters, directives other than
  `v-model` on text and `v-show`, transition groups and modes, listeners with
  capture or passive, the regular expressions of the parser, the contents of
  `script`, `style` and `textarea`. Each module says what it leaves out.
* The other scripts (jQuery, Bootstrap, the upload plug-in, axios) are minified;
  `zh.js` holds texts.
* The handler pipeline below the message path: a connection that never
  registered is not closed when it idles; several frames of one read after a
  close; the branches for close, ping and pong frames, which
  `WebSocketServerProtocolHandler` takes before the handler sees them.
* The response object that the recipients of a group message share: only its
  delivery time is written after it was built.
* Reading the data of each member in `GroupServiceImpl`: these are further
  reads of data that does not change, one step with the read of the group.
* Login, user data, file upload: one HTTP request each, no state shared with
  the message path.
* `HttpChannelHandler`, the Consul registry: not reachable.
* A crash of Redis, and its pub/sub losing a message to a connected node.

## 8. Plan

Done: `IdGenerator`, `MessageDao`, `MessageService`, `MessageDelivery`,
`ChatClient`, `ChatLog`, `OldChatClient`, `SentMessageMap`, the modules about
Vue, their runs and the proofs above. Next, in this order:

1. `Startup`: the port, the user and group data and the subscription of a node,
   in the order of the beans and events, with frames arriving in between; the
   data loaded twice by two nodes.
2. `Connection`: the life of one channel through the pipeline: handshake, idle
   events for registered and unregistered connections, frames behind a close,
   close by the server; shown to implement the `channel` part of
   `MessageService`.
