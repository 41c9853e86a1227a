----------------------------- MODULE ChatClient -----------------------------
(***************************************************************************)
(* The chat page, templates/chatroom-vue.html, with SentMessageMap.js: one  *)
(* browser tab.  JavaScript runs one callback at a time, so every callback  *)
(* is a step: answers of requests, events of the socket, timers, clicks.    *)
(* The server and the network decide when sockets open and close and which  *)
(* messages arrive.                                                         *)
(***************************************************************************)
EXTENDS Integers, FiniteSets, SequencesExt

CONSTANTS
    Friend,        \* the user ids of friendList
    Group,         \* the group ids of groupList
    NoOne,         \* no conversation; also the id '' and the key undefined
    MaxConnects,   \* bound: the sockets created
    MaxEntries     \* bound: the messages received and written

Peer == Friend \union Group

ASSUME PeerAssumption ==
    /\ Friend \intersect Group = {}
    /\ NoOne \notin Peer
    /\ IsFiniteSet(Peer)

ASSUME BoundAssumption == MaxConnects \in Nat \ {0} /\ MaxEntries \in Nat

VARIABLES
    info,          \* the user_info request: "pending", "loaded" or "failed"
    socket,        \* this.socket: "connecting", "open", or "closing" until its close event
    timers,        \* the timers of socketOpen that have not fired
    logout,        \* "no", "asked", or "left" when the page is gone
    heap,          \* heap[p]: the array put for p when user_info was loaded
    elements,      \* sentMessageMap.elements, a value is the array of a peer or NoOne for a message
    window,        \* the conversation that is open: toUserId or toGroupId
    msgBoxData,    \* the array the window shows
    unreadNum,     \* unreadNum[p]
    uploading,     \* a file was chosen and its upload is not answered
    connects, made,  \* counters for the bounds; made also numbers the messages
    registered,    \* history: whom the current socket registered: "none", "nobody" (''), "me"
    got, sent,     \* history: <<p, e>> received for p, handed to the socket for p
    leftAt         \* history: leftAt[p], the value of made when p's window was left

pageVars == <<info, logout>>
socketVars == <<socket, timers, connects, registered>>
chatVars == <<heap, elements, window, msgBoxData, unreadNum, made, got, sent, leftAt>>
vars == <<pageVars, socketVars, chatVars, uploading>>

Entry == [from : {"me", "other"}, id : 1 .. MaxEntries]

-----------------------------------------------------------------------------
(* SentMessageMap: put appends, get returns the first value of the key. *)

Pair(k, v) == [key |-> k, value |-> v]

Put(k, v) == elements' = Append(elements, Pair(k, v))

Hits(k) == {i \in DOMAIN elements : elements[i].key = k}

\* Faulty: the newest value.
GetNewest(k) == IF Hits(k) = {} THEN NoOne ELSE elements[Max(Hits(k))].value

Get(k) == IF Hits(k) = {} THEN NoOne ELSE elements[Min(Hits(k))].value

-----------------------------------------------------------------------------

\* mounted: both requests are on their way.
Init ==
    /\ info = "pending" /\ logout = "no"
    /\ socket = "connecting" /\ timers = 0 /\ connects = 1 /\ registered = "none"
    /\ heap = [p \in Peer |-> <<>>]
    /\ elements = <<>>
    /\ window = NoOne /\ msgBoxData = NoOne
    /\ unreadNum = [p \in Peer |-> 0]
    /\ uploading = FALSE
    /\ made = 0 /\ got = {} /\ sent = {}
    /\ leftAt = [p \in Peer |-> 0]

Here == logout # "left"

\* setUserInfo: an array for every group, then for every friend.
UserInfoArrives ==
    /\ Here /\ info = "pending"
    /\ info' = "loaded"
    /\ LET order == SetToSeq(Group) \o SetToSeq(Friend)
       IN  elements' = [i \in DOMAIN order |-> Pair(order[i], order[i])]
    /\ UNCHANGED <<logout, socketVars, heap, window, msgBoxData, unreadNum, made,
                   got, sent, leftAt, uploading>>

UserInfoFails ==
    /\ Here /\ info = "pending"
    /\ info' = "failed"
    /\ UNCHANGED <<logout, socketVars, chatVars, uploading>>

-----------------------------------------------------------------------------
(* The socket. *)

\* Faulty: the socket opens and nothing is planned; or the handler runs twice.
NoTimer == UNCHANGED timers
TwoTimers == timers' = timers + 2

StartTimer == timers' = timers + 1

\* socketOpen: register in a second.
SocketOpens ==
    /\ Here /\ socket = "connecting"
    /\ socket' = "open"
    /\ StartTimer
    /\ UNCHANGED <<pageVars, connects, registered, chatVars, uploading>>

\* The connection fails or is lost; the close event is still to come.
SocketBreaks ==
    /\ Here /\ socket \in {"connecting", "open"}
    /\ socket' = "closing"
    /\ UNCHANGED <<pageVars, timers, connects, registered, chatVars, uploading>>

\* socketClose: a new socket at once, whatever closed the old one.
SocketCloses ==
    /\ Here /\ socket = "closing" /\ connects < MaxConnects
    /\ socket' = "connecting"
    /\ connects' = connects + 1
    /\ registered' = "none"
    /\ UNCHANGED <<pageVars, timers, chatVars, uploading>>

\* Faulty: a session that registered before does not do it again.
RegisterOnce ==
    registered' = IF socket = "open" /\ connects = 1 THEN "me" ELSE registered

\* wsRegister uses the socket and the user of now.
WsRegister ==
    registered' = IF socket # "open" THEN registered
                  ELSE IF info = "loaded" THEN "me" ELSE "nobody"

TimerFires ==
    /\ Here /\ timers > 0
    /\ timers' = timers - 1
    /\ WsRegister
    /\ UNCHANGED <<pageVars, socket, connects, chatVars, uploading>>

\* logout: the socket is closed, and its close event connects again while the
\* request is under way.
Logout ==
    /\ logout = "no"
    /\ logout' = "asked"
    /\ socket' = "closing"
    /\ UNCHANGED <<info, timers, connects, registered, chatVars, uploading>>

LogoutAnswered ==
    /\ logout = "asked"
    /\ \/ logout' = "left" /\ socket' = "closing"
       \/ logout' = "no" /\ UNCHANGED socket
    /\ UNCHANGED <<info, timers, connects, registered, chatVars, uploading>>

-----------------------------------------------------------------------------
(* Conversations. *)

Push(list, e) == heap' = [heap EXCEPT ![list] = Append(@, e)]

NewEntry(from) == [from |-> from, id |-> made + 1]

\* Faulty: into the open window, whoever sent it.
IsShownAlways(p) == window # NoOne

\* Whether a message for p belongs into the window that is open.
IsShown(p) == window = p

\* wsMessageReceive.  A message to the open window is put into the array it
\* shows; any other goes to the array of the map, and counts as unread.  A
\* sender without an array (no friend) ends in an exception and nothing changes.
Receive(p) ==
    /\ Here /\ socket = "open" /\ registered = "me" /\ made < MaxEntries
    /\ made' = made + 1
    /\ got' = got \union {<<p, NewEntry("other")>>}
    /\ IF IsShown(p)
       THEN /\ Push(msgBoxData, NewEntry("other"))
            \* line 432 reads chatData.fromUserId, which does not exist
            /\ Put(IF p \in Group THEN p ELSE NoOne, msgBoxData)
            /\ UNCHANGED unreadNum
       ELSE /\ Push(Get(p), NewEntry("other"))
            /\ Put(p, NoOne)
            /\ unreadNum' = [unreadNum EXCEPT ![p] = @ + 1]
    /\ UNCHANGED <<pageVars, socketVars, window, msgBoxData, sent, leftAt, uploading>>

\* Faulty: the count stays.
KeepUnread(p) == UNCHANGED unreadNum

ResetUnread(p) == unreadNum' = [unreadNum EXCEPT ![p] = 0]

\* friendLiClickEvent.
OpenWindow(p) ==
    /\ Here /\ info = "loaded"
    /\ window' = p
    /\ msgBoxData' = Get(p)
    /\ ResetUnread(p)
    /\ leftAt' = IF window = NoOne THEN leftAt ELSE [leftAt EXCEPT ![window] = made]
    /\ UNCHANGED <<pageVars, socketVars, heap, elements, made, got, sent, uploading>>

\* sendMessage and the end of uploadFile: the message goes to the conversation
\* that is open by now, and into its array even if the socket is not open.  The
\* key of the put is the other of toUserId and toGroupId, which is ''.
ShowAndSend ==
    /\ made < MaxEntries
    /\ made' = made + 1
    /\ sent' = IF socket = "open" THEN sent \union {<<window, NewEntry("me")>>} ELSE sent
    /\ Push(msgBoxData, NewEntry("me"))
    /\ Put(NoOne, msgBoxData)
    /\ UNCHANGED <<pageVars, socketVars, window, msgBoxData, unreadNum, got, leftAt>>

SendMessage ==
    /\ Here /\ window # NoOne
    /\ ShowAndSend
    /\ UNCHANGED uploading

\* A file is chosen; other callbacks run until the upload is answered.
ChooseFile ==
    /\ Here /\ window # NoOne /\ ~uploading
    /\ uploading' = TRUE
    /\ UNCHANGED <<pageVars, socketVars, chatVars>>

UploadAnswered ==
    /\ Here /\ uploading
    /\ uploading' = FALSE
    /\ ShowAndSend

UploadFails ==
    /\ Here /\ uploading
    /\ uploading' = FALSE
    /\ UNCHANGED <<pageVars, socketVars, chatVars>>

-----------------------------------------------------------------------------

Next ==
    \/ UserInfoArrives \/ UserInfoFails
    \/ SocketOpens \/ SocketBreaks \/ SocketCloses \/ TimerFires
    \/ Logout \/ LogoutAnswered
    \/ \E p \in Peer : Receive(p) \/ OpenWindow(p)
    \/ SendMessage \/ ChooseFile \/ UploadAnswered \/ UploadFails

Spec == Init /\ [][Next]_vars

\* A timer fires after its second; nothing is asked of the network, the server
\* or the user.
FairSpec == Spec /\ WF_vars(TimerFires)

-----------------------------------------------------------------------------

\* Types of the variables; the window shows an array, never a message.
TypeOK ==
    /\ info \in {"pending", "loaded", "failed"}
    /\ socket \in {"connecting", "open", "closing"}
    /\ timers \in 0 .. MaxConnects
    /\ logout \in {"no", "asked", "left"}
    /\ heap \in [Peer -> Seq(Entry)]
    /\ elements \in Seq([key : Peer \union {NoOne}, value : Peer \union {NoOne}])
    /\ window \in Peer \union {NoOne} /\ msgBoxData \in Peer \union {NoOne}
    /\ unreadNum \in [Peer -> 0 .. MaxEntries]
    /\ uploading \in BOOLEAN
    /\ connects \in 0 .. MaxConnects /\ made \in 0 .. MaxEntries
    /\ registered \in {"none", "nobody", "me"}
    /\ got \in SUBSET (Peer \X Entry) /\ sent \in SUBSET (Peer \X Entry)
    /\ leftAt \in [Peer -> 0 .. MaxEntries]

\* A socket that is open and has no timer left has sent a REGISTER, although
\* the timer that sent it may be the one of an earlier socket (socketOpen,
\* lines 261-266: the timer looks at this.socket when it fires).
OpenIsRegistered ==
    Here /\ socket = "open" /\ timers = 0 => registered # "none"

\* The window shows the array that the map gives for its conversation,
\* although every message puts a further element, under another key or with a
\* message as value (lines 407-439 and 527-529 against get, SentMessageMap.js,
\* line 79).
WindowShowsItsLog == window # NoOne => msgBoxData = Get(window) /\ msgBoxData # NoOne

\* The badge of a conversation counts what arrived for it since its window was
\* left, and nothing while the window is open.
UnreadCounts ==
    \A p \in Peer :
        unreadNum[p] = IF window = p THEN 0
                       ELSE Cardinality({x \in got : x[1] = p /\ x[2].id > leftAt[p]})

\* The page implements ChatLog: the log of a conversation is the array that the
\* map gives for it.
Log == INSTANCE ChatLog WITH
    log <- [p \in Peer |-> IF Get(p) \in Peer THEN heap[Get(p)] ELSE <<>>]

ImplementsLog == Log!Spec

\* Every socket that opens and stays open is registered: the timer fires.
OpenGetsRegistered ==
    (socket = "open" /\ Here) ~> (registered # "none" \/ socket # "open" \/ ~Here)

=============================================================================
