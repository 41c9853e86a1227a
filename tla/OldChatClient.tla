--------------------------- MODULE OldChatClient ---------------------------
(***************************************************************************)
(* The first chat page, static/js/chatroom.js with the script of             *)
(* templates/chatroom.html: one tab.  It keeps its state in the document:    *)
(* the entries of the list on the left, the messages of the window, two      *)
(* hidden inputs with the conversation.  Every callback is a step; one that  *)
(* throws stops half way.                                                    *)
(***************************************************************************)
EXTENDS Integers, FiniteSets, SequencesExt

CONSTANTS
    OldFriend, OldGroup,   \* the ids in the answer of user_info
    Stranger,        \* senders whose id is in no list
    TableKeys,       \* the ids that setSentMessageMap puts, in its order
    Nobody,           \* no conversation; both hidden inputs are ''
    MaxMessages      \* bound: the messages received and written

VARIABLES
    list,            \* `.conLeft ul': its entries from the top
    loaded,          \* user_info was answered
    messages,        \* messages[k]: the array in the table for key k
    newsList, temp,  \* the messages in the window, and in the list used for measuring
    toId,            \* #toUserId or #toGroupId
    panel,           \* .conRight is visible
    readyState,      \* of the socket
    timer,           \* the registration timer is running
    oldRegistered,   \* history: the current socket registered "none", "nobody" or "me"
    dialog,          \* the upload dialog: "closed", "open", "picked" with a file, "busy"
    closeTimers,     \* timers of `fileuploaded' that have not fired
    page,            \* "here", "leaving" when the logout is asked, "left"
    oldMade,         \* the messages so far, to bound and to number them
    received, handed,   \* history: <<p, e>> received for p, handed to the socket for p
    seenAt           \* history: the value of oldMade when p was last opened or written to

listVars == <<list, loaded>>
talkVars == <<messages, newsList, temp, toId, panel, oldMade, received, handed, seenAt>>
linkVars == <<readyState, timer, oldRegistered, page>>
uploadVars == <<dialog, closeTimers>>
oldVars == <<listVars, talkVars, linkVars, uploadVars>>

Listed == OldFriend \union OldGroup
Sender == Listed \union Stranger
Key == Range(TableKeys)

\* What user_info and the table hold: friends and groups have different ids, the
\* lists are finite, and '' is nobody's id.
ASSUME OldIdsAssumption ==
    /\ OldFriend \intersect OldGroup = {}
    /\ IsFiniteSet(Listed)
    /\ Nobody \notin Listed /\ Nobody \notin Key
    /\ TableKeys \in Seq(Key)

ASSUME OldBoundAssumption == MaxMessages \in Nat

-----------------------------------------------------------------------------

\* The page's own copy of the table.
Table == INSTANCE SentMessageMap WITH
    MapKey <- Key, MapValue <- Key, False <- FALSE, Null <- Nobody, MaxElements <- 0,
    table <- <<>>, answer <- FALSE

\* setSentMessageMap: an array per id, and none is ever added.  A value is
\* the array, named by the key it was put for.
tableElements == [i \in DOMAIN TableKeys |-> [key |-> TableKeys[i], value |-> TableKeys[i]]]

\* push on what get answers is an exception when that is false.
Known(p) == Table!containsKey(tableElements, p)

\* Faulty: into the array of the window.
PushOpen(p, e) == messages' = [messages EXCEPT ![IF toId \in Key THEN toId ELSE p] = Append(@, e)]

OldPush(p, e) == messages' = [messages EXCEPT ![Table!get(tableElements, p)] = Append(@, e)]

OldEntry == [from : {"me", "other"}, id : 1 .. MaxMessages]
New(from) == [from |-> from, id |-> oldMade + 1]

-----------------------------------------------------------------------------

OldInit ==
    /\ list = <<>> /\ loaded = FALSE
    /\ messages = [k \in Key |-> <<>>]
    /\ newsList = <<>> /\ temp = <<>> /\ toId = Nobody /\ panel = FALSE
    /\ readyState = "CONNECTING" /\ timer = TRUE /\ oldRegistered = "none" /\ page = "here"
    /\ dialog = "closed" /\ closeTimers = 0
    /\ oldMade = 0 /\ received = {} /\ handed = {}
    /\ seenAt = [p \in Sender |-> 0]

\* setUserInfo: an entry for every group and friend, then the click handler on
\* every entry of the list.
SetUserInfo ==
    /\ page # "left" /\ ~loaded
    /\ loaded' = TRUE
    /\ LET order == SetToSeq(OldGroup) \o SetToSeq(OldFriend)
       IN  list' = [i \in DOMAIN order |-> [peer |-> order[i], badge |-> 0, bg |-> FALSE, handlers |-> 1]]
    /\ UNCHANGED <<talkVars, linkVars, uploadVars>>

Opens == readyState = "CONNECTING" /\ readyState' = "OPEN" /\ UNCHANGED oldRegistered
Closes == readyState' = "CLOSED" /\ oldRegistered' = "none"

\* The script of the page: a closed socket is not opened again.
SocketEvent ==
    /\ page # "left" /\ readyState # "CLOSED"
    /\ Opens \/ Closes
    /\ UNCHANGED <<listVars, talkVars, timer, page, uploadVars>>

\* ws.register, a second after the page was loaded and not after the socket
\* opened (the id of the timer is assigned to onopen).
Register ==
    /\ page # "left" /\ timer
    /\ timer' = FALSE
    /\ oldRegistered' = IF readyState # "OPEN" THEN oldRegistered ELSE IF loaded THEN "me" ELSE "nobody"
    /\ UNCHANGED <<listVars, talkVars, readyState, page, uploadVars>>

\* logout: ws.remove, and no request or answer holds the page back.
OldLogout ==
    /\ \/ page = "here" /\ page' = "leaving" /\ Closes
       \/ page = "leaving" /\ page' \in {"here", "left"} /\ UNCHANGED <<readyState, oldRegistered>>
    /\ UNCHANGED <<listVars, talkVars, timer, uploadVars>>

-----------------------------------------------------------------------------
(* The list on the left. *)

Place(p) == {i \in DOMAIN list : list[i].peer = p}

\* Faulty: the entry stays where it is; the copy has no handler.
StayPut(i, badge) == list' = [list EXCEPT ![i].badge = badge]
NoHandler(i, badge) ==
    list' = <<[list[i] EXCEPT !.badge = badge, !.handlers = 0]>> \o RemoveAt(list, i)

\* An entry is moved by copying its text: the copy on top gets a handler of
\* its own, the entry is removed.
MoveUp(i, badge) ==
    list' = <<[list[i] EXCEPT !.badge = badge, !.handlers = 1]>> \o RemoveAt(list, i)

\* processFriendList.receiving: the badge counts, open window or not.  Without
\* an entry this is an exception.
Receiving(p) ==
    IF Place(p) = {} THEN UNCHANGED list
    ELSE LET i == Min(Place(p)) IN MoveUp(i, list[i].badge + 1)

\* processFriendList.sending, for the entry with the class bg.
Sending == LET i == Min({j \in DOMAIN list : list[j].bg}) IN MoveUp(i, 0)

-----------------------------------------------------------------------------
(* Messages. *)

Focused(p) == \E i \in Place(p) : list[i].bg

\* processMsgBox.receiveSingleMsg and receiveGroupMsg: the message is measured in
\* a list that is emptied at the end, unless the table does not know the id.
ReceiveMsg(p) ==
    /\ panel' = TRUE
    /\ newsList' = IF Focused(p) THEN Append(newsList, New("other")) ELSE newsList
    /\ IF Known(p)
       THEN OldPush(p, New("other")) /\ temp' = <<>>
       ELSE temp' = Append(temp, New("other")) /\ UNCHANGED messages

\* ws.singleReceive, groupReceive, and the two for files.
OldReceive(p) ==
    /\ page # "left" /\ readyState = "OPEN" /\ oldRegistered = "me"
    /\ oldMade < MaxMessages
    /\ oldMade' = oldMade + 1
    /\ received' = received \union {<<p, New("other")>>}
    /\ ReceiveMsg(p)
    /\ IF Known(p) THEN Receiving(p) ELSE UNCHANGED list
    /\ UNCHANGED <<loaded, toId, handed, seenAt, linkVars, uploadVars>>

\* Faulty: the window keeps what it showed.
ShowBelow(p) == newsList' = IF Known(p) THEN newsList \o messages[p] ELSE newsList

\* The window is emptied and filled from the table; false has no length.
ShowOnly(p) == newsList' = IF Known(p) THEN messages[p] ELSE <<>>

\* friendLiClickEvent.
FriendLiClick(i) ==
    /\ page # "left"
    /\ list[i].handlers > 0
    /\ list' = [j \in DOMAIN list |->
                  [list[j] EXCEPT !.bg = (j = i), !.badge = IF j = i THEN 0 ELSE @]]
    /\ panel' = TRUE
    /\ toId' = list[i].peer
    /\ ShowOnly(list[i].peer)
    /\ seenAt' = [seenAt EXCEPT ![list[i].peer] = oldMade]
    /\ UNCHANGED <<loaded, messages, temp, oldMade, received, handed, linkVars, uploadVars>>

\* ws.singleSend, groupSend, fileMsgSingleSend, fileMsgGroupSend: an alert when
\* the socket is not open, and the caller goes on.
Hand == handed' = IF readyState = "OPEN" THEN handed \union {<<toId, New("me")>>} ELSE handed

\* processMsgBox.sendMsg and sendFileMsg: into the window, then into the table.
\* Without an array the exception leaves the list as it is.
ShowOwn ==
    /\ oldMade < MaxMessages
    /\ oldMade' = oldMade + 1
    /\ newsList' = Append(newsList, New("me"))
    /\ IF Known(toId)
       THEN /\ OldPush(toId, New("me")) /\ Sending
            /\ seenAt' = [seenAt EXCEPT ![toId] = oldMade + 1]
       ELSE UNCHANGED <<messages, list, seenAt>>
    /\ UNCHANGED <<loaded, temp, toId, panel, received, linkVars>>

\* The send button and the return key; '' is refused.
SendNews ==
    /\ page # "left" /\ panel /\ toId # Nobody
    /\ Hand /\ ShowOwn
    /\ UNCHANGED uploadVars

\* A click on an emoji.
SendEmoji ==
    /\ page # "left" /\ panel /\ toId # Nobody
    /\ Hand /\ ShowOwn
    /\ UNCHANGED uploadVars

-----------------------------------------------------------------------------
(* The upload dialog. *)

\* The dialog is opened, a file is chosen or removed, the upload is started.
UseDialog ==
    /\ page # "left" /\ panel
    /\ \/ dialog = "closed" /\ dialog' = "open"
       \/ dialog = "open" /\ dialog' \in {"closed", "picked"}
       \/ dialog = "picked" /\ dialog' \in {"open", "busy"}
    /\ UNCHANGED <<closeTimers, listVars, talkVars, linkVars>>

\* fileuploaded: the file goes to the conversation of now, which nobody asks
\* to exist: the panel is there since the first message that arrived.
FileUploaded ==
    /\ page # "left" /\ dialog = "busy"
    /\ dialog' = "open"
    /\ closeTimers' = closeTimers + 1
    /\ Hand /\ ShowOwn

\* A second and a half later the dialog is closed and emptied, whatever it holds
\* by then; a transfer that runs goes on.
CloseDialog ==
    /\ page # "left" /\ closeTimers > 0
    /\ closeTimers' = closeTimers - 1
    /\ dialog' = IF dialog = "busy" THEN "busy" ELSE "closed"
    /\ UNCHANGED <<listVars, talkVars, linkVars>>

-----------------------------------------------------------------------------

OldNext ==
    \/ SetUserInfo \/ SocketEvent \/ Register \/ OldLogout
    \/ \E p \in Sender : OldReceive(p)
    \/ \E i \in DOMAIN list : FriendLiClick(i)
    \/ SendNews \/ SendEmoji \/ UseDialog \/ FileUploaded \/ CloseDialog

OldSpec == OldInit /\ [][OldNext]_oldVars

-----------------------------------------------------------------------------

\* The list holds every friend and every group once, each with one click
\* handler, and the marked entry is the conversation that the hidden inputs
\* name, although entries are moved by copying their text and every copy needs
\* a handler of its own (lines 681-683 and 705-707).
OldListIntact ==
    /\ loaded => /\ Len(list) = Cardinality(Listed)
                 /\ {list[i].peer : i \in DOMAIN list} = Listed
    /\ \A i \in DOMAIN list : list[i].handlers = 1 /\ (list[i].bg <=> list[i].peer = toId)

\* The window shows the array of its conversation, while messages for any
\* conversation arrive and uploads end (lines 507-517, 539-561 and 588-618).
\* It says nothing of a conversation the table does not know: what is shown
\* there is lost with the next click.
OldWindowShowsTable == Known(toId) => newsList = messages[toId]

LastId(p) == IF Known(p) /\ messages[p] # <<>> THEN Last(messages[p]).id ELSE 0

NewsOf(p) ==
    {k \in DOMAIN messages[p] : messages[p][k].from = "other" /\ messages[p][k].id > seenAt[p]}

\* The list is in the order of the last message of its conversations, and a
\* badge counts what arrived since its conversation was opened or written to
\* (processFriendList).
OldListTellsNews ==
    /\ \A i, j \in DOMAIN list : i < j => LastId(list[i].peer) >= LastId(list[j].peer)
    /\ \A i \in DOMAIN list :
           LET p == list[i].peer
           IN  list[i].badge = IF Known(p) THEN Cardinality(NewsOf(p)) ELSE 0

\* For the ids of the table the page is a ChatLog: logs only grow, a received
\* message is appended to the log of its conversation, a message that is handed
\* to the socket for a conversation is appended there.
OldLog == INSTANCE ChatLog WITH
    Peer <- Key, Entry <- OldEntry, log <- messages,
    got <- {x \in received : Known(x[1])}, sent <- {x \in handed : Known(x[1])}

OldImplementsLog == OldLog!Spec

=============================================================================
