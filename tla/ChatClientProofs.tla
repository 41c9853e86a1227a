-------------------------- MODULE ChatClientProofs --------------------------
(* Proofs about ChatClient, for any friends, groups and bounds. *)
EXTENDS ChatClient, FiniteSetTheorems, TLAPS

\* The timers are counted, and an open socket that waits for none of them has
\* sent its REGISTER: inductive, since only SocketOpens makes a socket open.
Registers == timers \in Nat /\ OpenIsRegistered

LEMMA InitRegisters == Init => Registers
  BY DEF Init, Registers, OpenIsRegistered, Here

LEMMA StepRegisters == Registers /\ [Next]_vars => Registers'
<1> SUFFICES ASSUME Registers, [Next]_vars
             PROVE  Registers'
  OBVIOUS
<1> USE DEF Registers, OpenIsRegistered, Here
<1>1. CASE SocketOpens
  BY <1>1 DEF SocketOpens, StartTimer, pageVars
<1>2. CASE SocketBreaks
  BY <1>2 DEF SocketBreaks
<1>3. CASE SocketCloses
  BY <1>3 DEF SocketCloses
<1>4. CASE TimerFires
  BY <1>4 DEF TimerFires, WsRegister, pageVars
<1>5. CASE Logout
  BY <1>5 DEF Logout
<1>6. CASE LogoutAnswered
  BY <1>6 DEF LogoutAnswered
<1>7. CASE UNCHANGED <<logout, socketVars>>
  BY <1>7 DEF socketVars
<1>8. \/ SocketOpens \/ SocketBreaks \/ SocketCloses \/ TimerFires
      \/ Logout \/ LogoutAnswered \/ UNCHANGED <<logout, socketVars>>
  BY DEF Next, vars, pageVars, UserInfoArrives, UserInfoFails, Receive, OpenWindow,
         SendMessage, ShowAndSend, ChooseFile, UploadAnswered, UploadFails
<1> QED
  BY <1>1, <1>2, <1>3, <1>4, <1>5, <1>6, <1>7, <1>8

\* No order of sockets, timers and logouts leaves an open socket unregistered
\* with no timer to come (socketOpen, lines 261-266).
THEOREM SocketsRegister == Spec => []OpenIsRegistered
<1>1. Registers => OpenIsRegistered
  BY DEF Registers
<1> QED
  BY InitRegisters, StepRegisters, <1>1, PTL DEF Spec

-----------------------------------------------------------------------------
(* The table of the page. *)

\* SetToSeq lists every element of a finite set, and each once.
LEMMA SetToSeqLists ==
    ASSUME NEW S, IsFiniteSet(S)
    PROVE  /\ SetToSeq(S) \in Seq(S)
           /\ \A i, j \in 1 .. Len(SetToSeq(S)) :
                SetToSeq(S)[i] = SetToSeq(S)[j] => i = j
           /\ \A x \in S : \E i \in 1 .. Len(SetToSeq(S)) : SetToSeq(S)[i] = x
<1> DEFINE n == Cardinality(S)
           s == SetToSeq(S)
<1>1. n \in Nat /\ ExistsBijection(1 .. n, S)
  BY FS_CardinalityType
<1>2. \E f \in [1 .. n -> S] : IsInjective(f)
  BY <1>1 DEF ExistsBijection, Bijection, Injection
<1>3. s \in [1 .. n -> S] /\ IsInjective(s)
  BY <1>2 DEF SetToSeq
<1>4. IsFiniteSet(1 .. n) /\ Cardinality(1 .. n) = n
  BY <1>1, FS_Interval
<1>5. s \in Injection(1 .. n, S)
  BY <1>3 DEF Injection
<1>6. s \in Surjection(1 .. n, S)
  BY <1>4, <1>5, FS_Injection
<1>7. s \in Seq(S) /\ Len(s) = n
  BY <1>1, <1>3
<1>8. \A i, j \in 1 .. Len(s) : s[i] = s[j] => i = j
  BY <1>3, <1>7 DEF IsInjective
<1>9. \A x \in S : \E i \in 1 .. Len(s) : s[i] = x
  BY <1>6, <1>7 DEF Surjection
<1> QED
  BY <1>7, <1>8, <1>9

\* The first element that has the key of p holds the array of p.
FirstIs(table, p) ==
    \E i \in 1 .. Len(table) :
        /\ table[i].key = p /\ table[i].value = p
        /\ \A j \in 1 .. i - 1 : table[j].key # p

Pairs == [key : Peer \union {NoOne}, value : Peer \union {NoOne}]

\* Then get answers with that array.
LEMMA FirstIsGot ==
    ASSUME elements \in Seq(Pairs), NEW p \in Peer, FirstIs(elements, p)
    PROVE  Get(p) = p
<1>1. PICK i \in 1 .. Len(elements) :
          /\ elements[i].key = p /\ elements[i].value = p
          /\ \A j \in 1 .. i - 1 : elements[j].key # p
  BY DEF FirstIs
<1>2. i \in Hits(p) /\ Hits(p) \subseteq Int
  BY <1>1 DEF Hits
<1>3. \A j \in Hits(p) : i =< j
  BY <1>1, <1>2 DEF Hits
<1>4. \A k \in Hits(p) : (\A j \in Hits(p) : k =< j) => k = i
  BY <1>2, <1>3
<1>5. Min(Hits(p)) \in Hits(p) /\ \A j \in Hits(p) : Min(Hits(p)) =< j
  BY <1>2, <1>3 DEF Min
<1>6. Min(Hits(p)) = i
  BY <1>4, <1>5
<1> QED
  BY <1>1, <1>2, <1>6 DEF Get

\* A further element, whatever it is, does not change what comes first.
LEMMA FirstStays ==
    ASSUME NEW table \in Seq(Pairs), NEW pair \in Pairs, NEW p \in Peer, FirstIs(table, p)
    PROVE  FirstIs(Append(table, pair), p)
<1>1. PICK i \in 1 .. Len(table) :
          /\ table[i].key = p /\ table[i].value = p
          /\ \A j \in 1 .. i - 1 : table[j].key # p
  BY DEF FirstIs
<1> DEFINE longer == Append(table, pair)
<1>2. Len(longer) = Len(table) + 1 /\ \A j \in 1 .. Len(table) : longer[j] = table[j]
  OBVIOUS
<1> HIDE DEF longer
<1>3. /\ i \in 1 .. Len(longer)
      /\ longer[i] = table[i]
      /\ \A j \in 1 .. i - 1 : longer[j] = table[j]
  BY <1>2
<1>4. FirstIs(longer, p)
  BY <1>1, <1>3 DEF FirstIs
<1> QED
  BY <1>4 DEF longer

\* What setUserInfo puts: one pair for every peer, in any order.
LEMMA InfoPuts ==
    LET order == SetToSeq(Group) \o SetToSeq(Friend)
        table == [i \in DOMAIN order |-> Pair(order[i], order[i])]
    IN  table \in Seq(Pairs) /\ \A p \in Peer : FirstIs(table, p)
<1> DEFINE g == SetToSeq(Group)
           f == SetToSeq(Friend)
           order == g \o f
           table == [i \in DOMAIN order |-> Pair(order[i], order[i])]
<1>1. IsFiniteSet(Group) /\ IsFiniteSet(Friend)
  BY PeerAssumption, FS_Subset DEF Peer
<1>2. /\ g \in Seq(Group) /\ f \in Seq(Friend)
      /\ \A x \in Group : \E i \in 1 .. Len(g) : g[i] = x
      /\ \A x \in Friend : \E i \in 1 .. Len(f) : f[i] = x
      /\ \A i, j \in 1 .. Len(g) : g[i] = g[j] => i = j
      /\ \A i, j \in 1 .. Len(f) : f[i] = f[j] => i = j
  BY <1>1, SetToSeqLists
<1> HIDE DEF g, f
<1>3. /\ order \in Seq(Peer)
      /\ Len(order) = Len(g) + Len(f)
      /\ \A i \in 1 .. Len(g) : order[i] = g[i]
      /\ \A i \in Len(g) + 1 .. Len(order) : order[i] = f[i - Len(g)]
  BY <1>2 DEF Peer
<1>4. \A p \in Peer : \E i \in 1 .. Len(order) : order[i] = p
  <2> TAKE p \in Peer
  <2>1. CASE p \in Group
    BY <1>2, <1>3, <2>1
  <2>2. CASE p \in Friend
    <3>1. PICK i \in 1 .. Len(f) : f[i] = p
      BY <1>2, <2>2
    <3>2. Len(g) + i \in 1 .. Len(order) /\ order[Len(g) + i] = p
      BY <1>2, <1>3, <3>1
    <3> QED
      BY <3>2
  <2> QED
    BY <2>1, <2>2 DEF Peer
\* No group has the id of a friend.
<1>5. \A i, j \in 1 .. Len(order) : order[i] = order[j] => i = j
  <2> SUFFICES ASSUME NEW i \in 1 .. Len(order), NEW j \in 1 .. Len(order),
                      order[i] = order[j]
               PROVE  i = j
    OBVIOUS
  <2>1. \A k \in 1 .. Len(order) : order[k] \in Group <=> k =< Len(g)
    <3> SUFFICES ASSUME NEW k \in 1 .. Len(order)
                 PROVE  order[k] \in Group <=> k =< Len(g)
      OBVIOUS
    <3>1. CASE k =< Len(g)
      BY <1>2, <1>3, <3>1
    <3>2. CASE k > Len(g)
      <4>1. k - Len(g) \in 1 .. Len(f) /\ order[k] = f[k - Len(g)]
        BY <1>2, <1>3, <3>2
      <4> QED
        BY <1>2, <3>2, <4>1, PeerAssumption
    <3> QED
      BY <1>2, <3>1, <3>2
  <2>2. CASE i =< Len(g) /\ j =< Len(g)
    BY <1>2, <1>3, <2>2
  <2>3. CASE i > Len(g) /\ j > Len(g)
    <3>1. /\ i - Len(g) \in 1 .. Len(f) /\ j - Len(g) \in 1 .. Len(f)
          /\ f[i - Len(g)] = f[j - Len(g)]
      BY <1>2, <1>3, <2>3
    <3>2. i - Len(g) = j - Len(g)
      BY <1>2, <3>1
    <3>3. Len(g) \in Nat
      BY <1>2
    <3> QED
      BY <3>2, <3>3
  <2>4. i =< Len(g) <=> j =< Len(g)
    BY <2>1
  <2>5. Len(g) \in Nat
    BY <1>2
  <2> QED
    BY <2>2, <2>3, <2>4, <2>5
<1> HIDE DEF order
<1>6. /\ table \in Seq(Pairs) /\ Len(table) = Len(order)
      /\ \A i \in 1 .. Len(order) : table[i] = [key |-> order[i], value |-> order[i]]
  BY <1>3 DEF Pairs, Pair
<1> HIDE DEF table
<1>7. ASSUME NEW p \in Peer
      PROVE  FirstIs(table, p)
  <2>1. PICK i \in 1 .. Len(order) : order[i] = p
    BY <1>4
  <2>2. table[i] = [key |-> p, value |-> p]
    BY <1>6, <2>1
  <2>3. \A j \in 1 .. i - 1 : table[j].key # p
    <3> TAKE j \in 1 .. i - 1
    <3>1. j \in 1 .. Len(order) /\ j # i
      BY <1>3
    <3>2. order[j] # p
      BY <1>5, <2>1, <3>1
    <3>3. table[j] = [key |-> order[j], value |-> order[j]]
      BY <1>6, <3>1
    <3> QED
      BY <3>2, <3>3
  <2>4. table[i].key = p /\ table[i].value = p
    BY <2>2
  <2> QED
    BY <1>3, <1>6, <2>3, <2>4 DEF FirstIs
<1> QED
  BY <1>6, <1>7 DEF table, order, g, f

-----------------------------------------------------------------------------
(* Types, and what every callback relies on. *)

\* Until user_info has answered nothing is shown and nobody is registered; then
\* the first element with a peer's key holds its array, and the open window
\* shows the array of its peer.
Tables ==
    /\ info # "loaded" => /\ elements = <<>> /\ heap = [p \in Peer |-> <<>>]
                          /\ window = NoOne /\ registered # "me"
    /\ info = "loaded" => \A p \in Peer : FirstIs(elements, p)
    /\ window # NoOne => msgBoxData = window
    /\ uploading => window # NoOne

\* A socket starts one timer when it opens; no count and no number is ahead of
\* the messages that were made.
Counters ==
    /\ timers + (IF socket = "connecting" THEN 1 ELSE 0) =< connects
    /\ \A p \in Peer : unreadNum[p] =< made /\ leftAt[p] =< made
    /\ IsFiniteSet(got)
    /\ \A x \in got : x[2].id =< made

PageInv == TypeOK /\ Tables /\ Counters

\* An element gives every peer its array, once user_info is loaded.
LEMMA GetGives ==
    ASSUME PageInv, info = "loaded", NEW p \in Peer
    PROVE  Get(p) = p
  BY FirstIsGot DEF PageInv, TypeOK, Tables, Pairs

\* A put keeps the types of the table and what comes first in it.
LEMMA PutKeeps ==
    ASSUME elements \in Seq(Pairs), \A p \in Peer : FirstIs(elements, p),
           NEW k \in Peer \union {NoOne}, NEW v \in Peer \union {NoOne}, Put(k, v)
    PROVE  elements' \in Seq(Pairs) /\ \A p \in Peer : FirstIs(elements', p)
<1>1. Pair(k, v) \in Pairs
  BY DEF Pair, Pairs
<1>2. elements' = Append(elements, Pair(k, v))
  BY DEF Put
<1> QED
  BY <1>1, <1>2, FirstStays

LEMMA InitPage == Init => PageInv
<1> SUFFICES ASSUME Init
             PROVE  PageInv
  OBVIOUS
<1>1. TypeOK
  <2>1. /\ 0 \in 0 .. MaxConnects /\ 1 \in 0 .. MaxConnects /\ 0 \in 0 .. MaxEntries
    BY BoundAssumption
  <2>2. heap \in [Peer -> Seq(Entry)]
    BY DEF Init
  <2>3. elements \in Seq([key : Peer \union {NoOne}, value : Peer \union {NoOne}])
    BY DEF Init
  <2> QED
    BY <2>1, <2>2, <2>3 DEF Init, TypeOK
<1>2. Tables
  BY PeerAssumption DEF Init, Tables
<1>3. Counters
  BY FS_EmptySet DEF Init, Counters
<1> QED
  BY <1>1, <1>2, <1>3 DEF PageInv

\* What a new message is: its number is the next one.
LEMMA NewEntryTyped ==
    ASSUME TypeOK, made < MaxEntries, NEW from \in {"me", "other"}
    PROVE  /\ NewEntry(from) \in Entry /\ NewEntry(from).id = made + 1
           /\ made + 1 \in 0 .. MaxEntries
  BY BoundAssumption DEF TypeOK, NewEntry, Entry

\* Pushing a message to the array of a peer keeps the type of the arrays.
LEMMA PushKeeps ==
    ASSUME heap \in [Peer -> Seq(Entry)], NEW p \in Peer, NEW e \in Entry, Push(p, e)
    PROVE  heap' \in [Peer -> Seq(Entry)]
  BY DEF Push

\* The sockets and their timers.
LEMMA SocketKeepsPage ==
    ASSUME PageInv,
           \/ SocketOpens \/ SocketBreaks \/ SocketCloses \/ TimerFires
           \/ Logout \/ LogoutAnswered
    PROVE  PageInv'
<1> USE DEF PageInv, TypeOK, Counters
<1>1. UNCHANGED <<info, chatVars, uploading>>
  BY DEF SocketOpens, SocketBreaks, SocketCloses, TimerFires, Logout, LogoutAnswered,
         pageVars
<1>2. registered' = "me" => registered = "me" \/ info = "loaded"
  BY DEF SocketOpens, SocketBreaks, SocketCloses, TimerFires, WsRegister, Logout,
         LogoutAnswered
<1>3. Tables'
  BY <1>1, <1>2 DEF Tables, chatVars
<1>4. /\ timers' \in 0 .. MaxConnects /\ connects' \in 0 .. MaxConnects
      /\ timers' + (IF socket' = "connecting" THEN 1 ELSE 0) =< connects'
      /\ socket' \in {"connecting", "open", "closing"}
      /\ logout' \in {"no", "asked", "left"}
      /\ registered' \in {"none", "nobody", "me"}
  <2>1. CASE SocketOpens
    BY <2>1, BoundAssumption DEF SocketOpens, StartTimer, pageVars
  <2>2. CASE SocketBreaks
    BY <2>2, BoundAssumption DEF SocketBreaks, pageVars
  <2>3. CASE SocketCloses
    BY <2>3, BoundAssumption DEF SocketCloses, pageVars
  <2>4. CASE TimerFires
    BY <2>4, BoundAssumption DEF TimerFires, WsRegister, pageVars
  <2>5. CASE Logout
    BY <2>5, BoundAssumption DEF Logout
  <2>6. CASE LogoutAnswered
    BY <2>6, BoundAssumption DEF LogoutAnswered
  <2> QED
    BY <2>1, <2>2, <2>3, <2>4, <2>5, <2>6
<1>5. TypeOK'
  BY <1>1, <1>4 DEF chatVars
<1>6. Counters'
  BY <1>1, <1>4 DEF chatVars
<1> QED
  BY <1>3, <1>5, <1>6

\* The answers of user_info: the table is filled before anything is read from it.
LEMMA InfoKeepsPage ==
    ASSUME PageInv, UserInfoArrives \/ UserInfoFails
    PROVE  PageInv'
<1> USE DEF PageInv, TypeOK
<1>1. CASE UserInfoArrives
  <2>1. elements' \in Seq(Pairs) /\ \A p \in Peer : FirstIs(elements', p)
    BY <1>1, InfoPuts DEF UserInfoArrives
  <2>2. /\ info = "pending" /\ info' = "loaded"
        /\ UNCHANGED <<logout, socketVars, heap, window, msgBoxData, unreadNum, made,
                       got, sent, leftAt, uploading>>
    BY <1>1 DEF UserInfoArrives
  <2>3. TypeOK'
    BY <2>1, <2>2 DEF socketVars, Pairs
  <2>4. Tables'
    BY <2>1, <2>2 DEF Tables, socketVars
  <2>5. Counters'
    BY <2>2 DEF Counters, socketVars
  <2> QED
    BY <2>3, <2>4, <2>5
<1>2. CASE UserInfoFails
  BY <1>2 DEF UserInfoFails, Tables, Counters, socketVars, chatVars
<1> QED
  BY <1>1, <1>2

\* A message arrives: it goes to the array of its conversation, which the window
\* shows or the map gives.
LEMMA ReceivePuts ==
    ASSUME PageInv, NEW p \in Peer, Receive(p)
    PROVE  /\ info = "loaded"
           /\ NewEntry("other") \in Entry /\ NewEntry("other").id = made + 1
           /\ Push(p, NewEntry("other"))
           /\ got' = got \union {<<p, NewEntry("other")>>}
           /\ made' = made + 1 /\ made + 1 \in 0 .. MaxEntries
           /\ unreadNum' = IF window = p THEN unreadNum
                           ELSE [unreadNum EXCEPT ![p] = @ + 1]
           /\ \E k, v \in Peer \union {NoOne} : Put(k, v)
           /\ UNCHANGED <<pageVars, socketVars, window, msgBoxData, sent, leftAt, uploading>>
<1>1. info = "loaded" /\ made < MaxEntries
  BY DEF Receive, PageInv, Tables
<1>2. /\ NewEntry("other") \in Entry /\ NewEntry("other").id = made + 1
      /\ made + 1 \in 0 .. MaxEntries
  BY <1>1, NewEntryTyped DEF PageInv
<1>3. Get(p) = p
  BY <1>1, GetGives
<1>4. window = p => msgBoxData = p
  BY PeerAssumption DEF PageInv, Tables
<1>5. Push(p, NewEntry("other"))
  BY <1>3, <1>4 DEF Receive, IsShown
<1>6. \E k, v \in Peer \union {NoOne} : Put(k, v)
  <2>1. CASE window = p
    BY <1>4, <2>1 DEF Receive, IsShown
  <2>2. CASE window # p
    BY <2>2 DEF Receive, IsShown
  <2> QED
    BY <2>1, <2>2
<1> QED
  BY <1>1, <1>2, <1>5, <1>6 DEF Receive, IsShown

LEMMA ReceiveKeepsPage ==
    ASSUME PageInv, NEW p \in Peer, Receive(p)
    PROVE  PageInv'
<1> DEFINE e == NewEntry("other")
<1>1. /\ info = "loaded" /\ e \in Entry /\ e.id = made + 1 /\ Push(p, e)
      /\ got' = got \union {<<p, e>>}
      /\ made' = made + 1 /\ made + 1 \in 0 .. MaxEntries
      /\ unreadNum' = IF window = p THEN unreadNum ELSE [unreadNum EXCEPT ![p] = @ + 1]
      /\ \E k, v \in Peer \union {NoOne} : Put(k, v)
      /\ UNCHANGED <<pageVars, socketVars, window, msgBoxData, sent, leftAt, uploading>>
  BY ReceivePuts
<1> HIDE DEF e
<1>2. elements' \in Seq(Pairs) /\ \A q \in Peer : FirstIs(elements', q)
  BY <1>1, PutKeeps DEF PageInv, TypeOK, Tables, Pairs
<1>3. heap' \in [Peer -> Seq(Entry)]
  BY <1>1, PushKeeps DEF PageInv, TypeOK
<1>4. /\ unreadNum' \in [Peer -> 0 .. MaxEntries]
      /\ \A q \in Peer : unreadNum'[q] =< made' /\ leftAt'[q] =< made'
  BY <1>1, BoundAssumption DEF PageInv, TypeOK, Counters
<1>5. TypeOK'
  <2>1. got' \in SUBSET (Peer \X Entry)
    BY <1>1 DEF PageInv, TypeOK
  <2> QED
    BY <1>1, <1>2, <1>3, <1>4, <2>1 DEF PageInv, TypeOK, Pairs, pageVars, socketVars
<1>6. Tables'
  BY <1>1, <1>2 DEF PageInv, Tables, pageVars
<1>7. IsFiniteSet(got')
  BY <1>1, FS_AddElement DEF PageInv, Counters
<1>8. \A x \in got' : x[2].id =< made'
  <2>1. \A x \in got : x[2].id \in Int
    BY BoundAssumption DEF PageInv, TypeOK, Entry
  <2>2. \A x \in got : x[2].id =< made'
    BY <1>1, <2>1 DEF PageInv, TypeOK, Counters
  <2>3. <<p, e>>[2].id =< made'
    BY <1>1
  <2> QED
    BY <1>1, <2>2, <2>3
<1>9. Counters'
  BY <1>1, <1>4, <1>7, <1>8 DEF PageInv, Counters, socketVars
<1> QED
  BY <1>5, <1>6, <1>9 DEF PageInv

\* The user writes, or an upload is answered: the message goes to the array of the
\* conversation that is open by now.
LEMMA ShowAndSendPuts ==
    ASSUME PageInv, window # NoOne, ShowAndSend
    PROVE  /\ info = "loaded" /\ window \in Peer
           /\ NewEntry("me") \in Entry
           /\ Push(window, NewEntry("me"))
           /\ sent' \in {sent, sent \union {<<window, NewEntry("me")>>}}
           /\ made' = made + 1 /\ made + 1 \in 0 .. MaxEntries
           /\ \E k, v \in Peer \union {NoOne} : Put(k, v)
           /\ UNCHANGED <<pageVars, socketVars, window, msgBoxData, unreadNum, got, leftAt>>
<1>1. info = "loaded" /\ window \in Peer /\ msgBoxData = window
  BY DEF PageInv, TypeOK, Tables
<1>2. NewEntry("me") \in Entry /\ made + 1 \in 0 .. MaxEntries
  BY NewEntryTyped DEF PageInv, ShowAndSend
<1> QED
  BY <1>1, <1>2 DEF ShowAndSend

LEMMA WriteKeepsPage ==
    ASSUME PageInv, SendMessage \/ UploadAnswered
    PROVE  PageInv'
<1> DEFINE e == NewEntry("me")
<1>1. window # NoOne /\ ShowAndSend /\ (uploading' = uploading \/ uploading' = FALSE)
  BY DEF SendMessage, UploadAnswered, PageInv, TypeOK, Tables
<1>2. /\ info = "loaded" /\ window \in Peer /\ e \in Entry /\ Push(window, e)
      /\ sent' \in {sent, sent \union {<<window, e>>}}
      /\ made' = made + 1 /\ made + 1 \in 0 .. MaxEntries
      /\ \E k, v \in Peer \union {NoOne} : Put(k, v)
      /\ UNCHANGED <<pageVars, socketVars, window, msgBoxData, unreadNum, got, leftAt>>
  BY <1>1, ShowAndSendPuts
<1> HIDE DEF e
<1>3. elements' \in Seq(Pairs) /\ \A q \in Peer : FirstIs(elements', q)
  BY <1>2, PutKeeps DEF PageInv, TypeOK, Tables, Pairs
<1>4. heap' \in [Peer -> Seq(Entry)]
  BY <1>2, PushKeeps DEF PageInv, TypeOK
<1>5. TypeOK'
  <2>1. sent' \in SUBSET (Peer \X Entry)
    BY <1>2 DEF PageInv, TypeOK
  <2>2. uploading' \in BOOLEAN
    BY <1>1 DEF PageInv, TypeOK
  <2> QED
    BY <1>2, <1>3, <1>4, <2>1, <2>2 DEF PageInv, TypeOK, Pairs, pageVars, socketVars
<1>6. Tables'
  BY <1>1, <1>2, <1>3 DEF PageInv, Tables, pageVars
<1>7. Counters'
  <2>1. \A x \in got : x[2].id \in Int
    BY BoundAssumption DEF PageInv, TypeOK, Entry
  <2>2. \A q \in Peer : unreadNum[q] \in Int /\ leftAt[q] \in Int
    BY BoundAssumption DEF PageInv, TypeOK
  <2>3. made \in Int
    BY BoundAssumption DEF PageInv, TypeOK
  <2> QED
    BY <1>2, <2>1, <2>2, <2>3 DEF PageInv, Counters, socketVars
<1> QED
  BY <1>5, <1>6, <1>7 DEF PageInv

\* A window opens on the array of its peer.
LEMMA OpenKeepsPage ==
    ASSUME PageInv, NEW p \in Peer, OpenWindow(p)
    PROVE  PageInv'
<1>1. info = "loaded" /\ Get(p) = p
  BY GetGives DEF OpenWindow
<1>2. /\ window' = p /\ msgBoxData' = p
      /\ unreadNum' = [unreadNum EXCEPT ![p] = 0]
      /\ leftAt' = IF window = NoOne THEN leftAt ELSE [leftAt EXCEPT ![window] = made]
      /\ UNCHANGED <<pageVars, socketVars, heap, elements, made, got, sent, uploading>>
  BY <1>1 DEF OpenWindow, ResetUnread
<1>3. p # NoOne
  BY PeerAssumption
<1>4. /\ unreadNum' \in [Peer -> 0 .. MaxEntries] /\ leftAt' \in [Peer -> 0 .. MaxEntries]
      /\ \A q \in Peer : unreadNum'[q] =< made /\ leftAt'[q] =< made
  BY <1>2, BoundAssumption DEF PageInv, TypeOK, Counters
<1>5. TypeOK'
  BY <1>2, <1>4 DEF PageInv, TypeOK, pageVars, socketVars
<1>6. Tables'
  BY <1>1, <1>2, <1>3 DEF PageInv, Tables, pageVars
<1>7. Counters'
  BY <1>2, <1>4 DEF PageInv, Counters, socketVars
<1> QED
  BY <1>5, <1>6, <1>7 DEF PageInv

LEMMA StepPage == PageInv /\ [Next]_vars => PageInv'
<1> SUFFICES ASSUME PageInv, [Next]_vars
             PROVE  PageInv'
  OBVIOUS
<1>1. CASE UserInfoArrives \/ UserInfoFails
  BY <1>1, InfoKeepsPage
<1>2. CASE \/ SocketOpens \/ SocketBreaks \/ SocketCloses \/ TimerFires
           \/ Logout \/ LogoutAnswered
  BY <1>2, SocketKeepsPage
<1>3. ASSUME NEW p \in Peer, Receive(p)
      PROVE  PageInv'
  BY <1>3, ReceiveKeepsPage
<1>4. ASSUME NEW p \in Peer, OpenWindow(p)
      PROVE  PageInv'
  BY <1>4, OpenKeepsPage
<1>5. CASE SendMessage \/ UploadAnswered
  BY <1>5, WriteKeepsPage
<1>6. CASE ChooseFile \/ UploadFails \/ UNCHANGED vars
  <2>1. UNCHANGED <<pageVars, socketVars, chatVars>>
    BY <1>6 DEF ChooseFile, UploadFails, vars
  <2>2. uploading' \in BOOLEAN /\ (uploading' => window # NoOne)
    <3>1. \/ uploading' = TRUE /\ window # NoOne
          \/ uploading' = FALSE
          \/ uploading' = uploading
      BY <1>6 DEF ChooseFile, UploadFails, vars
    <3>2. uploading \in BOOLEAN /\ (uploading => window # NoOne)
      BY DEF PageInv, TypeOK, Tables
    <3>3. CASE uploading' = TRUE /\ window # NoOne
      BY <3>3
    <3>4. CASE uploading' = FALSE
      BY <3>4
    <3>5. CASE uploading' = uploading
      <4>1. CASE uploading = TRUE
        BY <3>2, <3>5, <4>1
      <4>2. CASE uploading = FALSE
        BY <3>5, <4>2
      <4> QED
        BY <3>2, <4>1, <4>2
    <3> QED
      BY <3>1, <3>3, <3>4, <3>5
  <2> QED
    BY <2>1, <2>2 DEF PageInv, TypeOK, Tables, Counters, pageVars, socketVars, chatVars
<1> QED
  BY <1>1, <1>2, <1>3, <1>4, <1>5, <1>6 DEF Next

LEMMA PageAlways == Spec => []PageInv
  BY InitPage, StepPage, PTL DEF Spec

\* Every variable of the page keeps its type, whatever order the callbacks run in:
\* no message is ever taken for the array of a conversation, though both are values
\* of one table.
THEOREM TypeCorrect == Spec => []TypeOK
<1>1. PageInv => TypeOK
  BY DEF PageInv
<1> QED
  BY PageAlways, <1>1, PTL

\* The open window shows the array that the map gives for its conversation, however
\* many messages were put since (lines 407-439, 527-529).
THEOREM WindowIsItsLog == Spec => []WindowShowsItsLog
<1>1. PageInv => WindowShowsItsLog
  <2> SUFFICES ASSUME PageInv, window # NoOne
               PROVE  msgBoxData = Get(window) /\ msgBoxData # NoOne
    BY DEF WindowShowsItsLog
  <2>1. info = "loaded" /\ window \in Peer /\ msgBoxData = window
    BY DEF PageInv, TypeOK, Tables
  <2> QED
    BY <2>1, GetGives
<1> QED
  BY PageAlways, <1>1, PTL

-----------------------------------------------------------------------------
(* The badges. *)

\* What arrived for a conversation since its window was left.
News(p) == {x \in got : x[1] = p /\ x[2].id > leftAt[p]}

LEMMA InitUnread == Init => UnreadCounts
<1> SUFFICES ASSUME Init, NEW p \in Peer
             PROVE  unreadNum[p] = IF window = p THEN 0 ELSE Cardinality(News(p))
  BY DEF UnreadCounts, News
<1>1. News(p) = {} /\ unreadNum[p] = 0
  BY DEF Init, News
<1> QED
  BY <1>1, FS_EmptySet

\* A message for a conversation whose window is not open is one more unread; its
\* number is above all earlier ones, so it is new in the set.
LEMMA ReceiveCounts ==
    ASSUME PageInv, UnreadCounts, NEW p \in Peer, Receive(p)
    PROVE  UnreadCounts'
<1> DEFINE e == NewEntry("other")
<1>1. /\ e \in Entry /\ e.id = made + 1
      /\ got' = got \union {<<p, e>>}
      /\ unreadNum' = IF window = p THEN unreadNum ELSE [unreadNum EXCEPT ![p] = @ + 1]
      /\ UNCHANGED <<window, leftAt>>
  BY ReceivePuts
<1> HIDE DEF e
<1> SUFFICES ASSUME NEW q \in Peer
             PROVE  unreadNum'[q] = IF window = q THEN 0 ELSE Cardinality(News(q)')
  BY <1>1 DEF UnreadCounts, News
<1>2. unreadNum[q] = IF window = q THEN 0 ELSE Cardinality(News(q))
  BY DEF UnreadCounts, News
<1>3. unreadNum \in [Peer -> Nat]
  BY BoundAssumption DEF PageInv, TypeOK
<1>4. CASE q # p
  <2>1. News(q)' = News(q)
    BY <1>1, <1>4 DEF News
  <2> QED
    BY <1>1, <1>2, <1>3, <1>4, <2>1
<1>5. CASE q = p /\ window = p
  BY <1>1, <1>2, <1>5
<1>6. CASE q = p /\ window # p
  <2>1. leftAt[p] =< made /\ leftAt[p] \in Int /\ made \in Int
    BY BoundAssumption DEF PageInv, TypeOK, Counters
  <2>2. News(p)' = News(p) \union {<<p, e>>}
    BY <1>1, <2>1 DEF News
  <2>3. <<p, e>> \notin News(p)
    BY <1>1, <2>1 DEF News, PageInv, Counters
  <2>4. IsFiniteSet(News(p))
    BY FS_Subset DEF News, PageInv, Counters
  <2>5. Cardinality(News(p)') = Cardinality(News(p)) + 1
    BY <2>2, <2>3, <2>4, FS_AddElement
  <2> QED
    BY <1>1, <1>2, <1>3, <1>6, <2>5
<1> QED
  BY <1>4, <1>5, <1>6

\* Opening a window clears its badge; of the window that is left nothing is new,
\* since its badge was empty while it was open.
LEMMA OpenCounts ==
    ASSUME PageInv, UnreadCounts, NEW p \in Peer, OpenWindow(p)
    PROVE  UnreadCounts'
<1>1. /\ window' = p
      /\ unreadNum' = [unreadNum EXCEPT ![p] = 0]
      /\ leftAt' = IF window = NoOne THEN leftAt ELSE [leftAt EXCEPT ![window] = made]
      /\ got' = got
  BY DEF OpenWindow, ResetUnread
<1>2. unreadNum \in [Peer -> Nat] /\ leftAt \in [Peer -> Nat]
  BY BoundAssumption DEF PageInv, TypeOK
<1> SUFFICES ASSUME NEW q \in Peer
             PROVE  unreadNum'[q] = IF p = q THEN 0 ELSE Cardinality(News(q)')
  BY <1>1 DEF UnreadCounts, News
<1>3. unreadNum[q] = IF window = q THEN 0 ELSE Cardinality(News(q))
  BY DEF UnreadCounts, News
<1>4. CASE q = p
  BY <1>1, <1>2, <1>4
<1>5. CASE q # p /\ window = q
  <2>1. leftAt'[q] = made
    BY <1>1, <1>2, <1>5, PeerAssumption
  <2>2. \A x \in got : ~(x[2].id > made)
    <3>1. made \in Int /\ \A x \in got : x[2].id \in Int
      BY BoundAssumption DEF PageInv, TypeOK, Entry
    <3> QED
      BY <3>1 DEF PageInv, Counters
  <2>3. News(q)' = {}
    BY <1>1, <2>1, <2>2 DEF News
  <2> QED
    BY <1>1, <1>2, <1>3, <1>5, <2>3, FS_EmptySet
<1>6. CASE q # p /\ window # q
  <2>1. leftAt'[q] = leftAt[q]
    BY <1>1, <1>2, <1>6 DEF PageInv, TypeOK
  <2>2. News(q)' = News(q)
    BY <1>1, <2>1 DEF News
  <2> QED
    BY <1>1, <1>2, <1>3, <1>6, <2>2
<1> QED
  BY <1>4, <1>5, <1>6

LEMMA StepUnread == PageInv /\ UnreadCounts /\ [Next]_vars => UnreadCounts'
<1> SUFFICES ASSUME PageInv, UnreadCounts, [Next]_vars
             PROVE  UnreadCounts'
  OBVIOUS
<1>1. ASSUME NEW p \in Peer, Receive(p)
      PROVE  UnreadCounts'
  BY <1>1, ReceiveCounts
<1>2. ASSUME NEW p \in Peer, OpenWindow(p)
      PROVE  UnreadCounts'
  BY <1>2, OpenCounts
<1>3. CASE UNCHANGED <<window, unreadNum, got, leftAt>>
  BY <1>3 DEF UnreadCounts
<1>4. \/ \E p \in Peer : Receive(p) \/ OpenWindow(p)
      \/ UNCHANGED <<window, unreadNum, got, leftAt>>
  BY DEF Next, vars, chatVars, UserInfoArrives, UserInfoFails, SocketOpens, SocketBreaks,
         SocketCloses, TimerFires, Logout, LogoutAnswered, SendMessage, ShowAndSend,
         ChooseFile, UploadAnswered, UploadFails
<1> QED
  BY <1>1, <1>2, <1>3, <1>4

\* The badge of a conversation counts what arrived for it since its window was left
\* (lines 417 and 442 against 478 and 490).
THEOREM BadgesCount == Spec => []UnreadCounts
  BY PageAlways, InitUnread, StepUnread, PTL DEF Spec

-----------------------------------------------------------------------------
(* The page implements ChatLog. *)

\* The log of the refinement is the array of the conversation.
LogOf == [p \in Peer |-> IF Get(p) \in Peer THEN heap[Get(p)] ELSE <<>>]

LEMMA LogIsHeap == PageInv => LogOf = heap
<1> SUFFICES ASSUME PageInv
             PROVE  LogOf = heap
  OBVIOUS
<1>1. CASE info = "loaded"
  BY <1>1, GetGives DEF LogOf, PageInv, TypeOK
<1>2. CASE info # "loaded"
  <2>1. \A p \in Peer : Get(p) = NoOne
    BY <1>2 DEF PageInv, Tables, Get, Hits
  <2> QED
    BY <1>2, <2>1, PeerAssumption DEF LogOf, PageInv, Tables
<1> QED
  BY <1>1, <1>2

LEMMA InitIsLog == Init => Log!Init
<1> SUFFICES ASSUME Init
             PROVE  Log!Init
  OBVIOUS
<1>1. LogOf = heap
  BY InitPage, LogIsHeap
<1> QED
  BY <1>1 DEF Init, Log!Init, LogOf

LEMMA StepIsLog == PageInv /\ PageInv' /\ [Next]_vars => [Log!Next]_(Log!vars)
<1> SUFFICES ASSUME PageInv, PageInv', [Next]_vars
             PROVE  [Log!Next]_(Log!vars)
  OBVIOUS
<1>1. LogOf = heap /\ LogOf' = heap'
  <2>1. PageInv' => (LogOf = heap)'
    BY LogIsHeap, PTL
  <2> QED
    BY <2>1, LogIsHeap
<1>2. ASSUME NEW p \in Peer, Receive(p)
      PROVE  Log!Next
  <2>1. /\ NewEntry("other") \in Entry /\ Push(p, NewEntry("other"))
        /\ got' = got \union {<<p, NewEntry("other")>>} /\ sent' = sent
    BY <1>2, ReceivePuts
  <2>2. Log!Receive(p, NewEntry("other"))
    BY <1>1, <2>1 DEF Log!Receive, Log!Append1, LogOf, Push
  <2> QED
    BY <2>1, <2>2 DEF Log!Next
<1>3. CASE SendMessage \/ UploadAnswered
  <2>1. window # NoOne /\ ShowAndSend
    BY <1>3 DEF SendMessage, UploadAnswered, PageInv, Tables
  <2>2. /\ window \in Peer /\ NewEntry("me") \in Entry /\ Push(window, NewEntry("me"))
        /\ sent' \in {sent, sent \union {<<window, NewEntry("me")>>}} /\ got' = got
    BY <2>1, ShowAndSendPuts
  <2>3. Log!Write(window, NewEntry("me"))
    BY <1>1, <2>2 DEF Log!Write, Log!Append1, LogOf, Push
  <2> QED
    BY <2>2, <2>3 DEF Log!Next
<1>4. CASE UNCHANGED <<heap, got, sent>>
  BY <1>1, <1>4 DEF Log!vars, LogOf
<1>5. \/ \E p \in Peer : Receive(p)
      \/ SendMessage \/ UploadAnswered
      \/ UNCHANGED <<heap, got, sent>>
  BY DEF Next, vars, chatVars, UserInfoArrives, UserInfoFails, SocketOpens, SocketBreaks,
         SocketCloses, TimerFires, Logout, LogoutAnswered, OpenWindow, ChooseFile,
         UploadFails
<1> QED
  BY <1>2, <1>3, <1>4, <1>5

\* The page implements ChatLog: what is received or written is appended to the log
\* of its conversation and of no other, and nothing is removed, changed or moved.
THEOREM PageImplementsLog == Spec => ImplementsLog
  BY PageAlways, InitIsLog, StepIsLog, PTL DEF Spec, ImplementsLog, Log!Spec

=============================================================================
