------------------------ MODULE OldChatClientProofs ------------------------
(* Proofs about OldChatClient, for any lists, table and bound. *)
EXTENDS OldChatClient, FiniteSetTheorems, TLAPS

-----------------------------------------------------------------------------
(* Operators of the model. *)

\* A set of numbers that is not empty has a smallest one, and Min is it.
LEMMA MinIsLeast ==
    ASSUME NEW S, S \subseteq Nat, S # {}
    PROVE  Min(S) \in S /\ \A y \in S : Min(S) =< y
<1> DEFINE R == OpToRel(<, Nat)
<1>1. IsWellFoundedOn(R, Nat)
  BY NatLessThanWellFounded
<1>2. \A x, y \in Nat : x < y => <<x, y>> \in R
  BY DEF OpToRel
<1> HIDE DEF R
<1>3. PICK x \in S : \A y \in S : ~ (<<y, x>> \in R)
  BY <1>1, WFMin
<1>4. \A y \in S : x =< y
  <2> TAKE y \in S
  <2>1. x \in Nat /\ y \in Nat /\ ~ (y < x)
    BY <1>2, <1>3
  <2> QED
    BY <2>1
<1> QED
  BY <1>3, <1>4 DEF Min

\* SetToSeq lists every element of a finite set, and each once.
LEMMA SetToSeqLists ==
    ASSUME NEW S, IsFiniteSet(S)
    PROVE  /\ SetToSeq(S) \in Seq(S) /\ Len(SetToSeq(S)) = Cardinality(S)
           /\ \A i, j \in 1 .. Len(SetToSeq(S)) :
                SetToSeq(S)[i] = SetToSeq(S)[j] => i = j
           /\ \A x \in S : \E i \in 1 .. Len(SetToSeq(S)) : SetToSeq(S)[i] = x
<1> DEFINE n == Cardinality(S)
           s == SetToSeq(S)
<1>1. n \in Nat /\ ExistsBijection(1 .. n, S)
  BY FS_CardinalityType
<1>2. \E f \in [1 .. n -> S] : IsInjective(f)
  BY <1>1 DEF ExistsBijection, Bijection, Injection
<1>3. s \in [1 .. n -> S] /\ IsInjective(s)
  BY <1>2 DEF SetToSeq
<1>4. IsFiniteSet(1 .. n) /\ Cardinality(1 .. n) = n
  BY <1>1, FS_Interval
<1>5. s \in Injection(1 .. n, S)
  BY <1>3 DEF Injection
<1>6. s \in Surjection(1 .. n, S)
  BY <1>4, <1>5, FS_Injection
<1>7. s \in Seq(S) /\ Len(s) = n
  BY <1>1, <1>3
<1>8. \A i, j \in 1 .. Len(s) : s[i] = s[j] => i = j
  BY <1>3, <1>7 DEF IsInjective
<1>9. \A x \in S : \E i \in 1 .. Len(s) : s[i] = x
  BY <1>6, <1>7 DEF Surjection
<1> QED
  BY <1>7, <1>8, <1>9

\* The table knows the ids that were put, and gives each its own array.
LEMMA TableKnows ==
    ASSUME NEW p
    PROVE  /\ Known(p) <=> p \in Key
           /\ p \in Key => Table!get(tableElements, p) = p
<1>1. /\ DOMAIN TableKeys = 1 .. Len(TableKeys) /\ DOMAIN tableElements = DOMAIN TableKeys
      /\ \A i \in DOMAIN TableKeys : tableElements[i].key = TableKeys[i] /\ tableElements[i].value = TableKeys[i]
  BY OldIdsAssumption DEF tableElements
<1>2. Known(p) <=> p \in Key
  BY <1>1 DEF Known, Table!containsKey, Table!AtKey, Key, Range
<1>3. ASSUME p \in Key
      PROVE  Table!get(tableElements, p) = p
  <2> DEFINE at == Table!AtKey(tableElements, p)
  <2>1. at # {} /\ at \subseteq Nat
    BY <1>1, <1>2, <1>3 DEF Known, Table!containsKey, Table!AtKey
  <2>2. Min(at) \in at
    BY <2>1, MinIsLeast
  <2>3. tableElements[Min(at)].value = p
    BY <1>1, <2>2 DEF Table!AtKey
  <2> QED
    BY <2>1, <2>3 DEF Table!get, Table!Min, Min
<1> QED
  BY <1>2, <1>3

-----------------------------------------------------------------------------
(* The list on the left. *)

Item == [peer : Listed, badge : Nat, bg : BOOLEAN, handlers : {1}]

\* Every listed peer has one entry, the marked one is the conversation that is open,
\* and nothing is open before the list is there.
Entries(l) ==
    /\ l \in Seq(Item)
    /\ \A i, j \in 1 .. Len(l) : l[i].peer = l[j].peer => i = j
    /\ \A i \in 1 .. Len(l) : l[i].bg <=> l[i].peer = toId
    /\ Len(l) = Cardinality(Listed)
    /\ \A p \in Listed : \E i \in 1 .. Len(l) : l[i].peer = p

Listing ==
    /\ loaded \in BOOLEAN /\ toId \in Listed \union {Nobody}
    /\ loaded => Entries(list)
    /\ ~loaded => list = <<>> /\ toId = Nobody

LEMMA InitListing ==
    ASSUME OldInit
    PROVE  Listing
  BY DEF OldInit, Listing

\* Where the entry at place j was, when that at place i was moved to the top.
Was(i, j) == IF j = 1 THEN i ELSE IF j - 1 < i THEN j - 1 ELSE j

LEMMA WasOneOfThem ==
    ASSUME NEW n \in Nat, NEW i \in 1 .. n
    PROVE  /\ \A j \in 1 .. n : Was(i, j) \in 1 .. n
           /\ \A j, k \in 1 .. n : Was(i, j) = Was(i, k) => j = k
           /\ \A j \in 1 .. n : \E k \in 1 .. n : Was(i, k) = j
           /\ \A j, k \in 2 .. n : j < k => Was(i, j) < Was(i, k)
           /\ \A j \in 2 .. n : Was(i, j) # i
<1>1. \A j \in 1 .. n : \E k \in 1 .. n : Was(i, k) = j
  <2> TAKE j \in 1 .. n
  <2>1. CASE j = i
    BY <2>1 DEF Was
  <2>2. CASE j < i
    <3>1. j + 1 \in 1 .. n /\ Was(i, j + 1) = j
      BY <2>2 DEF Was
    <3> QED
      BY <3>1
  <2>3. CASE j > i
    <3>1. Was(i, j) = j
      BY <2>3 DEF Was
    <3> QED
      BY <3>1
  <2> QED
    BY <2>1, <2>2, <2>3
<1> QED
  BY <1>1 DEF Was

\* Taking an entry out and putting its copy on top only changes the order.
LEMMA MoveUpKeeps ==
    ASSUME Entries(list), NEW i \in 1 .. Len(list), NEW badge \in Nat, MoveUp(i, badge)
    PROVE  /\ list' \in Seq(Item) /\ Len(list') = Len(list)
           /\ list'[1].badge = badge
           /\ \A j \in 1 .. Len(list) :
                /\ list'[j].peer = list[Was(i, j)].peer
                /\ list'[j].bg = list[Was(i, j)].bg
           /\ \A j \in 2 .. Len(list) : list'[j] = list[Was(i, j)]
<1> DEFINE n == Len(list)
           top == [list[i] EXCEPT !.badge = badge, !.handlers = 1]
           rest == RemoveAt(list, i)
<1>1. list \in Seq(Item) /\ n \in Nat /\ i \in 1 .. n
  BY DEF Entries
<1>2. /\ top \in Item /\ top.peer = list[i].peer /\ top.bg = list[i].bg
      /\ top.badge = badge
  <2>1. list[i] \in Item
    BY <1>1
  <2> QED
    BY <2>1 DEF Item
<1>3. /\ rest \in Seq(Item) /\ Len(rest) = n - 1
      /\ \A j \in 1 .. n - 1 : rest[j] = list[IF j < i THEN j ELSE j + 1]
  <2> DEFINE a == SubSeq(list, 1, i - 1)
             b == SubSeq(list, i + 1, n)
  <2>1. a \in Seq(Item) /\ Len(a) = i - 1 /\ \A j \in 1 .. i - 1 : a[j] = list[j]
    BY <1>1
  <2>2. b \in Seq(Item) /\ Len(b) = n - i /\ \A j \in 1 .. n - i : b[j] = list[i + j]
    BY <1>1
  <2>3. rest = a \o b
    BY DEF RemoveAt
  <2> HIDE DEF a, b, rest
  <2>4. /\ rest \in Seq(Item) /\ Len(rest) = Len(a) + Len(b)
        /\ \A j \in 1 .. Len(a) : rest[j] = a[j]
        /\ \A j \in Len(a) + 1 .. Len(a) + Len(b) : rest[j] = b[j - Len(a)]
    <3>1. a \in Seq(Item) /\ b \in Seq(Item)
      BY <2>1, <2>2
    <3> QED
      BY <3>1, <2>3
  <2>5. ASSUME NEW j \in 1 .. n - 1
        PROVE  rest[j] = list[IF j < i THEN j ELSE j + 1]
    <3>1. CASE j < i
      BY <1>1, <2>1, <2>4, <3>1
    <3>2. CASE j >= i
      <4>1. j - Len(a) \in 1 .. n - i /\ rest[j] = b[j - Len(a)]
        BY <1>1, <2>1, <2>2, <2>4, <3>2
      <4>2. i + (j - Len(a)) = j + 1
        BY <1>1, <2>1
      <4>3. b[j - Len(a)] = list[i + (j - Len(a))]
        BY <2>2, <4>1
      <4>4. ~ (j < i)
        BY <1>1, <3>2
      <4> QED
        BY <4>1, <4>2, <4>3, <4>4
    <3> QED
      BY <1>1, <3>1, <3>2
  <2>6. Len(rest) = n - 1
    <3>1. i \in Int /\ n \in Int
      BY <1>1
    <3>2. Len(rest) = (i - 1) + (n - i)
      BY <2>1, <2>2, <2>4
    <3> QED
      BY <3>1, <3>2
  <2> QED
    BY <2>4, <2>5, <2>6
<1>4. list' = <<top>> \o rest
  BY DEF MoveUp
<1> HIDE DEF top, rest
<1>5. /\ list' \in Seq(Item) /\ Len(list') = n /\ list'[1] = top
      /\ \A j \in 2 .. n : list'[j] = rest[j - 1]
  BY <1>1, <1>2, <1>3, <1>4
<1>6. \A j \in 2 .. n : list'[j] = list[Was(i, j)]
  <2> TAKE j \in 2 .. n
  <2>1. j - 1 \in 1 .. n - 1 /\ list'[j] = rest[j - 1]
    BY <1>1, <1>5
  <2>2. rest[j - 1] = list[IF j - 1 < i THEN j - 1 ELSE j]
    BY <1>1, <1>3, <2>1
  <2> QED
    BY <1>1, <2>1, <2>2 DEF Was
<1>7. \A j \in 1 .. n :
          list'[j].peer = list[Was(i, j)].peer /\ list'[j].bg = list[Was(i, j)].bg
  <2> TAKE j \in 1 .. n
  <2>1. CASE j = 1
    BY <1>1, <1>2, <1>5, <2>1 DEF Was
  <2>2. CASE j \in 2 .. n
    BY <1>6, <2>2
  <2> QED
    BY <1>1, <2>1, <2>2
<1> QED
  BY <1>2, <1>5, <1>6, <1>7

\* So the list stays what it is, for the conversation that was open.
LEMMA MovedIsListing ==
    ASSUME Listing, loaded, NEW i \in 1 .. Len(list), NEW badge \in Nat, MoveUp(i, badge),
           UNCHANGED <<loaded, toId>>
    PROVE  Listing'
<1>1. Entries(list)
  BY DEF Listing
<1>2. /\ list' \in Seq(Item) /\ Len(list') = Len(list)
      /\ \A j \in 1 .. Len(list) :
           list'[j].peer = list[Was(i, j)].peer /\ list'[j].bg = list[Was(i, j)].bg
  BY <1>1, MoveUpKeeps
<1>3. /\ \A j \in 1 .. Len(list) : Was(i, j) \in 1 .. Len(list)
      /\ \A j, k \in 1 .. Len(list) : Was(i, j) = Was(i, k) => j = k
      /\ \A j \in 1 .. Len(list) : \E k \in 1 .. Len(list) : Was(i, k) = j
  <2>1. Len(list) \in Nat
    BY <1>1 DEF Entries
  <2> QED
    BY <2>1, WasOneOfThem
<1>4. \A j, k \in 1 .. Len(list') : list'[j].peer = list'[k].peer => j = k
  <2> SUFFICES ASSUME NEW j \in 1 .. Len(list), NEW k \in 1 .. Len(list),
                      list'[j].peer = list'[k].peer
               PROVE  j = k
    BY <1>2
  <2>1. list[Was(i, j)].peer = list[Was(i, k)].peer
    BY <1>2
  <2>2. Was(i, j) = Was(i, k)
    BY <1>1, <1>3, <2>1 DEF Entries
  <2> QED
    BY <1>3, <2>2
<1>5. \A j \in 1 .. Len(list') : list'[j].bg <=> list'[j].peer = toId'
  <2> TAKE j \in 1 .. Len(list')
  <2>1. list'[j].peer = list[Was(i, j)].peer /\ list'[j].bg = list[Was(i, j)].bg
    BY <1>2
  <2>2. list[Was(i, j)].bg <=> list[Was(i, j)].peer = toId
    BY <1>1, <1>2, <1>3 DEF Entries
  <2> QED
    BY <2>1, <2>2
<1>6. \A p \in Listed : \E j \in 1 .. Len(list') : list'[j].peer = p
  <2> TAKE p \in Listed
  <2>1. PICK at \in 1 .. Len(list) : list[at].peer = p
    BY <1>1 DEF Entries
  <2>2. PICK k \in 1 .. Len(list) : Was(i, k) = at
    BY <1>3
  <2> QED
    BY <1>2, <2>1, <2>2
<1>7. Entries(list)'
  BY <1>1, <1>2, <1>4, <1>5, <1>6 DEF Entries
<1> QED
  BY <1>7 DEF Listing

\* Where an entry is looked for there is one, and it is the entry of the peer.
LEMMA PlaceIs ==
    ASSUME Listing, NEW p \in Listed, Place(p) # {}
    PROVE  loaded /\ Min(Place(p)) \in 1 .. Len(list) /\ list[Min(Place(p))].peer = p
<1>1. loaded /\ Place(p) \subseteq Nat /\ DOMAIN list = 1 .. Len(list)
  BY DEF Listing, Entries, Place
<1>2. Min(Place(p)) \in Place(p)
  BY <1>1, MinIsLeast
<1> QED
  BY <1>1, <1>2 DEF Place

LEMMA ReceivingKeeps ==
    ASSUME Listing, NEW p, Receiving(p), UNCHANGED <<loaded, toId>>
    PROVE  Listing'
<1>1. CASE Place(p) = {}
  BY <1>1 DEF Receiving, Listing, Entries
<1>2. CASE Place(p) # {}
  <2> DEFINE i == Min(Place(p))
  <2>1. loaded /\ Place(p) \subseteq Nat /\ DOMAIN list = 1 .. Len(list) /\ list \in Seq(Item)
    BY <1>2 DEF Listing, Entries, Place
  <2>2. i \in 1 .. Len(list)
    BY <1>2, <2>1, MinIsLeast DEF Place
  <2>3. list[i].badge + 1 \in Nat
    <3>1. list[i] \in Item
      BY <2>1, <2>2
    <3> QED
      BY <3>1 DEF Item
  <2>4. MoveUp(i, list[i].badge + 1)
    BY <1>2 DEF Receiving
  <2> HIDE DEF i
  <2> QED
    BY <2>1, <2>2, <2>3, <2>4, MovedIsListing
<1> QED
  BY <1>1, <1>2

\* A message of the user's own moves the entry that is marked: there is one, since a
\* conversation is opened by a click on its entry only.
LEMMA SendingKeeps ==
    ASSUME Listing, toId # Nobody, Sending, UNCHANGED <<loaded, toId>>
    PROVE  Listing'
<1> DEFINE marked == {j \in DOMAIN list : list[j].bg}
           i == Min(marked)
<1>1. loaded /\ toId \in Listed /\ Entries(list)
  BY DEF Listing
<1>2. DOMAIN list = 1 .. Len(list) /\ list \in Seq(Item)
  BY <1>1 DEF Entries
<1>3. marked \subseteq Nat /\ marked # {}
  BY <1>1, <1>2 DEF Entries
<1>4. i \in 1 .. Len(list)
  BY <1>2, <1>3, MinIsLeast
<1>5. MoveUp(i, 0)
  BY DEF Sending
<1> HIDE DEF i, marked
<1> QED
  BY <1>1, <1>4, <1>5, MovedIsListing

\* user_info answers: an entry for every group and friend, none of them marked.
LEMMA InfoLists ==
    ASSUME Listing, SetUserInfo
    PROVE  Listing'
<1> DEFINE g == SetToSeq(OldGroup)
           f == SetToSeq(OldFriend)
           order == g \o f
           entry(p) == [peer |-> p, badge |-> 0, bg |-> FALSE, handlers |-> 1]
<1>1. /\ IsFiniteSet(OldGroup) /\ IsFiniteSet(OldFriend)
      /\ Cardinality(OldGroup) \in Nat /\ Cardinality(OldFriend) \in Nat
      /\ Cardinality(Listed) = Cardinality(OldGroup) + Cardinality(OldFriend)
  <2>1. IsFiniteSet(OldGroup) /\ IsFiniteSet(OldFriend)
    BY FS_Subset, OldIdsAssumption DEF Listed
  <2>2. /\ Cardinality(Listed) = Cardinality(OldFriend) + Cardinality(OldGroup) - Cardinality({})
        /\ Cardinality({}) = 0
    BY <2>1, FS_Union, FS_EmptySet, OldIdsAssumption DEF Listed
  <2> QED
    BY <2>1, <2>2, FS_CardinalityType
<1>2. /\ g \in Seq(OldGroup) /\ f \in Seq(OldFriend)
      /\ Len(g) = Cardinality(OldGroup) /\ Len(f) = Cardinality(OldFriend)
      /\ \A x \in OldGroup : \E i \in 1 .. Len(g) : g[i] = x
      /\ \A x \in OldFriend : \E i \in 1 .. Len(f) : f[i] = x
      /\ \A i, j \in 1 .. Len(g) : g[i] = g[j] => i = j
      /\ \A i, j \in 1 .. Len(f) : f[i] = f[j] => i = j
  BY <1>1, SetToSeqLists
<1> HIDE DEF g, f
<1>3. /\ order \in Seq(Listed)
      /\ Len(order) = Len(g) + Len(f)
      /\ \A i \in 1 .. Len(g) : order[i] = g[i]
      /\ \A i \in Len(g) + 1 .. Len(order) : order[i] = f[i - Len(g)]
  BY <1>2 DEF Listed
<1>4. \A p \in Listed : \E i \in 1 .. Len(order) : order[i] = p
  <2> TAKE p \in Listed
  <2>1. CASE p \in OldGroup
    BY <1>2, <1>3, <2>1
  <2>2. CASE p \in OldFriend
    <3>1. PICK i \in 1 .. Len(f) : f[i] = p
      BY <1>2, <2>2
    <3>2. Len(g) + i \in 1 .. Len(order) /\ order[Len(g) + i] = p
      BY <1>2, <1>3, <3>1
    <3> QED
      BY <3>2
  <2> QED
    BY <2>1, <2>2 DEF Listed
\* No group has the id of a friend.
<1>5. \A i, j \in 1 .. Len(order) : order[i] = order[j] => i = j
  <2> SUFFICES ASSUME NEW i \in 1 .. Len(order), NEW j \in 1 .. Len(order),
                      order[i] = order[j]
               PROVE  i = j
    OBVIOUS
  <2>1. \A k \in 1 .. Len(order) : order[k] \in OldGroup <=> k =< Len(g)
    <3> SUFFICES ASSUME NEW k \in 1 .. Len(order)
                 PROVE  order[k] \in OldGroup <=> k =< Len(g)
      OBVIOUS
    <3>1. CASE k =< Len(g)
      BY <1>2, <1>3, <3>1
    <3>2. CASE k > Len(g)
      <4>0. /\ Len(g) \in Nat /\ Len(f) \in Nat /\ Len(order) = Len(g) + Len(f)
            /\ k \in Len(g) + 1 .. Len(order)
        BY <1>2, <1>3, <3>2
      <4>1. k - Len(g) \in 1 .. Len(f) /\ order[k] = f[k - Len(g)]
        BY <1>3, <4>0
      <4> QED
        BY <1>2, <3>2, <4>1, OldIdsAssumption
    <3> QED
      BY <1>2, <3>1, <3>2
  <2>2. CASE i =< Len(g) /\ j =< Len(g)
    BY <1>2, <1>3, <2>2
  <2>3. CASE i > Len(g) /\ j > Len(g)
    <3>1. /\ i - Len(g) \in 1 .. Len(f) /\ j - Len(g) \in 1 .. Len(f)
          /\ f[i - Len(g)] = f[j - Len(g)]
      BY <1>2, <1>3, <2>3
    <3>2. i - Len(g) = j - Len(g)
      BY <1>2, <3>1
    <3>3. Len(g) \in Nat
      BY <1>2
    <3> QED
      BY <3>2, <3>3
  <2>4. i =< Len(g) <=> j =< Len(g)
    BY <2>1
  <2>5. Len(g) \in Nat
    BY <1>2
  <2> QED
    BY <2>2, <2>3, <2>4, <2>5
<1>6. list' = [i \in DOMAIN order |-> entry(order[i])] /\ loaded' = TRUE /\ toId' = Nobody
  BY DEF SetUserInfo, Listing, talkVars, g, f
<1> HIDE DEF order
<1>7. /\ list' \in Seq(Item) /\ Len(list') = Len(order)
      /\ \A i \in 1 .. Len(order) : list'[i] = entry(order[i])
  BY <1>3, <1>6 DEF Item
<1>8. \A i \in 1 .. Len(order) : list'[i].peer = order[i] /\ ~ list'[i].bg
  <2> TAKE i \in 1 .. Len(order)
  <2>1. list'[i] = entry(order[i])
    BY <1>7
  <2> QED
    BY <2>1
<1> HIDE DEF entry
<1>9. \A i \in 1 .. Len(list') : list'[i].bg <=> list'[i].peer = toId'
  BY <1>3, <1>6, <1>7, <1>8, OldIdsAssumption
<1>10. Len(list') = Cardinality(Listed)
  BY <1>1, <1>2, <1>3, <1>7
<1>11. \A i, j \in 1 .. Len(list') : list'[i].peer = list'[j].peer => i = j
  BY <1>5, <1>7, <1>8
<1>12. \A p \in Listed : \E i \in 1 .. Len(list') : list'[i].peer = p
  BY <1>4, <1>7, <1>8
<1>13. Entries(list)'
  BY <1>7, <1>9, <1>10, <1>11, <1>12 DEF Entries
<1> QED
  BY <1>6, <1>13 DEF Listing

LEMMA MarkedIsItem ==
    ASSUME NEW item \in Item
    PROVE  LET new == [item EXCEPT !.bg = TRUE, !.badge = 0]
           IN  new \in Item /\ new.peer = item.peer /\ new.bg = TRUE
  BY DEF Item

\* A click marks the entry it was made on, and no other has its peer.
LEMMA ClickKeeps ==
    ASSUME Listing, NEW i \in DOMAIN list, FriendLiClick(i)
    PROVE  Listing'
<1> DEFINE p == list[i].peer
<1>1. loaded
  BY DEF Listing
<1>2. Entries(list) /\ i \in 1 .. Len(list) /\ DOMAIN list = 1 .. Len(list) /\ p \in Listed
  <2>1. Entries(list) /\ list \in Seq(Item)
    BY <1>1 DEF Listing, Entries
  <2>2. i \in 1 .. Len(list) /\ DOMAIN list = 1 .. Len(list) /\ list[i] \in Item
    BY <2>1
  <2> QED
    BY <2>1, <2>2 DEF Item
<1>3. /\ list' = [j \in DOMAIN list |->
                    [list[j] EXCEPT !.bg = (j = i), !.badge = IF j = i THEN 0 ELSE @]]
      /\ toId' = p /\ loaded' = loaded
  BY DEF FriendLiClick
<1> HIDE DEF p
<1>4. \A j \in 1 .. Len(list) : list[j] \in Item
  BY <1>2 DEF Entries
<1>5. \A j \in 1 .. Len(list) :
          /\ list'[j] \in Item /\ list'[j].peer = list[j].peer
          /\ list'[j].bg <=> j = i
  <2> TAKE j \in 1 .. Len(list)
  <2>1. list'[j] = [list[j] EXCEPT !.bg = (j = i), !.badge = IF j = i THEN 0 ELSE @]
    BY <1>2, <1>3
  <2>2. list[j] \in Item
    BY <1>4
  <2>3. CASE j = i
    <3>1. list'[j] = [list[j] EXCEPT !.bg = TRUE, !.badge = 0]
      BY <2>1, <2>3
    <3>2. list'[j] \in Item /\ list'[j].peer = list[j].peer /\ list'[j].bg = TRUE
      BY <2>2, <3>1, MarkedIsItem
    <3> QED
      BY <2>3, <3>2
  <2>4. CASE j # i
    <3>1. list'[j] = [list[j] EXCEPT !.bg = FALSE]
      BY <2>1, <2>2, <2>4 DEF Item
    <3> QED
      BY <2>2, <2>4, <3>1 DEF Item
  <2> QED
    BY <2>3, <2>4
<1>6. list' \in Seq(Item) /\ Len(list') = Len(list)
  <2>1. Len(list) \in Nat
    BY <1>2 DEF Entries
  <2>2. DOMAIN list' = 1 .. Len(list) /\ list' = [j \in 1 .. Len(list) |-> list'[j]]
    BY <1>2, <1>3
  <2>3. list' \in [1 .. Len(list) -> Item]
    BY <1>5, <2>2
  <2> QED
    BY <2>1, <2>3
<1>7. \A j \in 1 .. Len(list') : list'[j].bg <=> list'[j].peer = toId'
  <2> TAKE j \in 1 .. Len(list')
  <2>1. list[j].peer = p <=> j = i
    BY <1>2, <1>6 DEF Entries, p
  <2> QED
    BY <1>3, <1>5, <1>6, <2>1
<1>8. \A j, k \in 1 .. Len(list') : list'[j].peer = list'[k].peer => j = k
  BY <1>2, <1>5, <1>6 DEF Entries
<1>9. \A q \in Listed : \E j \in 1 .. Len(list') : list'[j].peer = q
  BY <1>2, <1>5, <1>6 DEF Entries
<1>10. Entries(list)'
  BY <1>2, <1>6, <1>7, <1>8, <1>9 DEF Entries
<1> QED
  BY <1>1, <1>2, <1>3, <1>10 DEF Listing

-----------------------------------------------------------------------------
(* Messages. *)

Chats == messages \in [Key -> Seq(OldEntry)] /\ oldMade \in Nat

\* A push goes to the array that was put for the id, and to no other.
LEMMA PushIs ==
    ASSUME NEW p \in Key, NEW e, OldPush(p, e)
    PROVE  messages' = [messages EXCEPT ![p] = Append(@, e)]
<1>1. Table!get(tableElements, p) = p
  BY TableKnows
<1> QED
  BY <1>1 DEF OldPush

LEMMA NewIsEntry ==
    ASSUME Chats, oldMade < MaxMessages, NEW from \in {"me", "other"}
    PROVE  New(from) \in OldEntry
  BY OldBoundAssumption DEF Chats, New, OldEntry

LEMMA InitChats ==
    ASSUME OldInit
    PROVE  Chats /\ OldWindowShowsTable
<1>1. ~ Known(Nobody)
  BY TableKnows, OldIdsAssumption
<1> QED
  BY <1>1 DEF OldInit, Chats, OldWindowShowsTable

OldPage == Listing /\ Chats /\ OldWindowShowsTable

\* A message of another moves its entry up, and is shown if that entry is marked,
\* which it is exactly when its conversation is the open one.
LEMMA ReceiveKeeps ==
    ASSUME OldPage, NEW p \in Sender, OldReceive(p)
    PROVE  OldPage'
<1> USE DEF OldPage
<1>1. /\ oldMade < MaxMessages /\ oldMade' = oldMade + 1
      /\ newsList' = IF Focused(p) THEN Append(newsList, New("other")) ELSE newsList
      /\ IF Known(p) THEN OldPush(p, New("other")) /\ Receiving(p) ELSE UNCHANGED <<messages, list>>
      /\ UNCHANGED <<loaded, toId>>
  BY DEF OldReceive, ReceiveMsg
<1>2. New("other") \in OldEntry
  BY <1>1, NewIsEntry
<1>3. Listing'
  <2>1. CASE Known(p)
    BY <1>1, <2>1, ReceivingKeeps
  <2>2. CASE ~ Known(p)
    BY <1>1, <2>2 DEF Listing, Entries
  <2> QED
    BY <2>1, <2>2
<1>4. Known(p) => p \in Key /\ messages' = [messages EXCEPT ![p] = Append(@, New("other"))]
  BY <1>1, TableKnows, PushIs
<1>5. Chats'
  <2>1. messages \in [Key -> Seq(OldEntry)] /\ oldMade \in Nat
    BY DEF Chats
  <2>2. CASE Known(p)
    <3>1. Append(messages[p], New("other")) \in Seq(OldEntry)
      BY <1>2, <1>4, <2>1, <2>2
    <3> QED
      BY <1>1, <1>4, <2>1, <2>2, <3>1 DEF Chats
  <2>3. CASE ~ Known(p)
    BY <1>1, <2>1, <2>3 DEF Chats
  <2> QED
    BY <2>2, <2>3
<1>6. ASSUME Known(toId)
      PROVE  newsList' = messages'[toId]
  <2>1. toId \in Key /\ toId \in Listed /\ Entries(list) /\ newsList = messages[toId]
    BY <1>6, TableKnows, OldIdsAssumption DEF Listing, OldWindowShowsTable
  <2>2. Focused(p) <=> p = toId
    BY <2>1 DEF Focused, Place, Entries
  <2> HIDE DEF Chats, OldPage
  <2>3. CASE p = toId
    BY <1>1, <1>4, <1>6, <2>1, <2>2, <2>3 DEF Chats, OldPage
  <2>4. CASE p # toId
    BY <1>1, <1>4, <2>1, <2>2, <2>4 DEF Chats, OldPage
  <2> QED
    BY <2>3, <2>4
<1>7. OldWindowShowsTable'
  BY <1>1, <1>6 DEF OldWindowShowsTable, Known
<1> QED
  BY <1>3, <1>5, <1>7

\* A message of the user's own is put into the array of the conversation that is
\* open by now, and nowhere when the table does not know it.
LEMMA OwnPuts ==
    ASSUME OldPage, ShowOwn
    PROVE  /\ New("me") \in OldEntry
           /\ newsList' = Append(newsList, New("me"))
           /\ IF toId \in Key
              THEN messages' = [messages EXCEPT ![toId] = Append(@, New("me"))] /\ Sending
              ELSE UNCHANGED <<messages, list>>
           /\ oldMade' = oldMade + 1
           /\ UNCHANGED <<loaded, toId, received>>
<1>1. Known(toId) <=> toId \in Key
  BY TableKnows
<1>2. New("me") \in OldEntry
  BY NewIsEntry DEF ShowOwn, OldPage
<1>3. toId \in Key => messages' = [messages EXCEPT ![toId] = Append(@, New("me"))]
  BY <1>1, PushIs DEF ShowOwn
<1> QED
  BY <1>1, <1>2, <1>3 DEF ShowOwn

LEMMA OwnKeeps ==
    ASSUME OldPage, ShowOwn
    PROVE  OldPage'
<1>1. /\ New("me") \in OldEntry
      /\ newsList' = Append(newsList, New("me"))
      /\ IF toId \in Key
         THEN messages' = [messages EXCEPT ![toId] = Append(@, New("me"))] /\ Sending
         ELSE UNCHANGED <<messages, list>>
      /\ oldMade' = oldMade + 1
      /\ UNCHANGED <<loaded, toId>>
  BY OwnPuts
<1>2. Listing'
  <2>1. CASE toId \in Key
    BY <1>1, <2>1, SendingKeeps, OldIdsAssumption DEF OldPage
  <2>2. CASE toId \notin Key
    BY <1>1, <2>2 DEF OldPage, Listing, Entries
  <2> QED
    BY <2>1, <2>2
<1>3. Chats'
  <2>0. messages \in [Key -> Seq(OldEntry)] /\ oldMade + 1 \in Nat
    BY DEF OldPage, Chats
  <2>1. CASE toId \in Key
    <3>1. Append(messages[toId], New("me")) \in Seq(OldEntry)
      BY <1>1, <2>0, <2>1
    <3>2. messages' \in [Key -> Seq(OldEntry)]
      BY <1>1, <2>0, <2>1, <3>1
    <3> QED
      BY <1>1, <2>0, <3>2 DEF Chats
  <2>2. CASE toId \notin Key
    BY <1>1, <2>2 DEF OldPage, Chats
  <2> QED
    BY <2>1, <2>2
<1>4. OldWindowShowsTable'
  <2>1. Known(toId) <=> toId \in Key
    BY TableKnows
  <2>2. Known(toId)' <=> Known(toId)
    BY <1>1 DEF Known
  <2>3. toId \in Key => newsList' = messages'[toId]
    BY <1>1, <2>1 DEF OldPage, Chats, OldWindowShowsTable
  <2> QED
    BY <1>1, <2>1, <2>2, <2>3 DEF OldWindowShowsTable
<1> QED
  BY <1>2, <1>3, <1>4 DEF OldPage

LEMMA StepOldPage ==
    ASSUME OldPage, [OldNext]_oldVars
    PROVE  OldPage'
<1>1. CASE SetUserInfo
  <2>1. Listing'
    BY <1>1, InfoLists DEF OldPage
  <2>2. UNCHANGED <<messages, oldMade, newsList, toId>>
    BY <1>1 DEF SetUserInfo, talkVars
  <2> QED
    BY <2>1, <2>2 DEF OldPage, Chats, OldWindowShowsTable, Known
<1>2. ASSUME NEW p \in Sender, OldReceive(p)
      PROVE  OldPage'
  BY <1>2, ReceiveKeeps
<1>3. ASSUME NEW i \in DOMAIN list, FriendLiClick(i)
      PROVE  OldPage'
  <2>1. Listing'
    BY <1>3, ClickKeeps DEF OldPage
  <2>2. /\ UNCHANGED <<messages, oldMade>>
        /\ toId' = list[i].peer
        /\ Known(list[i].peer) => newsList' = messages[list[i].peer]
    BY <1>3 DEF FriendLiClick, ShowOnly
  <2>3. OldWindowShowsTable'
    BY <2>2 DEF OldWindowShowsTable, Known
  <2> QED
    BY <2>1, <2>2, <2>3 DEF OldPage, Chats
<1>4. CASE SendNews \/ SendEmoji \/ FileUploaded
  BY <1>4, OwnKeeps DEF SendNews, SendEmoji, FileUploaded
<1>5. CASE UNCHANGED <<listVars, talkVars>>
  BY <1>5 DEF listVars, talkVars, OldPage, Listing, Entries, Chats, OldWindowShowsTable, Known
<1>6. \/ SetUserInfo
      \/ \E p \in Sender : OldReceive(p)
      \/ \E i \in DOMAIN list : FriendLiClick(i)
      \/ SendNews \/ SendEmoji \/ FileUploaded
      \/ UNCHANGED <<listVars, talkVars>>
  BY DEF OldNext, oldVars, SocketEvent, Register, OldLogout, UseDialog, CloseDialog
<1> QED
  BY <1>1, <1>2, <1>3, <1>4, <1>5, <1>6

-----------------------------------------------------------------------------
(* The order of the list, and its badges. *)

\* Messages are numbered, no window was left later than now, and nothing arrives
\* before user_info has answered.
Numbered ==
    /\ seenAt \in [Sender -> Nat]
    /\ \A p \in Sender : seenAt[p] =< oldMade
    /\ \A p \in Key : \A k \in 1 .. Len(messages[p]) : messages[p][k].id =< oldMade
    /\ ~ loaded => oldRegistered # "me" /\ \A p \in Key : messages[p] = <<>>

\* OldListTellsNews, with the conversations named.
Tells ==
    /\ \A p, q \in Listed : \A i, j \in DOMAIN list :
           i < j /\ list[i].peer = p /\ list[j].peer = q => LastId(p) >= LastId(q)
    /\ \A p \in Listed : \A i \in DOMAIN list :
           list[i].peer = p => list[i].badge = IF Known(p) THEN Cardinality(NewsOf(p)) ELSE 0

\* The last message of a conversation is no later than the last of all.
LEMMA LastIdIs ==
    ASSUME Chats, Numbered, NEW p
    PROVE  LastId(p) \in Nat /\ LastId(p) =< oldMade
<1>1. CASE Known(p) /\ messages[p] # <<>>
  <2>1. p \in Key /\ messages[p] \in Seq(OldEntry)
    BY <1>1, TableKnows DEF Chats
  <2>2. LET n == Len(messages[p])
        IN  n \in 1 .. n /\ messages[p][n] \in OldEntry
    BY <1>1, <2>1
  <2>3. LastId(p) = messages[p][Len(messages[p])].id
    BY <1>1 DEF LastId, Last
  <2> QED
    BY <2>1, <2>2, <2>3 DEF Numbered, OldEntry
<1>2. CASE ~ (Known(p) /\ messages[p] # <<>>)
  BY <1>2 DEF LastId, Chats
<1> QED
  BY <1>1, <1>2

\* A conversation whose array is the same has the same last message.
LEMMA LastIdStays ==
    ASSUME NEW q, messages'[q] = messages[q]
    PROVE  LastId(q)' = LastId(q)
<1>1. Last(messages'[q]) = Last(messages[q])
  OBVIOUS
<1>2. (messages[q] # <<>>)' <=> messages[q] # <<>>
  OBVIOUS
<1>3. CASE Known(q) /\ messages[q] # <<>>
  <2>1. Known(q)'
    BY <1>3 DEF Known
  <2> QED
    BY <1>1, <1>2, <1>3, <2>1 DEF LastId
<1>4. CASE ~ (Known(q) /\ messages[q] # <<>>)
  <2>1. ~ (Known(q) /\ messages[q] # <<>>)'
    BY <1>2, <1>4 DEF Known
  <2> QED
    BY <1>4, <2>1 DEF LastId
<1> QED
  BY <1>3, <1>4

\* An array that grew has its new message last; the others have theirs.
LEMMA LastIdMoves ==
    ASSUME Chats, NEW p \in Key, NEW e \in OldEntry,
           messages' = [messages EXCEPT ![p] = Append(@, e)]
    PROVE  /\ LastId(p)' = e.id
           /\ \A q : q # p => LastId(q)' = LastId(q)
<1>1. messages'[p] = Append(messages[p], e) /\ messages[p] \in Seq(OldEntry)
  BY DEF Chats
<1>2. Last(messages'[p]) = e /\ messages'[p] # <<>>
  <2> DEFINE n == Len(messages[p])
  <2>1. /\ n \in Nat /\ Len(messages'[p]) = n + 1
        /\ messages'[p][n + 1] = e
    BY <1>1
  <2>2. Len(<<>>) = 0
    OBVIOUS
  <2> HIDE DEF n
  <2>3. messages'[p] # <<>>
    <3>1. n + 1 # 0
      BY <2>1
    <3> QED
      BY <2>1, <2>2, <3>1
  <2>4. Last(messages'[p]) = e
    BY <2>1 DEF Last
  <2> QED
    BY <2>3, <2>4
<1>3. \A q : Known(q)' = Known(q)
  BY DEF Known
<1>4. LastId(p)' = e.id
  BY <1>2, <1>3, TableKnows DEF LastId
<1>5. ASSUME NEW q, q # p
      PROVE  LastId(q)' = LastId(q)
  <2>1. CASE q \in Key
    <3>1. messages'[q] = messages[q]
      BY <1>5, <2>1 DEF Chats
    <3> QED
      BY <3>1, LastIdStays
  <2>2. CASE q \notin Key
    BY <1>3, <2>2, TableKnows DEF LastId
  <2> QED
    BY <2>1, <2>2
<1> QED
  BY <1>4, <1>5

\* The news of a conversation are finitely many.
LEMMA NewsFinite ==
    ASSUME Chats, NEW p \in Key
    PROVE  IsFiniteSet(NewsOf(p)) /\ NewsOf(p) \subseteq 1 .. Len(messages[p])
<1>1. messages[p] \in Seq(OldEntry)
  BY DEF Chats
<1>2. NewsOf(p) \subseteq 1 .. Len(messages[p]) /\ Len(messages[p]) \in Nat
  BY <1>1 DEF NewsOf
<1>3. IsFiniteSet(1 .. Len(messages[p]))
  BY <1>2, FS_Interval
<1>4. NewsOf(p) \in SUBSET (1 .. Len(messages[p]))
  BY <1>2
<1>5. IsFiniteSet(NewsOf(p))
  BY <1>3, <1>4, FS_Subset
<1> QED
  BY <1>2, <1>5

\* The entry of the conversation with the last message of all moves to the top.
LEMMA MovedTells ==
    ASSUME Listing, loaded, Tells,
           NEW i \in 1 .. Len(list), NEW p \in Listed, list[i].peer = p,
           NEW badge \in Nat, MoveUp(i, badge),
           Known(p), badge = Cardinality(NewsOf(p)'),
           \A q \in Listed : LastId(q)' =< LastId(p)',
           \A q \in Listed : q # p => LastId(q)' = LastId(q),
           \A q \in Listed : q # p /\ Known(q) => NewsOf(q)' = NewsOf(q)
    PROVE  Tells'
<1> DEFINE n == Len(list)
<1>1. Entries(list) /\ n \in Nat /\ DOMAIN list = 1 .. n
  BY DEF Listing, Entries
<1>2. /\ list' \in Seq(Item) /\ Len(list') = n
      /\ list'[1].badge = badge
      /\ \A j \in 1 .. n : list'[j].peer = list[Was(i, j)].peer
      /\ \A j \in 2 .. n : list'[j] = list[Was(i, j)]
  BY <1>1, MoveUpKeeps
<1>3. /\ \A j \in 1 .. n : Was(i, j) \in 1 .. n
      /\ \A j, k \in 2 .. n : j < k => Was(i, j) < Was(i, k)
      /\ \A j \in 2 .. n : Was(i, j) # i
      /\ Was(i, 1) = i
  BY <1>1, WasOneOfThem DEF Was
<1>4. DOMAIN list' = 1 .. n
  BY <1>2
\* Only the entry on top is that of p.
<1>5. \A j \in 1 .. n : list'[j].peer = p <=> j = 1
  <2> TAKE j \in 1 .. n
  <2>1. list'[j].peer = list[Was(i, j)].peer /\ Was(i, j) \in 1 .. n
    BY <1>2, <1>3
  <2>2. list[Was(i, j)].peer = p <=> Was(i, j) = i
    BY <1>1, <2>1 DEF Entries
  <2>3. Was(i, j) = i <=> j = 1
    BY <1>1, <1>3
  <2> QED
    BY <2>1, <2>2, <2>3
<1>6. ASSUME NEW q \in Listed, NEW r \in Listed,
             NEW j \in 1 .. n, NEW k \in 1 .. n, j < k,
             list'[j].peer = q, list'[k].peer = r
      PROVE  LastId(q)' >= LastId(r)'
  <2>1. CASE j = 1
    <3>1. q = p
      BY <1>5, <1>6, <2>1
    <3> QED
      BY <3>1
  <2>2. CASE j # 1
    <3>1. j \in 2 .. n /\ k \in 2 .. n
      BY <1>1, <1>6, <2>2
    <3>2. q # p /\ r # p
      BY <1>5, <1>6, <3>1
    <3>3. list[Was(i, j)].peer = q /\ list[Was(i, k)].peer = r
      BY <1>2, <1>6
    <3>4. Was(i, j) \in DOMAIN list /\ Was(i, k) \in DOMAIN list /\ Was(i, j) < Was(i, k)
      BY <1>1, <1>3, <1>6, <3>1
    <3>5. LastId(q) >= LastId(r)
      BY <3>3, <3>4 DEF Tells
    <3> QED
      BY <3>2, <3>5
  <2> QED
    BY <2>1, <2>2
<1>7. ASSUME NEW q \in Listed, NEW j \in 1 .. n, list'[j].peer = q
      PROVE  list'[j].badge = IF Known(q) THEN Cardinality(NewsOf(q)') ELSE 0
  <2>1. CASE j = 1
    <3>1. q = p
      BY <1>5, <1>7, <2>1
    <3> QED
      BY <1>2, <2>1, <3>1
  <2>2. CASE j # 1
    <3>1. j \in 2 .. n /\ q # p
      BY <1>1, <1>5, <1>7, <2>2
    <3>2. list'[j] = list[Was(i, j)] /\ Was(i, j) \in DOMAIN list /\ list[Was(i, j)].peer = q
      BY <1>1, <1>2, <1>3, <1>7, <3>1
    <3>3. list'[j].badge = IF Known(q) THEN Cardinality(NewsOf(q)) ELSE 0
      BY <3>2 DEF Tells
    <3> QED
      BY <3>1, <3>3
  <2> QED
    BY <2>1, <2>2
<1>8. \A q : Known(q)' = Known(q)
  BY DEF Known
<1> QED
  BY <1>4, <1>6, <1>7, <1>8 DEF Tells

LEMMA InitTells ==
    ASSUME OldInit
    PROVE  Numbered /\ Tells
  BY DEF OldInit, Numbered, Tells

\* Whatever arrives or is written has the next number.
LEMMA PushNumbers ==
    ASSUME OldPage, Numbered, NEW p \in Key, NEW e \in OldEntry, e.id = oldMade + 1,
           messages' = [messages EXCEPT ![p] = Append(@, e)], oldMade' = oldMade + 1
    PROVE  \A q \in Key : \A k \in 1 .. Len(messages'[q]) : messages'[q][k].id =< oldMade'
<1> SUFFICES ASSUME NEW q \in Key, NEW k \in 1 .. Len(messages'[q])
             PROVE  messages'[q][k].id =< oldMade'
  OBVIOUS
<1>0. /\ messages \in [Key -> Seq(OldEntry)] /\ oldMade \in Nat
      /\ \A r \in Key : \A j \in 1 .. Len(messages[r]) : messages[r][j].id =< oldMade
  BY DEF OldPage, Chats, Numbered
<1>1. CASE q # p \/ k =< Len(messages[q])
  <2>1. messages'[q][k] = messages[q][k] /\ k \in 1 .. Len(messages[q])
    BY <1>0, <1>1
  <2>2. messages[q][k] \in OldEntry
    BY <1>0, <2>1
  <2>3. messages[q][k].id \in Int
    BY <2>2 DEF OldEntry
  <2> QED
    BY <1>0, <2>1, <2>3
<1>2. CASE q = p /\ k > Len(messages[q])
  <2>1. messages'[q][k] = e
    BY <1>0, <1>2
  <2> QED
    BY <1>0, <2>1
<1> QED
  BY <1>0, <1>1, <1>2

LEMMA NewEntryIs == \A from : New(from).id = oldMade + 1 /\ New(from).from = from
  BY DEF New

LEMMA ReceiveNumbers ==
    ASSUME OldPage, Numbered, NEW p \in Sender, OldReceive(p)
    PROVE  Numbered'
<1> DEFINE e == New("other")
<1>1. /\ oldMade < MaxMessages /\ oldMade' = oldMade + 1 /\ oldRegistered = "me"
      /\ IF Known(p) THEN OldPush(p, e) ELSE UNCHANGED messages
      /\ UNCHANGED <<loaded, seenAt>>
  BY DEF OldReceive, ReceiveMsg
<1>2. e \in OldEntry /\ e.id = oldMade + 1
  BY <1>1, NewIsEntry, NewEntryIs DEF OldPage
<1> HIDE DEF e
<1>3. loaded
  BY <1>1 DEF Numbered
<1>4. \A q \in Key : \A k \in 1 .. Len(messages'[q]) : messages'[q][k].id =< oldMade'
  <2>1. CASE Known(p)
    <3>1. p \in Key /\ messages' = [messages EXCEPT ![p] = Append(@, e)]
      BY <1>1, <2>1, TableKnows, PushIs
    <3> QED
      BY <1>1, <1>2, <3>1, PushNumbers
  <2>2. CASE ~ Known(p)
    <3> SUFFICES ASSUME NEW q \in Key, NEW k \in 1 .. Len(messages[q])
                 PROVE  messages[q][k].id =< oldMade + 1
      BY <1>1, <2>2
    <3>1. messages[q][k] \in OldEntry
      BY DEF OldPage, Chats
    <3>2. messages[q][k].id \in Int /\ oldMade \in Int
      BY <3>1 DEF OldPage, Chats, OldEntry
    <3>3. messages[q][k].id =< oldMade
      BY DEF Numbered
    <3> QED
      BY <3>2, <3>3
  <2> QED
    BY <2>1, <2>2
<1>5. \A q \in Sender : seenAt'[q] =< oldMade'
  BY <1>1 DEF Numbered, OldPage, Chats
<1> QED
  BY <1>1, <1>3, <1>4, <1>5 DEF Numbered

\* A message of another: one more that is new in its conversation, which has the
\* last message of all now.
LEMMA ReceiveTells ==
    ASSUME OldPage, Numbered, Tells, Numbered', OldPage',
           NEW p \in Sender, OldReceive(p)
    PROVE  Tells'
<1> DEFINE e == New("other")
<1>1. /\ oldMade < MaxMessages /\ oldMade' = oldMade + 1 /\ oldRegistered = "me"
      /\ IF Known(p) THEN OldPush(p, e) /\ Receiving(p) ELSE UNCHANGED <<messages, list>>
      /\ UNCHANGED <<loaded, seenAt>>
  BY DEF OldReceive, ReceiveMsg
<1>2. e \in OldEntry /\ e.id = oldMade + 1 /\ e.from = "other"
  BY <1>1, NewIsEntry, NewEntryIs DEF OldPage
<1> HIDE DEF e
<1>3. loaded /\ Entries(list) /\ DOMAIN list = 1 .. Len(list) /\ list \in Seq(Item)
  BY <1>1 DEF Numbered, OldPage, Listing, Entries
<1>4. \A q : Known(q)' = Known(q)
  BY DEF Known
<1>5. CASE ~ Known(p)
  BY <1>1, <1>5 DEF Tells, LastId, NewsOf, Known
<1>6. CASE Known(p)
  <2>1. p \in Key /\ messages' = [messages EXCEPT ![p] = Append(@, e)]
    BY <1>1, <1>6, TableKnows, PushIs
  <2>2. LastId(p)' = oldMade + 1 /\ \A q : q # p => LastId(q)' = LastId(q)
    BY <1>2, <2>1, LastIdMoves DEF OldPage
  <2>3. \A q : q # p /\ Known(q) => NewsOf(q)' = NewsOf(q)
    <3> SUFFICES ASSUME NEW q, q # p, Known(q)
                 PROVE  NewsOf(q)' = NewsOf(q)
      OBVIOUS
    <3>1. q \in Key
      BY TableKnows
    <3>2. messages'[q] = messages[q]
      BY <2>1, <3>1 DEF OldPage, Chats
    <3> QED
      BY <1>1, <3>2 DEF NewsOf
  <2>4. CASE p \notin Listed
    <3>1. Place(p) = {}
      <4>1. \A i \in DOMAIN list : list[i] \in Item
        BY <1>3
      <4> QED
        BY <2>4, <4>1 DEF Place, Item
    <3>2. list' = list
      BY <1>1, <1>6, <3>1 DEF Receiving
    <3>3. \A q \in Listed : /\ LastId(q)' = LastId(q)
                            /\ Known(q) => NewsOf(q)' = NewsOf(q)
      BY <2>2, <2>3, <2>4
    <3> QED
      BY <1>4, <3>2, <3>3 DEF Tells
  <2>5. CASE p \in Listed
    <3> DEFINE i == Min(Place(p))
               badge == list[i].badge + 1
    <3>1. Place(p) # {}
      BY <1>3, <2>5 DEF Place, Entries
    <3>2. i \in 1 .. Len(list) /\ list[i].peer = p
      BY <2>5, <3>1, PlaceIs DEF OldPage
    <3>3. MoveUp(i, badge)
      BY <1>1, <1>6, <3>1 DEF Receiving
    <3> HIDE DEF i
    <3>4. list[i].badge = Cardinality(NewsOf(p))
      BY <1>3, <1>6, <2>5, <3>2 DEF Tells
    <3>5. messages[p] \in Seq(OldEntry) /\ messages'[p] = Append(messages[p], e)
      BY <2>1 DEF OldPage, Chats
    <3> DEFINE n == Len(messages[p])
    <3>6. /\ n \in Nat /\ DOMAIN messages[p] = 1 .. n /\ DOMAIN messages'[p] = 1 .. n + 1
          /\ messages'[p][n + 1] = e /\ \A k \in 1 .. n : messages'[p][k] = messages[p][k]
      BY <3>5
    <3>7. seenAt[p] =< oldMade /\ seenAt[p] \in Nat /\ oldMade \in Nat
      BY DEF Numbered, OldPage, Chats
    <3>8. NewsOf(p)' = NewsOf(p) \union {n + 1}
      <4>1. oldMade + 1 > seenAt[p]
        BY <3>7
      <4>2. NewsOf(p)' = {k \in 1 .. n + 1 : messages'[p][k].from = "other"
                                              /\ messages'[p][k].id > seenAt[p]}
        BY <1>1, <3>6 DEF NewsOf
      <4>3. NewsOf(p) = {k \in 1 .. n : messages[p][k].from = "other"
                                         /\ messages[p][k].id > seenAt[p]}
        BY <3>6 DEF NewsOf
      <4>4. 1 .. n + 1 = (1 .. n) \union {n + 1}
        BY <3>6
      <4> QED
        BY <1>2, <3>6, <4>1, <4>2, <4>3, <4>4
    <3>9. IsFiniteSet(NewsOf(p)) /\ n + 1 \notin NewsOf(p)
      BY <2>1, <3>6, NewsFinite DEF OldPage
    <3>10. badge = Cardinality(NewsOf(p)') /\ badge \in Nat
      <4>1. Cardinality(NewsOf(p) \union {n + 1}) = Cardinality(NewsOf(p)) + 1
        BY <3>9, FS_AddElement
      <4>2. Cardinality(NewsOf(p)) \in Nat
        BY <3>9, FS_CardinalityType
      <4> QED
        BY <3>4, <3>8, <4>1, <4>2
    <3>11. \A q \in Listed : LastId(q)' =< LastId(p)'
      BY <2>2, <3>7, LastIdIs DEF OldPage
    <3> HIDE DEF badge
    <3> QED
      BY <1>3, <1>6, <2>2, <2>3, <2>5, <3>2, <3>3, <3>10, <3>11, MovedTells DEF OldPage
  <2> QED
    BY <2>4, <2>5
<1> QED
  BY <1>5, <1>6

\* A message of the user's own clears the badge of the conversation and is its last.
LEMMA OwnTells ==
    ASSUME OldPage, Numbered, Tells, OldPage', ShowOwn, oldRegistered' = oldRegistered
    PROVE  Numbered' /\ Tells'
<1> DEFINE e == New("me")
<1>1. /\ e \in OldEntry /\ e.id = oldMade + 1
      /\ IF toId \in Key
         THEN messages' = [messages EXCEPT ![toId] = Append(@, e)] /\ Sending
         ELSE UNCHANGED <<messages, list>>
      /\ oldMade' = oldMade + 1
      /\ UNCHANGED <<loaded, toId>>
  BY OwnPuts, NewEntryIs
<1>2. Known(toId) <=> toId \in Key
  BY TableKnows
<1>3. seenAt' = IF toId \in Key THEN [seenAt EXCEPT ![toId] = oldMade + 1] ELSE seenAt
  BY <1>2 DEF ShowOwn
<1> HIDE DEF e
<1>4. /\ messages \in [Key -> Seq(OldEntry)] /\ oldMade \in Nat
      /\ seenAt \in [Sender -> Nat] /\ \A q \in Sender : seenAt[q] =< oldMade
  BY DEF OldPage, Chats, Numbered
<1>5. CASE toId \notin Key
  <2>1. UNCHANGED <<messages, list, seenAt>>
    BY <1>1, <1>3, <1>5
  <2>2. \A q \in Key : \A k \in 1 .. Len(messages[q]) :
            messages[q][k].id \in Int /\ messages[q][k].id =< oldMade
    <3> TAKE q \in Key
    <3> TAKE k \in 1 .. Len(messages[q])
    <3>1. messages[q][k] \in OldEntry
      BY <1>4
    <3> QED
      BY <3>1 DEF OldEntry, Numbered
  <2>3. Numbered'
    BY <1>1, <1>4, <2>1, <2>2 DEF Numbered
  <2>4. Tells'
    BY <2>1 DEF Tells, LastId, NewsOf, Known
  <2> QED
    BY <2>3, <2>4
<1>6. CASE toId \in Key
  <2>1. PICK p : p = toId
    OBVIOUS
  <2>2. /\ p \in Key /\ p \in Listed /\ loaded /\ Known(p)
        /\ messages' = [messages EXCEPT ![p] = Append(@, e)]
        /\ seenAt' = [seenAt EXCEPT ![p] = oldMade + 1]
    BY <1>1, <1>2, <1>3, <1>6, <2>1, OldIdsAssumption DEF OldPage, Listing
  <2>3. Entries(list) /\ DOMAIN list = 1 .. Len(list) /\ p \in Sender
    BY <2>2 DEF OldPage, Listing, Entries, Sender
  <2>4. Numbered'
    <3>1. \A q \in Key : \A k \in 1 .. Len(messages'[q]) : messages'[q][k].id =< oldMade'
      BY <1>1, <2>2, PushNumbers
    <3>2. seenAt' \in [Sender -> Nat] /\ \A q \in Sender : seenAt'[q] =< oldMade'
      <4>1. /\ seenAt' = [seenAt EXCEPT ![p] = oldMade + 1]
            /\ seenAt \in [Sender -> Nat] /\ oldMade \in Nat /\ oldMade' = oldMade + 1
        BY <1>1, <1>4, <2>2
      <4>2. seenAt' \in [Sender -> Nat]
        <5>1. oldMade + 1 \in Nat
          BY <4>1
        <5>2. \A q \in Sender : seenAt'[q] \in Nat
          BY <4>1, <5>1
        <5>3. DOMAIN seenAt' = Sender /\ seenAt' = [q \in Sender |-> seenAt'[q]]
          BY <4>1
        <5> QED
          BY <5>2, <5>3
      <4>3. \A q \in Sender : seenAt'[q] = oldMade + 1 \/ seenAt'[q] = seenAt[q]
        BY <4>1
      <4>4. \A q \in Sender : seenAt[q] \in Nat /\ seenAt[q] =< oldMade
        BY <1>4
      <4> QED
        BY <4>1, <4>2, <4>3, <4>4
    <3> QED
      BY <1>1, <2>2, <3>1, <3>2 DEF Numbered
  <2>5. LastId(p)' = oldMade + 1 /\ \A q : q # p => LastId(q)' = LastId(q)
    BY <1>1, <2>2, LastIdMoves DEF OldPage
  <2>6. \A q \in Listed : q # p /\ Known(q) => NewsOf(q)' = NewsOf(q)
    <3> SUFFICES ASSUME NEW q \in Listed, q # p, Known(q)
                 PROVE  NewsOf(q)' = NewsOf(q)
      OBVIOUS
    <3>1. q \in Key /\ q \in Sender
      BY TableKnows DEF Sender
    <3>2. messages'[q] = messages[q] /\ seenAt'[q] = seenAt[q]
      BY <1>4, <2>2, <3>1
    <3> QED
      BY <3>2 DEF NewsOf
  <2>7. NewsOf(p)' = {}
    <3>1. seenAt'[p] = oldMade + 1 /\ oldMade' = oldMade + 1
      BY <1>1, <1>4, <2>2, <2>3
    <3>2. messages'[p] \in Seq(OldEntry)
      BY <1>1, <1>4, <2>2
    <3>3. ASSUME NEW k \in DOMAIN messages'[p]
          PROVE  ~ (messages'[p][k].id > oldMade + 1)
      <4>1. k \in 1 .. Len(messages'[p]) /\ messages'[p][k] \in OldEntry
        BY <3>2
      <4>2. messages'[p][k].id =< oldMade + 1 /\ messages'[p][k].id \in Int
        BY <2>2, <2>4, <3>1, <4>1 DEF Numbered, OldEntry
      <4> QED
        BY <1>4, <4>2
    <3> QED
      BY <3>1, <3>3 DEF NewsOf
  <2>8. \A q \in Listed : LastId(q)' =< LastId(p)'
    <3> TAKE q \in Listed
    <3>1. LastId(q) \in Nat /\ LastId(q) =< oldMade
      BY LastIdIs DEF OldPage
    <3> QED
      BY <1>4, <2>5, <3>1
  <2> DEFINE marked == {j \in DOMAIN list : list[j].bg}
             i == Min(marked)
  <2>9. marked \subseteq Nat /\ marked # {}
    BY <2>1, <2>2, <2>3 DEF Entries
  <2>10. i \in 1 .. Len(list) /\ list[i].peer = p
    <3>1. i \in marked
      BY <2>9, MinIsLeast
    <3> QED
      BY <2>1, <2>3, <3>1 DEF Entries
  <2>11. MoveUp(i, 0)
    BY <1>1, <1>6 DEF Sending
  <2> HIDE DEF i, marked
  <2>12. Tells'
    <3>1. 0 \in Nat /\ 0 = Cardinality(NewsOf(p)')
      BY <2>7, FS_EmptySet
    <3>2. Listing
      BY DEF OldPage
    <3>3. \A q \in Listed : q # p => LastId(q)' = LastId(q)
      BY <2>5
    <3> QED
      BY <2>2, <2>6, <2>8, <2>10, <2>11, <3>1, <3>2, <3>3, MovedTells
  <2> QED
    BY <2>4, <2>12
<1> QED
  BY <1>5, <1>6

\* A click clears the badge of its entry and leaves every entry in its place.
LEMMA ClickTells ==
    ASSUME OldPage, Numbered, Tells, NEW i \in DOMAIN list, FriendLiClick(i)
    PROVE  Numbered' /\ Tells'
<1>1. loaded /\ Entries(list) /\ DOMAIN list = 1 .. Len(list) /\ list \in Seq(Item)
  BY DEF OldPage, Listing, Entries
<1>2. PICK p \in Listed : p = list[i].peer
  <2>1. list[i] \in Item
    BY <1>1
  <2> QED
    BY <2>1 DEF Item
<1>3. /\ list' = [j \in DOMAIN list |->
                    [list[j] EXCEPT !.bg = (j = i), !.badge = IF j = i THEN 0 ELSE @]]
      /\ seenAt' = [seenAt EXCEPT ![p] = oldMade]
      /\ UNCHANGED <<loaded, messages, oldMade, oldRegistered>>
  BY <1>2 DEF FriendLiClick, linkVars
<1>4. /\ messages \in [Key -> Seq(OldEntry)] /\ oldMade \in Nat
      /\ seenAt \in [Sender -> Nat] /\ \A q \in Sender : seenAt[q] =< oldMade
      /\ p \in Sender
  BY DEF OldPage, Chats, Numbered, Sender
<1>5. /\ DOMAIN list' = 1 .. Len(list)
      /\ \A j \in 1 .. Len(list) :
           /\ list'[j].peer = list[j].peer
           /\ list'[j].badge = IF j = i THEN 0 ELSE list[j].badge
  <2>1. DOMAIN list' = 1 .. Len(list)
    BY <1>1, <1>3
  <2>2. ASSUME NEW j \in 1 .. Len(list)
        PROVE  /\ list'[j].peer = list[j].peer
               /\ list'[j].badge = IF j = i THEN 0 ELSE list[j].badge
    <3>1. list'[j] = [list[j] EXCEPT !.bg = (j = i), !.badge = IF j = i THEN 0 ELSE @]
      BY <1>1, <1>3
    <3>2. list[j] \in Item
      BY <1>1
    <3> QED
      BY <3>1, <3>2 DEF Item
  <2> QED
    BY <2>1, <2>2
<1>6. Numbered'
  <2>1. seenAt' \in [Sender -> Nat] /\ \A q \in Sender : seenAt'[q] =< oldMade
    <3>1. seenAt' \in [Sender -> Nat]
      BY <1>3, <1>4
    <3>2. \A q \in Sender : seenAt'[q] = oldMade \/ seenAt'[q] = seenAt[q]
      BY <1>3, <1>4
    <3>3. ASSUME NEW q \in Sender
          PROVE  seenAt'[q] =< oldMade
      <4>1. seenAt[q] =< oldMade /\ oldMade \in Nat
        BY <1>4
      <4> QED
        BY <3>2, <4>1
    <3> QED
      BY <3>1, <3>3
  <2> QED
    BY <1>1, <1>3, <2>1 DEF Numbered
<1>7. \A q : LastId(q)' = LastId(q) /\ Known(q)' = Known(q)
  BY <1>3, LastIdStays DEF Known
<1>8. ASSUME NEW q \in Listed, Known(q), q # p
      PROVE  NewsOf(q)' = NewsOf(q)
  <2>1. seenAt'[q] = seenAt[q]
    BY <1>3, <1>4, <1>8 DEF Sender
  <2> QED
    BY <1>3, <2>1 DEF NewsOf
<1>9. Known(p) => Cardinality(NewsOf(p)') = 0
  <2> SUFFICES ASSUME Known(p)
               PROVE  Cardinality(NewsOf(p)') = 0
    OBVIOUS
  <2>1. p \in Key /\ messages[p] \in Seq(OldEntry) /\ seenAt'[p] = oldMade
    BY <1>3, <1>4, TableKnows
  <2>2. ASSUME NEW k \in DOMAIN messages[p]
        PROVE  ~ (messages[p][k].id > oldMade)
    <3>1. k \in 1 .. Len(messages[p]) /\ messages[p][k] \in OldEntry
      BY <2>1
    <3>2. messages[p][k].id =< oldMade /\ messages[p][k].id \in Int
      BY <2>1, <3>1 DEF Numbered, OldEntry
    <3> QED
      BY <1>4, <3>2
  <2>3. NewsOf(p)' = {}
    BY <1>3, <2>1, <2>2 DEF NewsOf
  <2> QED
    BY <2>3, FS_EmptySet
<1>10. \A q, r \in Listed : \A j, k \in DOMAIN list' :
           j < k /\ list'[j].peer = q /\ list'[k].peer = r => LastId(q)' >= LastId(r)'
  BY <1>1, <1>5, <1>7 DEF Tells
<1>11. ASSUME NEW q \in Listed, NEW j \in DOMAIN list', list'[j].peer = q
       PROVE  list'[j].badge = IF Known(q)' THEN Cardinality(NewsOf(q)') ELSE 0
  <2>1. j \in 1 .. Len(list) /\ list[j].peer = q
    BY <1>5, <1>11
  <2>2. CASE q = p
    <3>1. j = i
      BY <1>1, <1>2, <2>1, <2>2 DEF Entries
    <3> QED
      BY <1>5, <1>7, <1>9, <2>1, <2>2, <3>1
  <2>3. CASE q # p
    <3>1. j # i
      BY <1>2, <2>1, <2>3
    <3>2. list'[j].badge = IF Known(q) THEN Cardinality(NewsOf(q)) ELSE 0
      BY <1>1, <1>5, <2>1, <3>1 DEF Tells
    <3> QED
      BY <1>7, <1>8, <2>3, <3>2
  <2> QED
    BY <2>2, <2>3
<1>12. Tells'
  BY <1>10, <1>11 DEF Tells
<1> QED
  BY <1>6, <1>12

\* When user_info answers nothing has arrived yet.
LEMMA InfoTells ==
    ASSUME OldPage, Numbered, SetUserInfo
    PROVE  Numbered' /\ Tells'
<1>1. /\ loaded' = TRUE /\ ~ loaded
      /\ UNCHANGED <<messages, oldMade, seenAt, oldRegistered>>
      /\ \A i \in DOMAIN list' : list'[i].badge = 0
  BY DEF SetUserInfo, talkVars, linkVars
<1>2. \A p \in Key : messages[p] = <<>>
  BY <1>1 DEF Numbered
<1>3. \A q : LastId(q) = 0
  BY <1>2, TableKnows DEF LastId
<1>4. \A q : LastId(q)' = 0
  BY <1>1, <1>3, LastIdStays
<1>5. \A q : Known(q)' => Cardinality(NewsOf(q)') = 0
  <2> SUFFICES ASSUME NEW q, Known(q)'
               PROVE  Cardinality(NewsOf(q)') = 0
    OBVIOUS
  <2>1. q \in Key
    <3>1. Known(q)
      BY DEF Known
    <3> QED
      BY <3>1, TableKnows
  <2>2. messages'[q] = <<>>
    BY <1>1, <1>2, <2>1
  <2>3. NewsOf(q)' = {}
    BY <2>2 DEF NewsOf
  <2> QED
    BY <2>3, FS_EmptySet
<1>6. Tells'
  BY <1>1, <1>4, <1>5 DEF Tells
<1>7. Numbered'
  BY <1>1 DEF Numbered
<1> QED
  BY <1>6, <1>7

OldTelling == OldPage /\ Numbered /\ Tells

LEMMA StepTells ==
    ASSUME OldTelling, [OldNext]_oldVars
    PROVE  OldTelling'
<1>1. OldPage /\ Numbered /\ Tells /\ OldPage'
  BY StepOldPage DEF OldTelling
<1>2. CASE SetUserInfo
  BY <1>1, <1>2, InfoTells DEF OldTelling
<1>3. ASSUME NEW p \in Sender, OldReceive(p)
      PROVE  OldTelling'
  BY <1>1, <1>3, ReceiveNumbers, ReceiveTells DEF OldTelling
<1>4. ASSUME NEW i \in DOMAIN list, FriendLiClick(i)
      PROVE  OldTelling'
  BY <1>1, <1>4, ClickTells DEF OldTelling
<1>5. CASE SendNews \/ SendEmoji \/ FileUploaded
  <2>1. ShowOwn /\ oldRegistered' = oldRegistered
    BY <1>5 DEF SendNews, SendEmoji, FileUploaded, ShowOwn, linkVars
  <2> QED
    BY <1>1, <2>1, OwnTells DEF OldTelling
<1>6. CASE SocketEvent \/ Register \/ OldLogout \/ UseDialog \/ CloseDialog \/ UNCHANGED oldVars
  <2>1. /\ UNCHANGED <<list, loaded, messages, oldMade, seenAt>>
        /\ oldRegistered' = "me" => oldRegistered = "me" \/ loaded
    BY <1>6 DEF SocketEvent, Opens, Closes, Register, OldLogout, UseDialog, CloseDialog,
                oldVars, listVars, talkVars, linkVars
  <2>2. Numbered'
    BY <1>1, <2>1 DEF Numbered
  <2>3. Tells'
    BY <1>1, <2>1 DEF Tells, LastId, NewsOf, Known
  <2> QED
    BY <1>1, <2>2, <2>3 DEF OldTelling
<1> QED
  BY <1>2, <1>3, <1>4, <1>5, <1>6 DEF OldNext

LEMMA OldPageAlways ==
    OldSpec => []OldPage
<1>1. OldInit => OldPage
  BY InitListing, InitChats DEF OldPage
<1>2. OldPage /\ [OldNext]_oldVars => OldPage'
  BY StepOldPage
<1> QED
  BY <1>1, <1>2, PTL DEF OldSpec

\* The list of the old page holds every friend and every group once, each with one
\* click handler, and the marked entry is the conversation of the hidden inputs,
\* whatever messages moved its entries by copying their text (lines 681-683 and
\* 705-707).
THEOREM ListStaysWhole ==
    OldSpec => []OldListIntact
<1>1. OldPage => OldListIntact
  <2> SUFFICES ASSUME OldPage
               PROVE  OldListIntact
    OBVIOUS
  <2>1. CASE loaded
    <3>1. Entries(list) /\ list \in Seq(Item) /\ DOMAIN list = 1 .. Len(list)
      BY <2>1 DEF OldPage, Listing, Entries
    <3>2. \A i \in 1 .. Len(list) : list[i] \in Item
      BY <3>1
    <3>3. \A i \in 1 .. Len(list) : list[i].peer \in Listed /\ list[i].handlers = 1
      BY <3>2 DEF Item
    <3>4. {list[i].peer : i \in DOMAIN list} = Listed
      BY <3>1, <3>3 DEF Entries
    <3> QED
      BY <3>1, <3>3, <3>4 DEF OldListIntact, Entries
  <2>2. CASE ~ loaded
    BY <2>2 DEF OldPage, Listing, OldListIntact
  <2> QED
    BY <2>1, <2>2
<1> QED
  BY OldPageAlways, <1>1, PTL

\* The window of the old page shows the array of its conversation, while messages
\* for any conversation arrive and uploads end (lines 507-517, 539-561, 588-618).
THEOREM WindowIsItsTable ==
    OldSpec => []OldWindowShowsTable
<1>1. OldPage => OldWindowShowsTable
  BY DEF OldPage
<1> QED
  BY OldPageAlways, <1>1, PTL

\* The list of the old page is in the order of the last messages, and a badge counts
\* what arrived since its conversation was opened or written to: messages are
\* numbered, nothing arrives before the list is there, and whatever arrives or is
\* written moves its entry to the top (processFriendList).
THEOREM ListIsNews ==
    OldSpec => []OldListTellsNews
<1>1. OldInit => OldTelling
  BY InitListing, InitChats, InitTells DEF OldTelling, OldPage
<1>2. OldTelling /\ [OldNext]_oldVars => OldTelling'
  BY StepTells
<1>3. OldTelling => OldListTellsNews
  <2> SUFFICES ASSUME OldTelling
               PROVE  OldListTellsNews
    OBVIOUS
  <2>1. \A i \in DOMAIN list : list[i].peer \in Listed
    <3>1. list \in Seq(Item)
      <4>1. CASE loaded
        BY <4>1 DEF OldTelling, OldPage, Listing, Entries
      <4>2. CASE ~ loaded
        BY <4>2 DEF OldTelling, OldPage, Listing
      <4> QED
        BY <4>1, <4>2
    <3>2. \A i \in DOMAIN list : list[i] \in Item
      BY <3>1
    <3> QED
      BY <3>2 DEF Item
  <2> QED
    BY <2>1 DEF OldTelling, Tells, OldListTellsNews
<1> QED
  BY <1>1, <1>2, <1>3, PTL DEF OldSpec

-----------------------------------------------------------------------------
(* The old page implements ChatLog, for the ids of its table. *)

LEMMA OldInitIsLog == OldInit => OldLog!Init
  BY DEF OldInit, OldLog!Init

LEMMA OldStepIsLog ==
    ASSUME OldPage, [OldNext]_oldVars
    PROVE  [OldLog!Next]_(OldLog!vars)
<1> DEFINE For(S) == {x \in S : Known(x[1])}
<1>0. \A S : For(S) = {x \in S : x[1] \in Key}
  BY TableKnows
<1>1. ASSUME NEW p \in Sender, OldReceive(p)
      PROVE  [OldLog!Next]_(OldLog!vars)
  <2> DEFINE e == New("other")
  <2>1. /\ received' = received \union {<<p, e>>} /\ handed' = handed
        /\ oldMade < MaxMessages
        /\ IF Known(p) THEN OldPush(p, e) ELSE UNCHANGED messages
    BY <1>1 DEF OldReceive, ReceiveMsg
  <2>2. e \in OldEntry
    BY <2>1, NewIsEntry DEF OldPage
  <2> HIDE DEF e
  <2>3. CASE p \in Key
    <3>1. messages' = [messages EXCEPT ![p] = Append(@, e)]
      BY <2>1, <2>3, TableKnows, PushIs
    <3>2. {x \in received' : Known(x[1])} = {x \in received : Known(x[1])} \union {<<p, e>>}
      BY <1>0, <2>1, <2>3
    <3>3. OldLog!Receive(p, e)
      BY <2>1, <3>1, <3>2 DEF OldLog!Receive, OldLog!Append1, Known
    <3> QED
      BY <2>2, <2>3, <3>3 DEF OldLog!Next
  <2>4. CASE p \notin Key
    <3>1. messages' = messages
      BY <2>1, <2>4, TableKnows
    <3>2. {x \in received' : Known(x[1])} = {x \in received : Known(x[1])}
      BY <1>0, <2>1, <2>4
    <3> QED
      BY <2>1, <3>1, <3>2 DEF OldLog!vars, Known
  <2> QED
    BY <2>3, <2>4
<1>2. CASE SendNews \/ SendEmoji \/ FileUploaded
  <2> DEFINE e == New("me")
  <2>1. /\ Hand /\ ShowOwn /\ received' = received
        /\ handed' \in {handed, handed \union {<<toId, e>>}}
    BY <1>2 DEF SendNews, SendEmoji, FileUploaded, Hand, ShowOwn
  <2>2. /\ e \in OldEntry
        /\ IF toId \in Key THEN messages' = [messages EXCEPT ![toId] = Append(@, e)]
           ELSE UNCHANGED messages
    BY <2>1, OwnPuts
  <2> HIDE DEF e
  <2>3. CASE toId \in Key
    <3>1. {x \in handed' : Known(x[1])} \in
            {{x \in handed : Known(x[1])}, {x \in handed : Known(x[1])} \union {<<toId, e>>}}
      BY <1>0, <2>1, <2>3
    <3>2. OldLog!Write(toId, e)
      BY <2>1, <2>2, <2>3, <3>1 DEF OldLog!Write, OldLog!Append1, Known
    <3> QED
      BY <2>2, <2>3, <3>2 DEF OldLog!Next
  <2>4. CASE toId \notin Key
    <3>1. {x \in handed' : Known(x[1])} = {x \in handed : Known(x[1])}
      BY <1>0, <2>1, <2>4
    <3> QED
      BY <2>1, <2>2, <2>4, <3>1 DEF OldLog!vars, Known
  <2> QED
    BY <2>3, <2>4
<1>3. CASE UNCHANGED <<messages, received, handed>>
  BY <1>3 DEF OldLog!vars, Known
<1>4. \/ \E p \in Sender : OldReceive(p)
      \/ SendNews \/ SendEmoji \/ FileUploaded
      \/ UNCHANGED <<messages, received, handed>>
  BY DEF OldNext, oldVars, talkVars, SetUserInfo, SocketEvent, Register, OldLogout,
         FriendLiClick, UseDialog, CloseDialog
<1> QED
  BY <1>1, <1>2, <1>3, <1>4

\* For the ids of its table the old page implements ChatLog: logs only grow, and what
\* is received, or handed to the socket, is appended to the log of its conversation.
THEOREM OldPageImplementsLog ==
    OldSpec => OldImplementsLog
<1>1. OldPage /\ [OldNext]_oldVars => [OldLog!Next]_(OldLog!vars)
  BY OldStepIsLog
<1> QED
  BY OldPageAlways, OldInitIsLog, <1>1, PTL DEF OldSpec, OldImplementsLog, OldLog!Spec

=============================================================================
