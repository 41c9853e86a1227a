--------------------------- MODULE SentMessageMap ---------------------------
(***************************************************************************)
(* static/js/common/SentMessageMap.js: the message table of the chat pages, *)
(* an array of key-value elements in which a key may occur several times.   *)
(* A table is the sequence m of its elements; a method that changes it is an *)
(* operator that gives the new table, and a machine below calls them all.   *)
(***************************************************************************)
EXTENDS Integers, SequencesExt

CONSTANTS
    MapKey, MapValue,   \* the keys and the values put into the table
    False, Null,        \* what get, and what element, answer when there is no element
    MaxElements         \* bound: the elements of a table

VARIABLES
    table,              \* this.elements
    answer              \* what the last removal answered

mapVars == <<table, answer>>

-----------------------------------------------------------------------------

size(m) == Len(m)
isEmpty(m) == Len(m) < 1
clear == <<>>
put(m, k, v) == Append(m, [key |-> k, value |-> v])

\* Where the elements with the key, with the value, with both are.
AtKey(m, k) == {i \in DOMAIN m : m[i].key = k}
AtValue(m, v) == {i \in DOMAIN m : m[i].value = v}
AtBoth(m, k, v) == AtKey(m, k) \intersect AtValue(m, v)

\* splice(i, 1) at the first hit, and nothing after it.
SpliceFirst(m, hits) == IF hits = {} THEN m ELSE RemoveAt(m, Min(hits))

removeByKey(m, k) == SpliceFirst(m, AtKey(m, k))
removeByValue(m, v) == SpliceFirst(m, AtValue(m, v))
removeByValueAndKey(m, k, v) == SpliceFirst(m, AtBoth(m, k, v))

get(m, k) == IF AtKey(m, k) = {} THEN False ELSE m[Min(AtKey(m, k))].value

element(m, i) == IF i < 0 \/ i >= Len(m) THEN Null ELSE m[i + 1]

containsKey(m, k) == AtKey(m, k) # {}
containsValue(m, v) == AtValue(m, v) # {}
containsObj(m, k, v) == AtBoth(m, k, v) # {}

ValuesOf(m) == [i \in DOMAIN m |-> m[i].value]
KeysOf(m) == [i \in DOMAIN m |-> m[i].key]

values(m) == ValuesOf(m)
valuesByKey(m, k) == ValuesOf(SelectSeq(m, LAMBDA e : e.key = k))
keys(m) == KeysOf(m)
keysByValue(m, v) == KeysOf(SelectSeq(m, LAMBDA e : e.value = v))

\* Faulty: a key is compared with its predecessor only.
KeysWithoutRepeats(m) ==
    LET new == SelectSeq([i \in DOMAIN m |-> i], LAMBDA i : i = 1 \/ m[i].key # m[i - 1].key)
    IN  [j \in DOMAIN new |-> m[new[j]].key]

\* A key is taken where it occurs first.
keysRemoveDuplicate(m) ==
    LET first == SelectSeq([i \in DOMAIN m |-> i], LAMBDA i : \A j \in 1 .. i - 1 : m[j].key # m[i].key)
    IN  [j \in DOMAIN first |-> m[first[j]].key]

-----------------------------------------------------------------------------

MapInit == table = clear /\ answer = FALSE

Put == \E k \in MapKey, v \in MapValue :
    /\ Len(table) < MaxElements
    /\ table' = put(table, k, v)
    /\ UNCHANGED answer

\* The removals answer whether they removed anything.
Removed(m) == table' = m /\ answer' = (m # table)

RemoveOne == \E k \in MapKey, v \in MapValue :
    \/ Removed(removeByKey(table, k))
    \/ Removed(removeByValue(table, v))
    \/ Removed(removeByValueAndKey(table, k, v))

Clear == table' = clear /\ UNCHANGED answer

MapNext == Put \/ RemoveOne \/ Clear

MapSpec == MapInit /\ [][MapNext]_mapVars

-----------------------------------------------------------------------------

\* Every way to read the table tells the same story, although keys and pairs
\* repeat: the table falls apart into the values of its distinct keys, get of a
\* key that is there is the first of them, and element counts from 0 (get,
\* containsKey, valuesByKey, keysRemoveDuplicate, element).  Nothing is said of get
\* of a key that is not there: the comment (line 78) and a page say null, and it is
\* false.
ReadersAgree ==
    LET distinct == keysRemoveDuplicate(table)
    IN  /\ IsInjective(distinct)
        /\ size(table) = FoldSeq(LAMBDA k, n : n + Len(valuesByKey(table, k)), 0, distinct)
        /\ \A k \in MapKey :
               /\ containsKey(table, k) <=> k \in Range(distinct)
               /\ containsKey(table, k) => get(table, k) = Head(valuesByKey(table, k))
               /\ \A v \in MapValue :
                      /\ containsObj(table, k, v) <=> v \in Range(valuesByKey(table, k))
                      /\ containsObj(table, k, v) => k \in Range(keysByValue(table, v)) /\ containsValue(table, v)
        /\ isEmpty(table) <=> Range(keys(table)) \union Range(values(table)) = {}
        /\ \A i \in -1 .. Len(table) :
               element(table, i) = IF i \in 0 .. Len(table) - 1
                                   THEN [key |-> keys(table)[i + 1], value |-> values(table)[i + 1]]
                                   ELSE Null

=============================================================================
