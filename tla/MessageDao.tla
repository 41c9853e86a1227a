----------------------------- MODULE MessageDao -----------------------------
(***************************************************************************)
(* The Redis state behind OfflineMessageDaoImpl and OnlineMessageDaoImpl,   *)
(* and the commands the two classes send.  Redis is shared by all nodes and *)
(* executes one command at a time, so every operator below is one step at   *)
(* most: a DAO method that sends two commands is two steps of its caller.   *)
(***************************************************************************)
EXTENDS Integers, FiniteSets

CONSTANTS
    User,          \* user ids
    Ulp            \* distance of two neighbouring doubles at the size of a message id

ASSUME UlpAssumption == Ulp \in Nat \ {0}

VARIABLES
    zset,          \* zset[u]: nettyim:message:offline:<u>, the offline messages of u
    flag,          \* flag[u]: nettyim:message:offline:flag, FALSE also when absent
    record         \* record[u]: nettyim:message:online:record, 0 when absent

redisVars == <<zset, flag, record>>

\* A score is a double: the id, a 60-bit long, rounded to the nearest multiple
\* of Ulp and half to even.  Scores are counted in multiples of Ulp.
Score(id) ==
    LET low  == id \div Ulp
        rest == id % Ulp
    IN  IF 2 * rest < Ulp \/ (2 * rest = Ulp /\ low % 2 = 0) THEN low ELSE low + 1

RedisInit ==
    /\ zset = [u \in User |-> {}]
    /\ flag = [u \in User |-> FALSE]
    /\ record = [u \in User |-> 0]

\* OfflineMessageDaoImpl.insert, first command.
ZAdd(u, m) == zset' = [zset EXCEPT ![u] = @ \union {m}]

\* OfflineMessageDaoImpl.insert, second command.
RaiseFlag(u) == flag' = [flag EXCEPT ![u] = TRUE]

\* OfflineMessageDaoImpl.clearOfflineFlag.
LowerFlag(u) == flag' = [flag EXCEPT ![u] = FALSE]

\* Faulty: the range ends one past the last id sent.
RemoveOneMore(u, latest) ==
    zset' = [zset EXCEPT ![u] = {m \in @ : Score(m.id) > Score(latest) + 1}]

\* OfflineMessageDaoImpl.getOfflineMessage, first command: ZREMRANGEBYSCORE
\* from 0 to the last id sent.
RemoveUpTo(u, latest) ==
    zset' = [zset EXCEPT ![u] = {m \in @ : Score(m.id) > Score(latest)}]

\* Second command: ZRANGEBYSCORE from the last id sent, inclusive.
FromLatest(u, latest) == {m \in zset[u] : Score(m.id) >= Score(latest)}

\* MessageInfo is a Lombok @Data: its equals compares its own fields, and the
\* messageId and the times belong to MessageBase.
SameContent(m, k) == m.from = k.from /\ m.to = k.to /\ m.body = k.body

\* The LinkedHashSet keeps the first of the messages that are equal.  Redis
\* returns them by score and then by member, a JSON text that starts with the
\* id, that is by id; of two nodes' messages with one id either may be first.
Deduplicated(S) ==
    {D \in SUBSET S :
        /\ \A m \in S : \E k \in D : SameContent(m, k) /\ k.id <= m.id
        /\ \A m, k \in D : SameContent(m, k) => m = k}

\* Faulty: records the id that is expected next.
PutNextRecord(u, id) == record' = [record EXCEPT ![u] = id + 1]

\* OnlineMessageDaoImpl.insertSendInfo: the last call wins, whatever its id.
PutRecord(u, id) == record' = [record EXCEPT ![u] = id]

=============================================================================
