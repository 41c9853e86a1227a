---------------------------- MODULE MCChatClient ----------------------------
(***************************************************************************)
(* Small instances of the two chat pages and of the message table they       *)
(* share.  They never run together: page chooses one of them, and the        *)
(* variables of the others keep their initial values.                        *)
(***************************************************************************)
EXTENDS ChatClient, OldChatClient

CONSTANTS ann, team, crew, guest, null, MaxTable

VARIABLES chosen, table, answer

\* The table of the old page knows a friend, a group and an id that no list
\* shows; it does not know a group of the list.
KnownKeys == <<ann, team, guest>>

MapTable == INSTANCE SentMessageMap WITH
    MapKey <- {ann, team}, MapValue <- {guest, crew}, False <- FALSE, Null <- null,
    MaxElements <- MaxTable

mapVars == <<table, answer>>

MCInit ==
    /\ chosen \in {"page", "old page", "table"}
    /\ Init /\ OldInit /\ MapTable!MapInit

MCNext ==
    /\ UNCHANGED chosen
    /\ \/ chosen = "page" /\ Next /\ UNCHANGED <<oldVars, mapVars>>
       \/ chosen = "old page" /\ OldNext /\ UNCHANGED <<vars, mapVars>>
       \/ chosen = "table" /\ MapTable!MapNext /\ UNCHANGED <<vars, oldVars>>

\* The fairness of FairSpec, for a page that is chosen.
MCSpec ==
    /\ MCInit /\ [][MCNext]_<<chosen, vars, oldVars, mapVars>>
    /\ WF_vars(chosen = "page" /\ TimerFires /\ UNCHANGED <<chosen, oldVars, mapVars>>)

\* The readers of the message table: see ReadersAgree of SentMessageMap.
TableReadersAgree == MapTable!ReadersAgree
=============================================================================
