------------------------------ MODULE Mailbox ------------------------------
(***************************************************************************)
(* What the intake of messages promises, apart from any queue: a message   *)
(* is stored once, for the users it targets; what a user makes of an item  *)
(* is only changed by the user and by a recall of the message, which never *)
(* reopens anything and keeps what is done; a text that has been cleared   *)
(* is never stored again; and a text past its retention is cleared.        *)
(***************************************************************************)
CONSTANTS
    Message,
    User

VARIABLES
    source,    \* source[m]: what is stored of message m
    item,      \* item[m][u]: user u's inbox item for message m
    expired    \* messages past the retention limit

vars == <<source, item, expired>>

SourceState == {"none", "kept", "cleared", "recalled"}
ItemState   == {"none", "open", "done", "ignored"}

Init ==
    /\ source  = [m \in Message |-> "none"]
    /\ item    = [m \in Message |-> [u \in User |-> "none"]]
    /\ expired = {}

(* Items are opened for the users of S that have none yet.                 *)
Deliver(m, S) ==
    /\ source' = [source EXCEPT ![m] = IF @ = "none" THEN "kept" ELSE @]
    /\ item'   = [item EXCEPT ![m] = [u \in User |->
                    IF u \in S /\ @[u] = "none" THEN "open" ELSE @[u]]]
    /\ UNCHANGED expired

Edit(m, u) ==
    /\ item[m][u] # "none"
    /\ \E s \in ItemState \ {"none"} : item' = [item EXCEPT ![m][u] = s]
    /\ UNCHANGED <<source, expired>>

Recall(m) ==
    /\ source[m] # "none"
    /\ source' = [source EXCEPT ![m] = "recalled"]
    /\ item'   = [item EXCEPT ![m] = [u \in User |->
                    IF @[u] = "open" THEN "ignored" ELSE @[u]]]
    /\ UNCHANGED expired

Expire ==
    /\ expired' \in SUBSET Message
    /\ expired \subseteq expired'
    /\ UNCHANGED <<source, item>>

Clear ==
    /\ source' = [m \in Message |->
                    IF m \in expired /\ source[m] = "kept" THEN "cleared" ELSE source[m]]
    /\ UNCHANGED <<item, expired>>

Next ==
    \/ \E m \in Message : Recall(m)
    \/ \E m \in Message, S \in SUBSET User : S # {} /\ Deliver(m, S)
    \/ \E m \in Message, u \in User : Edit(m, u)
    \/ Expire
    \/ Clear

Safe == Init /\ [][Next]_vars

Spec == Safe /\ WF_vars(Clear)
=============================================================================
