------------------------------- MODULE Intake -------------------------------
(***************************************************************************)
(* From a Feishu event to the inbox items of the mentioned users: what the *)
(* event worker does with the jobs of EventQueue (_dispatch_event,         *)
(* MentionProcessor of service.py), together with the callbacks and timers *)
(* that change the same tables meanwhile.                                  *)
(*                                                                         *)
(* Three kinds of event of one chat: a message is received, a message is   *)
(* recalled, the bot is added to the chat.  Every transaction of a handler *)
(* is an action of its own.  What Feishu answers to a request may be any   *)
(* of Answers at any time, so a request is one action with the transaction *)
(* that stores or uses its answer.                                         *)
(*                                                                         *)
(* The chat's row is "none" until something inserts it, "unresolved" while *)
(* its name is not known, "internal" or "external" as Feishu has answered, *)
(* or "quarantined": external because the bot was added and Feishu has not *)
(* said yet what the chat is.  The administrator's mark (unsupported) is a *)
(* column of its own.                                                      *)
(* Besides the handlers, the scan of the users' chats, their callbacks and *)
(* the administrator write that row in the same process at any time.       *)
(* Items are "open" (pending or in progress), "done" or "ignored"; their   *)
(* versions and the outbox jobs that go with every change are in module    *)
(* Outbox.  Left out: the bot's removal, disbanded chats, and a chat that  *)
(* Feishu names by its identifier.                                         *)
(***************************************************************************)
EXTENDS EventQueue

CONSTANTS
    Message,
    User,
    Direct,          \* Direct[m]: users mentioned by name in m
    ToAll,           \* messages that mention everyone
    Listening,       \* members of the chat who want the mentions of everyone
    Fickle,          \* users who may be disabled, lose or renew their authorization
    Answers,         \* what Feishu may answer about the chat
    Administered,    \* may the administrator mark the chat unsupported?
    OrderedDelivery  \* is a message delivered before its recall?

Receive(m) == <<"receive", m>>
Recalled(m) == <<"recall", m>>
BotAdded   == <<"added">>

Events == {Receive(m) : m \in Message} \cup {Recalled(m) : m \in Message} \cup {BotAdded}

ASSUME IntakeAssumption ==
    /\ Event \subseteq Events
    /\ \A m \in Message : {Receive(m), Recalled(m)} \subseteq Event
    /\ Direct \in [Message -> SUBSET User]
    /\ ToAll \subseteq Message
    /\ Listening \subseteq User
    /\ Fickle \subseteq User
    /\ Answers \subseteq {"internal", "external"}
    /\ Administered \in BOOLEAN
    /\ OrderedDelivery \in BOOLEAN

VARIABLES
    source,    \* source_messages: "kept" with its text, "cleared" or "recalled" without
    item,      \* inbox_items: item[m][u]
    chat,      \* chats: what the database knows of the chat
    marked,    \* chats.unsupported
    active,    \* users enabled, authorized and not departed
    aged,      \* how many of the arrived events are past the retention limit
    step,      \* step[w]: where w is in the handler of its job
    found      \* found[w]: targets found so far for the message of the job

storeVars  == <<source, item, chat, marked, active, aged>>
workerVars == <<step, found>>
vars       == <<queueVars, storeVars, workerVars>>

SourceState == {"none", "kept", "cleared", "recalled"}
ItemState   == {"none", "open", "done", "ignored"}
ChatState   == {"none", "unresolved", "internal", "external", "quarantined"}
Step        == {"start", "resolve", "direct", "all", "save", "confirm", "finish"}

TypeOK ==
    /\ QueueTypeOK
    /\ StoredOnce
    /\ source \in [Message -> SourceState]
    /\ item   \in [Message -> [User -> ItemState]]
    /\ chat   \in ChatState
    /\ marked \in BOOLEAN
    /\ active \in SUBSET User
    /\ aged   \in 0 .. Len(arrived)
    /\ step   \in [Worker -> Step]
    /\ found  \in [Worker -> SUBSET User]

Init ==
    /\ QueueInit
    /\ source = [m \in Message |-> "none"]
    /\ item   = [m \in Message |-> [u \in User |-> "none"]]
    /\ chat   = "none"
    /\ marked = FALSE
    /\ active = User
    /\ aged   = 0
    /\ step   = [w \in Worker |-> "start"]
    /\ found  = [w \in Worker |-> {}]

-----------------------------------------------------------------------------
(* The handlers of the event worker. *)

(* w is at step s of the handler of event e, whose payload it holds. *)
Handling(w, e, s) ==
    /\ jobs[w] # <<>>
    /\ Head(jobs[w]) = [event |-> e, body |-> TRUE]
    /\ step[w] = s

Goto(w, s) == step' = [step EXCEPT ![w] = s]

NextJob(w) ==
    /\ Goto(w, "start")
    /\ found' = [found EXCEPT ![w] = {}]

(* An event whose payload has been purged names no message and no chat.    *)
SkipEmpty(w) ==
    /\ jobs[w] # <<>> /\ ~Head(jobs[w]).body /\ step[w] = "start"
    /\ Goto(w, "finish")
    /\ UNCHANGED <<queueVars, storeVars, found>>

(* The handler goes on with a chat that is neither external nor marked. *)
Unresolved == chat \in {"none", "unresolved"}
Open       == chat = "internal" /\ ~marked

(* Faulty: only a chat that has never been seen is looked at. *)
GetAnyChat(w, m) ==
    /\ Handling(w, Receive(m), "start")
    /\ Goto(w, IF Unresolved THEN "resolve" ELSE "direct")
    /\ UNCHANGED <<queueVars, storeVars, found>>

(* process_receive_event: get_chat. *)
GetChat(w, m) ==
    /\ Handling(w, Receive(m), "start")
    /\ Goto(w, IF Unresolved THEN "resolve" ELSE IF Open THEN "direct" ELSE "finish")
    /\ UNCHANGED <<queueVars, storeVars, found>>

(* resolve_chat and upsert_chat, which overwrites what was known but not   *)
(* the mark.                                                               *)
ResolveChat(w, m) ==
    /\ Handling(w, Receive(m), "resolve")
    /\ chat' \in Answers
    /\ Goto(w, IF chat' = "internal" /\ ~marked THEN "direct" ELSE "finish")
    /\ UNCHANGED <<queueVars, source, item, marked, active, aged, found>>

(* find_active_users. *)
FindDirect(w, m) ==
    /\ Handling(w, Receive(m), "direct")
    /\ found' = [found EXCEPT ![w] = Direct[m] \cap active]
    /\ Goto(w, IF m \in ToAll THEN "all" ELSE IF found'[w] = {} THEN "finish" ELSE "save")
    /\ UNCHANGED <<queueVars, storeVars>>

(* list_chat_member_user_ids and find_at_all_users, which asks whether the *)
(* chat is external, not whether it is marked.                             *)
FindAll(w, m) ==
    /\ Handling(w, Receive(m), "all")
    /\ found' = [found EXCEPT ![w] =
                   @ \cup IF chat = "internal" THEN Listening \cap active ELSE {}]
    /\ Goto(w, IF found'[w] = {} THEN "finish" ELSE "save")
    /\ UNCHANGED <<queueVars, storeVars>>

(* Faulty: ON CONFLICT the text of the message is stored again. *)
SaveOver(w, m) ==
    /\ Handling(w, Receive(m), "save")
    /\ source' = [source EXCEPT ![m] = "kept"]
    /\ item'   = [item EXCEPT ![m] = [u \in User |->
                    IF u \in found[w] /\ @[u] = "none" THEN "open" ELSE @[u]]]
    /\ Goto(w, "finish")
    /\ UNCHANGED <<queueVars, chat, marked, active, aged, found>>

(* save_message_targets: what is stored already is left as it is. *)
SaveTargets(w, m) ==
    /\ Handling(w, Receive(m), "save")
    /\ source' = [source EXCEPT ![m] = IF @ = "none" THEN "kept" ELSE @]
    /\ item'   = [item EXCEPT ![m] = [u \in User |->
                    IF u \in found[w] /\ @[u] = "none" THEN "open" ELSE @[u]]]
    /\ Goto(w, "finish")
    /\ UNCHANGED <<queueVars, chat, marked, active, aged, found>>

(* Faulty: a recall closes items that are done as well. *)
RecallAll(w, m) ==
    /\ Handling(w, Recalled(m), "start")
    /\ IF source[m] = "none"
       THEN UNCHANGED <<source, item>>
       ELSE /\ source' = [source EXCEPT ![m] = "recalled"]
            /\ item'   = [item EXCEPT ![m] = [u \in User |->
                            IF @[u] # "none" THEN "ignored" ELSE @[u]]]
    /\ Goto(w, "finish")
    /\ UNCHANGED <<queueVars, chat, marked, active, aged, found>>

(* process_recall_event and recall_message: nothing to do for a message    *)
(* that is not stored.                                                     *)
RecallMessage(w, m) ==
    /\ Handling(w, Recalled(m), "start")
    /\ IF source[m] = "none"
       THEN UNCHANGED <<source, item>>
       ELSE /\ source' = [source EXCEPT ![m] = "recalled"]
            /\ item'   = [item EXCEPT ![m] = [u \in User |->
                            IF @[u] = "open" THEN "ignored" ELSE @[u]]]
    /\ Goto(w, "finish")
    /\ UNCHANGED <<queueVars, chat, marked, active, aged, found>>

(* The bot was added: until Feishu says what the chat is, it counts as     *)
(* external, or, if its name is not known, as still to be resolved.        *)
Quarantine(w) ==
    /\ Handling(w, BotAdded, "start")
    /\ chat' = IF Unresolved THEN "unresolved" ELSE "quarantined"
    /\ Goto(w, "confirm")
    /\ UNCHANGED <<queueVars, source, item, marked, active, aged, found>>

(* resolve_chat and set_bot_membership, which clears the mark. *)
ConfirmChat(w) ==
    /\ Handling(w, BotAdded, "confirm")
    /\ chat' \in Answers
    /\ marked' = FALSE
    /\ Goto(w, "finish")
    /\ UNCHANGED <<queueVars, source, item, active, aged, found>>

(* The handler has returned. *)
Finish(w) ==
    /\ jobs[w] # <<>> /\ step[w] = "finish"
    /\ FinishEvent(w)
    /\ NextJob(w)
    /\ UNCHANGED storeVars

(* Some request or transaction of the handler, or finish_event, raises. *)
HandlerFails(w) ==
    /\ jobs[w] # <<>>
    /\ RetryEvent(w)
    /\ NextJob(w)
    /\ UNCHANGED storeVars

Claim(w) == ClaimEvents(w) /\ UNCHANGED <<storeVars, workerVars>>

Abandon(w) == jobs[w] # <<>> /\ AbandonBatch(w) /\ NextJob(w) /\ UNCHANGED storeVars

Restart(w) == RestartQueue(w) /\ NextJob(w) /\ UNCHANGED storeVars

-----------------------------------------------------------------------------
(* Everything else that happens meanwhile. *)

(* Feishu delivers an event, for the first time or again. *)
Accept(e) ==
    /\ \A m \in Message : OrderedDelivery /\ e = Recalled(m) => status[Receive(m)] # "none"
    /\ EnqueueEvent(e)
    /\ UNCHANGED <<storeVars, workerVars>>

(* The scan of the users' chats, or a user who authorizes, stores what the *)
(* user's listing of chats said of this one (replace_user_chats).          *)
ListUserChats ==
    /\ chat' \in Answers
    /\ UNCHANGED <<queueVars, source, item, marked, active, aged, workerVars>>

(* set_chat_unsupported, for a chat that has a row. *)
MarkChat ==
    /\ Administered /\ chat # "none"
    /\ marked' \in BOOLEAN
    /\ UNCHANGED <<queueVars, source, item, chat, active, aged, workerVars>>

(* set_bot_chats: the bot's own listing of chats clears the mark. *)
ListBotChats ==
    /\ marked' = FALSE
    /\ UNCHANGED <<queueVars, source, item, chat, active, aged, workerVars>>

(* The user, or a pull of the table, changes the status of an item. *)
Edit(m, u) ==
    /\ item[m][u] # "none"
    /\ \E s \in ItemState \ {"none"} : item' = [item EXCEPT ![m][u] = s]
    /\ UNCHANGED <<queueVars, source, chat, marked, active, aged, workerVars>>

(* A user is disabled, loses the authorization, or is activated again. *)
Toggle(u) ==
    /\ u \in Fickle
    /\ active' = IF u \in active THEN active \ {u} ELSE active \cup {u}
    /\ UNCHANGED <<queueVars, source, item, chat, marked, aged, workerVars>>

(* Time passes: one more event, and the message it is about, is past the   *)
(* retention limit.                                                        *)
Age ==
    /\ aged < Len(arrived)
    /\ aged' = aged + 1
    /\ UNCHANGED <<queueVars, source, item, chat, marked, active, workerVars>>

Expired == {m \in Message : \E k \in 1 .. aged : arrived[k] = Receive(m)}

(* purge_expired_content. *)
Purge ==
    /\ PurgeEvents(aged)
    /\ source' = [m \in Message |->
                    IF m \in Expired /\ source[m] = "kept" THEN "cleared" ELSE source[m]]
    /\ UNCHANGED <<item, chat, marked, active, aged, workerVars>>

-----------------------------------------------------------------------------
Handler(w) ==
    \/ SkipEmpty(w) \/ Quarantine(w) \/ ConfirmChat(w)
    \/ \E m \in Message :
         \/ GetChat(w, m) \/ ResolveChat(w, m) \/ FindDirect(w, m) \/ FindAll(w, m)
         \/ SaveTargets(w, m) \/ RecallMessage(w, m)

Progress(w) == Claim(w) \/ Handler(w) \/ Finish(w)

Failure(w) == HandlerFails(w) \/ Abandon(w) \/ Restart(w)

(* The other writers of the chat's row. *)
WriteChat == ListUserChats \/ MarkChat \/ ListBotChats

Environment ==
    \/ \E e \in Event : Accept(e)
    \/ WriteChat
    \/ \E m \in Message, u \in User : Edit(m, u)
    \/ \E u \in User : Toggle(u)
    \/ Age

Next ==
    \/ \E w \in Worker : Progress(w) \/ Failure(w)
    \/ Environment
    \/ Purge

Spec == Init /\ [][Next]_vars

(* The loops of the event workers and of retention keep running; Feishu,   *)
(* users, time and failures owe nothing.                                   *)
FairSpec == Spec /\ (\A w \in Worker : WF_vars(Progress(w))) /\ WF_vars(Purge)

-----------------------------------------------------------------------------
(* Properties. *)

(* A mention is not lost to retries, restarts and redelivery: once the     *)
(* event of a message is over, unless retention ended it, every user it    *)
(* mentions by name who has been active all along has an item.             *)
NoMentionLost ==
    \A m \in Message :
        /\ status[Receive(m)] = "succeeded"
        /\ m \notin Expired
        /\ Open /\ (BotAdded \in Event => status[BotAdded] = "none")
        => \A u \in Direct[m] \ Fickle : item[m][u] # "none"

(* No message is stored between the bot's arrival in the chat and the next *)
(* classification of the chat, whatever fails, is retried, delivered again *)
(* or written to the chat's row meanwhile: a handler that found the chat   *)
(* classified is over before the only worker quarantines it again.  The    *)
(* classification need not be the one the arrival asked for, and may still *)
(* change before the message is stored: a listing of chats can lift the    *)
(* quarantine with an answer given before it, and can close the chat, as   *)
(* the administrator can, between get_chat and save_message_targets.       *)
NoStoreWhileQuarantined ==
    [][\A m \in Message :
          source[m] = "none" /\ source'[m] = "kept" => chat \in {"internal", "external"}]_vars

(* Every accepted event is handled or discarded by retention, however many *)
(* failures come between: none is left in processing or retried forever.   *)
EventsEnd == \A e \in Event : status[e] # "none" ~> status[e] = "succeeded"

(* After a recall has been handled, the text is not there, whatever order  *)
(* the message and its recall were handled in.                             *)
RecallHonoured ==
    \A m \in Message :
        status[Recalled(m)] = "succeeded" /\ m \notin Expired => source[m] # "kept"

(* What RecallHonoured needs, besides a single worker: the recall arrived  *)
(* after its message, and nothing has failed or restarted.  Then the queue *)
(* hands them out in their order, batch by batch, and retention does not   *)
(* let the recall overtake the message.                                    *)
RecallInOrder ==
    faults = 0 =>
        \A m \in Message, p, q \in 1 .. Len(arrived) :
            /\ p < q /\ arrived[p] = Receive(m) /\ arrived[q] = Recalled(m)
            /\ status[Recalled(m)] = "succeeded" /\ m \notin Expired
            => source[m] # "kept"

(* With a single worker an event that is over is never handed out again,   *)
(* whatever is delivered again, retried, taken over or restarted.          *)
EndedStaysEnded ==
    [][\A e \in Event : status[e] = "succeeded" => status'[e] = "succeeded"]_vars

(* The intake implements the promise of Mailbox: stored once, items opened *)
(* once and changed by users and recalls only, texts cleared for good.     *)
M == INSTANCE Mailbox WITH expired <- Expired
RefinesMailbox == M!Spec

(* The same without the promise that expired texts are cleared. *)
RefinesMailboxSafely == M!Safe
=============================================================================
