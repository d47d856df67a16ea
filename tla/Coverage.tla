------------------------------ MODULE Coverage ------------------------------
(***************************************************************************)
(* Group coverage: for every user and every chat the user is in, does the  *)
(* service receive the chat's messages?  Tables chats and user_chats, the  *)
(* hourly scan of workers.py (run_coverage_check), the bot events of       *)
(* _dispatch_event, activation by OAuth, and the administrator.  All of    *)
(* them rewrite the same rows.                                             *)
(*                                                                         *)
(* Every request to Feishu and every transaction is an action of its own;  *)
(* what a request returned is kept until it is used, and may be out of     *)
(* date by then.  A projection of user_chats on the coverage table is one  *)
(* action (its steps are in module Outbox).  A chat may become external or *)
(* internal at any time; nothing announces it, a listing or a look-up of   *)
(* the chat tells it.                                                      *)
(*                                                                         *)
(* Left out: the settings and users tables, which repeat what is here,     *)
(* access to the Bitable, the first callback of a local installation,      *)
(* which creates its user, and the chats the intake of messages creates,   *)
(* which have no rows in user_chats.                                       *)
(***************************************************************************)
EXTENDS Naturals

CONSTANTS
    User,
    Chat,
    MaxChanges,   \* bound on what happens in Feishu and on administrative marks
    MaxFaults     \* bound on failures

ASSUME CoverageAssumption ==
    /\ MaxChanges \in Nat
    /\ MaxFaults \in Nat

VARIABLES
    bot,          \* Feishu: the chats the bot is in
    member,       \* Feishu: member[u], the chats u is in
    outside,      \* Feishu: the external chats
    events,       \* bot events accepted and not yet handled, in any order
    enabled,      \* users.enabled
    authorized,   \* users.authorized, and with it the stored tokens
    chat,         \* chats
    cover,        \* cover[u][c]: user_chats, "none" without a row
    due,          \* rows with a job in the outbox
    shown,        \* shown[u][c]: the status the coverage table shows
    login,        \* login[u]: where an OAuth callback of u is, and what it listed
    adding,       \* the bot-added event being handled, and what resolve_chat answered
    phase,        \* the scan
    todo,         \* users the scan has still to look at
    cur,          \* the users (one or none) it is looking at
    seen,         \* chats the last request of the scan returned
    seenOut,      \* and those of them it called external
    changes,
    faults

worldVars   == <<bot, member, outside, events>>
accountVars == <<enabled, authorized>>
rowVars     == <<chat, cover, due>>
scanVars    == <<phase, todo, cur, seen, seenOut>>
vars == <<worldVars, accountVars, rowVars, shown, login, adding, scanVars, changes, faults>>

Status == {"covered", "missing", "unsupported", "expired"}
Stored == Status \cup {"none"}

Event == {"added", "deleted", "disbanded"} \X Chat

ChatRow == [known : BOOLEAN, external : BOOLEAN, present : BOOLEAN,
            disbanded : BOOLEAN, unsupported : BOOLEAN]

Login == [at : {"none", "listed", "active"}, chats : SUBSET Chat, out : SUBSET Chat]

(* What resolve_chat says of a chat, "asked" while it has not answered. *)
Answer == {"asked", "internal", "external"}

TypeOK ==
    /\ bot \subseteq Chat /\ member \in [User -> SUBSET Chat]
    /\ outside \subseteq Chat /\ events \subseteq Event
    /\ enabled \subseteq User /\ authorized \subseteq User
    /\ chat  \in [Chat -> ChatRow]
    /\ cover \in [User -> [Chat -> [status : Stored, active : BOOLEAN]]]
    /\ \A u \in User, c \in Chat : cover[u][c].status # "none" => chat[c].known
    /\ due \subseteq {p \in User \X Chat : cover[p[1]][p[2]].status # "none"}
    /\ shown \in [User -> [Chat -> Stored]]
    /\ login \in [User -> Login]
    /\ adding \subseteq Chat \X Answer
    /\ phase \in {"idle", "bots", "set", "users", "refreshed", "list", "replace", "expire"}
    /\ todo \subseteq User /\ cur \subseteq User /\ seen \subseteq Chat /\ seenOut \subseteq Chat
    /\ changes \in 0 .. MaxChanges /\ faults \in 0 .. MaxFaults

NoChat   == [known |-> FALSE, external |-> TRUE, present |-> FALSE,
             disbanded |-> FALSE, unsupported |-> FALSE]
NoCover  == [status |-> "none", active |-> FALSE]
NoLogin  == [at |-> "none", chats |-> {}, out |-> {}]

Init ==
    /\ bot = {} /\ member = [u \in User |-> Chat] /\ outside = {} /\ events = {}
    /\ enabled = User /\ authorized = {}
    /\ chat  = [c \in Chat |-> NoChat]
    /\ cover = [u \in User |-> [c \in Chat |-> NoCover]]
    /\ due = {}
    /\ shown = [u \in User |-> [c \in Chat |-> "none"]]
    /\ login = [u \in User |-> NoLogin]
    /\ adding = {}
    /\ phase = "idle" /\ todo = {} /\ cur = {} /\ seen = {} /\ seenOut = {}
    /\ changes = 0 /\ faults = 0

Active(u) == u \in enabled \cap authorized

(* Chat.coverage_status. *)
StatusOf(r) ==
    IF r.external \/ r.disbanded \/ r.unsupported THEN "unsupported"
    ELSE IF r.present THEN "covered" ELSE "missing"

-----------------------------------------------------------------------------
(* Transactions on chats and user_chats. *)

HasRow(u, c) == cover[u][c].status # "none"

Holders(c) == {u \in User : HasRow(u, c)}
Members(c) == {u \in User : cover[u][c].active}

(* The rows of the users of S for c take a status and are enqueued.        *)
Recover(c, S, status) ==
    /\ cover' = [u \in User |->
                   IF u \in S THEN [cover[u] EXCEPT ![c].status = status] ELSE cover[u]]
    /\ due' = due \cup (S \X {c})

(* set_bot_membership without an answer on external: as it was. *)
BotGone(c) ==
    LET r == [chat[c] EXCEPT !.known = TRUE, !.present = FALSE]
    IN  /\ chat' = [chat EXCEPT ![c] = r]
        /\ Recover(c, Holders(c), StatusOf(r))

(* set_bot_membership(False, external=True): the chat is quarantined. *)
Quarantine(c) ==
    LET r == [chat[c] EXCEPT !.known = TRUE, !.present = FALSE, !.external = TRUE]
    IN  /\ chat' = [chat EXCEPT ![c] = r]
        /\ Recover(c, Holders(c), StatusOf(r))

(* set_bot_membership(True, external): all doubts are cleared. *)
BotThere(c, external) ==
    LET r == [known |-> TRUE, external |-> external, present |-> TRUE,
              disbanded |-> FALSE, unsupported |-> FALSE]
    IN  /\ chat' = [chat EXCEPT ![c] = r]
        /\ Recover(c, Holders(c), StatusOf(r))

(* "Faulty:" marks variants with a mistake the code could contain.  No      *)
(* specification uses them; the properties are tried against them.         *)

(* Faulty: the rows of the chat keep their status. *)
DisbandChatOnly(c) ==
    /\ chat' = [chat EXCEPT ![c].known = TRUE, ![c].present = FALSE, ![c].disbanded = TRUE]
    /\ UNCHANGED <<cover, due>>

(* disband_chat. *)
Disband(c) ==
    /\ chat' = [chat EXCEPT ![c].known = TRUE, ![c].present = FALSE, ![c].disbanded = TRUE]
    /\ Recover(c, Holders(c), "unsupported")

(* replace_user_chats: u is in the chats of S and in no other, and those   *)
(* of out are external.  The rows of other members keep their status.      *)
ReplaceChats(u, S, out) ==
    LET row == [c \in Chat |->
                  IF c \in S THEN [chat[c] EXCEPT !.known = TRUE, !.external = c \in out]
                  ELSE chat[c]]
    IN  /\ chat'  = row
        /\ cover' = [cover EXCEPT ![u] = [c \in Chat |->
                       IF c \in S THEN [status |-> StatusOf(row[c]), active |-> TRUE]
                       ELSE IF @[c].active THEN [status |-> "unsupported", active |-> FALSE]
                       ELSE @[c]]]
        /\ due' = due \cup {p \in {u} \X Chat : p[2] \in S \/ cover[u][p[2]].active}

-----------------------------------------------------------------------------
(* Feishu, and the administrator. *)

Change == changes < MaxChanges /\ changes' = changes + 1

BotJoins(c) ==
    /\ Change /\ c \notin bot
    /\ bot' = bot \cup {c}
    /\ events' = events \cup {<<"added", c>>}
    /\ UNCHANGED <<member, outside, accountVars, rowVars, shown, login, adding, scanVars, faults>>

BotLeaves(c) ==
    /\ Change /\ c \in bot
    /\ bot' = bot \ {c}
    /\ events' = events \cup {<<"deleted", c>>}
    /\ UNCHANGED <<member, outside, accountVars, rowVars, shown, login, adding, scanVars, faults>>

ChatDisbands(c) ==
    /\ Change /\ c \in bot
    /\ bot' = bot \ {c}
    /\ member' = [u \in User |-> member[u] \ {c}]
    /\ events' = events \cup {<<"disbanded", c>>}
    /\ UNCHANGED <<outside, accountVars, rowVars, shown, login, adding, scanVars, faults>>

(* No event tells that a chat has become external, or internal again. *)
ChatTurns(c) ==
    /\ Change
    /\ outside' = IF c \in outside THEN outside \ {c} ELSE outside \cup {c}
    /\ UNCHANGED <<bot, member, events, accountVars, rowVars, shown, login, adding,
                   scanVars, faults>>

(* set_chat_unsupported: only rows of present members change. *)
MarkChat(c) ==
    /\ Change /\ chat[c].known
    /\ \E b \in BOOLEAN :
         LET r == [chat[c] EXCEPT !.unsupported = b]
         IN  /\ chat' = [chat EXCEPT ![c] = r]
             /\ Recover(c, Members(c), StatusOf(r))
    /\ UNCHANGED <<worldVars, accountVars, shown, login, adding, scanVars, faults>>

EnableUser(u) ==
    /\ u \notin enabled
    /\ enabled' = enabled \cup {u}
    /\ UNCHANGED <<worldVars, authorized, rowVars, shown, login, adding, scanVars, changes,
                   faults>>

DisableUser(u) ==
    /\ u \in enabled
    /\ enabled' = enabled \ {u} /\ authorized' = authorized \ {u}
    /\ UNCHANGED <<worldVars, rowVars, shown, login, adding, scanVars, changes, faults>>

-----------------------------------------------------------------------------
(* oauth_callback: list_user_chats, activate_user, replace_user_chats.     *)
(* One callback of a user runs at a time; an error may end it anywhere,    *)
(* and then it is as if it never took its next step.                       *)

ListForLogin(u) ==
    /\ login[u].at = "none" /\ u \in enabled
    /\ login' = [login EXCEPT ![u] =
                   [at |-> "listed", chats |-> member[u], out |-> member[u] \cap outside]]
    /\ UNCHANGED <<worldVars, accountVars, rowVars, shown, adding, scanVars, changes, faults>>

(* activate_user finds the user enabled, or the callback ends. *)
ActivateUser(u) ==
    /\ login[u].at = "listed"
    /\ IF u \in enabled
       THEN authorized' = authorized \cup {u} /\ login' = [login EXCEPT ![u].at = "active"]
       ELSE login' = [login EXCEPT ![u] = NoLogin] /\ UNCHANGED authorized
    /\ UNCHANGED <<worldVars, enabled, rowVars, shown, adding, scanVars, changes, faults>>

FinishLogin(u) ==
    /\ login[u].at = "active"
    /\ ReplaceChats(u, login[u].chats, login[u].out)
    /\ login' = [login EXCEPT ![u] = NoLogin]
    /\ UNCHANGED <<worldVars, accountVars, shown, adding, scanVars, changes, faults>>

-----------------------------------------------------------------------------
(* The event worker. *)

AddedBegins(c) ==
    /\ adding = {} /\ <<"added", c>> \in events
    /\ adding' = {<<c, "asked">>}
    /\ Quarantine(c)
    /\ UNCHANGED <<worldVars, accountVars, shown, login, scanVars, changes, faults>>

ResolveChat(c) ==
    /\ <<c, "asked">> \in adding
    /\ adding' = {<<c, IF c \in outside THEN "external" ELSE "internal">>}
    /\ UNCHANGED <<worldVars, accountVars, rowVars, shown, login, scanVars, changes, faults>>

AddedEnds(c) ==
    /\ \E answer \in {"internal", "external"} :
         <<c, answer>> \in adding /\ BotThere(c, answer = "external")
    /\ adding' = {} /\ events' = events \ {<<"added", c>>}
    /\ UNCHANGED <<bot, member, outside, accountVars, shown, login, scanVars, changes, faults>>

(* resolve_chat fails, or the process stops: the event comes again. *)
AddedFails ==
    /\ adding # {} /\ adding' = {}
    /\ faults < MaxFaults /\ faults' = faults + 1
    /\ UNCHANGED <<worldVars, accountVars, rowVars, shown, login, scanVars, changes>>

BotDeleted(c) ==
    /\ adding = {} /\ <<"deleted", c>> \in events
    /\ events' = events \ {<<"deleted", c>>}
    /\ BotGone(c)
    /\ UNCHANGED <<bot, member, outside, accountVars, shown, login, adding, scanVars,
                   changes, faults>>

ChatDisbanded(c) ==
    /\ adding = {} /\ <<"disbanded", c>> \in events
    /\ events' = events \ {<<"disbanded", c>>}
    /\ Disband(c)
    /\ UNCHANGED <<bot, member, outside, accountVars, shown, login, adding, scanVars,
                   changes, faults>>

-----------------------------------------------------------------------------
(* run_coverage_check. *)

Goto(p) == phase' = p

ListUsers ==
    /\ phase = "idle" /\ enabled \cap authorized # {}
    /\ todo' = enabled \cap authorized
    /\ Goto("bots")
    /\ UNCHANGED <<worldVars, accountVars, rowVars, shown, login, adding, cur, seen, seenOut,
                   changes, faults>>

ListBotChats ==
    /\ phase = "bots"
    /\ seen' = bot
    /\ Goto("set")
    /\ UNCHANGED <<worldVars, accountVars, rowVars, shown, login, adding, todo, cur,
                   seenOut, changes, faults>>

(* set_bot_chats: every row of every user takes the status of its chat,    *)
(* and no job is enqueued.                                                 *)
SetBotChats ==
    /\ phase = "set"
    /\ LET row == [c \in Chat |->
                     IF ~chat[c].known THEN chat[c]
                     ELSE IF c \in seen
                     THEN [chat[c] EXCEPT !.present = TRUE, !.disbanded = FALSE, !.unsupported = FALSE]
                     ELSE [chat[c] EXCEPT !.present = FALSE]]
       IN  /\ chat'  = row
           /\ cover' = [u \in User |-> [c \in Chat |->
                          IF HasRow(u, c) THEN [cover[u][c] EXCEPT !.status = StatusOf(row[c])]
                          ELSE cover[u][c]]]
    /\ seen' = {}
    /\ Goto("users")
    /\ UNCHANGED <<worldVars, accountVars, due, shown, login, adding, todo, cur, seenOut,
                   changes, faults>>

(* The next user, whose access token is renewed if it is about to expire.  *)
NextUser(u) ==
    /\ phase = "users" /\ cur = {} /\ u \in todo
    /\ cur' = {u} /\ todo' = todo \ {u}
    /\ Goto("refreshed") \/ Goto("list")
    /\ UNCHANGED <<worldVars, accountVars, rowVars, shown, login, adding, seen, seenOut,
                   changes, faults>>

(* update_user_tokens. *)
UpdateTokens ==
    /\ phase = "refreshed"
    /\ authorized' = authorized \cup cur
    /\ Goto("list")
    /\ UNCHANGED <<worldVars, enabled, rowVars, shown, login, adding, todo, cur, seen, seenOut,
                   changes, faults>>

ListUserChats ==
    /\ phase = "list"
    /\ seen' = UNION {member[u] : u \in cur}
    /\ seenOut' = seen' \cap outside
    /\ Goto("replace")
    /\ UNCHANGED <<worldVars, accountVars, rowVars, shown, login, adding, todo, cur,
                   changes, faults>>

(* Faulty: the rows of the user are updated, the chats are not. *)
ReplaceOnlyCover ==
    /\ phase = "replace"
    /\ \E u \in cur :
         /\ cover' = [cover EXCEPT ![u] = [c \in Chat |->
                        IF c \in seen /\ @[c].status # "none"
                        THEN [@[c] EXCEPT !.active = TRUE]
                        ELSE [@[c] EXCEPT !.active = FALSE]]]
         /\ due' = due \cup {p \in {u} \X Chat : HasRow(u, p[2])}
    /\ cur' = {} /\ seen' = {} /\ seenOut' = {}
    /\ Goto("users")
    /\ UNCHANGED <<worldVars, accountVars, chat, shown, login, adding, todo, changes, faults>>

ReplaceUserChats ==
    /\ phase = "replace"
    /\ \E u \in cur : ReplaceChats(u, seen, seenOut)
    /\ cur' = {} /\ seen' = {} /\ seenOut' = {}
    /\ Goto("users")
    /\ UNCHANGED <<worldVars, accountVars, shown, login, adding, todo, changes, faults>>

EndScan ==
    /\ phase = "users" /\ cur = {} /\ todo = {}
    /\ Goto("idle")
    /\ UNCHANGED <<worldVars, accountVars, rowVars, shown, login, adding, todo, cur, seen,
                   seenOut,
                   changes, faults>>

(* refresh_user_token or list_user_chats is refused: the user's            *)
(* authorization is over.                                                  *)
Refused ==
    /\ phase \in {"refreshed", "list"}
    /\ faults < MaxFaults /\ faults' = faults + 1
    /\ Goto("expire")
    /\ UNCHANGED <<worldVars, accountVars, rowVars, shown, login, adding, todo, cur, seen,
                   seenOut,
                   changes>>

(* Faulty: a job for every chat, whether the user has a row for it or not. *)
ExpireEverywhere ==
    /\ phase = "expire"
    /\ authorized' = authorized \ cur
    /\ cover' = [u \in User |-> [c \in Chat |->
                   IF u \in cur /\ cover[u][c].active THEN [cover[u][c] EXCEPT !.status = "expired"]
                   ELSE cover[u][c]]]
    /\ due' = due \cup cur \X Chat
    /\ cur' = {}
    /\ Goto("users")
    /\ UNCHANGED <<worldVars, enabled, chat, shown, login, adding, todo, seen, seenOut,
                   changes, faults>>

(* mark_user_auth_expired. *)
MarkExpired ==
    /\ phase = "expire"
    /\ authorized' = authorized \ cur
    /\ cover' = [u \in User |-> [c \in Chat |->
                   IF u \in cur /\ cover[u][c].active THEN [cover[u][c] EXCEPT !.status = "expired"]
                   ELSE cover[u][c]]]
    /\ due' = due \cup {p \in cur \X Chat : cover[p[1]][p[2]].active}
    /\ cur' = {}
    /\ Goto("users")
    /\ UNCHANGED <<worldVars, enabled, chat, shown, login, adding, todo, seen, seenOut,
                   changes, faults>>

(* Any other error ends the scan, for the users still to come too. *)
ScanFails ==
    /\ phase # "idle"
    /\ faults < MaxFaults /\ faults' = faults + 1
    /\ todo' = {} /\ cur' = {} /\ seen' = {} /\ seenOut' = {}
    /\ Goto("idle")
    /\ UNCHANGED <<worldVars, accountVars, rowVars, shown, login, adding, changes>>

-----------------------------------------------------------------------------
(* The outbox: get_coverage_context, then the coverage table is written. *)
Project(u, c) ==
    /\ <<u, c>> \in due
    /\ due' = due \ {<<u, c>>}
    /\ shown' = [shown EXCEPT ![u][c] = cover[u][c].status]
    /\ UNCHANGED <<worldVars, accountVars, chat, cover, login, adding, scanVars, changes, faults>>

Projects == \E u \in User, c \in Chat : Project(u, c)

Scan ==
    \/ ListUsers \/ ListBotChats \/ SetBotChats
    \/ (\E u \in User : NextUser(u))
    \/ UpdateTokens \/ ListUserChats \/ ReplaceUserChats \/ MarkExpired \/ EndScan

World ==
    \E c \in Chat :
        BotJoins(c) \/ BotLeaves(c) \/ ChatDisbands(c) \/ ChatTurns(c) \/ MarkChat(c)

Account ==
    \E u \in User :
        \/ EnableUser(u) \/ DisableUser(u)
        \/ ListForLogin(u) \/ ActivateUser(u) \/ FinishLogin(u)

EventWorker ==
    \/ \E c \in Chat :
         AddedBegins(c) \/ ResolveChat(c) \/ AddedEnds(c) \/ BotDeleted(c) \/ ChatDisbanded(c)
    \/ AddedFails

Next == World \/ Account \/ EventWorker \/ Scan \/ Refused \/ ScanFails \/ Projects

Spec == Init /\ [][Next]_vars

(* The coverage loop and the outbox loop keep running.  Bot events may     *)
(* never be handled, and a callback may end at any point.                  *)
FairSpec == Spec /\ WF_vars(Scan) /\ \A u \in User, c \in Chat : WF_vars(Project(u, c))

-----------------------------------------------------------------------------
(* Properties. *)

(* What counts as covered can be: whatever takes the bot out of a chat,    *)
(* ends the chat, quarantines or marks it reaches the rows of every        *)
(* present member.  External chats are another matter: replace_user_chats  *)
(* takes chats.external from the listing of one user and leaves the rows   *)
(* of the other members, "covered" perhaps, until their own next scan.     *)
CoveredMeansPresent ==
    \A u \in User, c \in Chat :
        cover[u][c] = [status |-> "covered", active |-> TRUE] =>
            chat[c].present /\ ~chat[c].disbanded /\ ~chat[c].unsupported

(* The row of u and c tells the truth, in the database and in the table.   *)
Right(u, c) ==
    /\ cover[u][c].active <=> c \in member[u]
    /\ c \in member[u] =>
         /\ chat[c].present <=> c \in bot
         /\ chat[c].external <=> c \in outside
         /\ cover[u][c].status = StatusOf(chat[c])
         /\ shown[u][c] = cover[u][c].status

(* "Events update at once, the hourly scan checks again": when Feishu      *)
(* rests, the scan makes the coverage of every user who stays active right *)
(* and shows it, whatever bot events were lost, delayed or reordered and   *)
(* whatever failed before.                                                 *)
ScanRepairs ==
    \A u \in User : <>[]Active(u) => <>[](\A c \in Chat : Right(u, c))

(* "OAuth expired: stop claiming that coverage is complete": what has      *)
(* expired becomes covered again only with the user's authorization.       *)
ExpiredStaysExpired ==
    [][\A u \in User, c \in Chat :
         cover[u][c].status = "expired" /\ cover'[u][c].status = "covered" => u \in authorized']_vars
=============================================================================
