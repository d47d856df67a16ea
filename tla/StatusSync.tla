----------------------------- MODULE StatusSync -----------------------------
(***************************************************************************)
(* One inbox item that is projected on a row of the Bitable table, and the *)
(* status that the user edits in the row: the edit comes back through a    *)
(* callback of the table's automation (api.py, bitable_status) or through  *)
(* the periodic pull (workers.py, _pull_bitable_changes), both of which    *)
(* end in update_inbox_item, while the outbox worker writes the item onto  *)
(* the row and messages are recalled or purged in the database.            *)
(*                                                                         *)
(* Status and note together are one value.  A state of the row, in the     *)
(* table or in a callback, matters to the item in two ways only:           *)
(*   current  its version is the item's;                                   *)
(*   fresh    it was written after the item was last changed.              *)
(* A change of the item increments its version and sets updated_at to now, *)
(* so it makes every earlier state of the row neither current nor fresh.   *)
(* This takes all clocks to agree and no two timestamps to be equal.       *)
(*                                                                         *)
(* Every choice of a value, by the user in the row or by a recall in the   *)
(* database, has a number, which travels with the value and which the code *)
(* does not see: it tells which of two values is the later one.            *)
(*                                                                         *)
(* The table is external: its modification time moves with every write,    *)
(* the service's included, and its automation fires when the value of the  *)
(* row changes, whoever changed it.  A callback carries the row as it was  *)
(* then, and may be lost, delayed, repeated or overtaken by another one.   *)
(***************************************************************************)
EXTENDS Naturals

CONSTANTS
    MaxChoices,  \* bound on the choices of a value
    MaxOthers    \* bound on failed projections and changes of the version only,
                 \* together

ASSUME StatusSyncAssumption ==
    /\ MaxChoices \in Nat
    /\ MaxOthers \in Nat

VARIABLES
    db,       \* the item: its value, and the number of it
    row,      \* the row
    calls,    \* callbacks that may still reach the service
    due,      \* is a job of the item waiting in the outbox?
    phase,    \* the outbox worker: "idle", "claimed", "read" or "written"
    proj,     \* what _project read of the item, and whether it is the current version
    pull,     \* the pull: "idle", "local" or "remote"
    local,    \* the value of the item as inbox_reconciliation_state returned it
    remote,   \* the row as list_records returned it
    choices,  \* choices of a value so far
    touches,  \* changes of the version only so far
    faults    \* failed projections so far

outboxVars == <<due, phase, proj>>
pullVars   == <<pull, local, remote>>
bounds     == <<choices, touches, faults>>
vars       == <<db, row, calls, outboxVars, pullVars, bounds>>

Value    == {"pending", "done", "ignored"}
Terminal == {"done", "ignored"}
Number   == 0 .. MaxChoices

Row == [value : Value, number : Number, current : BOOLEAN, fresh : BOOLEAN]

(* What a worker holds when it holds nothing. *)
NoRow  == [value |-> "pending", number |-> 0, current |-> FALSE, fresh |-> FALSE]
NoItem == [value |-> "pending", number |-> 0, current |-> FALSE]

TypeOK ==
    /\ db \in [value : Value, number : Number]
    /\ row \in Row
    /\ calls \subseteq Row
    /\ due \in BOOLEAN
    /\ phase \in {"idle", "claimed", "read", "written"}
    /\ proj \in [value : Value, number : Number, current : BOOLEAN]
    /\ pull \in {"idle", "local", "remote"}
    /\ local \in Value
    /\ remote \in Row
    /\ choices \in Number
    /\ touches \in Nat /\ faults \in Nat
    /\ touches + faults <= MaxOthers

(* The item has just been projected for the first time. *)
Init ==
    /\ db  = [value |-> "pending", number |-> 0]
    /\ row = [value |-> "pending", number |-> 0, current |-> TRUE, fresh |-> TRUE]
    /\ calls = {}
    /\ due = FALSE /\ phase = "idle"
    /\ proj = NoItem
    /\ pull = "idle" /\ local = "pending" /\ remote = NoRow
    /\ choices = 0 /\ touches = 0 /\ faults = 0

-----------------------------------------------------------------------------
(* The table. *)

Greater(a, b) == IF a < b THEN b ELSE a

(* The row is written; if its value changes, the automation fires. *)
WriteRow(value, number, current) ==
    \/ /\ value = row.value
       /\ row'   = [row EXCEPT !.number = Greater(@, number), !.current = current, !.fresh = TRUE]
       /\ calls' = calls
    \/ /\ value # row.value
       /\ row'   = [value |-> value, number |-> number, current |-> current, fresh |-> TRUE]
       /\ calls' = calls \cup {row'}

(* The user edits status or note; the row keeps its version. *)
EditRow ==
    /\ choices < MaxChoices
    /\ choices' = choices + 1
    /\ \E v \in Value \ {row.value} : WriteRow(v, choices + 1, row.current)
    /\ UNCHANGED <<db, outboxVars, pullVars, touches, faults>>

LoseCall(c) ==
    /\ c \in calls
    /\ calls' = calls \ {c}
    /\ UNCHANGED <<db, row, outboxVars, pullVars, bounds>>

-----------------------------------------------------------------------------
(* The item in the database. *)

Outdated(r) == [r EXCEPT !.current = FALSE, !.fresh = FALSE]

(* The item changes, with its version and updated_at, and a job to project *)
(* it is enqueued.  S are the callbacks that stay under way, and listed is *)
(* the row the pull still holds.                                           *)
ChangeItem(value, number, S, listed) ==
    /\ db'     = [value |-> value, number |-> number]
    /\ due'    = TRUE
    /\ row'    = Outdated(row)
    /\ calls'  = {Outdated(c) : c \in S}
    /\ remote' = Outdated(listed)
    /\ proj'   = [proj EXCEPT !.current = FALSE]

(* update_inbox_item for a state r of the row.  The value the item has     *)
(* already is accepted and changes nothing.                                *)
UpdateItem(r, S, listed) ==
    \/ /\ r.value = db.value
       /\ db' = [db EXCEPT !.number = Greater(@, r.number)]
       /\ calls' = S /\ remote' = listed
       /\ UNCHANGED <<row, due, proj>>
    \/ /\ r.value # db.value
       /\ ~r.current /\ ~r.fresh
       /\ calls' = S /\ remote' = listed
       /\ UNCHANGED <<db, row, due, proj>>
    \/ /\ r.value # db.value
       /\ r.current \/ r.fresh
       /\ ChangeItem(r.value, r.number, S, listed)

(* bitable_status; the automation may send the same call again. *)
Callback(c) ==
    /\ c \in calls
    /\ \E S \in {calls, calls \ {c}} : UpdateItem(c, S, remote)
    /\ UNCHANGED <<phase, pull, local, bounds>>

(* Faulty: the state of the source message becomes that of the item. *)
RecallCopiesState ==
    /\ db.value \notin Terminal
    /\ choices < MaxChoices
    /\ choices' = choices + 1
    /\ ChangeItem("recalled", choices + 1, calls, remote)
    /\ UNCHANGED <<phase, pull, local, touches, faults>>

(* recall_message: an item that is not handled is ignored from now on. *)
Recall ==
    /\ db.value \notin Terminal
    /\ choices < MaxChoices
    /\ choices' = choices + 1
    /\ ChangeItem("ignored", choices + 1, calls, remote)
    /\ UNCHANGED <<phase, pull, local, touches, faults>>

(* Faulty: the change enqueues no job. *)
TouchSilently ==
    /\ touches + faults < MaxOthers
    /\ touches' = touches + 1
    /\ row' = Outdated(row) /\ calls' = {Outdated(c) : c \in calls}
    /\ remote' = Outdated(remote) /\ proj' = [proj EXCEPT !.current = FALSE]
    /\ UNCHANGED <<db, due, phase, pull, local, choices, faults>>

(* recall_message for an item that is, and purge_expired_content: the      *)
(* version moves, the value stays.                                         *)
Touch ==
    /\ touches + faults < MaxOthers
    /\ touches' = touches + 1
    /\ ChangeItem(db.value, db.number, calls, remote)
    /\ UNCHANGED <<phase, pull, local, choices, faults>>

-----------------------------------------------------------------------------
(* The outbox worker. *)

ClaimJob ==
    /\ phase = "idle" /\ due
    /\ due' = FALSE
    /\ phase' = "claimed"
    /\ UNCHANGED <<db, row, calls, proj, pullVars, bounds>>

ReadItem ==
    /\ phase = "claimed"
    /\ proj' = [value |-> db.value, number |-> db.number, current |-> TRUE]
    /\ phase' = "read"
    /\ UNCHANGED <<db, row, calls, due, pullVars, bounds>>

(* batch_update takes effect: status, note and version are written over    *)
(* whatever the row shows by then.                                         *)
ProjectRow ==
    /\ phase = "read"
    /\ WriteRow(proj.value, proj.number, proj.current)
    /\ phase' = "written"
    /\ proj' = NoItem
    /\ UNCHANGED <<db, due, pullVars, bounds>>

FinishJob ==
    /\ phase = "written"
    /\ phase' = "idle"
    /\ UNCHANGED <<db, row, calls, due, proj, pullVars, bounds>>

(* Faulty: the job is not retried. *)
JobDropped ==
    /\ phase # "idle"
    /\ touches + faults < MaxOthers /\ faults' = faults + 1
    /\ phase' = "idle"
    /\ proj' = NoItem
    /\ UNCHANGED <<db, row, calls, due, pullVars, choices, touches>>

(* A failure at any point after the claim, before or after the write took  *)
(* effect: the job is retried.                                             *)
JobFails ==
    /\ phase # "idle"
    /\ touches + faults < MaxOthers /\ faults' = faults + 1
    /\ due' = TRUE
    /\ phase' = "idle"
    /\ proj' = NoItem
    /\ UNCHANGED <<db, row, calls, pullVars, choices, touches>>

-----------------------------------------------------------------------------
(* The periodic pull: inbox_reconciliation_state, list_records, and then   *)
(* update_inbox_item if the row differs from what was read locally.        *)

PullLocal ==
    /\ pull = "idle"
    /\ pull' = "local"
    /\ local' = db.value
    /\ UNCHANGED <<db, row, calls, outboxVars, remote, bounds>>

PullRemote ==
    /\ pull = "local"
    /\ pull' = "remote"
    /\ remote' = row
    /\ UNCHANGED <<db, row, calls, outboxVars, local, bounds>>

(* Faulty: a row of the current version is taken to be in step. *)
PullTrustsVersion ==
    /\ pull = "remote"
    /\ pull' = "idle" /\ local' = "pending"
    /\ IF remote.value = local \/ remote.current
       THEN remote' = NoRow /\ UNCHANGED <<db, row, calls, due, proj>>
       ELSE UpdateItem(remote, calls, NoRow)
    /\ UNCHANGED <<phase, bounds>>

PullApply ==
    /\ pull = "remote"
    /\ pull' = "idle" /\ local' = "pending"
    /\ IF remote.value = local
       THEN remote' = NoRow /\ UNCHANGED <<db, row, calls, due, proj>>
       ELSE UpdateItem(remote, calls, NoRow)
    /\ UNCHANGED <<phase, bounds>>

-----------------------------------------------------------------------------
Worker == ClaimJob \/ ReadItem \/ ProjectRow \/ FinishJob
Pull   == PullLocal \/ PullRemote \/ PullApply

Next ==
    \/ EditRow \/ Recall \/ Touch
    \/ \E c \in calls : Callback(c) \/ LoseCall(c)
    \/ Worker \/ JobFails
    \/ Pull

Spec == Init /\ [][Next]_vars

(* The outbox loop and the reconciliation loop keep running.  Users and    *)
(* failures owe nothing, and callbacks may all be lost.                    *)
FairSpec == Spec /\ WF_vars(Worker) /\ WF_vars(Pull)

-----------------------------------------------------------------------------
(* Properties. *)

(* A row that shows an older version than the item's is always on its way  *)
(* to be written: a job waits, or the worker is about to read the item, or *)
(* it has read the current version and is about to write it.               *)
BehindIsDue ==
    row.current \/ due \/ phase = "claimed" \/ (phase = "read" /\ proj.current)

Agree == row.current /\ row.value = db.value

(* At rest, the row and the item disagree only about the newest choice of  *)
(* all: the user made it in the row, and the item does not have it yet.    *)
(* An older value is never left over, in the row or in the item: not from  *)
(* a projection that was slow or failed, not from a callback that came     *)
(* late or twice, not from what the pull listed before the item changed.   *)
Calm == calls = {} /\ ~due /\ phase = "idle"
OnlyLastEditWaits ==
    Calm /\ row.value # db.value => row.number = choices /\ db.number < choices

(* What it rests on.  A row of the item's version differs from the item by *)
(* an edit that nothing has overtaken, because                             *)
(*   - what the worker read of the current version is the item's value,    *)
(*   - a number names one choice, wherever copies of it have travelled.    *)
CurrentDiffersByEdit == row.current /\ row.value # db.value => row.number = choices
CurrentReadIsItem    == phase = "read" /\ proj.current => proj.value = db.value

Copies ==
    {<<db.value, db.number>>, <<row.value, row.number>>, <<proj.value, proj.number>>,
     <<remote.value, remote.number>>} \cup {<<c.value, c.number>> : c \in calls}
OneValuePerNumber ==
    /\ \A p, q \in Copies : p[2] = q[2] => p[1] = q[1]
    /\ \A p \in Copies : p[2] <= choices /\ (p[2] = 0 => p[1] = "pending")

(* Whenever callbacks and projections come to rest again and again, the    *)
(* item and the row end up agreeing for good, whatever was lost, repeated  *)
(* or reordered, and whatever the pull read in between.                    *)
CalmConverges == []<>Calm => <>[]Agree

(* An edit of a row that shows the current version, with no projection, no *)
(* earlier callback and no pull under way, reaches the item and stays in   *)
(* the row even if its callback is lost, unless something else changes the *)
(* value or the version first.                                             *)
LoneEdit(n, p) ==
    /\ choices = n /\ touches = p
    /\ row.number = n /\ row.current /\ Calm /\ pull = "idle"
LoneEditArrives ==
    \A n \in Number, p \in 0 .. MaxOthers :
        LoneEdit(n, p) ~> ((Agree /\ row.number = n) \/ choices > n \/ touches > p)

(* "Projection callbacks form no loop": once the users stop, the item and  *)
(* the row stop changing each other and agree.                             *)
Converges == <>[]Agree

(* "Repeated and reordered callbacks do not overwrite a later status":     *)
(* when everything has come to rest, the item and the row show the last    *)
(* value that was chosen.                                                  *)
LastChoiceWins ==
    Calm /\ pull = "idle" /\ Agree => choices \in {db.number, row.number}
=============================================================================
