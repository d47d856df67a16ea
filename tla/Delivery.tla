------------------------------ MODULE Delivery ------------------------------
(***************************************************************************)
(* The way of an event into the database of a single-host installation:    *)
(* the receiver and its child process (long_connection.py), and the        *)
(* transactions of the SQLite repository, one connection shared by the     *)
(* tasks of a process under an asyncio.Lock.                               *)
(*                                                                         *)
(* The connection has a thread of its own (aiosqlite) that executes what   *)
(* it is handed in turn.  A task that is cancelled while it waits for a    *)
(* statement does not wait any more, but the statement is executed all the *)
(* same: these statements are in left.  Only the receiver is ever          *)
(* cancelled while the process goes on, by its timeout of two seconds;     *)
(* BEGIN IMMEDIATE waits for up to five for another program to let go of   *)
(* the database.  Later statements of the task that holds the lock come    *)
(* behind those in left.                                                   *)
(*                                                                         *)
(* Left out: events that persist_event refuses, reads (they take the lock, *)
(* but no transaction), and what the other transactions write.             *)
(***************************************************************************)
EXTENDS Naturals, Sequences

CONSTANTS
    Event,
    Task,         \* loops and requests that use the repository
    Receiver,     \* the task of LongConnectionReceiver
    MaxSlow,      \* bound on the timeouts of the receiver
    MaxFaults     \* bound on failed statements, crashes and restarts

VARIABLES
    lock,         \* the task that holds the lock of the repository, if any
    pc,           \* what a task waits for
    left,         \* statements nobody waits for any more
    txn,          \* of the connection: "open", or "none"
    written,      \* events inserted by the open transaction
    stored,       \* events in incoming_events
    child,        \* the child process
    event,        \* the event it has handed over last
    acked,        \* events Feishu was told have been received
    slow, faults

dbVars    == <<lock, pc, left, txn, written, stored>>
childVars == <<child, event, acked>>
vars == <<dbVars, childVars, slow, faults>>

Client == Task \cup {Receiver}
Waits  == {"idle", "lock", "begin", "write", "commit", "rollback"}

TypeOK ==
    /\ lock \subseteq Client /\ pc \in [Client -> Waits]
    /\ left \in Seq({"begin", "commit", "rollback"})
    /\ txn \in {"none", "open"} /\ written \subseteq Event /\ stored \subseteq Event
    /\ child \in {"down", "listening", "asking"}
    /\ event \in Event /\ acked \subseteq Event
    /\ slow \in Nat /\ faults \in Nat

Init ==
    /\ lock = {} /\ pc = [c \in Client |-> "idle"]
    /\ left = <<>> /\ txn = "none" /\ written = {} /\ stored = {}
    /\ child = "down" /\ event \in Event /\ acked = {}
    /\ slow = 0 /\ faults = 0

Fault == faults < MaxFaults /\ faults' = faults + 1

Goes(c, w) == pc' = [pc EXCEPT ![c] = w]

(* The lock is released, and the receiver answers its child: a positive    *)
(* answer acknowledges the events S.                                        *)
Ends(c, S) ==
    /\ pc' = [pc EXCEPT ![c] = "idle"]
    /\ lock' = lock \ {c}
    /\ IF c = Receiver /\ child = "asking"
       THEN /\ child' = "listening"
            /\ acked' = acked \cup S
       ELSE UNCHANGED <<child, acked>>
    /\ UNCHANGED event

-----------------------------------------------------------------------------
(* _transaction. *)

Call(t) ==
    /\ pc[t] = "idle"
    /\ Goes(t, "lock")
    /\ UNCHANGED <<lock, left, txn, written, stored, childVars, slow, faults>>

Acquire(c) ==
    /\ pc[c] = "lock" /\ lock = {}
    /\ lock' = {c}
    /\ Goes(c, "begin")
    /\ UNCHANGED <<left, txn, written, stored, childVars, slow, faults>>

(* Faulty: a transaction that is open already is gone on with. *)
BeginNested(c) ==
    /\ pc[c] = "begin" /\ left = <<>>
    /\ txn' = "open" /\ Goes(c, "write")
    /\ UNCHANGED <<lock, left, written, stored, childVars, slow, faults>>

(* BEGIN IMMEDIATE is outside of the try: when it fails nothing is rolled   *)
(* back.  Within a transaction it always fails.                             *)
Begin(c) ==
    /\ pc[c] = "begin" /\ left = <<>>
    /\ IF txn = "open"
       THEN Ends(c, {}) /\ UNCHANGED txn
       ELSE txn' = "open" /\ Goes(c, "write") /\ UNCHANGED <<lock, childVars>>
    /\ UNCHANGED <<left, written, stored, slow, faults>>

(* Another program has not let go of the database for five seconds. *)
BeginBusy(c) ==
    /\ Fault
    /\ pc[c] = "begin" /\ left = <<>>
    /\ Ends(c, {})
    /\ UNCHANGED <<left, txn, written, stored, slow>>

(* The body: of the receiver enqueue_event, which keeps one row per event. *)
Write(c) ==
    /\ pc[c] = "write"
    /\ written' = IF c = Receiver THEN written \cup {event} ELSE written
    /\ Goes(c, "commit")
    /\ UNCHANGED <<lock, left, txn, stored, childVars, slow, faults>>

(* Faulty: the body is outside of the try as well. *)
WriteFailsOpen(c) ==
    /\ Fault
    /\ pc[c] = "write"
    /\ Ends(c, {})
    /\ UNCHANGED <<left, txn, written, stored, slow>>

WriteFails(c) ==
    /\ Fault
    /\ pc[c] = "write"
    /\ Goes(c, "rollback")
    /\ UNCHANGED <<lock, left, txn, written, stored, childVars, slow>>

DbCommits   == txn' = "none" /\ stored' = stored \cup written /\ written' = {}
DbRollsBack == txn' = "none" /\ written' = {} /\ UNCHANGED stored

Commit(c) ==
    /\ pc[c] = "commit"
    /\ DbCommits
    /\ Ends(c, {event})
    /\ UNCHANGED <<left, slow, faults>>

(* Faulty: the receiver answers that all is well whatever became of it. *)
RollBackAcknowledged(c) ==
    /\ pc[c] = "rollback"
    /\ DbRollsBack
    /\ Ends(c, {event})
    /\ UNCHANGED <<left, slow, faults>>

RollBack(c) ==
    /\ pc[c] = "rollback"
    /\ DbRollsBack
    /\ Ends(c, {})
    /\ UNCHANGED <<left, slow, faults>>

(* The thread executes a statement nobody waits for. *)
Straggler ==
    /\ left # <<>>
    /\ left' = Tail(left)
    /\ CASE Head(left) = "begin"    -> txn' = "open" /\ UNCHANGED <<written, stored>>
         [] Head(left) = "commit"   -> DbCommits
         [] Head(left) = "rollback" -> DbRollsBack
    /\ UNCHANGED <<lock, pc, childVars, slow, faults>>

-----------------------------------------------------------------------------
(* The receiver. *)

(* Faulty: the child that has handed the event over is not answered. *)
TimeOutUnanswered ==
    /\ slow < MaxSlow /\ slow' = slow + 1
    /\ \/ /\ pc[Receiver] \in {"lock", "begin", "commit"}
          /\ Goes(Receiver, "idle") /\ lock' = lock \ {Receiver}
          /\ left' = IF pc[Receiver] = "lock" THEN left ELSE Append(left, pc[Receiver])
       \/ /\ pc[Receiver] = "write"
          /\ Goes(Receiver, "rollback") /\ UNCHANGED <<lock, left>>
    /\ UNCHANGED <<txn, written, stored, childVars, faults>>

(* asyncio.timeout(2) cancels persist_event: in the body the transaction is *)
(* rolled back, and whether the insertion came before makes no difference.  *)
TimeOut ==
    /\ slow < MaxSlow /\ slow' = slow + 1
    /\ \/ /\ pc[Receiver] = "lock"
          /\ Ends(Receiver, {}) /\ UNCHANGED left
       \/ /\ pc[Receiver] \in {"begin", "commit"}
          /\ Ends(Receiver, {}) /\ left' = Append(left, pc[Receiver])
       \/ /\ pc[Receiver] = "write"
          /\ Goes(Receiver, "rollback") /\ UNCHANGED <<lock, left, childVars>>
    /\ UNCHANGED <<txn, written, stored, faults>>

(* Feishu delivers an event, for the first time or again; the child hands   *)
(* it over and waits for the answer.                                        *)
Receive(e) ==
    /\ child = "listening" /\ pc[Receiver] = "idle"
    /\ child' = "asking" /\ event' = e
    /\ Goes(Receiver, "lock")
    /\ UNCHANGED <<lock, left, txn, written, stored, acked, slow, faults>>

ChildExits ==
    /\ Fault
    /\ child # "down"
    /\ child' = "down"
    /\ UNCHANGED <<dbVars, event, acked, slow>>

(* The child is started again when the event in hand is done with. *)
StartChild ==
    /\ child = "down" /\ pc[Receiver] = "idle"
    /\ child' = "listening"
    /\ UNCHANGED <<dbVars, event, acked, slow, faults>>

(* The process stops, and starts again. *)
Restart ==
    /\ Fault
    /\ lock' = {} /\ pc' = [c \in Client |-> "idle"]
    /\ left' = <<>> /\ txn' = "none" /\ written' = {}
    /\ child' = "down"
    /\ UNCHANGED <<stored, event, acked, slow>>

-----------------------------------------------------------------------------
Statement(c) == Begin(c) \/ Write(c) \/ Commit(c) \/ RollBack(c)

Next ==
    \/ \E t \in Task : Call(t)
    \/ \E c \in Client : Acquire(c) \/ Statement(c) \/ BeginBusy(c) \/ WriteFails(c)
    \/ Straggler \/ TimeOut \/ ChildExits \/ StartChild \/ Restart
    \/ \E e \in Event : Receive(e)

Spec == Init /\ [][Next]_vars

(* The lock is given in turn, the thread works, the child is started again, *)
(* and Feishu delivers an event that was not acknowledged again.            *)
Fairness ==
    /\ \A c \in Client : SF_vars(Acquire(c)) /\ WF_vars(Statement(c))
    /\ WF_vars(Straggler) /\ WF_vars(StartChild)
    /\ \A e \in Event : SF_vars(e \notin acked /\ Receive(e))

FairSpec == Spec /\ Fairness

-----------------------------------------------------------------------------
(* Properties. *)

(* docs/local-only.md:70: an event is stored before it is acknowledged,     *)
(* whatever is cancelled, fails or stops in between.                        *)
AckedIsStored == acked \subseteq stored

(* long_connection.py:114, "event not acknowledged; awaiting redelivery":   *)
(* an event that is delivered until it is acknowledged is stored at last.   *)
RedeliveryStores == \A e \in Event : <>(e \in stored)

(* A transaction is open that no task is in and no statement will end.      *)
Stuck ==
    /\ txn = "open"
    /\ \A c \in Client : pc[c] \in {"idle", "lock", "begin"}
    /\ \A k \in 1 .. Len(left) : left[k] = "begin"

(* Nothing but a restart of the process ends that, and nothing is stored    *)
(* until then.                                                              *)
StuckForGood == [][Stuck => Restart \/ (Stuck' /\ stored' = stored)]_vars

(* What Feishu repeats until it is acknowledged is stored at last, unless   *)
(* such a transaction stays open: there is no other way to lose an event.   *)
StoredUnlessStuck == \A e \in Event : <>(e \in stored) \/ <>[]Stuck

(* Only a BEGIN that the receiver has given up leads there: a failed body,  *)
(* a busy database, and a COMMIT given up while it runs do not.             *)
StuckByBegin == [][~Stuck /\ Stuck' => Straggler /\ Head(left) = "begin"]_vars
=============================================================================
