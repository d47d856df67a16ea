----------------------------- MODULE EventQueue -----------------------------
(***************************************************************************)
(* The durable queue of Feishu events: table incoming_events and the loop  *)
(* _event_loop that claims batches of it, for any kind of event.  What is  *)
(* done with an event is left to the module that extends this one.         *)
(*                                                                         *)
(* An event is stored once under its event_key before Feishu is answered,  *)
(* claimed in the order of created_at, and processed one after the other   *)
(* by the worker that claimed the batch.  A claimed event is finished,     *)
(* retried later, or, when the worker gives up its batch, left in          *)
(* processing until it is five minutes old or a process starts.            *)
(*                                                                         *)
(* Left out: the time before a failed event is due again (any failed event *)
(* may be due or not) and event times (an event left in processing may be  *)
(* taken over at any time).                                                *)
(***************************************************************************)
EXTENDS Naturals, Sequences

CONSTANTS
    Event,       \* events, one for each event_key
    Worker,      \* event workers, one per application process
    Limit,       \* most events claimed at once
    MaxFaults    \* bound on failures and restarts

ASSUME EventQueueAssumption ==
    /\ Limit \in Nat \ {0}
    /\ MaxFaults \in Nat

VARIABLES
    arrived,     \* the stored events in the order of created_at
    status,      \* incoming_events.status, "none" if not stored
    body,        \* is the payload of the event still stored?
    jobs,        \* jobs[w]: the claimed batch of w, its first job in progress
    faults       \* failures so far

queueVars == <<arrived, status, body, jobs, faults>>

Job == [event : Event, body : BOOLEAN]

Status == {"none", "pending", "processing", "failed", "succeeded"}

QueueTypeOK ==
    /\ arrived \in Seq(Event)
    /\ status  \in [Event -> Status]
    /\ body    \in [Event -> BOOLEAN]
    /\ jobs    \in [Worker -> Seq(Job)]
    /\ faults  \in 0 .. MaxFaults

(* event_key is unique: no event is stored twice. *)
StoredOnce ==
    /\ \A k, n \in 1 .. Len(arrived) : arrived[k] = arrived[n] => k = n
    /\ \A e \in Event : status[e] = "none" <=> \A n \in 1 .. Len(arrived) : arrived[n] # e

QueueInit ==
    /\ arrived = <<>>
    /\ status  = [e \in Event |-> "none"]
    /\ body    = [e \in Event |-> FALSE]
    /\ jobs    = [w \in Worker |-> <<>>]
    /\ faults  = 0

Fault == faults < MaxFaults /\ faults' = faults + 1

(* "Faulty:" marks variants of a definition with a mistake the code could  *)
(* contain.  No specification uses them; the properties are tried against  *)
(* them.                                                                   *)

(* Faulty: a second delivery of an event is stored as a new event. *)
EnqueueAgain(e) ==
    /\ arrived' = IF status[e] \in {"none", "succeeded"} THEN Append(arrived, e) ELSE arrived
    /\ status'  = [status EXCEPT ![e] = "pending"]
    /\ body'    = [body EXCEPT ![e] = TRUE]
    /\ UNCHANGED <<jobs, faults>>

(* enqueue_event: INSERT ... ON CONFLICT(event_key) DO NOTHING.  The event *)
(* may be delivered any number of times.                                   *)
EnqueueEvent(e) ==
    /\ IF status[e] = "none"
       THEN /\ arrived' = Append(arrived, e)
            /\ status'  = [status EXCEPT ![e] = "pending"]
            /\ body'    = [body EXCEPT ![e] = TRUE]
       ELSE UNCHANGED <<arrived, status, body>>
    /\ UNCHANGED <<jobs, faults>>

(* Faulty: no ORDER BY. *)
AnyOrder(S, n, pos) ==
    /\ \A k \in 1 .. n : arrived[pos[k]] \in S
    /\ \A j, k \in 1 .. n : j # k => pos[j] # pos[k]

(* ORDER BY created_at LIMIT: the n events at the positions pos are the     *)
(* oldest of S, and Limit of them if there are as many.                     *)
Oldest(S, n, pos) ==
    /\ \A k \in 1 .. n : arrived[pos[k]] \in S
    /\ \A j, k \in 1 .. n : j < k => pos[j] < pos[k]
    /\ \A p \in 1 .. Len(arrived) :
         arrived[p] \in S => (\E k \in 1 .. n : pos[k] = p) \/ (n = Limit /\ pos[n] < p)

Take(w, S) ==
    /\ jobs[w] = <<>>
    /\ \E n \in 1 .. Limit : \E pos \in [1 .. n -> 1 .. Len(arrived)] :
         /\ Oldest(S, n, pos)
         /\ jobs' = [jobs EXCEPT ![w] =
              [k \in 1 .. n |-> [event |-> arrived[pos[k]], body |-> body[arrived[pos[k]]]]]]
         /\ status' = [e \in Event |->
              IF \E k \in 1 .. n : arrived[pos[k]] = e THEN "processing" ELSE status[e]]
    /\ UNCHANGED <<arrived, body, faults>>

Pending == {e \in Event : status[e] = "pending"}

(* Faulty: events left in processing are not taken over. *)
ClaimWithoutTakeover(w) ==
    \E due \in SUBSET {e \in Event : status[e] = "failed"} : Take(w, Pending \cup due)

(* claim_events: the pending events, the failed ones that are due and those *)
(* left in processing for five minutes.                                     *)
ClaimEvents(w) ==
    \E due \in SUBSET {e \in Event : status[e] \in {"failed", "processing"}} :
        Take(w, Pending \cup due)

(* finish_event for the job in progress; the payload goes. *)
FinishEvent(w) ==
    /\ status' = [status EXCEPT ![Head(jobs[w]).event] = "succeeded"]
    /\ body'   = [body EXCEPT ![Head(jobs[w]).event] = FALSE]
    /\ jobs'   = [jobs EXCEPT ![w] = Tail(@)]
    /\ UNCHANGED <<arrived, faults>>

(* Faulty: an event whose handler raised is given up. *)
GiveUpEvent(w) ==
    /\ Fault
    /\ status' = [status EXCEPT ![Head(jobs[w]).event] = "succeeded"]
    /\ jobs'   = [jobs EXCEPT ![w] = Tail(@)]
    /\ UNCHANGED <<arrived, body>>

(* retry_event for the job in progress, after an exception. *)
RetryEvent(w) ==
    /\ Fault
    /\ status' = [status EXCEPT ![Head(jobs[w]).event] = "failed"]
    /\ jobs'   = [jobs EXCEPT ![w] = Tail(@)]
    /\ UNCHANGED <<arrived, body>>

(* retry_event raises: _event_loop logs it and goes back to claim_events,  *)
(* and the rest of the batch stays in processing.                          *)
AbandonBatch(w) ==
    /\ Fault
    /\ jobs' = [jobs EXCEPT ![w] = <<>>]
    /\ UNCHANGED <<arrived, status, body>>

(* The process of w stops and starts again; open() makes every event in    *)
(* processing failed, whoever holds it.                                    *)
RestartQueue(w) ==
    /\ Fault
    /\ jobs'   = [jobs EXCEPT ![w] = <<>>]
    /\ status' = [e \in Event |-> IF status[e] = "processing" THEN "failed" ELSE status[e]]
    /\ UNCHANGED <<arrived, body>>

(* purge_expired_content, first statement: the n oldest events are past    *)
(* the retention limit; those not in processing end without being handled. *)
PurgeEvents(n) ==
    LET expired == {e \in Event : body[e] /\ status[e] # "processing"
                                    /\ \E k \in 1 .. n : arrived[k] = e}
    IN  /\ status' = [e \in Event |-> IF e \in expired THEN "succeeded" ELSE status[e]]
        /\ body'   = [e \in Event |-> body[e] /\ e \notin expired]
        /\ UNCHANGED <<arrived, jobs, faults>>
=============================================================================
