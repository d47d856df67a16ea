------------------------------- MODULE Outbox -------------------------------
(***************************************************************************)
(* The transactional outbox that projects inbox items onto the Bitable     *)
(* table: outbox_jobs and bitable_mappings (sqlite_repository.py, and      *)
(* postgres.py, which runs the same statements), and the outbox worker     *)
(* _outbox_loop / _flush_outbox of workers.py.                             *)
(*                                                                         *)
(* One job exists per item and version: the idempotency key is             *)
(* "inbox:<id>:inbox:v<version>".  A job carries no data: the worker reads *)
(* the item's current row when it processes the job, then the mapping,     *)
(* then calls Bitable, then records the result.  Each of those is a        *)
(* transaction or a request of its own, so each is an action of its own.   *)
(*                                                                         *)
(* Covered: several workers (PostgreSQL), takeover of jobs that have been  *)
(* processing for over five minutes, failed and lost Bitable requests,     *)
(* failing database calls, a restart between any two steps.  Left out:     *)
(* the fields of a row (a row is the version it shows), delays between     *)
(* retries (a failed job may be claimed at any later moment), the limit of *)
(* 100 jobs per claim (any set of claimable jobs may be claimed), and a    *)
(* request that takes effect after the worker has given up on it.          *)
(***************************************************************************)
EXTENDS Naturals, Sequences, FiniteSets

CONSTANTS
    Item,         \* inbox items
    Worker,       \* outbox workers, one per application process
    MaxVersion,   \* bound on the number of changes to one item
    MaxFaults     \* bound on failures and restarts

ASSUME OutboxAssumption ==
    /\ MaxVersion \in Nat
    /\ MaxFaults \in Nat

(* One outbox worker runs in each of the application's processes.          *)
ASSUME FiniteWorkers == IsFiniteSet(Worker)

VARIABLES
    version,   \* inbox_items.version; 0 while the item does not exist
    job,       \* job[i][v]: outbox_jobs.status of version v of item i
    record,    \* bitable_mappings.record_id: a row of the item, 0 if unmapped
    synced,    \* bitable_mappings.synced_version
    rows,      \* rows[i]: the table's rows for item i, the version each shows
    pc,        \* where each worker is in _flush_outbox
    keep,      \* keep[w][i]: version of the job of i that w retained, or 0
    old,       \* old[w][i]: versions of the jobs of i that w found superseded
    read,      \* read[w][i]: item version that _project read, or 0
    target,    \* target[w][i]: row that w will write or has created, or 0
    ready,     \* items in "prepared" whose request is still to come
    group,     \* items of the request being sent, finished or retried
    left,      \* items of group not yet finished or retried
    faults     \* failures so far

dbVars     == <<version, job, record, synced>>
workerVars == <<pc, keep, old, read, target, ready, group, left>>
vars       == <<version, job, record, synced, rows, workerVars, faults>>

Version    == 1 .. MaxVersion
Unfinished == {"pending", "processing", "failed"}
Status     == Unfinished \cup {"none", "succeeded"}

Phase == {"idle", "coalesce", "project", "finish", "retry"}

DbTypeOK ==
    /\ version \in [Item -> 0 .. MaxVersion]
    /\ job     \in [Item -> [Version -> Status]]
    /\ record  \in [Item -> Nat]
    /\ synced  \in [Item -> 0 .. MaxVersion]
    /\ faults  \in 0 .. MaxFaults

WorkerTypeOK ==
    /\ pc      \in [Worker -> Phase]
    /\ keep    \in [Worker -> [Item -> 0 .. MaxVersion]]
    /\ old     \in [Worker -> [Item -> SUBSET Version]]
    /\ read    \in [Worker -> [Item -> 0 .. MaxVersion]]
    /\ target  \in [Worker -> [Item -> Nat]]
    /\ ready   \in [Worker -> SUBSET Item]
    /\ group   \in [Worker -> SUBSET Item]
    /\ left    \in [Worker -> SUBSET Item]

(* A mapping, and what a worker is about to record as one, names a row     *)
(* that exists.                                                            *)
TableTypeOK ==
    /\ rows \in [Item -> Seq(Version)]
    /\ \A i \in Item : record[i] <= Len(rows[i])
    /\ \A w \in Worker, i \in Item : target[w][i] <= Len(rows[i])

TypeOK == DbTypeOK /\ WorkerTypeOK /\ TableTypeOK

Zero  == [i \in Item |-> 0]
Empty == [i \in Item |-> {}]

Init ==
    /\ version = Zero
    /\ job     = [i \in Item |-> [v \in Version |-> "none"]]
    /\ record  = Zero
    /\ synced  = Zero
    /\ rows    = [i \in Item |-> <<>>]
    /\ pc      = [w \in Worker |-> "idle"]
    /\ keep    = [w \in Worker |-> Zero]
    /\ old     = [w \in Worker |-> Empty]
    /\ read    = [w \in Worker |-> Zero]
    /\ target  = [w \in Worker |-> Zero]
    /\ ready   = [w \in Worker |-> {}]
    /\ group   = [w \in Worker |-> {}]
    /\ left    = [w \in Worker |-> {}]
    /\ faults  = 0

-----------------------------------------------------------------------------
(* The writers of the database. *)

(* "Faulty:" marks variants of a definition with a mistake the code could  *)
(* contain.  No specification uses them; the properties are tried against  *)
(* them.                                                                   *)

(* Faulty: the idempotency key names the item but not its version. *)
EnqueueOncePerItem(i, v) ==
    job' = IF \A u \in Version : job[i][u] = "none"
           THEN [job EXCEPT ![i][v] = "pending"] ELSE job

(* INSERT ... ON CONFLICT(idempotency_key) DO NOTHING. *)
Enqueue(i, v) ==
    job' = [job EXCEPT ![i][v] = IF @ = "none" THEN "pending" ELSE @]

(* save_message_targets, update_inbox_item, recall_message and             *)
(* purge_expired_content: the item moves to its next version and the job   *)
(* that projects it is enqueued in the same transaction.                   *)
Change(i) ==
    /\ version[i] < MaxVersion
    /\ version' = [version EXCEPT ![i] = @ + 1]
    /\ Enqueue(i, version[i] + 1)
    /\ UNCHANGED <<record, synced, rows, workerVars, faults>>

(* reconcile_outbox: enqueue the current version of every item that has no *)
(* mapping or whose mapping is behind.                                     *)
Reconcile ==
    /\ job' = [i \in Item |-> [v \in Version |->
                 IF /\ v = version[i]
                    /\ record[i] = 0 \/ synced[i] < version[i]
                    /\ job[i][v] = "none"
                 THEN "pending" ELSE job[i][v]]]
    /\ UNCHANGED <<version, record, synced, rows, workerVars, faults>>

-----------------------------------------------------------------------------
(* The outbox worker. *)

Fault == faults < MaxFaults /\ faults' = faults + 1

(* The worker forgets the items of S: what follows a finished, failed or   *)
(* abandoned job.                                                          *)
Without(f, S) == [i \in Item |-> IF i \in S THEN 0 ELSE f[i]]

Forget(w, S) ==
    /\ keep'   = [keep   EXCEPT ![w] = Without(@, S)]
    /\ read'   = [read   EXCEPT ![w] = Without(@, S)]
    /\ target' = [target EXCEPT ![w] = Without(@, S)]
    /\ ready'  = [ready  EXCEPT ![w] = @ \ S]

(* The job of an item that _coalesce_outbox_jobs retains: the last one in  *)
(* the order of created_at among those claimed.  That may be any of them:  *)
(* created_at has the resolution of a second in SQLite, and is the start   *)
(* of the transaction in PostgreSQL, where the order of the starts is not  *)
(* the order in which the versions were given.                             *)
Retained(taken, kept) ==
    \A i \in Item :
        /\ taken[i] = {} => kept[i] = 0
        /\ taken[i] # {} => kept[i] \in taken[i]

(* Faulty: jobs left in processing are not taken over. *)
ClaimWithoutTakeover(w) ==
    /\ pc[w] = "idle"
    /\ \E taken \in [Item -> SUBSET Version], kept \in [Item -> 0 .. MaxVersion] :
        /\ taken # Empty
        /\ \A i \in Item : \A v \in taken[i] : job[i][v] \in {"pending", "failed"}
        /\ Retained(taken, kept)
        /\ job'  = [i \in Item |-> [v \in Version |->
                      IF v \in taken[i] THEN "processing" ELSE job[i][v]]]
        /\ keep' = [keep EXCEPT ![w] = kept]
        /\ old'  = [old EXCEPT ![w] = [i \in Item |-> taken[i] \ {kept[i]}]]
    /\ pc' = [pc EXCEPT ![w] = "coalesce"]
    /\ UNCHANGED <<version, record, synced, rows, read, target, ready, group, left, faults>>

(* claim_outbox: pending and failed jobs, and jobs that some worker has    *)
(* left in processing for five minutes; then _coalesce_outbox_jobs.        *)
Claim(w) ==
    /\ pc[w] = "idle"
    /\ \E taken \in [Item -> SUBSET Version], kept \in [Item -> 0 .. MaxVersion] :
        /\ taken # Empty
        /\ \A i \in Item : \A v \in taken[i] : job[i][v] \in Unfinished
        /\ Retained(taken, kept)
        /\ job'  = [i \in Item |-> [v \in Version |->
                      IF v \in taken[i] THEN "processing" ELSE job[i][v]]]
        /\ keep' = [keep EXCEPT ![w] = kept]
        /\ old'  = [old EXCEPT ![w] = [i \in Item |-> taken[i] \ {kept[i]}]]
    /\ pc' = [pc EXCEPT ![w] = "coalesce"]
    /\ UNCHANGED <<version, record, synced, rows, read, target, ready, group, left, faults>>

(* finish_superseded_outbox. *)
FinishSuperseded(w) ==
    /\ pc[w] = "coalesce"
    /\ job' = [i \in Item |-> [v \in Version |->
                 IF v \in old[w][i] THEN "succeeded" ELSE job[i][v]]]
    /\ old' = [old EXCEPT ![w] = Empty]
    /\ pc'  = [pc EXCEPT ![w] = "project"]
    /\ UNCHANGED <<version, record, synced, rows, keep, read, target, ready, group, left, faults>>

(* The jobs still to be projected, one after the other. *)
ToProject(w) == {i \in Item : keep[w][i] # 0} \ ready[w]
InTurn(w, i) ==
    /\ pc[w] = "project"
    /\ i \in ToProject(w)
    /\ \A j \in ToProject(w) \ {i} : read[w][j] = 0

(* Faulty: the job carries the item as it was when the job was enqueued. *)
ReadSnapshot(w, i) ==
    /\ InTurn(w, i)
    /\ read[w][i] = 0
    /\ read' = [read EXCEPT ![w][i] = keep[w][i]]
    /\ UNCHANGED <<dbVars, rows, pc, keep, old, target, ready, group, left, faults>>

(* _project: get_inbox_context reads the item as it is now. *)
ReadItem(w, i) ==
    /\ InTurn(w, i)
    /\ read[w][i] = 0
    /\ read' = [read EXCEPT ![w][i] = version[i]]
    /\ UNCHANGED <<dbVars, rows, pc, keep, old, target, ready, group, left, faults>>

(* Faulty: the mapping is looked up under another key and never found. *)
ReadNoMapping(w, i) ==
    /\ InTurn(w, i)
    /\ read[w][i] # 0
    /\ target' = [target EXCEPT ![w][i] = 0]
    /\ ready'  = [ready EXCEPT ![w] = @ \cup {i}]
    /\ UNCHANGED <<dbVars, rows, pc, keep, old, read, group, left, faults>>

(* get_mapping. *)
ReadMapping(w, i) ==
    /\ InTurn(w, i)
    /\ read[w][i] # 0
    /\ target' = [target EXCEPT ![w][i] = record[i]]
    /\ ready'  = [ready EXCEPT ![w] = @ \cup {i}]
    /\ UNCHANGED <<dbVars, rows, pc, keep, old, read, group, left, faults>>

(* Either read fails: the job is retried later, the others go on. *)
ProjectFails(w, i) ==
    /\ InTurn(w, i)
    /\ Fault
    /\ job' = [job EXCEPT ![i][keep[w][i]] = "failed"]
    /\ Forget(w, {i})
    /\ UNCHANGED <<version, record, synced, rows, pc, old, group, left>>

(* Items without a mapping are created first, then the others updated.     *)
Creates(w) == {i \in ready[w] : target[w][i] = 0}
Updates(w) == ready[w] \ Creates(w)

Sending(w) == pc[w] = "project" /\ ToProject(w) = {} /\ ready[w] # {}

(* What a batch_create or batch_update does to the table when it takes     *)
(* effect: all of its rows at once, each with the version that was read.   *)
Created(w) ==
    rows' = [i \in Item |-> IF i \in Creates(w) THEN Append(rows[i], read[w][i]) ELSE rows[i]]
Updated(w) ==
    rows' = [i \in Item |-> IF i \in Updates(w)
                            THEN [rows[i] EXCEPT ![target[w][i]] = read[w][i]]
                            ELSE rows[i]]

Outcome(w, next, S) ==
    /\ pc'    = [pc EXCEPT ![w] = next]
    /\ group' = [group EXCEPT ![w] = S]
    /\ left'  = [left EXCEPT ![w] = S]
    /\ UNCHANGED <<dbVars, keep, old, read, ready>>

(* batch_create returned the record ids of the new rows. *)
CreateRows(w) ==
    /\ Sending(w) /\ Creates(w) # {}
    /\ Created(w)
    /\ target' = [target EXCEPT ![w] = [i \in Item |->
                    IF i \in Creates(w) THEN Len(rows[i]) + 1 ELSE @[i]]]
    /\ Outcome(w, "finish", Creates(w))
    /\ UNCHANGED faults

(* Faulty: a batch_create that failed is recorded as if it had succeeded. *)
CreateFailureIgnored(w) ==
    /\ Sending(w) /\ Creates(w) # {}
    /\ Fault
    /\ UNCHANGED rows
    /\ target' = [target EXCEPT ![w] = [i \in Item |->
                    IF i \in Creates(w) THEN Len(rows[i]) + 1 ELSE @[i]]]
    /\ Outcome(w, "finish", Creates(w))

(* batch_create failed: the table refused it, or the response was lost. *)
CreateFails(w) ==
    /\ Sending(w) /\ Creates(w) # {}
    /\ Fault
    /\ Created(w) \/ UNCHANGED rows
    /\ Outcome(w, "retry", Creates(w))
    /\ UNCHANGED target

UpdateRows(w) ==
    /\ Sending(w) /\ Creates(w) = {}
    /\ Updated(w)
    /\ Outcome(w, "finish", Updates(w))
    /\ UNCHANGED <<target, faults>>

UpdateFails(w) ==
    /\ Sending(w) /\ Creates(w) = {}
    /\ Fault
    /\ Updated(w) \/ UNCHANGED rows
    /\ Outcome(w, "retry", Updates(w))
    /\ UNCHANGED target

(* One job of the group is done with; after the last one the worker turns  *)
(* to what is still prepared.                                              *)
Leave(w, i) ==
    /\ left' = [left EXCEPT ![w] = @ \ {i}]
    /\ IF left[w] = {i}
       THEN /\ pc' = [pc EXCEPT ![w] = "project"]
            /\ group' = [group EXCEPT ![w] = {}]
            /\ Forget(w, group[w])
       ELSE UNCHANGED <<pc, group, keep, read, target, ready>>

(* Faulty: the version just projected overwrites the recorded one. *)
FinishOverwrites(w, i) ==
    /\ pc[w] = "finish" /\ i \in left[w]
    /\ record' = [record EXCEPT ![i] = target[w][i]]
    /\ synced' = [synced EXCEPT ![i] = read[w][i]]
    /\ job'    = [job EXCEPT ![i][keep[w][i]] = "succeeded"]
    /\ Leave(w, i)
    /\ UNCHANGED <<version, rows, old, faults>>

(* finish_outbox: the mapping and the job's status in one transaction. *)
FinishJob(w, i) ==
    /\ pc[w] = "finish" /\ i \in left[w]
    /\ record' = [record EXCEPT ![i] = target[w][i]]
    /\ synced' = [synced EXCEPT ![i] = IF @ < read[w][i] THEN read[w][i] ELSE @]
    /\ job'    = [job EXCEPT ![i][keep[w][i]] = "succeeded"]
    /\ Leave(w, i)
    /\ UNCHANGED <<version, rows, old, faults>>

(* finish_outbox raises: every job of the group is retried, those already  *)
(* finished included.                                                      *)
FinishFails(w) ==
    /\ pc[w] = "finish"
    /\ Fault
    /\ pc'   = [pc EXCEPT ![w] = "retry"]
    /\ left' = [left EXCEPT ![w] = group[w]]
    /\ UNCHANGED <<dbVars, rows, keep, old, read, target, ready, group>>

(* retry_outbox. *)
RetryJob(w, i) ==
    /\ pc[w] = "retry" /\ i \in left[w]
    /\ job' = [job EXCEPT ![i][keep[w][i]] = "failed"]
    /\ Leave(w, i)
    /\ UNCHANGED <<version, record, synced, rows, old, faults>>

(* Nothing is left of the batch: back to claim_outbox. *)
FinishBatch(w) ==
    /\ pc[w] = "project" /\ ToProject(w) = {} /\ ready[w] = {}
    /\ pc' = [pc EXCEPT ![w] = "idle"]
    /\ UNCHANGED <<dbVars, rows, keep, old, read, target, ready, group, left, faults>>

Reset(w) ==
    /\ pc'    = [pc EXCEPT ![w] = "idle"]
    /\ old'   = [old EXCEPT ![w] = Empty]
    /\ group' = [group EXCEPT ![w] = {}]
    /\ left'  = [left EXCEPT ![w] = {}]
    /\ Forget(w, Item)

(* finish_superseded_outbox or retry_outbox raises: _outbox_loop logs it   *)
(* and goes on, and the jobs of the batch stay in processing.              *)
Abort(w) ==
    /\ \/ pc[w] \in {"coalesce", "retry"}
       \/ pc[w] = "project" /\ ToProject(w) # {}
    /\ Fault
    /\ Reset(w)
    /\ UNCHANGED <<dbVars, rows>>

(* The process of w stops and starts again: open() makes every job that is *)
(* in processing failed, whoever holds it.                                 *)
Restart(w) ==
    /\ Fault
    /\ Reset(w)
    /\ job' = [i \in Item |-> [v \in Version |->
                 IF job[i][v] = "processing" THEN "failed" ELSE job[i][v]]]
    /\ UNCHANGED <<version, record, synced, rows>>

-----------------------------------------------------------------------------
Progress(w) ==
    \/ Claim(w) \/ FinishSuperseded(w) \/ CreateRows(w) \/ UpdateRows(w) \/ FinishBatch(w)
    \/ \E i \in Item : ReadItem(w, i) \/ ReadMapping(w, i) \/ FinishJob(w, i) \/ RetryJob(w, i)

Failure(w) ==
    \/ CreateFails(w) \/ UpdateFails(w) \/ FinishFails(w) \/ Abort(w) \/ Restart(w)
    \/ \E i \in Item : ProjectFails(w, i)

Next ==
    \/ \E i \in Item : Change(i)
    \/ Reconcile
    \/ \E w \in Worker : Progress(w) \/ Failure(w)

Spec == Init /\ [][Next]_vars

(* The loop of each worker keeps running; users, failures and the          *)
(* reconciliation timer owe nothing.                                       *)
FairSpec == Spec /\ \A w \in Worker : WF_vars(Progress(w))

-----------------------------------------------------------------------------
(* Properties. *)

(* No change of an item is ever forgotten: as long as the table is not     *)
(* known to have reached the item's version, some job of the item is       *)
(* waiting, being processed or to be retried, and it will project the item *)
(* as it then is.  A job may only be marked succeeded without a request if *)
(* another one of its item remains, whatever the workers, failures and     *)
(* restarts do in between.                                                 *)
NoLostProjection ==
    \A i \in Item :
        synced[i] < version[i] => \E v \in Version : job[i][v] \in Unfinished

(* With several workers the job that remains may be held by two of them,   *)
(* after a takeover, and the one that read the item earlier may finish it  *)
(* while the other has still to read.  Then nothing but that other worker  *)
(* stands for the change.  As long as nothing has failed it always does:   *)
(* an item the table is not known to have reached has an unfinished job,   *)
(* or a worker on its way to project the item as it is now, in whatever    *)
(* order created_at puts the jobs.  So a projection is only lost when a    *)
(* takeover, jobs out of order and a failure come together.                *)
CarriedOn(i) ==
    \E w \in Worker : keep[w][i] # 0 /\ read[w][i] \in {0, version[i]}

LostOnlyByFailure ==
    faults = 0 =>
        \A i \in Item : synced[i] < version[i] =>
            (\E v \in Version : job[i][v] \in Unfinished) \/ CarriedOn(i)

(* What LostOnlyByFailure rests on.  Jobs and what workers hold are not    *)
(* ahead of the item; what is superseded has another job retained whose    *)
(* worker has not read yet; and a group that is being finished has         *)
(* recorded what it no longer has left.                                    *)
NewestCarried ==
    faults = 0 =>
        \A i \in Item : synced[i] < version[i] =>
            job[i][version[i]] \in Unfinished \/ CarriedOn(i)

NoFutureJob ==
    \A i \in Item, v \in Version : v > version[i] => job[i][v] = "none"

HeldJobsKnown ==
    \A w \in Worker, i \in Item :
        /\ keep[w][i] <= version[i]
        /\ \A v \in old[w][i] : v <= version[i]
        /\ read[w][i] # 0 => keep[w][i] <= read[w][i]
        /\ old[w][i] # {} => pc[w] = "coalesce" /\ keep[w][i] # 0
        /\ pc[w] = "idle" => keep[w][i] = 0

GroupRecorded ==
    \A w \in Worker :
        /\ pc[w] = "retry" => faults # 0
        /\ pc[w] = "finish" => \A i \in group[w] \ left[w] : synced[i] >= read[w][i]

PreparedRead ==
    \A w \in Worker :
        /\ left[w] \subseteq group[w]
        /\ group[w] \subseteq ready[w]
        /\ \A i \in ready[w] : keep[w][i] # 0 /\ read[w][i] # 0
        /\ \A i \in Item : keep[w][i] = 0 => read[w][i] = 0
        /\ pc[w] \in {"idle", "coalesce"} =>
               ready[w] = {} /\ \A i \in Item : read[w][i] = 0

Inv == TypeOK /\ PreparedRead /\ NoFutureJob /\ HeldJobsKnown /\ GroupRecorded /\ NewestCarried

(* Once no job is left, every item is mapped to a row of the table that    *)
(* shows the item as it is in the database: nothing older was written over *)
(* it, and no job ended without the row it promised.                       *)
Quiescent == \A i \in Item, v \in Version : job[i][v] \notin Unfinished
QuiescentFresh ==
    Quiescent =>
        \A i \in Item : version[i] > 0 =>
            record[i] # 0 /\ rows[i][record[i]] = version[i]

(* A second row for one item is the price of a failure: the worker never   *)
(* creates a row for an item it has already recorded one for.              *)
DuplicatesNeedFaults == \A i \in Item : Len(rows[i]) <= 1 + faults

(* The same with several workers: each of them may have looked the mapping *)
(* up before another one recorded it, so there may be a row per worker,    *)
(* and one more for each failure, but never one more for each job.         *)
DuplicatesBounded ==
    \A i \in Item : Len(rows[i]) <= Cardinality(Worker) + faults

(* What DuplicatesBounded rests on: the workers that may still create a    *)
(* row for item i, because they will find no mapping or have found none,   *)
(* and did not just create one.  A row costs its worker the place in this  *)
(* set, because the worker only leaves "finish" for another item once the  *)
(* row is recorded (RecordsKept); only a failure gives the place back.     *)
MayCreate(i) ==
    {w \in Worker : /\ record[i] = 0 \/ (i \in ready[w] /\ target[w][i] = 0)
                    /\ ~ (pc[w] = "finish" /\ i \in group[w])}

RecordsKept ==
    \A w \in Worker : pc[w] = "finish" =>
        \A i \in group[w] : target[w][i] # 0 /\ (i \in left[w] \/ record[i] # 0)

RowsInv ==
    /\ RecordsKept
    /\ \A i \in Item :
           Len(rows[i]) + Cardinality(MayCreate(i)) <= Cardinality(Worker) + faults

(* The outbox implements the promise of Projection: the mapped row only    *)
(* moves forward, what is recorded never exceeds it, and both catch up.    *)
Shown(i) == IF record[i] = 0 THEN 0 ELSE rows[i][record[i]]
P == INSTANCE Projection WITH shown <- [i \in Item |-> Shown(i)]
RefinesProjection == P!Spec

(* The same without the promise that they catch up. *)
RefinesProjectionSafely == P!Safe
=============================================================================
