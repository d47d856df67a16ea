------------------------- MODULE IntakeAloneProofs -------------------------
(***************************************************************************)
(* Theorems about Intake with a single event worker (SQLite, or one        *)
(* process on PostgreSQL), for any messages, users, batches and bounds.    *)
(*                                                                         *)
(* Alone, a worker holds only events that are in processing, each once     *)
(* (HeldInProcessing), so what retry_event fails is never over already.    *)
(* As long as nothing fails, it also holds all of them, in the order they  *)
(* arrived in, and the rest of the queue is in order, too (QueueInOrder):  *)
(* the message is over, or past retention, before its recall is claimed.   *)
(***************************************************************************)
EXTENDS IntakeProofs

Alone == \A v, w \in Worker : v = w

HeldInProcessing ==
    \A w \in Worker : \A k \in 1 .. Len(jobs[w]) :
        /\ status[jobs[w][k].event] = "processing"
        /\ \A n \in 1 .. Len(jobs[w]) : jobs[w][n].event = jobs[w][k].event => n = k

-----------------------------------------------------------------------------
(* The steps of the queue among the steps of the intake.                   *)

LEMMA QueueSteps ==
    ASSUME Next
    PROVE  \/ UNCHANGED <<arrived, status, body, jobs>>
           \/ \E w \in Worker : Claim(w)
           \/ \E w \in Worker : Finish(w)
           \/ \E w \in Worker : Failure(w)
           \/ \E e \in Event : Accept(e)
           \/ Purge
<1>. USE DEF queueVars
<1>1. ASSUME NEW w \in Worker, Handler(w)
      PROVE  UNCHANGED <<arrived, status, body, jobs>>
  <2>1. CASE SkipEmpty(w) \/ Quarantine(w) \/ ConfirmChat(w)
    BY <2>1 DEF SkipEmpty, Quarantine, ConfirmChat
  <2>2. ASSUME NEW n \in Message,
               \/ GetChat(w, n) \/ ResolveChat(w, n) \/ FindDirect(w, n) \/ FindAll(w, n)
               \/ SaveTargets(w, n) \/ RecallMessage(w, n)
        PROVE  UNCHANGED <<arrived, status, body, jobs>>
    BY <2>2 DEF GetChat, ResolveChat, FindDirect, FindAll, SaveTargets, RecallMessage
  <2>. QED
    BY ZenonT(30), <1>1, <2>1, <2>2 DEF Handler
<1>2. ASSUME NEW m \in Message, NEW u \in User, Edit(m, u)
      PROVE  UNCHANGED <<arrived, status, body, jobs>>
  BY <1>2 DEF Edit
<1>3. ASSUME NEW u \in User, Toggle(u)
      PROVE  UNCHANGED <<arrived, status, body, jobs>>
  BY <1>3 DEF Toggle
<1>4. CASE Age
  BY <1>4 DEF Age
<1>5. CASE WriteChat
  BY <1>5 DEF WriteChat, ListUserChats, MarkChat, ListBotChats
<1>. QED
  BY ZenonT(30), <1>1, <1>2, <1>3, <1>4, <1>5 DEF Next, Progress, Environment

(* What claim_events hands out, place by place.                            *)
LEMMA ClaimedBatch ==
    ASSUME QueueTypeOK, StoredOnce, NEW w \in Worker, ClaimEvents(w)
    PROVE  \E due \in SUBSET {e \in Event : status[e] \in {"failed", "processing"}} :
           \E n \in 1 .. Limit : \E pos \in [1 .. n -> 1 .. Len(arrived)] :
              /\ Oldest(Pending \cup due, n, pos)
              /\ Len(jobs'[w]) = n
              /\ \A k \in 1 .. n : /\ jobs'[w][k].event = arrived[pos[k]]
                                   /\ jobs'[w][k].body = body[arrived[pos[k]]]
              /\ \A e \in Event : status'[e] = IF \E k \in 1 .. n : arrived[pos[k]] = e
                                               THEN "processing" ELSE status[e]
<1>. USE EventQueueAssumption DEF QueueTypeOK
<1>1. PICK due \in SUBSET {e \in Event : status[e] \in {"failed", "processing"}} :
           Take(w, Pending \cup due)
  BY DEF ClaimEvents
<1>2. PICK n \in 1 .. Limit : \E pos \in [1 .. n -> 1 .. Len(arrived)] :
         /\ Oldest(Pending \cup due, n, pos)
         /\ jobs' = [jobs EXCEPT ![w] =
              [k \in 1 .. n |-> [event |-> arrived[pos[k]], body |-> body[arrived[pos[k]]]]]]
         /\ status' = [e \in Event |->
              IF \E k \in 1 .. n : arrived[pos[k]] = e THEN "processing" ELSE status[e]]
  BY <1>1 DEF Take
<1>3. PICK pos \in [1 .. n -> 1 .. Len(arrived)] :
         /\ Oldest(Pending \cup due, n, pos)
         /\ jobs' = [jobs EXCEPT ![w] =
              [k \in 1 .. n |-> [event |-> arrived[pos[k]], body |-> body[arrived[pos[k]]]]]]
         /\ status' = [e \in Event |->
              IF \E k \in 1 .. n : arrived[pos[k]] = e THEN "processing" ELSE status[e]]
  BY <1>2
<1>. DEFINE batch == [k \in 1 .. n |-> [event |-> arrived[pos[k]], body |-> body[arrived[pos[k]]]]]
<1>a. \A k \in 1 .. n : arrived[pos[k]] \in Event
  OBVIOUS
<1>b. \A k \in 1 .. n : batch[k] \in Job
  BY <1>a DEF Job
<1>4. \A k \in 1 .. n : /\ batch[k].event = arrived[pos[k]]
                        /\ batch[k].body = body[arrived[pos[k]]]
  OBVIOUS
<1>5. Len(batch) = n
  <2>1. n \in Nat
    OBVIOUS
  <2>2. batch \in [1 .. n -> Job]
    BY <1>b
  <2>. HIDE DEF batch
  <2>3. batch \in Seq(Job)
    BY <2>1, <2>2, SeqDef
  <2>. QED
    BY <2>1, <2>2, <2>3, LenProperties
<1>6. jobs'[w] = batch
  BY <1>3
<1>7. \A e \in Event : status'[e] = IF \E k \in 1 .. n : arrived[pos[k]] = e
                                    THEN "processing" ELSE status[e]
  BY <1>3
<1>. HIDE DEF batch
<1>8. /\ Len(jobs'[w]) = n
      /\ \A k \in 1 .. n : /\ jobs'[w][k].event = arrived[pos[k]]
                           /\ jobs'[w][k].body = body[arrived[pos[k]]]
  BY <1>4, <1>5, <1>6
<1>. QED
  BY <1>3, <1>7, <1>8

(* What is left of a batch after its first job.                            *)
LEMMA RestOfBatch ==
    ASSUME jobs \in [Worker -> Seq(Job)], NEW w \in Worker, jobs[w] # <<>>,
           jobs' = [jobs EXCEPT ![w] = Tail(@)]
    PROVE  /\ Len(jobs[w]) \in Nat /\ Len(jobs[w]) >= 1
           /\ Len(jobs'[w]) = Len(jobs[w]) - 1
           /\ Head(jobs[w]) = jobs[w][1]
           /\ \A k \in 1 .. Len(jobs'[w]) : jobs'[w][k] = jobs[w][k + 1]
<1>1. jobs[w] \in Seq(Job) /\ jobs'[w] = Tail(jobs[w])
  OBVIOUS
<1>2. /\ Len(jobs[w]) \in Nat /\ Len(jobs[w]) >= 1 /\ Head(jobs[w]) = jobs[w][1]
      /\ Len(Tail(jobs[w])) = Len(jobs[w]) - 1
      /\ \A k \in 1 .. Len(Tail(jobs[w])) : Tail(jobs[w])[k] = jobs[w][k + 1]
  BY <1>1
<1>. QED
  BY <1>1, <1>2

LEMMA JobAt ==
    ASSUME jobs \in [Worker -> Seq(Job)], NEW w \in Worker, NEW k \in 1 .. Len(jobs[w])
    PROVE  jobs[w][k] \in Job /\ jobs[w][k].event \in Event /\ jobs[w][k] \in Held(w)
<1>1. jobs[w] \in Seq(Job)
  OBVIOUS
<1>2. jobs[w][k] \in Job
  BY <1>1, ElementOfSeq
<1>. QED
  BY <1>2 DEF Job, Held

(* A worker holds what is in processing: what else is claimed, delivered,  *)
(* purged, failed or restarted is not what it holds.                       *)
LEMMA HeldNext ==
    ASSUME Alone, Inv, HeldInProcessing, Next
    PROVE  HeldInProcessing'
<1>typ. /\ QueueTypeOK /\ StoredOnce /\ jobs \in [Worker -> Seq(Job)]
        /\ status \in [Event -> Status]
  BY DEF Inv, TypeOK, QueueTypeOK
<1>1. CASE UNCHANGED <<arrived, status, body, jobs>>
  BY <1>1 DEF HeldInProcessing
<1>2. ASSUME NEW w \in Worker, Claim(w)
      PROVE  HeldInProcessing'
  <2>1. PICK due \in SUBSET {e \in Event : status[e] \in {"failed", "processing"}} :
             \E n \in 1 .. Limit : \E pos \in [1 .. n -> 1 .. Len(arrived)] :
                /\ Oldest(Pending \cup due, n, pos)
                /\ Len(jobs'[w]) = n
                /\ \A k \in 1 .. n : /\ jobs'[w][k].event = arrived[pos[k]]
                                     /\ jobs'[w][k].body = body[arrived[pos[k]]]
                /\ \A e \in Event : status'[e] = IF \E k \in 1 .. n : arrived[pos[k]] = e
                                                 THEN "processing" ELSE status[e]
    BY <1>2, <1>typ, ClaimedBatch DEF Claim
  <2>2. PICK n \in 1 .. Limit : \E pos \in [1 .. n -> 1 .. Len(arrived)] :
                /\ Oldest(Pending \cup due, n, pos)
                /\ Len(jobs'[w]) = n
                /\ \A k \in 1 .. n : /\ jobs'[w][k].event = arrived[pos[k]]
                                     /\ jobs'[w][k].body = body[arrived[pos[k]]]
                /\ \A e \in Event : status'[e] = IF \E k \in 1 .. n : arrived[pos[k]] = e
                                                 THEN "processing" ELSE status[e]
    BY <2>1
  <2>3. PICK pos \in [1 .. n -> 1 .. Len(arrived)] :
                /\ Oldest(Pending \cup due, n, pos)
                /\ Len(jobs'[w]) = n
                /\ \A k \in 1 .. n : /\ jobs'[w][k].event = arrived[pos[k]]
                                     /\ jobs'[w][k].body = body[arrived[pos[k]]]
                /\ \A e \in Event : status'[e] = IF \E k \in 1 .. n : arrived[pos[k]] = e
                                                 THEN "processing" ELSE status[e]
    BY <2>2
  <2>4. \A j, k \in 1 .. n : arrived[pos[j]] = arrived[pos[k]] => j = k
    <3>. SUFFICES ASSUME NEW j \in 1 .. n, NEW k \in 1 .. n, arrived[pos[j]] = arrived[pos[k]]
                  PROVE  j = k
      OBVIOUS
    <3>1. pos[j] \in 1 .. Len(arrived) /\ pos[k] \in 1 .. Len(arrived)
      OBVIOUS
    <3>2. pos[j] = pos[k]
      BY <3>1, <1>typ DEF StoredOnce
    <3>3. (j < k => pos[j] < pos[k]) /\ (k < j => pos[k] < pos[j])
      BY <2>3 DEF Oldest
    <3>. QED
      BY <3>1, <3>2, <3>3
  <2>5. \A k \in 1 .. n : arrived[pos[k]] \in Event
    BY <1>typ DEF QueueTypeOK
  <2>6. \A k \in 1 .. n : jobs'[w][k].event = arrived[pos[k]]
    BY <2>3
  <2>7. \A k \in 1 .. n : status'[jobs'[w][k].event] = "processing"
    BY <2>3, <2>5, <2>6
  <2>8. \A j, k \in 1 .. n : jobs'[w][j].event = jobs'[w][k].event => j = k
    BY <2>4, <2>6
  <2>9. \A v \in Worker : v = w
    BY DEF Alone
  <2>10. Len(jobs'[w]) = n
    BY <2>3
  <2>. QED
    BY <2>7, <2>8, <2>9, <2>10 DEF HeldInProcessing
<1>3. ASSUME NEW w \in Worker, jobs[w] # <<>>, jobs' = [jobs EXCEPT ![w] = Tail(@)],
             \A e \in Event \ {Head(jobs[w]).event} : status'[e] = status[e]
      PROVE  HeldInProcessing'
  <2>1. /\ Len(jobs[w]) \in Nat /\ Len(jobs[w]) >= 1
        /\ Len(jobs'[w]) = Len(jobs[w]) - 1
        /\ Head(jobs[w]) = jobs[w][1]
        /\ \A k \in 1 .. Len(jobs'[w]) : jobs'[w][k] = jobs[w][k + 1]
    BY <1>3, <1>typ, RestOfBatch
  <2>2. ASSUME NEW k \in 1 .. Len(jobs'[w])
        PROVE  /\ k + 1 \in 1 .. Len(jobs[w]) /\ jobs'[w][k] = jobs[w][k + 1]
               /\ status'[jobs'[w][k].event] = "processing"
    <3>1. k + 1 \in 1 .. Len(jobs[w]) /\ 1 \in 1 .. Len(jobs[w]) /\ k + 1 # 1
      BY <2>1
    <3>2. /\ jobs[w][k + 1].event \in Event
          /\ status[jobs[w][k + 1].event] = "processing"
          /\ jobs[w][k + 1].event # jobs[w][1].event
      BY <3>1, <1>typ, JobAt DEF HeldInProcessing
    <3>. QED
      BY <1>3, <2>1, <3>1, <3>2
  <2>3. ASSUME NEW k \in 1 .. Len(jobs'[w]), NEW n \in 1 .. Len(jobs'[w]),
               jobs'[w][n].event = jobs'[w][k].event
        PROVE  n = k
    <3>1. n + 1 = k + 1
      BY <2>2, <2>3 DEF HeldInProcessing
    <3>. QED
      BY <2>1, <3>1
  <2>4. \A v \in Worker : v = w
    BY DEF Alone
  <2>. QED
    BY <2>2, <2>3, <2>4 DEF HeldInProcessing
<1>4. ASSUME NEW w \in Worker, Finish(w)
      PROVE  HeldInProcessing'
  BY <1>3, <1>4, <1>typ DEF Finish, FinishEvent
<1>5. ASSUME NEW w \in Worker, Failure(w)
      PROVE  HeldInProcessing'
  <2>1. CASE HandlerFails(w)
    BY <1>3, <1>typ, <2>1 DEF HandlerFails, RetryEvent
  <2>2. CASE Abandon(w) \/ Restart(w)
    <3>1. \A v \in Worker : jobs'[v] = <<>>
      BY <1>typ, <2>2 DEF Abandon, AbandonBatch, Restart, RestartQueue, Alone
    <3>. QED
      BY <3>1 DEF HeldInProcessing
  <2>. QED
    BY <1>5, <2>1, <2>2 DEF Failure
<1>6. ASSUME jobs' = jobs, \A e \in Event : status[e] = "processing" => status'[e] = "processing"
      PROVE  HeldInProcessing'
  <2>1. \A w \in Worker : \A k \in 1 .. Len(jobs[w]) : jobs[w][k].event \in Event
    BY <1>typ, JobAt
  <2>. QED
    BY <1>6, <2>1 DEF HeldInProcessing
<1>7. ASSUME NEW e \in Event, Accept(e)
      PROVE  HeldInProcessing'
  BY <1>6, <1>7, <1>typ DEF Accept, EnqueueEvent
<1>8. CASE Purge
  <2>1. /\ jobs' = jobs
        /\ \A e \in Event : status[e] = "processing" => status'[e] = "processing"
    BY <1>8 DEF Purge, PurgeEvents
  <2>. QED
    BY <1>6, <2>1
<1>. QED
  BY ZenonT(30), <1>1, <1>2, <1>4, <1>5, <1>7, <1>8, QueueSteps

(* With a single worker, an event that is over is never handed out again:  *)
(* the event that retry_event fails is one that is in processing, and      *)
(* claim_events, open() and enqueue_event pass over what is over.          *)
THEOREM OverIsOver ==
    ASSUME Alone
    PROVE  Spec => EndedStaysEnded
<1>1. Init => HeldInProcessing
  BY DEF Init, QueueInit, HeldInProcessing
<1>2. Inv /\ HeldInProcessing /\ [Next]_vars => HeldInProcessing'
  <2>1. CASE UNCHANGED vars
    BY <2>1 DEF vars, queueVars, HeldInProcessing
  <2>. QED
    BY <2>1, HeldNext
<1>3. Inv /\ HeldInProcessing /\ [Next]_vars
        => [\A e \in Event : status[e] = "succeeded" => status'[e] = "succeeded"]_vars
  <2>. SUFFICES ASSUME Inv, HeldInProcessing, Next, NEW e \in Event, status[e] = "succeeded"
                PROVE  status'[e] = "succeeded"
    OBVIOUS
  <2>typ. QueueTypeOK /\ StoredOnce
    BY DEF Inv, TypeOK
  <2>1. ASSUME NEW w \in Worker, Claim(w)
        PROVE  status'[e] = "succeeded"
    <3>1. PICK S : Take(w, S) /\ e \notin S
      BY <2>1 DEF Claim, ClaimEvents, Pending
    <3>2. PICK n \in 1 .. Limit : \E pos \in [1 .. n -> 1 .. Len(arrived)] :
             /\ Oldest(S, n, pos)
             /\ status' = [f \in Event |->
                  IF \E k \in 1 .. n : arrived[pos[k]] = f THEN "processing" ELSE status[f]]
      BY <3>1 DEF Take
    <3>. QED
      BY <3>1, <3>2 DEF Oldest
  <2>2. ASSUME NEW w \in Worker, Finish(w)
        PROVE  status'[e] = "succeeded"
    BY <2>2, <2>typ DEF Finish, FinishEvent, QueueTypeOK
  <2>3. ASSUME NEW w \in Worker, Failure(w)
        PROVE  status'[e] = "succeeded"
    <3>1. CASE HandlerFails(w)
      <4>1. /\ jobs \in [Worker -> Seq(Job)] /\ jobs[w] # <<>>
            /\ jobs' = [jobs EXCEPT ![w] = Tail(@)]
            /\ status' = [status EXCEPT ![Head(jobs[w]).event] = "failed"]
        BY <2>typ, <3>1 DEF HandlerFails, RetryEvent, QueueTypeOK
      <4>2. 1 \in 1 .. Len(jobs[w]) /\ Head(jobs[w]) = jobs[w][1]
        BY <4>1, RestOfBatch
      <4>3. status[Head(jobs[w]).event] = "processing"
        BY <4>2 DEF HeldInProcessing
      <4>. QED
        BY <2>typ, <4>1, <4>3 DEF QueueTypeOK
    <3>2. CASE Abandon(w) \/ Restart(w)
      BY <3>2 DEF Abandon, AbandonBatch, Restart, RestartQueue
    <3>. QED
      BY <2>3, <3>1, <3>2 DEF Failure
  <2>4. ASSUME NEW f \in Event, Accept(f)
        PROVE  status'[e] = "succeeded"
    BY <2>4, <2>typ DEF Accept, EnqueueEvent, QueueTypeOK
  <2>5. CASE Purge
    BY <2>5 DEF Purge, PurgeEvents
  <2>. QED
    BY ZenonT(30), <2>1, <2>2, <2>3, <2>4, <2>5, QueueSteps
<1>. QED
  BY <1>1, <1>2, <1>3, Inductive, PTL DEF Spec, EndedStaysEnded

-----------------------------------------------------------------------------
(* A queue in order.                                                       *)

(* Nothing of the batch has lost its payload, and it is in the order of    *)
(* arrival.                                                                *)
BatchInOrder ==
    \A w \in Worker : \A k \in 1 .. Len(jobs[w]) :
        /\ jobs[w][k].body = TRUE
        /\ \A n \in 1 .. Len(jobs[w]) : \A p, q \in 1 .. Len(arrived) :
               k < n /\ arrived[p] = jobs[w][k].event /\ arrived[q] = jobs[w][n].event => p < q

(* What is in processing is in the batch.                                  *)
ProcessingIsHeld ==
    \A e \in Event : status[e] = "processing" =>
        \E w \in Worker : \E k \in 1 .. Len(jobs[w]) : jobs[w][k].event = e

(* What is pending arrived after all that is not; what is over arrived     *)
(* after nothing that is not over, unless it is past retention.            *)
Unfailed == \A e \in Event : status[e] # "failed" /\ (status[e] = "pending" => body[e] = TRUE)
Suffix   == \A p, q \in 1 .. Len(arrived) :
               p < q /\ status[arrived[p]] = "pending" => status[arrived[q]] = "pending"
Turns    == \A p, q \in 1 .. Len(arrived) :
               p < q /\ status[arrived[q]] = "succeeded" =>
                   status[arrived[p]] = "succeeded" \/ q <= aged

QueueInOrder == BatchInOrder /\ ProcessingIsHeld /\ Unfailed /\ Suffix /\ Turns

(* A later place in a batch is a later arrival. *)
LEMMA InBatch ==
    ASSUME QueueInOrder, NEW w \in Worker, NEW k \in 1 .. Len(jobs[w]), NEW n \in 1 .. Len(jobs[w]),
           NEW p \in 1 .. Len(arrived), NEW q \in 1 .. Len(arrived), k < n,
           arrived[p] = jobs[w][k].event, arrived[q] = jobs[w][n].event
    PROVE  p < q
  BY DEF QueueInOrder, BatchInOrder

LEMMA OrderClaim ==
    ASSUME Alone, Inv, HeldInProcessing, QueueInOrder, NEW w \in Worker, Claim(w)
    PROVE  QueueInOrder'
<1>typ. /\ QueueTypeOK /\ StoredOnce /\ arrived \in Seq(Event) /\ Len(arrived) \in Nat
        /\ status \in [Event -> Status] /\ Limit \in Nat
        /\ \A p \in 1 .. Len(arrived) : arrived[p] \in Event /\ status[arrived[p]] # "none"
  BY EventQueueAssumption DEF Inv, TypeOK, QueueTypeOK, StoredOnce
<1>frm. UNCHANGED <<arrived, body, aged>> /\ jobs[w] = <<>> /\ ClaimEvents(w)
  BY DEF Claim, ClaimEvents, Take, storeVars
<1>1. PICK due \in SUBSET {e \in Event : status[e] \in {"failed", "processing"}} :
           \E n \in 1 .. Limit : \E pos \in [1 .. n -> 1 .. Len(arrived)] :
              /\ Oldest(Pending \cup due, n, pos)
              /\ Len(jobs'[w]) = n
              /\ \A k \in 1 .. n : /\ jobs'[w][k].event = arrived[pos[k]]
                                   /\ jobs'[w][k].body = body[arrived[pos[k]]]
              /\ \A e \in Event : status'[e] = IF \E k \in 1 .. n : arrived[pos[k]] = e
                                               THEN "processing" ELSE status[e]
  BY <1>typ, <1>frm, ClaimedBatch
<1>2. PICK n \in 1 .. Limit : \E pos \in [1 .. n -> 1 .. Len(arrived)] :
              /\ Oldest(Pending \cup due, n, pos)
              /\ Len(jobs'[w]) = n
              /\ \A k \in 1 .. n : /\ jobs'[w][k].event = arrived[pos[k]]
                                   /\ jobs'[w][k].body = body[arrived[pos[k]]]
              /\ \A e \in Event : status'[e] = IF \E k \in 1 .. n : arrived[pos[k]] = e
                                               THEN "processing" ELSE status[e]
  BY <1>1
<1>3. PICK pos \in [1 .. n -> 1 .. Len(arrived)] :
              /\ Oldest(Pending \cup due, n, pos)
              /\ Len(jobs'[w]) = n
              /\ \A k \in 1 .. n : /\ jobs'[w][k].event = arrived[pos[k]]
                                   /\ jobs'[w][k].body = body[arrived[pos[k]]]
              /\ \A e \in Event : status'[e] = IF \E k \in 1 .. n : arrived[pos[k]] = e
                                               THEN "processing" ELSE status[e]
  BY <1>2
(* Nothing has failed, and what is in processing would be in the batch:    *)
(* only pending events can be claimed.                                     *)
<1>4. due = {}
  <2>1. \A v \in Worker : 1 .. Len(jobs[v]) = {}
    BY <1>frm DEF Alone
  <2>2. \A e \in Event : status[e] # "processing"
    BY <2>1 DEF QueueInOrder, ProcessingIsHeld
  <2>3. \A e \in Event : status[e] # "failed"
    BY DEF QueueInOrder, Unfailed
  <2>. QED
    BY <2>2, <2>3
<1>5. /\ \A k \in 1 .. n : status[arrived[pos[k]]] = "pending"
      /\ \A j, k \in 1 .. n : j < k => pos[j] < pos[k]
      /\ \A p \in 1 .. Len(arrived) : status[arrived[p]] = "pending" =>
             (\E k \in 1 .. n : pos[k] = p) \/ (n = Limit /\ pos[n] < p)
  BY <1>3, <1>4, <1>typ DEF Oldest, Pending
<1>6. \A k \in 1 .. n : pos[k] \in 1 .. Len(arrived)
  OBVIOUS
<1>7. \A p, q \in 1 .. Len(arrived) : arrived[p] = arrived[q] => p = q
  BY <1>typ DEF StoredOnce
<1>8. \A p \in 1 .. Len(arrived) :
         /\ (\E k \in 1 .. n : pos[k] = p) => status'[arrived[p]] = "processing"
         /\ ~(\E k \in 1 .. n : pos[k] = p) => status'[arrived[p]] = status[arrived[p]]
  <2>1. \A e \in Event : status'[e] = IF \E k \in 1 .. n : arrived[pos[k]] = e
                                     THEN "processing" ELSE status[e]
    BY <1>3
  <2>2. ASSUME NEW p \in 1 .. Len(arrived)
        PROVE  (\E k \in 1 .. n : arrived[pos[k]] = arrived[p]) <=> (\E k \in 1 .. n : pos[k] = p)
    BY <1>6, <1>7
  <2>3. \A p \in 1 .. Len(arrived) : arrived[p] \in Event
    BY <1>typ
  <2>. QED
    BY <2>1, <2>2, <2>3
<1>9. BatchInOrder'
  <2>1. \A k \in 1 .. n : jobs'[w][k].body = TRUE
    BY <1>3, <1>5, <1>6, <1>typ DEF QueueInOrder, Unfailed
  <2>2. ASSUME NEW k \in 1 .. n, NEW l \in 1 .. n, NEW p \in 1 .. Len(arrived),
               NEW q \in 1 .. Len(arrived), k < l,
               arrived[p] = jobs'[w][k].event, arrived[q] = jobs'[w][l].event
        PROVE  p < q
    <3>1. arrived[p] = arrived[pos[k]] /\ arrived[q] = arrived[pos[l]]
      BY <1>3, <2>2
    <3>2. p = pos[k] /\ q = pos[l]
      BY <1>6, <1>7, <3>1
    <3>. QED
      BY <1>5, <2>2, <3>2
  <2>3. Len(jobs'[w]) = n /\ arrived' = arrived /\ \A v \in Worker : v = w
    BY <1>3, <1>frm DEF Alone
  <2>. QED
    BY <2>1, <2>2, <2>3 DEF BatchInOrder
<1>10. ProcessingIsHeld'
  <2>. SUFFICES ASSUME NEW e \in Event, status'[e] = "processing"
                PROVE  \E k \in 1 .. Len(jobs'[w]) : jobs'[w][k].event = e
    BY DEF ProcessingIsHeld
  <2>1. status[e] # "processing"
    <3>1. \A v \in Worker : 1 .. Len(jobs[v]) = {}
      BY <1>frm DEF Alone
    <3>. QED
      BY <3>1 DEF QueueInOrder, ProcessingIsHeld
  <2>2. PICK k \in 1 .. n : arrived[pos[k]] = e
    BY <1>3, <2>1
  <2>. QED
    BY <1>3, <2>2
<1>11. Unfailed'
  BY <1>3, <1>frm DEF QueueInOrder, Unfailed
<1>12. Suffix'
  <2>. SUFFICES ASSUME NEW p \in 1 .. Len(arrived), NEW q \in 1 .. Len(arrived), p < q,
                       status'[arrived[p]] = "pending"
                PROVE  status'[arrived[q]] = "pending"
    BY <1>frm DEF Suffix
  <2>1. ~(\E k \in 1 .. n : pos[k] = p) /\ status[arrived[p]] = "pending"
    BY <1>8
  <2>2. n = Limit /\ pos[n] < p
    BY <1>5, <2>1
  <2>3. \A k \in 1 .. n : pos[k] # q
    <3>. SUFFICES ASSUME NEW k \in 1 .. n PROVE pos[k] # q
      OBVIOUS
    <3>1. n \in 1 .. n /\ (k < n \/ k = n)
      BY <1>typ
    <3>2. pos[k] <= pos[n] /\ pos[k] \in Nat /\ pos[n] \in Nat
      BY <1>5, <1>6, <3>1
    <3>. QED
      BY <2>2, <3>2
  <2>4. status[arrived[q]] = "pending"
    BY <2>1 DEF QueueInOrder, Suffix
  <2>. QED
    BY <1>8, <2>3, <2>4
<1>13. Turns'
  <2>. SUFFICES ASSUME NEW p \in 1 .. Len(arrived), NEW q \in 1 .. Len(arrived), p < q,
                       status'[arrived[q]] = "succeeded"
                PROVE  status'[arrived[p]] = "succeeded" \/ q <= aged
    BY <1>frm DEF Turns
  <2>1. status[arrived[q]] = "succeeded"
    BY <1>8
  <2>2. status[arrived[p]] = "succeeded" \/ q <= aged
    BY <2>1 DEF QueueInOrder, Turns
  <2>3. status[arrived[p]] = "succeeded" => status'[arrived[p]] = "succeeded"
    BY <1>5, <1>8
  <2>. QED
    BY <2>2, <2>3
<1>. QED
  BY <1>9, <1>10, <1>11, <1>12, <1>13 DEF QueueInOrder

(* The first job of the batch arrived before all others in processing, so  *)
(* nothing unfinished arrived before it.                                   *)
LEMMA OrderFinish ==
    ASSUME Alone, Inv, HeldInProcessing, QueueInOrder, NEW w \in Worker, Finish(w)
    PROVE  QueueInOrder'
<1>typ. /\ QueueTypeOK /\ StoredOnce /\ jobs \in [Worker -> Seq(Job)]
        /\ status \in [Event -> Status] /\ body \in [Event -> BOOLEAN]
        /\ \A p \in 1 .. Len(arrived) : arrived[p] \in Event /\ status[arrived[p]] # "none"
  BY DEF Inv, TypeOK, QueueTypeOK, StoredOnce
<1>. DEFINE f == Head(jobs[w]).event
<1>frm. /\ UNCHANGED <<arrived, aged>> /\ jobs[w] # <<>>
        /\ jobs' = [jobs EXCEPT ![w] = Tail(@)]
        /\ status' = [status EXCEPT ![f] = "succeeded"] /\ body' = [body EXCEPT ![f] = FALSE]
  BY DEF Finish, FinishEvent, storeVars
<1>1. /\ Len(jobs[w]) \in Nat /\ Len(jobs[w]) >= 1
      /\ Len(jobs'[w]) = Len(jobs[w]) - 1
      /\ Head(jobs[w]) = jobs[w][1]
      /\ \A k \in 1 .. Len(jobs'[w]) : jobs'[w][k] = jobs[w][k + 1]
  BY <1>frm, <1>typ, RestOfBatch
<1>2. 1 \in 1 .. Len(jobs[w]) /\ f = jobs[w][1].event /\ f \in Event /\ status[f] = "processing"
  <2>1. 1 \in 1 .. Len(jobs[w]) /\ f = jobs[w][1].event
    BY <1>1
  <2>. QED
    BY <2>1, <1>typ, JobAt DEF HeldInProcessing
<1>3. \A v \in Worker : v = w
  BY DEF Alone
<1>4. /\ status'[f] = "succeeded"
      /\ \A e \in Event \ {f} : status'[e] = status[e] /\ (body[e] = TRUE => body'[e] = TRUE)
  BY <1>2, <1>frm, <1>typ
<1>. HIDE DEF f
<1>5. BatchInOrder'
  <2>1. ASSUME NEW k \in 1 .. Len(jobs'[w])
        PROVE  /\ k + 1 \in 1 .. Len(jobs[w]) /\ jobs'[w][k] = jobs[w][k + 1]
    BY <1>1
  <2>2. \A k \in 1 .. Len(jobs'[w]) : jobs'[w][k].body = TRUE
    BY <2>1 DEF QueueInOrder, BatchInOrder
  <2>3. ASSUME NEW k \in 1 .. Len(jobs'[w]), NEW l \in 1 .. Len(jobs'[w]),
               NEW p \in 1 .. Len(arrived), NEW q \in 1 .. Len(arrived), k < l,
               arrived[p] = jobs'[w][k].event, arrived[q] = jobs'[w][l].event
        PROVE  p < q
    <3>1. k + 1 < l + 1
      BY <2>3
    <3>2. k + 1 \in 1 .. Len(jobs[w]) /\ l + 1 \in 1 .. Len(jobs[w])
      BY <2>1
    <3>3. arrived[p] = jobs[w][k + 1].event /\ arrived[q] = jobs[w][l + 1].event
      BY <2>1, <2>3
    <3>. QED
      BY <3>1, <3>2, <3>3, InBatch
  <2>4. arrived' = arrived
    BY <1>frm
  <2>5. ASSUME NEW v \in Worker, NEW k \in 1 .. Len(jobs'[v])
        PROVE  /\ jobs'[v][k].body = TRUE
               /\ \A l \in 1 .. Len(jobs'[v]) : \A p, q \in 1 .. Len(arrived') :
                    k < l /\ arrived'[p] = jobs'[v][k].event /\ arrived'[q] = jobs'[v][l].event
                      => p < q
    <3>1. v = w
      BY <1>3
    <3>. QED
      BY <2>2, <2>3, <2>4, <3>1
  <2>. QED
    BY <2>5 DEF BatchInOrder
<1>6. ProcessingIsHeld'
  <2>. SUFFICES ASSUME NEW e \in Event, status'[e] = "processing"
                PROVE  \E k \in 1 .. Len(jobs'[w]) : jobs'[w][k].event = e
    BY DEF ProcessingIsHeld
  <2>1. e # f /\ status[e] = "processing"
    BY <1>4
  <2>2. PICK k \in 1 .. Len(jobs[w]) : jobs[w][k].event = e
    BY <1>3, <2>1 DEF QueueInOrder, ProcessingIsHeld
  <2>3. k # 1
    BY <1>2, <2>1, <2>2
  <2>4. k - 1 \in 1 .. Len(jobs'[w]) /\ (k - 1) + 1 = k
    BY <1>1, <2>3
  <2>5. jobs'[w][k - 1] = jobs[w][k]
    BY <1>1, <2>4
  <2>. QED
    BY <2>2, <2>4, <2>5
<1>7. Unfailed'
  BY <1>2, <1>4 DEF QueueInOrder, Unfailed
<1>8. ASSUME NEW p \in 1 .. Len(arrived), NEW q \in 1 .. Len(arrived), p < q, arrived[q] = f
      PROVE  status[arrived[p]] = "succeeded"
  <2>1. status[arrived[p]] # "pending"
    BY <1>2, <1>8 DEF QueueInOrder, Suffix
  <2>2. status[arrived[p]] # "failed" /\ status[arrived[p]] # "none"
    BY <1>typ DEF QueueInOrder, Unfailed
  <2>3. ASSUME status[arrived[p]] = "processing" PROVE FALSE
    <3>1. PICK k \in 1 .. Len(jobs[w]) : jobs[w][k].event = arrived[p]
      BY <1>3, <1>typ, <2>3 DEF QueueInOrder, ProcessingIsHeld
    <3>2. CASE k = 1
      <4>1. p = q
        BY <1>2, <1>8, <3>1, <3>2, <1>typ DEF StoredOnce
      <4>. QED
        BY <1>8, <4>1
    <3>3. CASE k # 1
      <4>1. 1 < k
        BY <3>3
      <4>2. q < p
        BY <1>2, <1>8, <3>1, <4>1 DEF QueueInOrder, BatchInOrder
      <4>. QED
        BY <1>8, <4>2
    <3>. QED
      BY <3>2, <3>3
  <2>4. status[arrived[p]] \in Status
    BY <1>typ
  <2>. QED
    BY <2>1, <2>2, <2>3, <2>4 DEF Status
<1>9. Suffix'
  BY <1>2, <1>4, <1>8, <1>typ, <1>frm DEF QueueInOrder, Suffix
<1>10. Turns'
  <2>. SUFFICES ASSUME NEW p \in 1 .. Len(arrived), NEW q \in 1 .. Len(arrived), p < q,
                       status'[arrived[q]] = "succeeded"
                PROVE  status'[arrived[p]] = "succeeded" \/ q <= aged
    BY <1>frm DEF Turns
  <2>1. status[arrived[p]] = "succeeded" \/ q <= aged
    BY <1>4, <1>8, <1>typ DEF QueueInOrder, Turns
  <2>. QED
    BY <1>4, <1>typ, <2>1
<1>. QED
  BY <1>5, <1>6, <1>7, <1>9, <1>10 DEF QueueInOrder

(* A new event is the last one, and pending.                               *)
LEMMA OrderAccept ==
    ASSUME Alone, Inv, HeldInProcessing, QueueInOrder, NEW e \in Event, Accept(e)
    PROVE  QueueInOrder'
<1>typ. /\ QueueTypeOK /\ StoredOnce /\ arrived \in Seq(Event) /\ Len(arrived) \in Nat
        /\ status \in [Event -> Status] /\ body \in [Event -> BOOLEAN]
        /\ jobs \in [Worker -> Seq(Job)]
  BY DEF Inv, TypeOK, QueueTypeOK
<1>frm. UNCHANGED <<jobs, aged>> /\ EnqueueEvent(e)
  BY DEF Accept, EnqueueEvent, storeVars
<1>1. CASE status[e] # "none"
  BY <1>1, <1>frm
     DEF EnqueueEvent, QueueInOrder, BatchInOrder, ProcessingIsHeld, Unfailed, Suffix, Turns
<1>2. CASE status[e] = "none"
  <2>1. /\ arrived' = Append(arrived, e)
        /\ status'[e] = "pending" /\ body'[e] = TRUE
        /\ \A f \in Event \ {e} : status'[f] = status[f] /\ (body[f] = TRUE => body'[f] = TRUE)
    BY <1>2, <1>frm, <1>typ DEF EnqueueEvent
  <2>2. /\ Len(arrived') = Len(arrived) + 1 /\ arrived'[Len(arrived) + 1] = e
        /\ \A p \in 1 .. Len(arrived) : /\ arrived'[p] = arrived[p] /\ arrived[p] \in Event
                                        /\ arrived[p] # e
    BY <1>2, <1>typ, <2>1, AppendProperties DEF StoredOnce
  <2>3. \A p \in 1 .. Len(arrived') : p \in 1 .. Len(arrived) \/ p = Len(arrived) + 1
    BY <1>typ, <2>2
  <2>4. \A v \in Worker : \A k \in 1 .. Len(jobs[v]) :
           jobs[v][k].event \in Event /\ jobs[v][k].event # e
    BY <1>2, <1>typ, JobAt DEF HeldInProcessing
  <2>5. BatchInOrder'
    <3>1. ASSUME NEW v \in Worker, NEW k \in 1 .. Len(jobs[v]), NEW n \in 1 .. Len(jobs[v]),
                 NEW p \in 1 .. Len(arrived'), NEW q \in 1 .. Len(arrived'), k < n,
                 arrived'[p] = jobs[v][k].event, arrived'[q] = jobs[v][n].event
          PROVE  p < q
      <4>1. p \in 1 .. Len(arrived) /\ q \in 1 .. Len(arrived)
        BY <2>2, <2>3, <2>4, <3>1
      <4>. QED
        BY <2>2, <3>1, <4>1 DEF QueueInOrder, BatchInOrder
    <3>2. \A v \in Worker : \A k \in 1 .. Len(jobs[v]) : jobs[v][k].body = TRUE
      BY DEF QueueInOrder, BatchInOrder
    <3>. QED
      BY <1>frm, <3>1, <3>2 DEF BatchInOrder
  <2>6. ProcessingIsHeld'
    BY <1>frm, <2>1 DEF QueueInOrder, ProcessingIsHeld
  <2>7. Unfailed'
    BY <2>1 DEF QueueInOrder, Unfailed
  <2>8. ASSUME NEW p \in 1 .. Len(arrived'), NEW q \in 1 .. Len(arrived'), p < q
        PROVE  /\ status'[arrived'[p]] = "pending" => status'[arrived'[q]] = "pending"
               /\ status'[arrived'[q]] = "succeeded" =>
                    status'[arrived'[p]] = "succeeded" \/ q <= aged
    <3>1. p \in 1 .. Len(arrived)
      BY <1>typ, <2>2, <2>8
    <3>2. CASE q = Len(arrived) + 1
      BY <2>1, <2>2, <3>2
    <3>3. CASE q \in 1 .. Len(arrived)
      <4>1. /\ status'[arrived'[p]] = status[arrived[p]] /\ status'[arrived'[q]] = status[arrived[q]]
        BY <2>1, <2>2, <3>1, <3>3
      <4>2. /\ status[arrived[p]] = "pending" => status[arrived[q]] = "pending"
            /\ status[arrived[q]] = "succeeded" => status[arrived[p]] = "succeeded" \/ q <= aged
        BY <2>8, <3>1, <3>3 DEF QueueInOrder, Suffix, Turns
      <4>. QED
        BY <4>1, <4>2
    <3>. QED
      BY <2>3, <3>2, <3>3
  <2>9. Suffix' /\ Turns'
    BY <1>frm, <2>8 DEF Suffix, Turns
  <2>. QED
    BY <2>5, <2>6, <2>7, <2>9 DEF QueueInOrder
<1>. QED
  BY <1>1, <1>2

(* Retention ends what it finds old enough: what is pending after it       *)
(* arrived later.                                                          *)
LEMMA OrderPurge ==
    ASSUME Alone, Inv, QueueInOrder, Purge
    PROVE  QueueInOrder'
<1>typ. /\ StoredOnce /\ status \in [Event -> Status] /\ body \in [Event -> BOOLEAN]
        /\ aged \in Nat /\ aged <= Len(arrived) /\ Len(arrived) \in Nat
        /\ \A p \in 1 .. Len(arrived) : arrived[p] \in Event /\ status[arrived[p]] # "none"
  <2>1. /\ StoredOnce /\ status \in [Event -> Status] /\ body \in [Event -> BOOLEAN]
        /\ aged \in 0 .. Len(arrived) /\ arrived \in Seq(Event)
    BY DEF Inv, TypeOK, QueueTypeOK
  <2>. QED
    BY <2>1 DEF StoredOnce
<1>. DEFINE E == {e \in Event : body[e] /\ status[e] # "processing"
                                /\ \E k \in 1 .. aged : arrived[k] = e}
<1>1. /\ UNCHANGED <<arrived, jobs, aged>>
      /\ status' = [e \in Event |-> IF e \in E THEN "succeeded" ELSE status[e]]
  BY DEF Purge, PurgeEvents
<1>2. /\ \A e \in E : e \in Event /\ status[e] # "processing" /\ \E k \in 1 .. aged : arrived[k] = e
      /\ \A k \in 1 .. aged :
            arrived[k] \in Event /\ body[arrived[k]] = TRUE /\ status[arrived[k]] # "processing"
               => arrived[k] \in E
  OBVIOUS
<1>3. \A e \in Event : body'[e] = TRUE <=> body[e] = TRUE /\ e \notin E
  BY <1>typ DEF Purge, PurgeEvents
<1>. HIDE DEF E
<1>4. \A e \in Event : /\ e \in E => status'[e] = "succeeded"
                       /\ e \notin E => status'[e] = status[e]
  BY <1>1
<1>5. BatchInOrder' /\ ProcessingIsHeld' /\ Unfailed'
  <2>1. BatchInOrder'
    BY <1>1 DEF QueueInOrder, BatchInOrder
  <2>2. ProcessingIsHeld'
    BY <1>1, <1>4 DEF QueueInOrder, ProcessingIsHeld
  <2>3. Unfailed'
    BY <1>3, <1>4 DEF QueueInOrder, Unfailed
  <2>. QED
    BY <2>1, <2>2, <2>3
<1>6. ASSUME NEW p \in 1 .. Len(arrived), arrived[p] \in E
      PROVE  p <= aged
  <2>1. PICK k \in 1 .. aged : arrived[k] = arrived[p]
    BY <1>2, <1>6
  <2>2. k \in 1 .. Len(arrived)
    BY <1>typ
  <2>3. k = p
    BY <2>1, <2>2, <1>typ DEF StoredOnce
  <2>. QED
    BY <1>typ, <2>3
<1>7. ASSUME NEW p \in 1 .. Len(arrived), status'[arrived[p]] = "pending"
      PROVE  status[arrived[p]] = "pending" /\ aged < p
  <2>1. status[arrived[p]] = "pending" /\ arrived[p] \notin E
    BY <1>4, <1>7, <1>typ
  <2>2. body[arrived[p]] = TRUE
    BY <2>1, <1>typ DEF QueueInOrder, Unfailed
  <2>3. p \notin 1 .. aged
    BY <1>2, <1>typ, <2>1, <2>2
  <2>. QED
    BY <1>typ, <2>1, <2>3
<1>8. ASSUME NEW p \in 1 .. Len(arrived), NEW q \in 1 .. Len(arrived), p < q
      PROVE  /\ status'[arrived[p]] = "pending" => status'[arrived[q]] = "pending"
             /\ status'[arrived[q]] = "succeeded" => status'[arrived[p]] = "succeeded" \/ q <= aged
  <2>1. ASSUME status'[arrived[p]] = "pending"
        PROVE  status'[arrived[q]] = "pending"
    <3>1. status[arrived[p]] = "pending" /\ aged < q
      BY <1>7, <1>8, <2>1, <1>typ
    <3>2. arrived[q] \notin E
      BY <1>6, <1>typ, <3>1
    <3>3. status[arrived[q]] = "pending"
      BY <1>8, <3>1 DEF QueueInOrder, Suffix
    <3>. QED
      BY <1>4, <1>typ, <3>2, <3>3
  <2>2. ASSUME status'[arrived[q]] = "succeeded"
        PROVE  status'[arrived[p]] = "succeeded" \/ q <= aged
    <3>1. CASE arrived[q] \in E
      BY <1>6, <3>1
    <3>2. CASE arrived[q] \notin E
      <4>1. status[arrived[q]] = "succeeded"
        BY <1>4, <1>typ, <2>2, <3>2
      <4>2. status[arrived[p]] = "succeeded" \/ q <= aged
        BY <1>8, <4>1 DEF QueueInOrder, Turns
      <4>. QED
        BY <1>4, <1>typ, <4>2
    <3>. QED
      BY <3>1, <3>2
  <2>. QED
    BY <2>1, <2>2
<1>9. Suffix' /\ Turns'
  BY <1>1, <1>8 DEF Suffix, Turns
<1>. QED
  BY <1>5, <1>9 DEF QueueInOrder

(* Without failures the queue stays in order.                              *)
LEMMA OrderNext ==
    ASSUME Alone, Inv, HeldInProcessing, QueueInOrder, Next, faults' = 0
    PROVE  QueueInOrder'
<1>typ. faults \in Nat /\ aged \in Nat
  BY EventQueueAssumption DEF Inv, TypeOK, QueueTypeOK
<1>1. CASE UNCHANGED <<arrived, status, body, jobs>>
  <2>1. aged' \in Nat /\ aged <= aged'
    BY <1>typ, ArrivalsStay
  <2>2. Turns'
    <3>1. ASSUME NEW p \in 1 .. Len(arrived), NEW q \in 1 .. Len(arrived), p < q,
                 status[arrived[q]] = "succeeded"
          PROVE  status[arrived[p]] = "succeeded" \/ q <= aged'
      <4>1. status[arrived[p]] = "succeeded" \/ q <= aged
        BY <3>1 DEF QueueInOrder, Turns
      <4>. QED
        BY <1>typ, <2>1, <4>1
    <3>. QED
      BY <1>1, <3>1 DEF Turns
  <2>3. BatchInOrder' /\ ProcessingIsHeld' /\ Unfailed' /\ Suffix'
    BY <1>1 DEF QueueInOrder, BatchInOrder, ProcessingIsHeld, Unfailed, Suffix
  <2>. QED
    BY <2>2, <2>3 DEF QueueInOrder
<1>2. ASSUME NEW w \in Worker, Failure(w)
      PROVE  FALSE
  <2>1. faults' = faults + 1
    BY <1>2 DEF Failure, HandlerFails, RetryEvent, Abandon, AbandonBatch, Restart, RestartQueue,
                Fault
  <2>. QED
    BY <1>typ, <2>1
<1>. QED
  BY ZenonT(30), <1>1, <1>2, OrderClaim, OrderFinish, OrderAccept, OrderPurge, QueueSteps

LEMMA FaultsStay ==
    ASSUME Next
    PROVE  faults' = faults \/ faults' = faults + 1
<1>. USE DEF queueVars
<1>1. ASSUME NEW w \in Worker, Progress(w)
      PROVE  faults' = faults
  <2>1. CASE Claim(w) \/ Finish(w)
    BY <2>1 DEF Claim, ClaimEvents, Take, Finish, FinishEvent
  <2>2. CASE SkipEmpty(w) \/ Quarantine(w) \/ ConfirmChat(w)
    BY <2>2 DEF SkipEmpty, Quarantine, ConfirmChat
  <2>3. ASSUME NEW n \in Message,
               \/ GetChat(w, n) \/ ResolveChat(w, n) \/ FindDirect(w, n) \/ FindAll(w, n)
               \/ SaveTargets(w, n) \/ RecallMessage(w, n)
        PROVE  faults' = faults
    BY <2>3 DEF GetChat, ResolveChat, FindDirect, FindAll, SaveTargets, RecallMessage
  <2>. QED
    BY ZenonT(30), <1>1, <2>1, <2>2, <2>3 DEF Progress, Handler
<1>2. ASSUME NEW w \in Worker, Failure(w)
      PROVE  faults' = faults + 1
  BY <1>2 DEF Failure, HandlerFails, Abandon, Restart, RetryEvent, AbandonBatch, RestartQueue, Fault
<1>3. CASE Environment
  BY <1>3 DEF Environment, Accept, EnqueueEvent, Edit, Toggle, Age, WriteChat,
              ListUserChats, MarkChat, ListBotChats
<1>4. CASE Purge
  BY <1>4 DEF Purge, PurgeEvents
<1>. QED
  BY ZenonT(30), <1>1, <1>2, <1>3, <1>4 DEF Next

-----------------------------------------------------------------------------
(* A recall that is done. *)

(* The recall of m arrived after m. *)
Follows(m) == \E p, q \in 1 .. Len(arrived) :
                  p < q /\ arrived[p] = Receive(m) /\ arrived[q] = Recalled(m)

(* The recall of m has been handled, or is about to be finished.           *)
RecallRan(m) == \/ status[Recalled(m)] = "succeeded"
                \/ \E w \in Worker : /\ jobs[w] # <<>> /\ Head(jobs[w]).event = Recalled(m)
                                     /\ step[w] = "finish"

RecallDone == \A m \in Message \ Expired : Follows(m) /\ RecallRan(m) => source[m] # "kept"

LEMMA FollowsBefore ==
    ASSUME Inv, Next, NEW m \in Message, Follows(m)', status[Recalled(m)] # "none"
    PROVE  Follows(m)
<1>typ. arrived \in Seq(Event) /\ StoredOnce /\ StoredOnce'
  BY NextOK DEF Inv, TypeOK, QueueTypeOK
<1>1. CASE arrived' = arrived
  BY <1>1 DEF Follows
<1>2. ASSUME NEW e \in Event, arrived' = Append(arrived, e)
      PROVE  Follows(m)
  <2>1. /\ Len(arrived) \in Nat /\ Len(arrived') = Len(arrived) + 1
        /\ \A k \in 1 .. Len(arrived) : arrived'[k] = arrived[k]
    BY <1>2, <1>typ, AppendProperties
  <2>2. PICK p \in 1 .. Len(arrived'), q \in 1 .. Len(arrived') :
             p < q /\ arrived'[p] = Receive(m) /\ arrived'[q] = Recalled(m)
    BY DEF Follows
  <2>3. PICK k \in 1 .. Len(arrived) : arrived[k] = Recalled(m)
    BY <1>typ, EventsOfMessages DEF StoredOnce
  <2>4. k \in 1 .. Len(arrived') /\ arrived'[k] = arrived'[q]
    BY <2>1, <2>2, <2>3
  <2>5. k = q
    BY <1>typ, <2>4 DEF StoredOnce
  <2>6. p \in 1 .. Len(arrived) /\ q \in 1 .. Len(arrived)
    BY <2>1, <2>2, <2>5
  <2>. QED
    BY <2>1, <2>2, <2>6 DEF Follows
<1>. QED
  BY <1>1, <1>2, ArrivalsStay

(* Only save_message_targets stores the text of a message. *)
LEMMA SavedBy ==
    ASSUME Inv, Next, NEW m \in Message, source[m] # "kept", source'[m] = "kept"
    PROVE  \E w \in Worker : SaveTargets(w, m)
<1>. USE DEF storeVars, workerVars
<1>1. ASSUME NEW w \in Worker, NEW n \in Message, SaveTargets(w, n)
      PROVE  n = m
  BY <1>1 DEF SaveTargets
<1>2. ASSUME NEW w \in Worker, NEW n \in Message,
             \/ GetChat(w, n) \/ ResolveChat(w, n) \/ FindDirect(w, n) \/ FindAll(w, n)
      PROVE  FALSE
  BY <1>2 DEF GetChat, ResolveChat, FindDirect, FindAll
<1>3. ASSUME NEW w \in Worker, NEW n \in Message, RecallMessage(w, n)
      PROVE  FALSE
  BY <1>3 DEF RecallMessage, Inv, TypeOK
<1>4. ASSUME NEW w \in Worker, SkipEmpty(w) \/ Quarantine(w) \/ ConfirmChat(w)
      PROVE  FALSE
  BY <1>4 DEF SkipEmpty, Quarantine, ConfirmChat
<1>5. ASSUME NEW w \in Worker, Claim(w) \/ Finish(w) \/ Failure(w)
      PROVE  FALSE
  BY <1>5 DEF Claim, Finish, Failure, HandlerFails, Abandon, Restart
<1>6. CASE Purge
  BY <1>6 DEF Purge
<1>7. CASE Environment
  BY <1>7 DEF Environment, Accept, Edit, Toggle, Age, WriteChat, ListUserChats,
              MarkChat, ListBotChats
<1>. QED
  BY ZenonT(30), <1>1, <1>2, <1>3, <1>4, <1>5, <1>6, <1>7 DEF Next, Progress, Handler

(* Once the recall has run, its message is over, too, or past retention,   *)
(* and nobody is left to store it.                                         *)
LEMMA StaysRecalled ==
    ASSUME Alone, Inv, HeldInProcessing, QueueInOrder, Next,
           NEW m \in Message \ Expired, Follows(m), RecallRan(m), source[m] # "kept"
    PROVE  source'[m] # "kept"
<1>typ. jobs \in [Worker -> Seq(Job)] /\ arrived \in Seq(Event) /\ aged \in Nat
        /\ Len(arrived) \in Nat
  BY DEF Inv, TypeOK, QueueTypeOK
<1>. SUFFICES ASSUME source'[m] = "kept" PROVE FALSE
  OBVIOUS
<1>1. PICK w \in Worker : SaveTargets(w, m)
  BY SavedBy
<1>2. jobs[w] # <<>> /\ Head(jobs[w]).event = Receive(m) /\ step[w] = "save"
  BY <1>1 DEF SaveTargets, Handling
<1>3. status[Receive(m)] = "processing"
  <2>1. 1 \in 1 .. Len(jobs[w]) /\ Head(jobs[w]) = jobs[w][1]
    BY <1>2, <1>typ
  <2>. QED
    BY <1>2, <2>1 DEF HeldInProcessing
<1>4. status[Recalled(m)] = "succeeded"
  BY <1>2 DEF RecallRan, Alone
<1>5. PICK p \in 1 .. Len(arrived), q \in 1 .. Len(arrived) :
           p < q /\ arrived[p] = Receive(m) /\ arrived[q] = Recalled(m)
  BY DEF Follows
<1>6. q <= aged
  BY <1>3, <1>4, <1>5 DEF QueueInOrder, Turns
<1>7. p \in 1 .. aged
  BY <1>5, <1>6, <1>typ
<1>. QED
  BY <1>5, <1>7 DEF Expired

(* A recall is over because it has been handled, or because of retention.  *)
LEMMA RecallEnds ==
    ASSUME Inv, Next, NEW m \in Message \ Expired, Follows(m)',
           status'[Recalled(m)] = "succeeded"
    PROVE  Follows(m) /\ RecallRan(m) /\ (status[Recalled(m)] # "succeeded" => source' = source)
<1>. DEFINE e == Recalled(m)
<1>typ. /\ QueueTypeOK /\ StoredOnce /\ e \in Event /\ aged \in Nat /\ aged <= Len(arrived)
        /\ Len(arrived) \in Nat
  <2>1. QueueTypeOK /\ StoredOnce /\ aged \in 0 .. Len(arrived)
    BY DEF Inv, TypeOK
  <2>. QED
    BY <2>1, EventsOfMessages DEF QueueTypeOK
<1>. SUFFICES ASSUME status[e] # "succeeded"
              PROVE  Follows(m) /\ RecallRan(m) /\ source' = source
  BY FollowsBefore DEF RecallRan
<1>. HIDE DEF e
<1>1. ASSUME NEW w \in Worker, Finish(w)
      PROVE  Follows(m) /\ RecallRan(m) /\ source' = source
  <2>0. Follows(m)
    BY <1>1 DEF Finish, FinishEvent, Follows
  <2>1. jobs[w] # <<>> /\ step[w] = "finish" /\ source' = source
        /\ status' = [status EXCEPT ![Head(jobs[w]).event] = "succeeded"]
    BY <1>1 DEF Finish, FinishEvent, storeVars
  <2>2. Head(jobs[w]).event = e
    BY <2>1, <1>typ DEF QueueTypeOK, e
  <2>. QED
    BY <2>0, <2>1, <2>2 DEF RecallRan, e
<1>2. ASSUME NEW w \in Worker, Claim(w)
      PROVE  FALSE
  <2>1. PICK S : Take(w, S)
    BY <1>2 DEF Claim, ClaimEvents
  <2>2. PICK n \in 1 .. Limit : \E pos \in [1 .. n -> 1 .. Len(arrived)] :
           status' = [f \in Event |->
                IF \E k \in 1 .. n : arrived[pos[k]] = f THEN "processing" ELSE status[f]]
    BY <2>1 DEF Take
  <2>. QED
    BY <2>2, <1>typ DEF e
<1>3. ASSUME NEW w \in Worker, Failure(w)
      PROVE  FALSE
  BY <1>3, <1>typ DEF Failure, HandlerFails, RetryEvent, Abandon, AbandonBatch, Restart,
                      RestartQueue, QueueTypeOK, e
<1>4. ASSUME NEW f \in Event, Accept(f)
      PROVE  FALSE
  BY <1>4, <1>typ DEF Accept, EnqueueEvent, QueueTypeOK, e
<1>5. CASE Purge
  <2>1. PICK k \in 1 .. aged : arrived[k] = e
    BY <1>5, <1>typ DEF Purge, PurgeEvents, e
  <2>2. PICK p \in 1 .. Len(arrived), q \in 1 .. Len(arrived) :
             p < q /\ arrived[p] = Receive(m) /\ arrived[q] = e
    BY <1>5 DEF Follows, Purge, PurgeEvents, e
  <2>3. k \in 1 .. Len(arrived)
    BY <1>typ
  <2>4. k = q
    BY <1>typ, <2>1, <2>2, <2>3 DEF StoredOnce
  <2>5. p \in 1 .. aged
    BY <1>typ, <2>2, <2>4
  <2>. QED
    BY <2>2, <2>5 DEF Expired
<1>6. CASE UNCHANGED <<arrived, status, body, jobs>>
  BY <1>6 DEF e
<1>. QED
  BY ZenonT(30), <1>1, <1>2, <1>3, <1>4, <1>5, <1>6, QueueSteps

(* What brings a worker to the end of a recall is recall_message.          *)
LEMMA RecallRuns ==
    ASSUME Alone, Inv, QueueInOrder, Next, faults' = 0, NEW m \in Message, NEW w \in Worker,
           jobs'[w] # <<>>, Head(jobs'[w]).event = Recalled(m), step'[w] = "finish"
    PROVE  /\ jobs[w] # <<>> /\ Head(jobs[w]).event = Recalled(m)
           /\ step[w] = "finish" \/ RecallMessage(w, m)
<1>typ. /\ faults \in Nat /\ step \in [Worker -> Step] /\ jobs \in [Worker -> Seq(Job)]
        /\ \A v \in Worker : v = w
  BY EventQueueAssumption DEF Inv, TypeOK, QueueTypeOK, Alone
<1>. USE DEF queueVars, storeVars, workerVars
<1>1. CASE UNCHANGED <<jobs, step>>
  BY <1>1
<1>2. ASSUME NEW v \in Worker, Claim(v)
      PROVE  FALSE
  <2>1. jobs[w] = <<>> /\ step'[w] = step[w]
    BY <1>2, <1>typ DEF Claim, ClaimEvents, Take
  <2>. QED
    BY <2>1 DEF Inv, IdleStart
<1>3. ASSUME NEW v \in Worker, Finish(v)
      PROVE  FALSE
  BY <1>3, <1>typ DEF Finish, NextJob, Goto
<1>4. ASSUME NEW v \in Worker, Failure(v)
      PROVE  FALSE
  <2>1. faults' = faults + 1
    BY <1>4 DEF Failure, HandlerFails, RetryEvent, Abandon, AbandonBatch, Restart, RestartQueue,
                Fault
  <2>. QED
    BY <1>typ, <2>1
<1>5. ASSUME NEW v \in Worker, SkipEmpty(v)
      PROVE  FALSE
  <2>1. /\ jobs[w] # <<>> /\ Head(jobs[w]).body # TRUE
    BY <1>5, <1>typ DEF SkipEmpty
  <2>2. 1 \in 1 .. Len(jobs[w]) /\ Head(jobs[w]) = jobs[w][1]
    BY <2>1, <1>typ
  <2>. QED
    BY <2>1, <2>2 DEF QueueInOrder, BatchInOrder
<1>6. ASSUME NEW v \in Worker, Quarantine(v) \/ ConfirmChat(v)
      PROVE  FALSE
  <2>1. jobs' = jobs /\ Head(jobs[w]).event = BotAdded
    BY <1>6, <1>typ DEF Quarantine, ConfirmChat, Handling
  <2>. QED
    BY <2>1 DEF BotAdded, Recalled
<1>7. ASSUME NEW v \in Worker, NEW n \in Message,
             \/ GetChat(v, n) \/ ResolveChat(v, n) \/ FindDirect(v, n) \/ FindAll(v, n)
             \/ SaveTargets(v, n)
      PROVE  FALSE
  <2>1. jobs' = jobs /\ Head(jobs[w]).event = Receive(n)
    BY <1>7, <1>typ DEF GetChat, ResolveChat, FindDirect, FindAll, SaveTargets, Handling
  <2>. QED
    BY <2>1, EventsDiffer
<1>8. ASSUME NEW v \in Worker, NEW n \in Message, RecallMessage(v, n)
      PROVE  /\ jobs[w] # <<>> /\ Head(jobs[w]).event = Recalled(m)
             /\ RecallMessage(w, m)
  <2>1. jobs' = jobs /\ jobs[w] # <<>> /\ Head(jobs[w]).event = Recalled(n) /\ v = w
    BY <1>8, <1>typ DEF RecallMessage, Handling
  <2>2. n = m
    BY <2>1 DEF Recalled
  <2>. QED
    BY <1>8, <2>1, <2>2
<1>9. CASE Environment
  BY <1>1, <1>9 DEF Environment, Accept, EnqueueEvent, Edit, Toggle, Age, WriteChat,
              ListUserChats, MarkChat, ListBotChats
<1>10. CASE Purge
  BY <1>1, <1>10 DEF Purge, PurgeEvents
<1>. QED
  BY ZenonT(30), <1>2, <1>3, <1>4, <1>5, <1>6, <1>7, <1>8, <1>9, <1>10
     DEF Next, Progress, Handler

LEMMA RecallNext ==
    ASSUME Alone, Inv, HeldInProcessing, QueueInOrder, RecallDone, Next, faults' = 0
    PROVE  RecallDone'
<1>. SUFFICES ASSUME NEW m \in Message, m \notin Expired', Follows(m)', RecallRan(m)'
              PROVE  source'[m] # "kept"
  BY DEF RecallDone
<1>1. m \notin Expired
  BY ExpiredStays
<1>2. ASSUME Follows(m), RecallRan(m)
      PROVE  source'[m] # "kept"
  BY <1>1, <1>2, StaysRecalled DEF RecallDone
<1>3. CASE status'[Recalled(m)] = "succeeded"
  BY <1>1, <1>2, <1>3, RecallEnds
<1>4. ASSUME NEW w \in Worker, jobs'[w] # <<>>, Head(jobs'[w]).event = Recalled(m),
             step'[w] = "finish"
      PROVE  source'[m] # "kept"
  <2>1. /\ jobs[w] # <<>> /\ Head(jobs[w]).event = Recalled(m)
        /\ step[w] = "finish" \/ RecallMessage(w, m)
    BY <1>4, RecallRuns
  <2>2. Head(jobs[w]) \in Held(w)
    BY <2>1, HeadHeld DEF Inv, TypeOK, QueueTypeOK
  <2>3. status[Recalled(m)] # "none"
    BY <2>1, <2>2 DEF Inv, JobsKnown
  <2>4. Follows(m)
    BY <2>3, FollowsBefore
  <2>5. CASE step[w] = "finish"
    BY <1>2, <2>1, <2>4, <2>5 DEF RecallRan
  <2>6. CASE RecallMessage(w, m)
    BY <2>6 DEF RecallMessage, Inv, TypeOK
  <2>. QED
    BY <2>1, <2>5, <2>6
<1>. QED
  BY <1>3, <1>4 DEF RecallRan

(* As long as nothing has failed, a single worker handles a message before *)
(* its recall, over any number of batches and beside retention, so that no *)
(* text is kept after a recall that arrived after its message.             *)
THEOREM RecallsInOrder ==
    ASSUME Alone
    PROVE  Spec => []RecallInOrder
<1>. DEFINE Smooth == faults = 0 => QueueInOrder /\ RecallDone
            I      == HeldInProcessing /\ Smooth
<1>1. Init => I
  <2>. SUFFICES ASSUME Init PROVE I
    OBVIOUS
  <2>1. /\ arrived = <<>> /\ \A w \in Worker : jobs[w] = <<>>
        /\ \A e \in Event : status[e] = "none"
    BY DEF Init, QueueInit
  <2>2. (\A w \in Worker : 1 .. Len(jobs[w]) = {}) /\ 1 .. Len(arrived) = {}
    BY <2>1
  <2>3. HeldInProcessing /\ BatchInOrder
    BY <2>2 DEF HeldInProcessing, BatchInOrder
  <2>4. ProcessingIsHeld /\ Unfailed
    BY <2>1 DEF ProcessingIsHeld, Unfailed
  <2>5. Suffix /\ Turns /\ RecallDone
    BY <2>2 DEF Suffix, Turns, RecallDone, Follows
  <2>. QED
    BY <2>3, <2>4, <2>5 DEF QueueInOrder
<1>2. Inv /\ I /\ [Next]_vars => I'
  <2>. SUFFICES ASSUME Inv, I, [Next]_vars
                PROVE  I'
    OBVIOUS
  <2>1. CASE UNCHANGED vars
    <3>0. UNCHANGED <<arrived, status, body, jobs, faults, source, aged, step>>
      BY <2>1 DEF vars, queueVars, storeVars, workerVars
    <3>1. HeldInProcessing' /\ faults' = faults
      BY <3>0 DEF HeldInProcessing
    <3>2. QueueInOrder => QueueInOrder'
      <4>1. BatchInOrder => BatchInOrder'
        BY <3>0 DEF BatchInOrder
      <4>2. ProcessingIsHeld => ProcessingIsHeld'
        BY <3>0 DEF ProcessingIsHeld
      <4>3. (Unfailed => Unfailed') /\ (Suffix => Suffix')
        BY <3>0 DEF Unfailed, Suffix
      <4>4. Turns => Turns'
        BY <3>0 DEF Turns
      <4>. QED
        BY <4>1, <4>2, <4>3, <4>4 DEF QueueInOrder
    <3>3. RecallDone => RecallDone'
      <4>1. Expired' = Expired
        BY <3>0 DEF Expired
      <4>2. \A m \in Message : (Follows(m)' <=> Follows(m)) /\ (RecallRan(m)' <=> RecallRan(m))
        BY <3>0 DEF Follows, RecallRan
      <4>. QED
        BY <3>0, <4>1, <4>2 DEF RecallDone
    <3>. QED
      BY <3>1, <3>2, <3>3
  <2>2. CASE Next
    <3>1. faults \in Nat
      BY EventQueueAssumption DEF Inv, TypeOK, QueueTypeOK
    <3>2. faults' = 0 => faults = 0
      BY <2>2, <3>1, FaultsStay
    <3>. QED
      BY <2>2, <3>2, HeldNext, OrderNext, RecallNext
  <2>. QED
    BY <2>1, <2>2
<1>3. I => RecallInOrder
  <2>. SUFFICES ASSUME I, faults = 0, NEW m \in Message,
                       NEW p \in 1 .. Len(arrived), NEW q \in 1 .. Len(arrived),
                       p < q, arrived[p] = Receive(m), arrived[q] = Recalled(m),
                       status[Recalled(m)] = "succeeded", m \notin Expired
                PROVE  source[m] # "kept"
    BY DEF RecallInOrder
  <2>. QED
    BY DEF RecallDone, RecallRan, Follows
<1>. HIDE DEF I
<1>. QED
  BY <1>1, <1>2, <1>3, Inductive, PTL DEF Spec

=============================================================================
