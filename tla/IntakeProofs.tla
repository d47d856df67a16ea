---------------------------- MODULE IntakeProofs ----------------------------
(***************************************************************************)
(* Theorems about Intake, and with it EventQueue, for any messages, users, *)
(* workers, batches and bounds.                                            *)
(*                                                                         *)
(* What a worker holds may be out of date: its events may meanwhile have   *)
(* been finished, purged or taken over.  What stays true is that they have *)
(* arrived (JobsKnown), and, of a message whose payload a worker finds     *)
(* gone, that somebody has dealt with it (MentionInv).                     *)
(***************************************************************************)
EXTENDS Intake, SequenceTheorems, TLAPS

(* The jobs of the batch that w holds. *)
Held(w) == {jobs[w][k] : k \in 1 .. Len(jobs[w])}

JobsKnown == \A w \in Worker : \A j \in Held(w) : status[j.event] # "none"
IdleStart == \A w \in Worker : jobs[w] = <<>> => step[w] = "start"
Targets   == \A w \in Worker : step[w] = "save" => found[w] # {}

Inv == TypeOK /\ JobsKnown /\ IdleStart /\ Targets

LEMMA EventsOfMessages ==
    ASSUME NEW m \in Message
    PROVE  Receive(m) \in Event /\ Recalled(m) \in Event
  BY IntakeAssumption

LEMMA InitOK == Init => Inv
<1>. SUFFICES ASSUME Init PROVE Inv
  OBVIOUS
<1>1. QueueTypeOK /\ StoredOnce /\ JobsKnown /\ IdleStart /\ Targets
  BY EventQueueAssumption
     DEF Init, QueueInit, QueueTypeOK, StoredOnce, JobsKnown, IdleStart, Targets, Held, Status
<1>2. /\ source \in [Message -> SourceState]
      /\ item \in [Message -> [User -> ItemState]]
      /\ active \in SUBSET User /\ aged \in 0 .. Len(arrived)
      /\ step \in [Worker -> Step] /\ found \in [Worker -> SUBSET User]
  BY DEF Init, QueueInit, SourceState, ItemState, Step
<1>3. chat \in ChatState /\ marked \in BOOLEAN
  BY DEF Init, ChatState
<1>. QED
  BY <1>1, <1>2, <1>3 DEF Inv, TypeOK

-----------------------------------------------------------------------------
(* Batches. *)

LEMMA HeadHeld ==
    ASSUME jobs \in [Worker -> Seq(Job)], NEW w \in Worker, jobs[w] # <<>>
    PROVE  /\ Head(jobs[w]) \in Held(w)
           /\ Head(jobs[w]) \in Job
           /\ Head(jobs[w]).event \in Event
<1>1. jobs[w] \in Seq(Job)
  OBVIOUS
<1>2. 1 \in 1 .. Len(jobs[w]) /\ Head(jobs[w]) = jobs[w][1] /\ Head(jobs[w]) \in Job
  BY <1>1
<1>. QED
  BY <1>2 DEF Held, Job

LEMMA HeldJobs ==
    ASSUME jobs \in [Worker -> Seq(Job)], NEW w \in Worker, NEW j \in Held(w)
    PROVE  j \in Job /\ j.event \in Event
<1>1. jobs[w] \in Seq(Job)
  OBVIOUS
<1>2. PICK k \in 1 .. Len(jobs[w]) : j = jobs[w][k]
  BY DEF Held
<1>3. jobs[w][k] \in Job
  BY <1>1, ElementOfSeq
<1>. QED
  BY <1>2, <1>3 DEF Job

LEMMA HeldJobsNext ==
    ASSUME jobs' \in [Worker -> Seq(Job)], NEW w \in Worker, NEW j \in Held(w)'
    PROVE  j \in Job /\ j.event \in Event
<1>1. jobs'[w] \in Seq(Job)
  OBVIOUS
<1>2. PICK k \in 1 .. Len(jobs'[w]) : j = jobs'[w][k]
  BY DEF Held
<1>3. jobs'[w][k] \in Job
  BY <1>1, ElementOfSeq
<1>. QED
  BY <1>2, <1>3 DEF Job

(* The head of the batch is done with. *)
LEMMA Pops ==
    ASSUME jobs \in [Worker -> Seq(Job)], NEW w \in Worker, jobs[w] # <<>>,
           jobs' = [jobs EXCEPT ![w] = Tail(@)]
    PROVE  /\ jobs' \in [Worker -> Seq(Job)]
           /\ \A v \in Worker : Held(v)' \subseteq Held(v)
           /\ \A v \in Worker \ {w} : jobs'[v] = jobs[v]
<1>1. jobs[w] \in Seq(Job)
  OBVIOUS
<1>2. /\ Tail(jobs[w]) \in Seq(Job)
      /\ Len(Tail(jobs[w])) = Len(jobs[w]) - 1
      /\ \A k \in 1 .. Len(Tail(jobs[w])) : Tail(jobs[w])[k] = jobs[w][k + 1]
  BY <1>1
<1>3. jobs'[w] = Tail(jobs[w]) /\ \A v \in Worker \ {w} : jobs'[v] = jobs[v]
  OBVIOUS
<1>4. Held(w)' \subseteq Held(w)
  <2>. SUFFICES ASSUME NEW k \in 1 .. Len(jobs'[w]) PROVE jobs'[w][k] \in Held(w)
    BY DEF Held
  <2>1. k + 1 \in 1 .. Len(jobs[w]) /\ jobs'[w][k] = jobs[w][k + 1]
    BY <1>1, <1>2, <1>3
  <2>. QED
    BY <2>1 DEF Held
<1>5. \A v \in Worker \ {w} : Held(v)' = Held(v)
  BY <1>3 DEF Held
<1>. QED
  BY <1>2, <1>3, <1>4, <1>5

(* The batch is given up. *)
LEMMA Drops ==
    ASSUME jobs \in [Worker -> Seq(Job)], NEW w \in Worker,
           jobs' = [jobs EXCEPT ![w] = <<>>]
    PROVE  /\ jobs' \in [Worker -> Seq(Job)]
           /\ Held(w)' = {}
           /\ \A v \in Worker : Held(v)' \subseteq Held(v)
           /\ \A v \in Worker \ {w} : jobs'[v] = jobs[v]
<1>1. jobs'[w] = <<>> /\ \A v \in Worker \ {w} : jobs'[v] = jobs[v]
  OBVIOUS
<1>2. Held(w)' = {}
  BY <1>1 DEF Held
<1>3. \A v \in Worker \ {w} : Held(v)' = Held(v)
  BY <1>1 DEF Held
<1>. QED
  BY <1>1, <1>2, <1>3

(* What is claimed has arrived, and its payload is read with it. *)
LEMMA Claims ==
    ASSUME QueueTypeOK, StoredOnce, NEW w \in Worker, ClaimEvents(w)
    PROVE  /\ jobs[w] = <<>>
           /\ jobs' \in [Worker -> Seq(Job)]
           /\ \A j \in Held(w)' : status[j.event] # "none" /\ j.body = body[j.event]
           /\ \A v \in Worker \ {w} : jobs'[v] = jobs[v] /\ Held(v)' = Held(v)
           /\ status' \in [Event -> Status]
           /\ \A e \in Event : status'[e] = "none" <=> status[e] = "none"
           /\ \A e \in Event : status'[e] # status[e] => status'[e] = "processing"
           /\ UNCHANGED <<arrived, body, faults>>
<1>. USE EventQueueAssumption DEF QueueTypeOK
<1>1. PICK S : Take(w, S)
  BY DEF ClaimEvents
<1>2. PICK n \in 1 .. Limit : \E pos \in [1 .. n -> 1 .. Len(arrived)] :
         /\ Oldest(S, n, pos)
         /\ jobs' = [jobs EXCEPT ![w] =
              [k \in 1 .. n |-> [event |-> arrived[pos[k]], body |-> body[arrived[pos[k]]]]]]
         /\ status' = [e \in Event |->
              IF \E k \in 1 .. n : arrived[pos[k]] = e THEN "processing" ELSE status[e]]
  BY <1>1 DEF Take
<1>3. PICK pos \in [1 .. n -> 1 .. Len(arrived)] :
         /\ jobs' = [jobs EXCEPT ![w] =
              [k \in 1 .. n |-> [event |-> arrived[pos[k]], body |-> body[arrived[pos[k]]]]]]
         /\ status' = [e \in Event |->
              IF \E k \in 1 .. n : arrived[pos[k]] = e THEN "processing" ELSE status[e]]
  BY <1>2
<1>4. jobs[w] = <<>> /\ UNCHANGED <<arrived, body, faults>>
  BY <1>1 DEF Take
<1>. DEFINE batch == [k \in 1 .. n |-> [event |-> arrived[pos[k]], body |-> body[arrived[pos[k]]]]]
<1>5. \A k \in 1 .. n : arrived[pos[k]] \in Event /\ status[arrived[pos[k]]] # "none"
  BY DEF StoredOnce
<1>6. \A k \in 1 .. n : batch[k] \in Job
  BY <1>5 DEF Job
<1>7. batch \in Seq(Job) /\ Len(batch) = n
  <2>1. n \in Nat
    OBVIOUS
  <2>2. batch \in [1 .. n -> Job]
    BY <1>6
  <2>. HIDE DEF batch
  <2>3. batch \in Seq(Job)
    BY <2>1, <2>2, SeqDef
  <2>. QED
    BY <2>1, <2>2, <2>3, LenProperties
<1>8. jobs'[w] = batch
  BY <1>3
<1>9. jobs' \in [Worker -> Seq(Job)] /\ \A v \in Worker \ {w} : jobs'[v] = jobs[v]
  BY <1>3, <1>7
<1>10. \A j \in Held(w)' : status[j.event] # "none" /\ j.body = body[j.event]
  <2>. SUFFICES ASSUME NEW k \in 1 .. Len(jobs'[w])
                PROVE  status[jobs'[w][k].event] # "none" /\ jobs'[w][k].body = body[jobs'[w][k].event]
    BY DEF Held
  <2>1. k \in 1 .. n /\ jobs'[w][k] = batch[k]
    BY <1>7, <1>8
  <2>2. batch[k] = [event |-> arrived[pos[k]], body |-> body[arrived[pos[k]]]]
    BY <2>1
  <2>. HIDE DEF batch
  <2>. QED
    BY <1>5, <2>1, <2>2
<1>11. \A v \in Worker \ {w} : Held(v)' = Held(v)
  <2>. HIDE DEF batch
  <2>. QED
    BY <1>9 DEF Held
<1>12. status' \in [Event -> Status]
  BY <1>3 DEF Status
<1>13. \A e \in Event : /\ status'[e] = "none" <=> status[e] = "none"
                        /\ status'[e] # status[e] => status'[e] = "processing"
  BY <1>3, <1>5
<1>. QED
  BY <1>4, <1>8, <1>9, <1>10, <1>11, <1>12, <1>13

-----------------------------------------------------------------------------
(* The other writers of the chat's row leave everything else alone.        *)

LEMMA ChatWritten ==
    ASSUME Inv, WriteChat
    PROVE  /\ UNCHANGED <<queueVars, source, item, active, aged, workerVars>>
           /\ chat' \in ChatState /\ marked' \in BOOLEAN
           /\ chat' = chat \/ chat' \in Answers
           /\ ~Administered /\ ~marked => ~marked'
<1>1. Answers \subseteq ChatState
  BY IntakeAssumption DEF ChatState
<1>2. CASE ListUserChats
  BY <1>1, <1>2 DEF ListUserChats, Inv, TypeOK
<1>3. CASE MarkChat \/ ListBotChats
  BY <1>3 DEF MarkChat, ListBotChats, Inv, TypeOK
<1>. QED
  BY <1>2, <1>3 DEF WriteChat

-----------------------------------------------------------------------------
(* Types. *)

LEMMA SameQueue ==
    ASSUME Inv, UNCHANGED queueVars
    PROVE  QueueTypeOK' /\ StoredOnce' /\ JobsKnown' /\ aged \in 0 .. Len(arrived')
  BY DEF Inv, TypeOK, queueVars, QueueTypeOK, StoredOnce, JobsKnown, Held

(* A step of the handler of w that leaves the queue alone. *)
LEMMA Handles ==
    ASSUME Inv, NEW w \in Worker, jobs[w] # <<>>, UNCHANGED <<queueVars, aged, active>>,
           NEW s \in Step, Goto(w, s),
           source' \in [Message -> SourceState], item' \in [Message -> [User -> ItemState]],
           chat' \in ChatState, marked' \in BOOLEAN,
           found' \in [Worker -> SUBSET User], \A v \in Worker \ {w} : found'[v] = found[v],
           s = "save" => found'[w] # {}
    PROVE  Inv'
<1>1. QueueTypeOK' /\ StoredOnce' /\ JobsKnown' /\ aged' \in 0 .. Len(arrived')
  BY SameQueue
<1>2. /\ step' \in [Worker -> Step] /\ step'[w] = s
      /\ \A v \in Worker \ {w} : step'[v] = step[v]
  BY DEF Goto, Inv, TypeOK
<1>3. IdleStart'
  BY <1>2 DEF Inv, IdleStart, queueVars
<1>4. Targets'
  BY <1>2 DEF Inv, Targets
<1>. QED
  BY <1>1, <1>2, <1>3, <1>4 DEF Inv, TypeOK

LEMMA HandlerTypes ==
    ASSUME Inv, NEW w \in Worker, Handler(w)
    PROVE  Inv'
<1>. USE IntakeAssumption DEF SourceState, ItemState, ChatState
<1>0. /\ source \in [Message -> SourceState] /\ item \in [Message -> [User -> ItemState]]
      /\ chat \in ChatState /\ marked \in BOOLEAN /\ active \in SUBSET User /\ found \in [Worker -> SUBSET User]
      /\ \A v \in Worker : step[v] = "save" => found[v] # {}
      /\ \A v \in Worker : jobs[v] = <<>> => step[v] = "start"
  BY DEF Inv, TypeOK, Targets, IdleStart
<1>1. CASE SkipEmpty(w)
  BY <1>0, <1>1, Handles, "finish" \in Step DEF SkipEmpty, storeVars, Step
<1>2. CASE Quarantine(w)
  BY <1>0, <1>2, Handles, "confirm" \in Step DEF Quarantine, Handling, Step
<1>3. CASE ConfirmChat(w)
  BY <1>0, <1>3, Handles, "finish" \in Step DEF ConfirmChat, Handling, Step
<1>4. ASSUME NEW m \in Message, GetChat(w, m)
      PROVE  Inv'
  BY <1>0, <1>4, Handles, {"resolve", "finish", "direct"} \subseteq Step
     DEF GetChat, Handling, storeVars, Step
<1>5. ASSUME NEW m \in Message, ResolveChat(w, m)
      PROVE  Inv'
  BY <1>0, <1>5, Handles, {"finish", "direct"} \subseteq Step DEF ResolveChat, Handling, Step
<1>6. ASSUME NEW m \in Message, FindDirect(w, m)
      PROVE  Inv'
  BY <1>0, <1>6, Handles, {"finish", "all", "save"} \subseteq Step
     DEF FindDirect, Handling, Step, storeVars
<1>7. ASSUME NEW m \in Message, FindAll(w, m)
      PROVE  Inv'
  BY <1>0, <1>7, Handles, {"finish", "save"} \subseteq Step DEF FindAll, Handling, Step, storeVars
<1>8. ASSUME NEW m \in Message, SaveTargets(w, m)
      PROVE  Inv'
  BY <1>0, <1>8, Handles, "finish" \in Step DEF SaveTargets, Handling, Step
<1>9. ASSUME NEW m \in Message, RecallMessage(w, m)
      PROVE  Inv'
  <2>1. source' \in [Message -> SourceState]
    BY <1>0, <1>9 DEF RecallMessage
  <2>2. item' \in [Message -> [User -> ItemState]]
    BY <1>0, <1>9 DEF RecallMessage
  <2>. QED
    BY <1>0, <1>9, <2>1, <2>2, Handles, "finish" \in Step DEF RecallMessage, Handling, Step
<1>. QED
  BY ZenonT(30), <1>1, <1>2, <1>3, <1>4, <1>5, <1>6, <1>7, <1>8, <1>9 DEF Handler

(* A step that adds no event and hands out none. *)
LEMMA QueueKept ==
    ASSUME Inv,
           jobs' \in [Worker -> Seq(Job)], \A v \in Worker : Held(v)' \subseteq Held(v),
           status' \in [Event -> Status],
           \A e \in Event : status'[e] = "none" <=> status[e] = "none",
           body' \in [Event -> BOOLEAN], faults' \in 0 .. MaxFaults, UNCHANGED <<arrived, aged>>
    PROVE  QueueTypeOK' /\ StoredOnce' /\ JobsKnown' /\ aged' \in 0 .. Len(arrived')
<1>1. QueueTypeOK' /\ StoredOnce' /\ aged' \in 0 .. Len(arrived')
  BY DEF Inv, TypeOK, QueueTypeOK, StoredOnce
<1>2. JobsKnown'
  <2>. SUFFICES ASSUME NEW v \in Worker, NEW j \in Held(v)' PROVE status'[j.event] # "none"
    BY DEF JobsKnown
  <2>1. j \in Held(v)
    OBVIOUS
  <2>2. status[j.event] # "none" /\ j.event \in Event
    BY <2>1, HeldJobs DEF Inv, JobsKnown, TypeOK, QueueTypeOK
  <2>. QED
    BY <2>2
<1>. QED
  BY <1>1, <1>2

(* The worker w ends its job or its batch. *)
LEMMA WorkerFree ==
    ASSUME Inv, NEW w \in Worker, NextJob(w), UNCHANGED storeVars,
           \A v \in Worker \ {w} : jobs'[v] = jobs[v],
           QueueTypeOK', StoredOnce', JobsKnown', aged' \in 0 .. Len(arrived')
    PROVE  Inv'
<1>1. /\ step' \in [Worker -> Step] /\ step'[w] = "start"
      /\ \A v \in Worker \ {w} : step'[v] = step[v]
      /\ found' \in [Worker -> SUBSET User]
      /\ \A v \in Worker \ {w} : found'[v] = found[v]
  BY DEF NextJob, Goto, Inv, TypeOK, Step
<1>2. IdleStart'
  BY <1>1 DEF Inv, IdleStart
<1>3. Targets'
  BY <1>1 DEF Inv, Targets
<1>. QED
  BY <1>1, <1>2, <1>3 DEF Inv, TypeOK, storeVars

LEMMA FinishTypes ==
    ASSUME Inv, NEW w \in Worker, Finish(w)
    PROVE  Inv'
<1>. USE DEF Finish, FinishEvent
<1>0. QueueTypeOK
  BY DEF Inv, TypeOK
<1>1. Head(jobs[w]).event \in Event /\ Head(jobs[w]) \in Held(w)
  BY <1>0, HeadHeld DEF QueueTypeOK
<1>2. status[Head(jobs[w]).event] # "none"
  BY <1>1 DEF Inv, JobsKnown
<1>3. /\ jobs' \in [Worker -> Seq(Job)]
      /\ \A v \in Worker : Held(v)' \subseteq Held(v)
      /\ \A v \in Worker \ {w} : jobs'[v] = jobs[v]
  BY <1>0, Pops DEF QueueTypeOK
<1>4. /\ status' \in [Event -> Status] /\ body' \in [Event -> BOOLEAN]
      /\ \A e \in Event : status'[e] = "none" <=> status[e] = "none"
      /\ faults' \in 0 .. MaxFaults
  BY <1>0, <1>1, <1>2 DEF QueueTypeOK, Status
<1>5. QueueTypeOK' /\ StoredOnce' /\ JobsKnown' /\ aged' \in 0 .. Len(arrived')
  BY <1>3, <1>4, QueueKept DEF storeVars
<1>. QED
  BY <1>3, <1>5, WorkerFree

LEMMA FailureTypes ==
    ASSUME Inv, NEW w \in Worker, Failure(w)
    PROVE  Inv'
<1>. USE EventQueueAssumption
<1>0. QueueTypeOK
  BY DEF Inv, TypeOK
<1>1. CASE HandlerFails(w)
  <2>. USE <1>1 DEF HandlerFails, RetryEvent
  <2>1. Head(jobs[w]).event \in Event /\ Head(jobs[w]) \in Held(w)
    BY <1>0, HeadHeld DEF QueueTypeOK
  <2>2. status[Head(jobs[w]).event] # "none"
    BY <2>1 DEF Inv, JobsKnown
  <2>3. /\ jobs' \in [Worker -> Seq(Job)]
        /\ \A v \in Worker : Held(v)' \subseteq Held(v)
        /\ \A v \in Worker \ {w} : jobs'[v] = jobs[v]
    BY <1>0, Pops DEF QueueTypeOK
  <2>4. /\ status' \in [Event -> Status] /\ body' \in [Event -> BOOLEAN]
        /\ \A e \in Event : status'[e] = "none" <=> status[e] = "none"
        /\ faults' \in 0 .. MaxFaults
    BY <1>0, <2>1, <2>2 DEF QueueTypeOK, Status, Fault
  <2>5. QueueTypeOK' /\ StoredOnce' /\ JobsKnown' /\ aged' \in 0 .. Len(arrived')
    BY <2>3, <2>4, QueueKept DEF storeVars
  <2>. QED
    BY <2>3, <2>5, WorkerFree
<1>2. CASE Abandon(w)
  <2>. USE <1>2 DEF Abandon, AbandonBatch
  <2>3. /\ jobs' \in [Worker -> Seq(Job)]
        /\ \A v \in Worker : Held(v)' \subseteq Held(v)
        /\ \A v \in Worker \ {w} : jobs'[v] = jobs[v]
    BY <1>0, Drops DEF QueueTypeOK
  <2>4. /\ status' \in [Event -> Status] /\ body' \in [Event -> BOOLEAN]
        /\ \A e \in Event : status'[e] = "none" <=> status[e] = "none"
        /\ faults' \in 0 .. MaxFaults
    BY <1>0 DEF QueueTypeOK, Fault
  <2>5. QueueTypeOK' /\ StoredOnce' /\ JobsKnown' /\ aged' \in 0 .. Len(arrived')
    BY <2>3, <2>4, QueueKept DEF storeVars
  <2>. QED
    BY <2>3, <2>5, WorkerFree
<1>3. CASE Restart(w)
  <2>. USE <1>3 DEF Restart, RestartQueue
  <2>3. /\ jobs' \in [Worker -> Seq(Job)]
        /\ \A v \in Worker : Held(v)' \subseteq Held(v)
        /\ \A v \in Worker \ {w} : jobs'[v] = jobs[v]
    BY <1>0, Drops DEF QueueTypeOK
  <2>4. /\ status' \in [Event -> Status] /\ body' \in [Event -> BOOLEAN]
        /\ \A e \in Event : status'[e] = "none" <=> status[e] = "none"
        /\ faults' \in 0 .. MaxFaults
    BY <1>0 DEF QueueTypeOK, Fault, Status
  <2>5. QueueTypeOK' /\ StoredOnce' /\ JobsKnown' /\ aged' \in 0 .. Len(arrived')
    BY <2>3, <2>4, QueueKept DEF storeVars
  <2>. QED
    BY <2>3, <2>5, WorkerFree
<1>. QED
  BY <1>1, <1>2, <1>3 DEF Failure

LEMMA ClaimTypes ==
    ASSUME Inv, NEW w \in Worker, Claim(w)
    PROVE  Inv'
<1>1. QueueTypeOK /\ StoredOnce /\ ClaimEvents(w) /\ UNCHANGED <<storeVars, workerVars>>
  BY DEF Inv, TypeOK, Claim
<1>2. /\ jobs[w] = <<>> /\ jobs' \in [Worker -> Seq(Job)]
      /\ \A j \in Held(w)' : status[j.event] # "none"
      /\ \A v \in Worker \ {w} : jobs'[v] = jobs[v] /\ Held(v)' = Held(v)
      /\ status' \in [Event -> Status]
      /\ \A e \in Event : status'[e] = "none" <=> status[e] = "none"
      /\ UNCHANGED <<arrived, body, faults>>
  BY <1>1, Claims
<1>3. QueueTypeOK' /\ StoredOnce'
  BY <1>1, <1>2 DEF QueueTypeOK, StoredOnce
<1>4. JobsKnown'
  <2>. SUFFICES ASSUME NEW v \in Worker, NEW j \in Held(v)' PROVE status'[j.event] # "none"
    BY DEF JobsKnown
  <2>1. jobs' \in [Worker -> Seq(Job)]
    BY <1>2
  <2>2. j.event \in Event
    BY <2>1, HeldJobsNext
  <2>3. status[j.event] # "none"
    BY <1>2 DEF Inv, JobsKnown
  <2>. QED
    BY <1>2, <2>2, <2>3
<1>5. IdleStart'
  <2>1. UNCHANGED step
    BY <1>1 DEF workerVars
  <2>. QED
    BY <1>2, <2>1 DEF Inv, IdleStart
<1>6. Targets' /\ UNCHANGED <<source, item, chat, marked, active, aged, step, found>>
  BY <1>1 DEF Inv, Targets, storeVars, workerVars
<1>. QED
  BY <1>2, <1>3, <1>4, <1>5, <1>6 DEF Inv, TypeOK

LEMMA AcceptTypes ==
    ASSUME Inv, NEW e \in Event, Accept(e)
    PROVE  Inv'
<1>. USE DEF Accept, EnqueueEvent, storeVars, workerVars
<1>0. QueueTypeOK /\ StoredOnce
  BY DEF Inv, TypeOK
<1>1. CASE status[e] # "none"
  <2>1. UNCHANGED vars
    BY <1>1 DEF vars, queueVars
  <2>. QED
    BY <2>1 DEF vars, queueVars, Inv, TypeOK, QueueTypeOK, StoredOnce, JobsKnown, Held, IdleStart,
                Targets
<1>2. CASE status[e] = "none"
  <2>1. /\ arrived' = Append(arrived, e)
        /\ status' = [status EXCEPT ![e] = "pending"]
        /\ body' = [body EXCEPT ![e] = TRUE]
    BY <1>2
  <2>2. arrived \in Seq(Event)
    BY <1>0 DEF QueueTypeOK
  <2>3. /\ arrived' \in Seq(Event) /\ Len(arrived') = Len(arrived) + 1
        /\ arrived'[Len(arrived) + 1] = e
        /\ \A k \in 1 .. Len(arrived) : arrived'[k] = arrived[k]
    BY <2>1, <2>2, AppendProperties
  <2>4. /\ status' \in [Event -> Status] /\ status'[e] = "pending"
        /\ \A f \in Event \ {e} : status'[f] = status[f]
        /\ body' \in [Event -> BOOLEAN]
    BY <1>0, <2>1 DEF QueueTypeOK, Status
  <2>5. QueueTypeOK'
    BY <1>0, <2>3, <2>4 DEF QueueTypeOK
  <2>6. Len(arrived) \in Nat /\ \A k \in 1 .. Len(arrived) : arrived[k] # e
    BY <1>0, <1>2, <2>2 DEF StoredOnce
  <2>7. StoredOnce'
    <3>1. \A k, n \in 1 .. Len(arrived') : arrived'[k] = arrived'[n] => k = n
      BY <1>0, <2>3, <2>6 DEF StoredOnce
    <3>2. ASSUME NEW f \in Event
          PROVE  status'[f] = "none" <=> \A n \in 1 .. Len(arrived') : arrived'[n] # f
      <4>1. CASE f = e
        BY <2>3, <2>4, <2>6, <4>1
      <4>2. CASE f # e
        <5>1. status[f] = "none" <=> \A n \in 1 .. Len(arrived) : arrived[n] # f
          BY <1>0 DEF StoredOnce
        <5>2. (\A n \in 1 .. Len(arrived') : arrived'[n] # f)
                <=> \A n \in 1 .. Len(arrived) : arrived[n] # f
          BY <2>3, <2>6, <4>2
        <5>. QED
          BY <2>4, <4>2, <5>1, <5>2
      <4>. QED
        BY <4>1, <4>2
    <3>. QED
      BY <3>1, <3>2 DEF StoredOnce
  <2>8. JobsKnown'
    BY <2>4, HeldJobs, <1>0 DEF Inv, JobsKnown, Held, QueueTypeOK
  <2>9. aged' \in 0 .. Len(arrived')
    BY <2>3, <2>6 DEF Inv, TypeOK
  <2>. QED
    BY <2>5, <2>7, <2>8, <2>9 DEF Inv, TypeOK, IdleStart, Targets
<1>. QED
  BY <1>1, <1>2

LEMMA EnvironmentTypes ==
    ASSUME Inv, Environment
    PROVE  Inv'
<1>1. ASSUME NEW e \in Event, Accept(e)
      PROVE  Inv'
  BY <1>1, AcceptTypes
<1>2. ASSUME NEW m \in Message, NEW u \in User, Edit(m, u)
      PROVE  Inv'
  <2>. USE <1>2 DEF Edit
  <2>1. item' \in [Message -> [User -> ItemState]]
    BY DEF Inv, TypeOK
  <2>2. QueueTypeOK' /\ StoredOnce' /\ JobsKnown' /\ aged \in 0 .. Len(arrived')
    BY SameQueue
  <2>. QED
    BY <2>1, <2>2 DEF Inv, TypeOK, IdleStart, Targets, queueVars, workerVars
<1>3. ASSUME NEW u \in User, Toggle(u)
      PROVE  Inv'
  <2>. USE <1>3 DEF Toggle
  <2>1. active' \in SUBSET User
    BY DEF Inv, TypeOK
  <2>2. QueueTypeOK' /\ StoredOnce' /\ JobsKnown' /\ aged \in 0 .. Len(arrived')
    BY SameQueue
  <2>. QED
    BY <2>1, <2>2 DEF Inv, TypeOK, IdleStart, Targets, queueVars, workerVars
<1>4. CASE Age
  <2>. USE <1>4 DEF Age
  <2>1. aged' \in 0 .. Len(arrived')
    BY DEF Inv, TypeOK, QueueTypeOK, queueVars
  <2>2. QueueTypeOK' /\ StoredOnce' /\ JobsKnown'
    BY SameQueue
  <2>. QED
    BY <2>1, <2>2 DEF Inv, TypeOK, IdleStart, Targets, queueVars, workerVars
<1>5. CASE WriteChat
  <2>1. UNCHANGED queueVars
    BY <1>5, ChatWritten
  <2>2. QueueTypeOK' /\ StoredOnce' /\ JobsKnown' /\ aged \in 0 .. Len(arrived')
    BY <2>1, SameQueue
  <2>. QED
    BY <1>5, <2>1, <2>2, ChatWritten DEF Inv, TypeOK, IdleStart, Targets, queueVars, workerVars
<1>. QED
  BY ZenonT(30), <1>1, <1>2, <1>3, <1>4, <1>5 DEF Environment

LEMMA PurgeTypes ==
    ASSUME Inv, Purge
    PROVE  Inv'
<1>. DEFINE E == {e \in Event : body[e] /\ status[e] # "processing"
                                /\ \E k \in 1 .. aged : arrived[k] = e}
<1>0. QueueTypeOK /\ StoredOnce /\ aged \in 0 .. Len(arrived)
  BY DEF Inv, TypeOK
<1>1. /\ status' = [e \in Event |-> IF e \in E THEN "succeeded" ELSE status[e]]
      /\ body' = [e \in Event |-> body[e] /\ e \notin E]
      /\ UNCHANGED <<arrived, jobs, faults>>
  BY DEF Purge, PurgeEvents
<1>2. \A e \in E : status[e] # "none"
  <2>1. \A k \in 1 .. Len(arrived) : arrived[k] \in Event /\ status[arrived[k]] # "none"
    BY <1>0 DEF StoredOnce, QueueTypeOK
  <2>2. 1 .. aged \subseteq 1 .. Len(arrived)
    BY <1>0 DEF QueueTypeOK
  <2>3. \A e \in E : \E k \in 1 .. aged : arrived[k] = e
    BY Zenon
  <2>. HIDE DEF E
  <2>. QED
    BY <2>1, <2>2, <2>3
<1>3. /\ status' \in [Event -> Status]
      /\ \A e \in Event : status'[e] = "none" <=> status[e] = "none"
  <2>. HIDE DEF E
  <2>. QED
    BY <1>0, <1>1, <1>2 DEF QueueTypeOK, Status
<1>4. body' \in [Event -> BOOLEAN]
  <2>. HIDE DEF E
  <2>. QED
    BY <1>1
<1>5. \A v \in Worker : Held(v)' = Held(v)
  BY <1>1 DEF Held
<1>6. QueueTypeOK' /\ StoredOnce' /\ JobsKnown' /\ aged' \in 0 .. Len(arrived')
  BY <1>0, <1>1, <1>3, <1>4, <1>5, QueueKept DEF Purge, QueueTypeOK
<1>7. source' \in [Message -> SourceState]
  BY DEF Purge, Inv, TypeOK, SourceState
<1>. QED
  BY <1>1, <1>6, <1>7 DEF Purge, workerVars, Inv, TypeOK, IdleStart, Targets

LEMMA NextOK == Inv /\ [Next]_vars => Inv'
<1>. SUFFICES ASSUME Inv, [Next]_vars PROVE Inv'
  OBVIOUS
<1>1. ASSUME NEW w \in Worker, Progress(w)
      PROVE  Inv'
  BY <1>1, ClaimTypes, HandlerTypes, FinishTypes DEF Progress
<1>2. ASSUME NEW w \in Worker, Failure(w)
      PROVE  Inv'
  BY <1>2, FailureTypes
<1>3. CASE UNCHANGED vars
  BY <1>3 DEF vars, queueVars, storeVars, workerVars, Inv, TypeOK, QueueTypeOK, StoredOnce,
              JobsKnown, Held, IdleStart, Targets
<1>. QED
  BY <1>1, <1>2, <1>3, EnvironmentTypes, PurgeTypes DEF Next

LEMMA Inductive == Spec => []Inv
  BY InitOK, NextOK, PTL DEF Spec

(* Every variable keeps its type, no event is stored twice, and an event   *)
(* has a status exactly if it is stored (enqueue_event and the loops).     *)
THEOREM TypeCorrect == Spec => []TypeOK
<1>1. Inv => TypeOK
  BY DEF Inv
<1>. QED
  BY <1>1, Inductive, PTL

-----------------------------------------------------------------------------
(* Mentions.  A message is excused when retention has reached it, when the *)
(* bot has been added to the chat once more, or when every user it         *)
(* mentions by name who is there all along has an item.  Once excused, it  *)
(* stays so; and nothing ends the event of a message that is not.          *)

Undisturbed == BotAdded \in Event => status[BotAdded] = "none"
Kept(m)     == \A u \in Direct[m] \ Fickle : item[m][u] # "none"
Excused(m)  == m \in Expired \/ ~Undisturbed \/ Kept(m)

(* Feishu never says that the chat is external, and nobody marks it.       *)
Calm   == ~marked /\ (Undisturbed => chat \in {"none", "internal"})
Steady == User \ Fickle \subseteq active
Done   == \A m \in Message : status[Receive(m)] = "succeeded" => Excused(m)
Gone   == \A m \in Message :
            status[Receive(m)] # "none" /\ body[Receive(m)] = FALSE => Excused(m)
Empty  == \A w \in Worker : \A j \in Held(w) : \A m \in Message :
            j.event = Receive(m) /\ j.body = FALSE => Excused(m)

(* What is known of m at step s of a handler that has found the users T. *)
Reached(m, s, T) ==
    /\ s = "finish" => Excused(m)
    /\ s \in {"all", "save"} => Excused(m) \/ Direct[m] \ Fickle \subseteq T

Ready  == \A w \in Worker : \A m \in Message :
            jobs[w] # <<>> /\ Head(jobs[w]).event = Receive(m) => Reached(m, step[w], found[w])

MentionInv == Calm /\ Steady /\ Done /\ Gone /\ Empty /\ Ready

LEMMA MentionsInit == Init => MentionInv
<1>. SUFFICES ASSUME Init PROVE MentionInv
  OBVIOUS
<1>. USE DEF Init, QueueInit
<1>1. Calm /\ Steady /\ Ready
  BY DEF Calm, Steady, Ready
<1>2. \A m \in Message : status[Receive(m)] = "none"
  BY EventsOfMessages
<1>3. Done /\ Gone
  BY <1>2 DEF Done, Gone
<1>4. Empty
  BY DEF Empty, Held
<1>. QED
  BY <1>1, <1>3, <1>4 DEF MentionInv

(* Items are never taken away. *)
LEMMA ItemsStay ==
    ASSUME Inv, Next, NEW m \in Message, NEW u \in User, item[m][u] # "none"
    PROVE  item'[m][u] # "none"
<1>. USE DEF Inv, TypeOK
<1>1. ASSUME NEW w \in Worker, Progress(w)
      PROVE  item'[m][u] # "none"
  <2>1. ASSUME NEW n \in Message, SaveTargets(w, n)
        PROVE  item'[m][u] # "none"
    BY <2>1 DEF SaveTargets
  <2>2. ASSUME NEW n \in Message, RecallMessage(w, n)
        PROVE  item'[m][u] # "none"
    BY <2>2 DEF RecallMessage
  <2>3. CASE Claim(w) \/ Finish(w)
    BY <2>3 DEF Claim, Finish, storeVars
  <2>4. CASE SkipEmpty(w) \/ Quarantine(w) \/ ConfirmChat(w)
    BY <2>4 DEF SkipEmpty, Quarantine, ConfirmChat, storeVars
  <2>5. ASSUME NEW n \in Message,
               GetChat(w, n) \/ ResolveChat(w, n) \/ FindDirect(w, n) \/ FindAll(w, n)
        PROVE  item'[m][u] # "none"
    BY <2>5 DEF GetChat, ResolveChat, FindDirect, FindAll, storeVars
  <2>. QED
    BY ZenonT(30), <1>1, <2>1, <2>2, <2>3, <2>4, <2>5 DEF Progress, Handler
<1>2. ASSUME NEW w \in Worker, Failure(w)
      PROVE  item'[m][u] # "none"
  BY <1>2 DEF Failure, HandlerFails, Abandon, Restart, storeVars
<1>3. CASE Environment
  <2>1. ASSUME NEW n \in Message, NEW v \in User, Edit(n, v)
        PROVE  item'[m][u] # "none"
    BY <2>1 DEF Edit
  <2>2. ASSUME NEW e \in Event, Accept(e)
        PROVE  item'[m][u] # "none"
    BY <2>2 DEF Accept, storeVars
  <2>3. ASSUME NEW v \in User, Toggle(v)
        PROVE  item'[m][u] # "none"
    BY <2>3 DEF Toggle
  <2>4. CASE Age
    BY <2>4 DEF Age
  <2>5. CASE WriteChat
    BY <2>5, ChatWritten
  <2>. QED
    BY ZenonT(30), <1>3, <2>1, <2>2, <2>3, <2>4, <2>5 DEF Environment
<1>4. CASE Purge
  BY <1>4 DEF Purge
<1>. QED
  BY <1>1, <1>2, <1>3, <1>4 DEF Next

(* Events are only added, and time goes forward. *)
LEMMA ArrivalsStay ==
    ASSUME Inv, Next
    PROVE  /\ arrived' = arrived \/ \E e \in Event : arrived' = Append(arrived, e)
           /\ aged' = aged \/ (aged' = aged + 1 /\ arrived' = arrived)
<1>. USE DEF queueVars, storeVars
<1>1. ASSUME NEW w \in Worker, Progress(w)
      PROVE  UNCHANGED <<arrived, aged>>
  <2>1. CASE Claim(w) \/ Finish(w)
    BY <2>1 DEF Claim, ClaimEvents, Take, Finish, FinishEvent
  <2>2. CASE SkipEmpty(w) \/ Quarantine(w) \/ ConfirmChat(w)
    BY <2>2 DEF SkipEmpty, Quarantine, ConfirmChat
  <2>3. ASSUME NEW n \in Message,
               \/ GetChat(w, n) \/ ResolveChat(w, n) \/ FindDirect(w, n) \/ FindAll(w, n)
               \/ SaveTargets(w, n) \/ RecallMessage(w, n)
        PROVE  UNCHANGED <<arrived, aged>>
    BY <2>3 DEF GetChat, ResolveChat, FindDirect, FindAll, SaveTargets, RecallMessage
  <2>. QED
    BY ZenonT(30), <1>1, <2>1, <2>2, <2>3 DEF Progress, Handler
<1>2. ASSUME NEW w \in Worker, Failure(w)
      PROVE  UNCHANGED <<arrived, aged>>
  BY <1>2 DEF Failure, HandlerFails, Abandon, Restart, RetryEvent, AbandonBatch, RestartQueue
<1>3. ASSUME NEW e \in Event, Accept(e)
      PROVE  aged' = aged /\ (arrived' = arrived \/ arrived' = Append(arrived, e))
  BY <1>3 DEF Accept, EnqueueEvent
<1>4. ASSUME NEW m \in Message, NEW u \in User, Edit(m, u)
      PROVE  UNCHANGED <<arrived, aged>>
  BY <1>4 DEF Edit
<1>5. ASSUME NEW u \in User, Toggle(u)
      PROVE  UNCHANGED <<arrived, aged>>
  BY <1>5 DEF Toggle
<1>6. CASE Age
  BY <1>6 DEF Age
<1>7. CASE Purge
  BY <1>7 DEF Purge, PurgeEvents
<1>9. CASE WriteChat
  BY <1>9, ChatWritten
<1>8. CASE Environment
  BY ZenonT(30), <1>3, <1>4, <1>5, <1>6, <1>8, <1>9 DEF Environment
<1>. QED
  BY <1>1, <1>2, <1>7, <1>8 DEF Next

LEMMA ExpiredStays ==
    ASSUME Inv, Next
    PROVE  Expired \subseteq Expired' /\ \A e \in Event : status[e] # "none" => status'[e] # "none"
<1>0. /\ arrived \in Seq(Event) /\ aged \in 0 .. Len(arrived)
      /\ StoredOnce /\ StoredOnce'
  BY NextOK DEF Inv, TypeOK, QueueTypeOK
<1>1. /\ Len(arrived) \in Nat /\ Len(arrived') \in Nat /\ Len(arrived) <= Len(arrived')
      /\ \A k \in 1 .. Len(arrived) : arrived'[k] = arrived[k]
  <2>1. CASE arrived' = arrived
    BY <1>0, <2>1
  <2>2. ASSUME NEW e \in Event, arrived' = Append(arrived, e)
        PROVE  /\ Len(arrived) \in Nat /\ Len(arrived') \in Nat /\ Len(arrived) <= Len(arrived')
               /\ \A k \in 1 .. Len(arrived) : arrived'[k] = arrived[k]
    BY <1>0, <2>2, AppendProperties
  <2>. QED
    BY <2>1, <2>2, ArrivalsStay
<1>2. aged <= aged' /\ aged \in Nat /\ aged' \in Nat
  BY <1>0, <1>1, ArrivalsStay
<1>3. Expired \subseteq Expired'
  <2>. SUFFICES ASSUME NEW m \in Expired PROVE m \in Expired'
    OBVIOUS
  <2>1. PICK k \in 1 .. aged : m \in Message /\ arrived[k] = Receive(m)
    BY DEF Expired
  <2>2. k \in 1 .. aged' /\ arrived'[k] = Receive(m)
    BY <1>0, <1>1, <1>2, <2>1
  <2>. QED
    BY <2>1, <2>2 DEF Expired
<1>4. ASSUME NEW e \in Event, status[e] # "none"
      PROVE  status'[e] # "none"
  <2>1. PICK k \in 1 .. Len(arrived) : arrived[k] = e
    BY <1>0, <1>4 DEF StoredOnce
  <2>2. k \in 1 .. Len(arrived') /\ arrived'[k] = e
    BY <1>1, <2>1
  <2>. QED
    BY <1>0, <2>2 DEF StoredOnce
<1>. QED
  BY <1>3, <1>4

LEMMA ExcusedStays ==
    ASSUME Inv, Next, NEW m \in Message, Excused(m)
    PROVE  Excused(m)'
<1>1. m \in Expired => m \in Expired'
  BY ExpiredStays
<1>2. ~Undisturbed => ~Undisturbed'
  BY ExpiredStays DEF Undisturbed
<1>3. Kept(m) => Kept(m)'
  <2>1. Direct[m] \subseteq User
    BY IntakeAssumption
  <2>. QED
    BY <2>1, ItemsStay DEF Kept
<1>. QED
  BY <1>1, <1>2, <1>3 DEF Excused

LEMMA ReachedStays ==
    ASSUME Inv, Next, NEW m \in Message, NEW s \in Step, NEW T, Reached(m, s, T)
    PROVE  Reached(m, s, T)'
<1>1. Excused(m) => Excused(m)'
  BY ExcusedStays
<1>. QED
  BY <1>1 DEF Reached

(* A step of the handler of w that leaves the queue alone. *)
LEMMA HandlesMentions ==
    ASSUME Inv, MentionInv, Next,
           NEW w \in Worker, UNCHANGED <<queueVars, active>>, NEW s \in Step, Goto(w, s),
           \A v \in Worker \ {w} : found'[v] = found[v],
           Undisturbed => chat' \in {"none", "internal"}, ~marked',
           \A m \in Message : Head(jobs[w]).event = Receive(m) => Reached(m, s, found[w])'
    PROVE  MentionInv'
<1>1. \A m \in Message : Excused(m) => Excused(m)'
  BY ExcusedStays
<1>2. UNCHANGED <<arrived, status, body, jobs>>
  BY DEF queueVars
<1>3. Calm' /\ Steady'
  BY <1>2 DEF MentionInv, Calm, Steady, Undisturbed
<1>4. Done'
  BY <1>1, <1>2 DEF MentionInv, Done
<1>5. Gone'
  BY <1>1, <1>2 DEF MentionInv, Gone
<1>6. Empty'
  BY <1>1, <1>2 DEF MentionInv, Empty, Held
<1>7. Ready'
  <2>. SUFFICES ASSUME NEW v \in Worker, NEW m \in Message,
                       jobs[v] # <<>>, Head(jobs[v]).event = Receive(m)
                PROVE  Reached(m, step[v], found[v])'
    BY <1>2 DEF Ready
  <2>1. CASE v = w
    <3>1. step'[w] = s
      BY DEF Goto, Inv, TypeOK
    <3>. QED
      BY <2>1, <3>1
  <2>2. CASE v # w
    <3>1. step'[v] = step[v] /\ found'[v] = found[v] /\ step[v] \in Step
      BY <2>2 DEF Goto, Inv, TypeOK
    <3>2. Reached(m, step[v], found[v])
      BY DEF MentionInv, Ready
    <3>3. Excused(m) => Excused(m)'
      BY <1>1
    <3>. QED
      BY <3>1, <3>2, <3>3 DEF Reached
  <2>. QED
    BY <2>1, <2>2
<1>. QED
  BY <1>3, <1>4, <1>5, <1>6, <1>7 DEF MentionInv

LEMMA EventsDiffer ==
    ASSUME NEW m \in Message, NEW n \in Message
    PROVE  /\ Receive(m) = Receive(n) => m = n
           /\ Receive(m) # Recalled(n)
           /\ Receive(m) # BotAdded
  BY DEF Receive, Recalled, BotAdded

(* Quarantine and ConfirmChat only run once the bot has been added.        *)
LEMMA AddedIsKnown ==
    ASSUME Inv, NEW w \in Worker, jobs[w] # <<>>, Head(jobs[w]).event = BotAdded
    PROVE  ~Undisturbed
  BY HeadHeld DEF Inv, JobsKnown, TypeOK, QueueTypeOK, Undisturbed

LEMMA ReceiveMentions ==
    ASSUME Answers = {"internal"}, Inv, MentionInv, Next, NEW w \in Worker, NEW n \in Message,
           \/ GetChat(w, n) \/ ResolveChat(w, n) \/ FindDirect(w, n) \/ FindAll(w, n)
           \/ SaveTargets(w, n)
    PROVE  MentionInv'
<1>0. /\ jobs[w] # <<>> /\ Head(jobs[w]).event = Receive(n)
      /\ UNCHANGED <<queueVars, active>>
  BY DEF GetChat, ResolveChat, FindDirect, FindAll, SaveTargets, Handling, storeVars
<1>1. /\ Undisturbed => chat \in {"none", "internal"}
      /\ ~marked
      /\ User \ Fickle \subseteq active
      /\ Reached(n, step[w], found[w])
      /\ Direct[n] \subseteq User
      /\ found \in [Worker -> SUBSET User]
      /\ item \in [Message -> [User -> ItemState]]
  BY <1>0, IntakeAssumption DEF MentionInv, Calm, Steady, Ready, Inv, TypeOK
<1>2. Excused(n) => Excused(n)'
  BY ExcusedStays
<1>3. \A m \in Message : Head(jobs[w]).event = Receive(m) => m = n
  BY <1>0, EventsDiffer
<1>4. CASE GetChat(w, n)
  <2>. USE <1>4 DEF GetChat, Handling
  <2>1. PICK s \in Step : Goto(w, s) /\ s \notin {"all", "save"} /\ (s = "finish" => chat \notin {"none", "internal"})
    BY <1>1 DEF Step, Inv, TypeOK, ChatState, Unresolved, Open
  <2>2. Reached(n, s, found[w])'
    BY <1>0, <1>1, <1>2, <2>1 DEF Reached, Excused
  <2>. QED
    BY <1>0, <1>1, <1>3, <2>1, <2>2, HandlesMentions DEF storeVars
<1>5. CASE ResolveChat(w, n)
  <2>. USE <1>5 DEF ResolveChat
  <2>1. chat' = "internal" /\ Goto(w, "direct") /\ found' = found /\ ~marked'
    BY <1>1
  <2>2. Reached(n, "direct", found[w])'
    BY DEF Reached
  <2>. QED
    BY <1>0, <1>3, <2>1, <2>2, HandlesMentions, "direct" \in Step DEF Step
<1>6. CASE FindDirect(w, n)
  <2>. USE <1>6 DEF FindDirect
  <2>1. /\ found'[w] = Direct[n] \cap active /\ \A v \in Worker \ {w} : found'[v] = found[v]
        /\ UNCHANGED <<chat, marked, item>>
    BY <1>1 DEF storeVars
  <2>2. Direct[n] \ Fickle \subseteq found'[w]
    BY <1>1, <2>1
  <2>3. PICK s \in Step : Goto(w, s) /\ (s = "finish" => found'[w] = {})
    BY DEF Step
  <2>4. found'[w] = {} => Excused(n)'
    BY <2>2 DEF Excused, Kept
  <2>5. Reached(n, s, found[w])'
    BY <2>2, <2>3, <2>4 DEF Reached
  <2>6. \A m \in Message : Head(jobs[w]).event = Receive(m) => Reached(m, s, found[w])'
    BY <1>3, <2>5
  <2>7. (Undisturbed => chat' \in {"none", "internal"}) /\ ~marked'
    BY <1>1, <2>1
  <2>8. Goto(w, s)
    BY <2>3
  <2>. HIDE <1>6 DEF FindDirect
  <2>. QED
    BY <1>0, <2>1, <2>6, <2>7, <2>8, HandlesMentions
<1>7. CASE FindAll(w, n)
  <2>. USE <1>7 DEF FindAll, Handling
  <2>1. /\ found[w] \subseteq found'[w] /\ \A v \in Worker \ {w} : found'[v] = found[v]
        /\ UNCHANGED <<chat, marked, item>>
    BY <1>1 DEF storeVars
  <2>2. Excused(n) \/ Direct[n] \ Fickle \subseteq found'[w]
    BY <1>1, <2>1 DEF Reached
  <2>3. PICK s \in Step : Goto(w, s) /\ (s = "finish" => found'[w] = {})
    BY DEF Step
  <2>4. found'[w] = {} => Excused(n)'
    BY <1>2, <2>2 DEF Excused, Kept
  <2>5. Reached(n, s, found[w])'
    BY <1>2, <2>2, <2>3, <2>4 DEF Reached
  <2>6. \A m \in Message : Head(jobs[w]).event = Receive(m) => Reached(m, s, found[w])'
    BY <1>3, <2>5
  <2>7. (Undisturbed => chat' \in {"none", "internal"}) /\ ~marked'
    BY <1>1, <2>1
  <2>8. Goto(w, s)
    BY <2>3
  <2>. HIDE <1>7 DEF FindAll, Handling
  <2>. QED
    BY <1>0, <2>1, <2>6, <2>7, <2>8, HandlesMentions
<1>8. CASE SaveTargets(w, n)
  <2>. USE <1>8 DEF SaveTargets, Handling
  <2>1. Excused(n) \/ Direct[n] \ Fickle \subseteq found[w]
    BY <1>1 DEF Reached
  <2>2. \A u \in found[w] : item'[n][u] # "none"
    BY <1>1
  <2>3. Excused(n)'
    BY <1>2, <2>1, <2>2 DEF Excused, Kept
  <2>4. Reached(n, "finish", found[w])'
    BY <2>3 DEF Reached
  <2>5. UNCHANGED <<chat, marked, found>> /\ Goto(w, "finish") /\ "finish" \in Step
    BY DEF Step
  <2>. QED
    BY <1>0, <1>1, <1>3, <2>4, <2>5, HandlesMentions
<1>. QED
  BY <1>4, <1>5, <1>6, <1>7, <1>8

LEMMA HandlerMentions ==
    ASSUME Answers = {"internal"}, Inv, MentionInv, Next, NEW w \in Worker, Handler(w)
    PROVE  MentionInv'
<1>0. ~marked /\ (Undisturbed => chat \in {"none", "internal"})
  BY DEF MentionInv, Calm
<1>1. CASE SkipEmpty(w)
  <2>. USE <1>1 DEF SkipEmpty
  <2>1. Head(jobs[w]) \in Held(w) /\ Head(jobs[w]) \in Job
    BY HeadHeld DEF Inv, TypeOK, QueueTypeOK
  <2>2. Head(jobs[w]).body = FALSE
    BY <2>1 DEF Job
  <2>3. \A m \in Message : Head(jobs[w]).event = Receive(m) => Excused(m)'
    BY <2>1, <2>2, ExcusedStays DEF MentionInv, Empty
  <2>4. \A m \in Message : Head(jobs[w]).event = Receive(m) => Reached(m, "finish", found[w])'
    BY <2>3 DEF Reached
  <2>. QED
    BY <1>0, <2>4, HandlesMentions, "finish" \in Step DEF storeVars, Step
<1>2. CASE Quarantine(w)
  <2>. USE <1>2 DEF Quarantine, Handling
  <2>1. ~Undisturbed
    BY AddedIsKnown
  <2>2. \A m \in Message : Head(jobs[w]).event # Receive(m)
    BY EventsDiffer
  <2>. QED
    BY <1>0, <2>1, <2>2, HandlesMentions, "confirm" \in Step DEF Step
<1>3. CASE ConfirmChat(w)
  <2>. USE <1>3 DEF ConfirmChat, Handling
  <2>1. \A m \in Message : Head(jobs[w]).event # Receive(m)
    BY EventsDiffer
  <2>. QED
    BY <2>1, HandlesMentions, "finish" \in Step DEF Step
<1>4. ASSUME NEW n \in Message, RecallMessage(w, n)
      PROVE  MentionInv'
  <2>. USE <1>4 DEF RecallMessage, Handling
  <2>1. \A m \in Message : Head(jobs[w]).event # Receive(m)
    BY EventsDiffer
  <2>2. UNCHANGED <<queueVars, chat, marked, active, found>> /\ Goto(w, "finish")
    OBVIOUS
  <2>. QED
    BY <1>0, <2>1, <2>2, HandlesMentions, "finish" \in Step DEF Step
<1>5. ASSUME NEW n \in Message,
             \/ GetChat(w, n) \/ ResolveChat(w, n) \/ FindDirect(w, n) \/ FindAll(w, n)
             \/ SaveTargets(w, n)
      PROVE  MentionInv'
  BY <1>5, ReceiveMentions
<1>. QED
  BY ZenonT(30), <1>1, <1>2, <1>3, <1>4, <1>5 DEF Handler

LEMMA ClaimMentions ==
    ASSUME Inv, MentionInv, Next, NEW w \in Worker, Claim(w)
    PROVE  MentionInv'
<1>0. QueueTypeOK /\ StoredOnce /\ ClaimEvents(w)
      /\ UNCHANGED <<source, item, chat, marked, active, aged, step, found>>
  BY DEF Inv, TypeOK, Claim, storeVars, workerVars
<1>1. /\ jobs[w] = <<>>
      /\ jobs' \in [Worker -> Seq(Job)]
      /\ \A j \in Held(w)' : status[j.event] # "none" /\ j.body = body[j.event]
      /\ \A v \in Worker \ {w} : jobs'[v] = jobs[v] /\ Held(v)' = Held(v)
      /\ \A e \in Event : status'[e] = "none" <=> status[e] = "none"
      /\ \A e \in Event : status'[e] # status[e] => status'[e] = "processing"
      /\ UNCHANGED <<arrived, body, faults>>
  BY <1>0, Claims
<1>2. \A m \in Message : Excused(m) => Excused(m)'
  BY ExcusedStays
<1>3. Calm' /\ Steady'
  BY <1>0, <1>1 DEF MentionInv, Calm, Steady, Undisturbed
<1>4. Done'
  BY <1>1, <1>2, EventsOfMessages DEF MentionInv, Done
<1>5. Gone'
  BY <1>1, <1>2, EventsOfMessages DEF MentionInv, Gone
<1>6. ASSUME NEW v \in Worker, NEW j \in Held(v)', NEW m \in Message,
             j.event = Receive(m), j.body = FALSE
      PROVE  Excused(m)'
  <2>1. CASE v = w
    <3>1. status[Receive(m)] # "none" /\ body[Receive(m)] = FALSE
      BY <1>1, <1>6, <2>1
    <3>. QED
      BY <1>2, <3>1 DEF MentionInv, Gone
  <2>2. CASE v # w
    BY <1>1, <1>2, <1>6, <2>2 DEF MentionInv, Empty
  <2>. QED
    BY <2>1, <2>2
<1>7. ASSUME NEW v \in Worker, NEW m \in Message,
             jobs'[v] # <<>>, Head(jobs'[v]).event = Receive(m)
      PROVE  Reached(m, step[v], found[v])'
  <2>1. CASE v = w
    <3>1. step'[w] = "start"
      BY <1>0, <1>1 DEF Inv, IdleStart
    <3>. QED
      BY <2>1, <3>1 DEF Reached
  <2>2. CASE v # w
    <3>1. Reached(m, step[v], found[v])
      BY <1>1, <1>7, <2>2 DEF MentionInv, Ready
    <3>2. Excused(m) => Excused(m)'
      BY <1>2
    <3>. QED
      BY <1>0, <3>1, <3>2 DEF Reached
  <2>. QED
    BY <2>1, <2>2
<1>. QED
  BY <1>3, <1>4, <1>5, <1>6, <1>7 DEF MentionInv, Empty, Ready

(* The worker w ends its job or its batch: of its message, nothing more    *)
(* need be known.                                                          *)
LEMMA FreeMentions ==
    ASSUME Inv, MentionInv, Next, NEW w \in Worker, NextJob(w), UNCHANGED storeVars,
           \A v \in Worker : Held(v)' \subseteq Held(v),
           \A v \in Worker \ {w} : jobs'[v] = jobs[v]
    PROVE  Calm' /\ Steady' /\ Empty' /\ Ready'
<1>1. \A m \in Message : Excused(m) => Excused(m)'
  BY ExcusedStays
<1>2. /\ step'[w] = "start" /\ \A v \in Worker \ {w} : step'[v] = step[v]
      /\ \A v \in Worker \ {w} : found'[v] = found[v]
  BY DEF NextJob, Goto, Inv, TypeOK
<1>3. Calm' /\ Steady'
  <2>1. Undisturbed' => Undisturbed
    BY ExpiredStays DEF Undisturbed
  <2>. QED
    BY <2>1 DEF MentionInv, Calm, Steady, storeVars
<1>4. Empty'
  BY <1>1 DEF MentionInv, Empty
<1>5. ASSUME NEW v \in Worker, NEW m \in Message,
             jobs'[v] # <<>>, Head(jobs'[v]).event = Receive(m)
      PROVE  Reached(m, step[v], found[v])'
  <2>1. CASE v = w
    BY <1>2, <2>1 DEF Reached
  <2>2. CASE v # w
    <3>1. Reached(m, step[v], found[v])
      BY <1>5, <2>2 DEF MentionInv, Ready
    <3>2. Excused(m) => Excused(m)'
      BY <1>1
    <3>. QED
      BY <1>2, <2>2, <3>1, <3>2 DEF Reached
  <2>. QED
    BY <2>1, <2>2
<1>. QED
  BY <1>3, <1>4, <1>5 DEF Ready

LEMMA FinishMentions ==
    ASSUME Inv, MentionInv, Next, NEW w \in Worker, Finish(w)
    PROVE  MentionInv'
<1>. USE DEF Finish, FinishEvent
<1>0. QueueTypeOK
  BY DEF Inv, TypeOK
<1>1. Calm' /\ Steady' /\ Empty' /\ Ready'
  BY <1>0, Pops, FreeMentions DEF QueueTypeOK
<1>. DEFINE f == Head(jobs[w]).event
<1>2. \A m \in Message : f = Receive(m) => Excused(m)
  BY DEF MentionInv, Ready, Reached
<1>3. \A e \in Event \ {f} : status'[e] = status[e] /\ (body'[e] = body[e])
  BY <1>0 DEF QueueTypeOK
<1>4. ASSUME NEW m \in Message
      PROVE  /\ status'[Receive(m)] = "succeeded" => Excused(m)'
             /\ status'[Receive(m)] # "none" /\ body'[Receive(m)] = FALSE => Excused(m)'
  <2>1. Receive(m) \in Event /\ (Excused(m) => Excused(m)')
    BY EventsOfMessages, ExcusedStays
  <2>2. CASE f = Receive(m)
    BY <1>2, <2>1, <2>2
  <2>3. CASE f # Receive(m)
    <3>1. status'[Receive(m)] = status[Receive(m)] /\ body'[Receive(m)] = body[Receive(m)]
      BY <1>3, <2>1, <2>3
    <3>. QED
      BY <2>1, <3>1 DEF MentionInv, Done, Gone
  <2>. QED
    BY <2>2, <2>3
<1>. QED
  BY <1>1, <1>4 DEF MentionInv, Done, Gone

LEMMA FailureMentions ==
    ASSUME Inv, MentionInv, Next, NEW w \in Worker, Failure(w)
    PROVE  MentionInv'
<1>0. QueueTypeOK
  BY DEF Inv, TypeOK
<1>1. Calm' /\ Steady' /\ Empty' /\ Ready'
  <2>1. CASE HandlerFails(w)
    BY <1>0, <2>1, Pops, FreeMentions DEF QueueTypeOK, HandlerFails, RetryEvent
  <2>2. CASE Abandon(w)
    BY <1>0, <2>2, Drops, FreeMentions DEF QueueTypeOK, Abandon, AbandonBatch
  <2>3. CASE Restart(w)
    BY <1>0, <2>3, Drops, FreeMentions DEF QueueTypeOK, Restart, RestartQueue
  <2>. QED
    BY <2>1, <2>2, <2>3 DEF Failure
<1>2. /\ body' = body
      /\ \A e \in Event : status'[e] = status[e] \/ status'[e] = "failed"
  <2>1. CASE HandlerFails(w)
    BY <1>0, <2>1 DEF QueueTypeOK, HandlerFails, RetryEvent
  <2>2. CASE Abandon(w)
    BY <2>2 DEF Abandon, AbandonBatch
  <2>3. CASE Restart(w)
    BY <2>3 DEF Restart, RestartQueue
  <2>. QED
    BY <2>1, <2>2, <2>3 DEF Failure
<1>3. \A e \in Event : status'[e] # "none" => status[e] # "none"
  <2>1. UNCHANGED arrived /\ StoredOnce /\ StoredOnce'
    BY NextOK DEF Inv, TypeOK, Failure, HandlerFails, RetryEvent, Abandon, AbandonBatch, Restart,
                  RestartQueue
  <2>. QED
    BY <2>1 DEF StoredOnce
<1>4. ASSUME NEW m \in Message
      PROVE  /\ status'[Receive(m)] = "succeeded" => Excused(m)'
             /\ status'[Receive(m)] # "none" /\ body'[Receive(m)] = FALSE => Excused(m)'
  <2>1. Receive(m) \in Event /\ (Excused(m) => Excused(m)')
    BY EventsOfMessages, ExcusedStays
  <2>. QED
    BY <1>2, <1>3, <2>1 DEF MentionInv, Done, Gone
<1>. QED
  BY <1>1, <1>4 DEF MentionInv, Done, Gone

(* A step that leaves the workers alone, and ends no event but of messages *)
(* past the retention limit.                                               *)
LEMMA OutsideMentions ==
    ASSUME Inv, MentionInv, Next, UNCHANGED <<jobs, step, found>>,
           chat' \in {chat, "internal"}, ~marked',
           User \ Fickle \subseteq active',
           \A m \in Message : m \in Expired'
              \/ /\ status'[Receive(m)] = "succeeded" => status[Receive(m)] = "succeeded"
                 /\ status'[Receive(m)] # "none" /\ body'[Receive(m)] = FALSE
                      => status[Receive(m)] # "none" /\ body[Receive(m)] = FALSE
    PROVE  MentionInv'
<1>1. \A m \in Message : Excused(m) => Excused(m)'
  BY ExcusedStays
<1>2. Calm' /\ Steady'
  <2>1. Undisturbed' => Undisturbed
    BY ExpiredStays DEF Undisturbed
  <2>. QED
    BY <2>1 DEF MentionInv, Calm, Steady
<1>3. Done' /\ Gone'
  <2>1. \A m \in Message : m \in Expired' => Excused(m)'
    BY DEF Excused
  <2>. QED
    BY <1>1, <2>1 DEF MentionInv, Done, Gone
<1>4. Empty'
  BY <1>1 DEF MentionInv, Empty, Held
<1>5. Ready'
  BY <1>1 DEF MentionInv, Ready, Reached
<1>. QED
  BY <1>2, <1>3, <1>4, <1>5 DEF MentionInv

LEMMA EnvironmentMentions ==
    ASSUME Answers = {"internal"}, ~Administered, Inv, MentionInv, Next, Environment
    PROVE  MentionInv'
<1>0. User \ Fickle \subseteq active /\ ~marked
  BY DEF MentionInv, Steady, Calm
<1>1. ASSUME NEW e \in Event, Accept(e)
      PROVE  MentionInv'
  <2>. USE <1>1 DEF Accept, EnqueueEvent, storeVars, workerVars
  <2>1. \A f \in Event : \/ status'[f] = status[f] /\ body'[f] = body[f]
                         \/ status'[f] = "pending" /\ body'[f] = TRUE
    BY DEF Inv, TypeOK, QueueTypeOK
  <2>2. UNCHANGED <<jobs, step, found, chat, marked, active>>
    OBVIOUS
  <2>3. \A m \in Message :
          /\ status'[Receive(m)] = "succeeded" => status[Receive(m)] = "succeeded"
          /\ status'[Receive(m)] # "none" /\ body'[Receive(m)] = FALSE
                      => status[Receive(m)] # "none" /\ body[Receive(m)] = FALSE
    BY <2>1, EventsOfMessages
  <2>4. User \ Fickle \subseteq active' /\ chat' \in {chat, "internal"} /\ ~marked'
    BY <1>0, <2>2
  <2>. HIDE DEF Accept, EnqueueEvent, storeVars, workerVars
  <2>. QED
    BY <2>2, <2>3, <2>4, OutsideMentions
<1>2. ASSUME NEW m \in Message, NEW u \in User, Edit(m, u)
      PROVE  MentionInv'
  BY <1>0, <1>2, OutsideMentions DEF Edit, queueVars, workerVars
<1>3. ASSUME NEW u \in User, Toggle(u)
      PROVE  MentionInv'
  BY <1>0, <1>3, OutsideMentions DEF Toggle, queueVars, workerVars
<1>4. CASE Age
  BY <1>0, <1>4, OutsideMentions DEF Age, queueVars, workerVars
<1>5. CASE WriteChat
  BY <1>0, <1>5, ChatWritten, OutsideMentions DEF queueVars, workerVars
<1>. QED
  BY ZenonT(30), <1>1, <1>2, <1>3, <1>4, <1>5 DEF Environment

LEMMA PurgeMentions ==
    ASSUME Inv, MentionInv, Next, Purge
    PROVE  MentionInv'
<1>. DEFINE E == {e \in Event : body[e] /\ status[e] # "processing"
                                /\ \E k \in 1 .. aged : arrived[k] = e}
<1>1. /\ status' = [e \in Event |-> IF e \in E THEN "succeeded" ELSE status[e]]
      /\ body' = [e \in Event |-> body[e] /\ e \notin E]
      /\ UNCHANGED <<arrived, jobs>>
  BY DEF Purge, PurgeEvents
<1>2. UNCHANGED <<step, found, chat, marked, active, aged>> /\ body \in [Event -> BOOLEAN]
  BY DEF Purge, workerVars, Inv, TypeOK, QueueTypeOK
<1>3. \A e \in Event \ E : status'[e] = status[e] /\ body'[e] = body[e]
  <2>. HIDE DEF E
  <2>1. ASSUME NEW e \in Event \ E
        PROVE  status'[e] = status[e] /\ (body'[e] <=> body[e])
    BY <1>1, Zenon
  <2>2. body' \in [Event -> BOOLEAN]
    BY <1>1
  <2>. QED
    BY <1>2, <2>1, <2>2
<1>4. \A m \in Message : Receive(m) \in E => m \in Expired'
  <2>1. \A e \in E : \E k \in 1 .. aged : arrived[k] = e
    BY Zenon
  <2>. HIDE DEF E
  <2>. QED
    BY <1>1, <1>2, <2>1 DEF Expired
<1>5. \A m \in Message : m \in Expired'
              \/ /\ status'[Receive(m)] = "succeeded" => status[Receive(m)] = "succeeded"
                 /\ status'[Receive(m)] # "none" /\ body'[Receive(m)] = FALSE
                      => status[Receive(m)] # "none" /\ body[Receive(m)] = FALSE
  <2>. HIDE DEF E
  <2>. QED
    BY <1>3, <1>4, EventsOfMessages
<1>. QED
  BY <1>1, <1>2, <1>5, OutsideMentions DEF MentionInv, Steady, Calm

LEMMA MentionsNext ==
    ASSUME Answers = {"internal"}, ~Administered, Inv, MentionInv, [Next]_vars
    PROVE  MentionInv'
<1>1. CASE UNCHANGED vars
  BY <1>1 DEF vars, queueVars, storeVars, workerVars, MentionInv, Calm, Steady, Done, Gone, Empty,
              Ready, Reached, Excused, Undisturbed, Kept, Expired, Held
<1>2. CASE Next
  <2>1. ASSUME NEW w \in Worker, Progress(w)
        PROVE  MentionInv'
    BY <1>2, <2>1, ClaimMentions, HandlerMentions, FinishMentions DEF Progress
  <2>2. ASSUME NEW w \in Worker, Failure(w)
        PROVE  MentionInv'
    BY <1>2, <2>2, FailureMentions
  <2>3. CASE Environment \/ Purge
    BY <1>2, <2>3, EnvironmentMentions, PurgeMentions
  <2>. QED
    BY <1>2, <2>1, <2>2, <2>3 DEF Next
<1>. QED
  BY <1>1, <1>2

(* If the chat is internal whenever Feishu is asked, whoever asks, and the *)
(* administrator does not mark it unsupported, no mention is lost, with    *)
(* any number of workers that fail, restart and take over each        *)
(* other's events (_event_loop, MentionProcessor, enqueue_event).          *)
THEOREM MentionsKept ==
    ASSUME Answers = {"internal"}, ~Administered
    PROVE  Spec => []NoMentionLost
<1>1. Inv /\ MentionInv /\ [Next]_vars => MentionInv'
  BY MentionsNext
<1>2. MentionInv => NoMentionLost
  <2>. SUFFICES ASSUME MentionInv, NEW m \in Message, status[Receive(m)] = "succeeded",
                       m \notin Expired, Undisturbed
                PROVE  \A u \in Direct[m] \ Fickle : item[m][u] # "none"
    BY DEF NoMentionLost, Undisturbed
  <2>. QED
    BY DEF MentionInv, Done, Excused, Kept
<1>. QED
  BY <1>1, <1>2, MentionsInit, Inductive, PTL DEF Spec

-----------------------------------------------------------------------------
(* Quarantine. *)

(* Where a worker finds targets and stores them, the chat is classified.   *)
Classified == {"internal", "external"}
Admitted   == \A w \in Worker : step[w] \in {"direct", "all", "save"} => chat \in Classified

LEMMA AdmittedInit == Init => Admitted
  BY DEF Init, Admitted

LEMMA AdmittedNext ==
    ASSUME \A v, w \in Worker : v = w, Inv, Admitted, [Next]_vars
    PROVE  Admitted'
<1>. USE DEF Inv, TypeOK, Goto, queueVars, storeVars, workerVars
<1>1. ASSUME NEW w \in Worker, Claim(w) \/ Finish(w) \/ Failure(w)
      PROVE  Admitted'
  BY <1>1 DEF Claim, Finish, Failure, HandlerFails, Abandon, Restart, NextJob, Admitted
<1>2. ASSUME NEW w \in Worker, SkipEmpty(w) \/ Quarantine(w) \/ ConfirmChat(w)
      PROVE  Admitted'
  BY <1>2 DEF SkipEmpty, Quarantine, ConfirmChat, Admitted
<1>3. ASSUME NEW w \in Worker, NEW m \in Message,
             \/ GetChat(w, m) \/ ResolveChat(w, m) \/ FindDirect(w, m) \/ FindAll(w, m)
             \/ SaveTargets(w, m) \/ RecallMessage(w, m)
      PROVE  Admitted'
  <2>1. CASE GetChat(w, m)
    BY <2>1 DEF GetChat, Admitted, Open, Classified
  <2>2. CASE ResolveChat(w, m)
    BY <2>2, IntakeAssumption DEF ResolveChat, Admitted, Classified
  <2>3. CASE FindDirect(w, m)
    BY <2>3 DEF FindDirect, Handling, Admitted
  <2>4. CASE FindAll(w, m)
    BY <2>4 DEF FindAll, Handling, Admitted
  <2>5. CASE SaveTargets(w, m) \/ RecallMessage(w, m)
    BY <2>5 DEF SaveTargets, RecallMessage, Admitted
  <2>. QED
    BY <1>3, <2>1, <2>2, <2>3, <2>4, <2>5
<1>4. CASE Purge
  BY <1>4 DEF Purge, Admitted
<1>5. ASSUME NEW e \in Event, Accept(e)
      PROVE  Admitted'
  BY <1>5 DEF Accept, Admitted
<1>6. ASSUME NEW m \in Message, NEW u \in User, Edit(m, u)
      PROVE  Admitted'
  BY <1>6 DEF Edit, Admitted
<1>7. ASSUME NEW u \in User, Toggle(u)
      PROVE  Admitted'
  BY <1>7 DEF Toggle, Admitted
<1>8. CASE Age
  BY <1>8 DEF Age, Admitted
<1>9. CASE UNCHANGED vars
  BY <1>9 DEF vars, Admitted
<1>10. CASE WriteChat
  BY <1>10, ChatWritten, IntakeAssumption DEF Admitted, Classified
<1>. HIDE DEF Inv, TypeOK, Goto, queueVars, storeVars, workerVars
<1>. QED
  BY ZenonT(30), <1>1, <1>2, <1>3, <1>4, <1>5, <1>6, <1>7, <1>8, <1>9, <1>10
     DEF Next, Progress, Handler, Environment

(* Only save_message_targets stores a message. *)
LEMMA OnlySaved ==
    ASSUME Inv, Next, NEW m \in Message, source[m] = "none", source'[m] = "kept"
    PROVE  \E w \in Worker : step[w] = "save"
<1>. USE DEF storeVars, workerVars
<1>1. ASSUME NEW w \in Worker, NEW n \in Message, SaveTargets(w, n)
      PROVE  step[w] = "save"
  BY <1>1 DEF SaveTargets, Handling
<1>2. ASSUME NEW w \in Worker, NEW n \in Message,
             \/ GetChat(w, n) \/ ResolveChat(w, n) \/ FindDirect(w, n) \/ FindAll(w, n)
      PROVE  FALSE
  BY <1>2 DEF GetChat, ResolveChat, FindDirect, FindAll
<1>3. ASSUME NEW w \in Worker, NEW n \in Message, RecallMessage(w, n)
      PROVE  FALSE
  BY <1>3 DEF RecallMessage, Inv, TypeOK
<1>4. ASSUME NEW w \in Worker, SkipEmpty(w) \/ Quarantine(w) \/ ConfirmChat(w)
      PROVE  FALSE
  BY <1>4 DEF SkipEmpty, Quarantine, ConfirmChat
<1>5. ASSUME NEW w \in Worker, Claim(w) \/ Finish(w) \/ Failure(w)
      PROVE  FALSE
  BY <1>5 DEF Claim, Finish, Failure, HandlerFails, Abandon, Restart
<1>6. CASE Purge
  BY <1>6 DEF Purge
<1>7. CASE Environment
  BY <1>7, ChatWritten DEF Environment, Accept, Edit, Toggle, Age
<1>. QED
  BY ZenonT(30), <1>1, <1>2, <1>3, <1>4, <1>5, <1>6, <1>7 DEF Next, Progress, Handler

(* With one event worker, nothing is stored between the bot's arrival in a *)
(* chat and the next classification of the chat, be it the one asked for   *)
(* or a listing of chats, which may be out of date, and whatever listings  *)
(* and the administrator write between a handler's look at the chat and    *)
(* its storing (process_receive_event, set_bot_membership,                 *)
(* replace_user_chats).  That the chat is still internal then is not said, *)
(* and not so.                                                             *)
THEOREM QuarantineHolds ==
    ASSUME \A v, w \in Worker : v = w
    PROVE  Spec => NoStoreWhileQuarantined
<1>1. Inv /\ Admitted /\ [Next]_vars => Admitted'
  BY AdmittedNext
<1>2. Inv /\ Admitted /\ [Next]_vars
        => [\A m \in Message : source[m] = "none" /\ source'[m] = "kept"
                                  => chat \in {"internal", "external"}]_vars
  BY OnlySaved DEF Admitted, Classified
<1>. QED
  BY <1>1, <1>2, AdmittedInit, Inductive, PTL DEF Spec, NoStoreWhileQuarantined

-----------------------------------------------------------------------------
(* The intake implements Mailbox. *)

LEMMA MailboxInit == Init => M!Init
  BY DEF Init, QueueInit, M!Init, Expired

LEMMA MailboxNext ==
    ASSUME Inv, Next
    PROVE  M!Next \/ UNCHANGED M!vars
<1>. USE DEF storeVars, workerVars, M!vars
<1>0. UNCHANGED <<arrived, aged>> => Expired' = Expired
  BY DEF Expired
<1>1. ASSUME NEW w \in Worker, NEW m \in Message, SaveTargets(w, m)
      PROVE  M!Next
  <2>1. found[w] \in SUBSET User /\ found[w] # {}
    BY <1>1 DEF SaveTargets, Handling, Inv, TypeOK, Targets
  <2>2. M!Deliver(m, found[w])
    BY <1>0, <1>1 DEF SaveTargets, queueVars, M!Deliver
  <2>. QED
    BY <2>1, <2>2 DEF M!Next
<1>2. ASSUME NEW w \in Worker, NEW m \in Message, RecallMessage(w, m)
      PROVE  M!Next \/ UNCHANGED M!vars
  <2>1. UNCHANGED Expired
    BY <1>0, <1>2 DEF RecallMessage, queueVars
  <2>2. CASE source[m] = "none"
    BY <1>2, <2>1, <2>2 DEF RecallMessage
  <2>3. CASE source[m] # "none"
    <3>1. M!Recall(m)
      BY <1>2, <2>1, <2>3 DEF RecallMessage, M!Recall
    <3>. QED
      BY <3>1 DEF M!Next
  <2>. QED
    BY <2>2, <2>3
<1>3. ASSUME NEW w \in Worker, NEW m \in Message,
             GetChat(w, m) \/ ResolveChat(w, m) \/ FindDirect(w, m) \/ FindAll(w, m)
      PROVE  UNCHANGED M!vars
  BY <1>0, <1>3 DEF GetChat, ResolveChat, FindDirect, FindAll, queueVars
<1>4. ASSUME NEW w \in Worker, SkipEmpty(w) \/ Quarantine(w) \/ ConfirmChat(w)
      PROVE  UNCHANGED M!vars
  BY <1>0, <1>4 DEF SkipEmpty, Quarantine, ConfirmChat, queueVars
<1>5. ASSUME NEW w \in Worker, Claim(w) \/ Finish(w) \/ Failure(w)
      PROVE  UNCHANGED M!vars
  <2>1. UNCHANGED <<source, item, arrived, aged>>
    BY <1>5 DEF Claim, ClaimEvents, Take, Finish, FinishEvent, Failure, HandlerFails, RetryEvent,
                Abandon, AbandonBatch, Restart, RestartQueue
  <2>. QED
    BY <1>0, <2>1
<1>6. CASE Purge
  <2>1. M!Clear
    BY <1>0, <1>6 DEF Purge, PurgeEvents, M!Clear
  <2>. QED
    BY <2>1 DEF M!Next
<1>7. ASSUME NEW m \in Message, NEW u \in User, Edit(m, u)
      PROVE  M!Next
  <2>1. M!Edit(m, u)
    BY <1>0, <1>7 DEF Edit, queueVars, ItemState, M!Edit, M!ItemState
  <2>. QED
    BY <2>1 DEF M!Next
<1>8. CASE Age
  <2>1. Expired \subseteq Expired' /\ Expired' \in SUBSET Message
    BY ExpiredStays DEF Expired
  <2>2. M!Expire
    BY <1>8, <2>1 DEF Age, M!Expire
  <2>. QED
    BY <2>2 DEF M!Next
<1>9. ASSUME NEW u \in User, Toggle(u)
      PROVE  UNCHANGED M!vars
  BY <1>0, <1>9 DEF Toggle, queueVars
<1>10. ASSUME NEW e \in Event, Accept(e)
       PROVE  M!Next
  <2>1. Expired \subseteq Expired' /\ Expired' \in SUBSET Message
    BY ExpiredStays DEF Expired
  <2>2. M!Expire
    BY <1>10, <2>1 DEF Accept, M!Expire
  <2>. QED
    BY <2>2 DEF M!Next
<1>13. CASE WriteChat
  BY <1>0, <1>13, ChatWritten DEF queueVars
<1>11. CASE Environment
  BY ZenonT(30), <1>7, <1>8, <1>9, <1>10, <1>11, <1>13 DEF Environment
<1>12. ASSUME NEW w \in Worker, Handler(w)
       PROVE  M!Next \/ UNCHANGED M!vars
  <2>. HIDE DEF storeVars, workerVars, M!vars
  <2>. QED
    BY ZenonT(30), <1>1, <1>2, <1>3, <1>4, <1>12 DEF Handler
<1>. QED
  BY <1>5, <1>6, <1>11, <1>12 DEF Next, Progress

(* Messages are stored once, items are opened once and then only changed   *)
(* by their user and a recall, and a text that was cleared does not come   *)
(* back (save_message_targets, recall_message, purge_expired_content).     *)
THEOREM MailboxSafe == Spec => RefinesMailboxSafely
<1>1. Inv /\ [Next]_vars => [M!Next]_M!vars
  <2>1. UNCHANGED vars => UNCHANGED M!vars
    BY DEF vars, queueVars, storeVars, M!vars, Expired
  <2>. QED
    BY <2>1, MailboxNext
<1>. QED
  BY <1>1, MailboxInit, Inductive, PTL DEF Spec, RefinesMailboxSafely, M!Safe
=============================================================================
