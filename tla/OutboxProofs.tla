---------------------------- MODULE OutboxProofs ----------------------------
(***************************************************************************)
(* Theorems about Outbox for any items, workers and bounds.                *)
(*                                                                         *)
(* The argument.  PreparedRead says that a worker only sends, finishes or  *)
(* retries items it has read; HeldJobsKnown that the version it read is    *)
(* not older than the job it holds, and that what it supersedes leaves it  *)
(* holding another job of the item, not yet read.  So the job of an item's *)
(* current version ends either with that version recorded, or superseded   *)
(* by a worker that will still read the item; and such a worker drops the  *)
(* item only by recording it (GroupRecorded) or by failing.                *)
(***************************************************************************)
EXTENDS Outbox, SequenceTheorems, FiniteSetTheorems, TLAPS

(* Forgetting items keeps the types of what a worker remembers.            *)
LEMMA ForgetType ==
    ASSUME WorkerTypeOK, NEW w \in Worker, NEW S \in SUBSET Item, Forget(w, S)
    PROVE  /\ keep'   \in [Worker -> [Item -> 0 .. MaxVersion]]
           /\ read'   \in [Worker -> [Item -> 0 .. MaxVersion]]
           /\ target' \in [Worker -> [Item -> Nat]]
           /\ ready'  \in [Worker -> SUBSET Item]
           /\ \A x \in Worker, i \in Item : target'[x][i] \in {0, target[x][i]}
  BY OutboxAssumption DEF WorkerTypeOK, Forget, Without

LEMMA LeaveType ==
    ASSUME WorkerTypeOK, NEW w \in Worker, NEW i \in Item, Leave(w, i), old' = old
    PROVE  /\ WorkerTypeOK'
           /\ \A x \in Worker, k \in Item : target'[x][k] \in {0, target[x][k]}
<1>1. CASE left[w] = {i}
  BY <1>1, ForgetType DEF Leave, WorkerTypeOK, Phase
<1>2. CASE left[w] # {i}
  BY <1>2 DEF Leave, WorkerTypeOK
<1>. QED  BY <1>1, <1>2

LEMMA ResetType ==
    ASSUME WorkerTypeOK, NEW w \in Worker, Reset(w)
    PROVE  /\ WorkerTypeOK'
           /\ \A x \in Worker, k \in Item : target'[x][k] \in {0, target[x][k]}
<1>1. \A x \in Worker, k \in Item : target'[x][k] \in {0, target[x][k]}
  BY ForgetType DEF Reset
<1>2. Empty \in [Item -> SUBSET Version]
  BY DEF Empty
<1>3. old' \in [Worker -> [Item -> SUBSET Version]]
  BY <1>2 DEF Reset, WorkerTypeOK
<1>. QED  BY <1>1, <1>3, ForgetType DEF Reset, WorkerTypeOK, Phase

-----------------------------------------------------------------------------
(* Type correctness.  It needs PreparedRead: a worker that wrote an item   *)
(* it had not read would write version 0 into a row.                       *)

TypeInv == TypeOK /\ PreparedRead

LEMMA TypeInit == Init => TypeInv
<1>. SUFFICES ASSUME Init PROVE TypeInv
  OBVIOUS
<1>1. DbTypeOK
  BY OutboxAssumption DEF Init, DbTypeOK, Zero, Status, Version
<1>2. WorkerTypeOK
  BY OutboxAssumption DEF Init, WorkerTypeOK, Zero, Empty, Phase
<1>3. TableTypeOK
  <2>1. <<>> \in Seq(Version) /\ Len(<<>>) = 0
    OBVIOUS
  <2>. QED  BY <2>1 DEF Init, TableTypeOK, Zero
<1>4. PreparedRead
  BY DEF Init, PreparedRead, Zero
<1>. QED  BY <1>1, <1>2, <1>3, <1>4 DEF TypeInv, TypeOK

(* The steps that leave the table and the workers' targets alone.          *)
LEMMA TableKept ==
    ASSUME TableTypeOK, DbTypeOK, WorkerTypeOK, rows' = rows, record' = record,
           \A w \in Worker, i \in Item : target'[w][i] \in {0, target[w][i]}
    PROVE  TableTypeOK'
<1>1. \A i \in Item : Len(rows[i]) \in Nat
  BY LenProperties DEF TableTypeOK
<1>2. ASSUME NEW w \in Worker, NEW i \in Item
      PROVE  target'[w][i] <= Len(rows[i])
  <2>1. target[w][i] <= Len(rows[i]) /\ target[w][i] \in Nat
    BY DEF TableTypeOK, WorkerTypeOK
  <2>2. target'[w][i] = 0 \/ target'[w][i] = target[w][i]
    OBVIOUS
  <2>. QED  BY <1>1, <2>1, <2>2
<1>. QED  BY <1>2 DEF TableTypeOK

(* Forgetting, finishing or giving up an item keeps PreparedRead.          *)
LEMMA LeavePrepared ==
    ASSUME WorkerTypeOK, PreparedRead, NEW w \in Worker, NEW i \in Item, Leave(w, i)
    PROVE  PreparedRead'
<1>1. CASE left[w] = {i}
  BY <1>1 DEF Leave, Forget, Without, PreparedRead, WorkerTypeOK
<1>2. CASE left[w] # {i}
  BY <1>2 DEF Leave, PreparedRead, WorkerTypeOK
<1>. QED  BY <1>1, <1>2

(* A successful or lost batch_create appends rows; a batch_update replaces *)
(* what a row shows.                                                       *)
LEMMA CreatedTable ==
    ASSUME DbTypeOK, WorkerTypeOK, TableTypeOK, PreparedRead, NEW w \in Worker, Created(w),
           record' = record,
           \/ target' = target
           \/ target' = [target EXCEPT ![w] = [i \in Item |->
                           IF i \in Creates(w) THEN Len(rows[i]) + 1 ELSE @[i]]]
    PROVE  TableTypeOK'
<1>1. ASSUME NEW i \in Item
      PROVE  /\ rows'[i] \in Seq(Version)
             /\ Len(rows[i]) \in Nat
             /\ Len(rows'[i]) = IF i \in Creates(w) THEN Len(rows[i]) + 1 ELSE Len(rows[i])
  <2>1. rows[i] \in Seq(Version)
    BY DEF TableTypeOK
  <2>2. CASE i \in Creates(w)
    <3>1. read[w][i] \in Version
      BY <2>2, OutboxAssumption DEF Creates, PreparedRead, WorkerTypeOK, Version
    <3>. QED  BY <2>1, <2>2, <3>1, AppendProperties, LenProperties DEF Created
  <2>3. CASE i \notin Creates(w)
    BY <2>1, <2>3, LenProperties DEF Created
  <2>. QED  BY <2>2, <2>3
<1>2. rows' \in [Item -> Seq(Version)]
  BY <1>1 DEF Created
<1>3. ASSUME NEW i \in Item PROVE record'[i] <= Len(rows'[i])
  <2>1. record[i] \in Nat /\ record[i] <= Len(rows[i])
    BY DEF TableTypeOK, DbTypeOK
  <2>2. Len(rows[i]) \in Nat /\ Len(rows[i]) <= Len(rows'[i])
    BY <1>1
  <2>3. Len(rows'[i]) \in Nat
    BY <1>1
  <2>. QED  BY <2>1, <2>2, <2>3
<1>4. ASSUME NEW x \in Worker, NEW i \in Item
      PROVE  target'[x][i] <= Len(rows'[i])
  <2>1. target[x][i] \in Nat /\ target[x][i] <= Len(rows[i])
    BY DEF TableTypeOK, WorkerTypeOK
  <2>2. CASE target' = target
    BY <1>1, <2>1, <2>2
  <2>3. CASE target' = [target EXCEPT ![w] = [k \in Item |->
                          IF k \in Creates(w) THEN Len(rows[k]) + 1 ELSE @[k]]]
    <3>1. target'[x][i] = IF x = w /\ i \in Creates(w) THEN Len(rows[i]) + 1 ELSE target[x][i]
      BY <2>3 DEF WorkerTypeOK
    <3>. QED  BY <1>1, <2>1, <3>1
  <2>. QED  BY <2>2, <2>3
<1>. QED  BY <1>2, <1>3, <1>4 DEF TableTypeOK

LEMMA UpdatedTable ==
    ASSUME DbTypeOK, WorkerTypeOK, TableTypeOK, PreparedRead, NEW w \in Worker, Updated(w),
           record' = record, target' = target
    PROVE  TableTypeOK'
<1>1. ASSUME NEW i \in Item
      PROVE  rows'[i] \in Seq(Version) /\ Len(rows'[i]) = Len(rows[i])
  <2>1. rows[i] \in Seq(Version) /\ Len(rows[i]) \in Nat
    BY LenProperties DEF TableTypeOK
  <2>2. CASE i \in Updates(w)
    <3>1. read[w][i] \in Version
      BY <2>2, OutboxAssumption DEF Updates, PreparedRead, WorkerTypeOK, Version
    <3>2. target[w][i] \in 1 .. Len(rows[i])
      BY <2>1, <2>2 DEF Updates, Creates, TableTypeOK, WorkerTypeOK
    <3>3. rows'[i] = [rows[i] EXCEPT ![target[w][i]] = read[w][i]]
      BY <2>2 DEF Updated
    <3>. QED  BY <2>1, <3>1, <3>2, <3>3, ExceptSeq
  <2>3. CASE i \notin Updates(w)
    BY <2>1, <2>3 DEF Updated
  <2>. QED  BY <2>2, <2>3
<1>2. rows' \in [Item -> Seq(Version)]
  BY <1>1 DEF Updated
<1>. QED  BY <1>1, <1>2 DEF TableTypeOK

LEMMA TypeNext == TypeInv /\ [Next]_vars => TypeInv'
<1>. SUFFICES ASSUME DbTypeOK, WorkerTypeOK, TableTypeOK, PreparedRead, [Next]_vars
              PROVE  DbTypeOK' /\ WorkerTypeOK' /\ TableTypeOK' /\ PreparedRead'
  BY DEF TypeInv, TypeOK
<1>. USE OutboxAssumption
<1>lens. \A i \in Item : Len(rows[i]) \in Nat
  BY LenProperties DEF TableTypeOK
<1>1. ASSUME NEW i \in Item, Change(i)
      PROVE  DbTypeOK' /\ WorkerTypeOK' /\ TableTypeOK' /\ PreparedRead'
  <2>1. DbTypeOK'
    BY <1>1 DEF Change, Enqueue, DbTypeOK, Status, Unfinished, Version
  <2>2. WorkerTypeOK' /\ TableTypeOK' /\ PreparedRead'
    BY <1>1 DEF Change, workerVars, WorkerTypeOK, TableTypeOK, PreparedRead
  <2>. QED  BY <2>1, <2>2
<1>2. CASE Reconcile
  <2>1. DbTypeOK'
    BY <1>2 DEF Reconcile, DbTypeOK, Status, Unfinished
  <2>2. WorkerTypeOK' /\ TableTypeOK' /\ PreparedRead'
    BY <1>2 DEF Reconcile, workerVars, WorkerTypeOK, TableTypeOK, PreparedRead
  <2>. QED  BY <2>1, <2>2
<1>3. ASSUME NEW w \in Worker, Claim(w)
      PROVE  DbTypeOK' /\ WorkerTypeOK' /\ TableTypeOK' /\ PreparedRead'
  <2>1. PICK taken \in [Item -> SUBSET Version], kept \in [Item -> 0 .. MaxVersion] :
           /\ taken # Empty
           /\ \A i \in Item : \A v \in taken[i] : job[i][v] \in Unfinished
           /\ Retained(taken, kept)
           /\ job'  = [i \in Item |-> [v \in Version |->
                         IF v \in taken[i] THEN "processing" ELSE job[i][v]]]
           /\ keep' = [keep EXCEPT ![w] = kept]
           /\ old'  = [old EXCEPT ![w] = [i \in Item |-> taken[i] \ {kept[i]}]]
    BY <1>3 DEF Claim
  <2>2. DbTypeOK'
    BY <1>3, <2>1 DEF Claim, DbTypeOK, Status, Unfinished
  <2>3. WorkerTypeOK'
    BY <1>3, <2>1 DEF Claim, WorkerTypeOK, Phase
  <2>4. TableTypeOK'
    BY <1>3 DEF Claim, TableTypeOK
  <2>5. PreparedRead'
    BY <1>3, <2>1 DEF Claim, PreparedRead, WorkerTypeOK
  <2>. QED  BY <2>2, <2>3, <2>4, <2>5
<1>4. ASSUME NEW w \in Worker, FinishSuperseded(w)
      PROVE  DbTypeOK' /\ WorkerTypeOK' /\ TableTypeOK' /\ PreparedRead'
  <2>1. DbTypeOK'
    BY <1>4 DEF FinishSuperseded, DbTypeOK, Status, Unfinished
  <2>2. Empty \in [Item -> SUBSET Version]
    BY DEF Empty
  <2>3. WorkerTypeOK'
    BY <1>4, <2>2 DEF FinishSuperseded, WorkerTypeOK, Phase
  <2>4. TableTypeOK' /\ PreparedRead'
    BY <1>4 DEF FinishSuperseded, TableTypeOK, PreparedRead
  <2>. QED  BY <2>1, <2>3, <2>4
<1>5. ASSUME NEW w \in Worker, NEW i \in Item, ReadItem(w, i)
      PROVE  DbTypeOK' /\ WorkerTypeOK' /\ TableTypeOK' /\ PreparedRead'
  <2>1. DbTypeOK' /\ TableTypeOK'
    BY <1>5 DEF ReadItem, dbVars, DbTypeOK, TableTypeOK
  <2>2. WorkerTypeOK'
    BY <1>5 DEF ReadItem, dbVars, DbTypeOK, WorkerTypeOK
  <2>3. PreparedRead'
    BY <1>5 DEF ReadItem, InTurn, ToProject, PreparedRead, WorkerTypeOK
  <2>. QED  BY <2>1, <2>2, <2>3
<1>6. ASSUME NEW w \in Worker, NEW i \in Item, ReadMapping(w, i)
      PROVE  DbTypeOK' /\ WorkerTypeOK' /\ TableTypeOK' /\ PreparedRead'
  <2>1. DbTypeOK'
    BY <1>6 DEF ReadMapping, dbVars, DbTypeOK
  <2>2. WorkerTypeOK'
    BY <1>6 DEF ReadMapping, DbTypeOK, WorkerTypeOK
  <2>3. TableTypeOK'
    BY <1>6 DEF ReadMapping, dbVars, DbTypeOK, WorkerTypeOK, TableTypeOK
  <2>4. PreparedRead'
    BY <1>6 DEF ReadMapping, InTurn, ToProject, PreparedRead, WorkerTypeOK
  <2>. QED  BY <2>1, <2>2, <2>3, <2>4
<1>7. ASSUME NEW w \in Worker, NEW i \in Item, ProjectFails(w, i)
      PROVE  DbTypeOK' /\ WorkerTypeOK' /\ TableTypeOK' /\ PreparedRead'
  <2>1. DbTypeOK'
    BY <1>7 DEF ProjectFails, Fault, InTurn, ToProject, DbTypeOK, WorkerTypeOK, Version, Status, Unfinished
  <2>2. /\ WorkerTypeOK'
        /\ \A x \in Worker, k \in Item : target'[x][k] \in {0, target[x][k]}
    BY <1>7, ForgetType DEF ProjectFails, WorkerTypeOK
  <2>3. TableTypeOK'
    BY <1>7, <2>2, TableKept DEF ProjectFails
  <2>4. PreparedRead'
    BY <1>7 DEF ProjectFails, InTurn, ToProject, Forget, Without, PreparedRead, WorkerTypeOK
  <2>. QED  BY <2>1, <2>2, <2>3, <2>4
<1>8. ASSUME NEW w \in Worker, CreateRows(w)
      PROVE  DbTypeOK' /\ WorkerTypeOK' /\ TableTypeOK' /\ PreparedRead'
  <2>1. DbTypeOK'
    BY <1>8 DEF CreateRows, Outcome, dbVars, DbTypeOK
  <2>2. WorkerTypeOK'
    BY <1>8, <1>lens DEF CreateRows, Outcome, Creates, WorkerTypeOK, Phase
  <2>3. TableTypeOK'
    BY <1>8, CreatedTable DEF CreateRows, Outcome, dbVars
  <2>4. PreparedRead'
    BY <1>8 DEF CreateRows, Outcome, Creates, PreparedRead, WorkerTypeOK
  <2>. QED  BY <2>1, <2>2, <2>3, <2>4
<1>9. ASSUME NEW w \in Worker, CreateFails(w)
      PROVE  DbTypeOK' /\ WorkerTypeOK' /\ TableTypeOK' /\ PreparedRead'
  <2>1. DbTypeOK'
    BY <1>9 DEF CreateFails, Fault, Outcome, dbVars, DbTypeOK
  <2>2. WorkerTypeOK'
    BY <1>9 DEF CreateFails, Outcome, Creates, WorkerTypeOK, Phase
  <2>3. TableTypeOK'
    BY <1>9, CreatedTable DEF CreateFails, Outcome, dbVars, TableTypeOK
  <2>4. PreparedRead'
    BY <1>9 DEF CreateFails, Outcome, Creates, PreparedRead, WorkerTypeOK
  <2>. QED  BY <2>1, <2>2, <2>3, <2>4
<1>10. ASSUME NEW w \in Worker, UpdateRows(w)
       PROVE  DbTypeOK' /\ WorkerTypeOK' /\ TableTypeOK' /\ PreparedRead'
  <2>1. DbTypeOK'
    BY <1>10 DEF UpdateRows, Outcome, dbVars, DbTypeOK
  <2>2. WorkerTypeOK'
    BY <1>10 DEF UpdateRows, Outcome, Updates, Creates, WorkerTypeOK, Phase
  <2>3. TableTypeOK'
    BY <1>10, UpdatedTable DEF UpdateRows, Outcome, dbVars
  <2>4. PreparedRead'
    BY <1>10 DEF UpdateRows, Outcome, Updates, Creates, PreparedRead, WorkerTypeOK
  <2>. QED  BY <2>1, <2>2, <2>3, <2>4
<1>11. ASSUME NEW w \in Worker, UpdateFails(w)
       PROVE  DbTypeOK' /\ WorkerTypeOK' /\ TableTypeOK' /\ PreparedRead'
  <2>1. DbTypeOK'
    BY <1>11 DEF UpdateFails, Fault, Outcome, dbVars, DbTypeOK
  <2>2. WorkerTypeOK'
    BY <1>11 DEF UpdateFails, Outcome, Updates, Creates, WorkerTypeOK, Phase
  <2>3. TableTypeOK'
    BY <1>11, UpdatedTable DEF UpdateFails, Outcome, dbVars, TableTypeOK
  <2>4. PreparedRead'
    BY <1>11 DEF UpdateFails, Outcome, Updates, Creates, PreparedRead, WorkerTypeOK
  <2>. QED  BY <2>1, <2>2, <2>3, <2>4
<1>12. ASSUME NEW w \in Worker, NEW i \in Item, FinishJob(w, i)
       PROVE  DbTypeOK' /\ WorkerTypeOK' /\ TableTypeOK' /\ PreparedRead'
  <2>1. DbTypeOK'
    <3>1. job' \in [Item -> [Version -> Status]]
      BY <1>12 DEF FinishJob, DbTypeOK, Status
    <3>2. record' \in [Item -> Nat] /\ synced' \in [Item -> 0 .. MaxVersion]
      BY <1>12 DEF FinishJob, DbTypeOK, WorkerTypeOK
    <3>. QED  BY <1>12, <3>1, <3>2 DEF FinishJob, DbTypeOK
  <2>2. /\ WorkerTypeOK'
        /\ \A x \in Worker, k \in Item : target'[x][k] \in {0, target[x][k]}
    BY <1>12, LeaveType DEF FinishJob
  <2>3. \A x \in Worker, k \in Item : target[x][k] \in Nat /\ target[x][k] <= Len(rows[k])
    BY DEF WorkerTypeOK, TableTypeOK
  <2>4. \A x \in Worker, k \in Item : target'[x][k] <= Len(rows[k])
    BY <2>2, <2>3, <1>lens
  <2>5. TableTypeOK'
    BY <1>12, <2>3, <2>4 DEF FinishJob, TableTypeOK, DbTypeOK
  <2>6. PreparedRead'
    BY <1>12, LeavePrepared DEF FinishJob
  <2>. QED  BY <2>1, <2>2, <2>5, <2>6
<1>13. ASSUME NEW w \in Worker, FinishFails(w)
       PROVE  DbTypeOK' /\ WorkerTypeOK' /\ TableTypeOK' /\ PreparedRead'
  <2>1. DbTypeOK' /\ TableTypeOK'
    BY <1>13 DEF FinishFails, Fault, dbVars, DbTypeOK, TableTypeOK
  <2>2. WorkerTypeOK' /\ PreparedRead'
    BY <1>13 DEF FinishFails, WorkerTypeOK, Phase, PreparedRead
  <2>. QED  BY <2>1, <2>2
<1>14. ASSUME NEW w \in Worker, NEW i \in Item, RetryJob(w, i)
       PROVE  DbTypeOK' /\ WorkerTypeOK' /\ TableTypeOK' /\ PreparedRead'
  <2>1. DbTypeOK'
    BY <1>14 DEF RetryJob, DbTypeOK, Status, Unfinished
  <2>2. /\ WorkerTypeOK'
        /\ \A x \in Worker, k \in Item : target'[x][k] \in {0, target[x][k]}
    BY <1>14, LeaveType DEF RetryJob
  <2>3. TableTypeOK'
    BY <1>14, <2>2, TableKept DEF RetryJob
  <2>4. PreparedRead'
    BY <1>14, LeavePrepared DEF RetryJob
  <2>. QED  BY <2>1, <2>2, <2>3, <2>4
<1>15. ASSUME NEW w \in Worker, FinishBatch(w)
       PROVE  DbTypeOK' /\ WorkerTypeOK' /\ TableTypeOK' /\ PreparedRead'
  <2>1. DbTypeOK' /\ TableTypeOK'
    BY <1>15 DEF FinishBatch, dbVars, DbTypeOK, TableTypeOK
  <2>2. WorkerTypeOK'
    BY <1>15 DEF FinishBatch, WorkerTypeOK, Phase
  <2>3. PreparedRead'
    BY <1>15 DEF FinishBatch, ToProject, PreparedRead, WorkerTypeOK
  <2>. QED  BY <2>1, <2>2, <2>3
<1>16. ASSUME NEW w \in Worker, Abort(w)
       PROVE  DbTypeOK' /\ WorkerTypeOK' /\ TableTypeOK' /\ PreparedRead'
  <2>1. DbTypeOK'
    BY <1>16 DEF Abort, Fault, dbVars, DbTypeOK
  <2>2. TableTypeOK'
    BY <1>16, ResetType, TableKept DEF Abort, dbVars
  <2>3. PreparedRead'
    BY <1>16 DEF Abort, Reset, Forget, Without, PreparedRead, WorkerTypeOK
  <2>. QED  BY <1>16, <2>1, <2>2, <2>3, ResetType DEF Abort
<1>17. ASSUME NEW w \in Worker, Restart(w)
       PROVE  DbTypeOK' /\ WorkerTypeOK' /\ TableTypeOK' /\ PreparedRead'
  <2>1. DbTypeOK'
    BY <1>17 DEF Restart, Fault, DbTypeOK, Status, Unfinished
  <2>2. TableTypeOK'
    BY <1>17, ResetType, TableKept DEF Restart
  <2>3. PreparedRead'
    BY <1>17 DEF Restart, Reset, Forget, Without, PreparedRead, WorkerTypeOK
  <2>. QED  BY <1>17, <2>1, <2>2, <2>3, ResetType DEF Restart
<1>18. CASE UNCHANGED vars
  BY <1>18 DEF vars, workerVars, DbTypeOK, WorkerTypeOK, TableTypeOK, PreparedRead
<1>. QED
  BY <1>1, <1>2, <1>3, <1>4, <1>5, <1>6, <1>7, <1>8, <1>9, <1>10, <1>11, <1>12, <1>13,
     <1>14, <1>15, <1>16, <1>17, <1>18 DEF Next, Progress, Failure

(* Every state of the outbox is well typed, and every mapping names a row  *)
(* that exists: no crash or failure makes the worker record a row it never *)
(* created (finish_outbox, sqlite_repository.py).                          *)
THEOREM TypeCorrect == Spec => []TypeOK
<1>1. TypeInv => TypeOK
  BY DEF TypeInv
<1>. QED  BY TypeInit, TypeNext, <1>1, PTL DEF Spec

-----------------------------------------------------------------------------
(* No change is forgotten while nothing has failed, whatever the order of  *)
(* created_at.                                                             *)

Known == NoFutureJob /\ HeldJobsKnown /\ GroupRecorded

(* Forgetting items only weakens what a worker is known to hold.           *)
LEMMA ForgetKnown ==
    ASSUME WorkerTypeOK, HeldJobsKnown, NEW w \in Worker, NEW S \in SUBSET Item,
           Forget(w, S), version' = version, version \in [Item -> 0 .. MaxVersion],
           \/ old' = old /\ pc[w] # "coalesce" /\ (pc'[w] = "idle" => pc[w] = "idle")
           \/ old' = [old EXCEPT ![w] = Empty] /\ S = Item,
           \A x \in Worker \ {w} : pc'[x] = pc[x]
    PROVE  HeldJobsKnown'
<1>. USE OutboxAssumption
<1>1. ASSUME NEW x \in Worker, NEW i \in Item
      PROVE  /\ keep'[x][i] <= version[i]
             /\ \A v \in old'[x][i] : v <= version[i]
             /\ read'[x][i] # 0 => keep'[x][i] <= read'[x][i]
             /\ old'[x][i] # {} => pc'[x] = "coalesce" /\ keep'[x][i] # 0
             /\ pc'[x] = "idle" => keep'[x][i] = 0
  <2>1. version[i] \in Nat
    OBVIOUS
  <2>2. CASE x = w
    <3>1. old'[x][i] = {}
      BY <2>2 DEF HeldJobsKnown, Empty, WorkerTypeOK
    <3>2. \/ keep'[x][i] = keep[x][i] /\ read'[x][i] = read[x][i]
          \/ keep'[x][i] = 0 /\ read'[x][i] = 0
      BY <2>2 DEF Forget, Without, WorkerTypeOK
    <3>3. pc'[w] = "idle" => keep'[w][i] = 0
      BY DEF HeldJobsKnown, Forget, Without, WorkerTypeOK
    <3>. QED  BY <2>1, <2>2, <3>1, <3>2, <3>3 DEF HeldJobsKnown
  <2>3. CASE x # w
    <3>1. old'[x] = old[x] /\ keep'[x] = keep[x] /\ read'[x] = read[x] /\ pc'[x] = pc[x]
      BY <2>3 DEF Forget, WorkerTypeOK
    <3>. QED  BY <3>1 DEF HeldJobsKnown
  <2>. QED  BY <2>2, <2>3
<1>. QED  BY <1>1 DEF HeldJobsKnown

LEMMA LeaveKnown ==
    ASSUME DbTypeOK, WorkerTypeOK, PreparedRead, HeldJobsKnown, NEW w \in Worker,
           NEW i \in Item, Leave(w, i), pc[w] \in {"finish", "retry"}, version' = version,
           old' = old
    PROVE  HeldJobsKnown'
<1>1. CASE left[w] = {i}
  <2>1. group[w] \in SUBSET Item /\ Forget(w, group[w])
    BY <1>1 DEF Leave, WorkerTypeOK
  <2>2. pc'[w] = "project" /\ \A x \in Worker \ {w} : pc'[x] = pc[x]
    BY <1>1 DEF Leave, WorkerTypeOK
  <2>. QED  BY <2>1, <2>2, ForgetKnown DEF DbTypeOK
<1>2. CASE left[w] # {i}
  BY <1>2 DEF Leave, HeldJobsKnown
<1>. QED  BY <1>1, <1>2

LEMMA KnownInit == Init => Known
<1>. SUFFICES ASSUME Init PROVE Known
  OBVIOUS
<1>1. NoFutureJob
  BY DEF Init, NoFutureJob
<1>2. HeldJobsKnown
  <2>1. \A w \in Worker, i \in Item :
          keep[w][i] = 0 /\ old[w][i] = {} /\ read[w][i] = 0 /\ version[i] = 0
    BY DEF Init, Zero, Empty
  <2>. QED  BY <2>1 DEF HeldJobsKnown
<1>3. GroupRecorded
  BY DEF Init, GroupRecorded
<1>. QED  BY <1>1, <1>2, <1>3 DEF Known

LEMMA KnownNext == TypeInv /\ Known /\ [Next]_vars => Known'
<1>. SUFFICES ASSUME DbTypeOK, WorkerTypeOK, PreparedRead,
                     NoFutureJob, HeldJobsKnown, GroupRecorded, [Next]_vars
              PROVE  NoFutureJob' /\ HeldJobsKnown' /\ GroupRecorded'
  BY DEF TypeInv, TypeOK, Known
<1>. USE OutboxAssumption
<1>held. \A w \in Worker, i \in Item :
           /\ keep[w][i] \in 0 .. MaxVersion /\ read[w][i] \in 0 .. MaxVersion
           /\ old[w][i] \subseteq Version
  BY DEF WorkerTypeOK
<1>db. \A i \in Item : version[i] \in 0 .. MaxVersion /\ synced[i] \in 0 .. MaxVersion
  BY DEF DbTypeOK
<1>flt. faults \in Nat
  BY DEF DbTypeOK
<1>1. ASSUME NEW i \in Item, Change(i)
      PROVE  NoFutureJob' /\ HeldJobsKnown' /\ GroupRecorded'
  <2>1. version[i] + 1 \in Version
    BY <1>1, <1>db DEF Change, Version
  <2>2. \A k \in Item : version'[k] = IF k = i THEN version[i] + 1 ELSE version[k]
    BY <1>1 DEF Change, DbTypeOK
  <2>3. \A k \in Item, v \in Version :
          job'[k][v] = IF k = i /\ v = version[i] + 1 /\ job[k][v] = "none"
                       THEN "pending" ELSE job[k][v]
    BY <1>1 DEF Change, Enqueue, DbTypeOK
  <2>4. NoFutureJob'
    BY <2>2, <2>3, <1>db DEF NoFutureJob, Version
  <2>5. HeldJobsKnown'
    <3>1. keep' = keep /\ old' = old /\ read' = read /\ pc' = pc
      BY <1>1 DEF Change, workerVars
    <3>2. \A w \in Worker, k \in Item : \A v \in old[w][k] : v \in Nat
      BY <1>held DEF Version
    <3>. QED  BY <2>2, <3>1, <3>2, <1>held, <1>db DEF HeldJobsKnown
  <2>6. GroupRecorded'
    BY <1>1 DEF Change, workerVars, GroupRecorded
  <2>. QED  BY <2>4, <2>5, <2>6
<1>2. CASE Reconcile
  <2>1. HeldJobsKnown' /\ GroupRecorded'
    BY <1>2 DEF Reconcile, workerVars, HeldJobsKnown, GroupRecorded
  <2>2. NoFutureJob'
    BY <1>2, <1>db DEF Reconcile, NoFutureJob, Version
  <2>. QED  BY <2>1, <2>2
<1>3. ASSUME NEW w \in Worker, Claim(w)
      PROVE  NoFutureJob' /\ HeldJobsKnown' /\ GroupRecorded'
  <2>1. PICK taken \in [Item -> SUBSET Version], kept \in [Item -> 0 .. MaxVersion] :
           /\ \A i \in Item : \A v \in taken[i] : job[i][v] \in Unfinished
           /\ Retained(taken, kept)
           /\ job'  = [i \in Item |-> [v \in Version |->
                         IF v \in taken[i] THEN "processing" ELSE job[i][v]]]
           /\ keep' = [keep EXCEPT ![w] = kept]
           /\ old'  = [old EXCEPT ![w] = [i \in Item |-> taken[i] \ {kept[i]}]]
    BY <1>3 DEF Claim
  <2>2. ASSUME NEW i \in Item, NEW v \in taken[i]
        PROVE  v \in Nat /\ v <= version[i]
    <3>1. v \in Version /\ job[i][v] # "none"
      BY <2>1 DEF Unfinished
    <3>. QED  BY <3>1, <1>db DEF NoFutureJob, Version
  <2>3. \A i \in Item : kept[i] <= version[i] /\ (taken[i] # {} => kept[i] # 0)
    BY <2>1, <2>2, <1>db DEF Retained, Version
  <2>4. HeldJobsKnown'
    <3>1. version' = version /\ read' = read /\ \A i \in Item : read[w][i] = 0
      BY <1>3 DEF Claim, PreparedRead
    <3>2. pc' = [pc EXCEPT ![w] = "coalesce"]
      BY <1>3 DEF Claim
    <3>3. ASSUME NEW x \in Worker, NEW i \in Item
          PROVE  /\ keep'[x][i] <= version[i]
                 /\ \A v \in old'[x][i] : v <= version[i]
                 /\ read[x][i] # 0 => keep'[x][i] <= read[x][i]
                 /\ old'[x][i] # {} => pc'[x] = "coalesce" /\ keep'[x][i] # 0
                 /\ pc'[x] = "idle" => keep'[x][i] = 0
      <4>1. CASE x = w
        <5>1. keep'[x][i] = kept[i] /\ old'[x][i] = taken[i] \ {kept[i]} /\ pc'[x] = "coalesce"
          BY <2>1, <3>2, <4>1 DEF WorkerTypeOK
        <5>. QED  BY <2>2, <2>3, <3>1, <4>1, <5>1
      <4>2. CASE x # w
        <5>1. keep'[x] = keep[x] /\ old'[x] = old[x] /\ pc'[x] = pc[x]
          BY <2>1, <3>2, <4>2 DEF WorkerTypeOK
        <5>. QED  BY <5>1 DEF HeldJobsKnown
      <4>. QED  BY <4>1, <4>2
    <3>. QED  BY <3>1, <3>3 DEF HeldJobsKnown
  <2>5. NoFutureJob'
    BY <1>3, <2>1, <2>2, <1>db DEF Claim, NoFutureJob, Version
  <2>6. GroupRecorded'
    BY <1>3 DEF Claim, GroupRecorded, WorkerTypeOK
  <2>. QED  BY <2>4, <2>5, <2>6
<1>4. ASSUME NEW w \in Worker, FinishSuperseded(w)
      PROVE  NoFutureJob' /\ HeldJobsKnown' /\ GroupRecorded'
  <2>1. \A i \in Item, v \in Version :
          job'[i][v] = IF v \in old[w][i] THEN "succeeded" ELSE job[i][v]
    BY <1>4 DEF FinishSuperseded
  <2>2. \A i \in Item : \A v \in old[w][i] : v \in Nat /\ v <= version[i]
    BY <1>held DEF HeldJobsKnown, Version
  <2>3. NoFutureJob'
    BY <1>4, <2>1, <2>2, <1>db DEF FinishSuperseded, NoFutureJob, Version
  <2>4. HeldJobsKnown'
    BY <1>4 DEF FinishSuperseded, HeldJobsKnown, WorkerTypeOK, Empty
  <2>5. GroupRecorded'
    BY <1>4 DEF FinishSuperseded, GroupRecorded, WorkerTypeOK
  <2>. QED  BY <2>3, <2>4, <2>5
<1>5. ASSUME NEW w \in Worker, NEW i \in Item, ReadItem(w, i)
      PROVE  NoFutureJob' /\ HeldJobsKnown' /\ GroupRecorded'
  <2>1. NoFutureJob'
    BY <1>5 DEF ReadItem, dbVars, NoFutureJob
  <2>2. HeldJobsKnown'
    BY <1>5 DEF ReadItem, dbVars, HeldJobsKnown, WorkerTypeOK
  <2>3. GroupRecorded'
    <3>1. pc[w] = "project" /\ pc' = pc /\ \A x \in Worker \ {w} : read'[x] = read[x]
      BY <1>5 DEF ReadItem, InTurn, WorkerTypeOK
    <3>2. UNCHANGED <<group, left, faults, synced>>
      BY <1>5 DEF ReadItem, dbVars
    <3>. QED  BY <3>1, <3>2 DEF GroupRecorded
  <2>. QED  BY <2>1, <2>2, <2>3
<1>6. ASSUME NEW w \in Worker, NEW i \in Item, NEW s \in {"failed", "succeeded"},
             keep[w][i] # 0,
             job' = [job EXCEPT ![i][keep[w][i]] = s], version' = version
      PROVE  NoFutureJob'
  <2>1. \A k \in Item, v \in Version :
          job'[k][v] = IF k = i /\ v = keep[w][i] THEN s ELSE job[k][v]
    BY <1>6, <1>held DEF DbTypeOK, Version
  <2>2. keep[w][i] <= version[i]
    BY DEF HeldJobsKnown
  <2>. QED  BY <1>6, <2>1, <2>2, <1>db DEF NoFutureJob, Version
<1>7. ASSUME NEW w \in Worker, NEW i \in Item, ProjectFails(w, i)
      PROVE  NoFutureJob' /\ HeldJobsKnown' /\ GroupRecorded'
  <2>1. /\ keep[w][i] # 0 /\ version' = version /\ pc[w] = "project" /\ pc' = pc
        /\ job' = [job EXCEPT ![i][keep[w][i]] = "failed"]
    BY <1>7 DEF ProjectFails, InTurn, ToProject
  <2>2. HeldJobsKnown'
    BY <1>7, <2>1, ForgetKnown DEF ProjectFails, DbTypeOK
  <2>3. GroupRecorded'
    <3>1. \A x \in Worker \ {w} : read'[x] = read[x]
      BY <1>7 DEF ProjectFails, Forget, WorkerTypeOK
    <3>2. UNCHANGED <<group, left, synced>> /\ faults' # 0
      BY <1>7, <1>flt DEF ProjectFails, Fault
    <3>. QED  BY <2>1, <3>1, <3>2 DEF GroupRecorded
  <2>. QED  BY <1>6, <2>1, <2>2, <2>3
<1>8. ASSUME NEW w \in Worker, NEW i \in Item, RetryJob(w, i)
      PROVE  NoFutureJob' /\ HeldJobsKnown' /\ GroupRecorded'
  <2>1. /\ keep[w][i] # 0 /\ version' = version /\ pc[w] = "retry"
        /\ job' = [job EXCEPT ![i][keep[w][i]] = "failed"]
    BY <1>8 DEF RetryJob, PreparedRead
  <2>2. HeldJobsKnown'
    BY <1>8, <2>1, LeaveKnown DEF RetryJob
  <2>3. GroupRecorded'
    <3>1. /\ \A x \in Worker \ {w} : /\ read'[x] = read[x] /\ pc'[x] = pc[x]
                                     /\ group'[x] = group[x] /\ left'[x] = left[x]
          /\ pc'[w] \in {"retry", "project"}
      BY <1>8, <2>1 DEF RetryJob, Leave, Forget, WorkerTypeOK
    <3>2. UNCHANGED <<faults, synced>>
      BY <1>8 DEF RetryJob
    <3>. QED  BY <2>1, <3>1, <3>2 DEF GroupRecorded
  <2>. QED  BY <1>6, <2>1, <2>2, <2>3
<1>9. ASSUME NEW w \in Worker, NEW i \in Item, FinishJob(w, i)
      PROVE  NoFutureJob' /\ HeldJobsKnown' /\ GroupRecorded'
  <2>1. /\ keep[w][i] # 0 /\ version' = version /\ pc[w] = "finish"
        /\ job' = [job EXCEPT ![i][keep[w][i]] = "succeeded"]
    BY <1>9 DEF FinishJob, PreparedRead
  <2>2. HeldJobsKnown'
    BY <1>9, <2>1, LeaveKnown DEF FinishJob
  <2>3. GroupRecorded'
    <3>1. \A k \in Item :
            /\ synced'[k] >= synced[k]
            /\ k = i => synced'[k] >= read[w][i]
      BY <1>9, <1>db, <1>held DEF FinishJob, DbTypeOK
    <3>2. \A x \in Worker \ {w} : /\ read'[x] = read[x] /\ pc'[x] = pc[x]
                                  /\ group'[x] = group[x] /\ left'[x] = left[x]
      BY <1>9 DEF FinishJob, Leave, Forget, WorkerTypeOK
    <3>3. \/ pc'[w] = "project"
          \/ /\ pc'[w] = "finish" /\ read'[w] = read[w] /\ group'[w] = group[w]
             /\ left'[w] = left[w] \ {i}
      BY <1>9, <2>1 DEF FinishJob, Leave, WorkerTypeOK
    <3>4. faults' = faults
      BY <1>9 DEF FinishJob
    <3>5. \A x \in Worker : group[x] \subseteq Item
      BY DEF WorkerTypeOK
    <3>6. synced' \in [Item -> Nat]
      BY <1>9, <1>db, <1>held DEF FinishJob, DbTypeOK
    <3>7. ASSUME NEW x \in Worker, pc'[x] = "finish", NEW k \in group'[x] \ left'[x]
          PROVE  synced'[k] >= read'[x][k]
      <4>1. k \in Item /\ group'[x] = group[x] /\ read'[x] = read[x]
        BY <3>2, <3>3, <3>5, <3>7
      <4>2. CASE x = w /\ k = i
        BY <3>1, <4>1, <4>2
      <4>3. CASE ~(x = w /\ k = i)
        <5>1. synced[k] >= read[x][k]
          BY <2>1, <3>2, <3>3, <3>7, <4>3 DEF GroupRecorded
        <5>. QED  BY <3>1, <3>6, <4>1, <5>1, <1>held, <1>db
      <4>. QED  BY <4>2, <4>3
    <3>8. ASSUME NEW x \in Worker, pc'[x] = "retry" PROVE faults' # 0
      BY <3>2, <3>3, <3>4, <3>8 DEF GroupRecorded
    <3>. QED  BY <3>7, <3>8 DEF GroupRecorded
  <2>. QED  BY <1>6, <2>1, <2>2, <2>3
<1>10. ASSUME NEW w \in Worker,
              \/ \E i \in Item : ReadMapping(w, i)
              \/ CreateRows(w) \/ CreateFails(w) \/ UpdateRows(w) \/ UpdateFails(w)
              \/ FinishFails(w) \/ FinishBatch(w)
       PROVE  NoFutureJob' /\ HeldJobsKnown' /\ GroupRecorded'
  <2>1. UNCHANGED <<dbVars, keep, old, read>> /\ pc[w] # "coalesce"
        /\ \A x \in Worker \ {w} : pc'[x] = pc[x]
    BY <1>10 DEF ReadMapping, CreateRows, CreateFails, UpdateRows, UpdateFails, Outcome,
                 FinishFails, FinishBatch, InTurn, Sending, WorkerTypeOK
  <2>7. pc'[w] = "idle" => \A i \in Item : keep[w][i] = 0
    BY <1>10 DEF ReadMapping, CreateRows, CreateFails, UpdateRows, UpdateFails, Outcome,
                 FinishFails, FinishBatch, InTurn, Sending, ToProject, WorkerTypeOK
  <2>2. NoFutureJob' /\ HeldJobsKnown'
    BY <2>1, <2>7 DEF dbVars, NoFutureJob, HeldJobsKnown
  <2>3. \A x \in Worker \ {w} : group'[x] = group[x] /\ left'[x] = left[x]
    BY <1>10 DEF ReadMapping, CreateRows, CreateFails, UpdateRows, UpdateFails, Outcome,
                 FinishFails, FinishBatch, WorkerTypeOK
  <2>4. faults' = faults \/ faults' # 0
    BY <1>flt, <1>10 DEF ReadMapping, CreateRows, CreateFails, UpdateRows, UpdateFails, Fault,
                 FinishFails, FinishBatch
  <2>5. /\ pc'[w] = "finish" => group'[w] = left'[w]
        /\ pc'[w] = "retry" => faults' # 0
    BY <1>flt, <1>10 DEF ReadMapping, CreateRows, CreateFails, UpdateRows, UpdateFails, Outcome,
                 FinishFails, FinishBatch, InTurn, Sending, Fault, WorkerTypeOK
  <2>6. GroupRecorded'
    BY <2>1, <2>3, <2>4, <2>5 DEF dbVars, GroupRecorded
  <2>. QED  BY <2>2, <2>6
<1>11. ASSUME NEW w \in Worker, Abort(w) \/ Restart(w)
       PROVE  NoFutureJob' /\ HeldJobsKnown' /\ GroupRecorded'
  <2>1. Reset(w) /\ faults' # 0 /\ UNCHANGED <<version, synced>>
    BY <1>11, <1>flt DEF Abort, Restart, Fault, dbVars
  <2>2. /\ pc'[w] = "idle"
        /\ \A x \in Worker \ {w} : /\ read'[x] = read[x] /\ pc'[x] = pc[x]
                                   /\ group'[x] = group[x] /\ left'[x] = left[x]
    BY <2>1 DEF Reset, Forget, WorkerTypeOK
  <2>3. HeldJobsKnown'
    BY <2>1, <2>2, ForgetKnown DEF Reset, DbTypeOK
  <2>4. NoFutureJob'
    BY <1>11 DEF Abort, Restart, dbVars, NoFutureJob
  <2>5. GroupRecorded'
    BY <2>1, <2>2 DEF GroupRecorded
  <2>. QED  BY <2>3, <2>4, <2>5
<1>12. CASE UNCHANGED vars
  BY <1>12 DEF vars, dbVars, workerVars, NoFutureJob, HeldJobsKnown, GroupRecorded
<1>. QED
  BY <1>1, <1>2, <1>3, <1>4, <1>5, <1>7, <1>8, <1>9, <1>10, <1>11, <1>12
     DEF Next, Progress, Failure

(* A worker that carries an item goes on carrying it, unless it is the one *)
(* that steps.                                                             *)
LEMMA CarriedByOthers ==
    ASSUME NEW w \in Worker, NEW i \in Item, version'[i] = version[i],
           \A x \in Worker \ {w} : keep'[x] = keep[x] /\ read'[x] = read[x],
           keep[w][i] # 0 /\ read[w][i] \in {0, version[i]} =>
               keep'[w][i] # 0 /\ read'[w][i] \in {0, version[i]}
    PROVE  CarriedOn(i) => CarriedOn(i)'
  BY DEF CarriedOn

LEMMA CarriedNext == TypeInv /\ Known /\ NewestCarried /\ [Next]_vars => NewestCarried'
<1>. SUFFICES ASSUME DbTypeOK, WorkerTypeOK, PreparedRead, HeldJobsKnown, GroupRecorded,
                     NoFutureJob, NewestCarried, [Next]_vars, faults' = 0,
                     NEW i \in Item, synced'[i] < version'[i]
              PROVE  job'[i][version'[i]] \in Unfinished \/ CarriedOn(i)'
  BY DEF TypeInv, TypeOK, Known, NewestCarried
<1>. USE OutboxAssumption
<1>held. \A w \in Worker, k \in Item :
           /\ keep[w][k] \in 0 .. MaxVersion /\ read[w][k] \in 0 .. MaxVersion
           /\ old[w][k] \subseteq Version
  BY DEF WorkerTypeOK
<1>db. \A k \in Item : version[k] \in 0 .. MaxVersion /\ synced[k] \in 0 .. MaxVersion
  BY DEF DbTypeOK
<1>flt. faults \in Nat /\ faults + 1 # 0
  BY DEF DbTypeOK
<1>0. faults = 0
  BY <1>flt DEF Next, Progress, Failure, Change, Reconcile, Claim, FinishSuperseded, ReadItem,
         ReadMapping, ProjectFails, CreateRows, CreateFails, UpdateRows, UpdateFails,
         FinishFails, FinishJob, RetryJob, FinishBatch, Abort, Restart, Fault, vars
<1>1. synced[i] < version[i] =>
        /\ job[i][version[i]] \in Unfinished \/ CarriedOn(i)
        /\ version[i] \in Version
  BY <1>0, <1>db DEF NewestCarried, Version
<1>2. ASSUME NEW k \in Item, Change(k)
      PROVE  job'[i][version'[i]] \in Unfinished \/ CarriedOn(i)'
  <2>1. synced' = synced /\ keep' = keep /\ read' = read
    BY <1>2 DEF Change, workerVars
  <2>2. CASE k = i
    <3>1. version'[i] = version[i] + 1 /\ version[i] + 1 \in Version
      BY <1>2, <2>2, <1>db DEF Change, DbTypeOK, Version
    <3>2. job[i][version[i] + 1] = "none"
      BY <3>1, <1>db DEF NoFutureJob
    <3>3. job'[i][version[i] + 1] = "pending"
      BY <1>2, <2>2, <3>1, <3>2 DEF Change, Enqueue, DbTypeOK
    <3>. QED  BY <3>1, <3>3 DEF Unfinished
  <2>3. CASE k # i
    <3>1. version'[i] = version[i] /\ job'[i] = job[i]
      BY <1>2, <2>3 DEF Change, Enqueue, DbTypeOK
    <3>. QED  BY <1>1, <2>1, <3>1 DEF CarriedOn
  <2>. QED  BY <2>2, <2>3
<1>3. CASE Reconcile
  <2>1. UNCHANGED <<synced, version, keep, read>>
    BY <1>3 DEF Reconcile, workerVars
  <2>2. \A v \in Version : job'[i][v] \in {job[i][v], "pending"}
    BY <1>3 DEF Reconcile
  <2>. QED  BY <1>1, <2>1, <2>2 DEF CarriedOn, Unfinished
<1>4. ASSUME NEW w \in Worker, Claim(w)
      PROVE  job'[i][version'[i]] \in Unfinished \/ CarriedOn(i)'
  <2>1. PICK taken \in [Item -> SUBSET Version], kept \in [Item -> 0 .. MaxVersion] :
           /\ job'  = [k \in Item |-> [v \in Version |->
                         IF v \in taken[k] THEN "processing" ELSE job[k][v]]]
           /\ keep' = [keep EXCEPT ![w] = kept]
    BY <1>4 DEF Claim
  <2>2. UNCHANGED <<synced, version, read>> /\ keep[w][i] = 0
    BY <1>4 DEF Claim, HeldJobsKnown
  <2>3. \A x \in Worker \ {w} : keep'[x] = keep[x] /\ read'[x] = read[x]
    BY <2>1, <2>2 DEF WorkerTypeOK
  <2>4. CarriedOn(i) => CarriedOn(i)'
    BY <2>2, <2>3, CarriedByOthers
  <2>5. \A v \in Version : job'[i][v] \in {job[i][v], "processing"}
    BY <2>1
  <2>. QED  BY <1>1, <2>2, <2>4, <2>5 DEF Unfinished
<1>5. ASSUME NEW w \in Worker, FinishSuperseded(w)
      PROVE  job'[i][version'[i]] \in Unfinished \/ CarriedOn(i)'
  <2>1. UNCHANGED <<synced, version, keep, read>> /\ pc[w] = "coalesce"
    BY <1>5 DEF FinishSuperseded
  <2>2. \A v \in Version : job'[i][v] = IF v \in old[w][i] THEN "succeeded" ELSE job[i][v]
    BY <1>5 DEF FinishSuperseded
  <2>3. CASE version[i] \in old[w][i]
    <3>1. keep[w][i] # 0 /\ read[w][i] = 0
      BY <2>1, <2>3 DEF HeldJobsKnown, PreparedRead
    <3>. QED  BY <2>1, <3>1 DEF CarriedOn
  <2>4. CASE version[i] \notin old[w][i]
    BY <1>1, <2>1, <2>2, <2>4 DEF CarriedOn
  <2>. QED  BY <2>3, <2>4
<1>6. ASSUME NEW w \in Worker, NEW k \in Item, ReadItem(w, k)
      PROVE  job'[i][version'[i]] \in Unfinished \/ CarriedOn(i)'
  <2>1. UNCHANGED <<synced, version, job, keep>>
    BY <1>6 DEF ReadItem, dbVars
  <2>2. \A x \in Worker, j \in Item :
          read'[x][j] = IF x = w /\ j = k THEN version[k] ELSE read[x][j]
    BY <1>6 DEF ReadItem, WorkerTypeOK
  <2>. QED  BY <1>1, <2>1, <2>2 DEF CarriedOn
<1>7. ASSUME NEW w \in Worker, NEW k \in Item, FinishJob(w, k)
      PROVE  job'[i][version'[i]] \in Unfinished \/ CarriedOn(i)'
  <2>1. /\ keep[w][k] # 0 /\ read[w][k] # 0 /\ keep[w][k] <= read[w][k]
        /\ version' = version /\ pc[w] = "finish"
    BY <1>7 DEF FinishJob, PreparedRead, HeldJobsKnown
  <2>2. /\ synced'[i] >= synced[i]
        /\ i = k => synced'[i] >= read[w][i]
    BY <1>7, <1>held, <1>db DEF FinishJob, DbTypeOK
  <2>3. synced'[i] \in Nat
    BY <1>7, <1>held, <1>db DEF FinishJob, DbTypeOK
  <2>4. synced[i] < version[i] /\ (i = k => read[w][i] < version[i])
    BY <2>1, <2>2, <2>3, <1>held, <1>db
  <2>5. \A v \in Version : job'[i][v] = IF i = k /\ v = keep[w][k] THEN "succeeded" ELSE job[i][v]
    BY <1>7, <1>held, <2>1 DEF FinishJob, DbTypeOK, Version
  <2>6. i = k => version[i] # keep[w][k]
    BY <2>1, <2>4, <1>held, <1>db
  <2>7. CarriedOn(i) => CarriedOn(i)'
    <3>1. \A x \in Worker \ {w} : keep'[x] = keep[x] /\ read'[x] = read[x]
      BY <1>7 DEF FinishJob, Leave, Forget, WorkerTypeOK
    <3>2. CASE left[w] = {k} /\ i \in group[w]
      <4>1. i # k => i \in group[w] \ left[w]
        BY <3>2
      <4>2. i # k => synced[i] >= read[w][i]
        BY <2>1, <4>1 DEF GroupRecorded
      <4>3. read[w][i] < version[i]
        BY <2>4, <4>2, <1>held, <1>db
      <4>4. read[w][i] # 0
        BY <3>2 DEF PreparedRead
      <4>. QED  BY <2>1, <3>1, <4>3, <4>4, <1>held, <1>db, CarriedByOthers
    <3>3. CASE ~(left[w] = {k} /\ i \in group[w])
      <4>1. keep'[w][i] = keep[w][i] /\ read'[w][i] = read[w][i]
        BY <1>7, <3>3 DEF FinishJob, Leave, Forget, Without, WorkerTypeOK
      <4>. QED  BY <2>1, <3>1, <4>1, CarriedByOthers
    <3>. QED  BY <3>2, <3>3
  <2>. QED  BY <1>1, <2>1, <2>4, <2>5, <2>6, <2>7
<1>8. ASSUME NEW w \in Worker,
             \/ \E k \in Item : ReadMapping(w, k)
             \/ CreateRows(w) \/ UpdateRows(w) \/ FinishBatch(w)
      PROVE  job'[i][version'[i]] \in Unfinished \/ CarriedOn(i)'
  <2>1. UNCHANGED <<synced, version, job, keep, read>>
    BY <1>8 DEF ReadMapping, CreateRows, UpdateRows, Outcome, FinishBatch, dbVars
  <2>. QED  BY <1>1, <2>1 DEF CarriedOn
<1>9. ASSUME NEW w \in Worker, Failure(w) \/ \E k \in Item : RetryJob(w, k)
      PROVE  FALSE
  BY <1>9, <1>0, <1>flt
     DEF Failure, CreateFails, UpdateFails, FinishFails, Abort, Restart, ProjectFails, Fault,
         RetryJob, GroupRecorded
<1>10. CASE UNCHANGED vars
  BY <1>1, <1>10 DEF vars, dbVars, workerVars, CarriedOn
<1>. QED
  BY <1>2, <1>3, <1>4, <1>5, <1>6, <1>7, <1>8, <1>9, <1>10 DEF Next, Progress

(* However many workers share and take over the jobs, and whichever job of *)
(* an item created_at makes the last, an item whose newest version is not  *)
(* recorded as projected has a job that will be claimed, or a worker about *)
(* to project the item as it is, until something fails (claim_outbox,      *)
(* _coalesce_outbox_jobs, finish_superseded_outbox, finish_outbox).        *)
THEOREM LossNeedsFailure == Spec => []LostOnlyByFailure
<1>1. Init => NewestCarried
  BY DEF Init, NewestCarried, Zero
<1>2. TypeInv /\ NewestCarried => LostOnlyByFailure
  <2>. SUFFICES ASSUME DbTypeOK, NewestCarried, faults = 0, NEW i \in Item,
                       synced[i] < version[i], ~ CarriedOn(i)
                PROVE  \E v \in Version : job[i][v] \in Unfinished
    BY DEF TypeInv, TypeOK, LostOnlyByFailure
  <2>1. version[i] \in Version
    BY OutboxAssumption DEF DbTypeOK, Version
  <2>2. job[i][version[i]] \in Unfinished
    BY DEF NewestCarried
  <2>. QED  BY <2>1, <2>2
<1>. QED  BY TypeInit, TypeNext, KnownInit, KnownNext, CarriedNext, <1>1, <1>2, PTL DEF Spec

-----------------------------------------------------------------------------
(* The rows of an item stay bounded by the workers and the failures.  The  *)
(* proof balances accounts: a step may add a row for i only against the    *)
(* place of its worker in MayCreate(i) or against a failure, and only a    *)
(* failure gives a place back.                                             *)

LEMMA Places ==
    ASSUME NEW S \in SUBSET Worker, NEW T \in SUBSET Worker, NEW w \in Worker
    PROVE  /\ Cardinality(S) \in Nat /\ Cardinality(T) \in Nat /\ Cardinality(Worker) \in Nat
           /\ T \subseteq S => Cardinality(T) <= Cardinality(S)
           /\ T \subseteq S \cup {w} => Cardinality(T) <= Cardinality(S) + 1
           /\ w \in S /\ T \subseteq S \ {w} => Cardinality(T) + 1 <= Cardinality(S)
<1>1. IsFiniteSet(S) /\ IsFiniteSet(T) /\ IsFiniteSet(Worker)
  BY FiniteWorkers, FS_Subset
<1>2. Cardinality(S) \in Nat /\ Cardinality(T) \in Nat /\ Cardinality(Worker) \in Nat
  BY <1>1, FS_CardinalityType
<1>3. T \subseteq S => Cardinality(T) <= Cardinality(S)
  BY <1>1, FS_Subset
<1>4. T \subseteq S \cup {w} => Cardinality(T) <= Cardinality(S) + 1
  <2>1. /\ IsFiniteSet(S \cup {w})
        /\ Cardinality(S \cup {w}) = IF w \in S THEN Cardinality(S) ELSE Cardinality(S) + 1
    BY <1>1, FS_AddElement
  <2>2. T \subseteq S \cup {w} => Cardinality(T) <= Cardinality(S \cup {w})
    BY <2>1, FS_Subset
  <2>. QED  BY <1>2, <2>1, <2>2
<1>5. w \in S /\ T \subseteq S \ {w} => Cardinality(T) + 1 <= Cardinality(S)
  <2>1. /\ IsFiniteSet(S \ {w})
        /\ w \in S => Cardinality(S \ {w}) = Cardinality(S) - 1
    BY <1>1, FS_RemoveElement
  <2>2. T \subseteq S \ {w} => Cardinality(T) <= Cardinality(S \ {w})
    BY <2>1, FS_Subset
  <2>. QED  BY <1>2, <2>1, <2>2
<1>. QED  BY <1>2, <1>3, <1>4, <1>5

(* The steps the account of item i allows: nothing happens to it, worker w *)
(* fails, with or without a row to show for it, or w spends its place.     *)
Balanced(i, w) ==
    \/ /\ Len(rows'[i]) = Len(rows[i]) /\ faults' \in {faults, faults + 1}
       /\ MayCreate(i)' \subseteq MayCreate(i)
    \/ /\ Len(rows'[i]) = Len(rows[i]) /\ faults' = faults + 1
       /\ MayCreate(i)' \subseteq MayCreate(i) \cup {w}
    \/ /\ Len(rows'[i]) = Len(rows[i]) + 1 /\ faults' = faults + 1
       /\ MayCreate(i)' \subseteq MayCreate(i)
    \/ /\ Len(rows'[i]) = Len(rows[i]) + 1 /\ faults' = faults
       /\ w \in MayCreate(i) /\ MayCreate(i)' \subseteq MayCreate(i) \ {w}

LEMMA BalanceKept ==
    ASSUME DbTypeOK, TableTypeOK, NEW i \in Item, NEW w \in Worker, Balanced(i, w),
           Len(rows[i]) + Cardinality(MayCreate(i)) <= Cardinality(Worker) + faults
    PROVE  Len(rows'[i]) + Cardinality(MayCreate(i)') <= Cardinality(Worker) + faults'
<1>. DEFINE S == MayCreate(i)
            T == MayCreate(i)'
<1>1. S \in SUBSET Worker /\ T \in SUBSET Worker
  BY DEF MayCreate
<1>2. Len(rows[i]) \in Nat /\ faults \in Nat
  BY OutboxAssumption, LenProperties DEF TableTypeOK, DbTypeOK
<1>3. Balanced(i, w)
  OBVIOUS
<1>. HIDE DEF S, T
<1>4. /\ Cardinality(S) \in Nat /\ Cardinality(T) \in Nat /\ Cardinality(Worker) \in Nat
      /\ T \subseteq S => Cardinality(T) <= Cardinality(S)
      /\ T \subseteq S \cup {w} => Cardinality(T) <= Cardinality(S) + 1
      /\ w \in S /\ T \subseteq S \ {w} => Cardinality(T) + 1 <= Cardinality(S)
  BY <1>1, Places
<1>5. Len(rows[i]) + Cardinality(S) <= Cardinality(Worker) + faults
  BY DEF S
<1>6. CASE /\ Len(rows'[i]) = Len(rows[i]) /\ faults' \in {faults, faults + 1}
           /\ T \subseteq S
  BY <1>2, <1>4, <1>5, <1>6 DEF T
<1>7. CASE /\ Len(rows'[i]) = Len(rows[i]) /\ faults' = faults + 1
           /\ T \subseteq S \cup {w}
  BY <1>2, <1>4, <1>5, <1>7 DEF T
<1>8. CASE /\ Len(rows'[i]) = Len(rows[i]) + 1 /\ faults' = faults + 1
           /\ T \subseteq S
  BY <1>2, <1>4, <1>5, <1>8 DEF T
<1>9. CASE /\ Len(rows'[i]) = Len(rows[i]) + 1 /\ faults' = faults
           /\ w \in S /\ T \subseteq S \ {w}
  BY <1>2, <1>4, <1>5, <1>9 DEF T
<1>. QED  BY <1>3, <1>6, <1>7, <1>8, <1>9 DEF Balanced, S, T

LEMMA RowsInit == Init => RowsInv
<1>. SUFFICES ASSUME Init PROVE RowsInv
  OBVIOUS
<1>1. RecordsKept
  BY DEF Init, RecordsKept
<1>2. ASSUME NEW i \in Item
      PROVE  Len(rows[i]) + Cardinality(MayCreate(i)) <= Cardinality(Worker) + faults
  <2>1. Len(rows[i]) = 0 /\ faults = 0
    BY DEF Init
  <2>2. MayCreate(i) \in SUBSET Worker /\ IsFiniteSet(Worker)
    BY FiniteWorkers DEF MayCreate
  <2>3. Cardinality(MayCreate(i)) \in Nat /\ Cardinality(Worker) \in Nat
        /\ Cardinality(MayCreate(i)) <= Cardinality(Worker)
    BY <2>2, FS_Subset, FS_CardinalityType
  <2>. QED  BY <2>1, <2>3
<1>. QED  BY <1>1, <1>2 DEF RowsInv

(* A step of worker w that takes no record away changes only its own place;*)
(* one that also leaves its lookup and its phase alone changes none.       *)
LEMMA OwnPlace ==
    ASSUME WorkerTypeOK, NEW w \in Worker, NEW i \in Item,
           record'[i] = 0 => record[i] = 0,
           \A x \in Worker \ {w} : /\ pc'[x] = pc[x] /\ ready'[x] = ready[x]
                                   /\ target'[x] = target[x] /\ group'[x] = group[x]
    PROVE  /\ MayCreate(i)' \subseteq MayCreate(i) \cup {w}
           /\ (w \in MayCreate(i)' => w \in MayCreate(i)) => MayCreate(i)' \subseteq MayCreate(i)
           /\ w \notin MayCreate(i)' => MayCreate(i)' \subseteq MayCreate(i) \ {w}
  BY DEF MayCreate

LEMMA SamePlaces ==
    ASSUME NEW i \in Item, record' = record, pc' = pc, ready' = ready, target' = target,
           group' = group
    PROVE  MayCreate(i)' = MayCreate(i)
  BY DEF MayCreate

(* The rows of one item after a batch_create and after a batch_update.     *)
LEMMA RowsAfter ==
    ASSUME TableTypeOK, NEW w \in Worker, NEW i \in Item
    PROVE  /\ Len(rows[i]) \in Nat
           /\ Created(w) => Len(rows'[i]) = IF i \in Creates(w) THEN Len(rows[i]) + 1
                                                                ELSE Len(rows[i])
           /\ Updated(w) => Len(rows'[i]) = Len(rows[i])
<1>1. rows[i] \in Seq(Version) /\ Len(rows[i]) \in Nat
  BY LenProperties DEF TableTypeOK
<1>2. \A x : Len(Append(rows[i], x)) = Len(rows[i]) + 1
  BY <1>1, SMT
<1>3. ASSUME NEW r, NEW x PROVE Len([rows[i] EXCEPT ![r] = x]) = Len(rows[i])
  BY <1>1, SMT
<1>. QED  BY <1>1, <1>2, <1>3 DEF Created, Updated

(* Leaving an item of a group that is finished or given up.                *)
LEMMA LeaveBalanced ==
    ASSUME WorkerTypeOK, RecordsKept, NEW w \in Worker, NEW k \in Item, Leave(w, k),
           pc[w] = "retry" \/ (pc[w] = "finish" /\ record'[k] # 0),
           \A i \in Item \ {k} : record'[i] = record[i],
           record'[k] = 0 => record[k] = 0, NEW i \in Item
    PROVE  MayCreate(i)' \subseteq MayCreate(i)
<1>1. \A x \in Worker \ {w} : /\ pc'[x] = pc[x] /\ ready'[x] = ready[x]
                              /\ target'[x] = target[x] /\ group'[x] = group[x]
  BY DEF Leave, Forget, WorkerTypeOK
<1>2. record'[i] = 0 => record[i] = 0
  OBVIOUS
<1>3. ASSUME w \in MayCreate(i)' PROVE w \in MayCreate(i)
  <2>1. CASE left[w] = {k}
    <3>1. /\ ready'[w] = ready[w] \ group[w]
          /\ i \notin group[w] => target'[w][i] = target[w][i]
      BY <2>1 DEF Leave, Forget, Without, WorkerTypeOK
    <3>2. pc[w] = "finish" /\ i \in group[w] => record'[i] # 0
      BY <2>1 DEF RecordsKept
    <3>. QED  BY <1>2, <1>3, <3>1, <3>2 DEF MayCreate
  <2>2. CASE left[w] # {k}
    BY <1>2, <1>3, <2>2 DEF Leave, MayCreate
  <2>. QED  BY <2>1, <2>2
<1>. QED  BY <1>1, <1>2, <1>3, OwnPlace

LEMMA RowsNext == TypeInv /\ RowsInv /\ [Next]_vars => RowsInv'
<1>. SUFFICES ASSUME DbTypeOK, WorkerTypeOK, TableTypeOK, PreparedRead, RowsInv, [Next]_vars
              PROVE  RowsInv'
  BY DEF TypeInv, TypeOK
<1>. USE OutboxAssumption
<1>kept. RecordsKept
  BY DEF RowsInv
<1>fin. faults \in Nat
  BY DEF DbTypeOK
<1>len. \A i \in Item : Len(rows[i]) \in Nat
  BY LenProperties DEF TableTypeOK
<1>a. ASSUME NEW w \in Worker, RecordsKept', \A i \in Item : Balanced(i, w)
      PROVE  RowsInv'
  BY <1>a, BalanceKept DEF RowsInv
<1>b. ASSUME UNCHANGED <<record, rows, pc, ready, target, group, left, faults>>
      PROVE  RowsInv'
  <2>1. RecordsKept'
    BY <1>b, <1>kept DEF RecordsKept
  <2>2. \A i \in Item : MayCreate(i)' = MayCreate(i)
    BY <1>b, SamePlaces
  <2>. QED  BY <1>b, <2>1, <2>2 DEF RowsInv
<1>1. CASE Reconcile \/ \E i \in Item : Change(i)
  BY <1>1, <1>b DEF Reconcile, Change, workerVars
<1>2. ASSUME NEW w \in Worker,
             Claim(w) \/ FinishSuperseded(w) \/ FinishBatch(w) \/ \E i \in Item : ReadItem(w, i)
      PROVE  RowsInv'
  <2>1. /\ UNCHANGED <<record, rows, ready, target, group, left, faults>>
        /\ pc[w] # "finish" /\ pc'[w] # "finish" /\ \A x \in Worker \ {w} : pc'[x] = pc[x]
    BY <1>2 DEF Claim, FinishSuperseded, FinishBatch, ReadItem, InTurn, dbVars, WorkerTypeOK
  <2>2. RecordsKept'
    BY <2>1, <1>kept DEF RecordsKept
  <2>3. ASSUME NEW i \in Item PROVE Balanced(i, w)
    <3>1. MayCreate(i)' \subseteq MayCreate(i)
      BY <2>1, OwnPlace DEF MayCreate
    <3>. QED  BY <2>1, <3>1 DEF Balanced
  <2>. QED  BY <1>a, <2>2, <2>3
<1>3. ASSUME NEW w \in Worker, NEW k \in Item, ReadMapping(w, k)
      PROVE  RowsInv'
  <2>1. /\ UNCHANGED <<record, rows, pc, group, left, faults>> /\ pc[w] = "project"
        /\ ready'[w] = ready[w] \cup {k} /\ target'[w][k] = record[k]
        /\ \A i \in Item \ {k} : target'[w][i] = target[w][i]
        /\ \A x \in Worker \ {w} : ready'[x] = ready[x] /\ target'[x] = target[x]
    BY <1>3 DEF ReadMapping, InTurn, dbVars, WorkerTypeOK
  <2>2. RecordsKept'
    BY <2>1, <1>kept DEF RecordsKept
  <2>3. ASSUME NEW i \in Item PROVE Balanced(i, w)
    <3>1. MayCreate(i)' \subseteq MayCreate(i)
      BY <2>1, OwnPlace DEF MayCreate
    <3>. QED  BY <2>1, <3>1 DEF Balanced
  <2>. QED  BY <1>a, <2>2, <2>3
<1>4. ASSUME NEW w \in Worker, NEW k \in Item, FinishJob(w, k)
      PROVE  RowsInv'
  <2>1. /\ pc[w] = "finish" /\ k \in left[w] /\ k \in group[w]
        /\ UNCHANGED <<rows, faults>>
        /\ record'[k] = target[w][k] /\ \A i \in Item \ {k} : record'[i] = record[i]
    BY <1>4 DEF FinishJob, PreparedRead, DbTypeOK
  <2>2. record'[k] # 0
    BY <2>1, <1>kept DEF RecordsKept
  <2>3. RecordsKept'
    <3>1. CASE left[w] = {k}
      BY <1>4, <2>1, <2>2, <3>1, <1>kept DEF FinishJob, Leave, Forget, RecordsKept, WorkerTypeOK
    <3>2. CASE left[w] # {k}
      BY <1>4, <2>1, <2>2, <3>2, <1>kept DEF FinishJob, Leave, RecordsKept, WorkerTypeOK
    <3>. QED  BY <3>1, <3>2
  <2>4. ASSUME NEW i \in Item PROVE Balanced(i, w)
    <3>1. MayCreate(i)' \subseteq MayCreate(i)
      BY <1>4, <2>1, <2>2, <1>kept, LeaveBalanced DEF FinishJob
    <3>. QED  BY <2>1, <3>1 DEF Balanced
  <2>. QED  BY <1>a, <2>3, <2>4
<1>5. ASSUME NEW w \in Worker, NEW k \in Item, RetryJob(w, k)
      PROVE  RowsInv'
  <2>1. pc[w] = "retry" /\ UNCHANGED <<record, rows, faults>>
    BY <1>5 DEF RetryJob
  <2>2. RecordsKept'
    BY <1>5, <2>1, <1>kept DEF RetryJob, Leave, Forget, RecordsKept, WorkerTypeOK
  <2>3. ASSUME NEW i \in Item PROVE Balanced(i, w)
    <3>1. MayCreate(i)' \subseteq MayCreate(i)
      BY <1>5, <2>1, <1>kept, LeaveBalanced DEF RetryJob
    <3>. QED  BY <2>1, <3>1 DEF Balanced
  <2>. QED  BY <1>a, <2>2, <2>3
<1>6. ASSUME NEW w \in Worker, CreateRows(w)
      PROVE  RowsInv'
  <2>1. /\ Created(w) /\ UNCHANGED <<record, ready, faults>> /\ pc[w] = "project"
        /\ pc'[w] = "finish" /\ group'[w] = Creates(w) /\ left'[w] = Creates(w)
        /\ \A i \in Creates(w) : target'[w][i] = Len(rows[i]) + 1
        /\ \A i \in Item \ Creates(w) : target'[w][i] = target[w][i]
        /\ \A x \in Worker \ {w} : /\ pc'[x] = pc[x] /\ target'[x] = target[x]
                                   /\ group'[x] = group[x] /\ left'[x] = left[x]
    BY <1>6 DEF CreateRows, Sending, Outcome, dbVars, Creates, WorkerTypeOK
  <2>2. Creates(w) \subseteq Item
    BY DEF Creates, WorkerTypeOK
  <2>3. RecordsKept'
    BY <2>1, <2>2, <1>len, <1>kept DEF RecordsKept
  <2>4. ASSUME NEW i \in Item PROVE Balanced(i, w)
    <3>1. CASE i \in Creates(w)
      <4>1. w \in MayCreate(i) /\ w \notin MayCreate(i)'
        BY <2>1, <3>1 DEF MayCreate, Creates
      <4>2. MayCreate(i)' \subseteq MayCreate(i) \ {w}
        BY <2>1, <4>1, OwnPlace
      <4>3. Len(rows'[i]) = Len(rows[i]) + 1
        BY <2>1, <3>1, RowsAfter
      <4>. QED  BY <2>1, <4>1, <4>2, <4>3 DEF Balanced
    <3>2. CASE i \notin Creates(w)
      <4>1. w \in MayCreate(i)' => w \in MayCreate(i)
        BY <2>1, <3>2 DEF MayCreate
      <4>2. MayCreate(i)' \subseteq MayCreate(i)
        BY <2>1, <4>1, OwnPlace
      <4>3. Len(rows'[i]) = Len(rows[i])
        BY <2>1, <3>2, RowsAfter
      <4>. QED  BY <2>1, <4>2, <4>3 DEF Balanced
    <3>. QED  BY <3>1, <3>2
  <2>. QED  BY <1>a, <2>3, <2>4
<1>7. ASSUME NEW w \in Worker, UpdateRows(w)
      PROVE  RowsInv'
  <2>1. /\ Updated(w) /\ UNCHANGED <<record, ready, target, faults>> /\ pc[w] = "project"
        /\ pc'[w] = "finish" /\ group'[w] = Updates(w) /\ left'[w] = Updates(w)
        /\ \A x \in Worker \ {w} : /\ pc'[x] = pc[x] /\ group'[x] = group[x]
                                   /\ left'[x] = left[x]
    BY <1>7 DEF UpdateRows, Sending, Outcome, dbVars, WorkerTypeOK
  <2>2. \A i \in Updates(w) : target[w][i] # 0
    BY DEF Updates, Creates
  <2>3. RecordsKept'
    BY <2>1, <2>2, <1>kept DEF RecordsKept
  <2>4. ASSUME NEW i \in Item PROVE Balanced(i, w)
    <3>1. w \in MayCreate(i)' => w \in MayCreate(i)
      BY <2>1 DEF MayCreate
    <3>2. MayCreate(i)' \subseteq MayCreate(i)
      BY <2>1, <3>1, OwnPlace
    <3>3. Len(rows'[i]) = Len(rows[i])
      BY <2>1, RowsAfter
    <3>. QED  BY <2>1, <3>2, <3>3 DEF Balanced
  <2>. QED  BY <1>a, <2>3, <2>4
<1>8. ASSUME NEW w \in Worker,
             \/ FinishFails(w) \/ Abort(w) \/ Restart(w) \/ UpdateFails(w)
             \/ \E k \in Item : ProjectFails(w, k)
      PROVE  RowsInv'
  <2>1. /\ record' = record /\ faults' = faults + 1 /\ pc'[w] # "finish"
        /\ \A x \in Worker \ {w} : /\ pc'[x] = pc[x] /\ ready'[x] = ready[x]
                                   /\ target'[x] = target[x] /\ group'[x] = group[x]
                                   /\ left'[x] = left[x]
    BY <1>8 DEF FinishFails, Abort, Restart, UpdateFails, ProjectFails, InTurn, Fault, Reset, Forget,
                Outcome, dbVars, WorkerTypeOK
  <2>2. UNCHANGED rows \/ Updated(w)
    BY <1>8 DEF FinishFails, Abort, Restart, UpdateFails, ProjectFails
  <2>3. RecordsKept'
    BY <2>1, <1>kept DEF RecordsKept
  <2>4. ASSUME NEW i \in Item PROVE Balanced(i, w)
    <3>1. MayCreate(i)' \subseteq MayCreate(i) \cup {w}
      BY <2>1, OwnPlace
    <3>2. Len(rows'[i]) = Len(rows[i])
      BY <2>2, RowsAfter
    <3>. QED  BY <2>1, <3>1, <3>2 DEF Balanced
  <2>. QED  BY <1>a, <2>3, <2>4
<1>9. ASSUME NEW w \in Worker, CreateFails(w)
      PROVE  RowsInv'
  <2>1. /\ UNCHANGED <<record, ready, target>> /\ faults' = faults + 1
        /\ pc[w] = "project" /\ pc'[w] = "retry"
        /\ \A x \in Worker \ {w} : /\ pc'[x] = pc[x] /\ group'[x] = group[x]
                                   /\ left'[x] = left[x]
    BY <1>9 DEF CreateFails, Sending, Fault, Outcome, dbVars, WorkerTypeOK
  <2>2. UNCHANGED rows \/ Created(w)
    BY <1>9 DEF CreateFails
  <2>3. RecordsKept'
    BY <2>1, <1>kept DEF RecordsKept
  <2>4. ASSUME NEW i \in Item PROVE Balanced(i, w)
    <3>1. w \in MayCreate(i)' => w \in MayCreate(i)
      BY <2>1 DEF MayCreate
    <3>2. MayCreate(i)' \subseteq MayCreate(i)
      BY <2>1, <3>1, OwnPlace
    <3>3. Len(rows'[i]) \in {Len(rows[i]), Len(rows[i]) + 1}
      BY <2>2, RowsAfter
    <3>. QED  BY <2>1, <3>2, <3>3 DEF Balanced
  <2>. QED  BY <1>a, <2>3, <2>4
<1>10. CASE UNCHANGED vars
  BY <1>10, <1>b DEF vars, dbVars, workerVars
<1>. QED
  BY <1>1, <1>2, <1>3, <1>4, <1>5, <1>6, <1>7, <1>8, <1>9, <1>10 DEF Next, Progress, Failure

(* An item has at most one row per worker and one more for each failure,   *)
(* however many of its jobs are processed, taken over and retried: what    *)
(* get_mapping found may be stale when the request is sent, but only once  *)
(* per worker (_flush_outbox, workers.py).                                 *)
THEOREM DuplicatesNeedWorkers == Spec => []DuplicatesBounded
<1>1. TypeInv /\ RowsInv => DuplicatesBounded
  <2>. SUFFICES ASSUME DbTypeOK, TableTypeOK, RowsInv, NEW i \in Item
                PROVE  Len(rows[i]) <= Cardinality(Worker) + faults
    BY DEF TypeInv, TypeOK, DuplicatesBounded
  <2>1. MayCreate(i) \in SUBSET Worker /\ IsFiniteSet(Worker)
    BY FiniteWorkers DEF MayCreate
  <2>2. Cardinality(MayCreate(i)) \in Nat /\ Cardinality(Worker) \in Nat
    BY <2>1, FS_Subset, FS_CardinalityType
  <2>3. Len(rows[i]) \in Nat /\ faults \in Nat
    BY OutboxAssumption, LenProperties DEF TableTypeOK, DbTypeOK
  <2>4. Len(rows[i]) + Cardinality(MayCreate(i)) <= Cardinality(Worker) + faults
    BY DEF RowsInv
  <2>. QED  BY <2>2, <2>3, <2>4
<1>2. TypeInv /\ RowsInv /\ [Next]_vars => RowsInv'
  BY RowsNext
<1>. QED  BY TypeInit, TypeNext, RowsInit, <1>1, <1>2, PTL DEF Spec
=============================================================================
