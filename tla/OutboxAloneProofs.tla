------------------------- MODULE OutboxAloneProofs -------------------------
(***************************************************************************)
(* Theorems about Outbox with a single worker (SQLite, or one process on   *)
(* PostgreSQL), for any items and bounds and any order of created_at.      *)
(*                                                                         *)
(* Alone, a worker knows the table: between its reading of an item and the *)
(* end of the job nobody else moves the item's row.  So the row shows      *)
(* something between what is recorded and what was read (RowInv), a row is *)
(* only created for an item that has none on record (RowsCounted), and a   *)
(* job is only superseded while the one retained is still to be projected  *)
(* (JobInv), which makes created_at irrelevant.                            *)
(***************************************************************************)
EXTENDS OutboxProofs

Alone == \A v, w \in Worker : v = w

(* What is recorded never exceeds what is shown, and that never the item.  *)
Honest == \A i \in Item : synced[i] <= Shown(i) /\ Shown(i) <= version[i]

ReadBetween ==
    \A w \in Worker, i \in Item :
        read[w][i] # 0 => Shown(i) <= read[w][i] /\ read[w][i] <= version[i]

(* What is prepared is addressed to the row on record.                     *)
Addressed ==
    \A w \in Worker :
        /\ pc[w] = "project" => group[w] = {}
        /\ \A i \in ready[w] : i \notin group[w] => target[w][i] = record[i]

(* What is about to be recorded has been written.                          *)
Written ==
    \A w \in Worker : pc[w] = "finish" =>
        \A i \in group[w] : target[w][i] # 0 /\ rows[i][target[w][i]] = read[w][i]

RowInv == Honest /\ ReadBetween /\ Addressed /\ Written

LEMMA ShownType ==
    ASSUME TypeInv, NEW i \in Item
    PROVE  Shown(i) \in 0 .. MaxVersion
<1>1. rows[i] \in Seq(Version) /\ Len(rows[i]) \in Nat /\ record[i] \in Nat /\ record[i] <= Len(rows[i])
  BY LenProperties DEF TypeInv, TypeOK, DbTypeOK, TableTypeOK
<1>2. CASE record[i] = 0
  BY <1>2, OutboxAssumption DEF Shown
<1>3. CASE record[i] # 0
  <2>1. record[i] \in 1 .. Len(rows[i])
    BY <1>1, <1>3
  <2>2. rows[i][record[i]] \in Version
    BY <1>1, <2>1, ElementOfSeq
  <2>. QED
    BY <1>3, <2>2, OutboxAssumption DEF Shown, Version
<1>. QED
  BY <1>2, <1>3

LEMMA RowInit == Init => RowInv
  BY DEF Init, RowInv, Honest, ReadBetween, Addressed, Written, Zero, Shown

(* Steps that leave the table and the mappings alone. *)
LEMMA RowKept ==
    ASSUME TypeInv, TypeInv', RowInv, UNCHANGED <<rows, record, synced>>,
           \A i \in Item : version[i] <= version'[i],
           \A w \in Worker, i \in Item : read'[w][i] \in {0, read[w][i], version[i]}
    PROVE  Honest' /\ ReadBetween'
<1>1. \A i \in Item : /\ Shown(i)' = Shown(i) /\ Shown(i) \in Nat
                      /\ version[i] \in Nat /\ version'[i] \in Nat
  BY ShownType DEF Shown, TypeInv, TypeOK, DbTypeOK
<1>2. \A w \in Worker, i \in Item : read[w][i] \in Nat
  BY DEF TypeInv, TypeOK, WorkerTypeOK
<1>. QED
  BY <1>1, <1>2 DEF RowInv, Honest, ReadBetween

(* Forgetting items. *)
LEMMA ForgetRows ==
    ASSUME TypeInv, NEW w \in Worker, NEW S \in SUBSET Item, Forget(w, S)
    PROVE  /\ \A x \in Worker, i \in Item : read'[x][i] \in {0, read[x][i]}
           /\ ready'[w] = ready[w] \ S
           /\ \A i \in Item : i \notin S => read'[w][i] = read[w][i] /\ target'[w][i] = target[w][i]
           /\ \A x \in Worker : x # w => /\ ready'[x] = ready[x] /\ read'[x] = read[x]
                                         /\ target'[x] = target[x]
  BY DEF TypeInv, TypeOK, WorkerTypeOK, Forget, Without

LEMMA LeaveRows ==
    ASSUME TypeInv, NEW w \in Worker, NEW i \in Item, Leave(w, i), pc[w] # "project"
    PROVE  /\ \A x \in Worker, k \in Item : read'[x][k] \in {0, read[x][k]}
           /\ \A x \in Worker : x # w =>
                /\ pc'[x] = pc[x] /\ ready'[x] = ready[x] /\ read'[x] = read[x]
                /\ group'[x] = group[x] /\ target'[x] = target[x]
           /\ \/ /\ pc'[w] = "project" /\ group'[w] = {} /\ ready'[w] = ready[w] \ group[w]
                 /\ \A k \in Item : k \notin group[w] => target'[w][k] = target[w][k]
              \/ /\ pc'[w] = pc[w] /\ group'[w] = group[w] /\ ready'[w] = ready[w]
                 /\ target'[w] = target[w] /\ read'[w] = read[w]
<1>1. CASE left[w] = {i}
  <2>1. /\ pc' = [pc EXCEPT ![w] = "project"] /\ group' = [group EXCEPT ![w] = {}]
        /\ Forget(w, group[w]) /\ group[w] \in SUBSET Item
    BY <1>1 DEF Leave, TypeInv, TypeOK, WorkerTypeOK
  <2>2. /\ \A x \in Worker, k \in Item : read'[x][k] \in {0, read[x][k]}
        /\ ready'[w] = ready[w] \ group[w]
        /\ \A k \in Item : k \notin group[w] => target'[w][k] = target[w][k]
        /\ \A x \in Worker : x # w => /\ ready'[x] = ready[x] /\ read'[x] = read[x]
                                      /\ target'[x] = target[x]
    BY <2>1, ForgetRows
  <2>3. /\ pc'[w] = "project" /\ group'[w] = {}
        /\ \A x \in Worker : x # w => pc'[x] = pc[x] /\ group'[x] = group[x]
    BY <2>1 DEF TypeInv, TypeOK, WorkerTypeOK
  <2>. QED
    BY <2>2, <2>3
<1>2. CASE left[w] # {i}
  BY <1>2 DEF Leave
<1>. QED
  BY <1>1, <1>2

LEMMA LeaveAddressed ==
    ASSUME TypeInv, RowInv, NEW w \in Worker, NEW i \in Item, i \in group[w], Leave(w, i),
           pc[w] # "project", \A v \in Worker : v = w,
           \A k \in Item : k # i => record'[k] = record[k]
    PROVE  Addressed'
<1>1. ready[w] \in SUBSET Item /\ group[w] \in SUBSET Item
  BY DEF TypeInv, TypeOK, WorkerTypeOK
<1>2. ASSUME NEW k \in ready'[w], k \notin group'[w]
      PROVE  target'[w][k] = record'[k]
  <2>1. k \in ready[w] /\ k \notin group[w] /\ target'[w][k] = target[w][k]
    BY <1>1, <1>2, LeaveRows
  <2>. QED
    BY <1>1, <2>1 DEF RowInv, Addressed
<1>3. pc'[w] = "project" => group'[w] = {}
  BY LeaveRows
<1>. QED
  BY <1>2, <1>3 DEF Addressed

(* batch_create appends to the tables of items without a mapping.          *)
LEMMA CreatedShown ==
    ASSUME TypeInv, RowInv, NEW w \in Worker, Sending(w), Created(w), UNCHANGED record
    PROVE  /\ \A i \in Item : Shown(i)' = Shown(i)
           /\ \A i \in Creates(w) : record[i] = 0 /\ Len(rows[i]) + 1 # 0
                                    /\ rows'[i][Len(rows[i]) + 1] = read[w][i]
<1>1. \A i \in Item : rows[i] \in Seq(Version) /\ Len(rows[i]) \in Nat
  BY LenProperties DEF TypeInv, TypeOK, TableTypeOK
<1>2. ASSUME NEW i \in Creates(w)
      PROVE  /\ i \in Item /\ record[i] = 0
             /\ rows'[i] = Append(rows[i], read[w][i]) /\ read[w][i] \in Version
  <2>1. i \in ready[w] /\ target[w][i] = 0 /\ i \in Item
    BY DEF Creates, TypeInv, TypeOK, WorkerTypeOK
  <2>2. target[w][i] = record[i]
    BY <2>1 DEF RowInv, Addressed, Sending
  <2>3. read[w][i] \in Version
    BY <2>1, OutboxAssumption DEF TypeInv, TypeOK, WorkerTypeOK, PreparedRead, Version
  <2>. QED
    BY <2>1, <2>2, <2>3 DEF Created
<1>3. \A i \in Item : i \notin Creates(w) => rows'[i] = rows[i]
  BY DEF Created
<1>4. \A i \in Item : Shown(i)' = Shown(i)
  BY <1>2, <1>3 DEF Shown
<1>5. \A i \in Creates(w) : rows'[i][Len(rows[i]) + 1] = read[w][i] /\ Len(rows[i]) + 1 # 0
  BY <1>1, <1>2, AppendProperties
<1>. QED
  BY <1>2, <1>4, <1>5

(* batch_update moves rows to what was read. *)
LEMMA UpdatedShown ==
    ASSUME TypeInv, RowInv, NEW w \in Worker, Sending(w), Creates(w) = {}, Updated(w),
           UNCHANGED record
    PROVE  /\ \A i \in Updates(w) : /\ target[w][i] # 0 /\ rows'[i][target[w][i]] = read[w][i]
                                    /\ Shown(i)' = read[w][i] /\ read[w][i] # 0
           /\ \A i \in Item : i \notin Updates(w) => Shown(i)' = Shown(i)
<1>1. ASSUME NEW i \in Updates(w)
      PROVE  /\ i \in Item /\ target[w][i] # 0 /\ target[w][i] = record[i] /\ read[w][i] # 0
             /\ rows'[i] = [rows[i] EXCEPT ![target[w][i]] = read[w][i]]
  <2>1. i \in ready[w] /\ target[w][i] # 0 /\ i \in Item
    BY DEF Updates, Creates, TypeInv, TypeOK, WorkerTypeOK
  <2>2. target[w][i] = record[i]
    BY <2>1 DEF RowInv, Addressed, Sending
  <2>3. read[w][i] # 0
    BY <2>1 DEF TypeInv, PreparedRead
  <2>. QED
    BY <2>1, <2>2, <2>3 DEF Updated
<1>2. ASSUME NEW i \in Updates(w)
      PROVE  rows'[i][target[w][i]] = read[w][i]
  <2>1. rows[i] \in Seq(Version) /\ Len(rows[i]) \in Nat
    BY <1>1, LenProperties DEF TypeInv, TypeOK, TableTypeOK
  <2>2. target[w][i] \in Nat /\ target[w][i] <= Len(rows[i])
    <3>1. i \in Item
      BY <1>1
    <3>2. TableTypeOK /\ target \in [Worker -> [Item -> Nat]]
      BY DEF TypeInv, TypeOK, WorkerTypeOK
    <3>. QED
      BY <3>1, <3>2 DEF TableTypeOK
  <2>3. target[w][i] \in 1 .. Len(rows[i]) /\ DOMAIN rows[i] = 1 .. Len(rows[i])
    <3>1. target[w][i] # 0
      BY <1>1
    <3>2. DOMAIN rows[i] = 1 .. Len(rows[i])
      BY <2>1, LenProperties
    <3>. QED
      BY <2>1, <2>2, <3>1, <3>2
  <2>4. target[w][i] \in DOMAIN rows[i]
    BY <2>3
  <2>5. \A f, k, x : k \in DOMAIN f => [f EXCEPT ![k] = x][k] = x
    OBVIOUS
  <2>. QED
    BY <1>1, <2>4, <2>5
<1>3. \A i \in Item : i \notin Updates(w) => rows'[i] = rows[i]
  BY DEF Updated
<1>. QED
  BY <1>1, <1>2, <1>3 DEF Shown

LEMMA RowNext ==
    ASSUME Alone, TypeInv, RowInv, [Next]_vars
    PROVE  RowInv'
<1>. USE DEF Alone
<1>0. TypeInv'
  BY TypeNext
<1>t. /\ version \in [Item -> 0 .. MaxVersion] /\ read \in [Worker -> [Item -> 0 .. MaxVersion]]
      /\ pc \in [Worker -> Phase] /\ group \in [Worker -> SUBSET Item]
      /\ ready \in [Worker -> SUBSET Item] /\ target \in [Worker -> [Item -> Nat]]
      /\ \A w \in Worker : left[w] \subseteq group[w] /\ group[w] \subseteq ready[w]
      /\ \A w \in Worker : pc[w] \in {"idle", "coalesce"} => ready[w] = {}
      /\ \A w \in Worker : \A i \in ready[w] : read[w][i] # 0
  BY DEF TypeInv, TypeOK, DbTypeOK, WorkerTypeOK, PreparedRead
<1>s. \A i \in Item : Shown(i) \in Nat /\ synced[i] \in Nat /\ synced'[i] \in Nat
  BY <1>0, ShownType DEF TypeInv, TypeOK, DbTypeOK
<1>1. ASSUME NEW i \in Item, Change(i)
      PROVE  RowInv'
  <2>1. Honest' /\ ReadBetween'
    BY <1>0, <1>1, <1>t, RowKept DEF Change, workerVars
  <2>. QED
    BY <1>1, <2>1 DEF Change, workerVars, RowInv, Addressed, Written
<1>2. CASE Reconcile
  <2>1. Honest' /\ ReadBetween'
    BY <1>0, <1>2, <1>t, RowKept DEF Reconcile, workerVars
  <2>. QED
    BY <1>2, <2>1 DEF Reconcile, workerVars, RowInv, Addressed, Written
<1>3. ASSUME NEW w \in Worker, Claim(w) \/ FinishSuperseded(w) \/ FinishBatch(w)
      PROVE  RowInv'
  <2>1. /\ UNCHANGED <<version, record, synced, rows, read, target, ready, group>>
        /\ pc'[w] # "finish"
        /\ pc'[w] = "project" => ready[w] = {}
    BY <1>3, <1>t DEF Claim, FinishSuperseded, FinishBatch, dbVars
  <2>2. Honest' /\ ReadBetween'
    BY <1>0, <1>t, <2>1, RowKept
  <2>. QED
    BY <1>t, <2>1, <2>2 DEF RowInv, Addressed, Written
<1>4. ASSUME NEW w \in Worker, NEW i \in Item, ReadItem(w, i)
      PROVE  RowInv'
  <2>1. Honest' /\ ReadBetween'
    BY <1>0, <1>4, <1>t, RowKept DEF ReadItem, dbVars
  <2>. QED
    BY <1>4, <2>1 DEF ReadItem, InTurn, dbVars, RowInv, Addressed, Written
<1>5. ASSUME NEW w \in Worker, NEW i \in Item, ReadMapping(w, i)
      PROVE  RowInv'
  <2>1. Honest' /\ ReadBetween'
    BY <1>0, <1>5, <1>t, RowKept DEF ReadMapping, dbVars
  <2>. QED
    BY <1>5, <1>t, <2>1 DEF ReadMapping, InTurn, dbVars, RowInv, Addressed, Written
<1>6. ASSUME NEW w \in Worker, NEW i \in Item, ProjectFails(w, i)
      PROVE  RowInv'
  <2>1. /\ \A x \in Worker, k \in Item : read'[x][k] \in {0, read[x][k]}
        /\ ready'[w] = ready[w] \ {i}
        /\ \A k \in Item : k # i => target'[w][k] = target[w][k]
    BY <1>6, ForgetRows DEF ProjectFails
  <2>2. Honest' /\ ReadBetween'
    BY <1>0, <1>6, <1>t, <2>1, RowKept DEF ProjectFails
  <2>3. pc[w] = "project" /\ UNCHANGED <<pc, group, record>>
    BY <1>6 DEF ProjectFails, InTurn
  <2>. QED
    BY <1>t, <2>1, <2>2, <2>3 DEF RowInv, Addressed, Written
<1>7. ASSUME NEW w \in Worker, CreateRows(w) \/ CreateFails(w)
      PROVE  RowInv'
  <2>1. /\ Sending(w) /\ UNCHANGED <<version, record, synced, read, ready>>
        /\ group' = [group EXCEPT ![w] = Creates(w)]
        /\ \A k \in Item : k \notin Creates(w) => target'[w][k] = target[w][k]
        /\ pc'[w] \in {"finish", "retry"}
    BY <1>7, <1>t DEF CreateRows, CreateFails, Outcome, dbVars
  <2>2. \A i \in Item : Shown(i)' = Shown(i)
    BY <1>7, <2>1, CreatedShown DEF CreateRows, CreateFails, Shown
  <2>3. Honest' /\ ReadBetween'
    BY <2>1, <2>2 DEF RowInv, Honest, ReadBetween
  <2>4. Addressed'
    BY <1>t, <2>1 DEF RowInv, Addressed, Sending
  <2>5. ASSUME pc'[w] = "finish"
        PROVE  Written'
    <3>1. CreateRows(w) /\ Created(w)
      BY <1>7, <1>t, <2>5 DEF CreateFails, Outcome, CreateRows
    <3>2. \A i \in Creates(w) : target'[w][i] = Len(rows[i]) + 1
      BY <1>t, <3>1 DEF CreateRows, Creates
    <3>3. \A i \in Creates(w) : Len(rows[i]) + 1 # 0 /\ rows'[i][Len(rows[i]) + 1] = read[w][i]
      BY <2>1, <3>1, CreatedShown
    <3>4. group'[w] = Creates(w) /\ read' = read
      BY <1>t, <2>1
    <3>5. \A i \in group'[w] : target'[w][i] # 0 /\ rows'[i][target'[w][i]] = read'[w][i]
      BY <3>2, <3>3, <3>4
    <3>. QED
      BY <3>5 DEF Written
  <2>6. pc'[w] # "finish" => Written'
    BY DEF Written
  <2>. QED
    BY <2>3, <2>4, <2>5, <2>6 DEF RowInv
<1>8. ASSUME NEW w \in Worker, UpdateRows(w) \/ UpdateFails(w)
      PROVE  RowInv'
  <2>1. /\ Sending(w) /\ Creates(w) = {} /\ UNCHANGED <<version, record, synced, read, ready, target>>
        /\ group' = [group EXCEPT ![w] = Updates(w)]
        /\ pc'[w] \in {"finish", "retry"}
        /\ Updates(w) \in SUBSET Item
    BY <1>8, <1>t DEF UpdateRows, UpdateFails, Outcome, dbVars, Updates
  <2>2. Addressed'
    BY <1>t, <2>1 DEF RowInv, Addressed, Sending
  <2>3. CASE Updated(w)
    <3>1. /\ \A i \in Updates(w) : /\ target[w][i] # 0 /\ rows'[i][target[w][i]] = read[w][i]
                                    /\ Shown(i)' = read[w][i] /\ read[w][i] # 0
          /\ \A i \in Item : i \notin Updates(w) => Shown(i)' = Shown(i)
      BY <2>1, <2>3, UpdatedShown
    <3>2. ASSUME NEW i \in Item
          PROVE  /\ synced'[i] <= Shown(i)' /\ Shown(i)' <= version'[i]
                 /\ read'[w][i] # 0 => Shown(i)' <= read'[w][i] /\ read'[w][i] <= version'[i]
      <4>1. synced[i] <= Shown(i) /\ Shown(i) <= version[i]
            /\ (read[w][i] # 0 => Shown(i) <= read[w][i] /\ read[w][i] <= version[i])
        BY DEF RowInv, Honest, ReadBetween
      <4>2. synced[i] \in Nat /\ Shown(i) \in Nat /\ read[w][i] \in Nat
        BY <1>s, <1>t
      <4>. QED
        BY <2>1, <3>1, <4>1, <4>2
    <3>3. Honest' /\ ReadBetween'
      BY <3>2 DEF Honest, ReadBetween
    <3>4. Written'
      BY <1>t, <2>1, <3>1 DEF Written
    <3>. QED
      BY <2>2, <3>3, <3>4 DEF RowInv
  <2>4. CASE UNCHANGED rows /\ UpdateFails(w)
    <3>1. Honest' /\ ReadBetween'
      BY <2>1, <2>4 DEF RowInv, Honest, ReadBetween, Shown
    <3>2. pc'[w] # "finish"
      BY <1>t, <2>4 DEF UpdateFails, Outcome
    <3>. QED
      BY <2>2, <3>1, <3>2 DEF RowInv, Written
  <2>. QED
    BY <1>8, <2>3, <2>4 DEF UpdateRows, UpdateFails
<1>9. ASSUME NEW w \in Worker, NEW i \in Item, FinishJob(w, i)
      PROVE  RowInv'
  <2>1. /\ pc[w] = "finish" /\ i \in left[w] /\ Leave(w, i) /\ UNCHANGED <<version, rows>>
        /\ record' = [record EXCEPT ![i] = target[w][i]]
        /\ synced' = [synced EXCEPT ![i] = IF @ < read[w][i] THEN read[w][i] ELSE @]
        /\ i \in group[w] /\ read[w][i] # 0 /\ record \in [Item -> Nat] /\ synced \in [Item -> 0 .. MaxVersion]
    BY <1>9, <1>t DEF FinishJob, TypeInv, TypeOK, DbTypeOK
  <2>2. target[w][i] # 0 /\ rows[i][target[w][i]] = read[w][i]
    BY <2>1 DEF RowInv, Written
  <2>3. Shown(i)' = read[w][i] /\ \A k \in Item : k # i => Shown(k)' = Shown(k)
    BY <2>1, <2>2 DEF Shown
  <2>4. /\ \A x \in Worker, k \in Item : read'[x][k] \in {0, read[x][k]}
        /\ pc'[w] = "finish" => group'[w] = group[w] /\ target'[w] = target[w] /\ read'[w] = read[w]
    BY <2>1, LeaveRows
  <2>5. ASSUME NEW k \in Item
        PROVE  /\ synced'[k] <= Shown(k)' /\ Shown(k)' <= version'[k]
               /\ read'[w][k] # 0 => Shown(k)' <= read'[w][k] /\ read'[w][k] <= version'[k]
    <3>1. synced[k] <= Shown(k) /\ Shown(k) <= version[k]
          /\ (read[w][k] # 0 => Shown(k) <= read[w][k] /\ read[w][k] <= version[k])
      BY DEF RowInv, Honest, ReadBetween
    <3>2. synced[k] \in Nat /\ Shown(k) \in Nat /\ read[w][k] \in Nat
      BY <1>s, <1>t
    <3>3. k # i => synced'[k] = synced[k]
      BY <2>1
    <3>4. k = i => synced'[k] \in {synced[k], read[w][k]}
      BY <2>1
    <3>5. read'[w][k] \in {0, read[w][k]}
      BY <2>4
    <3>. QED
      BY <2>1, <2>3, <3>1, <3>2, <3>3, <3>4, <3>5
  <2>6. Honest' /\ ReadBetween'
    BY <2>5 DEF Honest, ReadBetween
  <2>7. Addressed'
    BY <2>1, LeaveAddressed
  <2>8. Written'
    BY <2>1, <2>4 DEF RowInv, Written
  <2>. QED
    BY <2>6, <2>7, <2>8 DEF RowInv
<1>10. ASSUME NEW w \in Worker, FinishFails(w)
       PROVE  RowInv'
  <2>1. Honest' /\ ReadBetween'
    BY <1>0, <1>10, <1>t, RowKept DEF FinishFails, dbVars
  <2>. QED
    BY <1>10, <1>t, <2>1 DEF FinishFails, dbVars, RowInv, Addressed, Written
<1>11. ASSUME NEW w \in Worker, NEW i \in Item, RetryJob(w, i)
       PROVE  RowInv'
  <2>1. /\ pc[w] = "retry" /\ i \in group[w] /\ Leave(w, i) /\ UNCHANGED <<version, record, synced, rows>>
    BY <1>11, <1>t DEF RetryJob
  <2>2. Honest' /\ ReadBetween'
    BY <1>0, <1>t, <2>1, RowKept, LeaveRows
  <2>3. Addressed'
    BY <2>1, LeaveAddressed
  <2>4. Written'
    BY <2>1, LeaveRows DEF Written
  <2>. QED
    BY <2>2, <2>3, <2>4 DEF RowInv
<1>12. ASSUME NEW w \in Worker, Abort(w) \/ Restart(w)
       PROVE  RowInv'
  <2>1. /\ Reset(w) /\ UNCHANGED <<version, record, synced, rows>>
    BY <1>12 DEF Abort, Restart, dbVars
  <2>2. /\ \A x \in Worker, k \in Item : read'[x][k] \in {0, read[x][k]}
        /\ ready'[w] = ready[w] \ Item /\ pc'[w] = "idle"
    BY <1>t, <2>1, ForgetRows DEF Reset
  <2>3. Honest' /\ ReadBetween'
    BY <1>0, <1>t, <2>1, <2>2, RowKept
  <2>. QED
    BY <1>t, <2>2, <2>3 DEF RowInv, Addressed, Written
<1>13. CASE UNCHANGED vars
  BY <1>13 DEF vars, dbVars, workerVars, RowInv, Honest, ReadBetween, Addressed, Written, Shown
<1>. QED
  BY <1>1, <1>2, <1>3, <1>4, <1>5, <1>6, <1>7, <1>8, <1>9, <1>10, <1>11, <1>12, <1>13
     DEF Next, Progress, Failure

-----------------------------------------------------------------------------
(* The outbox implements Projection. *)

LEMMA ProjectionInit == Init => P!Init
  BY DEF Init, P!Init, Zero, Shown

LEMMA ProjectionNext ==
    ASSUME Alone, TypeInv, RowInv, RowInv', TypeInv', Next
    PROVE  P!Next \/ UNCHANGED P!vars
<1>. USE DEF P!vars
<1>t. /\ version \in [Item -> 0 .. MaxVersion] /\ synced \in [Item -> 0 .. MaxVersion]
      /\ record \in [Item -> Nat]
      /\ read \in [Worker -> [Item -> 0 .. MaxVersion]]
      /\ ready \in [Worker -> SUBSET Item]
      /\ \A w \in Worker : left[w] \subseteq group[w] /\ group[w] \subseteq ready[w]
      /\ \A w \in Worker : \A i \in ready[w] : read[w][i] # 0
  BY DEF TypeInv, TypeOK, DbTypeOK, WorkerTypeOK, PreparedRead
<1>h. /\ \A i \in Item : synced[i] <= Shown(i) /\ Shown(i) <= version[i]
      /\ \A w \in Worker, i \in Item :
           read[w][i] # 0 => Shown(i) <= read[w][i] /\ read[w][i] <= version[i]
      /\ \A i \in Item : Shown(i) \in 0 .. MaxVersion
  BY ShownType DEF RowInv, Honest, ReadBetween
<1>1. ASSUME NEW i \in Item, Change(i)
      PROVE  P!Next
  <2>1. UNCHANGED <<record, rows, synced>>
    BY <1>1 DEF Change
  <2>2. [k \in Item |-> Shown(k)]' = [k \in Item |-> Shown(k)]
    BY <2>1 DEF Shown
  <2>3. P!Change(i)
    BY <1>1, <2>1, <2>2 DEF Change, P!Change
  <2>. QED
    BY <2>3 DEF P!Next
<1>2. ASSUME UNCHANGED <<version, record, synced, rows>>
      PROVE  UNCHANGED P!vars
  BY <1>2 DEF Shown
<1>3. ASSUME NEW w \in Worker, CreateRows(w) \/ CreateFails(w)
      PROVE  UNCHANGED P!vars
  <2>1. Sending(w) /\ UNCHANGED <<version, synced, record>> /\ (Created(w) \/ UNCHANGED rows)
    BY <1>3 DEF CreateRows, CreateFails, Outcome, dbVars
  <2>2. \A i \in Item : Shown(i)' = Shown(i)
    BY <2>1, CreatedShown DEF Shown
  <2>. QED
    BY <2>1, <2>2
<1>4. ASSUME NEW w \in Worker, UpdateRows(w) \/ UpdateFails(w)
      PROVE  P!Next \/ UNCHANGED P!vars
  <2>1. /\ Sending(w) /\ Creates(w) = {} /\ UNCHANGED <<version, synced, record>>
        /\ Updated(w) \/ UNCHANGED rows
    BY <1>4 DEF UpdateRows, UpdateFails, Outcome, dbVars
  <2>2. CASE UNCHANGED rows
    BY <1>2, <2>1, <2>2
  <2>3. CASE Updated(w)
    <3>1. \A i \in Item : Shown(i)' \in {Shown(i), read[w][i]} /\ (Shown(i)' # Shown(i) => read[w][i] # 0)
      BY <2>1, <2>3, UpdatedShown
    <3>2. \A i \in Item : Shown(i)' \in Shown(i) .. version[i] /\ Shown(i)' \in 0 .. MaxVersion
      BY <1>h, <1>t, <3>1
    <3>3. P!AdvanceMany
      BY <2>1, <3>2 DEF P!AdvanceMany
    <3>. QED
      BY <3>3 DEF P!Next
  <2>. QED
    BY <2>1, <2>2, <2>3
<1>5. ASSUME NEW w \in Worker, NEW i \in Item, FinishJob(w, i)
      PROVE  P!Next
  <2>1. /\ pc[w] = "finish" /\ i \in group[w] /\ read[w][i] # 0 /\ UNCHANGED <<version, rows>>
        /\ record' = [record EXCEPT ![i] = target[w][i]]
        /\ synced' = [synced EXCEPT ![i] = IF @ < read[w][i] THEN read[w][i] ELSE @]
    BY <1>5, <1>t DEF FinishJob
  <2>2. target[w][i] # 0 /\ rows[i][target[w][i]] = read[w][i]
    BY <2>1 DEF RowInv, Written
  <2>3. Shown(i)' = read[w][i] /\ \A k \in Item : k # i => Shown(k)' = Shown(k)
    BY <1>t, <2>1, <2>2 DEF Shown
  <2>4. read[w][i] \in Shown(i) .. version[i]
    BY <1>h, <1>t, <2>1
  <2>5. PICK s \in synced[i] .. read[w][i] : synced' = [synced EXCEPT ![i] = s]
    <3>1. synced[i] \in Nat /\ read[w][i] \in Nat /\ synced[i] <= read[w][i]
      BY <1>h, <1>t, <2>4
    <3>2. synced' = [synced EXCEPT ![i] = read[w][i]] \/ synced' = [synced EXCEPT ![i] = synced[i]]
      BY <2>1
    <3>3. read[w][i] \in synced[i] .. read[w][i] /\ synced[i] \in synced[i] .. read[w][i]
      BY <3>1
    <3>. QED
      BY <3>2, <3>3
  <2>6. [k \in Item |-> Shown(k)]' = [[k \in Item |-> Shown(k)] EXCEPT ![i] = read[w][i]]
    BY <2>3
  <2>7. P!Advance(i)
    BY <2>1, <2>4, <2>5, <2>6 DEF P!Advance
  <2>. QED
    BY <2>7 DEF P!Next
<1>6. ASSUME NEW w \in Worker,
             \/ Claim(w) \/ FinishSuperseded(w) \/ FinishBatch(w) \/ FinishFails(w) \/ Abort(w)
             \/ Restart(w)
             \/ \E i \in Item : ReadItem(w, i) \/ ReadMapping(w, i) \/ RetryJob(w, i) \/ ProjectFails(w, i)
      PROVE  UNCHANGED <<version, record, synced, rows>>
  BY <1>6 DEF Claim, FinishSuperseded, FinishBatch, FinishFails, Abort, Restart, ReadItem,
              ReadMapping, RetryJob, ProjectFails, dbVars
<1>7. CASE Reconcile
  BY <1>2, <1>7 DEF Reconcile
<1>. HIDE DEF P!vars
<1>. QED
  BY ZenonT(30), <1>1, <1>2, <1>3, <1>4, <1>5, <1>6, <1>7 DEF Next, Progress, Failure

(* The mapped row only moves forward, and what is recorded never exceeds   *)
(* it, whatever fails (_flush_outbox, finish_outbox).                      *)
THEOREM ProjectionSafe ==
    ASSUME Alone
    PROVE  Spec => RefinesProjectionSafely
<1>1. TypeInv /\ RowInv /\ [Next]_vars => RowInv'
  BY RowNext
<1>2. TypeInv /\ RowInv /\ TypeInv' /\ RowInv' /\ [Next]_vars => [P!Next]_P!vars
  <2>1. UNCHANGED vars => UNCHANGED P!vars
    BY DEF vars, dbVars, P!vars, Shown
  <2>. QED
    BY <2>1, ProjectionNext
<1>. QED
  BY <1>1, <1>2, TypeInit, TypeNext, RowInit, ProjectionInit, PTL
     DEF Spec, RefinesProjectionSafely, P!Safe

-----------------------------------------------------------------------------
(* No change is forgotten, whatever the order of created_at. *)

JobsOfPast ==
    \A w \in Worker, i \in Item :
        keep[w][i] <= version[i] /\ \A v \in old[w][i] : v <= version[i]

(* A job v of item i that will still bring the item to the table: nobody   *)
(* has read an older version for it.                                       *)
Alive(i, v) ==
    /\ job[i][v] \in Unfinished
    /\ \A w \in Worker : keep[w][i] = v /\ read[w][i] # 0 => read[w][i] = version[i]

SomeAlive == \A i \in Item : synced[i] < version[i] => \E v \in Version : Alive(i, v)

(* Jobs are superseded while the one that is retained is unfinished.       *)
Superseding ==
    \A w \in Worker : pc[w] = "coalesce" => \A i \in Item :
        /\ keep[w][i] \notin old[w][i]
        /\ old[w][i] # {} => keep[w][i] # 0 /\ job[i][keep[w][i]] \in Unfinished

JobInv == NoFutureJob /\ JobsOfPast /\ SomeAlive /\ Superseding

LEMMA JobInit == Init => JobInv
<1>. SUFFICES ASSUME Init PROVE JobInv
  OBVIOUS
<1>1. NoFutureJob
  BY DEF Init, NoFutureJob
<1>2. /\ \A i \in Item : version[i] = 0 /\ synced[i] = 0
      /\ \A w \in Worker, i \in Item : keep[w][i] = 0 /\ old[w][i] = {}
      /\ \A w \in Worker : pc[w] = "idle"
  BY DEF Init, Zero, Empty
<1>3. JobsOfPast
  <2>1. \A w \in Worker, i \in Item : keep[w][i] = version[i] /\ version[i] = 0 /\ old[w][i] = {}
    BY <1>2
  <2>2. ASSUME NEW w \in Worker, NEW i \in Item
        PROVE  keep[w][i] <= version[i] /\ \A v \in old[w][i] : v <= version[i]
    BY <2>1
  <2>. QED
    BY <2>2 DEF JobsOfPast
<1>4. SomeAlive
  BY <1>2 DEF SomeAlive
<1>5. Superseding
  BY <1>2 DEF Superseding
<1>. QED
  BY <1>1, <1>3, <1>4, <1>5 DEF JobInv

(* Steps that change no job and no version. *)
LEMMA JobKept ==
    ASSUME TypeInv, JobInv, UNCHANGED <<version, job>>,
           \A i \in Item : synced[i] <= synced'[i] /\ synced'[i] \in Nat,
           \A w \in Worker, i \in Item :
             /\ keep'[w][i] \in {0, keep[w][i]} /\ old'[w][i] \subseteq old[w][i]
             /\ keep'[w][i] # 0 => read'[w][i] \in {read[w][i], version[i]},
           \A w \in Worker : pc'[w] = "coalesce" => pc[w] = "coalesce" /\ keep'[w] = keep[w] /\ old'[w] = old[w]
    PROVE  JobInv'
<1>t. \A i \in Item : version[i] \in Nat /\ synced[i] \in Nat
  BY DEF TypeInv, TypeOK, DbTypeOK
<1>1. NoFutureJob' /\ Superseding'
  BY DEF JobInv, NoFutureJob, Superseding
<1>2. JobsOfPast'
  BY <1>t DEF JobInv, JobsOfPast
<1>3. ASSUME NEW i \in Item, synced'[i] < version'[i]
      PROVE  \E v \in Version : Alive(i, v)'
  <2>1. PICK v \in Version : Alive(i, v)
    BY <1>t, <1>3 DEF JobInv, SomeAlive
  <2>2. v # 0
    BY DEF Version
  <2>3. Alive(i, v)'
    BY <2>1, <2>2 DEF Alive
  <2>. QED
    BY <2>3
<1>. QED
  BY <1>1, <1>2, <1>3 DEF JobInv, SomeAlive

(* The job of i that w holds ends or is to be retried. *)
LEMMA JobEnds ==
    ASSUME TypeInv, JobInv, NEW w \in Worker, NEW i \in Item, NEW s \in {"failed", "succeeded"},
           keep[w][i] # 0, pc[w] # "coalesce", Alone, pc'[w] # "coalesce",
           job' = [job EXCEPT ![i][keep[w][i]] = s], UNCHANGED <<version, old>>,
           \A k \in Item : synced[k] <= synced'[k] /\ synced'[k] \in Nat,
           s = "succeeded" => read[w][i] # 0 /\ read[w][i] <= synced'[i],
           \A k \in Item : \/ keep'[w][k] = keep[w][k] /\ read'[w][k] = read[w][k]
                           \/ keep'[w][k] = 0
    PROVE  JobInv'
<1>. USE DEF Alone
<1>t. /\ \A k \in Item : version[k] \in Nat /\ synced[k] \in Nat
      /\ keep[w][i] \in Version /\ read[w][i] \in Nat /\ job \in [Item -> [Version -> Status]]
  BY OutboxAssumption DEF TypeInv, TypeOK, DbTypeOK, WorkerTypeOK, Version
<1>1. \A k \in Item, v \in Version :
        job'[k][v] = IF k = i /\ v = keep[w][i] THEN s ELSE job[k][v]
  BY <1>t
<1>2. NoFutureJob'
  <2>1. keep[w][i] <= version[i] /\ keep[w][i] \in Nat
    BY <1>t DEF JobInv, JobsOfPast, Version
  <2>2. \A v \in Version : v > version[i] => v # keep[w][i]
    BY <1>t, <2>1 DEF Version
  <2>. QED
    BY <1>1, <2>2 DEF JobInv, NoFutureJob
<1>3. Superseding' /\ JobsOfPast'
  <2>1. \A k \in Item : keep'[w][k] \in {0, keep[w][k]}
    OBVIOUS
  <2>. QED
    BY <1>t, <2>1 DEF JobInv, JobsOfPast, Superseding
<1>4. ASSUME NEW k \in Item, synced'[k] < version'[k]
      PROVE  \E v \in Version : Alive(k, v)'
  <2>1. PICK v \in Version : Alive(k, v)
    BY <1>t, <1>4 DEF JobInv, SomeAlive
  <2>2. v # 0
    BY DEF Version
  <2>3. CASE k = i /\ v = keep[w][i] /\ s = "succeeded"
    <3>1. read[w][i] = version[i]
      BY <2>1, <2>3 DEF Alive
    <3>. QED
      BY <1>t, <1>4, <2>3, <3>1
  <2>4. CASE ~(k = i /\ v = keep[w][i] /\ s = "succeeded")
    <3>1. job'[k][v] \in Unfinished
      BY <1>1, <2>1, <2>4 DEF Alive, Unfinished
    <3>2. Alive(k, v)'
      BY <2>1, <2>2, <3>1 DEF Alive
    <3>. QED
      BY <3>2
  <2>. QED
    BY <2>3, <2>4
<1>. QED
  BY <1>2, <1>3, <1>4 DEF JobInv, SomeAlive

LEMMA JobNext ==
    ASSUME Alone, TypeInv, JobInv, [Next]_vars
    PROVE  JobInv'
<1>. USE DEF Alone
<1>t. /\ version \in [Item -> 0 .. MaxVersion] /\ synced \in [Item -> 0 .. MaxVersion]
      /\ read \in [Worker -> [Item -> 0 .. MaxVersion]] /\ keep \in [Worker -> [Item -> 0 .. MaxVersion]]
      /\ job \in [Item -> [Version -> Status]] /\ old \in [Worker -> [Item -> SUBSET Version]]
      /\ pc \in [Worker -> Phase] /\ group \in [Worker -> SUBSET Item]
      /\ \A w \in Worker : left[w] \subseteq group[w] /\ group[w] \subseteq ready[w]
      /\ \A w \in Worker : \A i \in ready[w] : keep[w][i] # 0 /\ read[w][i] # 0
      /\ \A w \in Worker : pc[w] \in {"idle", "coalesce"} => \A i \in Item : read[w][i] = 0
  BY DEF TypeInv, TypeOK, DbTypeOK, WorkerTypeOK, PreparedRead
<1>n. \A i \in Item : version[i] \in Nat /\ synced[i] \in Nat /\ \A w \in Worker : read[w][i] \in Nat
  BY <1>t
<1>same. UNCHANGED synced => \A i \in Item : synced[i] <= synced'[i] /\ synced'[i] \in Nat
  BY <1>n
<1>k. \A w \in Worker, i \in Item : keep[w][i] # 0 => keep[w][i] \in Version
  BY <1>t, OutboxAssumption DEF Version
<1>j. NoFutureJob /\ JobsOfPast /\ SomeAlive /\ Superseding
  BY DEF JobInv
<1>1. ASSUME NEW i \in Item, Change(i)
      PROVE  JobInv'
  <2>1. /\ version[i] + 1 \in Version /\ UNCHANGED <<synced, keep, old, read, pc>>
        /\ \A k \in Item : version'[k] = IF k = i THEN version[i] + 1 ELSE version[k]
        /\ \A k \in Item, v \in Version :
              job'[k][v] = IF k = i /\ v = version[i] + 1 /\ job[k][v] = "none"
                           THEN "pending" ELSE job[k][v]
    BY <1>1, <1>t, OutboxAssumption DEF Change, Enqueue, workerVars, Version
  <2>2. job'[i][version[i] + 1] = "pending"
    BY <1>n, <1>j, <2>1 DEF NoFutureJob
  <2>3. NoFutureJob'
    BY <1>n, <1>j, <2>1 DEF NoFutureJob, Version
  <2>4. JobsOfPast'
    <3>1. \A w \in Worker, k \in Item : keep[w][k] \in Nat /\ \A v \in old[w][k] : v \in Nat
      BY <1>t DEF Version
    <3>. QED
      BY <1>n, <1>j, <2>1, <3>1 DEF JobsOfPast
  <2>5. Superseding'
    <3>1. \A k \in Item, v \in Version : job[k][v] \in Unfinished => job'[k][v] \in Unfinished
      BY <2>1 DEF Unfinished
    <3>. QED
      BY <1>k, <1>j, <2>1, <3>1 DEF Superseding
  <2>6. ASSUME NEW k \in Item, synced'[k] < version'[k]
        PROVE  \E v \in Version : Alive(k, v)'
    <3>1. CASE k = i
      <4>1. PICK v \in Version : v = version[i] + 1
        BY <2>1
      <4>2. \A w \in Worker : keep[w][i] # v
        BY <1>n, <1>j, <1>t, <4>1 DEF JobsOfPast
      <4>3. Alive(i, v)'
        BY <2>1, <2>2, <4>1, <4>2 DEF Alive, Unfinished
      <4>. QED
        BY <3>1, <4>3
    <3>2. CASE k # i
      <4>1. PICK v \in Version : Alive(k, v)
        BY <1>j, <2>1, <2>6, <3>2 DEF SomeAlive
      <4>2. Alive(k, v)'
        BY <2>1, <3>2, <4>1 DEF Alive
      <4>. QED
        BY <4>2
    <3>. QED
      BY <3>1, <3>2
  <2>. QED
    BY <2>3, <2>4, <2>5, <2>6 DEF JobInv, SomeAlive
<1>2. CASE Reconcile
  <2>1. /\ UNCHANGED <<version, synced, keep, old, read, pc>>
        /\ \A k \in Item, v \in Version :
              \/ job'[k][v] = job[k][v]
              \/ job'[k][v] = "pending" /\ v = version[k]
    BY <1>2 DEF Reconcile, workerVars
  <2>2. NoFutureJob'
    BY <1>n, <1>j, <2>1 DEF NoFutureJob, Version
  <2>3. JobsOfPast'
    BY <1>j, <2>1 DEF JobsOfPast
  <2>4. Superseding'
    <3>1. \A k \in Item, v \in Version : job[k][v] \in Unfinished => job'[k][v] \in Unfinished
      BY <2>1 DEF Unfinished
    <3>. QED
      BY <1>k, <1>j, <2>1, <3>1 DEF Superseding
  <2>5. \A k \in Item, v \in Version : Alive(k, v) => Alive(k, v)'
    BY <2>1 DEF Alive, Unfinished
  <2>. QED
    BY <1>j, <2>1, <2>2, <2>3, <2>4, <2>5 DEF JobInv, SomeAlive
<1>3. ASSUME NEW w \in Worker, Claim(w)
      PROVE  JobInv'
  <2>1. PICK taken \in [Item -> SUBSET Version], kept \in [Item -> 0 .. MaxVersion] :
           /\ \A i \in Item : \A v \in taken[i] : job[i][v] \in Unfinished
           /\ Retained(taken, kept)
           /\ job'  = [i \in Item |-> [v \in Version |->
                         IF v \in taken[i] THEN "processing" ELSE job[i][v]]]
           /\ keep' = [keep EXCEPT ![w] = kept]
           /\ old'  = [old EXCEPT ![w] = [i \in Item |-> taken[i] \ {kept[i]}]]
    BY <1>3 DEF Claim
  <2>2. UNCHANGED <<version, synced, read>> /\ \A i \in Item : read[w][i] = 0
    BY <1>3, <1>t DEF Claim
  <2>3. /\ \A i \in Item : keep'[w][i] = kept[i] /\ old'[w][i] = taken[i] \ {kept[i]}
        /\ \A i \in Item, v \in Version :
              job'[i][v] = IF v \in taken[i] THEN "processing" ELSE job[i][v]
    BY <1>t, <2>1
  <2>4. ASSUME NEW i \in Item, NEW v \in taken[i]
        PROVE  v \in Version /\ v <= version[i]
    <3>1. v \in Version /\ job[i][v] # "none"
      BY <2>1 DEF Unfinished
    <3>. QED
      BY <1>n, <1>j, <3>1 DEF NoFutureJob, Version
  <2>5. \A i \in Item : kept[i] <= version[i] /\ (taken[i] # {} => kept[i] \in taken[i])
    BY <1>n, <2>1, <2>4 DEF Retained
  <2>6. NoFutureJob'
    BY <1>n, <1>j, <2>2, <2>3, <2>4 DEF NoFutureJob, Version
  <2>7. JobsOfPast'
    BY <2>2, <2>3, <2>4, <2>5 DEF JobsOfPast
  <2>8. Superseding'
    <3>1. ASSUME NEW i \in Item, taken[i] # {}
          PROVE  kept[i] # 0 /\ job'[i][kept[i]] = "processing"
      BY <2>3, <2>4, <2>5, <3>1 DEF Version
    <3>. QED
      BY <2>3, <3>1 DEF Superseding, Unfinished
  <2>9. \A i \in Item, v \in Version : Alive(i, v) => Alive(i, v)'
    BY <2>2, <2>3 DEF Alive, Unfinished
  <2>. QED
    BY <1>j, <2>2, <2>6, <2>7, <2>8, <2>9 DEF JobInv, SomeAlive
<1>4. ASSUME NEW w \in Worker, FinishSuperseded(w)
      PROVE  JobInv'
  <2>1. /\ pc[w] = "coalesce" /\ pc'[w] = "project" /\ UNCHANGED <<version, synced, keep, read>>
        /\ \A i \in Item : old'[w][i] = {} /\ read[w][i] = 0
        /\ \A i \in Item, v \in Version :
              job'[i][v] = IF v \in old[w][i] THEN "succeeded" ELSE job[i][v]
    BY <1>4, <1>t DEF FinishSuperseded, Empty
  <2>2. NoFutureJob'
    <3>1. \A i \in Item, v \in Version : v > version[i] => v \notin old[w][i]
      BY <1>n, <1>j DEF JobsOfPast, Version
    <3>. QED
      BY <1>j, <2>1, <3>1 DEF NoFutureJob
  <2>3. JobsOfPast' /\ Superseding'
    BY <1>j, <2>1 DEF JobsOfPast, Superseding
  <2>4. ASSUME NEW i \in Item, synced'[i] < version'[i]
        PROVE  \E v \in Version : Alive(i, v)'
    <3>1. PICK v \in Version : Alive(i, v)
      BY <1>j, <2>1, <2>4 DEF SomeAlive
    <3>2. CASE v \in old[w][i]
      <4>1. /\ keep[w][i] \in Version /\ keep[w][i] \notin old[w][i]
            /\ job[i][keep[w][i]] \in Unfinished
        BY <1>j, <1>t, <2>1, <3>2, OutboxAssumption DEF Superseding, Version
      <4>2. Alive(i, keep[w][i])'
        BY <2>1, <4>1 DEF Alive
      <4>. QED
        BY <2>1, <4>1, <4>2
    <3>3. CASE v \notin old[w][i]
      <4>1. Alive(i, v)'
        BY <2>1, <3>1, <3>3 DEF Alive
      <4>. QED
        BY <4>1
    <3>. QED
      BY <3>2, <3>3
  <2>. QED
    BY <2>2, <2>3, <2>4 DEF JobInv, SomeAlive
<1>5. ASSUME NEW w \in Worker, NEW i \in Item, ReadItem(w, i)
      PROVE  JobInv'
  <2>1. /\ UNCHANGED <<version, job, synced, keep, old, pc>>
        /\ \A x \in Worker, k \in Item : read'[x][k] \in {read[x][k], version[k]}
    BY <1>5, <1>t DEF ReadItem, dbVars
  <2>. QED
    BY <1>n, <2>1, JobKept
<1>6. ASSUME NEW w \in Worker,
             \/ \E i \in Item : ReadMapping(w, i)
             \/ CreateRows(w) \/ CreateFails(w) \/ UpdateRows(w) \/ UpdateFails(w)
             \/ FinishFails(w) \/ FinishBatch(w)
      PROVE  JobInv'
  <2>1. UNCHANGED <<version, job, synced, keep, old, read>> /\ (pc'[w] = "coalesce" => pc[w] = "coalesce")
    BY <1>6, <1>t DEF ReadMapping, CreateRows, CreateFails, UpdateRows, UpdateFails, Outcome,
                 FinishFails, FinishBatch, dbVars
  <2>. QED
    BY <1>n, <2>1, JobKept
<1>7. ASSUME NEW w \in Worker, NEW i \in Item, ProjectFails(w, i)
      PROVE  JobInv'
  <2>1. /\ keep[w][i] # 0 /\ pc[w] = "project" /\ UNCHANGED <<version, synced, old, pc>>
        /\ job' = [job EXCEPT ![i][keep[w][i]] = "failed"]
    BY <1>7 DEF ProjectFails, InTurn, ToProject
  <2>2. \A k \in Item : \/ keep'[w][k] = keep[w][k] /\ read'[w][k] = read[w][k]
                        \/ keep'[w][k] = 0
    BY <1>7, <1>t DEF ProjectFails, Forget, Without
  <2>. QED
    BY <1>n, <1>same, <2>1, <2>2, JobEnds
<1>8. ASSUME NEW w \in Worker, NEW i \in Item, Leave(w, i)
      PROVE  \A k \in Item : \/ keep'[w][k] = keep[w][k] /\ read'[w][k] = read[w][k]
                             \/ keep'[w][k] = 0
  BY <1>8, <1>t DEF Leave, Forget, Without
<1>9. ASSUME NEW w \in Worker, NEW i \in Item, Leave(w, i), pc[w] # "coalesce"
      PROVE  pc'[w] # "coalesce"
  BY <1>9, <1>t DEF Leave
<1>10. ASSUME NEW w \in Worker, NEW i \in Item, RetryJob(w, i)
       PROVE  JobInv'
  <2>1. /\ keep[w][i] # 0 /\ pc[w] = "retry" /\ UNCHANGED <<version, synced, old>> /\ Leave(w, i)
        /\ job' = [job EXCEPT ![i][keep[w][i]] = "failed"]
    BY <1>10, <1>t DEF RetryJob
  <2>2. /\ pc'[w] # "coalesce"
        /\ \A k \in Item : \/ keep'[w][k] = keep[w][k] /\ read'[w][k] = read[w][k]
                           \/ keep'[w][k] = 0
    BY <1>8, <1>9, <2>1
  <2>. QED
    BY <1>n, <1>same, <2>1, <2>2, JobEnds
<1>11. ASSUME NEW w \in Worker, NEW i \in Item, FinishJob(w, i)
       PROVE  JobInv'
  <2>1. /\ keep[w][i] # 0 /\ read[w][i] # 0 /\ pc[w] = "finish" /\ UNCHANGED <<version, old>>
        /\ Leave(w, i) /\ job' = [job EXCEPT ![i][keep[w][i]] = "succeeded"]
        /\ synced' = [synced EXCEPT ![i] = IF @ < read[w][i] THEN read[w][i] ELSE @]
    BY <1>11, <1>t DEF FinishJob
  <2>2. \A k \in Item : synced[k] <= synced'[k] /\ synced'[k] \in Nat
    <3>1. \A k \in Item : k # i => synced'[k] = synced[k]
      BY <1>t, <2>1
    <3>2. synced'[i] = IF synced[i] < read[w][i] THEN read[w][i] ELSE synced[i]
      BY <1>t, <2>1
    <3>. QED
      BY <1>n, <3>1, <3>2
  <2>3. read[w][i] <= synced'[i]
    <3>1. synced'[i] = IF synced[i] < read[w][i] THEN read[w][i] ELSE synced[i]
      BY <1>t, <2>1
    <3>. QED
      BY <1>n, <3>1
  <2>. QED
    BY <1>8, <1>9, <2>1, <2>2, <2>3, JobEnds
<1>12. ASSUME NEW w \in Worker, Reset(w)
       PROVE  /\ \A k \in Item : keep'[w][k] = 0 /\ old'[w][k] = {}
              /\ pc'[w] = "idle"
  BY <1>12, <1>t DEF Reset, Forget, Without, Empty
<1>13. ASSUME NEW w \in Worker, Abort(w)
       PROVE  JobInv'
  <2>1. Reset(w) /\ UNCHANGED <<version, job, synced>>
    BY <1>13 DEF Abort, dbVars
  <2>. QED
    BY <1>n, <1>12, <2>1, JobKept
<1>14. ASSUME NEW w \in Worker, Restart(w)
       PROVE  JobInv'
  <2>1. /\ Reset(w) /\ UNCHANGED <<version, synced>>
        /\ \A i \in Item, v \in Version :
              job'[i][v] = IF job[i][v] = "processing" THEN "failed" ELSE job[i][v]
    BY <1>14 DEF Restart
  <2>2. NoFutureJob' /\ JobsOfPast' /\ Superseding'
    BY <1>n, <1>j, <1>12, <2>1 DEF NoFutureJob, JobsOfPast, Superseding
  <2>3. \A i \in Item, v \in Version : Alive(i, v) => Alive(i, v)'
    BY <1>12, <2>1 DEF Alive, Unfinished, Version
  <2>. QED
    BY <1>j, <2>1, <2>2, <2>3 DEF JobInv, SomeAlive
<1>15. CASE UNCHANGED vars
  BY <1>15 DEF vars, dbVars, workerVars, JobInv, NoFutureJob, JobsOfPast, SomeAlive, Alive, Superseding
<1>. QED
  BY <1>1, <1>2, <1>3, <1>4, <1>5, <1>6, <1>7, <1>10, <1>11, <1>13, <1>14, <1>15
     DEF Next, Progress, Failure

(* No change of an item is forgotten, whatever the order of created_at     *)
(* (claim_outbox, _coalesce_outbox_jobs, finish_superseded_outbox): while  *)
(* the table is not known to show the item as it is, one of its jobs is    *)
(* unfinished.                                                             *)
THEOREM NothingLostAlone ==
    ASSUME Alone
    PROVE  Spec => []NoLostProjection
<1>1. TypeInv /\ JobInv /\ [Next]_vars => JobInv'
  BY JobNext
<1>2. JobInv => NoLostProjection
  BY DEF JobInv, SomeAlive, Alive, NoLostProjection
<1>. QED
  BY <1>1, <1>2, TypeInit, TypeNext, JobInit, PTL DEF Spec

LEMMA QuietShown ==
    ASSUME TypeInv, RowInv, JobInv
    PROVE  QuiescentFresh
<1>. SUFFICES ASSUME Quiescent, NEW i \in Item, version[i] > 0
              PROVE  record[i] # 0 /\ rows[i][record[i]] = version[i]
  BY DEF QuiescentFresh
<1>1. version[i] \in Nat /\ synced[i] \in Nat /\ Shown(i) \in Nat
  BY ShownType DEF TypeInv, TypeOK, DbTypeOK
<1>2. ~(synced[i] < version[i])
  BY DEF JobInv, SomeAlive, Alive, Quiescent
<1>3. synced[i] <= Shown(i) /\ Shown(i) <= version[i]
  BY DEF RowInv, Honest
<1>4. Shown(i) = version[i] /\ Shown(i) # 0
  BY <1>1, <1>2, <1>3
<1>. QED
  BY <1>4 DEF Shown

(* Once no job is left, every item is mapped to a row that shows it as it  *)
(* is (finish_outbox, finish_superseded_outbox).                           *)
THEOREM FreshWhenQuiet ==
    ASSUME Alone
    PROVE  Spec => []QuiescentFresh
<1>1. TypeInv /\ RowInv /\ [Next]_vars => RowInv'
  BY RowNext
<1>2. TypeInv /\ JobInv /\ [Next]_vars => JobInv'
  BY JobNext
<1>. QED
  BY <1>1, <1>2, TypeInit, TypeNext, RowInit, JobInit, QuietShown, PTL DEF Spec

-----------------------------------------------------------------------------
(* A second row is the price of a failure. *)

(* w has created a row of i and is about to record it. *)
Recording(w, i) == pc[w] = "finish" /\ i \in left[w]

RowsCounted ==
    \A i \in Item :
        /\ Len(rows[i]) <= 1 + faults
        /\ record[i] = 0 => Len(rows[i]) <= faults \/ \E w \in Worker : Recording(w, i)

LEMMA LenNat == TypeInv => faults \in Nat /\ \A i \in Item : rows[i] \in Seq(Version) /\ Len(rows[i]) \in Nat
  BY OutboxAssumption, LenProperties DEF TypeInv, TypeOK, DbTypeOK, TableTypeOK

LEMMA CountInit == Init => RowsCounted
<1>. SUFFICES ASSUME Init PROVE RowsCounted
  OBVIOUS
<1>1. faults = 0 /\ \A i \in Item : Len(rows[i]) = 0
  BY DEF Init
<1>2. ASSUME NEW i \in Item
      PROVE  Len(rows[i]) <= faults /\ Len(rows[i]) <= 1 + faults
  BY <1>1
<1>. QED
  BY <1>2 DEF RowsCounted

(* A fault pays for one more row, wherever it strikes.                     *)
LEMMA CountFault ==
    ASSUME TypeInv, TypeInv', RowsCounted, faults' = faults + 1,
           \A i \in Item : Len(rows'[i]) = Len(rows[i]) \/ Len(rows'[i]) <= faults + 1
    PROVE  RowsCounted'
<1>1. \A i \in Item : Len(rows'[i]) \in Nat /\ Len(rows[i]) \in Nat
  BY LenNat, LenProperties DEF TypeInv, TypeOK, TableTypeOK
<1>2. faults \in Nat
  BY LenNat
<1>3. \A i \in Item : Len(rows'[i]) <= faults' /\ Len(rows'[i]) <= 1 + faults'
  BY <1>1, <1>2 DEF RowsCounted
<1>. QED
  BY <1>3 DEF RowsCounted

(* Steps that add no row and end no recording.                             *)
LEMMA CountKept ==
    ASSUME RowsCounted, UNCHANGED <<rows, record, faults>>,
           \A w \in Worker, i \in Item : Recording(w, i) => Recording(w, i)'
    PROVE  RowsCounted'
  BY DEF RowsCounted

LEMMA CreatesUnmapped ==
    ASSUME TypeInv, RowInv, RowsCounted, NEW w \in Worker, Sending(w), \A v \in Worker : v = w,
           NEW i \in Creates(w)
    PROVE  i \in Item /\ Len(rows[i]) <= faults
<1>1. i \in ready[w] /\ target[w][i] = 0 /\ i \in Item
  BY DEF Creates, TypeInv, TypeOK, WorkerTypeOK
<1>2. record[i] = 0
  BY <1>1 DEF RowInv, Addressed, Sending
<1>3. ~Recording(w, i)
  BY DEF Sending, Recording
<1>. QED
  BY <1>1, <1>2, <1>3 DEF RowsCounted

LEMMA CreatedLen ==
    ASSUME TypeInv, NEW w \in Worker, Created(w)
    PROVE  \A i \in Item : Len(rows'[i]) = IF i \in Creates(w) THEN Len(rows[i]) + 1 ELSE Len(rows[i])
<1>1. ASSUME NEW i \in Creates(w)
      PROVE  i \in Item /\ Len(rows'[i]) = Len(rows[i]) + 1
  <2>1. i \in ready[w] /\ i \in Item /\ rows[i] \in Seq(Version)
    BY DEF Creates, TypeInv, TypeOK, WorkerTypeOK, TableTypeOK
  <2>2. read[w][i] \in Version
    BY <2>1, OutboxAssumption DEF TypeInv, TypeOK, WorkerTypeOK, PreparedRead, Version
  <2>3. rows'[i] = Append(rows[i], read[w][i])
    BY <2>1 DEF Created
  <2>. QED
    BY <2>1, <2>2, <2>3, AppendProperties
<1>2. \A i \in Item : i \notin Creates(w) => rows'[i] = rows[i]
  BY DEF Created
<1>. QED
  BY <1>1, <1>2

LEMMA UpdatedLen ==
    ASSUME TypeInv, TypeInv', NEW w \in Worker, Updated(w)
    PROVE  \A i \in Item : Len(rows'[i]) = Len(rows[i])
<1>. SUFFICES ASSUME NEW i \in Item PROVE Len(rows'[i]) = Len(rows[i])
  OBVIOUS
<1>1. rows[i] \in Seq(Version) /\ rows'[i] \in Seq(Version)
  BY DEF TypeInv, TypeOK, TableTypeOK
<1>2. DOMAIN rows'[i] = DOMAIN rows[i]
  BY DEF Updated
<1>3. /\ Len(rows[i]) \in Nat /\ DOMAIN rows[i] = 1 .. Len(rows[i])
      /\ Len(rows'[i]) \in Nat /\ DOMAIN rows'[i] = 1 .. Len(rows'[i])
  BY <1>1, LenProperties
<1>. QED
  BY <1>2, <1>3

LEMMA CountNext ==
    ASSUME Alone, TypeInv, RowInv, RowsCounted, [Next]_vars
    PROVE  RowsCounted'
<1>. USE DEF Alone
<1>0. TypeInv'
  BY TypeNext
<1>t. /\ pc \in [Worker -> Phase] /\ group \in [Worker -> SUBSET Item]
      /\ left \in [Worker -> SUBSET Item] /\ record \in [Item -> Nat]
  BY DEF TypeInv, TypeOK, DbTypeOK, WorkerTypeOK
<1>n. faults \in Nat /\ \A i \in Item : Len(rows[i]) \in Nat
  BY LenNat
<1>1. ASSUME NEW i \in Item, Change(i)
      PROVE  RowsCounted'
  BY <1>1, CountKept DEF Change, workerVars, Recording
<1>2. CASE Reconcile
  BY <1>2, CountKept DEF Reconcile, workerVars, Recording
<1>3. ASSUME NEW w \in Worker,
             \/ Claim(w) \/ FinishSuperseded(w) \/ FinishBatch(w)
             \/ \E i \in Item : ReadItem(w, i) \/ ReadMapping(w, i)
      PROVE  RowsCounted'
  <2>1. UNCHANGED <<rows, record, faults, left>> /\ (pc[w] = "finish" => pc'[w] = "finish")
    BY <1>3, <1>t DEF Claim, FinishSuperseded, FinishBatch, ReadItem, ReadMapping, InTurn, dbVars
  <2>. QED
    BY <2>1, CountKept DEF Recording
<1>4. ASSUME NEW w \in Worker, NEW i \in Item, RetryJob(w, i)
      PROVE  RowsCounted'
  <2>1. UNCHANGED <<rows, record, faults>> /\ pc[w] = "retry"
    BY <1>4 DEF RetryJob
  <2>. QED
    BY <2>1, CountKept DEF Recording
<1>5. ASSUME NEW w \in Worker,
             \/ FinishFails(w) \/ Abort(w) \/ Restart(w) \/ \E i \in Item : ProjectFails(w, i)
      PROVE  RowsCounted'
  <2>1. faults' = faults + 1 /\ UNCHANGED rows
    BY <1>5 DEF FinishFails, Abort, Restart, ProjectFails, Fault, dbVars
  <2>. QED
    BY <1>0, <2>1, CountFault
<1>6. ASSUME NEW w \in Worker, CreateFails(w)
      PROVE  RowsCounted'
  <2>1. faults' = faults + 1 /\ Sending(w) /\ (Created(w) \/ UNCHANGED rows)
    BY <1>6 DEF CreateFails, Fault
  <2>2. ASSUME Created(w), NEW i \in Item
        PROVE  Len(rows'[i]) = Len(rows[i]) \/ Len(rows'[i]) <= faults + 1
    BY <1>n, <2>1, <2>2, CreatedLen, CreatesUnmapped
  <2>. QED
    BY <1>0, <2>1, <2>2, CountFault
<1>7. ASSUME NEW w \in Worker, UpdateFails(w)
      PROVE  RowsCounted'
  <2>1. faults' = faults + 1 /\ (Updated(w) \/ UNCHANGED rows)
    BY <1>7 DEF UpdateFails, Fault
  <2>2. \A i \in Item : Len(rows'[i]) = Len(rows[i])
    BY <1>0, <2>1, UpdatedLen
  <2>. QED
    BY <1>0, <2>1, <2>2, CountFault
<1>8. ASSUME NEW w \in Worker, UpdateRows(w)
      PROVE  RowsCounted'
  <2>1. UNCHANGED <<record, faults>> /\ Updated(w) /\ pc[w] # "finish"
    BY <1>8 DEF UpdateRows, Outcome, Sending, dbVars
  <2>2. \A i \in Item : Len(rows'[i]) = Len(rows[i])
    BY <1>0, <2>1, UpdatedLen
  <2>. QED
    BY <2>1, <2>2 DEF RowsCounted, Recording
<1>9. ASSUME NEW w \in Worker, CreateRows(w)
      PROVE  RowsCounted'
  <2>1. UNCHANGED <<record, faults>> /\ Sending(w) /\ Created(w) /\ pc[w] # "finish"
        /\ pc'[w] = "finish" /\ left'[w] = Creates(w)
    BY <1>9, <1>t DEF CreateRows, Outcome, Sending, dbVars
  <2>2. ASSUME NEW i \in Item
        PROVE  /\ Len(rows'[i]) <= 1 + faults'
               /\ record'[i] = 0 => Len(rows'[i]) <= faults' \/ Recording(w, i)'
    <3>1. CASE i \in Creates(w)
      BY <1>n, <2>1, <3>1, CreatedLen, CreatesUnmapped DEF Recording
    <3>2. CASE i \notin Creates(w)
      BY <2>1, <3>2, CreatedLen DEF RowsCounted, Recording
    <3>. QED
      BY <3>1, <3>2
  <2>. QED
    BY <2>2 DEF RowsCounted
<1>10. ASSUME NEW w \in Worker, NEW i \in Item, FinishJob(w, i)
       PROVE  RowsCounted'
  <2>1. /\ pc[w] = "finish" /\ i \in group[w] /\ UNCHANGED <<rows, faults>>
        /\ record' = [record EXCEPT ![i] = target[w][i]]
        /\ Leave(w, i)
    BY <1>10 DEF FinishJob, TypeInv, PreparedRead
  <2>2. record'[i] # 0 /\ \A k \in Item : k # i => record'[k] = record[k]
    BY <1>t, <2>1 DEF RowInv, Written
  <2>3. ASSUME NEW k \in Item, k # i, Recording(w, k)
        PROVE  Recording(w, k)'
    BY <1>t, <2>3 , <2>1 DEF Recording, Leave
  <2>. QED
    BY <2>1, <2>2, <2>3 DEF RowsCounted
<1>11. CASE UNCHANGED vars
  BY <1>11, CountKept DEF vars, dbVars, workerVars, Recording
<1>. QED
  BY <1>1, <1>2, <1>3, <1>4, <1>5, <1>6, <1>7, <1>8, <1>9, <1>10, <1>11
     DEF Next, Progress, Failure

(* The worker never creates a row for an item it has recorded one for: the *)
(* table has no more rows of an item than one for it and one for every     *)
(* failure (_flush_outbox, finish_outbox).                                 *)
THEOREM DuplicatesCostFaults ==
    ASSUME Alone
    PROVE  Spec => []DuplicatesNeedFaults
<1>1. TypeInv /\ RowInv /\ [Next]_vars => RowInv'
  BY RowNext
<1>2. TypeInv /\ RowInv /\ RowsCounted /\ [Next]_vars => RowsCounted'
  BY CountNext
<1>3. RowsCounted => DuplicatesNeedFaults
  BY DEF RowsCounted, DuplicatesNeedFaults
<1>. QED
  BY <1>1, <1>2, <1>3, TypeInit, TypeNext, RowInit, CountInit, PTL DEF Spec
=============================================================================
