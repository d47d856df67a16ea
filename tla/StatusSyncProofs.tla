-------------------------- MODULE StatusSyncProofs --------------------------
(***************************************************************************)
(* Theorems about StatusSync for any bounds.                               *)
(*                                                                         *)
(* BehindIsDue alone is not inductive: a worker that has read an outdated  *)
(* item overwrites a row that shows the current version.  By then the      *)
(* change that outdated what it read has left a job, which only the same   *)
(* worker can claim and which it claims only when it holds nothing         *)
(* (OutdatedReadIsDue).                                                    *)
(***************************************************************************)
EXTENDS StatusSync, TLAPS

OutdatedReadIsDue == phase = "read" => proj.current \/ due

BehindInv == BehindIsDue /\ OutdatedReadIsDue

-----------------------------------------------------------------------------
(* What the parts of a step do to the types. *)

LEMMA OutdatedType ==
    ASSUME NEW r \in Row
    PROVE  /\ Outdated(r) \in Row
           /\ Outdated(r).value = r.value /\ Outdated(r).number = r.number
           /\ ~Outdated(r).current
  BY DEF Outdated, Row

LEMMA WriteRowType ==
    ASSUME TypeOK, NEW v \in Value, NEW n \in Number, NEW c \in BOOLEAN, WriteRow(v, n, c)
    PROVE  /\ row' \in Row /\ calls' \subseteq Row
           /\ row'.current = c
<1>1. Greater(row.number, n) \in Number
  BY StatusSyncAssumption DEF Greater, TypeOK, Row, Number
<1>2. CASE v = row.value
  BY <1>1, <1>2 DEF WriteRow, TypeOK, Row
<1>3. CASE v # row.value
  <2>1. row' = [value |-> v, number |-> n, current |-> c, fresh |-> TRUE]
    BY <1>3 DEF WriteRow
  <2>2. row' \in Row
    BY <2>1 DEF Row
  <2>. QED  BY <1>3, <2>1, <2>2 DEF WriteRow, TypeOK
<1>. QED  BY <1>2, <1>3

LEMMA ChangeItemType ==
    ASSUME TypeOK, NEW v \in Value, NEW n \in Number, NEW S \in SUBSET calls,
           NEW l \in Row, ChangeItem(v, n, S, l)
    PROVE  /\ db' \in [value : Value, number : Number]
           /\ row' \in Row /\ calls' \subseteq Row /\ remote' \in Row
           /\ due' = TRUE
           /\ proj' \in [value : Value, number : Number, current : BOOLEAN]
<1>1. \A c \in S : Outdated(c) \in Row
  BY OutdatedType DEF TypeOK
<1>2. Outdated(row) \in Row /\ Outdated(l) \in Row
  BY OutdatedType DEF TypeOK
<1>3. [proj EXCEPT !.current = FALSE] \in [value : Value, number : Number, current : BOOLEAN]
  BY DEF TypeOK
<1>. QED  BY <1>1, <1>2, <1>3 DEF ChangeItem

LEMMA UpdateItemType ==
    ASSUME TypeOK, NEW r \in Row, NEW S \in SUBSET calls, NEW l \in Row, UpdateItem(r, S, l)
    PROVE  /\ db' \in [value : Value, number : Number]
           /\ row' \in Row /\ calls' \subseteq Row /\ remote' \in Row
           /\ due' \in BOOLEAN
           /\ proj' \in [value : Value, number : Number, current : BOOLEAN]
           /\ due' \/ UNCHANGED <<row, due, proj>>
<1>1. r.value \in Value /\ r.number \in Number
  BY DEF Row
<1>2. CASE ChangeItem(r.value, r.number, S, l)
  BY <1>1, <1>2, ChangeItemType
<1>3. CASE /\ db' = [db EXCEPT !.number = Greater(@, r.number)]
           /\ calls' = S /\ remote' = l
           /\ UNCHANGED <<row, due, proj>>
  <2>1. Greater(db.number, r.number) \in Number
    BY <1>1, StatusSyncAssumption DEF Greater, TypeOK, Number
  <2>2. db' \in [value : Value, number : Number]
    BY <1>3, <2>1 DEF TypeOK
  <2>. QED  BY <1>3, <2>2 DEF TypeOK
<1>4. CASE calls' = S /\ remote' = l /\ UNCHANGED <<db, row, due, proj>>
  BY <1>4 DEF TypeOK
<1>. QED  BY <1>2, <1>3, <1>4 DEF UpdateItem

LEMMA NothingType == NoRow \in Row /\ NoItem \in [value : Value, number : Number, current : BOOLEAN]
  BY StatusSyncAssumption DEF NoRow, NoItem, Row, Value, Number

-----------------------------------------------------------------------------
LEMMA TypeStep == TypeOK /\ [Next]_vars => TypeOK'
<1>. SUFFICES ASSUME TypeOK, [Next]_vars PROVE TypeOK'
  OBVIOUS
<1>. USE StatusSyncAssumption
<1>1. CASE EditRow
  <2>1. choices + 1 \in Number /\ choices' = choices + 1 /\ row.current \in BOOLEAN
    BY <1>1 DEF EditRow, TypeOK, Number, Row
  <2>2. PICK v \in Value \ {row.value} : WriteRow(v, choices + 1, row.current)
    BY <1>1 DEF EditRow
  <2>3. row' \in Row /\ calls' \subseteq Row
    BY <2>1, <2>2, WriteRowType
  <2>. QED  BY <1>1, <2>1, <2>3 DEF EditRow, TypeOK, outboxVars, pullVars
<1>2. CASE Recall
  <2>1. choices + 1 \in Number /\ choices' = choices + 1 /\ "ignored" \in Value /\ remote \in Row
    BY <1>2 DEF Recall, TypeOK, Number, Value
  <2>2. ChangeItem("ignored", choices + 1, calls, remote)
    BY <1>2 DEF Recall
  <2>3. calls \in SUBSET calls
    OBVIOUS
  <2>. QED  BY <1>2, <2>1, <2>2, <2>3, ChangeItemType DEF Recall, TypeOK
<1>3. CASE Touch
  <2>1. db.value \in Value /\ db.number \in Number /\ remote \in Row /\ calls \in SUBSET calls
    BY DEF TypeOK
  <2>2. ChangeItem(db.value, db.number, calls, remote)
    BY <1>3 DEF Touch
  <2>3. /\ touches' \in Nat /\ faults' \in Nat
        /\ touches' + faults' <= MaxOthers
    BY <1>3 DEF Touch, TypeOK
  <2>. QED  BY <1>3, <2>1, <2>2, <2>3, ChangeItemType DEF Touch, TypeOK
<1>4. ASSUME NEW c \in calls, Callback(c) PROVE TypeOK'
  <2>1. PICK S \in {calls, calls \ {c}} : UpdateItem(c, S, remote)
    BY <1>4 DEF Callback
  <2>2. c \in Row /\ S \in SUBSET calls /\ remote \in Row
    BY DEF TypeOK
  <2>. QED  BY <1>4, <2>1, <2>2, UpdateItemType DEF Callback, TypeOK, bounds
<1>5. ASSUME NEW c \in calls, LoseCall(c) PROVE TypeOK'
  BY <1>5 DEF LoseCall, TypeOK, outboxVars, pullVars, bounds
<1>6. CASE Worker
  <2>1. CASE ClaimJob
    BY <2>1 DEF ClaimJob, TypeOK, pullVars, bounds
  <2>2. CASE ReadItem
    BY <2>2 DEF ReadItem, TypeOK, pullVars, bounds
  <2>3. CASE ProjectRow
    <3>1. proj.value \in Value /\ proj.number \in Number /\ proj.current \in BOOLEAN
      BY DEF TypeOK
    <3>2. row' \in Row /\ calls' \subseteq Row
      BY <2>3, <3>1, WriteRowType DEF ProjectRow
    <3>. QED  BY <2>3, <3>2, NothingType DEF ProjectRow, TypeOK, pullVars, bounds
  <2>4. CASE FinishJob
    BY <2>4 DEF FinishJob, TypeOK, pullVars, bounds
  <2>. QED  BY <1>6, <2>1, <2>2, <2>3, <2>4 DEF Worker
<1>7. CASE JobFails
  BY <1>7, NothingType DEF JobFails, TypeOK, pullVars
<1>8. CASE Pull
  <2>1. CASE PullLocal
    BY <2>1 DEF PullLocal, TypeOK, outboxVars, bounds
  <2>2. CASE PullRemote
    BY <2>2 DEF PullRemote, TypeOK, outboxVars, bounds
  <2>3. CASE PullApply
    <3>1. "pending" \in Value /\ remote \in Row /\ NoRow \in Row /\ calls \in SUBSET calls
      BY NothingType DEF TypeOK, Value
    <3>2. CASE remote.value = local
      BY <2>3, <3>1, <3>2 DEF PullApply, TypeOK, bounds
    <3>3. CASE remote.value # local
      BY <2>3, <3>1, <3>3, UpdateItemType DEF PullApply, TypeOK, bounds
    <3>. QED  BY <3>2, <3>3
  <2>. QED  BY <1>8, <2>1, <2>2, <2>3 DEF Pull
<1>9. CASE UNCHANGED vars
  BY <1>9 DEF vars, TypeOK, outboxVars, pullVars, bounds
<1>. QED  BY <1>1, <1>2, <1>3, <1>4, <1>5, <1>6, <1>7, <1>8, <1>9 DEF Next

(* Statuses stay among the three of the item, whatever order edits,        *)
(* callbacks, projections and recalls come in.                             *)
THEOREM TypeCorrect == Spec => []TypeOK
<1>1. ASSUME Init PROVE TypeOK
  <2>1. 0 \in Number /\ "pending" \in Value
    BY StatusSyncAssumption DEF Number, Value
  <2>2. db \in [value : Value, number : Number] /\ row \in Row
    BY <1>1, <2>1 DEF Init, Row
  <2>3. 0 \in Nat /\ 0 + 0 <= MaxOthers
    BY StatusSyncAssumption
  <2>. QED  BY <1>1, <2>1, <2>2, <2>3, NothingType DEF Init, TypeOK
<1>. QED  BY <1>1, TypeStep, PTL DEF Spec

-----------------------------------------------------------------------------
LEMMA BehindStep == TypeOK /\ BehindInv /\ [Next]_vars => BehindInv'
<1>. SUFFICES ASSUME TypeOK, BehindInv, [Next]_vars PROVE BehindInv'
  OBVIOUS
<1>. USE DEF BehindInv, BehindIsDue, OutdatedReadIsDue
<1>1. CASE EditRow
  <2>1. PICK v \in Value \ {row.value} : WriteRow(v, choices + 1, row.current)
    BY <1>1 DEF EditRow
  <2>2. row'.current = row.current
    BY <2>1 DEF WriteRow
  <2>. QED  BY <1>1, <2>2 DEF EditRow, outboxVars
<1>2. CASE Recall \/ Touch
  BY <1>2 DEF Recall, Touch, ChangeItem
<1>3. ASSUME NEW c \in calls, Callback(c) PROVE BehindInv'
  <2>1. PICK S \in {calls, calls \ {c}} : UpdateItem(c, S, remote)
    BY <1>3 DEF Callback
  <2>2. c \in Row /\ S \in SUBSET calls /\ remote \in Row
    BY DEF TypeOK
  <2>3. due' \/ UNCHANGED <<row, due, proj>>
    BY <2>1, <2>2, UpdateItemType
  <2>. QED  BY <1>3, <2>3 DEF Callback
<1>4. ASSUME NEW c \in calls, LoseCall(c) PROVE BehindInv'
  BY <1>4 DEF LoseCall, outboxVars
<1>5. CASE ClaimJob
  BY <1>5 DEF ClaimJob
<1>6. CASE ReadItem
  BY <1>6 DEF ReadItem
<1>7. CASE ProjectRow
  <2>1. row'.current = proj.current
    <3>1. proj.value \in Value /\ proj.number \in Number /\ proj.current \in BOOLEAN
      BY DEF TypeOK
    <3>. QED  BY <1>7, <3>1, WriteRowType DEF ProjectRow
  <2>. QED  BY <1>7, <2>1 DEF ProjectRow
<1>8. CASE FinishJob
  BY <1>8 DEF FinishJob
<1>9. CASE JobFails
  BY <1>9 DEF JobFails
<1>10. CASE PullLocal \/ PullRemote
  BY <1>10 DEF PullLocal, PullRemote, outboxVars
<1>11. CASE PullApply
  <2>1. remote \in Row /\ NoRow \in Row /\ calls \in SUBSET calls
    BY NothingType DEF TypeOK
  <2>2. due' \/ UNCHANGED <<row, due, proj>>
    BY <1>11, <2>1, UpdateItemType DEF PullApply
  <2>. QED  BY <1>11, <2>2 DEF PullApply
<1>12. CASE UNCHANGED vars
  BY <1>12 DEF vars, outboxVars
<1>. QED  BY <1>1, <1>2, <1>3, <1>4, <1>5, <1>6, <1>7, <1>8, <1>9, <1>10, <1>11, <1>12
          DEF Next, Worker, Pull

(* No change of an item is left without a projection to come, however      *)
(* edits, callbacks, pulls, recalls, purges and failed projections mix.    *)
THEOREM NeverSilentlyBehind == Spec => []BehindIsDue
<1>1. Init => BehindInv
  BY DEF Init, BehindInv, BehindIsDue, OutdatedReadIsDue
<1>. QED  BY <1>1, BehindStep, TypeCorrect, PTL DEF Spec, BehindInv

-----------------------------------------------------------------------------
(* At rest only the newest edit waits.                                     *)

(* Numbers and values travel together.  A step hands on the copies there   *)
(* are, forgets some, or adds the one that a new choice makes.             *)
Stamped == {<<"pending", 0>>}

LEMMA CopiesStep ==
    ASSUME OneValuePerNumber, choices \in Nat, \A p \in Copies : p[2] \in Nat,
           \/ choices' = choices /\ Copies' \subseteq Copies \cup Stamped
           \/ /\ choices' = choices + 1
              /\ \E v \in Value : Copies' \subseteq Copies \cup {<<v, choices + 1>>} \cup Stamped
    PROVE  OneValuePerNumber'
<1>. DEFINE C == Copies
            D == Copies'
<1>1. /\ \A p, q \in C : p[2] = q[2] => p[1] = q[1]
      /\ \A p \in C : p[2] \in Nat /\ p[2] <= choices /\ (p[2] = 0 => p[1] = "pending")
  BY DEF OneValuePerNumber
<1>2. SUFFICES /\ \A p, q \in D : p[2] = q[2] => p[1] = q[1]
               /\ \A p \in D : p[2] <= choices' /\ (p[2] = 0 => p[1] = "pending")
  BY DEF OneValuePerNumber
<1>3. CASE choices' = choices /\ D \subseteq C \cup Stamped
  <2>1. \A p \in D : p \in C \/ (p[1] = "pending" /\ p[2] = 0)
    BY <1>3 DEF Stamped
  <2>. HIDE DEF C, D
  <2>. QED  BY <1>1, <1>3, <2>1
<1>4. ASSUME choices' = choices + 1, NEW v \in Value,
             D \subseteq C \cup {<<v, choices + 1>>} \cup Stamped
      PROVE  /\ \A p, q \in D : p[2] = q[2] => p[1] = q[1]
             /\ \A p \in D : p[2] <= choices' /\ (p[2] = 0 => p[1] = "pending")
  <2>1. \A p \in D : \/ p \in C
                     \/ p[1] = "pending" /\ p[2] = 0
                     \/ p[1] = v /\ p[2] = choices + 1
    BY <1>4 DEF Stamped
  <2>. HIDE DEF C, D
  <2>. QED  BY <1>1, <1>4, <2>1
<1>. QED  BY <1>3, <1>4

(* What the parts of a step do to the copies.                              *)
LEMMA WriteRowCopies ==
    ASSUME TypeOK, NEW v \in Value, NEW n \in Number, NEW c \in BOOLEAN, WriteRow(v, n, c)
    PROVE  /\ <<row'.value, row'.number>> \in {<<v, n>>, <<row.value, row.number>>}
           /\ row'.value = v /\ row'.current = c
           /\ v # row.value => row'.number = n
           /\ \A x \in calls' : x \in calls \/ x = row'
<1>1. CASE v = row.value
  BY <1>1 DEF WriteRow, TypeOK, Row, Greater
<1>2. CASE v # row.value
  BY <1>2 DEF WriteRow
<1>. QED  BY <1>1, <1>2

LEMMA ChangeItemCopies ==
    ASSUME TypeOK, NEW v \in Value, NEW n \in Number, NEW S \in SUBSET calls, NEW l \in Row,
           ChangeItem(v, n, S, l)
    PROVE  /\ Copies' \subseteq Copies \cup {<<v, n>>, <<l.value, l.number>>}
           /\ row'.current = FALSE /\ proj'.current = FALSE
<1>1. row'.value = row.value /\ row'.number = row.number /\ row'.current = FALSE
  BY OutdatedType DEF ChangeItem, TypeOK
<1>2. remote'.value = l.value /\ remote'.number = l.number
  BY OutdatedType DEF ChangeItem
<1>3. proj'.value = proj.value /\ proj'.number = proj.number /\ proj'.current = FALSE
  BY DEF ChangeItem, TypeOK
<1>4. db'.value = v /\ db'.number = n
  BY DEF ChangeItem
<1>5. \A x \in calls' : \E c \in calls : x.value = c.value /\ x.number = c.number
  BY OutdatedType DEF ChangeItem, TypeOK
<1>. QED  BY <1>1, <1>2, <1>3, <1>4, <1>5 DEF Copies

LEMMA UpdateItemCopies ==
    ASSUME TypeOK, NEW r \in Row, NEW S \in SUBSET calls, NEW l \in Row, UpdateItem(r, S, l)
    PROVE  /\ Copies' \subseteq
                  Copies \cup {<<r.value, r.number>>, <<l.value, l.number>>}
           /\ \/ row'.current = FALSE /\ proj'.current = FALSE
              \/ row' = row /\ proj' = proj /\ db'.value = db.value
<1>1. r.value \in Value /\ r.number \in Number
  BY DEF Row
<1>2. CASE ChangeItem(r.value, r.number, S, l)
  BY <1>1, <1>2, ChangeItemCopies
<1>3. CASE /\ r.value = db.value
           /\ db' = [db EXCEPT !.number = Greater(@, r.number)]
           /\ calls' = S /\ remote' = l
           /\ UNCHANGED <<row, due, proj>>
  <2>1. /\ db'.value = db.value
        /\ <<db'.value, db'.number>> \in {<<db.value, db.number>>, <<r.value, r.number>>}
    BY <1>3 DEF Greater, TypeOK
  <2>. QED  BY <1>3, <2>1 DEF Copies
<1>4. CASE calls' = S /\ remote' = l /\ UNCHANGED <<db, row, due, proj>>
  BY <1>4 DEF Copies
<1>. QED  BY <1>2, <1>3, <1>4 DEF UpdateItem

LEMMA CopiesTyped == TypeOK => choices \in Nat /\ \A p \in Copies : p[2] \in Nat
  BY StatusSyncAssumption DEF TypeOK, Copies, Row, Number

EditInv == CurrentDiffersByEdit /\ CurrentReadIsItem /\ OneValuePerNumber

(* Whoever brings a state of the row to update_inbox_item: either it is    *)
(* the change of the item that outdates the row, or row and value stay.    *)
LEMMA UpdateItemEdit ==
    ASSUME TypeOK, EditInv, NEW r \in Row, <<r.value, r.number>> \in Copies,
           NEW S \in SUBSET calls, NEW l \in Row, <<l.value, l.number>> \in Copies \cup Stamped,
           UpdateItem(r, S, l), choices' = choices, phase' = phase
    PROVE  EditInv'
<1>1. Copies' \subseteq Copies \cup Stamped
  BY UpdateItemCopies
<1>2. OneValuePerNumber'
  BY <1>1, CopiesStep, CopiesTyped DEF EditInv
<1>3. \/ row'.current = FALSE /\ proj'.current = FALSE
      \/ row' = row /\ proj' = proj /\ db'.value = db.value
  BY UpdateItemCopies
<1>4. CurrentDiffersByEdit' /\ CurrentReadIsItem'
  BY <1>3 DEF EditInv, CurrentDiffersByEdit, CurrentReadIsItem
<1>. QED  BY <1>2, <1>4 DEF EditInv

LEMMA EditStep == TypeOK /\ EditInv /\ [Next]_vars => EditInv'
<1>. SUFFICES ASSUME TypeOK, EditInv, [Next]_vars PROVE EditInv'
  OBVIOUS
<1>inv. CurrentDiffersByEdit /\ CurrentReadIsItem /\ OneValuePerNumber
  BY DEF EditInv
<1>typ. choices \in Nat /\ \A p \in Copies : p[2] \in Nat
  BY CopiesTyped
<1>1. CASE EditRow
  <2>1. /\ choices + 1 \in Number /\ choices' = choices + 1 /\ row.current \in BOOLEAN
        /\ UNCHANGED <<db, phase, proj, remote>>
    BY <1>1, StatusSyncAssumption DEF EditRow, TypeOK, Number, Row, outboxVars, pullVars
  <2>2. PICK v \in Value \ {row.value} : WriteRow(v, choices + 1, row.current)
    BY <1>1 DEF EditRow
  <2>3. /\ row'.value = v /\ row'.number = choices + 1
        /\ \A x \in calls' : x \in calls \/ x = row'
    BY <2>1, <2>2, WriteRowCopies
  <2>4. Copies' \subseteq Copies \cup {<<v, choices + 1>>} \cup Stamped
    BY <2>1, <2>3 DEF Copies
  <2>5. OneValuePerNumber'
    BY <2>1, <2>4, <1>inv, <1>typ, CopiesStep
  <2>6. CurrentDiffersByEdit' /\ CurrentReadIsItem'
    BY <2>1, <2>3, <1>inv DEF CurrentDiffersByEdit, CurrentReadIsItem
  <2>. QED  BY <2>5, <2>6 DEF EditInv
<1>2. CASE Recall
  <2>1. choices + 1 \in Number /\ choices' = choices + 1 /\ "ignored" \in Value /\ remote \in Row
    BY <1>2, StatusSyncAssumption DEF Recall, TypeOK, Number, Value
  <2>2. calls \in SUBSET calls /\ ChangeItem("ignored", choices + 1, calls, remote)
    BY <1>2 DEF Recall
  <2>3. <<remote.value, remote.number>> \in Copies
    BY DEF Copies
  <2>4. /\ Copies' \subseteq Copies \cup {<<"ignored", choices + 1>>} \cup Stamped
        /\ row'.current = FALSE /\ proj'.current = FALSE
    <3>1. /\ Copies' \subseteq
                 Copies \cup {<<"ignored", choices + 1>>, <<remote.value, remote.number>>}
          /\ row'.current = FALSE /\ proj'.current = FALSE
      BY <2>1, <2>2, ChangeItemCopies
    <3>. QED  BY <2>3, <3>1
  <2>5. OneValuePerNumber'
    BY <2>1, <2>4, <1>inv, <1>typ, CopiesStep
  <2>6. CurrentDiffersByEdit' /\ CurrentReadIsItem'
    BY <2>4 DEF CurrentDiffersByEdit, CurrentReadIsItem
  <2>. QED  BY <2>5, <2>6 DEF EditInv
<1>3. CASE Touch
  <2>1. /\ db.value \in Value /\ db.number \in Number /\ remote \in Row /\ calls \in SUBSET calls
        /\ choices' = choices
    BY <1>3 DEF Touch, TypeOK
  <2>2. ChangeItem(db.value, db.number, calls, remote)
    BY <1>3 DEF Touch
  <2>3. <<remote.value, remote.number>> \in Copies /\ <<db.value, db.number>> \in Copies
    BY DEF Copies
  <2>4. Copies' \subseteq Copies \cup Stamped /\ row'.current = FALSE /\ proj'.current = FALSE
    BY <2>1, <2>2, <2>3, ChangeItemCopies
  <2>5. OneValuePerNumber'
    BY <2>1, <2>4, <1>inv, <1>typ, CopiesStep
  <2>6. CurrentDiffersByEdit' /\ CurrentReadIsItem'
    BY <2>4 DEF CurrentDiffersByEdit, CurrentReadIsItem
  <2>. QED  BY <2>5, <2>6 DEF EditInv
<1>4. ASSUME NEW c \in calls, Callback(c) PROVE EditInv'
  <2>1. PICK S \in {calls, calls \ {c}} : UpdateItem(c, S, remote)
    BY <1>4 DEF Callback
  <2>2. /\ c \in Row /\ S \in SUBSET calls /\ remote \in Row
        /\ choices' = choices /\ phase' = phase
    BY <1>4 DEF Callback, TypeOK, bounds
  <2>3. <<c.value, c.number>> \in Copies /\ <<remote.value, remote.number>> \in Copies
    BY DEF Copies
  <2>. QED  BY <2>1, <2>2, <2>3, UpdateItemEdit
<1>5. ASSUME UNCHANGED <<row, proj, db, choices>>,
             Copies' \subseteq Copies \cup Stamped, phase' = "read" => phase = "read"
      PROVE  EditInv'
  <2>1. OneValuePerNumber'
    BY <1>5, <1>inv, <1>typ, CopiesStep
  <2>2. CurrentDiffersByEdit' /\ CurrentReadIsItem'
    BY <1>5, <1>inv DEF CurrentDiffersByEdit, CurrentReadIsItem
  <2>. QED  BY <2>1, <2>2 DEF EditInv
<1>6. ASSUME NEW c \in calls, LoseCall(c) PROVE EditInv'
  <2>1. Copies' \subseteq Copies
    BY <1>6 DEF LoseCall, outboxVars, pullVars, Copies
  <2>. QED  BY <1>5, <1>6, <2>1 DEF LoseCall, outboxVars, bounds
<1>7. CASE ClaimJob \/ FinishJob
  <2>1. Copies' \subseteq Copies
    BY <1>7 DEF ClaimJob, FinishJob, pullVars, Copies
  <2>. QED  BY <1>5, <1>7, <2>1 DEF ClaimJob, FinishJob, bounds
<1>8. CASE ReadItem
  <2>1. /\ proj'.value = db.value /\ proj'.number = db.number
        /\ UNCHANGED <<db, row, calls, remote, choices>>
    BY <1>8 DEF ReadItem, pullVars, bounds
  <2>2. Copies' \subseteq Copies \cup Stamped
    BY <2>1 DEF Copies
  <2>3. OneValuePerNumber'
    BY <2>1, <2>2, <1>inv, <1>typ, CopiesStep
  <2>4. CurrentDiffersByEdit' /\ CurrentReadIsItem'
    BY <2>1, <1>inv DEF CurrentDiffersByEdit, CurrentReadIsItem
  <2>. QED  BY <2>3, <2>4 DEF EditInv
<1>9. CASE ProjectRow
  <2>1. /\ proj.value \in Value /\ proj.number \in Number /\ proj.current \in BOOLEAN
        /\ WriteRow(proj.value, proj.number, proj.current)
        /\ phase = "read" /\ phase' = "written" /\ proj' = NoItem
        /\ UNCHANGED <<db, remote, choices>>
    BY <1>9 DEF ProjectRow, TypeOK, pullVars, bounds
  <2>2. /\ <<row'.value, row'.number>> \in {<<proj.value, proj.number>>, <<row.value, row.number>>}
        /\ row'.value = proj.value /\ row'.current = proj.current
        /\ \A x \in calls' : x \in calls \/ x = row'
    BY <2>1, WriteRowCopies
  <2>3. Copies' \subseteq Copies \cup Stamped
    BY <2>1, <2>2 DEF Copies, NoItem, Stamped
  <2>4. OneValuePerNumber'
    BY <2>1, <2>3, <1>inv, <1>typ, CopiesStep
  <2>5. CurrentDiffersByEdit' /\ CurrentReadIsItem'
    BY <2>1, <2>2, <1>inv DEF CurrentDiffersByEdit, CurrentReadIsItem
  <2>. QED  BY <2>4, <2>5 DEF EditInv
<1>10. CASE JobFails
  <2>1. /\ UNCHANGED <<db, row, calls, remote, choices>> /\ proj' = NoItem /\ phase' = "idle"
    BY <1>10 DEF JobFails, pullVars
  <2>2. Copies' \subseteq Copies \cup Stamped
    BY <2>1 DEF Copies, NoItem, Stamped
  <2>3. OneValuePerNumber'
    BY <2>1, <2>2, <1>inv, <1>typ, CopiesStep
  <2>4. CurrentDiffersByEdit' /\ CurrentReadIsItem'
    BY <2>1, <1>inv DEF CurrentDiffersByEdit, CurrentReadIsItem
  <2>. QED  BY <2>3, <2>4 DEF EditInv
<1>11. CASE PullLocal \/ PullRemote
  <2>1. /\ UNCHANGED <<db, row, calls, proj, phase, choices>> /\ remote' \in {remote, row}
    BY <1>11 DEF PullLocal, PullRemote, outboxVars, bounds
  <2>2. Copies' \subseteq Copies
    BY <2>1 DEF Copies
  <2>. QED  BY <1>5, <2>1, <2>2
<1>12. CASE PullApply
  <2>1. /\ remote \in Row /\ NoRow \in Row /\ calls \in SUBSET calls
        /\ choices' = choices /\ phase' = phase
    BY <1>12, NothingType DEF PullApply, TypeOK, bounds
  <2>2. <<remote.value, remote.number>> \in Copies /\ <<NoRow.value, NoRow.number>> \in Stamped
    BY DEF Copies, NoRow, Stamped
  <2>3. CASE remote.value = local
    <3>1. remote' = NoRow /\ UNCHANGED <<db, row, calls, proj>>
      BY <1>12, <2>3 DEF PullApply
    <3>2. Copies' \subseteq Copies \cup Stamped
      BY <2>2, <3>1 DEF Copies
    <3>. QED  BY <1>5, <2>1, <3>1, <3>2
  <2>4. CASE remote.value # local
    <3>1. UpdateItem(remote, calls, NoRow)
      BY <1>12, <2>4 DEF PullApply
    <3>. QED  BY <2>1, <2>2, <3>1, UpdateItemEdit
  <2>. QED  BY <2>3, <2>4
<1>13. CASE UNCHANGED vars
  <2>1. Copies' \subseteq Copies
    BY <1>13 DEF vars, outboxVars, pullVars, Copies
  <2>. QED  BY <1>5, <1>13, <2>1 DEF vars, outboxVars, bounds
<1>. QED  BY <1>1, <1>2, <1>3, <1>4, <1>6, <1>7, <1>8, <1>9, <1>10, <1>11, <1>12, <1>13
          DEF Next, Worker, Pull

(* When callbacks and projections have come to rest, row and item disagree *)
(* only about the newest choice, which the user made in the row: no slow   *)
(* projection, late callback or stale pull (update_inbox_item,             *)
(* _pull_bitable_changes) leaves an older value behind.                    *)
THEOREM AtRestOnlyEditsWait == Spec => []OnlyLastEditWaits
<1>1. Init => EditInv
  <2>. SUFFICES ASSUME Init PROVE EditInv
    OBVIOUS
  <2>1. CurrentDiffersByEdit /\ CurrentReadIsItem
    BY DEF Init, CurrentDiffersByEdit, CurrentReadIsItem
  <2>2. Copies \subseteq Stamped /\ choices = 0
    BY DEF Init, Copies, NoItem, NoRow, Stamped
  <2>3. OneValuePerNumber
    BY <2>2 DEF OneValuePerNumber, Stamped
  <2>. QED  BY <2>1, <2>3 DEF EditInv
<1>2. TypeOK /\ BehindIsDue /\ EditInv => OnlyLastEditWaits
  <2>. SUFFICES ASSUME TypeOK, BehindIsDue, EditInv, Calm, row.value # db.value
                PROVE  row.number = choices /\ db.number < choices
    BY DEF OnlyLastEditWaits
  <2>1. row.current
    BY DEF BehindIsDue, Calm
  <2>2. row.number = choices
    BY <2>1 DEF EditInv, CurrentDiffersByEdit
  <2>3. <<row.value, row.number>> \in Copies /\ <<db.value, db.number>> \in Copies
    BY DEF Copies
  <2>4. db.number # row.number /\ db.number <= choices
    BY <2>3 DEF EditInv, OneValuePerNumber
  <2>5. db.number \in Nat /\ choices \in Nat
    BY <2>3, CopiesTyped
  <2>. QED  BY <2>2, <2>4, <2>5
<1>. QED  BY <1>1, <1>2, EditStep, TypeCorrect, NeverSilentlyBehind, PTL DEF Spec
=============================================================================
