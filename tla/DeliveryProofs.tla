--------------------------- MODULE DeliveryProofs ---------------------------
(***************************************************************************)
(* Theorems about Delivery for any events, tasks and bounds.               *)
(*                                                                         *)
(* The receiver acknowledges an event when its commit returns.  That the   *)
(* event is then among those the commit stores takes the lock and the      *)
(* order of the thread: nobody else's statement comes between (HolderInv). *)
(***************************************************************************)
EXTENDS Delivery, TLAPS

InTransaction == {"write", "commit", "rollback"}

(* Who is in a transaction holds the lock, alone, and no statement that    *)
(* nobody waits for is left.                                               *)
HolderInv ==
    /\ \A c, d \in lock : c = d
    /\ \A c \in Client : pc[c] \in InTransaction \cup {"begin"} => c \in lock
    /\ \A c \in Client : pc[c] \in InTransaction => left = <<>>

(* The insertion of the receiver is in the transaction it commits. *)
WrittenInv == pc[Receiver] = "commit" => event \in written

IInv == TypeOK /\ HolderInv /\ WrittenInv /\ AckedIsStored

LEMMA InitOK == Init => IInv
  BY DEF Init, IInv, TypeOK, Waits, HolderInv, InTransaction, WrittenInv, AckedIsStored, Client

(* What becomes of the tasks when one of them goes on or ends. *)
LEMMA GoesOn ==
    ASSUME TypeOK, NEW c \in Client, NEW w \in Waits, Goes(c, w)
    PROVE  /\ pc' \in [Client -> Waits]
           /\ pc'[c] = w /\ \A d \in Client \ {c} : pc'[d] = pc[d]
  BY DEF TypeOK, Goes

LEMMA EndsTask ==
    ASSUME TypeOK, HolderInv, NEW c \in Client, NEW S \in SUBSET Event, Ends(c, S),
           c = Receiver => S \subseteq stored', stored \subseteq stored', AckedIsStored
    PROVE  /\ pc' \in [Client -> Waits]
           /\ pc'[c] = "idle" /\ \A d \in Client \ {c} : pc'[d] = pc[d]
           /\ lock' = lock \ {c} /\ event' = event
           /\ child' \in {"down", "listening", "asking"} /\ acked' \subseteq Event
           /\ AckedIsStored'
  BY DEF TypeOK, Ends, Waits, AckedIsStored

-----------------------------------------------------------------------------
LEMMA TaskSteps ==
    ASSUME IInv, NEW c \in Client,
           (c \in Task /\ Call(c)) \/ Acquire(c) \/ Statement(c) \/ BeginBusy(c) \/ WriteFails(c)
    PROVE  IInv'
<1>. USE DEF IInv
<1>1. CASE Call(c)
  <2>1. pc' \in [Client -> Waits] /\ pc'[c] = "lock" /\ \A d \in Client \ {c} : pc'[d] = pc[d]
    BY <1>1, GoesOn DEF Call, Waits
  <2>. QED  BY <1>1, <2>1
            DEF Call, TypeOK, HolderInv, InTransaction, WrittenInv, AckedIsStored, childVars, Client
<1>2. CASE Acquire(c)
  <2>1. pc' \in [Client -> Waits] /\ pc'[c] = "begin" /\ \A d \in Client \ {c} : pc'[d] = pc[d]
    BY <1>2, GoesOn DEF Acquire, Waits
  <2>2. lock = {} /\ lock' = {c} /\ UNCHANGED <<left, txn, written, stored, slow, faults>>
        /\ UNCHANGED <<child, event, acked>>
    BY <1>2 DEF Acquire, childVars
  <2>3. HolderInv'
    BY <2>1, <2>2 DEF HolderInv, InTransaction
  <2>4. TypeOK'
    BY <2>1, <2>2 DEF TypeOK
  <2>. QED  BY <2>1, <2>2, <2>3, <2>4 DEF WrittenInv, AckedIsStored, Client
<1>3. CASE (Begin(c) /\ txn = "open") \/ BeginBusy(c)
  <2>1. Ends(c, {}) /\ UNCHANGED <<left, txn, written, stored, slow>> /\ faults' \in Nat
    BY <1>3 DEF Begin, BeginBusy, Fault, TypeOK
  <2>2. /\ pc' \in [Client -> Waits]
        /\ pc'[c] = "idle" /\ \A d \in Client \ {c} : pc'[d] = pc[d]
        /\ lock' = lock \ {c} /\ event' = event
        /\ child' \in {"down", "listening", "asking"} /\ acked' \subseteq Event
        /\ AckedIsStored'
    BY <2>1, EndsTask
  <2>3. HolderInv'
    BY <2>1, <2>2 DEF HolderInv, InTransaction
  <2>4. TypeOK' /\ WrittenInv'
    BY <2>1, <2>2 DEF TypeOK, WrittenInv, Client
  <2>. QED  BY <2>2, <2>3, <2>4
<1>4. CASE Begin(c) /\ txn # "open"
  <2>1. Goes(c, "write")
    BY <1>4 DEF Begin
  <2>2. pc' \in [Client -> Waits] /\ pc'[c] = "write" /\ \A d \in Client \ {c} : pc'[d] = pc[d]
    BY <2>1, GoesOn DEF Waits
  <2>3. /\ pc[c] = "begin" /\ left = <<>> /\ txn' = "open"
        /\ UNCHANGED <<lock, left, written, stored, child, event, acked, slow, faults>>
    BY <1>4 DEF Begin, childVars
  <2>4. HolderInv'
    BY <2>2, <2>3 DEF HolderInv, InTransaction
  <2>5. TypeOK' /\ WrittenInv'
    BY <2>2, <2>3 DEF TypeOK, WrittenInv, Client
  <2>. QED  BY <2>3, <2>4, <2>5 DEF AckedIsStored
<1>5. CASE Write(c)
  <2>1. pc' \in [Client -> Waits] /\ pc'[c] = "commit" /\ \A d \in Client \ {c} : pc'[d] = pc[d]
    BY <1>5, GoesOn DEF Write, Waits
  <2>2. pc[c] = "write" /\ written \subseteq written' /\ written' \subseteq Event
    BY <1>5 DEF Write, TypeOK
  <2>3. c = Receiver => event \in written'
    BY <1>5 DEF Write
  <2>4. UNCHANGED <<lock, left, txn, stored, child, event, acked, slow, faults>>
    BY <1>5 DEF Write, childVars
  <2>5. HolderInv'
    BY <2>1, <2>2, <2>4 DEF HolderInv, InTransaction
  <2>6. TypeOK' /\ WrittenInv'
    BY <2>1, <2>2, <2>3, <2>4 DEF TypeOK, WrittenInv, Client
  <2>. QED  BY <2>4, <2>5, <2>6 DEF AckedIsStored
<1>6. CASE WriteFails(c)
  <2>1. /\ pc' \in [Client -> Waits] /\ pc'[c] = "rollback"
        /\ \A d \in Client \ {c} : pc'[d] = pc[d]
    BY <1>6, GoesOn DEF WriteFails, Waits
  <2>2. /\ pc[c] = "write" /\ faults' \in Nat
        /\ UNCHANGED <<lock, left, txn, written, stored, child, event, acked, slow>>
    BY <1>6 DEF WriteFails, Fault, TypeOK, childVars
  <2>3. HolderInv'
    BY <2>1, <2>2 DEF HolderInv, InTransaction
  <2>4. TypeOK' /\ WrittenInv'
    BY <2>1, <2>2 DEF TypeOK, WrittenInv, Client
  <2>. QED  BY <2>2, <2>3, <2>4 DEF AckedIsStored
<1>7. CASE Commit(c) \/ RollBack(c)
  <2>1. pc[c] \in InTransaction /\ \A d \in Client \ {c} : pc[d] \notin InTransaction
    BY <1>7 DEF Commit, RollBack, HolderInv, InTransaction
  <2>2. /\ txn' = "none" /\ written' = {} /\ stored' \subseteq Event /\ stored \subseteq stored'
        /\ UNCHANGED <<left, slow, faults>>
    BY <1>7 DEF Commit, RollBack, DbCommits, DbRollsBack, TypeOK
  <2>3. PICK S \in SUBSET Event : Ends(c, S) /\ (c = Receiver => S \subseteq stored')
    <3>1. CASE Commit(c)
      BY <3>1 DEF Commit, DbCommits, WrittenInv, TypeOK
    <3>2. CASE RollBack(c)
      BY <3>2 DEF RollBack
    <3>. QED  BY <1>7, <3>1, <3>2
  <2>4. /\ pc' \in [Client -> Waits]
        /\ pc'[c] = "idle" /\ \A d \in Client \ {c} : pc'[d] = pc[d]
        /\ lock' = lock \ {c} /\ event' = event
        /\ child' \in {"down", "listening", "asking"} /\ acked' \subseteq Event
        /\ AckedIsStored'
    BY <2>2, <2>3, EndsTask
  <2>5. \A d \in Client : pc'[d] \notin InTransaction
    BY <2>1, <2>4 DEF InTransaction
  <2>6. HolderInv'
    BY <2>4, <2>5 DEF HolderInv, InTransaction
  <2>7. WrittenInv'
    BY <2>5 DEF WrittenInv, InTransaction, Client
  <2>. QED  BY <2>2, <2>4, <2>6, <2>7 DEF TypeOK
<1>. QED  BY <1>1, <1>2, <1>3, <1>4, <1>5, <1>6, <1>7 DEF Statement

LEMMA StragglerStep == ASSUME IInv, Straggler PROVE IInv'
<1>. USE DEF IInv
<1>1. \A c \in Client : pc[c] \notin InTransaction
  BY DEF Straggler, HolderInv
<1>2. Head(left) \in {"begin", "commit", "rollback"} /\ left' \in Seq({"begin", "commit", "rollback"})
  BY DEF Straggler, TypeOK
<1>3. /\ txn' \in {"none", "open"} /\ written' \subseteq Event
      /\ stored' \subseteq Event /\ stored \subseteq stored'
  BY <1>2 DEF Straggler, DbCommits, DbRollsBack, TypeOK
<1>4. UNCHANGED <<lock, pc, child, event, acked, slow, faults>>
  BY DEF Straggler, childVars
<1>. QED  BY <1>1, <1>2, <1>3, <1>4
          DEF TypeOK, HolderInv, WrittenInv, AckedIsStored, InTransaction, Client

LEMMA TimeOutStep == ASSUME IInv, TimeOut PROVE IInv'
<1>. USE DEF IInv
<1>. Receiver \in Client
  BY DEF Client
<1>1. slow' \in Nat /\ UNCHANGED <<txn, written, stored, faults>>
  BY DEF TimeOut, TypeOK
<1>2. CASE pc[Receiver] \in {"lock", "begin", "commit"}
  <2>1. Ends(Receiver, {})
    BY <1>2 DEF TimeOut
  <2>2. /\ pc' \in [Client -> Waits]
        /\ pc'[Receiver] = "idle" /\ \A d \in Client \ {Receiver} : pc'[d] = pc[d]
        /\ lock' = lock \ {Receiver} /\ event' = event
        /\ child' \in {"down", "listening", "asking"} /\ acked' \subseteq Event
        /\ AckedIsStored'
    BY <1>1, <2>1, EndsTask
  <2>3. left' \in Seq({"begin", "commit", "rollback"})
    BY <1>2 DEF TimeOut, TypeOK
  <2>4. ASSUME NEW d \in Client, pc'[d] \in InTransaction PROVE left' = <<>>
    <3>1. d # Receiver /\ pc[d] \in InTransaction
      BY <2>2, <2>4 DEF InTransaction
    <3>2. pc[Receiver] = "lock"
      BY <1>2, <3>1 DEF HolderInv, InTransaction
    <3>3. left' = left
      BY <3>2 DEF TimeOut
    <3>. QED  BY <3>1, <3>3 DEF HolderInv
  <2>5. HolderInv'
    BY <2>2, <2>4 DEF HolderInv, InTransaction
  <2>. QED  BY <1>1, <2>2, <2>3, <2>5 DEF TypeOK, WrittenInv
<1>3. CASE pc[Receiver] = "write"
  <2>1. Goes(Receiver, "rollback") /\ UNCHANGED <<lock, left, child, event, acked>>
    BY <1>3 DEF TimeOut, childVars
  <2>2. /\ pc' \in [Client -> Waits]
        /\ pc'[Receiver] = "rollback" /\ \A d \in Client \ {Receiver} : pc'[d] = pc[d]
    BY <2>1, GoesOn DEF Waits
  <2>. QED  BY <1>1, <1>3, <2>1, <2>2
            DEF TypeOK, HolderInv, InTransaction, WrittenInv, AckedIsStored
<1>. QED  BY <1>2, <1>3 DEF TimeOut

LEMMA ReceiverSteps ==
    ASSUME IInv, (\E e \in Event : Receive(e)) \/ ChildExits \/ StartChild \/ Restart
    PROVE  IInv'
<1>. USE DEF IInv, TypeOK
<1>1. ASSUME NEW e \in Event, Receive(e) PROVE IInv'
  <2>1. /\ pc' \in [Client -> Waits]
        /\ pc'[Receiver] = "lock" /\ \A d \in Client \ {Receiver} : pc'[d] = pc[d]
    BY <1>1, GoesOn DEF Receive, Waits, Client
  <2>. QED  BY <1>1, <2>1 DEF Receive, HolderInv, InTransaction, WrittenInv, AckedIsStored
<1>2. CASE ChildExits \/ StartChild
  <2>1. faults' \in Nat /\ child' \in {"down", "listening", "asking"}
    BY <1>2 DEF ChildExits, StartChild, Fault
  <2>. QED  BY <1>2, <2>1
            DEF ChildExits, StartChild, HolderInv, WrittenInv, AckedIsStored, dbVars
<1>3. CASE Restart
  BY <1>3 DEF Restart, Fault, HolderInv, InTransaction, WrittenInv, AckedIsStored, Waits, Client
<1>. QED  BY <1>1, <1>2, <1>3

LEMMA Invariance == Spec => []IInv
<1>1. IInv /\ [Next]_vars => IInv'
  <2> SUFFICES ASSUME IInv, [Next]_vars PROVE IInv'
    OBVIOUS
  <2>1. CASE UNCHANGED vars
    BY <2>1 DEF IInv, TypeOK, HolderInv, WrittenInv, AckedIsStored, vars, dbVars, childVars
  <2>2. ASSUME NEW t \in Task, Call(t) PROVE IInv'
    BY <2>2, TaskSteps DEF Client
  <2>. QED  BY <2>1, <2>2, TaskSteps, StragglerStep, TimeOutStep, ReceiverSteps DEF Next
<1>. QED  BY <1>1, InitOK, PTL DEF Spec

-----------------------------------------------------------------------------
(* Whatever times out, fails, is cancelled or stops, Feishu is told that an *)
(* event has been received only when it is stored.                          *)
THEOREM AcknowledgedIsStored == Spec => []AckedIsStored
<1>1. IInv => AckedIsStored
  BY DEF IInv
<1>. QED  BY <1>1, Invariance, PTL

(* A transaction nobody is in is never ended but by a restart, and nothing *)
(* is stored before: neither the receiver nor any other task of the        *)
(* process can begin one.                                                  *)
THEOREM StuckStays == Spec => StuckForGood
<1>1. ASSUME IInv, [Next]_vars, Stuck PROVE Restart \/ (Stuck' /\ stored' = stored)
  <2>. USE <1>1 DEF IInv
  <2>1. CASE UNCHANGED vars
    BY <2>1 DEF Stuck, vars, dbVars
  <2>2. ASSUME NEW c \in Client, Call(c) \/ Acquire(c) \/ BeginBusy(c) \/ Begin(c)
        PROVE  Stuck' /\ stored' = stored
    <3>1. txn' = txn /\ stored' = stored /\ left' = left
      BY <2>2 DEF Call, Acquire, BeginBusy, Begin, Stuck
    <3>2. \A d \in Client : pc'[d] \in {pc[d], "idle", "lock", "begin"}
      BY <2>2 DEF Call, Acquire, BeginBusy, Begin, Stuck, Goes, Ends, TypeOK
    <3>. QED  BY <3>1, <3>2 DEF Stuck
  <2>3. ASSUME NEW c \in Client, Write(c) \/ Commit(c) \/ RollBack(c) \/ WriteFails(c)
        PROVE  FALSE
    BY <2>3 DEF Write, Commit, RollBack, WriteFails, Stuck
  <2>4. CASE Straggler
    <3>1. Head(left) = "begin"
      BY <2>4 DEF Straggler, Stuck, TypeOK
    <3>2. \A k \in 1 .. Len(left') : left'[k] = "begin"
      BY <2>4 DEF Straggler, Stuck, TypeOK
    <3>. QED  BY <2>4, <3>1, <3>2 DEF Straggler, Stuck
  <2>5. CASE TimeOut
    <3>1. /\ left' = left \/ left' = Append(left, "begin")
          /\ Ends(Receiver, {}) /\ UNCHANGED <<txn, stored>>
      BY <2>5 DEF TimeOut, Stuck, Client
    <3>2. \A k \in 1 .. Len(left') : left'[k] = "begin"
      BY <3>1 DEF Stuck, TypeOK
    <3>3. \A d \in Client : pc'[d] \in {pc[d], "idle"}
      BY <3>1 DEF Ends, TypeOK
    <3>. QED  BY <3>1, <3>2, <3>3 DEF Stuck
  <2>6. CASE ChildExits \/ StartChild \/ \E e \in Event : Receive(e)
    <3>1. UNCHANGED <<txn, stored, left>>
      BY <2>6 DEF ChildExits, StartChild, Receive, dbVars
    <3>2. \A d \in Client : pc'[d] \in {pc[d], "lock"}
      BY <2>6 DEF ChildExits, StartChild, Receive, dbVars, Goes, TypeOK
    <3>. QED  BY <3>1, <3>2 DEF Stuck
  <2>. QED  BY <2>1, <2>2, <2>3, <2>4, <2>5, <2>6 DEF Next, Statement, Client
<1>2. IInv /\ [Next]_vars => [Stuck => Restart \/ (Stuck' /\ stored' = stored)]_vars
  BY <1>1
<1>. QED  BY <1>2, Invariance, PTL DEF Spec, StuckForGood

(* A transaction is left with nobody in it only when the thread executes a  *)
(* BEGIN whose task has given up: every other way out of a transaction      *)
(* ends it, or leaves a COMMIT behind that does.                            *)
THEOREM OnlyBeginSticks == Spec => StuckByBegin
<1>1. ASSUME IInv, [Next]_vars, ~Stuck, ~(Straggler /\ Head(left) = "begin") PROVE ~Stuck'
  <2>. USE <1>1 DEF IInv
  <2>1. CASE UNCHANGED vars
    BY <2>1 DEF Stuck, vars, dbVars
  <2>2. CASE txn' = "none"
    BY <2>2 DEF Stuck
  <2>3. ASSUME NEW c \in Client, (c \in Task /\ Call(c)) \/ Acquire(c) \/ BeginBusy(c)
                                 \/ (Begin(c) /\ txn = "open")
        PROVE  ~Stuck'
    <3>1. UNCHANGED <<txn, left>>
      BY <2>3 DEF Call, Acquire, BeginBusy, Begin
    <3>2. pc[c] \notin InTransaction
      BY <2>3 DEF Call, Acquire, BeginBusy, Begin, InTransaction
    <3>3. \A d \in Client \ {c} : pc'[d] = pc[d]
      BY <2>3 DEF Call, Acquire, BeginBusy, Begin, Goes, Ends, TypeOK
    <3>. QED  BY <3>1, <3>2, <3>3 DEF Stuck, InTransaction, TypeOK, Waits
  <2>4. ASSUME NEW c \in Client, (Begin(c) /\ txn # "open") \/ Write(c) \/ WriteFails(c)
        PROVE  ~Stuck'
    <3>1. pc'[c] \in InTransaction
      BY <2>4 DEF Begin, Write, WriteFails, Goes, InTransaction, TypeOK
    <3>. QED  BY <3>1 DEF Stuck, InTransaction
  <2>5. ASSUME NEW c \in Client, Commit(c) \/ RollBack(c) PROVE ~Stuck'
    BY <2>2, <2>5 DEF Commit, RollBack, DbCommits, DbRollsBack
  <2>6. CASE Straggler
    <3>1. Head(left) # "begin"
      BY <1>1, <2>6
    <3>2. Head(left) \in {"begin", "commit", "rollback"}
      BY <2>6 DEF Straggler, TypeOK
    <3>3. txn' = "none"
      BY <2>6, <3>1, <3>2 DEF Straggler, DbCommits, DbRollsBack
    <3>. QED  BY <2>2, <3>3
  <2>7. CASE TimeOut
    <3>1. txn' = txn
      BY <2>7 DEF TimeOut
    <3>2. CASE pc[Receiver] \in {"lock", "begin"}
      <4>1. left' = left \/ left' = Append(left, "begin")
        BY <2>7, <3>2 DEF TimeOut
      <4>2. \A d \in Client \ {Receiver} : pc'[d] = pc[d]
        BY <2>7, <3>2 DEF TimeOut, Ends, TypeOK
      <4>3. CASE \E d \in Client : pc[d] \notin {"idle", "lock", "begin"}
        BY <3>2, <4>2, <4>3 DEF Stuck
      <4>4. ASSUME NEW k \in 1 .. Len(left), left[k] # "begin" PROVE ~Stuck'
        <5>1. k \in 1 .. Len(left') /\ left'[k] = left[k]
          BY <4>1, <4>4 DEF TypeOK
        <5>. QED  BY <4>4, <5>1 DEF Stuck
      <4>. QED  BY <3>1, <4>3, <4>4 DEF Stuck
    <3>3. CASE pc[Receiver] = "commit"
      <4>1. left' = Append(left, "commit")
        BY <2>7, <3>3 DEF TimeOut
      <4>2. Len(left') \in 1 .. Len(left') /\ left'[Len(left')] = "commit"
        BY <4>1 DEF TypeOK
      <4>. QED  BY <4>2 DEF Stuck
    <3>4. CASE pc[Receiver] = "write"
      <4>1. pc'[Receiver] = "rollback"
        BY <2>7, <3>4 DEF TimeOut, Goes, TypeOK, Client
      <4>. QED  BY <4>1 DEF Stuck, Client
    <3>. QED  BY <2>7, <3>2, <3>3, <3>4 DEF TimeOut
  <2>8. CASE ChildExits \/ StartChild \/ \E e \in Event : Receive(e)
    <3>1. UNCHANGED <<txn, left>>
      BY <2>8 DEF ChildExits, StartChild, Receive, dbVars
    <3>2. \A d \in Client : pc'[d] = pc[d] \/ pc[d] = "idle"
      BY <2>8 DEF ChildExits, StartChild, Receive, dbVars, Goes, TypeOK
    <3>. QED  BY <3>1, <3>2 DEF Stuck
  <2>9. CASE Restart
    BY <2>2, <2>9 DEF Restart
  <2>. QED  BY <2>1, <2>3, <2>4, <2>5, <2>6, <2>7, <2>8, <2>9 DEF Next, Statement, Client
<1>2. IInv /\ [Next]_vars => [~Stuck /\ Stuck' => Straggler /\ Head(left) = "begin"]_vars
  BY <1>1
<1>. QED  BY <1>2, Invariance, PTL DEF Spec, StuckByBegin
=============================================================================
