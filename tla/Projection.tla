----------------------------- MODULE Projection -----------------------------
(***************************************************************************)
(* What the projection of the inbox onto the Bitable table promises, apart *)
(* from any mechanism.  The database gives every inbox item a version that *)
(* only grows; the table row an item is mapped to shows some version of    *)
(* it; the database remembers a version it knows the row has reached.      *)
(*                                                                         *)
(* The row may lag behind, and what is remembered may lag behind the row,  *)
(* but neither ever goes back, and both catch up when changes stop.        *)
(***************************************************************************)
EXTENDS Naturals

CONSTANTS
    Item,        \* inbox items
    MaxVersion   \* bound on the number of changes to one item

VARIABLES
    version,     \* version[i]: the item's version in the database, 0 if none
    shown,       \* shown[i]: the version its mapped row shows, 0 if unmapped
    synced       \* synced[i]: the version recorded as projected

vars == <<version, shown, synced>>

Init ==
    /\ version = [i \in Item |-> 0]
    /\ shown   = [i \in Item |-> 0]
    /\ synced  = [i \in Item |-> 0]

(* The item is created or changed. *)
Change(i) ==
    /\ version[i] < MaxVersion
    /\ version' = [version EXCEPT ![i] = @ + 1]
    /\ UNCHANGED <<shown, synced>>

(* The row moves to a later version of the item, or the database learns of *)
(* a version the row has already reached, or both.                         *)
Advance(i) ==
    /\ \E s \in shown[i] .. version[i] :
           /\ shown' = [shown EXCEPT ![i] = s]
           /\ \E k \in synced[i] .. s : synced' = [synced EXCEPT ![i] = k]
    /\ UNCHANGED version

(* One request to the table may carry the rows of several items. *)
AdvanceMany ==
    /\ shown' \in [Item -> 0 .. MaxVersion]
    /\ \A i \in Item : shown'[i] \in shown[i] .. version[i]
    /\ UNCHANGED <<version, synced>>

Next ==
    \/ \E i \in Item : Change(i) \/ Advance(i)
    \/ AdvanceMany

Safe == Init /\ [][Next]_vars

CaughtUp(i) == shown[i] = version[i] /\ synced[i] = version[i]

(* Changes are up to the users; once they stop, every item catches up. *)
Spec == Safe /\ \A i \in Item : <>[]CaughtUp(i)
=============================================================================
