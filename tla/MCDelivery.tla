----------------------------- MODULE MCDelivery -----------------------------
(* Instances of Delivery for TLC: MCDelivery.cfg is the run, and            *)
(* MCDeliveryStuck.cfg shows how an event is lost for good.                 *)
EXTENDS Delivery

CONSTANTS e1, e2, t1, t2

OneEvent  == {e1}
TwoEvents == {e1, e2}
OneTask   == {t1}
TwoTasks  == {t1, t2}
=============================================================================
