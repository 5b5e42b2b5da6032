------------------------------ MODULE OrderBook ------------------------------
(***************************************************************************)
(* What the shop promises of an order, whatever is retried, notified twice *)
(* or interrupted: it is delivered at most once, its quota appears with    *)
(* the delivery, and it can be taken back once, only unused, and then the  *)
(* quota is gone for good.                                                 *)
(***************************************************************************)
EXTENDS Naturals

CONSTANT Orders

VARIABLES
  book,     \* status of each order
  quota,    \* number of answer-quota grants each order has
  used      \* orders whose quota was ever reserved

vars == <<book, quota, used>>

Init ==
  /\ book = [o \in Orders |-> "absent"]
  /\ quota = [o \in Orders |-> 0]
  /\ used = {}

Place(o) ==
  /\ book[o] = "absent"
  /\ book' = [book EXCEPT ![o] = "pending"]
  /\ UNCHANGED <<quota, used>>

Deliver(o) ==
  /\ book[o] = "pending"
  /\ book' = [book EXCEPT ![o] = "fulfilled"]
  /\ quota' = [quota EXCEPT ![o] = 1]
  /\ UNCHANGED used

Use(o) ==
  /\ book[o] = "fulfilled"
  /\ used' = used \cup {o}
  /\ UNCHANGED <<book, quota>>

TakeBack(o) ==
  /\ book[o] = "fulfilled"
  /\ o \notin used
  /\ book' = [book EXCEPT ![o] = "refunded"]
  /\ quota' = [quota EXCEPT ![o] = 0]
  /\ UNCHANGED used

Next == \E o \in Orders : Place(o) \/ Deliver(o) \/ Use(o) \/ TakeBack(o)

Spec == Init /\ [][Next]_vars

=============================================================================
