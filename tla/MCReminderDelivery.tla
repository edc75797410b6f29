------------------------- MODULE MCReminderDelivery -------------------------
(***************************************************************************)
(* Instances of ReminderDelivery for TLC: every key belongs to one         *)
(* customer, who then competes with himself for workers and pages.         *)
(***************************************************************************)
EXTENDS ReminderDelivery

MCOwner == [k \in Keys |-> CHOOSE u \in Users : TRUE]
=============================================================================
