-------------------------- MODULE ReminderContract --------------------------
(***************************************************************************)
(* What reminder delivery promises for each delivery key, with no clock,   *)
(* no lease, no worker and no database row.                                *)
(*                                                                         *)
(* A delivery key names one reminder.  Its message enters the customer's   *)
(* chat at most once, and only while an attempt is under way.  An attempt  *)
(* whose outcome nobody knows stays closed until an operator has seen that *)
(* the chat holds no message.                                              *)
(***************************************************************************)

CONSTANTS
  Keys,       \* delivery keys
  Messages    \* identities a delivered message can have

VARIABLES
  stage,      \* what is known about the reminder
  inbox       \* messages of the key that reached the customer's chat

vars == <<stage, inbox>>

Stages == {"new", "sending", "sent", "ambiguous", "refused", "closed"}

TypeOK ==
  /\ stage \in [Keys -> Stages]
  /\ inbox \in [Keys -> SUBSET Messages]

Init ==
  /\ stage = [k \in Keys |-> "new"]
  /\ inbox = [k \in Keys |-> {}]

Move(k, from, to) ==
  /\ stage[k] \in from
  /\ stage' = [stage EXCEPT ![k] = to]
  /\ UNCHANGED inbox

(* A first attempt, or another one after a definite refusal. *)
Begin(k) == Move(k, {"new", "refused"}, "sending")

(* The message reaches the chat. *)
Arrive(k) ==
  /\ stage[k] = "sending"
  /\ inbox[k] = {}
  /\ \E m \in Messages : inbox' = [inbox EXCEPT ![k] = {m}]
  /\ UNCHANGED stage

(* The transport confirmed the message. *)
Confirm(k) == inbox[k] # {} /\ Move(k, {"sending"}, "sent")

(* The transport definitely did not take the message. *)
Refuse(k) == inbox[k] = {} /\ Move(k, {"sending"}, "refused")

(* No further attempt will be made. *)
Close(k) == Move(k, {"sending"}, "closed")

(* The outcome of every attempt in S is lost. *)
Doubt(S) ==
  /\ \A k \in S : stage[k] = "sending"
  /\ stage' = [k \in Keys |-> IF k \in S THEN "ambiguous" ELSE stage[k]]
  /\ UNCHANGED inbox

(* An operator has verified that nothing arrived. *)
Reopen(k) == inbox[k] = {} /\ Move(k, {"ambiguous"}, "refused")

Next ==
  \/ \E k \in Keys :
       Begin(k) \/ Arrive(k) \/ Confirm(k) \/ Refuse(k) \/ Close(k) \/ Reopen(k)
  \/ \E S \in SUBSET Keys : Doubt(S)

Spec == Init /\ [][Next]_vars
=============================================================================
