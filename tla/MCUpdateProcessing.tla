------------------------- MODULE MCUpdateProcessing -------------------------
(***************************************************************************)
(* Instances of UpdateProcessing for TLC.                                  *)
(***************************************************************************)
EXTENDS UpdateProcessing

Payment == [kind |-> "payment"]
Confirm == [kind |-> "confirm"]
Cancel == [kind |-> "cancel"]
RemindNow == [kind |-> "remind"]
Balance == [kind |-> "view"]
Invite(user) == [kind |-> "invite", user |-> user]
Start(token, account) == [kind |-> "start", token |-> token, account |-> account]

Ann == "ann"
Bob == "bob"
Phone == "phone"

MCUsers == {Ann, Bob}
MCAccounts == {Phone}
MCCommands ==
  {Payment, Confirm, Cancel, RemindNow, Balance, Invite(Ann), Invite(Bob)}
  \union {Start(t, Phone) : t \in 1 .. 2}

(* Any three steps of the wizard, and the life of an invite. *)
WizardAndInvites ==
  [1 .. 3 -> {Payment, Confirm, Cancel}]
  \union {<<Invite(Ann), Start(1, Phone), Invite(Ann)>>, <<Invite(Ann), Invite(Ann), Start(1, Phone)>>,
          <<Invite(Ann), Invite(Ann), Start(2, Phone)>>, <<Invite(Ann), Start(1, Phone), Start(1, Phone)>>,
          <<RemindNow, Balance>>}

(* The account of one profile opens the invitation of another. *)
TwoInvites == {<<Invite(Ann), Invite(Bob), Start(1, Phone), Start(2, Phone)>>}

OneReminder == {<<RemindNow>>}
=============================================================================
