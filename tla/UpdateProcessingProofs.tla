----------------------- MODULE UpdateProcessingProofs -----------------------
(***************************************************************************)
(* Proofs about UpdateProcessing, for any scripts, users, accounts, limits *)
(* and numbers of attempts and crashes, if the claims kept are at least as *)
(* many as the updates of an answer.                                       *)
(***************************************************************************)
EXTENDS UpdateProcessing, FiniteSetTheorems, TLAPS

Pollers == [pc : {"poll", "handle", "reply"}, offset : 0 .. MaxUpdates + 1,
            next : 0 .. MaxUpdates, last : 0 .. MaxUpdates, said : Said \union {Null}]

(* The last update that Telegram can have delivered. *)
Window == Later(confirmed, 1) + Limit - 1

(* The batch is made of updates that arrived and are not forgotten. *)
BatchInv ==
  poll.pc # "poll" =>
    /\ poll.next \in 1 .. poll.last
    /\ poll.last <= arrived /\ poll.last <= Window
    /\ confirmed <= poll.next /\ poll.offset <= poll.next
    /\ poll.pc = "reply" => poll.said \in Said

(* What Telegram may deliver again still has its claim. *)
ClaimsInv ==
  /\ \A u \in done : u <= Window
  /\ \A u \in done : confirmed <= u => u \in processed

(* A draft is not in the ledger, and both name commands that were run. *)
PaymentsInv ==
  /\ draft # Null => draft \in done /\ \A i \in 1 .. Len(ledger) : ledger[i].draft # draft
  /\ \A i \in 1 .. Len(ledger) : ledger[i].draft \in done /\ ledger[i].by \in done
  /\ PaymentsRecordedOnce

(* A token was created by the invite that names it. *)
TokensInv ==
  /\ \A t \in Ids : tokens[t] # "none" => t \in done /\ t <= arrived /\ script[t].kind = "invite"
  /\ OneWayIn

KeyOf(message) == [update |-> message.update, period |-> message.period]

(* The key of a message in the chat is closed, so no other is sent for it. *)
RemindersInv ==
  /\ \A i \in 1 .. Len(inbox) : deliveries[KeyOf(inbox[i])] = "closed"
  /\ RemindedOncePerDate

(***************************************************************************)
(* What is true of a used token instead of UsedTokenHasLinked: its profile *)
(* is linked, or the account that opened it is linked to another one.      *)
(***************************************************************************)
UsedTokenIsExplained ==
  \A t \in Ids : tokens[t] = "used" =>
    \/ linked[script[t].user] # Null
    \/ \E u \in done, other \in Users :
         /\ Is(u, "start") /\ script[u].token = t
         /\ other # script[t].user
         /\ linked[other] = script[u].account /\ linked[other] # Null

(* What a reply says is so. *)
IsTrue(u, said) ==
  /\ said = "recorded" => \E i \in 1 .. Len(ledger) : ledger[i].by = u
  /\ said = "bound" => /\ script[u].token \in Ids
                       /\ tokens[script[u].token] = "used"
                       /\ script[script[u].token].user \in Users
                       /\ linked[script[script[u].token].user] = script[u].account
                       /\ script[u].account # Null

RepliesInv ==
  /\ \A r \in replies : IsTrue(r.update, r.said)
  /\ poll.pc = "reply" => IsTrue(poll.next, poll.said)

(* The bot is done with an update. *)
Settled(u) == u \in done \/ u \in dropped \/ ~Transactional(u)

OrderInv ==
  /\ \A u \in Ids : u < confirmed \/ u < poll.offset => Settled(u)
  /\ poll.pc # "poll" => \A u \in Ids : u < poll.next => Settled(u)
  /\ poll.pc = "reply" => Settled(poll.next)
  /\ \A v \in done : \A u \in Ids : u < v => Settled(u)
  /\ crashes = 0 => \A u \in dropped : u < poll.offset

-----------------------------------------------------------------------------
(* The operators. *)

LEMMA ScriptCommands ==
  ASSUME script \in Scripts
  PROVE  /\ Len(script) \in Ids
         /\ Ids \subseteq Nat
         /\ \A u \in 1 .. Len(script) : script[u] \in Commands
<1>1. script \in Seq(Commands) /\ Len(script) \in Ids
  BY CommandsAssumption
<1> QED
  BY <1>1, UpdateNumbersAssumption DEF Ids

LEMMA StartFields ==
  ASSUME NEW c \in Commands, c.kind = "start"
  PROVE  c.token \in Ids /\ c.account \in Accounts
BY CommandsAssumption

LEMMA InviteFields ==
  ASSUME NEW c \in Commands, c.kind = "invite"
  PROVE  c.user \in Users
BY CommandsAssumption

(* client.go: an update that is done with moves the offset past it. *)
LEMMA AcknowledgedPoller ==
  ASSUME poll \in Pollers, poll.next \in 1 .. poll.last
  PROVE  /\ Acknowledged(poll.next) \in Pollers
         /\ Acknowledged(poll.next).offset = poll.next + 1
         /\ Acknowledged(poll.next).pc \in {"poll", "handle"}
         /\ Acknowledged(poll.next).pc = "handle" =>
              /\ poll.next # poll.last
              /\ Acknowledged(poll.next).next = poll.next + 1
              /\ Acknowledged(poll.next).last = poll.last
<1> DEFINE a == Acknowledged(poll.next)
<1>1. poll.last \in 0 .. MaxUpdates /\ poll.next \in 0 .. MaxUpdates
  BY DEF Pollers
<1>2. /\ poll.next + 1 \in 0 .. MaxUpdates + 1
      /\ poll.next # poll.last => poll.next + 1 \in 0 .. MaxUpdates
  BY <1>1, UpdateNumbersAssumption
<1>3. CASE poll.next = poll.last
  <2>1. a = [poll EXCEPT !.pc = "poll", !.offset = poll.next + 1,
                         !.next = 0, !.last = 0, !.said = Null]
    BY <1>3 DEF Acknowledged
  <2>2. 0 \in 0 .. MaxUpdates
    BY UpdateNumbersAssumption
  <2>3. a \in Pollers /\ a.offset = poll.next + 1 /\ a.pc = "poll"
    BY <1>2, <2>1, <2>2 DEF Pollers
  <2> QED
    BY <2>3
<1>4. CASE poll.next # poll.last
  <2>1. a = [poll EXCEPT !.pc = "handle", !.offset = poll.next + 1,
                         !.next = poll.next + 1, !.said = Null]
    BY <1>4 DEF Acknowledged, Pollers
  <2>2. /\ a \in Pollers /\ a.offset = poll.next + 1 /\ a.pc = "handle"
        /\ a.next = poll.next + 1 /\ a.last = poll.last
    BY <1>2, <1>4, <2>1 DEF Pollers
  <2> QED
    BY <1>4, <2>2
<1> QED
  BY <1>3, <1>4

LEMMA NewPollers ==
  /\ NewPoller \in Pollers /\ NewPoller.pc = "poll" /\ NewPoller.offset = 0
  /\ poll \in Pollers =>
       \A u : /\ Postponed(u) \in Pollers
              /\ Postponed(u).pc = "poll" /\ Postponed(u).offset = poll.offset
BY UpdateNumbersAssumption DEF NewPoller, Postponed, Pollers

(* client.go: a failed update is dropped and acknowledged, or asked for again. *)
LEMMA FailureOutcomes ==
  ASSUME attempts \in [Ids -> 0 .. MaxAttempts - 1], NEW u \in Ids,
         NEW retryable \in BOOLEAN, Fails(u, retryable)
  PROVE  /\ attempts' \in [Ids -> 0 .. MaxAttempts - 1]
         /\ \/ poll' = Acknowledged(u) /\ dropped' = dropped \union {u}
            \/ poll' = Postponed(u) /\ dropped' = dropped
BY UpdateNumbersAssumption DEF Fails, GivesUp

(***************************************************************************)
(* transaction.go: a claim is pruned only if there are Retention newer     *)
(* ones, so none is that belongs to one of Retention consecutive updates.  *)
(***************************************************************************)
LEMMA PrunedKeeps ==
  ASSUME NEW claims \in SUBSET Int, NEW u \in claims, NEW last \in Int,
         last - u < Retention, \A v \in claims : v <= last
  PROVE  u \in Pruned(claims)
<1> DEFINE newer == {v \in claims : v > u}
<1>1. newer \subseteq u + 1 .. last
  <2> SUFFICES ASSUME NEW v \in claims, v > u PROVE v \in u + 1 .. last
    OBVIOUS
  <2>1. v \in Int /\ u \in Int /\ v <= last
    OBVIOUS
  <2> QED
    BY <2>1
<1>2. IsFiniteSet(u + 1 .. last) /\ Cardinality(u + 1 .. last) <= Retention - 1
  <2>1. /\ IsFiniteSet(u + 1 .. last)
        /\ Cardinality(u + 1 .. last) = IF u + 1 > last THEN 0 ELSE last - (u + 1) + 1
    BY FS_Interval
  <2> QED
    BY <2>1, UpdateNumbersAssumption
<1>3. /\ IsFiniteSet(newer)
      /\ Cardinality(newer) <= Cardinality(u + 1 .. last)
      /\ Cardinality(newer) \in Nat /\ Cardinality(u + 1 .. last) \in Nat
  BY <1>1, <1>2, FS_Subset, FS_CardinalityType
<1>4. Cardinality(newer) < Retention
  BY <1>2, <1>3, UpdateNumbersAssumption
<1> QED
  BY <1>4 DEF Pruned

-----------------------------------------------------------------------------
(* Types and the batch. *)

TypeInv == UpdatesTypeOK /\ BatchInv

LEMMA TypeInvInit == Init => TypeInv
BY ScriptCommands, NewPollers, UpdateNumbersAssumption
   DEF Init, TypeInv, UpdatesTypeOK, BatchInv, NewPoller, Pollers, TokenStates, Ids

(* While an update is handled it is one of the script. *)
LEMMA HandledUpdate ==
  ASSUME TypeInv, poll.pc # "poll"
  PROVE  /\ poll.next \in Ids /\ poll.next <= arrived /\ poll.next \in 1 .. Len(script)
         /\ script[poll.next] \in Commands
         /\ poll.next \in 1 .. poll.last /\ poll.next <= Window
         /\ poll \in Pollers
<1>1. /\ poll \in Pollers /\ poll.next \in 1 .. poll.last
      /\ poll.last <= arrived /\ poll.last <= Window /\ arrived \in 0 .. Len(script)
      /\ script \in Scripts /\ confirmed \in Nat
  BY UpdateNumbersAssumption DEF TypeInv, UpdatesTypeOK, BatchInv, Pollers
<1>2. Len(script) \in Nat /\ Len(script) <= MaxUpdates
  BY <1>1, ScriptCommands, UpdateNumbersAssumption DEF Ids
<1>3. poll.last \in Nat /\ Window \in Int
  BY <1>1, UpdateNumbersAssumption DEF Window, Later, Pollers
<1>4. poll.next \in Nat /\ poll.next \in 1 .. Len(script) /\ poll.next <= Window
  BY <1>1, <1>2, <1>3, UpdateNumbersAssumption
<1> QED
  BY <1>1, <1>2, <1>3, <1>4, ScriptCommands, UpdateNumbersAssumption DEF Ids

(* A step that leaves the poller with an acknowledged update. *)
LEMMA AcknowledgedBatch ==
  ASSUME TypeInv, poll.pc # "poll", poll' = Acknowledged(poll.next),
         confirmed' = confirmed, arrived' = arrived
  PROVE  poll' \in Pollers /\ BatchInv'
<1>1. poll' \in Pollers /\ poll \in Pollers
  BY HandledUpdate, AcknowledgedPoller
<1>2. SUFFICES ASSUME poll'.pc # "poll" PROVE BatchInv'
  BY <1>1 DEF BatchInv
<1>3. /\ poll'.pc = "handle" /\ poll.next # poll.last /\ poll'.next = poll.next + 1
      /\ poll'.last = poll.last /\ poll'.offset = poll.next + 1
  BY <1>2, HandledUpdate, AcknowledgedPoller
<1>4. /\ poll.next \in Nat /\ poll.last \in Nat /\ confirmed \in Nat
      /\ poll.next \in 1 .. poll.last /\ Window' = Window
      /\ poll.last <= arrived /\ poll.last <= Window /\ confirmed <= poll.next
  BY UpdateNumbersAssumption DEF TypeInv, UpdatesTypeOK, BatchInv, Window
<1> QED
  BY <1>3, <1>4 DEF BatchInv

(* A step after which the poller asks for updates. *)
LEMMA PollingBatch ==
  ASSUME poll'.pc = "poll"
  PROVE  BatchInv'
BY DEF BatchInv

(* A failure ends with the update acknowledged or to be asked for again. *)
LEMMA FailedPoller ==
  ASSUME TypeInv, poll.pc # "poll", NEW retryable \in BOOLEAN, Fails(poll.next, retryable)
  PROVE  poll' \in Pollers /\ poll'.pc # "reply"
<1>1. poll.next \in Ids /\ poll \in Pollers /\ poll.next \in 1 .. poll.last
  BY HandledUpdate
<1>2. poll' = Acknowledged(poll.next) \/ poll' = Postponed(poll.next)
  BY <1>1, FailureOutcomes DEF TypeInv, UpdatesTypeOK
<1>3. /\ Acknowledged(poll.next) \in Pollers /\ Acknowledged(poll.next).pc # "reply"
      /\ Postponed(poll.next) \in Pollers /\ Postponed(poll.next).pc # "reply"
  BY <1>1, AcknowledgedPoller, NewPollers
<1> QED
  BY <1>2, <1>3

LEMMA GetUpdatesBatch ==
  ASSUME TypeInv, GetUpdates
  PROVE  poll' \in Pollers /\ confirmed' \in 0 .. MaxUpdates + 1 /\ BatchInv'
<1> DEFINE first == Later(Later(confirmed, poll.offset), 1)
           last == IF arrived < first + Limit - 1 THEN arrived ELSE first + Limit - 1
<1>1. /\ poll \in Pollers /\ poll.offset \in 0 .. MaxUpdates + 1 /\ poll.pc = "poll"
      /\ confirmed \in 0 .. MaxUpdates + 1 /\ arrived \in Nat /\ arrived <= MaxUpdates
  <2>1. Len(script) \in Nat /\ Len(script) <= MaxUpdates /\ arrived \in 0 .. Len(script)
    BY ScriptCommands, UpdateNumbersAssumption DEF TypeInv, UpdatesTypeOK, Ids
  <2>2. poll \in Pollers /\ confirmed \in 0 .. MaxUpdates + 1 /\ poll.pc = "poll"
    BY DEF TypeInv, UpdatesTypeOK, GetUpdates, Pollers
  <2> QED
    BY <2>1, <2>2, UpdateNumbersAssumption DEF Pollers
<1>2. /\ confirmed' = Later(confirmed, poll.offset) /\ arrived' = arrived
      /\ poll' = IF last < first THEN poll
                 ELSE [poll EXCEPT !.pc = "handle", !.next = first, !.last = last]
  BY DEF GetUpdates
<1>3. /\ confirmed' \in 0 .. MaxUpdates + 1 /\ first = Later(confirmed', 1)
      /\ first \in Nat /\ first >= 1 /\ poll.offset <= first /\ confirmed' <= first
      /\ last \in Int /\ last <= arrived /\ last <= Window'
  BY <1>1, <1>2, UpdateNumbersAssumption DEF Later, Window
<1>4. CASE last < first
  BY <1>1, <1>2, <1>3, <1>4 DEF BatchInv
<1>5. CASE ~(last < first)
  <2> HIDE DEF first, last
  <2>1. first \in 0 .. MaxUpdates /\ last \in 0 .. MaxUpdates /\ first \in 1 .. last
    BY <1>1, <1>3, <1>5, UpdateNumbersAssumption
  <2>2. poll' = [poll EXCEPT !.pc = "handle", !.next = first, !.last = last]
    BY <1>2, <1>5
  <2>3. /\ poll' \in Pollers /\ poll'.pc = "handle" /\ poll'.next = first /\ poll'.last = last
        /\ poll'.offset = poll.offset
    BY <1>1, <2>1, <2>2 DEF Pollers
  <2> QED
    BY <1>2, <1>3, <2>1, <2>3 DEF BatchInv
<1> QED
  BY <1>4, <1>5

LEMMA CommandTypes ==
  ASSUME TypeInv, NEW u \in Ids, u \in 1 .. Len(script), NEW said \in Said, Command(u, said)
  PROVE  /\ draft' \in Ids \union {Null}
         /\ ledger' \in Seq([draft : Ids, by : Ids])
         /\ tokens' \in [Ids -> TokenStates]
         /\ linked' \in [Users -> Accounts \union {Null}]
<1> USE DEF TypeInv, UpdatesTypeOK, TokenStates
<1>1. CASE BeginPayment(u, said)
  BY <1>1 DEF BeginPayment
<1>2. CASE ConfirmPayment(u, said)
  <2>1. CASE draft # Null /\ ledger' = Append(ledger, [draft |-> draft, by |-> u])
    <3>1. [draft |-> draft, by |-> u] \in [draft : Ids, by : Ids]
      BY <2>1
    <3> QED
      BY <1>2, <2>1, <3>1 DEF ConfirmPayment, AfterConfirm
  <2>2. CASE ledger' = ledger
    BY <1>2, <2>2 DEF ConfirmPayment, AfterConfirm
  <2> QED
    BY <1>2, <2>1, <2>2 DEF ConfirmPayment
<1>3. CASE CancelWizard(u, said)
  BY <1>3 DEF CancelWizard
<1>4. CASE CreateInviteToken(u, said)
  BY <1>4 DEF CreateInviteToken
<1>5. CASE ConsumeInviteToken(u, said)
  <2>1. script[u].account \in Accounts
    BY <1>5, ScriptCommands, StartFields DEF ConsumeInviteToken, Is
  <2> QED
    BY <1>5, <2>1 DEF ConsumeInviteToken
<1> QED
  BY <1>1, <1>2, <1>3, <1>4, <1>5 DEF Command

(* A success resets the update's failures. *)
LEMMA AttemptsReset ==
  ASSUME TypeInv, NEW u \in Ids, attempts' = [attempts EXCEPT ![u] = 0]
  PROVE  attempts' \in [Ids -> 0 .. MaxAttempts - 1]
<1>1. 0 \in 0 .. MaxAttempts - 1
  BY UpdateNumbersAssumption
<1> QED
  BY <1>1 DEF TypeInv, UpdatesTypeOK

(* The outcomes of an attempt to send a manual reminder. *)
LEMMA AttemptOutcomes ==
  ASSUME TypeInv, NEW key \in ReminderKeys, Sent(key) \/ NotSent(key)
  PROVE  LET message == [update |-> key.update, period |-> key.period, life |-> crashes]
         IN /\ message \in Messages
            /\ \E row \in {"none", "refused", "closed"} :
                 /\ deliveries' = deliveries \/ deliveries' = [deliveries EXCEPT ![key] = row]
                 /\ inbox' = inbox
                      \/ /\ inbox' = Append(inbox, message)
                         /\ deliveries' = [deliveries EXCEPT ![key] = "closed"]
<1>1. key.update \in Ids /\ key.period \in 0 .. MaxPeriod /\ crashes \in 0 .. MaxCrashes
  BY DEF TypeInv, UpdatesTypeOK, ReminderKeys
<1>2. [update |-> key.update, period |-> key.period, life |-> crashes] \in Messages
  BY <1>1 DEF Messages
<1> QED
  BY <1>2 DEF Sent, NotSent, Unanswered, manual

LEMMA AttemptTypes ==
  ASSUME TypeInv, NEW key \in ReminderKeys, Sent(key) \/ NotSent(key)
  PROVE  /\ deliveries' \in [ReminderKeys -> {"none", "refused", "closed"}]
         /\ inbox' \in Seq(Messages)
<1>1. deliveries \in [ReminderKeys -> {"none", "refused", "closed"}] /\ inbox \in Seq(Messages)
  BY DEF TypeInv, UpdatesTypeOK
<1> DEFINE message == [update |-> key.update, period |-> key.period, life |-> crashes]
<1>2. PICK row \in {"none", "refused", "closed"} :
        /\ deliveries' = deliveries \/ deliveries' = [deliveries EXCEPT ![key] = row]
        /\ inbox' = inbox
             \/ /\ inbox' = Append(inbox, message)
                /\ deliveries' = [deliveries EXCEPT ![key] = "closed"]
  BY AttemptOutcomes
<1>3. message \in Messages
  BY AttemptOutcomes
<1> HIDE DEF message
<1>4. inbox' \in Seq(Messages)
  BY <1>1, <1>2, <1>3
<1>5. deliveries' \in [ReminderKeys -> {"none", "refused", "closed"}]
  BY <1>1, <1>2
<1> QED
  BY <1>4, <1>5

LEMMA TypeInvStep ==
  ASSUME TypeInv, [Next]_vars
  PROVE  TypeInv'
<1> USE DEF TypeInv
<1>1. CASE GetUpdates
  BY <1>1, GetUpdatesBatch DEF GetUpdates, store, manual, UpdatesTypeOK, Pollers
<1>2. CASE GetUpdatesFails
  <2>1. confirmed' \in 0 .. MaxUpdates + 1
    BY <1>2, UpdateNumbersAssumption DEF GetUpdatesFails, UpdatesTypeOK, Later
  <2> QED
    BY <1>2, <2>1, PollingBatch DEF GetUpdatesFails, store, manual, UpdatesTypeOK
<1>3. ASSUME NEW u \in Ids, Process(u) PROVE TypeInv'
  <2>1. u = poll.next /\ poll.pc = "handle" /\ u \in 1 .. Len(script) /\ poll \in Pollers
    BY <1>3, HandledUpdate DEF Process, Handling
  <2>2. PICK said \in Said : Command(u, said) /\ poll' = [poll EXCEPT !.pc = "reply", !.said = said]
    BY <1>3 DEF Process
  <2>3. poll' \in Pollers /\ BatchInv'
    BY <1>3, <2>1, <2>2 DEF Process, Pollers, BatchInv, Window
  <2>4. /\ draft' \in Ids \union {Null} /\ ledger' \in Seq([draft : Ids, by : Ids])
        /\ tokens' \in [Ids -> TokenStates] /\ linked' \in [Users -> Accounts \union {Null}]
    BY <2>1, <2>2, CommandTypes
  <2>5. attempts' \in [Ids -> 0 .. MaxAttempts - 1]
    BY <1>3, AttemptsReset DEF Process
  <2>6. processed' \subseteq done' /\ done' \subseteq Ids
    BY <1>3 DEF Process, Pruned, UpdatesTypeOK
  <2> QED
    BY <1>3, <2>3, <2>4, <2>5, <2>6 DEF Process, UpdatesTypeOK, Pollers, manual
<1>4. ASSUME NEW u \in Ids, SkipDuplicate(u) PROVE TypeInv'
  <2>1. poll' \in Pollers /\ BatchInv'
    BY <1>4, AcknowledgedBatch DEF SkipDuplicate, Handling
  <2>2. attempts' \in [Ids -> 0 .. MaxAttempts - 1]
    BY <1>4, AttemptsReset DEF SkipDuplicate
  <2> QED
    BY <1>4, <2>1, <2>2 DEF SkipDuplicate, UpdatesTypeOK, Pollers, store, manual
<1>5. ASSUME NEW u \in Ids, NEW retryable \in BOOLEAN, Fails(u, retryable),
             u = poll.next, poll.pc = "handle", confirmed' = confirmed, arrived' = arrived
      PROVE  /\ poll' \in Pollers /\ BatchInv'
             /\ attempts' \in [Ids -> 0 .. MaxAttempts - 1]
             /\ dropped' \subseteq Ids
  <2>1. poll' \in Pollers
    BY <1>5, FailedPoller
  <2>2. /\ attempts' \in [Ids -> 0 .. MaxAttempts - 1]
        /\ \/ poll' = Acknowledged(u) /\ dropped' = dropped \union {u}
           \/ poll' = Postponed(u) /\ dropped' = dropped
    BY <1>5, FailureOutcomes DEF UpdatesTypeOK
  <2>3. poll' = Acknowledged(u) => BatchInv'
    BY <1>5, AcknowledgedBatch
  <2>4. poll' = Postponed(u) => BatchInv'
    BY <1>5, HandledUpdate, PollingBatch, NewPollers
  <2> QED
    BY <2>1, <2>2, <2>3, <2>4 DEF UpdatesTypeOK
<1>6. ASSUME NEW u \in Ids, ProcessFails(u) PROVE TypeInv'
  <2>1. /\ poll' \in Pollers /\ BatchInv'
        /\ attempts' \in [Ids -> 0 .. MaxAttempts - 1]
        /\ dropped' \subseteq Ids
    BY <1>5, <1>6 DEF ProcessFails, Handling
  <2> QED
    BY <1>6, <2>1 DEF ProcessFails, AfterRollback, UpdatesTypeOK, Pollers, store, manual
<1>7. ASSUME NEW u \in Ids, Flush(u) PROVE TypeInv'
  <2>1. poll' \in Pollers /\ BatchInv'
    BY <1>7, AcknowledgedBatch DEF Flush
  <2>2. replies' \subseteq [update : Ids, said : Said]
    BY <1>7 DEF Flush, UpdatesTypeOK, BatchInv
  <2> QED
    BY <1>7, <2>1, <2>2 DEF Flush, UpdatesTypeOK, Pollers, store, manual
<1>8. ASSUME NEW u \in Ids, View(u) PROVE TypeInv'
  <2>1. poll' \in Pollers /\ BatchInv'
    BY <1>8, AcknowledgedBatch DEF View, Handling
  <2>2. attempts' \in [Ids -> 0 .. MaxAttempts - 1]
    BY <1>8, AttemptsReset DEF View
  <2>3. replies' \subseteq [update : Ids, said : Said]
    BY <1>8 DEF View, UpdatesTypeOK, Said
  <2> QED
    BY <1>8, <2>1, <2>2, <2>3 DEF View, UpdatesTypeOK, Pollers, store, manual
<1>9. ASSUME NEW u \in Ids, Remind(u) PROVE TypeInv'
  <2>1. u = poll.next /\ poll.pc = "handle" /\ poll \in Pollers
    BY <1>9, HandledUpdate DEF Remind, Handling
  <2>2. /\ deliveries' \in [ReminderKeys -> {"none", "refused", "closed"}]
        /\ inbox' \in Seq(Messages)
    <3>1. [update |-> u, period |-> period] \in ReminderKeys
      BY DEF UpdatesTypeOK, ReminderKeys
    <3>2. CASE UNCHANGED manual
      BY <3>2 DEF UpdatesTypeOK, manual
    <3> QED
      BY <1>9, <3>1, <3>2, AttemptTypes DEF Remind
  <2>3. /\ poll' \in Pollers /\ BatchInv'
        /\ attempts' \in [Ids -> 0 .. MaxAttempts - 1]
        /\ dropped' \subseteq Ids
    <3>1. /\ confirmed' = confirmed /\ arrived' = arrived
          /\ \/ /\ \E said \in Said : poll' = [poll EXCEPT !.pc = "reply", !.said = said]
                /\ attempts' = [attempts EXCEPT ![u] = 0]
                /\ dropped' = dropped
             \/ \E retryable \in BOOLEAN : Fails(u, retryable)
      BY <1>9 DEF Remind, Said
    <3>2. CASE \E retryable \in BOOLEAN : Fails(u, retryable)
      BY <1>5, <2>1, <3>1, <3>2
    <3>3. CASE /\ \E said \in Said : poll' = [poll EXCEPT !.pc = "reply", !.said = said]
               /\ attempts' = [attempts EXCEPT ![u] = 0]
               /\ dropped' = dropped
      <4>1. PICK said \in Said : poll' = [poll EXCEPT !.pc = "reply", !.said = said]
        BY <3>3
      <4>2. poll' \in Pollers /\ BatchInv'
        BY <2>1, <3>1, <4>1 DEF Pollers, BatchInv, Window
      <4>3. attempts' \in [Ids -> 0 .. MaxAttempts - 1]
        BY <3>3, AttemptsReset
      <4> QED
        BY <3>3, <4>2, <4>3 DEF UpdatesTypeOK
    <3> QED
      BY <3>1, <3>2, <3>3
  <2> QED
    BY <1>9, <2>2, <2>3 DEF Remind, UpdatesTypeOK, Pollers, store
<1>10. CASE Arrive
  <2>1. arrived' \in 0 .. Len(script) /\ arrived' = arrived + 1 /\ arrived \in Nat
    BY <1>10, ScriptCommands DEF Arrive, UpdatesTypeOK
  <2>2. poll \in Pollers => BatchInv'
    BY <1>10, <2>1, UpdateNumbersAssumption DEF Arrive, BatchInv, Window, Pollers
  <2> QED
    BY <1>10, <2>1, <2>2 DEF Arrive, UpdatesTypeOK, Pollers, store, manual
<1>11. CASE CatchUp
  <2>1. period' \in 0 .. MaxPeriod
    BY <1>11, UpdateNumbersAssumption DEF CatchUp, UpdatesTypeOK
  <2>2. BatchInv'
    BY <1>11 DEF CatchUp, BatchInv, Window
  <2> QED
    BY <1>11, <2>1, <2>2 DEF CatchUp, UpdatesTypeOK, store, manual
<1>12. CASE Crash
  <2>1. crashes' \in 0 .. MaxCrashes
    BY <1>12, UpdateNumbersAssumption DEF Crash, UpdatesTypeOK
  <2>2. attempts' \in [Ids -> 0 .. MaxAttempts - 1]
    BY <1>12, UpdateNumbersAssumption DEF Crash
  <2>3. poll' \in Pollers /\ BatchInv'
    BY <1>12, NewPollers, PollingBatch DEF Crash
  <2> QED
    BY <1>12, <2>1, <2>2, <2>3 DEF Crash, UpdatesTypeOK, Pollers, store, manual
<1>13. ASSUME NEW t \in Ids, Expire(t) PROVE TypeInv'
  BY <1>13 DEF Expire, UpdatesTypeOK, TokenStates, BatchInv, Window, store, manual
<1>14. ASSUME NEW key \in ReminderKeys, RetryReminder(key) PROVE TypeInv'
  <2>1. /\ deliveries' \in [ReminderKeys -> {"none", "refused", "closed"}]
        /\ inbox' \in Seq(Messages)
    BY <1>14, AttemptTypes DEF RetryReminder
  <2> QED
    BY <1>14, <2>1 DEF RetryReminder, UpdatesTypeOK, BatchInv, Window, store
<1>15. CASE UNCHANGED vars
  BY <1>15 DEF vars, UpdatesTypeOK, BatchInv, Window, store, manual
<1> QED
  BY <1>1, <1>2, <1>3, <1>4, <1>6, <1>7, <1>8, <1>9, <1>10, <1>11, <1>12, <1>13, <1>14, <1>15
     DEF Next, Poller

(* The state of the updates is well formed in every reachable state. *)
THEOREM UpdatesTypeCorrect == Spec => []UpdatesTypeOK
<1>1. TypeInv /\ [Next]_vars => TypeInv'
  BY TypeInvStep
<1>2. TypeInv => UpdatesTypeOK
  BY DEF TypeInv
<1> QED
  BY TypeInvInit, <1>1, <1>2, PTL DEF Spec

-----------------------------------------------------------------------------
(* Claims. *)

(* Only a processed update changes the tables, but for an expiring token. *)
LEMMA TableSteps ==
  ASSUME [Next]_vars
  PROVE  /\ \/ \E u \in Ids : Process(u)
            \/ /\ UNCHANGED <<processed, done, draft, ledger, linked>>
               /\ tokens' = tokens \/ \E t \in Ids : Expire(t)
         /\ confirmed' \in {confirmed, Later(confirmed, poll.offset)}
         /\ script' = script
         /\ arrived' \in {arrived, arrived + 1}
<1>1. CASE GetUpdates
  BY <1>1 DEF GetUpdates, store
<1>2. CASE GetUpdatesFails
  BY <1>2 DEF GetUpdatesFails, store
<1>3. ASSUME NEW u \in Ids, SkipDuplicate(u) \/ ProcessFails(u) \/ Flush(u) \/ View(u) \/ Remind(u)
      PROVE  UNCHANGED <<script, arrived, confirmed, processed, done, draft, ledger, tokens, linked>>
  BY <1>3 DEF SkipDuplicate, ProcessFails, Flush, View, Remind, store
<1>4. ASSUME NEW u \in Ids, Process(u)
      PROVE  UNCHANGED <<script, arrived, confirmed>>
  BY <1>4 DEF Process
<1>5. CASE Arrive \/ CatchUp \/ Crash
  BY <1>5 DEF Arrive, CatchUp, Crash, store
<1>6. ASSUME NEW t \in Ids, Expire(t)
      PROVE  UNCHANGED <<script, arrived, confirmed, processed, done, draft, ledger, linked>>
  BY <1>6 DEF Expire
<1>7. ASSUME NEW key \in ReminderKeys, RetryReminder(key)
      PROVE  UNCHANGED <<script, arrived, confirmed, processed, done, draft, ledger, tokens, linked>>
  BY <1>7 DEF RetryReminder, store
<1>8. CASE UNCHANGED vars
  BY <1>8 DEF vars, store
<1> QED
  BY <1>1, <1>2, <1>3, <1>4, <1>5, <1>6, <1>7, <1>8 DEF Next, Poller

(* An update without a claim that may be delivered was not run. *)
LEMMA ProcessIsFirst ==
  ASSUME TypeInv, ClaimsInv, NEW u \in Ids, Process(u)
  PROVE  u \notin done
<1>1. u = poll.next /\ poll.pc = "handle" /\ u \notin processed
  BY DEF Process, Handling
<1>2. confirmed <= u
  BY <1>1 DEF TypeInv, BatchInv
<1> QED
  BY <1>1, <1>2 DEF ClaimsInv

LEMMA ClaimsInvStep ==
  ASSUME TypeInv, ClaimsInv, [Next]_vars
  PROVE  ClaimsInv'
<1>1. /\ confirmed \in Nat /\ poll.offset \in Nat /\ done \subseteq Ids
      /\ processed \subseteq done /\ Ids \subseteq Nat \ {0}
  BY UpdateNumbersAssumption DEF TypeInv, UpdatesTypeOK, Ids
<1>2. CASE \E u \in Ids : Process(u)
  <2>1. PICK u \in Ids : Process(u)
    BY <1>2
  <2> DEFINE claims == processed \union {u}
  <2>2. /\ u = poll.next /\ poll.pc = "handle" /\ u <= Window
        /\ confirmed' = confirmed /\ done' = done \union {u} /\ processed' = Pruned(claims)
    BY <2>1, HandledUpdate DEF Process, Handling
  <2>3. Window' = Window /\ Window \in Int
    BY <1>1, <2>2, UpdateNumbersAssumption DEF Window, Later
  <2>4. \A v \in done' : v <= Window
    BY <2>2 DEF ClaimsInv
  <2>5. ASSUME NEW v \in done', confirmed <= v PROVE v \in processed'
    <3>1. v \in claims
      BY <2>2, <2>5 DEF ClaimsInv
    <3>2. /\ claims \in SUBSET Int /\ v \in Nat \ {0}
          /\ \A w \in claims : w <= Window
      BY <1>1, <2>2, <2>4, <3>1
    <3>3. Window - v < Retention
      BY <1>1, <2>5, <3>2, RetentionAssumption, UpdateNumbersAssumption DEF Window, Later
    <3>4. v \in Pruned(claims)
      BY <2>3, <3>1, <3>2, <3>3, PrunedKeeps
    <3> QED
      BY <2>2, <3>4
  <2> QED
    BY <2>2, <2>3, <2>4, <2>5 DEF ClaimsInv
<1>3. CASE UNCHANGED <<processed, done>>
  <2>1. confirmed' \in Nat /\ confirmed <= confirmed'
    <3>1. confirmed' = confirmed \/ confirmed' = Later(confirmed, poll.offset)
      BY TableSteps
    <3> QED
      BY <1>1, <3>1 DEF Later
  <2>2. Window \in Int /\ Window' \in Int /\ Window <= Window'
    <3>1. /\ Later(confirmed, 1) \in Int /\ Later(confirmed', 1) \in Int
          /\ Later(confirmed, 1) <= Later(confirmed', 1)
      BY <1>1, <2>1 DEF Later
    <3> QED
      BY <3>1, UpdateNumbersAssumption DEF Window
  <2> QED
    BY <1>1, <1>3, <2>1, <2>2 DEF ClaimsInv
<1> QED
  BY <1>2, <1>3, TableSteps

LEMMA ClaimsInvInit == Init => ClaimsInv
BY DEF Init, ClaimsInv

LEMMA ClaimsHold == Spec => [](TypeInv /\ ClaimsInv)
<1>1. TypeInv /\ ClaimsInv /\ [Next]_vars => TypeInv' /\ ClaimsInv'
  BY TypeInvStep, ClaimsInvStep
<1> QED
  BY TypeInvInit, ClaimsInvInit, <1>1, PTL DEF Spec

(***************************************************************************)
(* transaction.go, client.go: however often updates are delivered, their   *)
(* claims pruned and the process restarted, a command is committed once.   *)
(***************************************************************************)
THEOREM CommandsAreRunOnce == Spec => CommandsRunOnce
<1>1. TypeInv /\ ClaimsInv /\ [Next]_vars => [\A u \in Ids : Process(u) => u \notin done]_vars
  BY ProcessIsFirst
<1> QED
  BY ClaimsHold, <1>1, PTL DEF Spec, CommandsRunOnce

-----------------------------------------------------------------------------
(* Payments. *)

LEMMA PaymentsInvStep ==
  ASSUME TypeInv, ClaimsInv, PaymentsInv, [Next]_vars
  PROVE  PaymentsInv'
<1> USE DEF PaymentsInv, PaymentsRecordedOnce
<1>1. CASE \E u \in Ids : Process(u)
  <2>1. PICK u \in Ids : Process(u)
    BY <1>1
  <2>2. PICK said \in Said : Command(u, said)
    BY <2>1 DEF Process
  <2>3. u \notin done /\ done' = done \union {u}
    BY <2>1, ProcessIsFirst DEF Process
  <2>4. CASE BeginPayment(u, said)
    BY <2>3, <2>4 DEF BeginPayment
  <2>5. CASE draft # Null /\ ConfirmPayment(u, said) /\ ledger' # ledger
    <3> DEFINE entry == [draft |-> draft, by |-> u]
    <3>1. ledger \in Seq([draft : Ids, by : Ids]) /\ entry \in [draft : Ids, by : Ids]
      BY <2>5 DEF TypeInv, UpdatesTypeOK
    <3>2. ledger' = Append(ledger, entry) /\ draft' = Null
      BY <2>5 DEF ConfirmPayment, AfterConfirm
    <3>3. /\ Len(ledger) \in Nat /\ Len(ledger') = Len(ledger) + 1
          /\ \A i \in 1 .. Len(ledger) : ledger'[i] = ledger[i]
          /\ ledger'[Len(ledger) + 1] = entry
      BY <3>1, <3>2
    <3>4. \A i \in 1 .. Len(ledger') : i \in 1 .. Len(ledger) \/ i = Len(ledger) + 1
      BY <3>3
    <3>5. \A i \in 1 .. Len(ledger) : ledger'[i].draft # draft /\ ledger'[i].by # u
      BY <2>3, <2>5, <3>3
    <3>6. PaymentsRecordedOnce'
      BY <3>3, <3>4, <3>5
    <3>7. \A i \in 1 .. Len(ledger') : ledger'[i].draft \in done' /\ ledger'[i].by \in done'
      BY <2>3, <2>5, <3>3, <3>4
    <3> QED
      BY <3>2, <3>6, <3>7
  <2>6. CASE ConfirmPayment(u, said) /\ ledger' = ledger
    BY <2>3, <2>6 DEF ConfirmPayment, AfterConfirm
  <2>7. CASE CancelWizard(u, said)
    BY <2>3, <2>7 DEF CancelWizard
  <2>8. CASE CreateInviteToken(u, said) \/ ConsumeInviteToken(u, said)
    BY <2>3, <2>8 DEF CreateInviteToken, ConsumeInviteToken
  <2> QED
    BY <2>2, <2>4, <2>5, <2>6, <2>7, <2>8 DEF Command, ConfirmPayment
<1>2. CASE UNCHANGED <<done, draft, ledger>>
  BY <1>2
<1> QED
  BY <1>1, <1>2, TableSteps

LEMMA PaymentsInvInit == Init => PaymentsInv
BY DEF Init, PaymentsInv, PaymentsRecordedOnce

(***************************************************************************)
(* wizard.go, admin.go: a payment begun once is recorded at most once, and *)
(* one confirmation records at most one payment.                           *)
(***************************************************************************)
THEOREM PaymentsAreRecordedOnce == Spec => []PaymentsRecordedOnce
<1>1. TypeInv /\ ClaimsInv /\ PaymentsInv /\ [Next]_vars => PaymentsInv'
  BY PaymentsInvStep
<1>2. PaymentsInv => PaymentsRecordedOnce
  BY DEF PaymentsInv
<1> QED
  BY ClaimsHold, PaymentsInvInit, <1>1, <1>2, PTL DEF Spec

-----------------------------------------------------------------------------
(* Tokens. *)

LEMMA TokenUser ==
  ASSUME TypeInv, TokensInv, NEW t \in Ids, tokens[t] # "none"
  PROVE  t \in done /\ script[t].user \in Users
<1>1. t \in done /\ t <= arrived /\ script[t].kind = "invite"
  BY DEF TokensInv
<1>2. t \in 1 .. Len(script)
  BY <1>1, ScriptCommands, UpdateNumbersAssumption DEF TypeInv, UpdatesTypeOK, Ids
<1> QED
  BY <1>1, <1>2, ScriptCommands, InviteFields DEF TypeInv, UpdatesTypeOK

LEMMA StartTarget ==
  ASSUME TypeInv, NEW u \in Ids, u \in 1 .. Len(script), Is(u, "start")
  PROVE  script[u].token \in Ids /\ script[u].account \in Accounts /\ script[u].account # Null
<1>1. script[u] \in Commands
  BY ScriptCommands DEF TypeInv, UpdatesTypeOK
<1>2. script[u].token \in Ids /\ script[u].account \in Accounts
  BY <1>1, StartFields DEF Is
<1> QED
  BY <1>2, UpdateNullAssumption

LEMMA InviteStep ==
  ASSUME TypeInv, TokensInv, NEW u \in Ids, u <= arrived, NEW said, CreateInviteToken(u, said),
         done' = done \union {u}, UNCHANGED <<script, arrived>>
  PROVE  TokensInv'
<1> USE DEF TokensInv, OneWayIn
<1> DEFINE user == script[u].user
<1>1. CASE tokens' = tokens
  BY <1>1 DEF CreateInviteToken
<1>2. CASE /\ linked[user] = Null
           /\ tokens' = [t \in Ids |-> IF t = u THEN "unused"
                                       ELSE IF Replaced(t, user) THEN "none" ELSE tokens[t]]
  <2>1. /\ tokens'[u] = "unused" /\ linked' = linked /\ script[u].kind = "invite"
        /\ \A t \in Ids \ {u} : tokens'[t] \in {"none", tokens[t]}
    BY <1>2 DEF CreateInviteToken, Is
  <2>2. ASSUME NEW t \in Ids \ {u}, tokens'[t] \in {"unused", "expired"}
        PROVE  tokens'[t] = tokens[t] /\ script[t].user # user
    BY <1>2, <2>2 DEF Replaced
  <2> QED
    BY <1>2, <2>1, <2>2
<1> QED
  BY <1>1, <1>2 DEF CreateInviteToken

LEMMA StartStep ==
  ASSUME TypeInv, TokensInv, NEW u \in Ids, u \in 1 .. Len(script), NEW said,
         ConsumeInviteToken(u, said),
         done' = done \union {u}, UNCHANGED <<script, arrived>>
  PROVE  TokensInv'
<1> USE DEF TokensInv, OneWayIn
<1> DEFINE t == script[u].token
           account == script[u].account
           user == script[t].user
           taken == \E other \in Users : linked[other] = account
<1>1. CASE UNCHANGED <<tokens, linked>>
  BY <1>1
<1>2. CASE /\ tokens[t] = "unused" /\ linked[user] = Null
           /\ tokens' = [tokens EXCEPT ![t] = "used"]
           /\ linked' = IF taken THEN linked ELSE [linked EXCEPT ![user] = account]
  <2>1. /\ t \in Ids /\ account \in Accounts /\ account # Null
        /\ t \in done /\ user \in Users
    BY <1>2, StartTarget, TokenUser DEF ConsumeInviteToken
  <2>2. /\ tokens'[t] = "used"
        /\ \A other \in Ids \ {t} : tokens'[other] = tokens[other]
    BY <1>2, <2>1 DEF TypeInv, UpdatesTypeOK
  <2>3. ASSUME NEW other \in Ids, tokens'[other] \in {"unused", "expired"}
        PROVE  other # t /\ tokens[other] = tokens'[other] /\ script[other].user # user
    BY <1>2, <2>1, <2>2, <2>3
  <2>4. CASE taken
    BY <1>2, <2>1, <2>2, <2>3, <2>4
  <2>5. CASE ~taken
    <3>1. /\ linked'[user] = account
          /\ \A other \in Users \ {user} : linked'[other] = linked[other]
      BY <1>2, <2>1, <2>5 DEF TypeInv, UpdatesTypeOK
    <3>2. \A other \in Ids : tokens'[other] # "none" => script[other].user \in Users
      BY <2>1, <2>2, TokenUser
    <3>3. \A other \in Ids :
            tokens'[other] \in {"unused", "expired"} => linked'[script[other].user] = Null
      BY <2>3, <3>1, <3>2
    <3>4. \A v, w \in Users : linked'[v] = linked'[w] /\ linked'[v] # Null => v = w
      BY <2>1, <2>5, <3>1
    <3>5. \A x \in Ids : tokens'[x] # "none" => x \in done /\ x <= arrived /\ script[x].kind = "invite"
      BY <1>2, <2>1, <2>2
    <3>6. \A x, y \in Ids :
            /\ tokens'[x] \in {"unused", "expired"} /\ tokens'[y] \in {"unused", "expired"}
            /\ script[x].user = script[y].user
            => x = y
      BY <2>3
    <3> QED
      BY <3>3, <3>4, <3>5, <3>6
  <2> QED
    BY <2>4, <2>5
<1> QED
  BY <1>1, <1>2 DEF ConsumeInviteToken

LEMMA TokensInvStep ==
  ASSUME TypeInv, TokensInv, [Next]_vars
  PROVE  TokensInv'
<1>1. CASE \E u \in Ids : Process(u)
  <2>1. PICK u \in Ids : Process(u)
    BY <1>1
  <2>2. PICK said \in Said : Command(u, said)
    BY <2>1 DEF Process
  <2>3. /\ u <= arrived /\ u \in 1 .. Len(script)
        /\ done' = done \union {u} /\ UNCHANGED <<script, arrived>>
    BY <2>1, HandledUpdate DEF Process, Handling
  <2>4. CASE CreateInviteToken(u, said)
    BY <2>3, <2>4, InviteStep
  <2>5. CASE ConsumeInviteToken(u, said)
    BY <2>3, <2>5, StartStep
  <2>6. CASE UNCHANGED <<tokens, linked>>
    BY <2>3, <2>6 DEF TokensInv, OneWayIn
  <2> QED
    BY <2>2, <2>4, <2>5, <2>6
       DEF Command, BeginPayment, ConfirmPayment, CancelWizard
<1>2. CASE UNCHANGED <<done, tokens, linked>>
  <2>1. script' = script /\ (arrived' = arrived \/ arrived' = arrived + 1) /\ arrived \in Nat
    BY TableSteps, ScriptCommands DEF TypeInv, UpdatesTypeOK
  <2>2. \A t \in Ids : t <= arrived => t <= arrived'
    BY <2>1, UpdateNumbersAssumption DEF Ids
  <2> QED
    BY <1>2, <2>1, <2>2 DEF TokensInv, OneWayIn
<1>3. CASE \E t \in Ids : Expire(t)
  <2>1. PICK t \in Ids : Expire(t)
    BY <1>3
  <2>2. /\ UNCHANGED <<script, arrived, done, linked>>
        /\ tokens[t] = "unused" /\ tokens'[t] = "expired"
        /\ \A other \in Ids \ {t} : tokens'[other] = tokens[other]
    BY <2>1 DEF Expire, TypeInv, UpdatesTypeOK
  <2> QED
    BY <2>2 DEF TokensInv, OneWayIn
<1> QED
  BY <1>1, <1>2, <1>3, TableSteps

LEMMA TokensInvInit == Init => TokensInv
BY DEF Init, TokensInv, OneWayIn

LEMMA TokensHold == Spec => [](TypeInv /\ ClaimsInv /\ TokensInv)
<1>1. TypeInv /\ TokensInv /\ [Next]_vars => TokensInv'
  BY TokensInvStep
<1> QED
  BY ClaimsHold, TokensInvInit, <1>1, PTL DEF Spec

(***************************************************************************)
(* invites.go: one token at most can link a profile, none once it is       *)
(* linked, and an account is linked to one profile at most.                *)
(***************************************************************************)
THEOREM OneWayToLink == Spec => []OneWayIn
<1>1. TokensInv => OneWayIn
  BY DEF TokensInv
<1> QED
  BY TokensHold, <1>1, PTL

(* A link stays; a start that uses a token links its profile or conflicts. *)
LEMMA ExplainedStep ==
  ASSUME TypeInv, TokensInv, UsedTokenIsExplained, NEW u \in Ids, u \in 1 .. Len(script),
         NEW said, Command(u, said), done' = done \union {u}, script' = script
  PROVE  UsedTokenIsExplained'
<1>1. CASE CreateInviteToken(u, said)
  <2>1. \A t \in Ids : tokens'[t] = "used" => tokens[t] = "used"
    BY <1>1 DEF CreateInviteToken
  <2>2. linked' = linked
    BY <1>1 DEF CreateInviteToken
  <2> QED
    BY <2>1, <2>2 DEF UsedTokenIsExplained, Is
<1> DEFINE t == script[u].token
           account == script[u].account
           user == script[t].user
           taken == \E other \in Users : linked[other] = account
<1>2. CASE /\ Is(u, "start")
           /\ tokens[t] = "unused" /\ linked[user] = Null
           /\ tokens' = [tokens EXCEPT ![t] = "used"]
           /\ linked' = IF taken THEN linked ELSE [linked EXCEPT ![user] = account]
  <2>2. t \in Ids /\ account # Null /\ user \in Users
    BY <1>2, StartTarget, TokenUser
  <2>3. \A other \in Ids \ {t} : tokens'[other] = tokens[other]
    BY <1>2, <2>2 DEF TypeInv, UpdatesTypeOK
  <2>4. \A v \in Users : linked[v] # Null => linked'[v] = linked[v]
    BY <1>2, <2>2 DEF TypeInv, UpdatesTypeOK
  <2>5. \/ linked'[user] # Null
        \/ \E other \in Users : other # user /\ linked'[other] = account /\ linked'[other] # Null
    BY <1>2, <2>2 DEF TypeInv, UpdatesTypeOK
  <2>6. ASSUME NEW x \in Ids, tokens'[x] = "used"
        PROVE  \/ linked'[script[x].user] # Null
               \/ \E w \in done \union {u}, other \in Users :
                    /\ Is(w, "start") /\ script[w].token = x
                    /\ other # script[x].user
                    /\ linked'[other] = script[w].account /\ linked'[other] # Null
    <3>1. CASE x = t
      BY <1>2, <2>5, <3>1
    <3>2. CASE x # t
      <4>1. tokens[x] = "used"
        BY <2>3, <2>6, <3>2
      <4>2. script[x].user \in Users
        BY <4>1, TokenUser
      <4> QED
        BY <2>4, <4>1, <4>2 DEF UsedTokenIsExplained
    <3> QED
      BY <3>1, <3>2
  <2> QED
    BY <2>6 DEF UsedTokenIsExplained, Is
<1>3. CASE UNCHANGED <<tokens, linked>>
  BY <1>3 DEF UsedTokenIsExplained, Is
<1> QED
  BY <1>1, <1>2, <1>3
     DEF Command, BeginPayment, ConfirmPayment, CancelWizard, ConsumeInviteToken

(***************************************************************************)
(* invites.go: a used token whose profile is not linked was opened by an   *)
(* account that is linked to another profile.  That conflict, committed    *)
(* with the claim, is the only way to lose an invitation: no crash, retry, *)
(* redelivery or expiry does.                                              *)
(***************************************************************************)
THEOREM OnlyConflictsLoseTokens == Spec => []UsedTokenIsExplained
<1>1. Init => UsedTokenIsExplained
  BY DEF Init, UsedTokenIsExplained
<1>2. ASSUME TypeInv, TokensInv, UsedTokenIsExplained, [Next]_vars
      PROVE  UsedTokenIsExplained'
  <2>1. CASE \E u \in Ids : Process(u)
    <3>1. PICK u \in Ids : Process(u)
      BY <2>1
    <3>2. PICK said \in Said : Command(u, said)
      BY <3>1 DEF Process
    <3>3. u \in 1 .. Len(script) /\ done' = done \union {u} /\ script' = script
      BY <1>2, <3>1, HandledUpdate DEF Process, Handling
    <3> QED
      BY <1>2, <3>2, <3>3, ExplainedStep
  <2>2. CASE UNCHANGED <<script, done, tokens, linked>>
    BY <1>2, <2>2 DEF UsedTokenIsExplained, Is
  <2>3. CASE \E t \in Ids : Expire(t)
    <3>1. PICK t \in Ids : Expire(t)
      BY <2>3
    <3>2. /\ UNCHANGED <<script, done, linked>>
          /\ \A x \in Ids : tokens'[x] = "used" => tokens[x] = "used"
      BY <1>2, <3>1 DEF Expire, TypeInv, UpdatesTypeOK
    <3> QED
      BY <1>2, <3>2 DEF UsedTokenIsExplained, Is
  <2> QED
    BY <1>2, <2>1, <2>2, <2>3, TableSteps
<1>3. TypeInv /\ TokensInv /\ UsedTokenIsExplained /\ [Next]_vars => UsedTokenIsExplained'
  BY <1>2
<1> QED
  BY <1>1, <1>3, TokensHold, PTL DEF Spec

-----------------------------------------------------------------------------
(* Manual reminders. *)

LEMMA RemindersInvStep ==
  ASSUME TypeInv, RemindersInv, NEW key \in ReminderKeys, deliveries[key] # "closed",
         Sent(key) \/ NotSent(key)
  PROVE  RemindersInv'
<1> DEFINE message == [update |-> key.update, period |-> key.period, life |-> crashes]
<1>1. /\ deliveries \in [ReminderKeys -> {"none", "refused", "closed"}]
      /\ inbox \in Seq(Messages)
      /\ message \in Messages
      /\ KeyOf(message) = key
  BY AttemptOutcomes DEF TypeInv, UpdatesTypeOK, KeyOf, ReminderKeys, Messages
<1>2. ASSUME NEW i \in 1 .. Len(inbox)
      PROVE  KeyOf(inbox[i]) \in ReminderKeys /\ KeyOf(inbox[i]) # key
  <2>1. inbox[i] \in Messages
    BY <1>1
  <2> QED
    BY <2>1 DEF KeyOf, ReminderKeys, Messages, RemindersInv
<1>3. \A i \in 1 .. Len(inbox) : deliveries'[KeyOf(inbox[i])] = "closed"
  BY <1>1, <1>2, AttemptOutcomes DEF RemindersInv
<1>4. CASE inbox' = inbox
  BY <1>3, <1>4 DEF RemindersInv, RemindedOncePerDate, KeyOf
<1>5. CASE inbox' = Append(inbox, message) /\ deliveries' = [deliveries EXCEPT ![key] = "closed"]
  <2>1. /\ Len(inbox') = Len(inbox) + 1 /\ inbox'[Len(inbox) + 1] = message
        /\ \A i \in 1 .. Len(inbox) : inbox'[i] = inbox[i]
        /\ Len(inbox) \in Nat
    BY <1>1, <1>5
  <2>2. \A i \in 1 .. Len(inbox') : i \in 1 .. Len(inbox) \/ i = Len(inbox) + 1
    BY <2>1
  <2>3. deliveries'[KeyOf(message)] = "closed"
    BY <1>1, <1>5
  <2>4. \A i \in 1 .. Len(inbox) :
          ~(inbox[i].update = message.update /\ inbox[i].period = message.period)
    <3>1. ASSUME NEW i \in 1 .. Len(inbox),
                 inbox[i].update = message.update, inbox[i].period = message.period
          PROVE  FALSE
      <4>1. KeyOf(inbox[i]) = KeyOf(message)
        BY <3>1 DEF KeyOf
      <4> QED
        BY <1>1, <1>2, <4>1
    <3> QED
      BY <3>1
  <2> HIDE DEF message
  <2>5. \A i \in 1 .. Len(inbox') : deliveries'[KeyOf(inbox'[i])] = "closed"
    BY <1>3, <2>1, <2>2, <2>3
  <2>6. RemindedOncePerDate'
    BY <2>1, <2>2, <2>4 DEF RemindersInv, RemindedOncePerDate
  <2> QED
    BY <2>5, <2>6 DEF RemindersInv, KeyOf
<1> QED
  BY <1>4, <1>5, AttemptOutcomes

(***************************************************************************)
(* reminder/service.go: the delivery key of /admin remind holds the update *)
(* and the charge date, so neither an update that is handled again nor the *)
(* scheduler's retry of its row sends a second message for the same date,  *)
(* whatever failed, went unanswered or crashed after the first.            *)
(***************************************************************************)
THEOREM RemindedOnce == Spec => []RemindedOncePerDate
<1>1. Init => RemindersInv
  BY DEF Init, RemindersInv, RemindedOncePerDate
<1>2. ASSUME TypeInv, RemindersInv, [Next]_vars
      PROVE  RemindersInv'
  <2>1. CASE UNCHANGED manual
    BY <1>2, <2>1 DEF RemindersInv, RemindedOncePerDate, KeyOf, manual
  <2>2. ASSUME NEW u \in Ids, Remind(u)
        PROVE  RemindersInv'
    <3>1. [update |-> u, period |-> period] \in ReminderKeys
      BY <1>2 DEF TypeInv, UpdatesTypeOK, ReminderKeys
    <3> QED
      BY <1>2, <2>1, <2>2, <3>1, RemindersInvStep DEF Remind
  <2>3. ASSUME NEW key \in ReminderKeys, RetryReminder(key)
        PROVE  RemindersInv'
    BY <1>2, <2>3, RemindersInvStep DEF RetryReminder
  <2> QED
    BY <1>2, <2>1, <2>2, <2>3
       DEF Next, Poller, GetUpdates, GetUpdatesFails, Process, SkipDuplicate, ProcessFails,
           Flush, View, Arrive, CatchUp, Crash, Expire, vars
<1>3. TypeInv /\ RemindersInv /\ [Next]_vars => TypeInv' /\ RemindersInv'
  BY <1>2, TypeInvStep
<1>4. RemindersInv => RemindedOncePerDate
  BY DEF RemindersInv
<1> QED
  BY TypeInvInit, <1>1, <1>3, <1>4, PTL DEF Spec

-----------------------------------------------------------------------------
(* Replies. *)

(* What was true of the ledger or of a token stays true. *)
LEMMA TruthIsKept ==
  ASSUME TypeInv, ClaimsInv, TokensInv, [Next]_vars, NEW v \in Ids, NEW what, IsTrue(v, what)
  PROVE  IsTrue(v, what)'
<1> DEFINE t == script[v].token
           user == script[t].user
<1>1. script' = script
  BY TableSteps
<1>2. ASSUME NEW u \in Ids, Process(u)
      PROVE  IsTrue(v, what)'
  <2>1. PICK said \in Said : Command(u, said)
    BY <1>2 DEF Process
  <2>2. u \notin done
    BY <1>2, ProcessIsFirst
  <2>3. what = "bound" => t \in done /\ t # u
    BY <2>2, TokenUser DEF IsTrue
  <2>4. CASE ConfirmPayment(u, said)
    <3>1. ledger \in Seq([draft : Ids, by : Ids])
      BY DEF TypeInv, UpdatesTypeOK
    <3>2. CASE draft # Null /\ ledger' = Append(ledger, [draft |-> draft, by |-> u])
      <4>1. [draft |-> draft, by |-> u] \in [draft : Ids, by : Ids]
        BY <3>2 DEF TypeInv, UpdatesTypeOK
      <4>2. /\ Len(ledger) \in Nat /\ Len(ledger') = Len(ledger) + 1
            /\ \A i \in 1 .. Len(ledger) : ledger'[i] = ledger[i]
        BY <3>1, <3>2, <4>1
      <4> QED
        BY <1>1, <2>4, <4>2 DEF IsTrue, ConfirmPayment
    <3>3. CASE ledger' = ledger
      BY <1>1, <2>4, <3>3 DEF IsTrue, ConfirmPayment
    <3> QED
      BY <2>4, <3>2, <3>3 DEF ConfirmPayment
  <2>5. CASE CreateInviteToken(u, said)
    BY <1>1, <2>3, <2>5 DEF IsTrue, CreateInviteToken, Replaced
  <2>6. CASE ConsumeInviteToken(u, said)
    BY <1>1, <2>6 DEF IsTrue, ConsumeInviteToken, TypeInv, UpdatesTypeOK
  <2>7. CASE UNCHANGED <<ledger, tokens, linked>>
    BY <1>1, <2>7 DEF IsTrue
  <2> QED
    BY <2>1, <2>4, <2>5, <2>6, <2>7 DEF Command, BeginPayment, CancelWizard
<1>3. CASE UNCHANGED <<ledger, tokens, linked>>
  BY <1>1, <1>3 DEF IsTrue
<1>4. ASSUME NEW x \in Ids, Expire(x)
      PROVE  IsTrue(v, what)'
  BY <1>1, <1>4 DEF IsTrue, Expire, TypeInv, UpdatesTypeOK
<1> QED
  BY <1>2, <1>3, <1>4, TableSteps

(* A command says what it has done. *)
LEMMA CommandIsTrue ==
  ASSUME TypeInv, TokensInv, NEW u \in Ids, u \in 1 .. Len(script), NEW said \in Said,
         Command(u, said), script' = script
  PROVE  IsTrue(u, said)'
<1> DEFINE t == script[u].token
           user == script[t].user
           account == script[u].account
<1>0. ConsumeInviteToken(u, said) =>
        \/ said \in {"invalid", "linked", "expired", "used", "taken"}
        \/ /\ said = "bound" /\ tokens[t] = "unused" /\ Is(u, "start")
           /\ tokens' = [tokens EXCEPT ![t] = "used"]
           /\ linked' = [linked EXCEPT ![user] = account]
  <2>1. Is(u, "start") => tokens[t] \in TokenStates
    BY StartTarget DEF TypeInv, UpdatesTypeOK
  <2>2. Is(u, "start") => tokens[t] \in {"none", "unused", "expired", "used"}
    BY <2>1 DEF TokenStates
  <2> QED
    BY <2>2 DEF ConsumeInviteToken
<1>1. CASE said = "recorded"
  <2>1. draft # Null /\ ledger' = Append(ledger, [draft |-> draft, by |-> u])
    BY <1>0, <1>1 DEF Command, BeginPayment, ConfirmPayment, CancelWizard, CreateInviteToken
  <2>2. /\ ledger \in Seq([draft : Ids, by : Ids])
        /\ [draft |-> draft, by |-> u] \in [draft : Ids, by : Ids]
    BY <2>1 DEF TypeInv, UpdatesTypeOK
  <2>3. Len(ledger') \in 1 .. Len(ledger') /\ ledger'[Len(ledger')].by = u
    BY <2>1, <2>2
  <2> QED
    BY <1>1, <2>3 DEF IsTrue
<1>2. CASE said = "bound"
  <2>1. /\ Is(u, "start") /\ tokens[t] = "unused"
        /\ tokens' = [tokens EXCEPT ![t] = "used"]
        /\ linked' = [linked EXCEPT ![user] = account]
    BY <1>0, <1>2 DEF Command, BeginPayment, ConfirmPayment, CancelWizard, CreateInviteToken
  <2>2. t \in Ids /\ account # Null /\ user \in Users
    BY <2>1, StartTarget, TokenUser
  <2> QED
    BY <1>2, <2>1, <2>2 DEF IsTrue, TypeInv, UpdatesTypeOK
<1> QED
  BY <1>1, <1>2 DEF IsTrue

LEMMA RepliesInvStep ==
  ASSUME TypeInv, ClaimsInv, TokensInv, RepliesInv, [Next]_vars
  PROVE  RepliesInv'
<1>1. \A r \in replies : IsTrue(r.update, r.said)'
  BY TruthIsKept DEF RepliesInv, TypeInv, UpdatesTypeOK
<1>2. ASSUME NEW u \in Ids, Process(u)
      PROVE  RepliesInv'
  <2>1. /\ u = poll.next /\ poll \in Pollers /\ u \in 1 .. Len(script)
        /\ script' = script /\ replies' = replies
    BY <1>2, HandledUpdate DEF Process, Handling
  <2>2. PICK said \in Said : Command(u, said) /\ poll' = [poll EXCEPT !.pc = "reply", !.said = said]
    BY <1>2 DEF Process
  <2>3. IsTrue(u, said)' /\ poll'.next = u /\ poll'.said = said
    BY <2>1, <2>2, CommandIsTrue DEF Pollers
  <2> QED
    BY <1>1, <2>1, <2>3 DEF RepliesInv
<1>3. ASSUME NEW u \in Ids, Flush(u)
      PROVE  RepliesInv'
  <2>1. /\ poll.pc = "reply" /\ u = poll.next /\ poll'.pc # "reply"
        /\ replies' = replies \/ replies' = replies \union {[update |-> u, said |-> poll.said]}
    BY <1>3, HandledUpdate, AcknowledgedPoller DEF Flush
  <2>2. \A what : what = poll.said => IsTrue(u, what)'
    BY <2>1, TruthIsKept DEF RepliesInv
  <2>3. \A r \in replies' : r \in replies \/ (r.update = u /\ r.said = poll.said)
    BY <2>1
  <2> QED
    BY <1>1, <2>1, <2>2, <2>3 DEF RepliesInv
<1>4. ASSUME NEW u \in Ids, View(u)
      PROVE  RepliesInv'
  <2>1. poll'.pc # "reply" /\ replies' = replies \union {[update |-> u, said |-> "view"]}
    BY <1>4, HandledUpdate, AcknowledgedPoller DEF View, Handling
  <2>2. IsTrue(u, "view")'
    BY DEF IsTrue
  <2> QED
    BY <1>1, <2>1, <2>2 DEF RepliesInv
<1>5. ASSUME NEW u \in Ids, Remind(u)
      PROVE  RepliesInv'
  <2>1. u = poll.next /\ poll.pc = "handle" /\ replies' = replies /\ poll \in Pollers
    BY <1>5, HandledUpdate DEF Remind, Handling
  <2>2. \/ poll'.said \in {"skipped", "reminded"}
        \/ poll'.pc # "reply"
    <3>1. \/ poll' = [poll EXCEPT !.pc = "reply", !.said = "skipped"]
          \/ poll' = [poll EXCEPT !.pc = "reply", !.said = "reminded"]
          \/ \E retryable \in BOOLEAN : Fails(u, retryable)
      BY <1>5 DEF Remind
    <3>2. CASE \E retryable \in BOOLEAN : Fails(u, retryable)
      BY <2>1, <3>2, FailedPoller
    <3> QED
      BY <2>1, <3>1, <3>2 DEF Pollers
  <2>3. \A x : IsTrue(x, "skipped")' /\ IsTrue(x, "reminded")'
    BY DEF IsTrue
  <2> QED
    BY <1>1, <2>1, <2>2, <2>3 DEF RepliesInv
<1>6. ASSUME NEW u \in Ids, SkipDuplicate(u) \/ ProcessFails(u)
      PROVE  RepliesInv'
  <2>1. u = poll.next /\ poll.pc = "handle" /\ replies' = replies /\ poll \in Pollers
    BY <1>6, HandledUpdate DEF SkipDuplicate, ProcessFails, Handling, AfterRollback
  <2>2. CASE SkipDuplicate(u)
    <3>1. poll'.pc # "reply"
      BY <2>1, <2>2, HandledUpdate, AcknowledgedPoller DEF SkipDuplicate
    <3> QED
      BY <1>1, <2>1, <3>1 DEF RepliesInv
  <2>3. CASE ProcessFails(u)
    <3>1. poll'.pc # "reply"
      BY <2>1, <2>3, FailedPoller DEF ProcessFails
    <3> QED
      BY <1>1, <2>1, <3>1 DEF RepliesInv
  <2> QED
    BY <1>6, <2>2, <2>3
<1>7. CASE GetUpdates
  BY <1>1, <1>7 DEF GetUpdates, RepliesInv, TypeInv, UpdatesTypeOK
<1>8. CASE Crash
  BY <1>1, <1>8, NewPollers DEF Crash, RepliesInv
<1>9. CASE UNCHANGED <<poll, replies>>
  <2>1. \A v, what : poll.pc = "reply" /\ v = poll.next /\ what = poll.said => IsTrue(v, what)'
    BY HandledUpdate, TruthIsKept DEF RepliesInv
  <2> QED
    BY <1>1, <1>9, <2>1 DEF RepliesInv
<1> QED
  BY <1>2, <1>3, <1>4, <1>5, <1>6, <1>7, <1>8, <1>9
     DEF Next, Poller, GetUpdatesFails, Arrive, CatchUp, Expire, RetryReminder, vars

LEMMA RepliesInvInit == Init => RepliesInv
BY DEF Init, RepliesInv, NewPoller

(***************************************************************************)
(* effects.go: no payment is reported that is not in the ledger, and no    *)
(* link that was not made, whatever is rolled back or redelivered.         *)
(***************************************************************************)
THEOREM RepliesAreAlwaysTrue == Spec => []RepliesAreTrue
<1>1. TypeInv /\ ClaimsInv /\ TokensInv /\ RepliesInv /\ [Next]_vars => RepliesInv'
  BY RepliesInvStep
<1>2. RepliesInv => RepliesAreTrue
  BY DEF RepliesInv, RepliesAreTrue, IsTrue
<1> QED
  BY TokensHold, RepliesInvInit, <1>1, <1>2, PTL DEF Spec

-----------------------------------------------------------------------------
(* Order. *)

LEMMA SettledStays ==
  ASSUME [Next]_vars, NEW u, Settled(u)
  PROVE  Settled(u)'
<1>1. script' = script /\ done \subseteq done'
  BY TableSteps DEF Process
<1>2. dropped \subseteq dropped'
  BY DEF Next, Poller, GetUpdates, GetUpdatesFails, Process, SkipDuplicate, ProcessFails, Fails,
         Flush, View, Remind, Arrive, CatchUp, Crash, Expire, RetryReminder, vars
<1> QED
  BY <1>1, <1>2 DEF Settled, Transactional

(* A handled update is acknowledged: it must be settled. *)
LEMMA AcknowledgedInOrder ==
  ASSUME TypeInv, OrderInv, [Next]_vars, poll.pc # "poll", poll' = Acknowledged(poll.next),
         UNCHANGED <<confirmed, done, crashes>>, dropped' \subseteq dropped \union {poll.next},
         \A u : u = poll.next => Settled(u)'
  PROVE  OrderInv'
<1> DEFINE n == poll.next
<1>1. /\ n \in Nat /\ poll'.offset = n + 1 /\ poll'.pc # "reply"
      /\ poll'.pc # "poll" => poll'.next = n + 1
      /\ poll.offset \in Nat /\ poll.offset <= n
      /\ Ids \subseteq Nat /\ dropped \subseteq Ids /\ done \subseteq Ids
  <2>1. Ids \subseteq Nat /\ dropped \subseteq Ids /\ done \subseteq Ids
    BY UpdateNumbersAssumption DEF TypeInv, UpdatesTypeOK, Ids
  <2>2. n \in Nat /\ poll.offset \in Nat /\ poll.offset <= n
    <3>1. n \in Nat /\ poll \in Pollers
      BY <2>1, HandledUpdate
    <3> QED
      BY <3>1, UpdateNumbersAssumption DEF TypeInv, BatchInv, Pollers
  <2>3. /\ poll'.offset = n + 1 /\ poll'.pc # "reply"
        /\ poll'.pc # "poll" => poll'.next = n + 1
    BY HandledUpdate, AcknowledgedPoller
  <2> QED
    BY <2>1, <2>2, <2>3
<1>2. \A u \in Ids : u < n + 1 => u < n \/ u = n
  BY <1>1
<1>3. \A u \in Ids : u < n + 1 => Settled(u)'
  BY <1>2, SettledStays DEF OrderInv
<1>4. \A u \in Ids : u < confirmed => Settled(u)'
  BY SettledStays DEF OrderInv
<1>5. \A v \in done : \A u \in Ids : u < v => Settled(u)'
  BY SettledStays DEF OrderInv
<1>6. crashes = 0 => \A u \in dropped' : u < n + 1
  BY <1>1 DEF OrderInv
<1> QED
  BY <1>1, <1>3, <1>4, <1>5, <1>6 DEF OrderInv

(* The reply of a settled update comes next. *)
LEMMA ReplyInOrder ==
  ASSUME TypeInv, OrderInv, [Next]_vars, poll.pc = "handle",
         poll'.pc = "reply", poll'.next = poll.next, poll'.offset = poll.offset,
         UNCHANGED <<confirmed, dropped, crashes>>, done' \subseteq done \union {poll.next},
         \A u : u = poll.next => Settled(u)'
  PROVE  OrderInv'
<1>1. \A u : Settled(u) => Settled(u)'
  BY SettledStays
<1>2. \A v \in done' : \A u \in Ids : u < v => Settled(u)'
  BY <1>1 DEF OrderInv
<1>3. \A u \in Ids : u < confirmed \/ u < poll.offset \/ u < poll.next => Settled(u)'
  BY <1>1 DEF OrderInv
<1>4. \A u : u = poll'.next => Settled(u)'
  OBVIOUS
<1> QED
  BY <1>2, <1>3, <1>4 DEF OrderInv

(* The poller asks again, from the offset it had or, restarted, from none. *)
LEMMA PollingInOrder ==
  ASSUME TypeInv, OrderInv, [Next]_vars, poll'.pc = "poll",
         \/ poll'.offset = poll.offset /\ crashes' = crashes
         \/ poll'.offset = 0 /\ crashes' # 0,
         confirmed' \in {confirmed, Later(confirmed, poll.offset)},
         UNCHANGED <<done, dropped>>
  PROVE  OrderInv'
<1>1. \A u : Settled(u) => Settled(u)'
  BY SettledStays
<1>2. /\ confirmed' = confirmed \/ confirmed' = poll.offset
      /\ poll'.offset = poll.offset \/ \A u \in Ids : ~(u < poll'.offset)
  BY UpdateNumbersAssumption DEF Later, Ids
<1>3. \A u \in Ids : u < confirmed' \/ u < poll'.offset => Settled(u)'
  BY <1>1, <1>2 DEF OrderInv
<1>4. crashes' = 0 => \A u \in dropped' : u < poll'.offset
  BY DEF OrderInv
<1>5. \A v \in done' : \A u \in Ids : u < v => Settled(u)'
  BY <1>1 DEF OrderInv
<1> QED
  BY <1>3, <1>4, <1>5 DEF OrderInv

LEMMA OrderInvStep ==
  ASSUME TypeInv, OrderInv, [Next]_vars
  PROVE  OrderInv'
<1>0. poll \in Pollers /\ processed \subseteq done
  BY DEF TypeInv, UpdatesTypeOK, Pollers
<1>1. CASE GetUpdates
  <2>1. CASE poll' = poll
    BY <1>1, <2>1, PollingInOrder DEF GetUpdates, store
  <2>2. CASE poll' # poll
    <3> DEFINE first == Later(Later(confirmed, poll.offset), 1)
    <3>1. /\ poll.pc = "poll" /\ confirmed' = Later(confirmed, poll.offset)
          /\ poll'.pc = "handle" /\ poll'.next = first /\ poll'.offset = poll.offset
          /\ UNCHANGED <<done, dropped, crashes>>
      BY <1>0, <1>1, <2>2 DEF GetUpdates, store, Pollers
    <3>2. \A u : Settled(u) => Settled(u)'
      BY SettledStays
    <3>3. \A u \in Ids : u < confirmed' \/ u < first => u < confirmed \/ u < poll.offset
      BY <3>1, UpdateNumbersAssumption DEF Later, Ids, TypeInv, UpdatesTypeOK
    <3>4. \A u \in Ids : u < confirmed' \/ u < first \/ u < poll.offset => Settled(u)'
      BY <3>2, <3>3 DEF OrderInv
    <3>5. \A v \in done' : \A u \in Ids : u < v => Settled(u)'
      BY <3>1, <3>2 DEF OrderInv
    <3> HIDE DEF first
    <3> QED
      BY <3>1, <3>4, <3>5 DEF OrderInv
  <2> QED
    BY <2>1, <2>2
<1>2. CASE GetUpdatesFails
  BY <1>2, PollingInOrder DEF GetUpdatesFails, store
<1>3. ASSUME NEW u \in Ids, Process(u)
      PROVE  OrderInv'
  <2>1. /\ u = poll.next /\ poll.pc = "handle"
        /\ UNCHANGED <<confirmed, dropped, crashes>> /\ done' = done \union {u}
        /\ poll'.pc = "reply" /\ poll'.next = poll.next /\ poll'.offset = poll.offset
    BY <1>0, <1>3 DEF Process, Handling, Pollers
  <2>2. Settled(u)'
    BY <2>1 DEF Settled
  <2>3. \A v : v = poll.next => Settled(v)'
    BY <2>1, <2>2
  <2> QED
    BY <2>1, <2>3, ReplyInOrder
<1>4. ASSUME NEW u \in Ids, SkipDuplicate(u) \/ Flush(u) \/ View(u)
      PROVE  OrderInv'
  <2>1. /\ u = poll.next /\ poll.pc # "poll" /\ poll' = Acknowledged(u)
        /\ UNCHANGED <<confirmed, done, dropped, crashes>>
    BY <1>4 DEF SkipDuplicate, Flush, View, Handling, store
  <2>2. Settled(u)
    BY <1>0, <1>4, <2>1 DEF SkipDuplicate, Flush, View, Settled, Transactional, Is, OrderInv
  <2>3. \A v : v = poll.next => Settled(v)'
    BY <2>1, <2>2, SettledStays
  <2> QED
    BY <2>1, <2>3, AcknowledgedInOrder
<1>5. ASSUME NEW u \in Ids, NEW retryable \in BOOLEAN, Fails(u, retryable),
             u = poll.next, poll.pc = "handle", UNCHANGED <<confirmed, done, crashes>>
      PROVE  OrderInv'
  <2>1. CASE poll' = Acknowledged(u) /\ dropped' = dropped \union {u}
    <3>1. \A v : v = poll.next => Settled(v)'
      BY <1>5, <2>1 DEF Settled
    <3> QED
      BY <1>5, <2>1, <3>1, AcknowledgedInOrder
  <2>2. CASE poll' = Postponed(u) /\ dropped' = dropped
    BY <1>0, <1>5, <2>2, NewPollers, PollingInOrder
  <2> QED
    BY <1>5, <2>1, <2>2, FailureOutcomes DEF TypeInv, UpdatesTypeOK
<1>6. ASSUME NEW u \in Ids, ProcessFails(u)
      PROVE  OrderInv'
  BY <1>5, <1>6 DEF ProcessFails, Handling, store
<1>7. ASSUME NEW u \in Ids, Remind(u)
      PROVE  OrderInv'
  <2>1. /\ u = poll.next /\ poll.pc = "handle" /\ Is(u, "remind")
        /\ UNCHANGED <<script, confirmed, done, crashes>>
        /\ \/ poll' = [poll EXCEPT !.pc = "reply", !.said = "skipped"] /\ dropped' = dropped
           \/ poll' = [poll EXCEPT !.pc = "reply", !.said = "reminded"] /\ dropped' = dropped
           \/ \E retryable \in BOOLEAN : Fails(u, retryable)
    BY <1>7 DEF Remind, Handling, store
  <2>2. CASE \E retryable \in BOOLEAN : Fails(u, retryable)
    BY <1>5, <2>1, <2>2
  <2>3. CASE poll'.pc = "reply" /\ poll'.next = u /\ poll'.offset = poll.offset /\ dropped' = dropped
    <3>1. \A v : v = poll.next => Settled(v)'
      BY <2>1 DEF Settled, Transactional, Is
    <3> QED
      BY <2>1, <2>3, <3>1, ReplyInOrder
  <2> QED
    BY <1>0, <2>1, <2>2, <2>3 DEF Pollers
<1>8. CASE Crash
  <2>1. crashes' # 0
    BY <1>8, UpdateNumbersAssumption DEF Crash, TypeInv, UpdatesTypeOK
  <2> QED
    BY <1>8, <2>1, NewPollers, PollingInOrder DEF Crash, store
<1>9. CASE UNCHANGED <<confirmed, poll, done, dropped, crashes>>
  <2>1. \A u : Settled(u) => Settled(u)'
    BY SettledStays
  <2>2. \A u : poll.pc = "reply" /\ u = poll.next => Settled(u)'
    BY <2>1 DEF OrderInv
  <2> QED
    BY <1>9, <2>1, <2>2 DEF OrderInv
<1> QED
  BY <1>1, <1>2, <1>3, <1>4, <1>6, <1>7, <1>8, <1>9
     DEF Next, Poller, Arrive, CatchUp, Expire, RetryReminder, vars, store

LEMMA OrderInvInit == Init => OrderInv
BY UpdateNumbersAssumption DEF Init, OrderInv, NewPoller, Ids

(***************************************************************************)
(* client.go: a command runs after a later one only if the bot dropped it  *)
(* and got it again after a crash.                                         *)
(***************************************************************************)
THEOREM CommandsRunInOrder == Spec => LateOnlyIfDropped
<1> DEFINE Order == \A u \in done' \ done :
                      (\E v \in done : v > u) => u \in dropped /\ crashes > 0
<1>1. ASSUME TypeInv, OrderInv, [Next]_vars, NEW u \in done' \ done, NEW v \in done, v > u
      PROVE  u \in dropped /\ crashes > 0
  <2>1. Process(u) /\ u \in Ids
    BY <1>1, TableSteps DEF Process
  <2>2. u = poll.next /\ poll.pc = "handle" /\ Transactional(u)
    BY <2>1 DEF Process, Handling
  <2>3. v \in Nat /\ u \in Nat /\ poll.offset \in Nat /\ poll.offset <= u /\ crashes \in Nat
    BY <1>1, <2>1, <2>2, UpdateNumbersAssumption DEF TypeInv, UpdatesTypeOK, BatchInv, Ids
  <2>4. u \in dropped
    BY <1>1, <2>1, <2>2, <2>3 DEF OrderInv, Settled
  <2>5. crashes # 0
    BY <1>1, <2>3, <2>4 DEF OrderInv
  <2> QED
    BY <2>3, <2>4, <2>5
<1>2. TypeInv /\ OrderInv /\ [Next]_vars => [Order]_vars
  BY <1>1
<1>3. TypeInv /\ OrderInv /\ [Next]_vars => TypeInv' /\ OrderInv'
  BY TypeInvStep, OrderInvStep
<1> QED
  BY TypeInvInit, OrderInvInit, <1>2, <1>3, PTL DEF Spec, LateOnlyIfDropped

=============================================================================
