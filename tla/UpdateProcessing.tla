-------------------------- MODULE UpdateProcessing --------------------------
(***************************************************************************)
(* Telegram updates: long polling with an offset kept in memory, the       *)
(* transaction that claims an update and runs its command, the replies     *)
(* queued until it commits, retries and drops, crashes, and redelivery of  *)
(* what was not acknowledged.  The commands modelled are the ones that     *)
(* depend on each other or on earlier updates: the administrator's payment *)
(* wizard, invites and their use, manual reminders, and one that only      *)
(* reads.                                                                  *)
(*                                                                         *)
(* A transaction is one step: it holds the only connection of the pool and *)
(* its errors roll it back.  An invite token is named by the update that   *)
(* creates it, a payment draft by the update that begins it.  Delays       *)
(* between polls are left out.                                             *)
(***************************************************************************)
EXTENDS Integers, Sequences, FiniteSets

CONSTANTS
  Commands,       \* commands, as records
  Scripts,        \* sequences of commands that may be sent to the bot
  Users,          \* profiles that can be invited
  Accounts,       \* Telegram accounts
  MaxUpdates,     \* bound: the longest script
  MaxAttempts,    \* maxUpdateAttempts
  Limit,          \* most updates in an answer to getUpdates
  Retention,      \* processedTelegramUpdateRetention
  MaxPeriod,      \* bound: how often billing moves the next charge date
  MaxCrashes,     \* bound: crashes of the process
  Null            \* SQL NULL

Ids == 1 .. MaxUpdates

(* DeliverManual: the delivery key holds the update, the billing date is  *)
(* the next charge date.                                                  *)
ReminderKeys == [update : Ids, period : 0 .. MaxPeriod]

Messages == [update : Ids, period : 0 .. MaxPeriod, life : 0 .. MaxCrashes]

ASSUME CommandsAssumption ==
  /\ Commands \subseteq
       [kind : {"payment", "confirm", "cancel", "remind", "view"}]
       \union [kind : {"invite"}, user : Users]
       \union [kind : {"start"}, token : Ids, account : Accounts]
  /\ Scripts \subseteq Seq(Commands)
  /\ \A script \in Scripts : Len(script) \in Ids

ASSUME UpdateNumbersAssumption ==
  /\ MaxUpdates \in Nat
  /\ MaxAttempts \in Nat \ {0}
  /\ Limit \in Nat \ {0}
  /\ Retention \in Nat \ {0}
  /\ MaxPeriod \in Nat
  /\ MaxCrashes \in Nat

(* client.go asks for 25 updates, transaction.go keeps 10000 claims. *)
ASSUME RetentionAssumption == Retention >= Limit

ASSUME UpdateNullAssumption == Null \notin Accounts /\ Null \notin Nat /\ Null \notin STRING

VARIABLES
  script,     \* what was and will be sent to the bot
  arrived,    \* updates of the script that Telegram has received
  confirmed,  \* Telegram has forgotten the updates before this one
  poll,       \* the poller: position in the batch, offset
  attempts,   \* updateAttempts
  processed,  \* table processed_telegram_updates
  draft,      \* table payment_drafts, for the one administrator
  ledger,     \* the payments of table ledger_entries
  tokens,     \* table invite_tokens
  linked,     \* the Telegram columns of table users
  period,     \* which next charge date the reminded customer has
  deliveries, \* table reminder_deliveries, the rows of manual reminders by key
  inbox,      \* the manual reminders in the customer's chat, in their order
  crashes,    \* crashes so far
  done,       \* history: updates whose command was committed
  replies,    \* history: replies sent
  dropped     \* history: updates dropped after an error

store == <<processed, done, draft, ledger, tokens, linked>>
manual == <<deliveries, inbox>>
vars == <<script, arrived, confirmed, poll, attempts, store, period, manual,
          crashes, replies, dropped>>

NewPoller == [pc |-> "poll", offset |-> 0, next |-> 0, last |-> 0, said |-> Null]

Said == {"confirm?", "recorded", "refused", "missing", "cancelled", "token", "linked",
         "bound", "invalid", "expired", "used", "taken", "reminded", "skipped", "view"}

TokenStates == {"none", "unused", "expired", "used"}

UpdatesTypeOK ==
  /\ script \in Scripts
  /\ arrived \in 0 .. Len(script)
  /\ confirmed \in 0 .. MaxUpdates + 1
  /\ poll \in [pc : {"poll", "handle", "reply"}, offset : 0 .. MaxUpdates + 1,
               next : 0 .. MaxUpdates, last : 0 .. MaxUpdates, said : Said \union {Null}]
  /\ attempts \in [Ids -> 0 .. MaxAttempts - 1]
  /\ processed \subseteq done
  /\ done \subseteq Ids
  /\ draft \in Ids \union {Null}
  /\ ledger \in Seq([draft : Ids, by : Ids])
  /\ tokens \in [Ids -> TokenStates]
  /\ linked \in [Users -> Accounts \union {Null}]
  /\ period \in 0 .. MaxPeriod
  /\ deliveries \in [ReminderKeys -> {"none", "refused", "closed"}]
  /\ inbox \in Seq(Messages)
  /\ crashes \in 0 .. MaxCrashes
  /\ replies \subseteq [update : Ids, said : Said]
  /\ dropped \subseteq Ids

Init ==
  /\ script \in Scripts
  /\ arrived = 0
  /\ confirmed = 0
  /\ poll = NewPoller
  /\ attempts = [u \in Ids |-> 0]
  /\ processed = {}
  /\ done = {}
  /\ draft = Null
  /\ ledger = << >>
  /\ tokens = [t \in Ids |-> "none"]
  /\ linked = [u \in Users |-> Null]
  /\ period = 0
  /\ deliveries = [key \in ReminderKeys |-> "none"]
  /\ inbox = << >>
  /\ crashes = 0
  /\ replies = {}
  /\ dropped = {}

-----------------------------------------------------------------------------
(* Polling: productionClient.Start. *)

Later(a, b) == IF a < b THEN b ELSE a

(***************************************************************************)
(* getUpdates confirms what is before the offset and returns the oldest    *)
(* updates that are not confirmed.                                         *)
(***************************************************************************)
GetUpdates ==
  LET first == Later(Later(confirmed, poll.offset), 1)
      last == IF arrived < first + Limit - 1 THEN arrived ELSE first + Limit - 1
  IN /\ poll.pc = "poll"
     /\ confirmed' = Later(confirmed, poll.offset)
     /\ poll' = IF last < first THEN poll
                ELSE [poll EXCEPT !.pc = "handle", !.next = first, !.last = last]
     /\ UNCHANGED <<script, arrived, attempts, store, period, manual, crashes, replies, dropped>>

(* The answer is lost on the way back: the offset may have been confirmed. *)
GetUpdatesFails ==
  /\ poll.pc = "poll"
  /\ confirmed' = Later(confirmed, poll.offset)
  /\ UNCHANGED <<script, arrived, poll, attempts, store, period, manual, crashes, replies, dropped>>

(* Fault: the offset moves only when a later batch is asked for. *)
AcknowledgedInPlace(u) ==
  IF u = poll.last THEN [NewPoller EXCEPT !.offset = poll.offset]
  ELSE [poll EXCEPT !.pc = "handle", !.next = u + 1, !.said = Null]

(* The update is done with: the offset moves past it. *)
Acknowledged(u) ==
  [poll EXCEPT !.pc = IF u = poll.last THEN "poll" ELSE "handle",
               !.offset = u + 1,
               !.next = IF u = poll.last THEN 0 ELSE u + 1,
               !.last = IF u = poll.last THEN 0 ELSE @,
               !.said = Null]

(* Fault: the rest of the batch is handled before the update that failed. *)
PostponedPastOthers(u) ==
  IF u = poll.last THEN [NewPoller EXCEPT !.offset = poll.offset]
  ELSE [poll EXCEPT !.next = u + 1]

(* The batch is given up and the update asked for again. *)
Postponed(u) == [NewPoller EXCEPT !.offset = poll.offset]

(* Fault: one failure more than allowed. *)
GivesUpLate(u, retryable) == ~retryable \/ attempts[u] >= MaxAttempts

(* acknowledgeFailedUpdate *)
GivesUp(u, retryable) == ~retryable \/ attempts[u] + 1 >= MaxAttempts

Fails(u, retryable) ==
  IF GivesUp(u, retryable)
  THEN /\ attempts' = [attempts EXCEPT ![u] = 0]
       /\ dropped' = dropped \union {u}
       /\ poll' = Acknowledged(u)
  ELSE /\ attempts' = [attempts EXCEPT ![u] = @ + 1]
       /\ poll' = Postponed(u)
       /\ UNCHANGED dropped

-----------------------------------------------------------------------------
(* Commands.  Each states its effect on the tables and its reply. *)

Is(u, kind) == script[u].kind = kind

(* Admin.BeginPayment replaces the draft. *)
BeginPayment(u, said) ==
  /\ Is(u, "payment")
  /\ draft' = u
  /\ said = "confirm?"
  /\ UNCHANGED <<ledger, tokens, linked>>

(* Fault: the draft stays after its confirmation. *)
AfterConfirmKept == draft

AfterConfirm == Null

(* Wizard.ConfirmPayment; a payment the ledger refuses stays a draft. *)
ConfirmPayment(u, said) ==
  /\ Is(u, "confirm")
  /\ \/ /\ draft # Null
        /\ ledger' = Append(ledger, [draft |-> draft, by |-> u])
        /\ draft' = AfterConfirm
        /\ said = "recorded"
     \/ /\ draft # Null
        /\ said = "refused"
        /\ UNCHANGED <<ledger, draft>>
     \/ /\ draft = Null
        /\ said = "missing"
        /\ UNCHANGED <<ledger, draft>>
  /\ UNCHANGED <<tokens, linked>>

CancelWizard(u, said) ==
  /\ Is(u, "cancel")
  /\ draft' = Null
  /\ said = "cancelled"
  /\ UNCHANGED <<ledger, tokens, linked>>

(* Fault: earlier tokens stay valid. *)
ReplacedNone(t, user) == FALSE

(* The tokens deleted by a new invite: unused ones, expired or not. *)
Replaced(t, user) ==
  tokens[t] \in {"unused", "expired"} /\ script[t].user = user

CreateInviteToken(u, said) ==
  /\ Is(u, "invite")
  /\ LET user == script[u].user
     IN \/ /\ linked[user] # Null
           /\ said = "linked"
           /\ UNCHANGED tokens
        \/ /\ linked[user] = Null
           /\ tokens' = [t \in Ids |-> IF t = u THEN "unused"
                                       ELSE IF Replaced(t, user) THEN "none" ELSE tokens[t]]
           /\ said = "token"
  /\ UNCHANGED <<draft, ledger, linked>>

(***************************************************************************)
(* ConsumeInviteToken and HandleStart.  When the account is linked to      *)
(* another profile already, the claim of the token is made, the binding    *)
(* fails, and as HandleStart answers the error itself, the surrounding     *)
(* transaction commits the claim.  An error it has no answer to, as that   *)
(* of a token whose profile is linked, is one of ProcessFails.             *)
(***************************************************************************)
ConsumeInviteToken(u, said) ==
  /\ Is(u, "start")
  /\ LET t == script[u].token
         account == script[u].account
         user == script[t].user
         taken == \E other \in Users : linked[other] = account
     IN \/ /\ tokens[t] # "unused"
           /\ said = IF tokens[t] = "none" THEN "invalid" ELSE tokens[t]
           /\ UNCHANGED <<tokens, linked>>
        \/ /\ tokens[t] = "unused" /\ linked[user] = Null
           /\ tokens' = [tokens EXCEPT ![t] = "used"]
           /\ linked' = IF taken THEN linked ELSE [linked EXCEPT ![user] = account]
           /\ said = IF taken THEN "taken" ELSE "bound"
  /\ UNCHANGED <<draft, ledger>>

Command(u, said) ==
  \/ BeginPayment(u, said) \/ ConfirmPayment(u, said) \/ CancelWizard(u, said)
  \/ CreateInviteToken(u, said) \/ ConsumeInviteToken(u, said)

-----------------------------------------------------------------------------
(* processUpdate *)

Transactional(u) == script[u].kind \in {"payment", "confirm", "cancel", "invite", "start"}

Handling(u) == poll.pc = "handle" /\ u = poll.next

(* Fault: the claims of newer updates are pruned, the oldest ones kept. *)
PrunedNewest(claims) == {u \in claims : Cardinality({v \in claims : v < u}) < Retention}

(* Only the newest claims are kept. *)
Pruned(claims) == {u \in claims : Cardinality({v \in claims : v > u}) < Retention}

(* The update is claimed, its command run, and both are committed. *)
Process(u) ==
  /\ Handling(u)
  /\ Transactional(u)
  /\ u \notin processed
  /\ \E said \in Said :
       /\ Command(u, said)
       /\ poll' = [poll EXCEPT !.pc = "reply", !.said = said]
  /\ processed' = Pruned(processed \union {u})
  /\ done' = done \union {u}
  /\ attempts' = [attempts EXCEPT ![u] = 0]
  /\ UNCHANGED <<script, arrived, confirmed, period, manual, crashes, replies, dropped>>

(* A duplicate is acknowledged without running its command. *)
SkipDuplicate(u) ==
  /\ Handling(u)
  /\ Transactional(u)
  /\ u \in processed
  /\ poll' = Acknowledged(u)
  /\ attempts' = [attempts EXCEPT ![u] = 0]
  /\ UNCHANGED <<script, arrived, confirmed, store, period, manual, crashes, replies, dropped>>

(* Fault: replies are sent while the command runs. *)
SentAtOnce(u) ==
  replies \union {[update |-> u, said |-> said] : said \in IF Is(u, "confirm") THEN {"recorded"} ELSE {}}

(* What a command queued is discarded when it is rolled back. *)
AfterRollback(u) == replies

(* A command fails, is rolled back, and is retried or dropped. *)
ProcessFails(u) ==
  /\ Handling(u)
  /\ \E retryable \in BOOLEAN : Fails(u, retryable)
  /\ replies' = AfterRollback(u)
  /\ UNCHANGED <<script, arrived, confirmed, store, period, manual, crashes>>

(* The replies queued by the command; their errors are only reported. *)
Flush(u) ==
  /\ poll.pc = "reply"
  /\ u = poll.next
  /\ \/ replies' = replies \union {[update |-> u, said |-> poll.said]}
     \/ UNCHANGED replies
  /\ poll' = Acknowledged(u)
  /\ UNCHANGED <<script, arrived, confirmed, attempts, store, period, manual, crashes, dropped>>

(* A command that only reads: its reply is sent at once. *)
View(u) ==
  /\ Handling(u)
  /\ Is(u, "view")
  /\ replies' = replies \union {[update |-> u, said |-> "view"]}
  /\ poll' = Acknowledged(u)
  /\ attempts' = [attempts EXCEPT ![u] = 0]
  /\ UNCHANGED <<script, arrived, confirmed, store, period, manual, crashes, dropped>>

(* Fault: an attempt without an answer counts as a refusal. *)
UnansweredIsRefused == "refused"

(* The row of an attempt whose message may have reached the chat. *)
Unanswered == "closed"

(* A message that Telegram confirmed. *)
Sent(key) ==
  /\ deliveries' = [deliveries EXCEPT ![key] = "closed"]
  /\ inbox' = Append(inbox, [update |-> key.update, period |-> key.period, life |-> crashes])

(***************************************************************************)
(* An attempt that ends in an error: before the row is reserved, refused   *)
(* with or without a retry, or without an answer, and then the message may *)
(* have reached the chat all the same.                                     *)
(***************************************************************************)
NotSent(key) ==
  \/ UNCHANGED manual
  \/ /\ \E row \in {"refused", "closed"} : deliveries' = [deliveries EXCEPT ![key] = row]
     /\ UNCHANGED inbox
  \/ /\ deliveries' = [deliveries EXCEPT ![key] = Unanswered]
     /\ \/ UNCHANGED inbox
        \/ inbox' = Append(inbox, [update |-> key.update, period |-> key.period, life |-> crashes])

(***************************************************************************)
(* RemindNow, outside any transaction.  Its delivery key holds the update  *)
(* and the next charge date the customer has now.  ReminderDelivery models *)
(* the delivery statement by statement, and the administrator who reopens  *)
(* an unanswered attempt; here an attempt is one step.  An error of the    *)
(* delivery is the update's, an error of the reply is not.                 *)
(***************************************************************************)
Remind(u) ==
  LET key == [update |-> u, period |-> period]
  IN /\ Handling(u)
     /\ Is(u, "remind")
     /\ \/ /\ deliveries[key] = "closed"
           /\ poll' = [poll EXCEPT !.pc = "reply", !.said = "skipped"]
           /\ attempts' = [attempts EXCEPT ![u] = 0]
           /\ UNCHANGED <<manual, dropped>>
        \/ /\ deliveries[key] # "closed"
           /\ Sent(key)
           /\ poll' = [poll EXCEPT !.pc = "reply", !.said = "reminded"]
           /\ attempts' = [attempts EXCEPT ![u] = 0]
           /\ UNCHANGED dropped
        \/ /\ deliveries[key] # "closed"
           /\ NotSent(key)
           /\ \E retryable \in BOOLEAN : Fails(u, retryable)
     /\ UNCHANGED <<script, arrived, confirmed, store, period, crashes, replies>>

Poller ==
  \/ GetUpdates \/ GetUpdatesFails
  \/ \E u \in Ids : Process(u) \/ SkipDuplicate(u) \/ ProcessFails(u) \/ Flush(u)
                    \/ View(u) \/ Remind(u)

-----------------------------------------------------------------------------
(* The surroundings. *)

(* Somebody sends the next command of the script. *)
Arrive ==
  /\ arrived < Len(script)
  /\ arrived' = arrived + 1
  /\ UNCHANGED <<script, confirmed, poll, attempts, store, period, manual, crashes, replies, dropped>>

(* A token reaches its expiry time. *)
Expire(t) ==
  /\ tokens[t] = "unused"
  /\ tokens' = [tokens EXCEPT ![t] = "expired"]
  /\ UNCHANGED <<script, arrived, confirmed, poll, attempts, processed, done, draft, ledger,
                 linked, period, manual, crashes, replies, dropped>>

(* CatchUp charges the reminded customer and moves the next charge date. *)
CatchUp ==
  /\ period < MaxPeriod
  /\ period' = period + 1
  /\ UNCHANGED <<script, arrived, confirmed, poll, attempts, store, manual, crashes, replies, dropped>>

(* The scheduler's pass sends a refused manual reminder again. *)
RetryReminder(key) ==
  /\ deliveries[key] = "refused"
  /\ Sent(key) \/ NotSent(key)
  /\ UNCHANGED <<script, arrived, confirmed, poll, attempts, store, period, crashes, replies, dropped>>

(* A crash or shutdown, and the restart: offset and attempts are gone. *)
Crash ==
  /\ crashes < MaxCrashes
  /\ crashes' = crashes + 1
  /\ poll' = NewPoller
  /\ attempts' = [u \in Ids |-> 0]
  /\ UNCHANGED <<script, arrived, confirmed, store, period, manual, replies, dropped>>

Next ==
  \/ Poller
  \/ Arrive \/ CatchUp \/ Crash
  \/ \E t \in Ids : Expire(t)
  \/ \E key \in ReminderKeys : RetryReminder(key)

Spec == Init /\ [][Next]_vars

(* The poller keeps polling, and not every answer of Telegram is lost. *)
Fairness ==
  /\ WF_vars(\E u \in Ids : Process(u) \/ SkipDuplicate(u) \/ ProcessFails(u) \/ View(u) \/ Remind(u))
  /\ WF_vars(\E u \in Ids : Flush(u))
  /\ SF_vars(GetUpdates)

FairSpec == Spec /\ Fairness

-----------------------------------------------------------------------------
(* Properties. *)

(***************************************************************************)
(* docs/architecture.md:106: a payment that was begun is recorded at most  *)
(* once, and one confirmation records at most one payment, though updates  *)
(* are redelivered after a crash, after failures and after their claims    *)
(* are pruned.                                                             *)
(***************************************************************************)
PaymentsRecordedOnce ==
  \A i, j \in 1 .. Len(ledger) :
    ledger[i].draft = ledger[j].draft \/ ledger[i].by = ledger[j].by => i = j

(***************************************************************************)
(* What the bot says happened did happen: a reply queued by a command is   *)
(* sent only after the commit, and no later redelivery takes it back.      *)
(***************************************************************************)
RepliesAreTrue ==
  \A r \in replies :
    /\ r.said = "recorded" => \E i \in 1 .. Len(ledger) : ledger[i].by = r.update
    /\ r.said = "bound" => /\ tokens[script[r.update].token] = "used"
                           /\ linked[script[script[r.update].token].user] = script[r.update].account

(***************************************************************************)
(* docs/architecture.md:106: a command is committed once, however often    *)
(* its update is delivered.  Claims are pruned, but never while Telegram   *)
(* may deliver their updates again, if Retention is at least Limit.        *)
(***************************************************************************)
CommandsRunOnce == [][\A u \in Ids : Process(u) => u \notin done]_vars

(***************************************************************************)
(* Commands take effect in the order they were sent, also across crashes   *)
(* and retries: an update is run after a later one only if the bot had     *)
(* dropped it and, after a crash, got it again.                            *)
(***************************************************************************)
LateOnlyIfDropped ==
  [][\A u \in done' \ done :
       (\E v \in done : v > u) => u \in dropped /\ crashes > 0]_vars

(***************************************************************************)
(* A profile has at most one token that can still link it, and none once   *)
(* it is linked; an account is linked to at most one profile.              *)
(***************************************************************************)
OneWayIn ==
  /\ \A t, other \in Ids :
       /\ tokens[t] \in {"unused", "expired"} /\ tokens[other] \in {"unused", "expired"}
       /\ script[t].user = script[other].user
       => t = other
  /\ \A t \in Ids : tokens[t] \in {"unused", "expired"} => linked[script[t].user] = Null
  /\ \A u, v \in Users : linked[u] = linked[v] /\ linked[u] # Null => u = v

(***************************************************************************)
(* One /admin remind sends at most one message for a charge date, though   *)
(* the update is handled again after refusals, lost answers, failed        *)
(* replies and crashes, and the scheduler retries the same row: only a     *)
(* charge that has moved the date makes another key, and another message.  *)
(***************************************************************************)
RemindedOncePerDate ==
  \A i, j \in 1 .. Len(inbox) :
    inbox[i].update = inbox[j].update /\ inbox[i].period = inbox[j].period => i = j

(* No update blocks the ones after it: each is handled or dropped. *)
UpdatesAreSettled == \A u \in Ids : arrived >= u ~> confirmed > u

(***************************************************************************)
(* storage/sqlite/invites_test.go:70: a binding that conflicts rolls the   *)
(* claim of its token back.  A used token has linked its profile.          *)
(***************************************************************************)
UsedTokenHasLinked ==
  \A t \in Ids : tokens[t] = "used" => linked[script[t].user] # Null

(***************************************************************************)
(* docs/operations.md:132: "Automatic and manual reminders do not          *)
(* duplicate after restart."  The messages of one /admin remind come from  *)
(* one life of the process.                                                *)
(***************************************************************************)
NoReminderAgainAfterRestart ==
  \A i, j \in 1 .. Len(inbox) : inbox[i].update = inbox[j].update => inbox[i].life = inbox[j].life
=============================================================================
