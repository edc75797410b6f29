-------------------------- MODULE ReminderDelivery --------------------------
(***************************************************************************)
(* Reminder delivery: the rows of reminder_deliveries, the scheduler's     *)
(* Process pass with its pool of workers, the update poller that sends     *)
(* manual reminders and reconciles ambiguous ones, the wall clock, and     *)
(* crashes and restarts of the single process.                             *)
(*                                                                         *)
(* Every SQL statement is one step, and so is the exchange with Telegram.  *)
(* Only Reserve joins two, the INSERT of the reservation and the SELECT    *)
(* that reads it back: of what is read only the attempt number matters,    *)
(* both run under one database timeout, and until the lease ends nobody    *)
(* else can reserve the row.  A failed read-back is a case of its own.     *)
(* Between the steps of one delivery anything else may happen: the clock   *)
(* moves, leases expire, the other actors work on the same row, the        *)
(* process dies.                                                           *)
(*                                                                         *)
(* A key stands for (user, billing date, reminder type, delivery key).     *)
(* Message texts, scheduled dates and telegram message ids are left out.   *)
(* A customer without a bound chat makes deliver return at once and change *)
(* nothing, so only customers with a chat are modelled.                    *)
(***************************************************************************)
EXTENDS Integers, FiniteSets

CONSTANTS
  Users,        \* ids of the customers with a bound Telegram chat
  Keys,         \* delivery keys
  Owner,        \* the customer of a key
  Manual,       \* the keys made by /admin remind
  Workers,      \* goroutines of the scheduler's delivery pool
  Poller,       \* the goroutine that handles Telegram updates
  MaxAttempts,  \* maxDeliveryAttempts
  Lease,        \* deliveryLease, in minutes
  AttemptTime,  \* longest time from reading the clock to recording the result
  PageSize,     \* candidatePageSize
  MaxCrashes,   \* bound: crashes of the process
  MaxClock,     \* bound: after this minute the clock only serves running timers
  Null          \* SQL NULL

ASSUME KeysAssumption ==
  /\ Users \subseteq Nat \ {0}
  /\ Manual \subseteq Keys
  /\ Owner \in [Keys -> Users]

ASSUME SendersAssumption ==
  /\ Poller \notin Workers

ASSUME NumbersAssumption ==
  /\ MaxAttempts \in Nat \ {0}
  /\ Lease \in Nat \ {0}
  /\ AttemptTime \in Nat
  /\ PageSize \in Nat \ {0}
  /\ MaxCrashes \in Nat
  /\ MaxClock \in Nat

ASSUME NullAssumption ==
  /\ Null \notin Int
  /\ Null \notin STRING

VARIABLES
  rows,     \* table reminder_deliveries, by key
  status,   \* column users.status
  sender,   \* what each goroutine that delivers is doing
  phase,    \* where Process is
  jobs,     \* keys listed by Process that no worker has taken
  more,     \* the last page listed was not the last one
  afterID,  \* the last customer of the last candidate page
  now,      \* wall clock, in minutes
  up,       \* the process runs
  crashes,  \* crashes so far
  got       \* history: the attempts of a key whose message reached the chat

vars == <<rows, status, sender, phase, jobs, more, afterID, now, up, crashes, got>>

Senders == Workers \union {Poller}
Attempts == 1 .. MaxAttempts
Automatic == Keys \ Manual

(* The error codes a row can hold, and the results of an exchange. *)
Codes == {"failed", "retryable", "unknown", "unreachable"}
Results == Codes \union {"sent"}

NoRow == [status |-> "none", error |-> Null, attempt |-> 0, lease |-> Null, next |-> Null]

Row == {NoRow} \union
       [status : {"pending", "sent", "failed"},
        error : Codes \union {Null},
        attempt : Attempts,
        lease : Nat \union {Null},
        next : Nat \union {Null}]

Idle == [pc |-> "idle", key |-> Null, at |-> 0, attempt |-> 0, result |-> Null]

Sender ==
  {Idle}
  \union [pc : {"reserve"}, key : Keys, at : Nat, attempt : {0}, result : {Null}]
  \union [pc : {"send"}, key : Keys, at : Nat, attempt : Attempts, result : {Null}]
  \union [pc : {"record"}, key : Keys, at : Nat, attempt : Attempts, result : Results]

Phases == {"idle", "listRetries", "retrying", "listCandidates", "delivering"}

TypeOK ==
  /\ rows \in [Keys -> Row]
  /\ status \in [Users -> {"active", "paused", "disabled"}]
  /\ sender \in [Senders -> Sender]
  /\ phase \in Phases
  /\ jobs \subseteq Keys
  /\ more \in BOOLEAN
  /\ afterID \in Nat
  /\ now \in Nat
  /\ up \in BOOLEAN
  /\ crashes \in Nat
  /\ got \in [Keys -> SUBSET Attempts]

Init ==
  /\ rows = [k \in Keys |-> NoRow]
  /\ status = [u \in Users |-> "active"]
  /\ sender = [s \in Senders |-> Idle]
  /\ phase = "idle"
  /\ jobs = {}
  /\ more = FALSE
  /\ afterID = 0
  /\ now = 0
  /\ up = TRUE
  /\ crashes = 0
  /\ got = [k \in Keys |-> {}]

-----------------------------------------------------------------------------
(* The statements of storage/sqlite/reminders.go as functions of a row. *)

Retryable(row) ==
  row.status = "failed" /\ row.error = "retryable" /\ row.attempt < MaxAttempts

Due(row, t) == Retryable(row) /\ row.next # Null /\ row.next <= t

(* reserveReminderDelivery inserts a first attempt or reclaims a due one. *)
CanReserve(row, at) == row.status = "none" \/ Due(row, at)

Reserved(row, at) ==
  [status |-> "pending", error |-> Null, attempt |-> row.attempt + 1,
   lease |-> at + Lease, next |-> Null]

(* Fault: a late answer is written into a row that was settled meanwhile. *)
OwnsAttempt(row, attempt) == row.status # "none" /\ row.attempt = attempt

(* updateReminderDelivery writes a result only into the attempt it is for. *)
OwnsRow(row, attempt) == row.status = "pending" /\ row.attempt = attempt

(* The delay of deliveryRetryBackoff, in minutes: doubled, at most fifteen. *)
Backoff(attempt) ==
  CASE attempt <= 1 -> 1
    [] attempt = 2 -> 2
    [] attempt = 3 -> 4
    [] attempt = 4 -> 8
    [] OTHER -> 15

(* Fault: the time of the next attempt is never computed. *)
NextAttemptNever(attempt, result, t) == Null

NextAttempt(attempt, result, t) ==
  IF result = "retryable" /\ attempt < MaxAttempts THEN t + Backoff(attempt) ELSE Null

(* Fault: the error column is written for a delivered message too. *)
RecordedWithError(row, result, t) ==
  [row EXCEPT !.status = IF result = "sent" THEN "sent" ELSE "failed",
              !.error = result,
              !.next = NextAttempt(row.attempt, result, t),
              !.lease = Null]

(* Fault: a lost answer is recorded as a delivery. *)
RecordedUnknownAsSent(row, result, t) ==
  [row EXCEPT !.status = IF result \in {"sent", "unknown"} THEN "sent" ELSE "failed",
              !.error = IF result \in {"sent", "unknown"} THEN Null ELSE result,
              !.next = NextAttempt(row.attempt, result, t),
              !.lease = Null]

Recorded(row, result, t) ==
  [row EXCEPT !.status = IF result = "sent" THEN "sent" ELSE "failed",
              !.error = IF result = "sent" THEN Null ELSE result,
              !.next = NextAttempt(row.attempt, result, t),
              !.lease = Null]

(* Faults: the lease is ignored, or compared the wrong way round. *)
LeaseIgnored(row, t) == row.status = "pending"
LeaseBackwards(row, t) == row.status = "pending" /\ row.lease # Null /\ row.lease > t

(* markPendingUnknown and markAllPendingUnknown. *)
LeaseExpired(row, t) == row.status = "pending" /\ row.lease # Null /\ row.lease <= t
Interrupted(row) == row.status = "pending"

Ambiguous(row) ==
  [row EXCEPT !.status = "failed", !.error = "unknown", !.next = Null, !.lease = Null]

(* markUnknownRetryable. *)
CanReopen(row) ==
  row.status = "failed" /\ row.error = "unknown" /\ row.attempt < MaxAttempts

Reopened(row, t) == [row EXCEPT !.error = "retryable", !.next = t]

(* Fault: a timeout counts as a failure to connect. *)
AnswersTimeoutAsRetryable(arrived) == IF arrived THEN Codes \union {"sent"} ELSE Codes

(***************************************************************************)
(* ClassifyReminderError.  A retryable result is a 429 or a failure to     *)
(* connect and an unreachable one a 403: nothing was delivered.  A timeout *)
(* or another network error, and any error the classifier does not know,   *)
(* leave it open.                                                          *)
(***************************************************************************)
Answers(arrived) ==
  IF arrived THEN {"sent", "unknown", "failed"} ELSE Codes

-----------------------------------------------------------------------------
(* One delivery: deliver, by a worker of the pool or by the poller. *)

Begin(s, k) ==
  sender' = [sender EXCEPT ![s] = [Idle EXCEPT !.pc = "reserve", !.key = k, !.at = now]]

(***************************************************************************)
(* The reservation.  The statement may find the row closed; it may commit  *)
(* and the read-back of the attempt number fail, which leaves a pending    *)
(* row that nobody is working on.                                          *)
(***************************************************************************)
Reserve(s) ==
  LET k == sender[s].key
      at == sender[s].at
  IN /\ sender[s].pc = "reserve"
     /\ \/ /\ CanReserve(rows[k], at)
           /\ rows' = [rows EXCEPT ![k] = Reserved(@, at)]
           /\ \/ sender' = [sender EXCEPT ![s].pc = "send",
                                          ![s].attempt = rows[k].attempt + 1]
              \/ sender' = [sender EXCEPT ![s] = Idle]
        \/ /\ ~CanReserve(rows[k], at)
           /\ sender' = [sender EXCEPT ![s] = Idle]
           /\ UNCHANGED rows
     /\ UNCHANGED <<status, phase, jobs, more, afterID, now, up, crashes, got>>

(* The reservation statement fails: deliver returns the error. *)
ReserveFails(s) ==
  /\ sender[s].pc = "reserve"
  /\ sender' = [sender EXCEPT ![s] = Idle]
  /\ UNCHANGED <<rows, status, phase, jobs, more, afterID, now, up, crashes, got>>

(* SendReminder: the message arrives or not, and an answer comes back. *)
Send(s) ==
  LET k == sender[s].key
  IN /\ sender[s].pc = "send"
     /\ \E arrived \in BOOLEAN, answer \in Results :
          /\ answer \in Answers(arrived)
          /\ sender' = [sender EXCEPT ![s].pc = "record", ![s].result = answer]
          /\ got' = IF arrived
                    THEN [got EXCEPT ![k] = @ \union {sender[s].attempt}]
                    ELSE got
     /\ UNCHANGED <<rows, status, phase, jobs, more, afterID, now, up, crashes>>

(* The result is written, unless the attempt no longer owns the row. *)
Record(s) ==
  LET k == sender[s].key
  IN /\ sender[s].pc = "record"
     /\ rows' = IF OwnsRow(rows[k], sender[s].attempt)
                THEN [rows EXCEPT ![k] = Recorded(@, sender[s].result, now)]
                ELSE rows
     /\ sender' = [sender EXCEPT ![s] = Idle]
     /\ UNCHANGED <<status, phase, jobs, more, afterID, now, up, crashes, got>>

(* The update statement fails: the row stays pending until its lease ends. *)
RecordFails(s) ==
  /\ sender[s].pc = "record"
  /\ sender' = [sender EXCEPT ![s] = Idle]
  /\ UNCHANGED <<rows, status, phase, jobs, more, afterID, now, up, crashes, got>>

Deliver(s) ==
  Reserve(s) \/ ReserveFails(s) \/ Send(s) \/ Record(s) \/ RecordFails(s)

-----------------------------------------------------------------------------
(* The scheduler's pass: Process. *)

(* Expired leases first. *)
StartProcess ==
  /\ up
  /\ phase = "idle"
  /\ rows' = [k \in Keys |-> IF LeaseExpired(rows[k], now) THEN Ambiguous(rows[k]) ELSE rows[k]]
  /\ phase' = "listRetries"
  /\ afterID' = 0
  /\ UNCHANGED <<status, sender, jobs, more, now, up, crashes, got>>

(* Fault: the query forgets the delay and the limit of attempts. *)
RetryAllRefused ==
  {k \in Keys : rows[k].status = "failed" /\ rows[k].error = "retryable"}

(* Fault: automatic reminders are retried whatever the owner's status. *)
RetryOfAnybody == {k \in Keys : Due(rows[k], now)}

(* RetryableReminderDeliveries: the filter, the order and the limit. *)
RetryCandidates ==
  {k \in Keys : Due(rows[k], now) /\ (k \in Manual \/ status[Owner[k]] = "active")}

PageLength(listed) ==
  IF Cardinality(listed) < PageSize THEN Cardinality(listed) ELSE PageSize

FirstPage(page) ==
  /\ Cardinality(page) = PageLength(RetryCandidates)
  /\ \A k \in page, other \in RetryCandidates \ page : rows[k].next <= rows[other].next

ListRetries ==
  /\ phase = "listRetries"
  /\ \E page \in SUBSET RetryCandidates :
       /\ FirstPage(page)
       /\ jobs' = page
       /\ more' = (Cardinality(page) = PageSize)
       /\ phase' = IF page = {} THEN "listCandidates" ELSE "retrying"
  /\ UNCHANGED <<rows, status, sender, afterID, now, up, crashes, got>>

(* The query fails: the error is kept and Process goes on. *)
ListRetriesFails ==
  /\ phase = "listRetries"
  /\ phase' = "listCandidates"
  /\ UNCHANGED <<rows, status, sender, jobs, more, afterID, now, up, crashes, got>>

PoolDone == jobs = {} /\ \A w \in Workers : sender[w].pc = "idle"

RetriesDone ==
  /\ phase = "retrying"
  /\ PoolDone
  /\ phase' = IF more THEN "listRetries" ELSE "listCandidates"
  /\ UNCHANGED <<rows, status, sender, jobs, more, afterID, now, up, crashes, got>>

(***************************************************************************)
(* A page of active customers by id, and SelectAutomatic for each.  Which  *)
(* reminder applies today depends on dates and balances; here it is any    *)
(* one automatic key of each customer of the page, or none.                *)
(***************************************************************************)
Candidates == {u \in Users : status[u] = "active" /\ u > afterID}

CandidatePage(page) ==
  /\ Cardinality(page) = PageLength(Candidates)
  /\ \A u \in page, v \in Candidates \ page : u < v

LastID(page, id) ==
  IF page = {} THEN id = afterID ELSE id \in page /\ \A u \in page : u <= id

ListCandidates ==
  /\ phase = "listCandidates"
  /\ \E page \in SUBSET Candidates :
       /\ CandidatePage(page)
       /\ more' = (page # Candidates)
       /\ \E id \in page \union {afterID} : LastID(page, id) /\ afterID' = id
       /\ \E selected \in SUBSET {k \in Automatic : Owner[k] \in page} :
            /\ \A k, other \in selected : Owner[k] = Owner[other] => k = other
            /\ jobs' = selected
  /\ phase' = "delivering"
  /\ UNCHANGED <<rows, status, sender, now, up, crashes, got>>

ListCandidatesFails ==
  /\ phase = "listCandidates"
  /\ phase' = "idle"
  /\ UNCHANGED <<rows, status, sender, jobs, more, afterID, now, up, crashes, got>>

CandidatesDone ==
  /\ phase = "delivering"
  /\ PoolDone
  /\ phase' = IF more THEN "listCandidates" ELSE "idle"
  /\ UNCHANGED <<rows, status, sender, jobs, more, afterID, now, up, crashes, got>>

(* A worker takes a listed job. *)
Take(w) ==
  /\ phase \in {"retrying", "delivering"}
  /\ sender[w].pc = "idle"
  /\ \E k \in jobs : Begin(w, k) /\ jobs' = jobs \ {k}
  /\ UNCHANGED <<rows, status, phase, more, afterID, now, up, crashes, got>>

Process ==
  \/ StartProcess \/ ListRetries \/ ListRetriesFails \/ RetriesDone
  \/ ListCandidates \/ ListCandidatesFails \/ CandidatesDone
  \/ \E w \in Workers : Take(w)

-----------------------------------------------------------------------------
(* The administrator, through the poller, one update at a time. *)

PollerFree == up /\ sender[Poller].pc = "idle"

(* RemindNow, also for an update that is delivered or retried again. *)
Remind(k) ==
  /\ PollerFree
  /\ Begin(Poller, k)
  /\ UNCHANGED <<rows, status, phase, jobs, more, afterID, now, up, crashes, got>>

(* ReconcileReminder, by an operator who looked and found no message. *)
Reconcile(k) ==
  /\ PollerFree
  /\ got[k] = {}
  /\ CanReopen(rows[k])
  /\ rows' = [rows EXCEPT ![k] = Reopened(@, now)]
  /\ UNCHANGED <<status, sender, phase, jobs, more, afterID, now, up, crashes, got>>

SetStatus(u, from, to) ==
  /\ PollerFree
  /\ status[u] \in from
  /\ status' = [status EXCEPT ![u] = to]
  /\ UNCHANGED <<rows, sender, phase, jobs, more, afterID, now, up, crashes, got>>

Pause(u) == SetStatus(u, {"active"}, "paused")
Resume(u) == SetStatus(u, {"paused"}, "active")
Disable(u) == SetStatus(u, {"active", "paused"}, "disabled")

Admin ==
  \/ \E k \in Manual : Remind(k)
  \/ \E k \in Keys : Reconcile(k)
  \/ \E u \in Users : Pause(u) \/ Resume(u) \/ Disable(u)

-----------------------------------------------------------------------------
(* Crash or shutdown of the process, and the recovery before any worker. *)

Crash ==
  /\ up
  /\ crashes < MaxCrashes
  /\ crashes' = crashes + 1
  /\ up' = FALSE
  /\ sender' = [s \in Senders |-> Idle]
  /\ phase' = "idle"
  /\ jobs' = {}
  /\ more' = FALSE
  /\ afterID' = 0
  /\ UNCHANGED <<rows, status, now, got>>

Restart ==
  /\ ~up
  /\ up' = TRUE
  /\ rows' = [k \in Keys |-> IF Interrupted(rows[k]) THEN Ambiguous(rows[k]) ELSE rows[k]]
  /\ UNCHANGED <<status, sender, phase, jobs, more, afterID, now, crashes, got>>

(***************************************************************************)
(* A minute passes.  An attempt is never older than AttemptTime: each of   *)
(* its statements and its exchange end at their timeouts.  After MaxClock  *)
(* the clock moves only while a lease or a retry delay is running.         *)
(***************************************************************************)
RowAwaitsClock ==
  \E k \in Keys :
    \/ rows[k].lease # Null /\ now < rows[k].lease
    \/ rows[k].next # Null /\ now < rows[k].next

Tick ==
  /\ now < MaxClock \/ RowAwaitsClock
  /\ \A s \in Senders : sender[s].pc # "idle" => now < sender[s].at + AttemptTime
  /\ now' = now + 1
  /\ UNCHANGED <<rows, status, sender, phase, jobs, more, afterID, up, crashes, got>>

Next ==
  \/ \E s \in Senders : Deliver(s)
  \/ Process
  \/ Admin
  \/ Crash \/ Restart
  \/ Tick

Spec == Init /\ [][Next]_vars

(***************************************************************************)
(* Fairness.  Goroutines run, timers fire and the service is restarted: a  *)
(* step that stays possible is taken.  Storage does not fail forever: a    *)
(* statement that is tried again and again succeeds in the end.            *)
(***************************************************************************)
Fairness ==
  /\ \A s \in Senders : WF_vars(Deliver(s)) /\ SF_vars(Reserve(s))
  /\ \A w \in Workers : WF_vars(Take(w))
  /\ WF_vars(StartProcess) /\ WF_vars(RetriesDone) /\ WF_vars(CandidatesDone)
  /\ WF_vars(ListRetries \/ ListRetriesFails) /\ SF_vars(ListRetries)
  /\ WF_vars(ListCandidates \/ ListCandidatesFails)
  /\ WF_vars(Restart)
  /\ WF_vars(Tick)

FairSpec == Spec /\ Fairness

-----------------------------------------------------------------------------
(* Properties that hold whatever the timeouts are. *)

(***************************************************************************)
(* A row says "sent" only if the message of its current attempt did reach  *)
(* the chat, also when a goroutine outlives its lease and records its      *)
(* answer after a pass or a restart has marked the row ambiguous.          *)
(***************************************************************************)
SentIsTrue ==
  \A k \in Keys : rows[k].status = "sent" => rows[k].attempt \in got[k]

(* Sent, or failed without a further attempt to come. *)
Settled(row) == row.status = "sent" \/ (row.status = "failed" /\ ~Retryable(row))

(***************************************************************************)
(* Neither recovery, nor a retry, nor the answer of an attempt that has    *)
(* outlived its lease changes a settled row: what the operator was told of *)
(* an ambiguous reminder stands until he reconciles it.                    *)
(***************************************************************************)
SettledIsFinal ==
  [][\A k \in Keys : Settled(rows[k]) => rows'[k] = rows[k] \/ Reconcile(k)]_vars

(* Listed by Process or taken, and not reserved yet. *)
InHand(k) ==
  k \in jobs \/ \E s \in Senders : sender[s].pc = "reserve" /\ sender[s].key = k

Excluded(u) ==
  status[u] = "disabled" /\ \A k \in Automatic : Owner[k] = u => ~InHand(k)

(***************************************************************************)
(* A disabled customer is excluded from automatic reminders for good, and  *)
(* later passes do not pick his refused ones up again.  Only a reminder    *)
(* that the pass of that moment has listed already is still attempted, and *)
(* between two passes there is none.                                       *)
(***************************************************************************)
ExcludedForGood ==
  [][\A u \in Users :
       status[u] = "disabled" /\ (phase = "idle" \/ Excluded(u)) =>
         /\ Excluded(u)'
         /\ \A k \in Automatic : Owner[k] = u => rows'[k].attempt = rows[k].attempt]_vars

Busy(s) == sender[s].pc \in {"send", "record"}

(* No two goroutines ever hold the same attempt of the same key. *)
OneSenderPerAttempt ==
  \A s, other \in Senders :
    /\ Busy(s) /\ Busy(other)
    /\ sender[s].key = sender[other].key
    /\ sender[s].attempt = sender[other].attempt
    => s = other

(***************************************************************************)
(* Why SentIsTrue holds: the attempts in flight are distinct and no newer  *)
(* than the row's, and an answer "sent" is only carried for a message that *)
(* arrived.                                                                *)
(***************************************************************************)
FenceInv ==
  /\ OneSenderPerAttempt
  /\ \A s \in Senders : Busy(s) => sender[s].attempt <= rows[sender[s].key].attempt
  /\ \A s \in Senders : sender[s].pc = "record" /\ sender[s].result = "sent"
                          => sender[s].attempt \in got[sender[s].key]
  /\ SentIsTrue

-----------------------------------------------------------------------------
(* Properties that need every attempt to end before its lease does. *)

Timely == AttemptTime < Lease

(***************************************************************************)
(* While a goroutine talks to Telegram or is about to record the answer,   *)
(* its row is still pending under its own attempt number: no recovery pass *)
(* declares a live attempt ambiguous.                                      *)
(***************************************************************************)
LiveAttemptOwnsRow ==
  \A s \in Senders : Busy(s) => OwnsRow(rows[sender[s].key], sender[s].attempt)

(***************************************************************************)
(* A customer gets the message of a delivery key at most once, across      *)
(* retries, crashes, lost answers, repeated updates and reconciliations by *)
(* an operator who checked the chat.                                       *)
(***************************************************************************)
AtMostOneMessage ==
  \A k \in Keys : \A a, b \in got[k] : a = b

(* A row open for another attempt belongs to a chat without the message. *)
OpenRowIsUnsent ==
  \A k \in Keys : rows[k].status = "failed" /\ rows[k].error = "retryable" => got[k] = {}

(* What a goroutine is about to do or record agrees with the chat. *)
SenderKnowsChat ==
  \A s \in Senders :
    /\ sender[s].pc = "send" => got[sender[s].key] = {}
    /\ sender[s].pc = "record" /\ sender[s].result \in {"retryable", "unreachable"}
         => got[sender[s].key] = {}

(* Goroutines work only while the process is up, and not for long. *)
YoungAttempts ==
  /\ ~up => phase = "idle"
  /\ \A s \in Senders : sender[s].pc # "idle" => /\ up
                                                 /\ sender[s].at <= now
                                                 /\ now <= sender[s].at + AttemptTime

(***************************************************************************)
(* Why AtMostOneMessage holds: live attempts are young, hence inside their *)
(* lease, hence own their rows; and only rows without a message are open.  *)
(***************************************************************************)
TimelyInv ==
  /\ FenceInv
  /\ LiveAttemptOwnsRow
  /\ \A s \in Senders : Busy(s) => rows[sender[s].key].lease = sender[s].at + Lease
  /\ YoungAttempts
  /\ \A k \in Keys : rows[k].status = "none" => got[k] = {}
  /\ SenderKnowsChat
  /\ OpenRowIsUnsent
  /\ AtMostOneMessage

(* The contract's view of a row. *)
Stage(row) ==
  CASE row.status = "none" -> "new"
    [] row.status = "pending" -> "sending"
    [] row.status = "sent" -> "sent"
    [] row.status = "failed" /\ row.error = "unknown" -> "ambiguous"
    [] Retryable(row) -> "refused"
    [] OTHER -> "closed"

Contract == INSTANCE ReminderContract
              WITH Messages <- Attempts,
                   stage <- [k \in Keys |-> Stage(rows[k])],
                   inbox <- got

(***************************************************************************)
(* Reminder delivery keeps its contract: messages arrive only during an    *)
(* attempt and once, an ambiguous key is reopened by an operator only, and *)
(* sent and closed keys stay so.                                           *)
(***************************************************************************)
KeepsContract == Contract!Spec

-----------------------------------------------------------------------------
(* Liveness, under FairSpec. *)

(* Every reservation is settled, by its worker or by a recovery pass. *)
PendingIsSettled ==
  \A k \in Keys : rows[k].status = "pending" ~> rows[k].status # "pending"

(***************************************************************************)
(* A manual reminder that was refused with attempts left does not stay in  *)
(* the queue: it is attempted again, whatever its owner's status.          *)
(***************************************************************************)
RefusedIsRetried ==
  \A k \in Manual : \A n \in Attempts :
    Retryable(rows[k]) /\ rows[k].attempt = n
      ~> ~(Retryable(rows[k]) /\ rows[k].attempt = n)

(* Every pass of the scheduler ends, so the next day's can start. *)
ProcessEnds == phase # "idle" ~> phase = "idle"

-----------------------------------------------------------------------------
(* What the comment on DisableUser promises. *)

(***************************************************************************)
(* storage/sqlite/users.go:279: a disabled profile is permanently excluded *)
(* from automatic reminders.  No attempt of an automatic reminder is       *)
(* reserved for a customer who is disabled.                                *)
(***************************************************************************)
DisabledGetsNoReminder ==
  [][\A k \in Automatic :
       status[Owner[k]] = "disabled" => rows'[k].attempt = rows[k].attempt]_vars
=============================================================================
