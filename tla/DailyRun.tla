------------------------------ MODULE DailyRun ------------------------------
(***************************************************************************)
(* The daily run: the scheduler's loop (Start, runCurrentDate, RunOnce),   *)
(* the charges of CatchUp and the reminders of Process, which it selects   *)
(* by date and balance and attempts again after a refusal.                 *)
(*                                                                         *)
(* Billing and ReminderDelivery model a pass of either service at the      *)
(* grain of one statement.  Here a charge and an attempt are one step      *)
(* each, and the subject is time: the hour, midnight, the delays of the    *)
(* scheduler and of the rows, missed days, and restarts.  The charges of a *)
(* batch come in any order, and the outcomes of a charge are those of the  *)
(* code: made, passed over because the period was charged before, or an    *)
(* error that ends the pass, once and for all or for every pass to come.   *)
(*                                                                         *)
(* Dates are numbered, and a billing period has the same number of days    *)
(* every month.  A balance counts monthly fees, rounded down: the code     *)
(* only asks whether it is below the fee, below zero, or too low for one   *)
(* fee more, and a charge lowers it by one.  RunOnce's mutex is left out,  *)
(* for in the program Start is its only caller; so are the pages of        *)
(* Process, which lists its retries once more only after a full page of a  *)
(* hundred.                                                                *)
(***************************************************************************)
EXTENDS Integers, FiniteSets

CONSTANTS
  Users,           \* ids of the customers with a bound chat
  Minutes,         \* minutes of a day
  Hour,            \* REMINDER_HOUR, as a minute of the day
  MaxRunAttempts,  \* maxRunAttemptsPerDate
  MaxAttempts,     \* maxDeliveryAttempts
  Period,          \* days from one charge to the next
  FirstCharge,     \* first charge date of every customer
  MaxDebt,         \* the most fees an int64 holds below zero
  BatchSize,       \* chargeBatchSize
  Workers,         \* goroutines of the delivery pool
  Notice,          \* days before a charge of the first reminder, 3 in the code
  Overdue,         \* days after a charge of the third reminder, 3 in the code
  LongOverdue,     \* days after a charge of the last reminder, 7 in the code
  ResumeDates,     \* bound: the dates the administrator resumes with
  MaxDay,          \* bound: the last day of failures, refusals and commands
  MaxChanges,      \* bound: the administrator's changes but for resumptions
  MaxCrashes,      \* bound: crashes of the process
  Null             \* SQL NULL

ASSUME ClockAssumption ==
  /\ Minutes \in Nat \ {0}
  /\ Hour \in Nat
  /\ Hour + 1 < Minutes

ASSUME LimitsAssumption ==
  /\ MaxRunAttempts \in Nat \ {0}
  /\ MaxAttempts \in Nat \ {0}
  /\ MaxDay \in Nat
  /\ MaxChanges \in Nat
  /\ MaxCrashes \in Nat

ASSUME CustomersAssumption ==
  /\ Users \subseteq Nat
  /\ MaxDebt \in Nat
  /\ BatchSize \in Nat \ {0}
  /\ Workers \in Nat
  /\ ResumeDates \subseteq Nat

(* A date has as many runs as a delivery has attempts, three in the code. *)
ASSUME RetriesAssumption == MaxAttempts <= MaxRunAttempts

ASSUME DaysAssumption ==
  /\ Period \in Nat \ {0}
  /\ FirstCharge \in Nat
  /\ Notice \in Nat \ {0}
  /\ Overdue \in Nat \ {0}
  /\ LongOverdue \in Nat \ {0}
  /\ Overdue < LongOverdue

ASSUME DailyNullAssumption == Null \notin Int

VARIABLES
  day,      \* the local date
  minute,   \* the minute of the day
  sched,    \* where the scheduler is
  jobs,     \* keys listed by Process and not attempted yet
  status,   \* column users.status
  next,     \* column users.next_charge_on
  balance,  \* monthly fees in the ledger, rounded down
  charges,  \* periods with a charge that is not reversed
  billed,   \* periods with a charge, reversed or not
  rows,     \* table reminder_deliveries: automatic keys that were attempted
  changes,  \* the administrator's changes so far, resumptions left out
  crashes,  \* crashes so far
  passed,   \* history: today's hour found a loop of an earlier date at work
  calm,     \* history: no failure, command or midnight since the loop began
  fresh     \* history: keys first attempted by the first run of a calm loop

customers == <<status, next, balance, charges, billed>>
history == <<passed, calm, fresh>>
vars == <<day, minute, sched, jobs, customers, rows, changes, crashes, history>>

Types == {"before_charge", "charge_debt", "overdue_3d", "overdue_7d"}
Keys == Users \X Nat \X Types
Owner(k) == k[1]

Phases == {"down", "run", "billing", "retrying", "selecting", "wait", "sleep"}

Down == [pc |-> "down", runDate |-> 0, attempt |-> 1, date |-> 0, left |-> 0,
         timer |-> 0, retry |-> FALSE, stale |-> FALSE]

Scheduler == [pc : Phases, runDate : Nat, attempt : 1 .. MaxRunAttempts, date : Nat,
              left : Nat, timer : Nat, retry : BOOLEAN, stale : BOOLEAN]

(* A sent, failed or ambiguous row is settled: nothing reads its attempts. *)
Settled == [status |-> "settled", attempt |-> 0, left |-> 0]

Row == {Settled} \union [status : {"refused"}, attempt : 1 .. MaxAttempts, left : Nat]

DailyTypeOK ==
  /\ day \in Nat
  /\ minute \in 0 .. Minutes - 1
  /\ sched \in Scheduler
  /\ jobs \subseteq Keys
  /\ status \in [Users -> {"active", "paused"}]
  /\ next \in [Users -> Nat]
  /\ balance \in [Users -> Int]
  /\ charges \in [Users -> SUBSET Nat]
  /\ billed \in [Users -> SUBSET Nat]
  /\ DOMAIN rows \subseteq Keys
  /\ rows \in [DOMAIN rows -> Row]
  /\ changes \in Nat
  /\ crashes \in Nat
  /\ passed \in BOOLEAN
  /\ calm \in BOOLEAN
  /\ fresh \subseteq Keys

Init ==
  /\ day = 0
  /\ minute \in 0 .. Minutes - 1
  /\ sched = Down
  /\ jobs = {}
  /\ status \in [Users -> {"active", "paused"}]
  /\ next = [u \in Users |-> FirstCharge]
  /\ balance = [u \in Users |-> 0]
  /\ charges = [u \in Users |-> {}]
  /\ billed = [u \in Users |-> {}]
  /\ rows = [k \in {} |-> Null]
  /\ changes = 0
  /\ crashes = 0
  /\ passed = FALSE
  /\ calm = TRUE
  /\ fresh = {}

-----------------------------------------------------------------------------
(* Time. *)

(* Fault: the first delay is used for every attempt. *)
BackoffConstant(attempt) == 1

(* schedulerRetryBackoff: doubled from a minute on, at most fifteen. *)
RunBackoff(attempt) ==
  CASE attempt <= 1 -> 1
    [] attempt = 2 -> 2
    [] attempt = 3 -> 4
    [] attempt = 4 -> 8
    [] OTHER -> 15

(* deliveryRetryBackoff is the same function of a delivery's attempts. *)
DeliveryBackoff(attempt) ==
  CASE attempt <= 1 -> 1
    [] attempt = 2 -> 2
    [] attempt = 3 -> 4
    [] attempt = 4 -> 8
    [] OTHER -> 15

(* Fault: the next run is always tomorrow's. *)
NextRunTomorrow == day + 1

(* nextRun: today's hour if it is still to come, else tomorrow's. *)
NextRun == IF minute < Hour THEN day ELSE day + 1

TimerDue == day > sched.timer \/ (day = sched.timer /\ minute >= Hour)

-----------------------------------------------------------------------------
(* Scheduler. *)

(* Start, after a boot or the timer: runCurrentDate reads the date. *)
BeginLoop ==
  /\ sched' = [Down EXCEPT !.pc = "run", !.runDate = day]
  /\ calm' = TRUE
  /\ fresh' = {}
  /\ UNCHANGED <<day, minute, jobs, customers, rows, changes, crashes, passed>>

Asleep == [Down EXCEPT !.pc = "sleep", !.date = sched.date, !.timer = NextRun]

(* runCurrentDate after a run: return, or wait and try again. *)
AfterRun(again) ==
  IF sched.date # sched.runDate \/ ~again \/ sched.attempt = MaxRunAttempts
  THEN Asleep
  ELSE [sched EXCEPT !.pc = "wait", !.left = RunBackoff(sched.attempt)]

Boot == sched.pc = "down" /\ BeginLoop

TimerFires == sched.pc = "sleep" /\ TimerDue /\ BeginLoop

(* RunOnce reads the date again. *)
RunOnce ==
  /\ sched.pc = "run"
  /\ sched' = [sched EXCEPT !.pc = "billing", !.date = day, !.retry = FALSE, !.stale = FALSE]
  /\ UNCHANGED <<day, minute, jobs, customers, rows, changes, crashes, history>>

(* The end of the wait: the date may have changed. *)
WaitEnds ==
  /\ sched.pc = "wait"
  /\ sched.left = 0
  /\ sched' = IF day # sched.runDate
              THEN Asleep
              ELSE [sched EXCEPT !.pc = "run", !.attempt = @ + 1]
  /\ UNCHANGED <<day, minute, jobs, customers, rows, changes, crashes, history>>

(* Something the loop's outcome may depend on: its history is given up. *)
Disturbed == calm' = FALSE /\ fresh' = {} /\ UNCHANGED passed

-----------------------------------------------------------------------------
(* CatchUp, with one transaction per charge. *)

IsDue(u, date) == status[u] = "active" /\ next[u] <= date

(* UsersDueForCharge lists by date and id. *)
InFront(v, u) == next[v] < next[u] \/ (next[v] = next[u] /\ v < u)

InFirstBatch(u, date) ==
  /\ IsDue(u, date)
  /\ Cardinality({v \in Users : IsDue(v, date) /\ InFront(v, u)}) < BatchSize

(* A batch listed before a customer was paused or resumed may be another.  *)
Listed(u) == InFirstBatch(u, sched.date) \/ (sched.stale /\ IsDue(u, sched.date))

(* ensureBalanceRange *)
Fits(u) == -MaxDebt < balance[u]

Charge(u) ==
  /\ sched.pc = "billing"
  /\ Listed(u)
  /\ Fits(u)
  /\ next[u] \notin billed[u]
  /\ charges' = [charges EXCEPT ![u] = @ \union {next[u]}]
  /\ billed' = [billed EXCEPT ![u] = @ \union {next[u]}]
  /\ balance' = [balance EXCEPT ![u] = @ - 1]
  /\ next' = [next EXCEPT ![u] = @ + Period]
  /\ UNCHANGED <<day, minute, sched, jobs, status, rows, changes, crashes, history>>

(* A fee that does not fit ends the pass: no reminders, and no other try.  *)
OutOfRange(u) ==
  /\ sched.pc = "billing"
  /\ Listed(u)
  /\ ~Fits(u)
  /\ sched' = AfterRun(FALSE)
  /\ Disturbed
  /\ UNCHANGED <<day, minute, jobs, customers, rows, changes, crashes>>

(* CatchUp fails, or the first statement of Process: no reminders, and no  *)
(* error that is safe to retry.                                            *)
CatchUpFails ==
  /\ sched.pc = "billing"
  /\ day <= MaxDay
  /\ sched' = AfterRun(FALSE)
  /\ Disturbed
  /\ UNCHANGED <<day, minute, jobs, customers, rows, changes, crashes>>

(* Fault: CatchUp is not waited for. *)
NobodyLeftIgnored(date) == TRUE

(* A batch has nobody whose period was not charged before. *)
NobodyLeft(date) == \A u \in Users : InFirstBatch(u, date) => next[u] \in billed[u]

(* CatchUp ends with a batch that charged nobody, a stale one included. *)
CatchUpEnds == sched.pc = "billing" /\ (NobodyLeft(sched.date) \/ sched.stale)

-----------------------------------------------------------------------------
(* Process. *)

Refused(k) == k \in DOMAIN rows /\ rows[k].status = "refused"

(* Fault: only reminders of the date itself are tried again. *)
RetryCandidatesOfToday ==
  {k \in DOMAIN rows : Refused(k) /\ rows[k].left = 0 /\ k[2] = day
                         /\ status[Owner(k)] = "active"}

(* RetryableReminderDeliveries; a refused row has attempts left. *)
RetryCandidates ==
  {k \in DOMAIN rows : Refused(k) /\ rows[k].left = 0 /\ status[Owner(k)] = "active"}

(* Process lists the retries. *)
ListRetries ==
  /\ CatchUpEnds
  /\ sched' = [sched EXCEPT !.pc = "retrying"]
  /\ jobs' = RetryCandidates
  /\ UNCHANGED <<day, minute, customers, rows, changes, crashes, history>>

(* The listing fails: its error is kept and Process goes on. *)
ListRetriesFails ==
  /\ CatchUpEnds
  /\ day <= MaxDay
  /\ sched' = [sched EXCEPT !.pc = "retrying"]
  /\ Disturbed
  /\ UNCHANGED <<day, minute, jobs, customers, rows, changes, crashes>>

(* The latest charge on or before a date that is not reversed. *)
LatestCharge(u, date) ==
  LET past == {c \in charges[u] : c <= date}
  IN IF past = {} THEN Null ELSE CHOOSE c \in past : \A other \in past : other <= c

InDebt(u) == balance[u] < 0

(* Fault: the last reminder is only sent on its exact day. *)
SelectAutomaticExactly(u, date) ==
  LET latest == LatestCharge(u, date)
      overdue(days) == latest # Null /\ InDebt(u) /\ date = latest + days
  IN IF status[u] # "active" \/ balance[u] >= 1 THEN {}
     ELSE IF latest = date /\ InDebt(u) THEN {<<u, latest, "charge_debt">>}
     ELSE IF next[u] = date + Notice THEN {<<u, next[u], "before_charge">>}
     ELSE IF overdue(LongOverdue) THEN {<<u, latest, "overdue_7d">>}
     ELSE IF overdue(Overdue) THEN {<<u, latest, "overdue_3d">>}
     ELSE {}

(* SelectAutomatic: the key of the reminder that applies on a date, if any. *)
SelectAutomatic(u, date) ==
  LET latest == LatestCharge(u, date)
      overdue(days) == latest # Null /\ InDebt(u) /\ date >= latest + days
  IN IF status[u] # "active" \/ balance[u] >= 1 THEN {}
     ELSE IF latest = date /\ InDebt(u) THEN {<<u, latest, "charge_debt">>}
     ELSE IF next[u] = date + Notice THEN {<<u, next[u], "before_charge">>}
     ELSE IF overdue(LongOverdue) THEN {<<u, latest, "overdue_7d">>}
     ELSE IF overdue(Overdue) THEN {<<u, latest, "overdue_3d">>}
     ELSE {}

(* The retries are done, and Process lists the customers. *)
ListCandidates ==
  /\ sched.pc = "retrying"
  /\ jobs = {}
  /\ sched' = [sched EXCEPT !.pc = "selecting"]
  /\ jobs' = UNION {SelectAutomatic(u, sched.date) : u \in Users}
  /\ UNCHANGED <<day, minute, customers, rows, changes, crashes, history>>

(* The listing fails: Process returns this error and drops the others. *)
ListCandidatesFails ==
  /\ sched.pc = "retrying"
  /\ jobs = {}
  /\ day <= MaxDay
  /\ sched' = AfterRun(FALSE)
  /\ Disturbed
  /\ UNCHANGED <<day, minute, jobs, customers, rows, changes, crashes>>

(* The end of Process: RunOnce returns to runCurrentDate. *)
CandidatesDone ==
  /\ sched.pc = "selecting"
  /\ jobs = {}
  /\ sched' = AfterRun(sched.retry)
  /\ UNCHANGED <<day, minute, jobs, customers, rows, changes, crashes, history>>

(* reserveReminderDelivery: a first attempt, or a refused one that is due. *)
CanReserve(k) == k \notin DOMAIN rows \/ (Refused(k) /\ rows[k].left = 0)

AttemptOf(k) == IF k \in DOMAIN rows THEN rows[k].attempt + 1 ELSE 1

(* Fault: every refusal is followed by another attempt. *)
AnsweredForever(n, refused) ==
  IF refused
  THEN [status |-> "refused", attempt |-> n, left |-> DeliveryBackoff(n)]
  ELSE Settled

(* The row after attempt n; a refusal of the last attempt settles it too. *)
Answered(n, refused) ==
  IF refused /\ n < MaxAttempts
  THEN [status |-> "refused", attempt |-> n, left |-> DeliveryBackoff(n)]
  ELSE Settled

Put(k, row) == [other \in DOMAIN rows \union {k} |-> IF other = k THEN row ELSE rows[other]]

(* deliver, from the reservation to the recorded answer. *)
Attempt(k) ==
  /\ sched.pc \in {"retrying", "selecting"}
  /\ CanReserve(k)
  /\ \E refused \in BOOLEAN :
       /\ refused => day <= MaxDay
       /\ rows' = Put(k, Answered(AttemptOf(k), refused))
       /\ sched' = [sched EXCEPT !.retry = @ \/ (refused /\ AttemptOf(k) < MaxAttempts)]
  /\ jobs' = jobs \ {k}
  /\ fresh' = IF k \notin DOMAIN rows /\ sched.attempt = 1 /\ calm
              THEN fresh \union {k} ELSE fresh
  /\ UNCHANGED <<day, minute, customers, changes, crashes, passed, calm>>

(* Fault: a closed reservation is no reason to try again. *)
StillWaitsNever(k) == FALSE

(* deliver reports a retryable error for a refused key that is not due yet. *)
StillWaits(k) == Refused(k)

NotReserved(k) ==
  /\ sched.pc \in {"retrying", "selecting"}
  /\ ~CanReserve(k)
  /\ jobs' = jobs \ {k}
  /\ sched' = [sched EXCEPT !.retry = @ \/ StillWaits(k)]
  /\ UNCHANGED <<day, minute, customers, rows, changes, crashes, history>>

(* The reservation fails: not an error that is safe to retry. *)
ReserveFails(k) ==
  /\ sched.pc \in {"retrying", "selecting"}
  /\ day <= MaxDay
  /\ jobs' = jobs \ {k}
  /\ Disturbed
  /\ UNCHANGED <<day, minute, sched, customers, rows, changes, crashes>>

Run ==
  \/ RunOnce \/ WaitEnds
  \/ CatchUpFails \/ \E u \in Users : Charge(u) \/ OutOfRange(u)
  \/ ListRetries \/ ListRetriesFails
  \/ ListCandidates \/ ListCandidatesFails \/ CandidatesDone
  \/ \E k \in jobs : Attempt(k) \/ NotReserved(k) \/ ReserveFails(k)

-----------------------------------------------------------------------------
(* The administrator, through the poller, while the scheduler works. *)

(* Every command disturbs the loop.  Bound: all but a resumption count. *)
Command ==
  /\ sched.pc # "down"
  /\ day <= MaxDay
  /\ Disturbed
  /\ UNCHANGED <<day, minute, jobs, rows, crashes>>

Counts == changes < MaxChanges /\ changes' = changes + 1

(* A payment of the missing part of a fee. *)
Pay(u) ==
  /\ balance[u] < 1
  /\ balance' = [balance EXCEPT ![u] = @ + 1]
  /\ UNCHANGED <<sched, status, next, charges, billed>>
  /\ Command /\ Counts

(* ReverseLedgerEntry of a charge: the next charge date stays. *)
ReverseCharge(u) ==
  /\ \E c \in charges[u] : charges' = [charges EXCEPT ![u] = @ \ {c}]
  /\ balance' = [balance EXCEPT ![u] = @ + 1]
  /\ UNCHANGED <<sched, status, next, billed>>
  /\ Command /\ Counts

(* What CatchUp has listed may not be what is due any more. *)
BatchIsStale == sched' = IF sched.pc = "billing" THEN [sched EXCEPT !.stale = TRUE] ELSE sched

PauseUser(u) ==
  /\ status[u] = "active"
  /\ status' = [status EXCEPT ![u] = "paused"]
  /\ BatchIsStale
  /\ UNCHANGED <<next, balance, charges, billed>>
  /\ Command /\ Counts

(* ResumeUser with any date, one that was charged included. *)
ResumeUser(u) ==
  /\ status[u] = "paused"
  /\ status' = [status EXCEPT ![u] = "active"]
  /\ \E date \in ResumeDates : next' = [next EXCEPT ![u] = date]
  /\ BatchIsStale
  /\ UNCHANGED <<balance, charges, billed, changes>>
  /\ Command

Admin == \E u \in Users : Pay(u) \/ ReverseCharge(u) \/ PauseUser(u) \/ ResumeUser(u)

-----------------------------------------------------------------------------
(* Crash or shutdown.  The attempts in hand become ambiguous. *)
Crash ==
  /\ sched.pc # "down"
  /\ crashes < MaxCrashes
  /\ crashes' = crashes + 1
  /\ sched' = Down
  /\ jobs' = {}
  /\ \E inHand \in SUBSET {k \in jobs : CanReserve(k)} :
       /\ Cardinality(inHand) <= Workers
       /\ rows' = [k \in DOMAIN rows \union inHand |->
                     IF k \in inHand THEN Settled ELSE rows[k]]
  /\ Disturbed
  /\ UNCHANGED <<day, minute, customers, changes>>

(***************************************************************************)
(* A minute passes.  Timers fire before the minute is over, and between    *)
(* the two readings of the clock at the start of a run at most a midnight  *)
(* passes; the rest of a run may take any time.  From MaxDay on the clock  *)
(* moves only for the loop's wait, or to wake it while work is left, and   *)
(* that for three days: there are no failures and no commands any more.    *)
(***************************************************************************)
Owes(u) == status[u] = "active" /\ next[u] <= day

Unfinished ==
  \/ \E u \in Users : Owes(u)
  \/ \E k \in DOMAIN rows : Refused(k) /\ status[Owner(k)] = "active"

Tick ==
  /\ \/ day < MaxDay
     \/ sched.pc = "wait"
     \/ sched.pc = "sleep" /\ Unfinished /\ day < MaxDay + 3
  /\ sched.pc = "sleep" => ~TimerDue
  /\ sched.pc = "wait" => sched.left > 0
  /\ sched.pc = "run" => day = sched.runDate /\ minute = Minutes - 1
  /\ minute' = IF minute < Minutes - 1 THEN minute + 1 ELSE 0
  /\ day' = IF minute < Minutes - 1 THEN day ELSE day + 1
  /\ sched' = IF sched.pc = "wait" THEN [sched EXCEPT !.left = @ - 1] ELSE sched
  /\ rows' = [k \in DOMAIN rows |->
                [rows[k] EXCEPT !.left = IF @ > 0 THEN @ - 1 ELSE 0]]
  /\ passed' = IF minute' = Hour
               THEN sched.pc \notin {"down", "sleep"} /\ sched.runDate # day'
               ELSE passed /\ minute' > Hour
  /\ IF day' = day \/ sched.pc = "sleep"
     THEN UNCHANGED <<calm, fresh>>
     ELSE calm' = FALSE /\ fresh' = {}
  /\ UNCHANGED <<jobs, customers, changes, crashes>>

(* The end of the bounded calendar. *)
Rest ==
  /\ sched.pc = "sleep"
  /\ ~TimerDue
  /\ day >= IF Unfinished THEN MaxDay + 3 ELSE MaxDay
  /\ UNCHANGED vars

Next == Boot \/ TimerFires \/ Run \/ Admin \/ Crash \/ Tick \/ Rest

Spec == Init /\ [][Next]_vars

(* Fairness: the process is restarted, timers fire, runs go on, time passes. *)
Fairness ==
  /\ WF_vars(Boot)
  /\ WF_vars(TimerFires)
  /\ WF_vars(Run)
  /\ WF_vars(Tick)

FairSpec == Spec /\ Fairness

-----------------------------------------------------------------------------
(* Safety. *)

(* The scheduler sleeps and its timer is not due. *)
Sleeping == sched.pc = "sleep" /\ ~TimerDue

(***************************************************************************)
(* Once the hour is over, a scheduler that sleeps has run today's date, on *)
(* whatever date and minute it started, waited or crashed before, unless a *)
(* loop of an earlier date was still at work when the hour came.           *)
(***************************************************************************)
DateIsRun == Sleeping /\ minute >= Hour => sched.date = day \/ passed

(***************************************************************************)
(* The retries of the scheduler and those of the deliveries interlock: a   *)
(* reminder first attempted by the first run of a loop is sent or closed   *)
(* when the loop ends, unless a failure, midnight or the administrator     *)
(* came between.  It does not wait for tomorrow with attempts left.        *)
(***************************************************************************)
FreshIsSettled == sched.pc = "sleep" /\ calm => \A k \in fresh : ~Refused(k)

(***************************************************************************)
(* A debt is not forgotten because the process was down on the day of its  *)
(* reminder: after a loop that nothing disturbed, the customer has had an  *)
(* overdue reminder for the latest charge, of the last kind when it is due,*)
(* unless the notice of the next charge took its place that day.           *)
(***************************************************************************)
OverdueIsReminded ==
  sched.pc = "sleep" /\ calm =>
    \A u \in Users :
      LET latest == LatestCharge(u, sched.date)
      IN status[u] = "active" /\ InDebt(u) /\ latest # Null /\ next[u] # sched.date + Notice =>
           /\ sched.date >= latest + LongOverdue => <<u, latest, "overdue_7d">> \in DOMAIN rows
           /\ sched.date >= latest + Overdue =>
                \/ <<u, latest, "overdue_3d">> \in DOMAIN rows
                \/ <<u, latest, "overdue_7d">> \in DOMAIN rows

(***************************************************************************)
(* RunOnce charges before it reminds, so that the reminders tell of the    *)
(* day's charges.  After a loop that nothing disturbed, nobody is left     *)
(* whom CatchUp could have charged, and a customer whom a charge of the    *)
(* date has put into debt has had the reminder of that charge, not of an   *)
(* older one.                                                              *)
(***************************************************************************)
ChargedThenReminded ==
  sched.pc = "sleep" /\ calm =>
    \A u \in Users :
      /\ InFirstBatch(u, sched.date) => next[u] \in billed[u]
      /\ status[u] = "active" /\ InDebt(u) /\ sched.date \in charges[u] =>
           <<u, sched.date, "charge_debt">> \in DOMAIN rows

-----------------------------------------------------------------------------
(* Liveness, under FairSpec. *)

(* A fee that does not fit, so that every pass ends without reminders. *)
Overdrawn == \E u \in Users : IsDue(u, day) /\ ~Fits(u)

(***************************************************************************)
(* A refused reminder of an active customer is not left in the queue, also *)
(* when its date is over and it is not selected any more: unless the fee   *)
(* of a customer, maybe another one, does not fit time and again.          *)
(***************************************************************************)
RefusedIsSettled ==
  \/ \A u \in Users :
       LET waits == \E k \in DOMAIN rows : Refused(k) /\ Owner(k) = u /\ status[u] = "active"
       IN waits ~> ~waits
  \/ []<>Overdrawn

-----------------------------------------------------------------------------
(* What docs/architecture.md promises. *)

(***************************************************************************)
(* docs/architecture.md:90: the scheduler runs once per configured local   *)
(* calendar day.  Once the hour is over, a sleeping scheduler has run the  *)
(* date of the day.                                                        *)
(***************************************************************************)
RunsEveryDay == Sleeping /\ minute >= Hour => sched.date = day
=============================================================================
