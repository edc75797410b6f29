# A verification development for vpn-balance-bot

vpn-balance-bot is one Go process with one SQLite database. It keeps the prepaid balances of
VPN customers, charges their monthly fee, reminds them of debts through Telegram, and takes an
administrator's commands through Telegram. This directory holds TLA+ models of the parts whose
correctness depends on order, failure or time, the TLC configurations that check them on small
instances, and TLAPS proofs of the main safety results for every instance.

## 1. The system

| Component (source under `src/`) | State | Operations | Hard because of |
|---|---|---|---|
| Reminder delivery: `internal/service/reminder`, `internal/storage/sqlite/reminders.go`, `internal/telegram/bot.go` | table `reminder_deliveries` (status, error code, attempt, lease, next attempt); goroutines in flight | scheduler pass `Process`, manual `DeliverManual`, `ReconcileReminder`, `RecoverPending` | answers of Telegram are lost, the process dies between sending and recording, workers and poller meet on a row, leases end |
| Billing: `internal/service/billing`, `internal/storage/sqlite/billing.go` | `users.next_charge_on`, charges in `ledger_entries`; the batch in memory | `CatchUp` | the batch is stale while the administrator works; unique index against retries; progress |
| Ledger and profiles: `internal/service/account`, `internal/storage/sqlite/{ledger,users}.go`, `internal/domain` | `users`, `ledger_entries` | create, fee, pause, resume, disable, entries, reversals | 64-bit range, reversal once, legal sequences of states |
| Calendar: `internal/domain/calendar.go` | none | `NextBillingDate` | months shorter than the anchor day |
| Update processing: `internal/telegram/{client,effects}.go`, `internal/storage/sqlite/transaction.go` | offset and failure counters in memory; `processed_telegram_updates`; queued replies | poll, claim and run a command in one transaction, flush replies, retry, drop | redelivery, pruning of claims, rollback, crash at any point |
| Payment wizard: `internal/telegram/wizard.go`, `payment_drafts.go` | table `payment_drafts` | begin, confirm, cancel | repetition, replacement of drafts |
| Invites: `invites.go`, `user_handlers.go` | `invite_tokens`, Telegram columns of `users` | create (replaces), consume | two tokens, two accounts, nested transactions |
| Selection: `internal/service/reminder/selection.go` | none | `SelectAutomatic` | missed days, debts that outlive a date |
| Scheduler: `internal/service/scheduler` | date and attempt of the loop, timer | `Start`, `runCurrentDate`, `RunOnce`, `nextRun` | two back-offs side by side, start-up run, midnight, restarts |
| Application: `internal/app`, `cmd/vpn-balance-bot` | lifecycle | start, migrate, recover, run, stop | refused and failed starts, order of recovery and workers |
| Migrations: `internal/storage/sqlite/migrate.go`, `migrations` | `schema_migrations`, `schema_migration_checksums`, the schema | `Migrate` at every start | crash between steps, several releases on one database |
| Backup and inspection: `internal/storage/sqlite/{backup,inspection}.go`, `internal/app` | snapshot, temporary and published file | `backup`, `doctor`, `migrate-status`, `verify-backup` | processes beside the service, steps of the file system, one path for two commands |
| Configuration, logging, localization | none | | sequential |

How they meet: `app.Run` recovers interrupted deliveries and then starts two goroutines. The
poller handles one Telegram update at a time, and every administrator's command runs in it. The
scheduler runs `CatchUp` and then `Process`, at start-up and once a day, holding a mutex; `Process`
has a pool of four workers. All share the store, whose pool has a single connection
(`store.go:39`): statements and transactions never overlap, but anything can happen between two
of them. The transport to Telegram is outside every transaction.

What makes each part correct: reminder delivery sends a key's message at most once and settles
every reservation; billing charges every period once, none early and none left out; the ledger
stays in range and a reversal cancels exactly one entry; an update takes effect once and in
order, and never blocks the ones behind it; an invitation links one account to one profile; the
scheduler leaves no date and no debt out; the service only works on a database that has gone through
exactly its own migrations, and a published backup is whole and stays.

## 2. Modules

| Module | Contents |
|---|---|
| `ReminderContract` | What delivery promises for a key: stages, and a chat that gets at most one message |
| `ReminderDelivery` | The implementation, at the grain of one statement or one Telegram exchange |
| `MCReminderDelivery` | Instances |
| `ReminderDeliveryProofs` | Type, fence, truth of "sent", finality of settled rows, and what a disabled customer may still get: independent of timeouts |
| `ReminderContractProofs` | At most once, and refinement of `ReminderContract`, for attempts that end before their lease |
| `Calendar` | Dates and `NextBillingDate` |
| `Billing`, `MCBilling`, `BillingProofs` | Profiles, ledger, the `CatchUp` pass, the administrator |
| `BalanceProofs` | Balances: sums over a ledger of any length |
| `UpdateProcessing`, `MCUpdateProcessing`, `UpdateProcessingProofs` | Polling, claims, replies, wizard, invites, manual reminders under redelivery |
| `DailyRun`, `DailyRunProofs` | The scheduler's loop over hours and days, with charges, the selection of reminders and their retries |
| `Deployment`, `MCDeployment`, `DeploymentProofs` | Start and migrations of several releases, doctor, backup, restore, upgrade and rollback |

Operators whose comment begins with "Fault:" are plausible mistakes in the code. No specification
uses them; each stands next to the definition it would replace and serves to show that a property
can fail. `PROJECT.json` maps the other definitions to source lines.

### ReminderDelivery

`rows[k]` is the row of a key (user, billing date, type, delivery key). `sender[s]` is what a
goroutine has read and done: `deliver` is split into `Reserve`, `Send` and `Record`, each with its
failures, so that the clock, the other goroutines, a recovery pass or a crash can come between.
`Reserve` may commit and lose the read-back of the attempt number (`reminders.go:60`); otherwise it joins
the `INSERT` and the `SELECT` that reads it back, the one place where two statements are a step: they share a
database timeout, and nobody else can reserve the row before the lease ends. `Send` picks
whether the message arrives and which answer comes back: only a 429, a connection that was not
made, or a 403 promise that nothing arrived. `phase`, `jobs`, `more` and `afterID` are `Process`:
recovery of expired leases, pages of due retries, pages of active customers. `SelectAutomatic` is
any choice of at most one automatic key per listed customer. The administrator reminds, reconciles
and changes statuses between two of his updates. Times are minutes: the lease is 2 in the
configurations as in the code, `AttemptTime` bounds the time from the reading of the clock in
`deliver` to the end of its last statement.

`got` is history: the attempts whose message arrived. `Reconcile` is guarded by an empty chat,
because the command asserts that the operator has looked (`admin_handlers.go:144`).

In the single process the attempt number is a second line of defence. A pass ends only when its
workers are done, and the poller both sends manual reminders and reconciles, so that a late answer
can meet an ambiguous row but hardly a newer attempt. The proofs use the fence without that argument.
`SettledIsFinal` is about the former: a late "sent" changes an ambiguous row no more than a recovery pass
changes a sent one.

### Billing

A SQL transaction is one action: the listing, and one per customer of the batch, between which the
administrator and the calendar move. `ReserveSubscriptionCharge` has the four outcomes of the code:
no longer due, out of range (the pass ends), conflict with the unique index (nothing changes), and
the charge with the move of `next_charge_on` (`RecordCharge`, whose fault commits the two apart). `CatchUpFails` is an error of storage or the end of the
process. Amounts have a configurable width; `Balance` sums as SQLite does, from the newest entry on,
and is unreadable when a partial sum overflows. `since` is history: the first date to be charged.

The code's promise that due periods are charged has two exceptions, which the model has and `HeldUp` names: a
fee that takes a balance out of its range ends the pass, for everybody behind that customer too, and a whole batch
that only meets the unique index ends it before the next batch is listed. `DuePeriodIsCharged` says that there is no
third: either the customer is charged, stopped or given another date, or he is held up time and again, or the
administrator never rests.

Left out: a payment is entered at the time its draft was begun, which can put it before a charge
made between draft and confirmation. The order of entries matters to partial sums only.

### UpdateProcessing

A script of commands arrives at Telegram, which keeps what is not confirmed. `poll` is the loop of
`productionClient.Start` with its in-memory offset. `Process` is the transaction (claim, command,
pruning), `Flush` the queued replies after it, `ProcessFails` a rollback followed by
`acknowledgeFailedUpdate`. `/admin remind` runs outside a transaction. An attempt at its delivery key is one
step here (`ReminderDelivery` has it statement by statement): it is sent, fails before it is reserved, is refused
with or without a retry, or has no answer, and then the message may have arrived. The poller makes it whenever it
handles the update, and the scheduler's pass again for a refused row (`RetryReminder`). `inbox` is the sequence of
messages in the chat, so that a second one for a key shows, in the same life of the process or in another. An
administrator who reopens an unanswered reminder is left to `ReminderDelivery`. A crash forgets offset and
counters and keeps the tables. `done`, `replies` and `dropped` are history.

### DailyRun

The composition of scheduler, billing and reminders over time. `Billing` and `ReminderDelivery` have a
pass at the grain of a statement; here a charge and an attempt are one step each, and the clock has
minutes, midnights and `REMINDER_HOUR`. `sched` is the loop: `BeginLoop` reads the date
(`runCurrentDate`), `RunOnce` reads it again, `AfterRun` returns or waits `RunBackoff` minutes,
`Asleep` sets the timer of `nextRun`. A row of a refused reminder counts down its own
`DeliveryBackoff`. `SelectAutomatic` is the code's decision from status, balance, latest charge and
next charge date; the administrator pays, reverses, pauses and resumes, with any date, between any two steps, and a
crash can leave the attempt of each of the `Workers` ambiguous, which settles its row.

A charge has the outcomes of `ReserveSubscriptionCharge`: made (`Charge`); passed over because the period was
charged before (`billed`, which keeps reversed charges, as the index does), and then the date stays where it is;
or out of range (`OutOfRange`), which ends the pass, and with it the run, before any reminder. `CatchUpEnds` is a
batch that charged nobody: everybody in the first `BatchSize` of the due customers was charged for his period
before, or the batch was listed before a command changed who is due (`stale`). The customers of a batch are charged
in any order.

Dates are numbers and a period has equally many days every month (`Calendar` has the real months).
A balance counts whole fees, for the code only compares it with the fee, with zero and with the ends of its
range, of which only the lower one (`MaxDebt`) can be met by charging. `passed`,
`calm` and `fresh` are history: a loop of an earlier date that outlasted the hour, a loop that nothing
disturbed, and the keys whose first attempt its first run made.

### Deployment

One database file, one service writing it, doctor and backup commands beside it. `Start` to
`FinalCheck` are the statements of `Migrate` in their order; `tx` is the open transaction, which
`Commit` makes the database and `RolledBack` forgets. A database keeps what its schema went through
(`ran`: version and text) beside what its tables claim (`applied`, `sums`), so that the properties
can compare the two. Binaries differ in the last migration they ship and in edited texts; a database
may come from a release without checksums. Doctor (`Inspect`) makes one read per step and remembers
only what the code keeps in variables. Backup commands share a path; `files` are inodes, `tmp` and `dest`
what the two names point at, and the steps of `Store.Backup` act on names, not on inodes, as the
code does. `VACUUM INTO` refuses a file that exists; SQLite would take one that is empty, and the moment between a
file's creation and its first page is left out. The operator stops, installs and restores as `docs/backup-and-restore.md` and
`docs/operations.md` describe, with the service stopped.

`meddled` is history. `defer os.Remove(temporaryPath)` is registered before `VACUUM INTO` has made the
file (`backup.go:37`), so a command whose `VACUUM INTO` is refused removes the file of another that is still at
work on it. That command then verifies and links whatever a third has put there in the meantime, possibly before it
is whole. `meddled` records just that: a file begun while another command was still at work on one. Otherwise
`PublishedIsSound` holds, with files that dead commands left behind and with two commands of which one removes the
other's file: verification and link then find nothing at the name.

## 3. Model checking

`tlc -config <cfg> <module>`; every run ends within four minutes on two workers.

| Run | Instance | Shows |
|---|---|---|
| `delivery_pair` | an automatic and a manual key of one customer, a worker and the poller, page size 1, 2 attempts, 1 crash, lease 2, attempt 1 | at most one message per key; the refinement `KeepsContract`; `ExcludedForGood`, what is left of the promise in finding 1 |
| `delivery_live` | fair, two customers, attempts of up to 3 minutes against a lease of 2, 2 attempts, 1 crash | the fence and settled rows hold also when timeouts are configured longer than the lease; reservations are settled, refusals retried, passes end |
| `delivery_disabled` | violation | finding 1 |
| `billing_ledger` | one customer, amounts of three bits (-4..3), 4 entries, reversals | balance equals what stands and never leaves the range; only what is due is charged |
| `billing_periods` | fair, two customers, a batch of one, amounts of two bits, the ends of January, February and March (anchor day 31), resumption at a charged date | each period charged once, none left out, passes end; only a resumption takes a customer back to a charged period; a due period is charged unless its customer is held up by one of the two things `HeldUp` names, and both happen |
| `billing_stuck` | violation | finding 2 |
| `updates` | every three-step wizard script, five scripts of invites and reminders, retries of reminders by the scheduler, batches of 2, 2 attempts, 2 claims kept, 1 crash | payments, invites, order, truth of replies, one message of a manual reminder per charge date, and settlement |
| `updates_token` | violation | finding 3 |
| `updates_remind` | violation | finding 4 |
| `daily` | fair, one customer, days of 4 minutes with the hour at minute 1, a period of 5 days, reminders 1 day before and 1 and 3 days after, a balance of at most one fee below zero, one payment, reversal or pause and any resumptions, at a charged date and at a later one, 3 runs a date, 3 attempts, failures, commands and a crash up to day 3, then 3 quiet days | no date left out, retries of scheduler and rows interlock, missed days are made up for, an undisturbed loop charges and then reminds of that charge, refusals are settled unless a fee that does not fit ends every run |
| `daily_skipped` | violation, `REMINDER_HOUR` 0 | finding 5 |
| `deployment` | a build with 2 migrations, one with 3, one with 3 and an edited second; the checksum table in migration 2; two backup commands, 2 snapshots, 3 doings of the operator, 1 failure, crash or damage | history and checksums, what is served, doctor's reports, refusals, published backups |

Why the bounds are enough. A key's row is independent of other keys, except through workers, pages
and the customer's status, which `delivery_pair` shares; with two attempts there is a first one, a
retry and an end, and one crash can hit any step of either. `delivery_live` has a page of one for two
customers, so that `Process` turns pages. Three-bit amounts meet both ends of the range with few
entries. In `billing_periods` a batch of one is full with one customer at a charged date, and two bits of amount
are used up by two charges. `daily` has one customer, for its subject is time: what a batch and an order of several
add to `ChargedThenReminded` is in its proof, which has any number of both. `Retention = Limit = 2` is the tight case of 10,000 claims against batches of 25. In `daily`
the retry delays of 1 and 2 minutes fit into a day and can cross midnight and the hour, and all four
reminders fall due within the days. In `deployment` versions 1, 2 and 3 are the one before the
checksum table, the one that creates it and one after; three doings of the operator are an upgrade, a
restore and a rollback, each of which needs no stop while the service is down. Doctor and backup
do not run beside each other there, for both only read the database. The view of that run forgets
the contents of files that no name leads to, which nothing reads any more. Where a clock is bounded it goes
on moving while a lease, a delay or work is left, so no liveness property is met by a clock that stops.
Deadlock is checked in every run.

Fairness. In `ReminderDelivery` and `Billing`: goroutines run and timers fire (weak fairness), the
service is restarted (`compose.yml` and the systemd unit restart it), and a statement tried again and
again succeeds in the end (strong fairness): nothing in the code helps against a database that fails
forever. In `UpdateProcessing`: the poller polls, and not every answer is lost. In `DailyRun`: the process
is restarted, timers fire, runs go on and time passes, all weakly; failures end at `MaxDay`.
`Deployment` has no liveness: a start that fails forever is the operator's case, and that no start is
refused without reason is the action property `RefusedRightly`.

Every property of a passing run has a mutant in `PROJECT.json`: a mapped definition replaced by a
fault, with which TLC finds the property violated.

## 4. Findings

1. **A disabled profile can still get an automatic reminder.** `users.go:279` promises permanent
   exclusion; `Process` sends to a page listed before (`delivery_disabled`). Theorem `DisabledForGood`: what the
   pass of that moment had listed or taken is all he can still get.
2. **A customer resumed at a charged date is never charged again.** The conflict with the unique index
   is taken for a charge already made and the date does not move (`billing_stuck`). Theorems
   `DatesGoBackByResumption` and `NoConflictGoingForward`: nothing but such a resumption leads to the conflict.
3. **An invitation is used up by an account that is linked elsewhere.** The store rolls the claim back
   on its own, but in production the surrounding transaction commits it (`updates_token`). Theorem
   `OnlyConflictsLoseTokens`: a used token that has not linked its profile was opened by such an account.
4. **A manual reminder can be repeated after a restart** when the next charge date has moved, as the
   date is part of its delivery key (`updates_remind`). Theorem `RemindedOnce`: as long as the date is the
   same, there is one message.
5. **A date can be left without a run.** `docs/architecture.md:90` says once per local calendar day. With
   `REMINDER_HOUR` 0, a first run that ends after midnight, or its wait for a retry, gives its date up, and
   `nextRun` then goes to the hour of the day after (`daily_skipped`). `DateIsRun` shows that this is the only way:
   the loop of an earlier date must have outlasted the hour.

Two weaknesses are not runs of their own, for the properties name them as their exceptions. `CatchUp` returns at the
first error (`service.go:64`), and a fee that takes a balance out of range is an error in every pass: customers listed
behind that one are not charged, and `RunOnce` leaves out everybody's reminders (`HeldUp` in `DuePeriodIsCharged`,
`Overdrawn` in `RefusedIsSettled`). With 64 bits of amount this takes
fees or debts near the range. And three backup commands on one path can publish a file before it is whole (`meddled` in
`PublishedIsSound`). Without its exception each of the three properties fails in its run.

## 5. Proofs

`tlapm <module>`; constants are arbitrary under the named assumptions of the modules.

`ReminderDeliveryProofs` proves `TypeOK`, then `FenceInv`: attempts in flight on one key differ, none
is newer than its row, and an answer "sent" is carried for a message that arrived. It is inductive
because a reservation takes the next number (`ReserveIsFresh`). `SentIsTrue`, a part of it, and `SettledIsFinal` follow:
an answer is recorded in a pending row of its own attempt only, recovery takes pending rows, and a reservation a retryable one.
No assumption relates attempts and leases. `HandInv` says that between two lists no key is listed or taken, and that
the poller reserves manual keys only; with it an automatic key of a disabled customer never gets into a hand again
(`DisabledStayOut`), and without a hand no attempt number changes (`AttemptsAreReserved`): `ExcludedForGood`.

`ReminderContractProofs` assumes `Timely` (`AttemptTime < Lease`). `AtMostOneMessage` alone is not
inductive: that a row open for another attempt has an empty chat depends on recovery leaving live
attempts alone, which depends on their age. `TimelyInv` joins these: live attempts are young, so their
lease runs (`LiveLeaseHolds`), so they own their rows; a row open for another attempt, and a goroutine
about to send, have an empty chat. With it every step is a step of `ReminderContract` or a stutter
(`ContractStep`), so `Spec => KeepsContract`. The assumption is the code's only when the timeouts of two
statements and one exchange fit into two minutes: `HTTP_TIMEOUT` and `DB_TIMEOUT` are configurable.

`BillingProofs` proves that `NextBillingDate` gives a valid date in the next month, on the anchor day or
the month's last day, and with it the invariant `BillingInv`: types, what a pass may hold
(`CurrentPass`), one charge per period, and a charge for every billing date from `since` to the next
charge date. `ChargesAreDue` follows as an action property. `OnlyResumptionsGoBack` needs besides that charges
are of customers who exist (`ChargesInv`) and that a charge moves the date to a later month. `NoConflictGoingForward`
then takes as its hypothesis that every resumption is to a date after the customer's charges, which `/admin resume` does not
enforce, and concludes that the unique index refuses nobody.

`BalanceProofs` proves what `BalanceInRange` and `BalanceCountsStanding` say of a ledger of any length. A balance is
a recursive function over the newest entries, so the module derives an induction over sets of natural numbers
(`SetInduction`) from the library's theorem that their order is well-founded, shows that the running sums exist and
obey their recursion, and from it what an appended entry or a changed summand does to a sum. A reversal takes one
standing entry out and brings in its opposite, because it points at an earlier entry that nothing else reverses
(`WellReversed`), which is the strengthening both properties need (`BalanceInv`).

`UpdateProcessingProofs` builds five invariants on each other, for every script. `BatchInv` bounds the
batch in hand: Telegram delivers nothing before `confirmed` and nothing beyond the `Limit` updates
from there on. `ClaimsInv`: a command that was run and may be delivered again still has its claim,
because fewer than `Retention` updates of that window can be newer (`PrunedKeeps`, which counts with
the theorems on finite sets). So a processed update is a first one (`ProcessIsFirst`,
`CommandsRunOnce`), which everything else rests on: its number is fresh as a draft
(`PaymentsInv`) and as a token (`TokensInv`), and what a reply was true of lasts (`RepliesInv`).
`OrderInv`: whatever lies before the offset, the batch or a command that was run is done with, and
before the first crash dropped updates lie before the offset. The assumption is `Retention >= Limit`
(`RetentionAssumption`): 10,000 claims and batches of 25. `RemindersInv` says that every message in the chat has a closed key and no
two have the same; an attempt is made only at a key that is open, by the poller or by the scheduler
(`AttemptOutcomes`, `RemindersInvStep`), which gives `RemindedOncePerDate`. `UsedTokenIsExplained` is inductive with `TokensInv`: links stay, so the account
that stood in the way keeps the profile it is linked to.

`DailyRunProofs` proves the types, `DateIsRun`, `OverdueIsReminded` and `ChargedThenReminded` for any hour, limits,
period, batch and number of customers.
`DateInv` follows the date through the loop: while it works, `runDate` is today, or the hour that came meanwhile
is recorded in `passed`, and a timer for tomorrow is only set once today's hour is over. `PlanInv`: what a calm loop
selects is among its jobs or among the rows, and at its end among the rows, for a selection depends only on the
customers and the date, and what changes them ends the calm. Besides, from the end of a calm `CatchUp` on nobody is left
to be charged (`NobodyLeft`), for nothing but a charge or a command could change that, so that what is selected is
selected after the charges of the day: `ChargedThenReminded`. `FreshIsSettled` says that the two back-offs interlock. `KeepsUp`: at the end of the
scheduler's run n a fresh reminder still refused has had n attempts or more, and one with just n waits no longer than the
scheduler, whose delays (`RunBackoff`) are the same. So each run of the loop finds it due, as a retry or, since
every run selects the same (`SelectedInv`), as a candidate, and it runs out of attempts no later than the loop out of runs. That
needs `RetriesAssumption`: the scheduler has as many runs a date as a delivery has attempts, three each in the code.

`DeploymentProofs` holds for any binaries whose migrations include the one of the checksum table, any
number of backup commands, and no bound on doings or faults. `HistoryInv` is the heart: the database and every
snapshot are `Good` (version i ran i-th, rows say so, checksums are as `ChecksumsKept` wants), and an open transaction
is the database with the next migration half done (`TxInv`), so that committing keeps `Good`
(`MigratedIsGood`); `ServerInv` collects what the service has checked so far, which nothing undoes while it runs.
`MigratedInOrder`, `ChecksumsKept`, `ServedIsCurrent` and `RefusedRightly` follow. `DoctorInv` says what
doctor's reads are still worth: versions only grow while it reads, for the operator waits for its report.
`PublishInv` says that the temporary path leads a command to its own file or nowhere; it is needed because verification
and link go by name, and it is what `meddled` breaks.

Every type invariant, safety invariant, action property and refinement that the runs check is proved. Only
model-checked are the liveness properties, which rest on fairness: `PendingIsSettled`, `RefusedIsRetried`, `ProcessEnds`,
`PassEnds`, `DuePeriodIsCharged`, `UpdatesAreSettled` and `RefusedIsSettled`.

## 6. Not modelled, and the plan

Not modelled: parsing and wording of commands, read-only listings and the dashboard, token generation,
configuration, logging, localization, file permissions, and whether the SQLite driver honours the
parameters of the connection string. `App.Run` constructs its services and at the end waits for both
workers; neither changes state. `migrate-status` and `verify-backup` are doctor's reads with other output.
SQLite and the file system are modelled by their guarantees: atomic transactions, `VACUUM INTO` that copies
what is committed and refuses a file that has been written to, `link` that fails if its target exists.

Order of the work so far: delivery and its contract, billing with the calendar, updates, the daily
run, deployment. Left:

1. A payment's own time: `Billing` enters a payment at the present, the code at the time its draft was
   begun, which decides the order of entries when partial sums are near the range.
2. Configurable timeouts against the lease: an assumption of `ReminderContractProofs` that `config.go`
   does not check.
