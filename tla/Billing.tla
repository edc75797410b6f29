------------------------------- MODULE Billing -------------------------------
(***************************************************************************)
(* Billing: customers' profiles and the ledger, the scheduler's CatchUp    *)
(* pass, and the administrator's commands, which the update poller runs    *)
(* between any two statements of the pass.                                 *)
(*                                                                         *)
(* A SQL transaction is one step: the pool holds a single connection.      *)
(* Notes, times of day and the administrator's id are left out.  A payment *)
(* carries the time its draft was begun: here nothing is recorded between  *)
(* draft and confirmation, so that an entry's position in the ledger is    *)
(* its id and its order in time.                                           *)
(***************************************************************************)
EXTENDS Calendar, Sequences, FiniteSets

CONSTANTS
  Users,       \* ids of the profiles that may be created
  Anchor,      \* billing_anchor_day of each profile
  FirstDates,  \* first charge dates given to /admin create
  ResumeDates, \* charge dates given to /admin resume
  Fees,        \* monthly fees
  Amounts,     \* amounts of manual entries
  Days,        \* the days on which a pass may start
  MinInt,      \* smallest value of the amount type
  MaxInt,      \* largest value of the amount type
  BatchSize,   \* defaultChargeBatchSize
  MaxEntries,  \* bound: manual entries are added while the ledger is shorter
  Null         \* SQL NULL

ASSUME ProfilesAssumption ==
  /\ Users \subseteq Nat \ {0}
  /\ Anchor \in [Users -> 1 .. 31]
  /\ FirstDates \subseteq {d \in Dates : IsValid(d)}
  /\ ResumeDates \subseteq {d \in Dates : IsValid(d)}
  /\ Days \subseteq {d \in Dates : IsValid(d)}

ASSUME AmountsAssumption ==
  /\ MinInt \in Int /\ MaxInt \in Nat
  /\ MinInt = -(MaxInt + 1)
  /\ Fees \subseteq 1 .. MaxInt
  /\ Amounts \subseteq (MinInt + 1) .. MaxInt

ASSUME BillingBoundsAssumption ==
  /\ BatchSize \in Nat \ {0}
  /\ MaxEntries \in Nat

ASSUME BillingNullAssumption ==
  /\ Null \notin Dates
  /\ Null \notin Nat

VARIABLES
  users,    \* table users, by id
  ledger,   \* table ledger_entries, by id
  today,    \* the date of the wall clock
  pass,     \* the CatchUp pass in memory
  since     \* history: the charge date given at creation or the last resume

vars == <<users, ledger, today, pass, since>>

Statuses == {"none", "active", "paused", "disabled"}

Profile ==
  [status : Statuses, fee : Fees \union {0}, next : Dates \union {Null}]

Manual == {"opening_balance", "payment", "adjustment"}
Kinds == Manual \union {"subscription_charge", "reversal"}

Entry ==
  [user : Users, kind : Kinds, amount : Int,
   period : Dates \union {Null}, reverses : Nat \union {Null}]

(* A customer of the batch with the charge date read by the listing. *)
Item == [user : Users, period : Dates]

Pass ==
  [pc : {"idle", "list", "charge"}, asOf : Dates \union {Null},
   batch : SUBSET Item, progress : BOOLEAN]

NoPass == [pc |-> "idle", asOf |-> Null, batch |-> {}, progress |-> FALSE]

BillingTypeOK ==
  /\ users \in [Users -> Profile]
  /\ \A u \in Users : users[u].status # "none" => IsValid(users[u].next) /\ users[u].fee \in Fees
  /\ ledger \in Seq(Entry)
  /\ today \in Days
  /\ pass \in Pass
  /\ since \in [Users -> Dates \union {Null}]

Init ==
  /\ users = [u \in Users |-> [status |-> "none", fee |-> 0, next |-> Null]]
  /\ ledger = << >>
  /\ today \in Days
  /\ \A d \in Days : OnOrBefore(today, d)
  /\ pass = NoPass
  /\ since = [u \in Users |-> Null]

-----------------------------------------------------------------------------
(* The ledger. *)

(* The running sums of a sequence of numbers, from the empty sum on. *)
RunningSums(t) ==
  LET sum[n \in 0 .. Len(t)] == IF n = 0 THEN 0 ELSE sum[n - 1] + t[n]
  IN sum

(* A customer's amounts from the newest entry on; entries of others count 0. *)
Newest(l, u) ==
  [n \in 1 .. Len(l) |->
     LET e == l[Len(l) + 1 - n] IN IF e.user = u THEN e.amount ELSE 0]

(***************************************************************************)
(* SUM(amount_minor) over the newest n entries.  SQLite walks the index    *)
(* from the newest entry on and gives up when a partial sum overflows.     *)
(***************************************************************************)
PartialSums(l, u) == RunningSums(Newest(l, u))

Balance(l, u) == PartialSums(l, u)[Len(l)]

InRange(n) == MinInt <= n /\ n <= MaxInt

BalanceReadable(l, u) == \A n \in 0 .. Len(l) : InRange(PartialSums(l, u)[n])

(* Fault: only a balance that grows too large is refused. *)
FitsBelowMax(l, u, delta) == BalanceReadable(l, u) /\ Balance(l, u) + delta <= MaxInt

(* ensureBalanceRange, with AddAmounts. *)
Fits(l, u, delta) == BalanceReadable(l, u) /\ InRange(Balance(l, u) + delta)

(* Fault: the index is not there. *)
ChargedNever(l, u, period) == FALSE

(* The unique index on (user_id, billing_period_on) of charges. *)
Charged(l, u, period) ==
  \E i \in 1 .. Len(l) :
    l[i].kind = "subscription_charge" /\ l[i].user = u /\ l[i].period = period

(* Fault: only the newest entry is searched for a reversal. *)
ReversedByLast(l, id) == Len(l) > 0 /\ l[Len(l)].reverses = id

(* The unique column reverses_entry_id. *)
Reversed(l, id) == \E i \in 1 .. Len(l) : l[i].reverses = id

ManualEntry(u, kind, amount) ==
  [user |-> u, kind |-> kind, amount |-> amount, period |-> Null, reverses |-> Null]

ChargeEntry(u, period) ==
  [user |-> u, kind |-> "subscription_charge", amount |-> -users[u].fee,
   period |-> period, reverses |-> Null]

ReversalEntry(id) ==
  [user |-> ledger[id].user, kind |-> "reversal", amount |-> -ledger[id].amount,
   period |-> Null, reverses |-> id]

-----------------------------------------------------------------------------
(* The administrator. *)

Exists(u) == users[u].status # "none"

CreateUser(u, fee, next) ==
  /\ ~Exists(u)
  /\ users' = [users EXCEPT ![u] = [status |-> "active", fee |-> fee, next |-> next]]
  /\ since' = [since EXCEPT ![u] = next]
  /\ UNCHANGED <<ledger, today, pass>>

(* AddOpeningBalance, AddPayment and AddAdjustment. *)
CreateLedgerEntry(u, kind, amount) ==
  /\ Exists(u)
  /\ amount # 0
  /\ kind = "payment" => amount > 0
  /\ Len(ledger) < MaxEntries
  /\ Fits(ledger, u, amount)
  /\ ledger' = Append(ledger, ManualEntry(u, kind, amount))
  /\ UNCHANGED <<users, today, pass, since>>

ReverseLedgerEntry(u, id) ==
  /\ id \in 1 .. Len(ledger)
  /\ Len(ledger) < MaxEntries
  /\ ledger[id].user = u
  /\ ledger[id].kind # "reversal"
  /\ ~Reversed(ledger, id)
  /\ ledger[id].amount # MinInt
  /\ Fits(ledger, u, -ledger[id].amount)
  /\ ledger' = Append(ledger, ReversalEntry(id))
  /\ UNCHANGED <<users, today, pass, since>>

SetMonthlyFee(u, fee) ==
  /\ Exists(u)
  /\ users' = [users EXCEPT ![u].fee = fee]
  /\ UNCHANGED <<ledger, today, pass, since>>

SetStatus(u, from, to) ==
  /\ users[u].status \in from
  /\ users' = [users EXCEPT ![u].status = to]
  /\ UNCHANGED <<ledger, today, pass, since>>

Pause(u) == SetStatus(u, {"active"}, "paused")
Disable(u) == SetStatus(u, {"active", "paused"}, "disabled")

(* Any valid date may be given, a past and a charged one too. *)
Resume(u, next) ==
  /\ users[u].status = "paused"
  /\ users' = [users EXCEPT ![u].status = "active", ![u].next = next]
  /\ since' = [since EXCEPT ![u] = next]
  /\ UNCHANGED <<ledger, today, pass>>

Admin ==
  \E u \in Users :
    \/ \E fee \in Fees, next \in FirstDates : CreateUser(u, fee, next)
    \/ \E kind \in Manual, amount \in Amounts : CreateLedgerEntry(u, kind, amount)
    \/ \E id \in 1 .. Len(ledger) : ReverseLedgerEntry(u, id)
    \/ \E fee \in Fees : SetMonthlyFee(u, fee)
    \/ Pause(u) \/ Disable(u)
    \/ \E next \in ResumeDates : Resume(u, next)

-----------------------------------------------------------------------------
(* CatchUp.  Passes do not overlap: RunOnce holds the scheduler's mutex. *)

StartCatchUp ==
  /\ pass.pc = "idle"
  /\ pass' = [NoPass EXCEPT !.pc = "list", !.asOf = today]
  /\ UNCHANGED <<users, ledger, today, since>>

(* The order of UsersDueForCharge. *)
Before(i, j) ==
  Earlier(i.period, j.period) \/ (i.period = j.period /\ i.user < j.user)

(* Fault: the day of the pass itself does not count. *)
DueBefore(asOf) ==
  {[user |-> u, period |-> users[u].next] :
     u \in {v \in Users : users[v].status = "active" /\ Earlier(users[v].next, asOf)}}

DueForCharge(asOf) ==
  {[user |-> u, period |-> users[u].next] :
     u \in {v \in Users : users[v].status = "active" /\ OnOrBefore(users[v].next, asOf)}}

FirstBatch(batch, due) ==
  /\ Cardinality(batch) = IF Cardinality(due) < BatchSize THEN Cardinality(due) ELSE BatchSize
  /\ \A i \in batch, j \in due \ batch : Before(i, j)

UsersDueForCharge ==
  /\ pass.pc = "list"
  /\ \E batch \in SUBSET DueForCharge(pass.asOf) :
       /\ FirstBatch(batch, DueForCharge(pass.asOf))
       /\ pass' = IF batch = {} THEN NoPass
                  ELSE [pass EXCEPT !.pc = "charge", !.batch = batch, !.progress = FALSE]
  /\ UNCHANGED <<users, ledger, today, since>>

(* An error of storage ends the pass, and so does the end of the process. *)
CatchUpFails ==
  /\ pass.pc # "idle"
  /\ pass' = NoPass
  /\ UNCHANGED <<users, ledger, today, since>>

(* Fault: the loop goes on as long as customers are due. *)
AfterBatchAlways(progress) == [pass EXCEPT !.pc = "list", !.batch = {}, !.progress = FALSE]

(* The end of the loop over a batch: again only if something was charged. *)
AfterBatch(progress) ==
  IF progress THEN [pass EXCEPT !.pc = "list", !.batch = {}, !.progress = FALSE] ELSE NoPass

AfterItem(item, created) ==
  LET progress == pass.progress \/ created
  IN IF pass.batch = {item} THEN AfterBatch(progress)
     ELSE [pass EXCEPT !.batch = @ \ {item}, !.progress = progress]

(* Fault: the listing is trusted. *)
StillDueTrusted(item) == Exists(item.user)

(* The customer as read again inside the transaction. *)
StillDue(item) ==
  users[item.user].status = "active" /\ users[item.user].next = item.period

(* The next charge date after a charge. *)
Advanced(u) == NextBillingDate(users[u].next, Anchor[u])

(* Fault: no transaction; the process may die between the two statements. *)
RecordChargeInTwo(u, item) ==
  /\ ledger' = Append(ledger, ChargeEntry(u, users[u].next))
  /\ \/ /\ users' = [users EXCEPT ![u].next = Advanced(u)]
        /\ pass' = AfterItem(item, TRUE)
     \/ pass' = NoPass /\ UNCHANGED users

(* The charge and the new date are committed together. *)
RecordCharge(u, item) ==
  /\ ledger' = Append(ledger, ChargeEntry(u, users[u].next))
  /\ users' = [users EXCEPT ![u].next = Advanced(u)]
  /\ pass' = AfterItem(item, TRUE)

(* ReserveSubscriptionCharge, one transaction. *)
ReserveSubscriptionCharge(u) ==
  \E item \in pass.batch :
    LET conflict == Charged(ledger, u, users[u].next)
    IN /\ pass.pc = "charge"
       /\ item.user = u
       /\ \A other \in pass.batch \ {item} : Before(item, other)
       /\ \/ /\ ~StillDue(item)
             /\ pass' = AfterItem(item, FALSE)
             /\ UNCHANGED <<users, ledger>>
          \/ /\ StillDue(item)
             /\ ~Fits(ledger, u, -users[u].fee)
             /\ pass' = NoPass
             /\ UNCHANGED <<users, ledger>>
          \/ /\ StillDue(item)
             /\ Fits(ledger, u, -users[u].fee)
             /\ conflict
             /\ pass' = AfterItem(item, FALSE)
             /\ UNCHANGED <<users, ledger>>
          \/ /\ StillDue(item)
             /\ Fits(ledger, u, -users[u].fee)
             /\ ~conflict
             /\ RecordCharge(u, item)
       /\ UNCHANGED <<today, since>>

CatchUp ==
  \/ StartCatchUp \/ UsersDueForCharge \/ CatchUpFails
  \/ \E u \in Users : ReserveSubscriptionCharge(u)

-----------------------------------------------------------------------------
(* Time passes, also while a pass runs or the service is down. *)
NextDay ==
  /\ \E d \in Days : Earlier(today, d) /\ today' = d
  /\ UNCHANGED <<users, ledger, pass, since>>

Next == Admin \/ CatchUp \/ NextDay

Spec == Init /\ [][Next]_vars

(***************************************************************************)
(* Fairness.  The scheduler starts a pass every day, a pass that runs goes *)
(* on, and storage does not fail forever.                                  *)
(***************************************************************************)
Fairness ==
  /\ WF_vars(StartCatchUp)
  /\ WF_vars(CatchUp /\ pass.pc # "idle")
  /\ SF_vars(UsersDueForCharge)
  /\ \A u \in Users : SF_vars(ReserveSubscriptionCharge(u))

FairSpec == Spec /\ Fairness

-----------------------------------------------------------------------------
(* Safety. *)

IsCharge(e) == e.kind = "subscription_charge"

(***************************************************************************)
(* A pass charges only a customer who is active when the charge commits,   *)
(* the fee of that moment, for the date then due, and never ahead of the   *)
(* calendar: what the listing read earlier may be stale, as the poller     *)
(* pauses, resumes and re-prices customers in between.                     *)
(***************************************************************************)
ChargesAreDue ==
  [][\A i \in 1 .. Len(ledger') :
       i > Len(ledger) /\ IsCharge(ledger'[i]) =>
         LET e == ledger'[i]
             u == e.user
         IN /\ users[u].status = "active"
            /\ e.period = users[u].next
            /\ OnOrBefore(e.period, today)
            /\ e.amount = -users[u].fee]_vars

(***************************************************************************)
(* No customer pays twice for one period, whatever crashes, failed passes, *)
(* pauses, resumptions at earlier dates and reversals come between.        *)
(***************************************************************************)
OneChargePerPeriod ==
  \A i, j \in 1 .. Len(ledger) :
    /\ IsCharge(ledger[i]) /\ IsCharge(ledger[j])
    /\ ledger[i].user = ledger[j].user
    /\ ledger[i].period = ledger[j].period
    => i = j

(* The billing date of a month: the anchor day, or the month's last day. *)
BillingDay(u, y, m) ==
  Date(y, m, IF Anchor[u] < DaysInMonth(y, m) THEN Anchor[u] ELSE DaysInMonth(y, m))

(* The date since[u], and the billing date of every later month. *)
IsBillingDate(u, d) ==
  d = since[u] \/ (InLaterMonth(since[u], d) /\ d = BillingDay(u, d.year, d.month))

(***************************************************************************)
(* Months are neither skipped nor slid: the next charge date is a billing  *)
(* date of the customer, and every billing date before it has its charge,  *)
(* through passes that catch up several months, crash or fail half-way.    *)
(***************************************************************************)
NoPeriodSkipped ==
  \A u \in Users : Exists(u) =>
    /\ IsBillingDate(u, users[u].next)
    /\ Earlier(since[u], users[u].next) => Charged(ledger, u, since[u])
    /\ \A y \in since[u].year .. users[u].next.year, m \in 1 .. 12 :
         LET d == BillingDay(u, y, m)
         IN InLaterMonth(since[u], d) /\ Earlier(d, users[u].next) => Charged(ledger, u, d)

(* The customer has been charged for the next charge date or a later one. *)
ChargedAhead(u) ==
  \E i \in 1 .. Len(ledger) :
    /\ IsCharge(ledger[i])
    /\ ledger[i].user = u
    /\ OnOrBefore(users[u].next, ledger[i].period)

(***************************************************************************)
(* Only a resumption puts a charge date back to where the customer has     *)
(* been charged.  No charge, pass, crash, new fee or change of status      *)
(* does, so the unique index refuses nobody without an /admin resume.      *)
(***************************************************************************)
OnlyResumptionsGoBack ==
  [][\A u \in Users :
       ChargedAhead(u)' => ChargedAhead(u) \/ \E next \in ResumeDates : Resume(u, next)]_vars

(***************************************************************************)
(* A reversal cancels exactly one entry of the same customer, no entry is  *)
(* cancelled twice, and so a balance is the sum of the entries that stand. *)
(***************************************************************************)
Standing(l, u) ==
  {i \in 1 .. Len(l) : l[i].user = u /\ l[i].kind # "reversal" /\ ~\E j \in 1 .. Len(l) : l[j].reverses = i}

StandingAmounts(l, u) ==
  [n \in 1 .. Len(l) |-> IF n \in Standing(l, u) THEN l[n].amount ELSE 0]

StandingSum(l, u) == RunningSums(StandingAmounts(l, u))[Len(l)]

BalanceCountsStanding ==
  \A u \in Users : Balance(ledger, u) = StandingSum(ledger, u)

(* No sequence of accepted writes takes a balance out of its type's range. *)
BalanceInRange == \A u \in Users : InRange(Balance(ledger, u))

-----------------------------------------------------------------------------
(* Liveness, under FairSpec. *)

(* Every pass ends, also when it meets customers it cannot charge. *)
PassEnds == pass.pc # "idle" ~> pass.pc = "idle"

IsDueToday(u) == users[u].status = "active" /\ OnOrBefore(users[u].next, today)

ItemOf(u) == [user |-> u, period |-> users[u].next]

(* The customers a pass of today meets before u. *)
InFront(u) == {v \in Users : v # u /\ IsDueToday(v) /\ Before(ItemOf(v), ItemOf(u))}

(***************************************************************************)
(* What keeps a pass from a customer: a fee that takes a balance out of    *)
(* its range, his own or one in front of him, which ends the pass; or a    *)
(* whole batch in front of him that only meets the unique index.           *)
(***************************************************************************)
HeldUp(u) ==
  /\ IsDueToday(u)
  /\ \/ \E v \in InFront(u) \union {u} : ~Fits(ledger, v, -users[v].fee)
     \/ Cardinality({v \in InFront(u) : Charged(ledger, v, users[v].next)}) >= BatchSize

(***************************************************************************)
(* HeldUp is all there is: once the administrator is done and nothing of   *)
(* it stands in the customer's way for good, a period that is due is       *)
(* charged in the end, though storage fails and passes meet others who     *)
(* cannot be charged.                                                      *)
(***************************************************************************)
DuePeriodIsCharged ==
  \A u \in Users : \A d \in {BillingDay(u, t.year, t.month) : t \in Days} \union FirstDates \union ResumeDates :
    \/ users[u].status = "active" /\ users[u].next = d /\ OnOrBefore(d, today)
         ~> Charged(ledger, u, d) \/ users[u].status # "active" \/ users[u].next # d
    \/ []<>HeldUp(u)
    \/ []<><<Admin>>_vars

(***************************************************************************)
(* service/billing/service.go:36: CatchUp charges every active user for    *)
(* all periods due.  An active customer does not stay due forever.         *)
(***************************************************************************)
CatchUpCatchesUp == \A u \in Users : IsDueToday(u) ~> ~IsDueToday(u)
=============================================================================
