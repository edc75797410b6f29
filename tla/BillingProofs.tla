---------------------------- MODULE BillingProofs ----------------------------
(***************************************************************************)
(* Proofs about Billing, for any customers, anchors, fees, dates, batch    *)
(* size and width of amounts.                                              *)
(***************************************************************************)
EXTENDS Billing, TLAPS

-----------------------------------------------------------------------------
(* Dates. *)

LEMMA MonthLengths ==
  ASSUME NEW y \in Nat, NEW m \in 1 .. 12
  PROVE  DaysInMonth(y, m) \in 28 .. 31
BY DEF DaysInMonth, IsLeapYear

LEMMA DateFields ==
  ASSUME NEW d \in Dates
  PROVE  d.year \in Nat /\ d.month \in 1 .. 12 /\ d.day \in 1 .. 31
BY DEF Dates

LEMMA DatesEqual ==
  ASSUME NEW a \in Dates, NEW b \in Dates,
         a.year = b.year, a.month = b.month, a.day = b.day
  PROVE  a = b
BY DEF Dates

(* Dates are totally ordered. *)
LEMMA DatesOrdered ==
  ASSUME NEW a \in Dates, NEW b \in Dates, NEW c \in Dates
  PROVE  /\ ~Earlier(a, a)
         /\ Earlier(a, b) => ~Earlier(b, a)
         /\ Earlier(a, b) /\ Earlier(b, c) => Earlier(a, c)
         /\ OnOrBefore(a, b) /\ OnOrBefore(b, c) => OnOrBefore(a, c)
         /\ OnOrBefore(a, b) /\ Earlier(b, c) => Earlier(a, c)
         /\ Earlier(a, b) \/ a = b \/ Earlier(b, a)
BY DateFields, DatesEqual DEF Earlier, OnOrBefore

(***************************************************************************)
(* domain/calendar.go: from a valid date, NextBillingDate is a valid date  *)
(* of the month that follows, on the anchor day if that month has it and   *)
(* on its last day otherwise.                                              *)
(***************************************************************************)
THEOREM NextBillingDateCorrect ==
  ASSUME NEW d \in Dates, NEW anchorDay \in 1 .. 31
  PROVE  LET n == NextBillingDate(d, anchorDay)
             m == FollowingMonth(d)
         IN /\ IsValid(n)
            /\ n.year = m.year /\ n.month = m.month
            /\ 12 * n.year + n.month = 12 * d.year + d.month + 1
            /\ n.day = anchorDay \/ (n.day = DaysInMonth(n.year, n.month) /\ n.day < anchorDay)
<1> DEFINE m == FollowingMonth(d)
           n == NextBillingDate(d, anchorDay)
           length == DaysInMonth(m.year, m.month)
<1>1. /\ m \in Dates
      /\ m.year \in Nat /\ m.month \in 1 .. 12
      /\ 12 * m.year + m.month = 12 * d.year + d.month + 1
  BY DateFields DEF FollowingMonth, Date, Dates
<1>2. length \in 28 .. 31
  BY <1>1, MonthLengths
<1>3. n = [m EXCEPT !.day = IF anchorDay < length THEN anchorDay ELSE length]
  BY DEF NextBillingDate
<1>4. n \in Dates /\ n.year = m.year /\ n.month = m.month
      /\ n.day = IF anchorDay < length THEN anchorDay ELSE length
  BY <1>1, <1>2, <1>3 DEF Dates
<1>5. n.day <= length
  BY <1>2, <1>4
<1>6. n.day = anchorDay \/ (n.day = length /\ n.day < anchorDay)
  BY <1>2, <1>4
<1> QED
  BY <1>1, <1>4, <1>5, <1>6 DEF IsValid

-----------------------------------------------------------------------------
(* Ledgers. *)

LEMMA AppendEntry ==
  ASSUME NEW l \in Seq(Entry), NEW e \in Entry
  PROVE  /\ Append(l, e) \in Seq(Entry)
         /\ Len(l) \in Nat
         /\ Len(Append(l, e)) = Len(l) + 1
         /\ \A i \in 1 .. Len(l) : Append(l, e)[i] = l[i]
         /\ Append(l, e)[Len(l) + 1] = e
OBVIOUS

LEMMA ChargedAfterAppend ==
  ASSUME NEW l \in Seq(Entry), NEW e \in Entry, NEW u \in Users, NEW d \in Dates
  PROVE  /\ Charged(l, u, d) => Charged(Append(l, e), u, d)
         /\ (e.kind = "subscription_charge" /\ e.user = u /\ e.period = d)
              => Charged(Append(l, e), u, d)
<1>1. ASSUME Charged(l, u, d)
      PROVE  Charged(Append(l, e), u, d)
  <2>1. PICK i \in 1 .. Len(l) :
          l[i].kind = "subscription_charge" /\ l[i].user = u /\ l[i].period = d
    BY <1>1 DEF Charged
  <2>2. i \in 1 .. Len(Append(l, e)) /\ Append(l, e)[i] = l[i]
    BY AppendEntry
  <2> QED
    BY <2>1, <2>2 DEF Charged
<1>2. ASSUME e.kind = "subscription_charge", e.user = u, e.period = d
      PROVE  Charged(Append(l, e), u, d)
  <2>1. Len(l) + 1 \in 1 .. Len(Append(l, e)) /\ Append(l, e)[Len(l) + 1] = e
    BY AppendEntry
  <2> QED
    BY <1>2, <2>1 DEF Charged
<1> QED
  BY <1>1, <1>2

-----------------------------------------------------------------------------
(* What the steps do to the tables. *)

(* A manual entry or a reversal is appended to the ledger. *)
ManualWrite ==
  /\ \E e \in Entry : e.kind # "subscription_charge" /\ ledger' = Append(ledger, e)
  /\ UNCHANGED <<users, today, pass, since>>

(* A profile is created, re-priced, or its status changed. *)
ProfileWrite(u) ==
  /\ \E s \in {"active", "paused", "disabled"}, fee \in Fees, next \in Dates :
       /\ IsValid(next)
       /\ users' = [users EXCEPT ![u] = [status |-> s, fee |-> fee, next |-> next]]
       /\ \/ since' = [since EXCEPT ![u] = next]
          \/ Exists(u) /\ next = users[u].next /\ since' = since
       /\ ~Exists(u) \/ next = users[u].next \/ (next \in ResumeDates /\ Resume(u, next))
  /\ UNCHANGED <<ledger, today, pass>>

(* A charge commits. *)
ChargeWrite(u) ==
  /\ users[u].status = "active"
  /\ \E item \in pass.batch : item.user = u /\ item.period = users[u].next
  /\ ~Charged(ledger, u, users[u].next)
  /\ ledger' = Append(ledger, ChargeEntry(u, users[u].next))
  /\ users' = [users EXCEPT ![u].next = Advanced(u)]
  /\ UNCHANGED <<today, since>>

(* The pass in memory, apart from its end. *)
PassMoves ==
  /\ pass' \in Pass
  /\ \/ pass' = NoPass
     \/ pass'.pc = "list" /\ pass'.batch = {} /\ pass'.asOf = today
     \/ pass.pc # "idle" /\ pass'.asOf = pass.asOf /\ pass'.batch \subseteq pass.batch
        /\ (pass'.pc = "charge" \/ (pass'.pc = "list" /\ pass'.batch = {}))
     \/ pass.pc # "idle" /\ pass'.asOf = pass.asOf /\ pass'.pc = "charge"
        /\ pass'.batch \subseteq DueForCharge(pass.asOf)

(* A write that leaves the date where it is. *)
LEMMA SameDateWrite ==
  ASSUME NEW u \in Users, Exists(u), users[u].next \in Dates, IsValid(users[u].next),
         NEW s \in {"active", "paused", "disabled"}, NEW fee \in Fees,
         users' = [users EXCEPT ![u] = [status |-> s, fee |-> fee, next |-> users[u].next]],
         UNCHANGED <<since, ledger, today, pass>>
  PROVE  ProfileWrite(u)
BY Zenon DEF ProfileWrite

LEMMA AdminWrites ==
  ASSUME BillingTypeOK, Admin
  PROVE  ManualWrite \/ \E u \in Users : ProfileWrite(u)
<1> USE ProfilesAssumption, AmountsAssumption, BillingBoundsAssumption, BillingNullAssumption
<1>0. PICK u \in Users :
        \/ \E fee \in Fees, next \in FirstDates : CreateUser(u, fee, next)
        \/ \E kind \in Manual, amount \in Amounts : CreateLedgerEntry(u, kind, amount)
        \/ \E id \in 1 .. Len(ledger) : ReverseLedgerEntry(u, id)
        \/ \E fee \in Fees : SetMonthlyFee(u, fee)
        \/ Pause(u) \/ Disable(u)
        \/ \E next \in ResumeDates : Resume(u, next)
  BY DEF Admin
<1>1. ASSUME NEW fee \in Fees, NEW next \in FirstDates, CreateUser(u, fee, next)
      PROVE  ProfileWrite(u)
  BY <1>1 DEF CreateUser, ProfileWrite
<1>2. ASSUME NEW kind \in Manual, NEW amount \in Amounts, CreateLedgerEntry(u, kind, amount)
      PROVE  ManualWrite
  <2>1. ManualEntry(u, kind, amount) \in Entry
    BY DEF ManualEntry, Entry, Kinds
  <2>2. ManualEntry(u, kind, amount).kind # "subscription_charge"
    BY DEF ManualEntry, Manual
  <2> QED
    BY <1>2, <2>1, <2>2 DEF CreateLedgerEntry, ManualWrite
<1>3. ASSUME NEW id \in 1 .. Len(ledger), ReverseLedgerEntry(u, id)
      PROVE  ManualWrite
  <2>1. ledger[id] \in Entry
    BY DEF BillingTypeOK
  <2>2. ReversalEntry(id) \in Entry
    BY <2>1 DEF ReversalEntry, Entry, Kinds
  <2>3. ReversalEntry(id).kind # "subscription_charge"
    BY DEF ReversalEntry
  <2> QED
    BY <1>3, <2>2, <2>3 DEF ReverseLedgerEntry, ManualWrite
<1>4. users \in [Users -> Profile]
  BY DEF BillingTypeOK
<1>5. Exists(u) => /\ users[u].status \in {"active", "paused", "disabled"}
                   /\ users[u].fee \in Fees
                   /\ users[u].next \in Dates /\ IsValid(users[u].next)
                   /\ users[u] = [status |-> users[u].status, fee |-> users[u].fee,
                                  next |-> users[u].next]
  BY <1>4 DEF BillingTypeOK, Exists, Profile, Statuses, IsValid
<1>6. ASSUME NEW fee \in Fees, SetMonthlyFee(u, fee)
      PROVE  ProfileWrite(u)
  <2>0. [users[u] EXCEPT !.fee = fee]
          = [status |-> users[u].status, fee |-> fee, next |-> users[u].next]
    BY <1>5, <1>6 DEF SetMonthlyFee
  <2>1. users' = [users EXCEPT ![u] = [status |-> users[u].status, fee |-> fee,
                                      next |-> users[u].next]]
    BY <2>0, <1>6 DEF SetMonthlyFee
  <2> QED
    BY <1>5, <1>6, <2>1, SameDateWrite DEF SetMonthlyFee
<1>7. ASSUME Pause(u) \/ Disable(u)
      PROVE  ProfileWrite(u)
  <2>1. PICK to \in {"paused", "disabled"} : SetStatus(u, {"active", "paused"}, to)
    BY <1>7 DEF Pause, Disable, SetStatus
  <2>2. Exists(u)
    BY <2>1 DEF SetStatus, Exists
  <2>0. [users[u] EXCEPT !.status = to]
          = [status |-> to, fee |-> users[u].fee, next |-> users[u].next]
    BY <1>5, <2>2
  <2>3. users' = [users EXCEPT ![u] = [status |-> to, fee |-> users[u].fee,
                                      next |-> users[u].next]]
    BY <2>0, <2>1 DEF SetStatus
  <2> QED
    BY <1>5, <2>1, <2>2, <2>3, SameDateWrite DEF SetStatus
<1>8. ASSUME NEW next \in ResumeDates, Resume(u, next)
      PROVE  ProfileWrite(u)
  <2>1. Exists(u)
    BY <1>8 DEF Resume, Exists
  <2>0. [users[u] EXCEPT !.status = "active", !.next = next]
          = [status |-> "active", fee |-> users[u].fee, next |-> next]
    <3>1. [users[u] EXCEPT !.status = "active"]
            = [status |-> "active", fee |-> users[u].fee, next |-> users[u].next]
      BY <1>5, <2>1
    <3>2. [users[u] EXCEPT !.status = "active", !.next = next]
            = [[users[u] EXCEPT !.status = "active"] EXCEPT !.next = next]
      OBVIOUS
    <3>3. [[status |-> "active", fee |-> users[u].fee, next |-> users[u].next] EXCEPT !.next = next]
            = [status |-> "active", fee |-> users[u].fee, next |-> next]
      OBVIOUS
    <3> QED
      BY <3>1, <3>2, <3>3
  <2>2. users' = [users EXCEPT ![u] = [status |-> "active", fee |-> users[u].fee,
                                      next |-> next]]
    BY <2>0, <1>8 DEF Resume
  <2> QED
    BY <1>5, <1>8, <2>1, <2>2 DEF Resume, ProfileWrite
<1> QED
  BY <1>0, <1>1, <1>2, <1>3, <1>6, <1>7, <1>8

LEMMA CatchUpWrites ==
  ASSUME BillingTypeOK, CatchUp
  PROVE  /\ PassMoves
         /\ UNCHANGED <<users, ledger, today, since>> \/ \E u \in Users : ChargeWrite(u)
<1> USE ProfilesAssumption, BillingNullAssumption
<1>0. pass \in Pass /\ NoPass \in Pass
  BY DEF BillingTypeOK, NoPass, Pass
<1>1. CASE StartCatchUp
  BY <1>0, <1>1 DEF StartCatchUp, PassMoves, Pass, NoPass, BillingTypeOK
<1>2. CASE UsersDueForCharge
  <2>1. PICK batch \in SUBSET DueForCharge(pass.asOf) :
          pass' = IF batch = {} THEN NoPass
                  ELSE [pass EXCEPT !.pc = "charge", !.batch = batch, !.progress = FALSE]
    BY <1>2 DEF UsersDueForCharge
  <2>2. DueForCharge(pass.asOf) \subseteq Item
    <3>1. \A v \in Users : users[v].status = "active" => users[v].next \in Dates
      BY DEF BillingTypeOK, IsValid
    <3> QED
      BY <3>1 DEF DueForCharge, Item
  <2>3. batch \in SUBSET Item
    BY <2>2
  <2>4. CASE batch = {}
    BY <1>0, <1>2, <2>1, <2>4 DEF UsersDueForCharge, PassMoves
  <2>5. CASE batch # {}
    <3>1. /\ pass' \in Pass
          /\ pass'.pc = "charge" /\ pass'.batch = batch /\ pass'.asOf = pass.asOf
      BY <1>0, <2>1, <2>3, <2>5 DEF Pass
    <3> QED
      BY <1>2, <3>1 DEF UsersDueForCharge, PassMoves
  <2> QED
    BY <2>4, <2>5
<1>3. CASE CatchUpFails
  BY <1>0, <1>3 DEF CatchUpFails, PassMoves
<1>4. ASSUME NEW u \in Users, ReserveSubscriptionCharge(u)
      PROVE  /\ PassMoves
             /\ UNCHANGED <<users, ledger, today, since>> \/ ChargeWrite(u)
  <2>1. PICK item \in pass.batch :
          /\ pass.pc = "charge"
          /\ item.user = u
          /\ \/ UNCHANGED <<users, ledger>>
             \/ /\ StillDue(item)
                /\ ~Charged(ledger, u, users[u].next)
                /\ ledger' = Append(ledger, ChargeEntry(u, users[u].next))
                /\ users' = [users EXCEPT ![u].next = Advanced(u)]
          /\ pass' \in {NoPass, AfterItem(item, TRUE), AfterItem(item, FALSE)}
          /\ UNCHANGED <<today, since>>
    BY <1>4 DEF ReserveSubscriptionCharge, RecordCharge
  <2>2. ASSUME NEW created \in BOOLEAN, pass' = AfterItem(item, created)
        PROVE  PassMoves
    <3>1. pass.progress \/ created \in BOOLEAN
      OBVIOUS
    <3>2. \/ pass' = NoPass
          \/ pass' = [pass EXCEPT !.pc = "list", !.batch = {}, !.progress = FALSE]
          \/ pass' = [pass EXCEPT !.batch = @ \ {item}, !.progress = pass.progress \/ created]
      BY <2>2 DEF AfterItem, AfterBatch
    <3>3. CASE pass' = [pass EXCEPT !.pc = "list", !.batch = {}, !.progress = FALSE]
      <4>1. pass' \in Pass /\ pass'.pc = "list" /\ pass'.batch = {} /\ pass'.asOf = pass.asOf
        BY <1>0, <3>3 DEF Pass
      <4> QED
        BY <2>1, <4>1 DEF PassMoves
    <3>4. CASE pass' = [pass EXCEPT !.batch = @ \ {item}, !.progress = pass.progress \/ created]
      <4>1. pass' \in Pass /\ pass'.pc = "charge"
            /\ pass'.batch \subseteq pass.batch /\ pass'.asOf = pass.asOf
        BY <1>0, <2>1, <3>1, <3>4 DEF Pass
      <4> QED
        BY <2>1, <4>1 DEF PassMoves
    <3> QED
      BY <1>0, <3>2, <3>3, <3>4 DEF PassMoves
  <2>3. PassMoves
    BY <1>0, <2>1, <2>2 DEF PassMoves
  <2> QED
    BY <2>1, <2>3 DEF StillDue, ChargeWrite
<1> QED
  BY <1>1, <1>2, <1>3, <1>4 DEF CatchUp

-----------------------------------------------------------------------------
(* The invariant. *)

(* A pass works for a date not in the future, on customers due by then. *)
CurrentPass ==
  /\ pass.pc # "idle" => pass.asOf \in Dates /\ OnOrBefore(pass.asOf, today)
  /\ \A item \in pass.batch : pass.pc = "charge" /\ OnOrBefore(item.period, pass.asOf)

BillingInv == BillingTypeOK /\ CurrentPass /\ OneChargePerPeriod /\ NoPeriodSkipped

LEMMA DaysAreDates == \A d \in Days : d \in Dates
BY ProfilesAssumption

LEMMA BillingInit == Init => BillingInv
<1> SUFFICES ASSUME Init
             PROVE  BillingInv
  OBVIOUS
<1> USE ProfilesAssumption, BillingNullAssumption DEF Init
<1>1. ledger \in Seq(Entry) /\ Len(ledger) = 0
  OBVIOUS
<1>2. pass \in Pass /\ pass.pc = "idle" /\ pass.batch = {}
  BY DEF NoPass, Pass
<1>3. BillingTypeOK
  BY <1>1, <1>2 DEF BillingTypeOK, Profile, Statuses
<1>4. CurrentPass
  BY <1>2 DEF CurrentPass
<1>5. OneChargePerPeriod
  BY <1>1 DEF OneChargePerPeriod
<1>6. NoPeriodSkipped
  BY DEF NoPeriodSkipped, Exists
<1> QED
  BY <1>3, <1>4, <1>5, <1>6 DEF BillingInv

LEMMA AdvancedValid ==
  ASSUME BillingTypeOK, NEW u \in Users, users[u].status = "active"
  PROVE  /\ users[u].next \in Dates /\ IsValid(users[u].next)
         /\ Advanced(u) \in Dates /\ IsValid(Advanced(u))
         /\ ChargeEntry(u, users[u].next) \in Entry
<1>1. users[u].next \in Dates /\ IsValid(users[u].next) /\ users[u].fee \in Fees
  BY DEF BillingTypeOK, IsValid
<1>2. Anchor[u] \in 1 .. 31
  BY ProfilesAssumption
<1>3. IsValid(Advanced(u))
  BY <1>1, <1>2, NextBillingDateCorrect DEF Advanced
<1>4. -users[u].fee \in Int
  BY <1>1, AmountsAssumption
<1>5. ChargeEntry(u, users[u].next) \in Entry
  BY <1>1, <1>4 DEF ChargeEntry, Entry, Kinds
<1> QED
  BY <1>1, <1>3, <1>5 DEF IsValid

(* What a step is, for the tables and for the pass. *)
LEMMA StepKinds ==
  ASSUME BillingTypeOK, [Next]_vars
  PROVE  /\ \/ ManualWrite
            \/ \E u \in Users : ProfileWrite(u)
            \/ PassMoves /\ \E u \in Users : ChargeWrite(u)
            \/ PassMoves /\ UNCHANGED <<users, ledger, today, since>>
            \/ NextDay
            \/ UNCHANGED vars
<1>1. CASE Admin
  BY <1>1, AdminWrites
<1>2. CASE CatchUp
  BY <1>2, CatchUpWrites
<1> QED
  BY <1>1, <1>2 DEF Next

LEMMA TypesKept ==
  ASSUME BillingTypeOK, [Next]_vars
  PROVE  BillingTypeOK'
<1>1. CASE ManualWrite
  BY <1>1, AppendEntry DEF ManualWrite, BillingTypeOK
<1>2. ASSUME NEW u \in Users, ProfileWrite(u)
      PROVE  BillingTypeOK'
  <2>1. PICK s \in {"active", "paused", "disabled"}, fee \in Fees, next \in Dates :
          /\ IsValid(next)
          /\ users' = [users EXCEPT ![u] = [status |-> s, fee |-> fee, next |-> next]]
          /\ since' = [since EXCEPT ![u] = next] \/ since' = since
    BY <1>2 DEF ProfileWrite
  <2>2. [status |-> s, fee |-> fee, next |-> next] \in Profile
    BY DEF Profile, Statuses
  <2>3. users' \in [Users -> Profile]
    BY <2>1, <2>2 DEF BillingTypeOK
  <2>4. \A v \in Users : users'[v].status # "none" => IsValid(users'[v].next) /\ users'[v].fee \in Fees
    BY <2>1 DEF BillingTypeOK
  <2>5. since' \in [Users -> Dates \union {Null}]
    BY <2>1 DEF BillingTypeOK
  <2> QED
    BY <1>2, <2>3, <2>4, <2>5 DEF ProfileWrite, BillingTypeOK
<1>3. ASSUME PassMoves, NEW u \in Users, ChargeWrite(u)
      PROVE  BillingTypeOK'
  <2>1. /\ Advanced(u) \in Dates /\ IsValid(Advanced(u))
        /\ ChargeEntry(u, users[u].next) \in Entry
    BY <1>3, AdvancedValid DEF ChargeWrite
  <2>2. ledger' \in Seq(Entry)
    BY <1>3, <2>1, AppendEntry DEF ChargeWrite, BillingTypeOK
  <2>3. [users[u] EXCEPT !.next = Advanced(u)] \in Profile
    BY <2>1 DEF BillingTypeOK, Profile
  <2>4. users' \in [Users -> Profile]
    BY <1>3, <2>3 DEF ChargeWrite, BillingTypeOK
  <2>5. \A v \in Users : users'[v].status # "none" => IsValid(users'[v].next) /\ users'[v].fee \in Fees
    BY <1>3, <2>1 DEF ChargeWrite, BillingTypeOK, Profile
  <2> QED
    BY <1>3, <2>2, <2>4, <2>5 DEF PassMoves, ChargeWrite, BillingTypeOK
<1>4. CASE PassMoves /\ UNCHANGED <<users, ledger, today, since>>
  BY <1>4 DEF PassMoves, BillingTypeOK
<1>5. CASE NextDay
  BY <1>5 DEF NextDay, BillingTypeOK
<1>6. CASE UNCHANGED vars
  BY <1>6 DEF vars, BillingTypeOK
<1> QED
  BY <1>1, <1>2, <1>3, <1>4, <1>5, <1>6, StepKinds

LEMMA PassKept ==
  ASSUME BillingTypeOK, CurrentPass, [Next]_vars
  PROVE  CurrentPass'
<1>0. today \in Dates
  BY DaysAreDates DEF BillingTypeOK
<1>1. ASSUME PassMoves, today' = today
      PROVE  CurrentPass'
  <2>1. CASE pass' = NoPass
    BY <2>1 DEF NoPass, CurrentPass
  <2>2. CASE pass'.pc = "list" /\ pass'.batch = {} /\ pass'.asOf = today
    BY <1>0, <1>1, <2>2 DEF CurrentPass, OnOrBefore
  <2>3. CASE /\ pass.pc # "idle" /\ pass'.asOf = pass.asOf /\ pass'.pc = "charge"
             /\ pass'.batch \subseteq DueForCharge(pass.asOf)
    <3>1. \A item \in pass'.batch : OnOrBefore(item.period, pass.asOf)
      BY <2>3 DEF DueForCharge
    <3> QED
      BY <1>1, <2>3, <3>1 DEF CurrentPass
  <2>4. CASE /\ pass.pc # "idle" /\ pass'.asOf = pass.asOf /\ pass'.batch \subseteq pass.batch
             /\ pass'.pc = "charge" \/ (pass'.pc = "list" /\ pass'.batch = {})
    BY <1>1, <2>4 DEF CurrentPass
  <2> HIDE DEF CurrentPass
  <2>5. \/ pass' = NoPass
        \/ pass'.pc = "list" /\ pass'.batch = {} /\ pass'.asOf = today
        \/ pass.pc # "idle" /\ pass'.asOf = pass.asOf /\ pass'.batch \subseteq pass.batch
           /\ (pass'.pc = "charge" \/ (pass'.pc = "list" /\ pass'.batch = {}))
        \/ pass.pc # "idle" /\ pass'.asOf = pass.asOf /\ pass'.pc = "charge"
           /\ pass'.batch \subseteq DueForCharge(pass.asOf)
    BY <1>1 DEF PassMoves
  <2> QED
    BY <2>1, <2>2, <2>3, <2>4, <2>5
<1>2. CASE NextDay
  <2>1. today' \in Dates /\ OnOrBefore(today, today')
    BY <1>2, DaysAreDates DEF NextDay, OnOrBefore
  <2>2. pass.pc # "idle" => OnOrBefore(pass.asOf, today')
    BY <1>0, <2>1, DatesOrdered DEF CurrentPass
  <2> QED
    BY <1>2, <2>2 DEF NextDay, CurrentPass
<1>3. CASE pass' = pass /\ today' = today
  BY <1>3 DEF CurrentPass
<1> QED
  BY <1>1, <1>2, <1>3, StepKinds DEF ManualWrite, ProfileWrite, ChargeWrite, vars

LEMMA ChargesStaySingle ==
  ASSUME BillingTypeOK, OneChargePerPeriod, [Next]_vars
  PROVE  OneChargePerPeriod'
<1>1. ASSUME NEW e \in Entry, ledger' = Append(ledger, e),
             IsCharge(e) => ~Charged(ledger, e.user, e.period)
      PROVE  OneChargePerPeriod'
  <2> SUFFICES ASSUME NEW i \in 1 .. Len(ledger'), NEW j \in 1 .. Len(ledger'),
                      IsCharge(ledger'[i]), IsCharge(ledger'[j]),
                      ledger'[i].user = ledger'[j].user,
                      ledger'[i].period = ledger'[j].period
               PROVE  i = j
    BY DEF OneChargePerPeriod
  <2>1. /\ Len(ledger') = Len(ledger) + 1
        /\ Len(ledger) \in Nat
        /\ \A n \in 1 .. Len(ledger) : ledger'[n] = ledger[n]
        /\ ledger'[Len(ledger) + 1] = e
    BY <1>1, AppendEntry DEF BillingTypeOK
  <2>2. ASSUME NEW n \in 1 .. Len(ledger), IsCharge(e), IsCharge(ledger[n])
        PROVE  ~(ledger[n].user = e.user /\ ledger[n].period = e.period)
    BY <1>1, <2>2 DEF Charged, IsCharge
  <2> QED
    BY <2>1, <2>2 DEF OneChargePerPeriod
<1>2. CASE ManualWrite
  BY <1>1, <1>2 DEF ManualWrite, IsCharge
<1>3. ASSUME NEW u \in Users, ChargeWrite(u)
      PROVE  OneChargePerPeriod'
  <2>1. ChargeEntry(u, users[u].next) \in Entry
    BY <1>3, AdvancedValid DEF ChargeWrite
  <2>2. ~Charged(ledger, ChargeEntry(u, users[u].next).user, ChargeEntry(u, users[u].next).period)
    BY <1>3 DEF ChargeWrite, ChargeEntry
  <2> QED
    BY <1>1, <1>3, <2>1, <2>2 DEF ChargeWrite
<1>4. CASE UNCHANGED ledger
  BY <1>4 DEF OneChargePerPeriod
<1> QED
  BY <1>2, <1>3, <1>4, StepKinds DEF ProfileWrite, NextDay, vars

-----------------------------------------------------------------------------
(* No billing date is skipped. *)

LEMMA BillingDayIsDate ==
  ASSUME NEW u \in Users, NEW y \in Nat, NEW m \in 1 .. 12
  PROVE  /\ BillingDay(u, y, m) \in Dates
         /\ BillingDay(u, y, m).year = y
         /\ BillingDay(u, y, m).month = m
<1>1. DaysInMonth(y, m) \in 28 .. 31 /\ Anchor[u] \in 1 .. 31
  BY MonthLengths, ProfilesAssumption
<1> QED
  BY <1>1 DEF BillingDay, Date, Dates

LEMMA MonthNumbers ==
  ASSUME NEW y \in Nat, NEW m \in 1 .. 12, NEW z \in Nat, NEW n \in 1 .. 12,
         12 * y + m = 12 * z + n
  PROVE  y = z /\ m = n
OBVIOUS

LEMMA LaterMonthIsLater ==
  ASSUME NEW a \in Dates, NEW b \in Dates, InLaterMonth(a, b)
  PROVE  Earlier(a, b)
BY DateFields DEF InLaterMonth, Earlier

(* The next charge date moves to the billing date of the following month. *)
LEMMA AdvancedIsBillingDay ==
  ASSUME BillingTypeOK, NEW u \in Users, users[u].status = "active"
  PROVE  LET n == Advanced(u)
             d == users[u].next
         IN /\ n = BillingDay(u, n.year, n.month)
            /\ 12 * n.year + n.month = 12 * d.year + d.month + 1
            /\ InLaterMonth(d, n)
<1> DEFINE d == users[u].next
           n == Advanced(u)
           m == FollowingMonth(d)
           length == DaysInMonth(m.year, m.month)
<1>1. d \in Dates /\ n \in Dates /\ Anchor[u] \in 1 .. 31
  BY AdvancedValid, ProfilesAssumption
<1>2. n.year = m.year /\ n.month = m.month /\ 12 * n.year + n.month = 12 * d.year + d.month + 1
  BY <1>1, NextBillingDateCorrect DEF Advanced
<1>3. n.day = IF Anchor[u] < length THEN Anchor[u] ELSE length
  <2>1. m \in Dates
    BY <1>1, DateFields DEF FollowingMonth, Date, Dates
  <2> QED
    BY <2>1 DEF Advanced, NextBillingDate, Dates
<1>4. n = Date(n.year, n.month, n.day)
  BY <1>1 DEF Date, Dates
<1>5. n = BillingDay(u, n.year, n.month)
  BY <1>2, <1>3, <1>4 DEF BillingDay
<1>6. InLaterMonth(d, n)
  BY <1>1, <1>2, DateFields DEF InLaterMonth
<1> QED
  BY <1>2, <1>5, <1>6

(* One customer's part of NoPeriodSkipped. *)
PeriodsKept(u) ==
  Exists(u) =>
    /\ IsBillingDate(u, users[u].next)
    /\ Earlier(since[u], users[u].next) => Charged(ledger, u, since[u])
    /\ \A y \in since[u].year .. users[u].next.year, m \in 1 .. 12 :
         LET d == BillingDay(u, y, m)
         IN InLaterMonth(since[u], d) /\ Earlier(d, users[u].next) => Charged(ledger, u, d)

(* Growing the ledger disturbs nothing. *)
LEMMA PeriodsKeptByAppend ==
  ASSUME BillingTypeOK, NEW v \in Users, PeriodsKept(v), NEW e \in Entry,
         ledger' = Append(ledger, e) \/ ledger' = ledger,
         users'[v] = users[v], since'[v] = since[v],
         Exists(v) => since[v] \in Dates
  PROVE  PeriodsKept(v)'
<1> SUFFICES ASSUME Exists(v)
             PROVE  PeriodsKept(v)'
  BY DEF PeriodsKept, Exists
<1>1. since[v] \in Dates /\ users[v].next \in Dates
  BY DEF BillingTypeOK, Exists, IsValid
<1>2. \A d \in Dates : Charged(ledger, v, d) => Charged(ledger', v, d)
  BY ChargedAfterAppend DEF BillingTypeOK
<1>3. ASSUME NEW y \in since[v].year .. users[v].next.year, NEW m \in 1 .. 12
      PROVE  BillingDay(v, y, m) \in Dates
  <2>1. y \in Nat
    BY <1>1, DateFields
  <2> QED
    BY <2>1, BillingDayIsDate
<1>4. IsBillingDate(v, users[v].next)'
  BY DEF PeriodsKept, IsBillingDate, BillingDay
<1>5. (Earlier(since[v], users[v].next) => Charged(ledger, v, since[v]))'
  BY <1>1, <1>2 DEF PeriodsKept
<1>6. ASSUME NEW y \in since[v].year .. users[v].next.year, NEW m \in 1 .. 12,
             InLaterMonth(since[v], BillingDay(v, y, m)), Earlier(BillingDay(v, y, m), users[v].next)
      PROVE  Charged(ledger', v, BillingDay(v, y, m))
  BY <1>2, <1>3, <1>6 DEF PeriodsKept
<1> QED
  BY <1>4, <1>5, <1>6 DEF PeriodsKept, BillingDay

(***************************************************************************)
(* A charge: the billing dates before the new next date are the old ones   *)
(* and the date just charged, as a month has one billing date.             *)
(***************************************************************************)
LEMMA PeriodsKeptByCharge ==
  ASSUME BillingTypeOK, NEW u \in Users, PeriodsKept(u), ChargeWrite(u), since[u] \in Dates
  PROVE  PeriodsKept(u)'
<1> DEFINE old == users[u].next
           new == Advanced(u)
           e == ChargeEntry(u, old)
<1>1. /\ old \in Dates /\ new \in Dates /\ e \in Entry
      /\ Exists(u)
  BY AdvancedValid DEF ChargeWrite, Exists
<1>2. /\ users'[u].next = new
      /\ since'[u] = since[u]
      /\ ledger' = Append(ledger, e)
  BY DEF ChargeWrite, BillingTypeOK, Profile
<1>3. /\ new = BillingDay(u, new.year, new.month)
      /\ 12 * new.year + new.month = 12 * old.year + old.month + 1
      /\ InLaterMonth(old, new)
  BY AdvancedIsBillingDay DEF ChargeWrite
<1>4. IsBillingDate(u, old)
  BY <1>1 DEF PeriodsKept
<1>5. old = since[u] \/ InLaterMonth(since[u], old)
  BY <1>4 DEF IsBillingDate
<1>6. InLaterMonth(since[u], new)
  BY <1>1, <1>3, <1>5, DateFields DEF InLaterMonth
<1>7. \A d \in Dates : Charged(ledger, u, d) \/ d = old => Charged(ledger', u, d)
  <2>1. e.kind = "subscription_charge" /\ e.user = u /\ e.period = old
    BY DEF ChargeEntry
  <2> QED
    BY <1>1, <1>2, <2>1, ChargedAfterAppend DEF BillingTypeOK
<1>8. IsBillingDate(u, new)
  BY <1>3, <1>6 DEF IsBillingDate
<1>9. Charged(ledger', u, since[u])
  BY <1>1, <1>5, <1>7, LaterMonthIsLater DEF PeriodsKept
<1>10. ASSUME NEW y \in since[u].year .. new.year, NEW m \in 1 .. 12,
              InLaterMonth(since[u], BillingDay(u, y, m)), Earlier(BillingDay(u, y, m), new)
       PROVE  Charged(ledger', u, BillingDay(u, y, m))
  <2> DEFINE d == BillingDay(u, y, m)
  <2>1. y \in Nat
    BY <1>1, DateFields
  <2>2. d \in Dates /\ d.year = y /\ d.month = m
    BY <2>1, BillingDayIsDate
  <2>3. CASE Earlier(d, old)
    <3>1. y \in since[u].year .. old.year
      BY <1>1, <2>2, <2>3, DateFields DEF Earlier
    <3> QED
      BY <1>1, <1>7, <1>10, <2>2, <2>3, <3>1 DEF PeriodsKept
  <2>4. CASE d = old
    BY <1>7, <2>2, <2>4
  <2>5. CASE Earlier(old, d)
    <3>1. \/ y = new.year /\ m = new.month
          \/ y = old.year /\ m = old.month
      <4>1. 12 * y + m >= 12 * old.year + old.month
        BY <1>1, <2>1, <2>2, <2>5, DateFields DEF Earlier
      <4>2. 12 * y + m <= 12 * new.year + new.month
        BY <1>1, <1>10, <2>1, <2>2, DateFields DEF Earlier
      <4>3. /\ old.year \in Nat /\ old.month \in 1 .. 12
            /\ new.year \in Nat /\ new.month \in 1 .. 12
        BY <1>1, DateFields
      <4>4. 12 * y + m = 12 * old.year + old.month \/ 12 * y + m = 12 * new.year + new.month
        <5> DEFINE i == 12 * y + m
                   first == 12 * old.year + old.month
                   last == 12 * new.year + new.month
        <5>1. i \in Int /\ first \in Int /\ last = first + 1
          BY <1>3, <2>1, <4>3
        <5>2. first <= i /\ i <= last
          BY <4>1, <4>2, <2>1, <4>3
        <5> HIDE DEF i, first, last
        <5>3. i = first \/ i = last
          BY <5>1, <5>2
        <5> QED
          BY <5>3 DEF i, first, last
      <4> QED
        BY <2>1, <4>3, <4>4, MonthNumbers
    <3>2. ~(y = new.year /\ m = new.month)
      BY <1>1, <1>3, <1>10, DatesOrdered
    <3>3. InLaterMonth(since[u], old)
      BY <1>10, <2>2, <3>1, <3>2 DEF InLaterMonth
    <3>4. old # since[u]
      BY <1>1, <3>3, LaterMonthIsLater, DatesOrdered
    <3>5. old = d
      BY <1>4, <3>1, <3>2, <3>4 DEF IsBillingDate
    <3> QED
      BY <1>1, <2>5, <3>5, DatesOrdered
  <2> QED
    BY <1>1, <2>2, <2>3, <2>4, <2>5, DatesOrdered
<1>11. IsBillingDate(u, users[u].next)'
  BY <1>2, <1>8 DEF IsBillingDate, BillingDay
<1>12. (Earlier(since[u], users[u].next) => Charged(ledger, u, since[u]))'
  BY <1>2, <1>9
<1>13. (\A y \in since[u].year .. users[u].next.year, m \in 1 .. 12 :
          InLaterMonth(since[u], BillingDay(u, y, m)) /\ Earlier(BillingDay(u, y, m), users[u].next)
            => Charged(ledger, u, BillingDay(u, y, m)))'
  BY <1>2, <1>10 DEF BillingDay
<1> QED
  BY <1>11, <1>12, <1>13 DEF PeriodsKept

(* A profile write starts a new history of periods, or leaves it alone. *)
LEMMA PeriodsKeptByProfile ==
  ASSUME BillingTypeOK, NEW u \in Users, NEW v \in Users, PeriodsKept(v), ProfileWrite(u),
         Exists(v) => since[v] \in Dates
  PROVE  PeriodsKept(v)'
<1>1. PICK s \in {"active", "paused", "disabled"}, fee \in Fees, next \in Dates :
        /\ users' = [users EXCEPT ![u] = [status |-> s, fee |-> fee, next |-> next]]
        /\ \/ since' = [since EXCEPT ![u] = next]
           \/ Exists(u) /\ next = users[u].next /\ since' = since
        /\ ledger' = ledger
  BY DEF ProfileWrite
<1>2. CASE v # u
  BY <1>1, <1>2 DEF BillingTypeOK, PeriodsKept, Exists, IsBillingDate, BillingDay
<1>3. CASE v = u /\ Exists(u) /\ next = users[u].next /\ since' = since
  BY <1>1, <1>3 DEF BillingTypeOK, PeriodsKept, Exists, IsBillingDate, BillingDay
<1>4. CASE v = u /\ since' = [since EXCEPT ![u] = next]
  <2>1. users'[u].next = next /\ since'[u] = next
    BY <1>1, <1>4 DEF BillingTypeOK
  <2>2. ASSUME NEW y \in next.year .. next.year, NEW m \in 1 .. 12,
               InLaterMonth(next, BillingDay(u, y, m)), Earlier(BillingDay(u, y, m), next)
        PROVE  FALSE
    <3>1. y \in Nat
      BY DateFields
    <3> QED
      BY <2>2, <3>1, BillingDayIsDate, LaterMonthIsLater, DatesOrdered
  <2>3. ~Earlier(next, next)
    BY DatesOrdered
  <2>4. IsBillingDate(u, users[u].next)'
    BY <2>1 DEF IsBillingDate
  <2>5. (\A y \in since[u].year .. users[u].next.year, m \in 1 .. 12 :
           LET d == BillingDay(u, y, m)
           IN InLaterMonth(since[u], d) /\ Earlier(d, users[u].next) => Charged(ledger, u, d))'
    BY <2>1, <2>2 DEF BillingDay
  <2> QED
    BY <1>4, <2>1, <2>3, <2>4, <2>5 DEF PeriodsKept
<1> QED
  BY <1>1, <1>2, <1>3, <1>4

(* The history starts with the profile. *)
SinceKnown == \A u \in Users : Exists(u) => since[u] \in Dates

LEMMA SinceKept ==
  ASSUME BillingTypeOK, SinceKnown, [Next]_vars
  PROVE  SinceKnown'
<1>1. ASSUME NEW u \in Users, ProfileWrite(u)
      PROVE  SinceKnown'
  BY <1>1 DEF ProfileWrite, SinceKnown, Exists, BillingTypeOK
<1>2. ASSUME NEW u \in Users, ChargeWrite(u)
      PROVE  SinceKnown'
  BY <1>2 DEF ChargeWrite, SinceKnown, Exists, BillingTypeOK, Profile
<1>3. CASE UNCHANGED <<users, since>>
  BY <1>3 DEF SinceKnown, Exists
<1> QED
  BY <1>1, <1>2, <1>3, StepKinds DEF ManualWrite, NextDay, vars

LEMMA PeriodsStayWhole ==
  ASSUME BillingTypeOK, SinceKnown, NoPeriodSkipped, [Next]_vars
  PROVE  NoPeriodSkipped'
<1> SUFFICES ASSUME NEW v \in Users
             PROVE  PeriodsKept(v)'
  BY DEF NoPeriodSkipped, PeriodsKept
<1>0. PeriodsKept(v) /\ (Exists(v) => since[v] \in Dates)
  BY DEF NoPeriodSkipped, PeriodsKept, SinceKnown
<1>1. CASE ManualWrite
  BY <1>0, <1>1, PeriodsKeptByAppend DEF ManualWrite
<1>2. ASSUME NEW u \in Users, ProfileWrite(u)
      PROVE  PeriodsKept(v)'
  BY <1>0, <1>2, PeriodsKeptByProfile
<1>3. ASSUME NEW u \in Users, ChargeWrite(u)
      PROVE  PeriodsKept(v)'
  <2>1. CASE u = v
    BY <1>0, <1>3, <2>1, PeriodsKeptByCharge DEF ChargeWrite, Exists
  <2>2. CASE u # v
    <3>1. ChargeEntry(u, users[u].next) \in Entry
      BY <1>3, AdvancedValid DEF ChargeWrite
    <3>2. users'[v] = users[v]
      BY <1>3, <2>2 DEF ChargeWrite, BillingTypeOK
    <3>3. /\ ledger' = Append(ledger, ChargeEntry(u, users[u].next))
          /\ since'[v] = since[v]
      BY <1>3 DEF ChargeWrite
    <3> QED
      BY <1>0, <3>1, <3>2, <3>3, PeriodsKeptByAppend
  <2> QED
    BY <2>1, <2>2
<1>4. CASE UNCHANGED <<users, ledger, since>>
  BY <1>0, <1>4 DEF PeriodsKept, Exists, IsBillingDate, BillingDay
<1> QED
  BY <1>1, <1>2, <1>3, <1>4, StepKinds DEF NextDay, vars

LEMMA BillingStep == BillingInv /\ SinceKnown /\ [Next]_vars => BillingInv' /\ SinceKnown'
<1> SUFFICES ASSUME BillingInv, SinceKnown, [Next]_vars
             PROVE  BillingInv' /\ SinceKnown'
  OBVIOUS
<1> USE DEF BillingInv
<1>1. BillingTypeOK'
  BY TypesKept
<1>2. CurrentPass'
  BY PassKept
<1>3. OneChargePerPeriod'
  BY ChargesStaySingle
<1>4. NoPeriodSkipped'
  BY PeriodsStayWhole
<1>5. SinceKnown'
  BY SinceKept
<1> QED
  BY <1>1, <1>2, <1>3, <1>4, <1>5

(* The invariant of billing holds in every reachable state. *)
THEOREM BillingInvHolds == Spec => [](BillingInv /\ SinceKnown)
<1>1. Init => BillingInv /\ SinceKnown
  BY BillingInit DEF Init, SinceKnown, Exists
<1> QED
  BY <1>1, BillingStep, PTL DEF Spec

(* Tables and pass have their types: next charge dates are valid dates. *)
THEOREM BillingTypes == Spec => []BillingTypeOK
<1>1. BillingInv => BillingTypeOK
  BY DEF BillingInv
<1> QED
  BY <1>1, BillingInvHolds, PTL

(* ReserveSubscriptionCharge never charges a customer twice for a period. *)
THEOREM NoDoubleCharge == Spec => []OneChargePerPeriod
<1>1. BillingInv => OneChargePerPeriod
  BY DEF BillingInv
<1> QED
  BY <1>1, BillingInvHolds, PTL

(***************************************************************************)
(* CatchUp leaves no month out: between the date given at creation or at   *)
(* the last resume and the next charge date, every billing date is charged.*)
(***************************************************************************)
THEOREM NoMonthLost == Spec => []NoPeriodSkipped
<1>1. BillingInv => NoPeriodSkipped
  BY DEF BillingInv
<1> QED
  BY <1>1, BillingInvHolds, PTL

(* The charges of one step are due: the conclusion of ChargesAreDue. *)
DueCharges ==
  \A i \in 1 .. Len(ledger') :
    i > Len(ledger) /\ IsCharge(ledger'[i]) =>
      LET e == ledger'[i]
          u == e.user
      IN /\ users[u].status = "active"
         /\ e.period = users[u].next
         /\ OnOrBefore(e.period, today)
         /\ e.amount = -users[u].fee

LEMMA ChargeIsDue ==
  ASSUME BillingTypeOK, CurrentPass, [Next]_vars
  PROVE  DueCharges
<1>1. CASE ManualWrite
  <2>1. PICK e \in Entry : e.kind # "subscription_charge" /\ ledger' = Append(ledger, e)
    BY <1>1 DEF ManualWrite
  <2>2. ASSUME NEW i \in 1 .. Len(ledger'), i > Len(ledger)
        PROVE  ledger'[i] = e
    BY <2>1, <2>2, AppendEntry DEF BillingTypeOK
  <2> QED
    BY <2>1, <2>2 DEF DueCharges, IsCharge
<1>2. ASSUME NEW u \in Users, ChargeWrite(u)
      PROVE  DueCharges
  <2> DEFINE e == ChargeEntry(u, users[u].next)
  <2>1. e \in Entry /\ users[u].next \in Dates
    BY <1>2, AdvancedValid DEF ChargeWrite
  <2>2. ASSUME NEW i \in 1 .. Len(ledger'), i > Len(ledger)
        PROVE  ledger'[i] = e
    BY <1>2, <2>1, <2>2, AppendEntry DEF ChargeWrite, BillingTypeOK
  <2>3. e.user = u /\ e.period = users[u].next /\ e.amount = -users[u].fee
    BY DEF ChargeEntry
  <2>4. users[u].status = "active"
    BY <1>2 DEF ChargeWrite
  <2>5. OnOrBefore(users[u].next, today)
    <3>1. PICK item \in pass.batch : item.user = u /\ item.period = users[u].next
      BY <1>2 DEF ChargeWrite
    <3>2. /\ pass.asOf \in Dates /\ OnOrBefore(pass.asOf, today)
          /\ OnOrBefore(users[u].next, pass.asOf)
      BY <3>1 DEF CurrentPass
    <3>3. today \in Dates
      BY DaysAreDates DEF BillingTypeOK
    <3> QED
      BY <2>1, <3>2, <3>3, DatesOrdered
  <2> HIDE DEF e
  <2> QED
    BY <2>2, <2>3, <2>4, <2>5 DEF DueCharges
<1>3. CASE UNCHANGED ledger
  BY <1>3 DEF DueCharges
<1> QED
  BY <1>1, <1>2, <1>3, StepKinds DEF ProfileWrite, NextDay, vars

(***************************************************************************)
(* A pass charges only what is due at the moment the charge commits, though*)
(* the customers it works on were listed before.                           *)
(***************************************************************************)
THEOREM OnlyDueCharges == Spec => ChargesAreDue
<1>1. BillingInv /\ [Next]_vars => [DueCharges]_vars
  BY ChargeIsDue DEF BillingInv
<1>2. Spec => [][DueCharges]_vars
  BY <1>1, BillingInvHolds, PTL DEF Spec
<1> QED
  BY <1>2 DEF ChargesAreDue, DueCharges

-----------------------------------------------------------------------------
(* Dates that go back. *)

(* Charges are of customers who exist, for a date. *)
ChargesInv ==
  \A i \in 1 .. Len(ledger) :
    IsCharge(ledger[i]) => Exists(ledger[i].user) /\ ledger[i].period \in Dates

LEMMA ChargesInvStep ==
  ASSUME BillingTypeOK, ChargesInv, [Next]_vars
  PROVE  ChargesInv'
<1>0. \A i \in 1 .. Len(ledger) : ledger[i].user \in Users
  <2>1. \A i \in 1 .. Len(ledger) : ledger[i] \in Entry
    BY DEF BillingTypeOK
  <2> QED
    BY <2>1 DEF Entry
<1>1. CASE ManualWrite
  <2>1. PICK e \in Entry : e.kind # "subscription_charge" /\ ledger' = Append(ledger, e)
    BY <1>1 DEF ManualWrite
  <2>2. \A i \in 1 .. Len(ledger') : (i \in 1 .. Len(ledger) /\ ledger'[i] = ledger[i]) \/ ledger'[i] = e
    BY <2>1, AppendEntry DEF BillingTypeOK
  <2> QED
    BY <1>1, <2>1, <2>2 DEF ManualWrite, ChargesInv, IsCharge, Exists
<1>2. ASSUME NEW u \in Users, ProfileWrite(u)
      PROVE  ChargesInv'
  <2>1. \A v \in Users : Exists(v) => Exists(v)'
    BY <1>2 DEF ProfileWrite, Exists, BillingTypeOK
  <2> QED
    BY <1>0, <1>2, <2>1 DEF ProfileWrite, ChargesInv
<1>3. ASSUME NEW u \in Users, ChargeWrite(u)
      PROVE  ChargesInv'
  <2> DEFINE e == ChargeEntry(u, users[u].next)
  <2>1. e \in Entry /\ e.user = u /\ e.period \in Dates
    BY <1>3, AdvancedValid DEF ChargeWrite, ChargeEntry
  <2>2. \A v \in Users : Exists(v) => Exists(v)'
    BY <1>3 DEF ChargeWrite, Exists, BillingTypeOK, Profile
  <2>3. Exists(u)
    BY <1>3 DEF ChargeWrite, Exists
  <2>4. \A i \in 1 .. Len(ledger') : (i \in 1 .. Len(ledger) /\ ledger'[i] = ledger[i]) \/ ledger'[i] = e
    BY <1>3, <2>1, AppendEntry DEF ChargeWrite, BillingTypeOK
  <2> HIDE DEF e
  <2> QED
    BY <1>0, <2>1, <2>2, <2>3, <2>4 DEF ChargesInv
<1>4. CASE UNCHANGED <<users, ledger>>
  BY <1>4 DEF ChargesInv, Exists
<1> QED
  BY <1>1, <1>2, <1>3, <1>4, StepKinds DEF NextDay, vars

(* A charge of an earlier date stays behind when the date moves forward. *)
LEMMA BehindStaysBehind ==
  ASSUME NEW a \in Dates, NEW b \in Dates, NEW c \in Dates, Earlier(a, b), OnOrBefore(b, c)
  PROVE  OnOrBefore(a, c) /\ ~OnOrBefore(b, a)
<1>1. Earlier(a, b) => ~Earlier(b, a) /\ a # b
  BY DatesOrdered
<1>2. OnOrBefore(a, b)
  BY DEF OnOrBefore
<1> QED
  BY <1>1, <1>2, DatesOrdered DEF OnOrBefore

(* A date goes back to a charged one in a resumption only. *)
LEMMA GoesBackByResumption ==
  ASSUME BillingTypeOK, ChargesInv, [Next]_vars, NEW u \in Users,
         ~ChargedAhead(u), ~\E next \in ResumeDates : Resume(u, next)
  PROVE  ~ChargedAhead(u)'
<1>1. CASE ManualWrite
  <2>1. PICK e \in Entry : e.kind # "subscription_charge" /\ ledger' = Append(ledger, e)
    BY <1>1 DEF ManualWrite
  <2>2. \A i \in 1 .. Len(ledger') : (i \in 1 .. Len(ledger) /\ ledger'[i] = ledger[i]) \/ ledger'[i] = e
    BY <2>1, AppendEntry DEF BillingTypeOK
  <2> QED
    BY <1>1, <2>1, <2>2 DEF ManualWrite, ChargedAhead, IsCharge
<1>2. ASSUME NEW v \in Users, ProfileWrite(v)
      PROVE  ~ChargedAhead(u)'
  <2>1. CASE Exists(u)
    <3>1. users'[u].next = users[u].next
      BY <1>2, <2>1 DEF ProfileWrite, BillingTypeOK
    <3> QED
      BY <1>2, <3>1 DEF ProfileWrite, ChargedAhead
  <2>2. CASE ~Exists(u)
    BY <1>2, <2>2 DEF ProfileWrite, ChargedAhead, ChargesInv
  <2> QED
    BY <2>1, <2>2
<1>3. ASSUME NEW v \in Users, ChargeWrite(v)
      PROVE  ~ChargedAhead(u)'
  <2> DEFINE e == ChargeEntry(v, users[v].next)
  <2>1. /\ e \in Entry /\ e.user = v /\ e.period = users[v].next
        /\ users[v].next \in Dates /\ Advanced(v) \in Dates
    BY <1>3, AdvancedValid DEF ChargeWrite, ChargeEntry
  <2>2. \A i \in 1 .. Len(ledger') : (i \in 1 .. Len(ledger) /\ ledger'[i] = ledger[i]) \/ ledger'[i] = e
    BY <1>3, <2>1, AppendEntry DEF ChargeWrite, BillingTypeOK
  <2> HIDE DEF e
  <2>3. CASE u # v
    <3>1. users'[u] = users[u]
      BY <1>3, <2>3 DEF ChargeWrite, BillingTypeOK
    <3> QED
      BY <2>1, <2>2, <2>3, <3>1 DEF ChargedAhead
  <2>4. CASE u = v
    <3>1. users'[u].next = Advanced(u)
      BY <1>3, <2>4 DEF ChargeWrite, BillingTypeOK, Profile
    <3>2. Earlier(users[u].next, Advanced(u))
      BY <1>3, <2>1, <2>4, AdvancedIsBillingDay, LaterMonthIsLater DEF ChargeWrite
    <3>3. ~OnOrBefore(Advanced(u), users[u].next)
      BY <2>1, <2>4, <3>2, BehindStaysBehind DEF OnOrBefore
    <3>4. ASSUME NEW i \in 1 .. Len(ledger), IsCharge(ledger[i]), ledger[i].user = u,
                 OnOrBefore(Advanced(u), ledger[i].period)
          PROVE  FALSE
      <4>1. ledger[i].period \in Dates
        BY <3>4 DEF ChargesInv
      <4> QED
        BY <2>1, <2>4, <3>2, <3>4, <4>1, BehindStaysBehind DEF ChargedAhead
    <3> QED
      BY <2>1, <2>2, <2>4, <3>1, <3>3, <3>4 DEF ChargedAhead
  <2> QED
    BY <2>3, <2>4
<1>4. CASE UNCHANGED <<users, ledger>>
  BY <1>4 DEF ChargedAhead
<1> QED
  BY <1>1, <1>2, <1>3, <1>4, StepKinds DEF NextDay, vars

LEMMA ChargesHold == Spec => [](BillingInv /\ ChargesInv)
<1>1. Init => ChargesInv
  BY DEF Init, ChargesInv
<1>2. BillingInv /\ ChargesInv /\ [Next]_vars => ChargesInv'
  BY ChargesInvStep DEF BillingInv
<1> QED
  BY <1>1, <1>2, BillingInvHolds, PTL DEF Spec

(***************************************************************************)
(* Whatever the passes, the calendar and the administrator do, a charge    *)
(* date never moves back to a period that is charged already, except by a  *)
(* resumption.                                                             *)
(***************************************************************************)
THEOREM DatesGoBackByResumption == Spec => OnlyResumptionsGoBack
<1>1. BillingInv /\ ChargesInv /\ [Next]_vars =>
        [\A u \in Users :
           ChargedAhead(u)' => ChargedAhead(u) \/ \E next \in ResumeDates : Resume(u, next)]_vars
  BY GoesBackByResumption DEF BillingInv
<1> QED
  BY <1>1, ChargesHold, PTL DEF Spec, OnlyResumptionsGoBack

(* A resumption to a date after every charge of the customer. *)
ResumesForward ==
  \A u \in Users, next \in ResumeDates :
    Resume(u, next) =>
      \A i \in 1 .. Len(ledger) :
        IsCharge(ledger[i]) /\ ledger[i].user = u => Earlier(ledger[i].period, next)

(***************************************************************************)
(* If no customer is resumed at or before a charged date, the unique index *)
(* refuses no charge: the conflict branch of ReserveSubscriptionCharge,    *)
(* which leaves a customer behind for good, is never taken.                *)
(***************************************************************************)
THEOREM NoConflictGoingForward ==
  Spec /\ [][ResumesForward]_vars =>
    [](\A u \in Users : Exists(u) => ~Charged(ledger, u, users[u].next))
<1> DEFINE Behind == \A u \in Users : ~ChargedAhead(u)
<1>1. Init => Behind
  BY DEF Init, ChargedAhead
<1>2. ASSUME BillingInv, ChargesInv, Behind, [Next]_vars, [ResumesForward]_vars
      PROVE  Behind'
  <2> SUFFICES ASSUME NEW u \in Users
               PROVE  ~ChargedAhead(u)'
    OBVIOUS
  <2>1. CASE ~\E next \in ResumeDates : Resume(u, next)
    BY <1>2, <2>1, GoesBackByResumption DEF BillingInv
  <2>2. ASSUME NEW next \in ResumeDates, Resume(u, next)
        PROVE  ~ChargedAhead(u)'
    <3>1. next \in Dates
      BY ProfilesAssumption DEF IsValid
    <3>2. users'[u].next = next /\ ledger' = ledger
      BY <1>2, <2>2 DEF Resume, BillingInv, BillingTypeOK, Profile
    <3>3. ASSUME NEW i \in 1 .. Len(ledger), IsCharge(ledger[i]), ledger[i].user = u
          PROVE  ~OnOrBefore(next, ledger[i].period)
      <4>1. ledger[i].period \in Dates
        BY <1>2, <3>3 DEF ChargesInv
      <4>2. CASE ResumesForward
        <5>1. Earlier(ledger[i].period, next)
          BY <2>2, <3>3, <4>2 DEF ResumesForward
        <5> QED
          BY <3>1, <4>1, <5>1, BehindStaysBehind DEF OnOrBefore
      <4>3. CASE UNCHANGED vars
        BY <1>2, <3>2, <3>3, <4>3 DEF vars, ChargedAhead
      <4> QED
        BY <1>2, <4>2, <4>3
    <3> QED
      BY <3>2, <3>3 DEF ChargedAhead
  <2> QED
    BY <2>1, <2>2
<1>3. Behind => \A u \in Users : Exists(u) => ~Charged(ledger, u, users[u].next)
  BY DEF ChargedAhead, Charged, IsCharge, OnOrBefore
<1> HIDE DEF Behind
<1>4. BillingInv /\ ChargesInv /\ Behind /\ [Next]_vars /\ [ResumesForward]_vars => Behind'
  BY <1>2
<1> QED
  BY <1>1, <1>3, <1>4, ChargesHold, PTL DEF Spec
=============================================================================
