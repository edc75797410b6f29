--------------------------- MODULE DailyRunProofs ---------------------------
(***************************************************************************)
(* Proofs about DailyRun for any number of customers, any hour, any limits *)
(* of attempts and any calendar: types, that no date is left out, that an  *)
(* undisturbed loop charges before it reminds and attempts every reminder  *)
(* of its date, and that it does not leave the ones it began with a retry  *)
(* due.                                                                    *)
(***************************************************************************)
EXTENDS DailyRun, TLAPS

(* A loop that waits has a run left; otherwise it would have ended. *)
TypeInv == DailyTypeOK /\ (sched.pc = "wait" => sched.attempt < MaxRunAttempts)

InLoop == sched.pc \notin {"down", "sleep"}

-----------------------------------------------------------------------------
(* Helpers. *)

(* A delay is at least a minute. *)
LEMMA RunBackoffType == \A n \in Nat : RunBackoff(n) \in Nat
BY DEF RunBackoff

LEMMA DeliveryBackoffType == \A n \in Nat : DeliveryBackoff(n) \in Nat
BY DEF DeliveryBackoff

LEMMA DownType == Down \in Scheduler
<1>1. 1 \in 1 .. MaxRunAttempts
  BY LimitsAssumption
<1> QED
  BY <1>1 DEF Down, Scheduler, Phases

(* A loop that goes to sleep is a scheduler record again. *)
LEMMA AsleepType ==
  ASSUME DailyTypeOK
  PROVE  /\ Asleep \in Scheduler
         /\ Asleep.pc = "sleep"
         /\ Asleep.date = sched.date
         /\ Asleep.timer = NextRun
<1>1. NextRun \in Nat
  BY DEF DailyTypeOK, NextRun
<1>2. sched.date \in Nat
  BY DEF DailyTypeOK, Scheduler
<1>3. Asleep \in Scheduler
  BY <1>1, <1>2, DownType DEF Asleep, Scheduler, Phases
<1> QED
  BY <1>3, DownType DEF Asleep, Scheduler

LEMMA AfterRunType ==
  ASSUME DailyTypeOK, NEW again \in BOOLEAN
  PROVE  AfterRun(again) \in Scheduler
<1>1. sched.attempt \in Nat
  BY DEF DailyTypeOK, Scheduler
<1>2. RunBackoff(sched.attempt) \in Nat
  BY <1>1, RunBackoffType
<1>3. [sched EXCEPT !.pc = "wait", !.left = RunBackoff(sched.attempt)] \in Scheduler
  BY <1>2 DEF DailyTypeOK, Scheduler, Phases
<1> QED
  BY <1>3, AsleepType DEF AfterRun

(* After a run the loop sleeps or waits; it keeps the date it ran. *)
LEMMA AfterRunShape ==
  ASSUME DailyTypeOK, NEW again \in BOOLEAN
  PROVE  \/ /\ AfterRun(again).pc = "sleep"
            /\ AfterRun(again).date = sched.date
            /\ AfterRun(again).timer = NextRun
         \/ /\ AfterRun(again).pc = "wait"
            /\ AfterRun(again).date = sched.date
            /\ AfterRun(again).runDate = sched.runDate
<1>1. CASE AfterRun(again) = Asleep
  BY <1>1, AsleepType
<1>2. CASE AfterRun(again) =
             [sched EXCEPT !.pc = "wait", !.left = RunBackoff(sched.attempt)]
  BY <1>2 DEF DailyTypeOK, Scheduler
<1> QED
  BY <1>1, <1>2 DEF AfterRun

(* The row after an attempt within the limit is a row. *)
LEMMA AnsweredType ==
  ASSUME NEW n \in Nat \ {0}, NEW refused \in BOOLEAN
  PROVE  Answered(n, refused) \in Row
<1>1. CASE refused /\ n < MaxAttempts
  <2>1. DeliveryBackoff(n) \in Nat
    BY DeliveryBackoffType
  <2>2. n \in 1 .. MaxAttempts
    BY <1>1, LimitsAssumption
  <2> QED
    BY <1>1, <2>1, <2>2 DEF Answered, Row
<1>2. CASE ~(refused /\ n < MaxAttempts)
  BY <1>2 DEF Answered, Row
<1> QED
  BY <1>1, <1>2

LEMMA AttemptOfType ==
  ASSUME DailyTypeOK, NEW k
  PROVE  AttemptOf(k) \in Nat \ {0}
<1>1. CASE k \in DOMAIN rows
  <2>1. rows[k] \in Row
    BY <1>1 DEF DailyTypeOK
  <2>2. rows[k].attempt \in Nat
    BY <2>1, LimitsAssumption DEF Row, Settled
  <2> QED
    BY <1>1, <2>2 DEF AttemptOf
<1>2. CASE k \notin DOMAIN rows
  BY <1>2 DEF AttemptOf
<1> QED
  BY <1>1, <1>2

(* Writing a row keeps the table's type. *)
LEMMA PutType ==
  ASSUME DailyTypeOK, NEW k \in Keys, NEW row \in Row
  PROVE  /\ DOMAIN Put(k, row) = DOMAIN rows \union {k}
         /\ Put(k, row) \in [DOMAIN Put(k, row) -> Row]
         /\ DOMAIN Put(k, row) \subseteq Keys
<1>1. DOMAIN Put(k, row) = DOMAIN rows \union {k}
  BY DEF Put
<1>2. \A other \in DOMAIN rows : rows[other] \in Row
  BY DEF DailyTypeOK
<1> QED
  BY <1>1, <1>2 DEF Put, DailyTypeOK

LEMMA LatestChargeType ==
  ASSUME DailyTypeOK, NEW u \in Users, NEW date \in Nat
  PROVE  LatestCharge(u, date) \in Nat \union {Null}
<1> DEFINE past == {c \in charges[u] : c <= date}
<1>1. CASE past = {}
  BY <1>1 DEF LatestCharge
<1>2. CASE past # {}
  BY <1>2 DEF LatestCharge, DailyTypeOK
<1> QED
  BY <1>1, <1>2

(* Only valid keys are selected. *)
LEMMA SelectAutomaticType ==
  ASSUME DailyTypeOK, NEW u \in Users, NEW date \in Nat
  PROVE  SelectAutomatic(u, date) \subseteq Keys
<1>1. LatestCharge(u, date) \in Nat \union {Null}
  BY LatestChargeType
<1>2. next[u] \in Nat
  BY DEF DailyTypeOK
<1>3. date # Null
  BY DailyNullAssumption
<1> DEFINE latest == LatestCharge(u, date)
<1>4. \A t \in Types : /\ <<u, next[u], t>> \in Keys
                       /\ latest # Null => <<u, latest, t>> \in Keys
  BY <1>1, <1>2 DEF Keys
<1>5. {"before_charge", "charge_debt", "overdue_3d", "overdue_7d"} = Types
  BY DEF Types
<1> QED
  BY <1>3, <1>4, <1>5 DEF SelectAutomatic

-----------------------------------------------------------------------------
(* Types. *)

LEMMA InitType == Init => DailyTypeOK
<1> SUFFICES ASSUME Init PROVE DailyTypeOK
  OBVIOUS
<1>1. sched \in Scheduler
  BY DownType DEF Init
<1>2. minute \in 0 .. Minutes - 1 /\ day \in Nat
  BY ClockAssumption DEF Init
<1>3. rows \in [DOMAIN rows -> Row] /\ DOMAIN rows \subseteq Keys
  BY DEF Init
<1>4. /\ next \in [Users -> Nat] /\ balance \in [Users -> Int]
      /\ charges \in [Users -> SUBSET Nat] /\ billed \in [Users -> SUBSET Nat]
  BY DaysAssumption DEF Init
<1> QED
  BY <1>1, <1>2, <1>3, <1>4 DEF Init, DailyTypeOK

LEMMA LoopType ==
  ASSUME TypeInv, BeginLoop \/ RunOnce \/ WaitEnds
  PROVE  DailyTypeOK'
<1>1. day \in Nat /\ sched \in Scheduler
  BY DEF TypeInv, DailyTypeOK
<1>2. CASE BeginLoop
  <2>1. sched' \in Scheduler
    BY <1>1, <1>2, DownType DEF BeginLoop, Scheduler, Phases
  <2> QED
    BY <1>2, <2>1 DEF BeginLoop, customers, TypeInv, DailyTypeOK
<1>3. CASE RunOnce
  <2>1. sched' \in Scheduler
    BY <1>1, <1>3 DEF RunOnce, Scheduler, Phases
  <2> QED
    BY <1>3, <2>1 DEF RunOnce, customers, history, TypeInv, DailyTypeOK
<1>4. CASE WaitEnds
  <2>1. Asleep \in Scheduler
    BY AsleepType DEF TypeInv
  <2>2. sched.attempt + 1 \in 1 .. MaxRunAttempts
    BY <1>1, <1>4, LimitsAssumption DEF WaitEnds, TypeInv, Scheduler
  <2>3. [sched EXCEPT !.pc = "run", !.attempt = @ + 1] \in Scheduler
    BY <1>1, <2>2 DEF Scheduler, Phases
  <2>4. sched' \in Scheduler
    BY <1>4, <2>1, <2>3 DEF WaitEnds
  <2> QED
    BY <1>4, <2>4 DEF WaitEnds, customers, history, TypeInv, DailyTypeOK
<1> QED
  BY <1>2, <1>3, <1>4

LEMMA RunType ==
  ASSUME TypeInv,
         CatchUpFails \/ (\E u \in Users : OutOfRange(u)) \/ ListRetries \/ ListRetriesFails
           \/ ListCandidates \/ ListCandidatesFails \/ CandidatesDone
  PROVE  DailyTypeOK'
<1>1. day \in Nat /\ sched \in Scheduler
  BY DEF TypeInv, DailyTypeOK
<1>2. AfterRun(FALSE) \in Scheduler /\ AfterRun(sched.retry) \in Scheduler
  BY <1>1, AfterRunType DEF TypeInv, Scheduler
<1>3. /\ [sched EXCEPT !.pc = "retrying"] \in Scheduler
      /\ [sched EXCEPT !.pc = "selecting"] \in Scheduler
  BY <1>1 DEF Scheduler, Phases
<1>4. CASE CatchUpFails \/ \E u \in Users : OutOfRange(u)
  BY <1>2, <1>4 DEF CatchUpFails, OutOfRange, Disturbed, customers, TypeInv, DailyTypeOK
<1>5. CASE ListRetries
  <2>1. RetryCandidates \subseteq Keys
    BY DEF RetryCandidates, TypeInv, DailyTypeOK
  <2> QED
    BY <1>3, <1>5, <2>1 DEF ListRetries, customers, history, TypeInv, DailyTypeOK
<1>6. CASE ListRetriesFails
  BY <1>3, <1>6 DEF ListRetriesFails, Disturbed, customers, TypeInv, DailyTypeOK
<1>7. CASE ListCandidates
  <2>1. \A u \in Users : SelectAutomatic(u, sched.date) \subseteq Keys
    BY <1>1, SelectAutomaticType DEF TypeInv, Scheduler
  <2>2. jobs' \subseteq Keys
    BY <1>7, <2>1 DEF ListCandidates
  <2> QED
    BY <1>3, <1>7, <2>2 DEF ListCandidates, customers, history, TypeInv, DailyTypeOK
<1>8. CASE ListCandidatesFails
  BY <1>2, <1>8 DEF ListCandidatesFails, Disturbed, customers, TypeInv, DailyTypeOK
<1>9. CASE CandidatesDone
  BY <1>2, <1>9 DEF CandidatesDone, customers, history, TypeInv, DailyTypeOK
<1> QED
  BY <1>4, <1>5, <1>6, <1>7, <1>8, <1>9

LEMMA ChargeType ==
  ASSUME TypeInv, NEW u \in Users, Charge(u)
  PROVE  DailyTypeOK'
<1>1. next[u] \in Nat /\ balance[u] \in Int /\ charges[u] \subseteq Nat /\ billed[u] \subseteq Nat
  BY DEF TypeInv, DailyTypeOK
<1>2. next' \in [Users -> Nat]
  BY <1>1, DaysAssumption DEF Charge, TypeInv, DailyTypeOK
<1>3. balance' \in [Users -> Int]
  BY <1>1 DEF Charge, TypeInv, DailyTypeOK
<1>4. charges' \in [Users -> SUBSET Nat] /\ billed' \in [Users -> SUBSET Nat]
  BY <1>1 DEF Charge, TypeInv, DailyTypeOK
<1> QED
  BY <1>2, <1>3, <1>4 DEF Charge, history, TypeInv, DailyTypeOK

LEMMA JobType ==
  ASSUME TypeInv, NEW k \in jobs, Attempt(k) \/ NotReserved(k) \/ ReserveFails(k)
  PROVE  DailyTypeOK'
<1>1. sched \in Scheduler /\ k \in Keys
  BY DEF TypeInv, DailyTypeOK
<1>2. CASE Attempt(k)
  <2>1. PICK refused \in BOOLEAN :
          /\ rows' = Put(k, Answered(AttemptOf(k), refused))
          /\ sched' = [sched EXCEPT !.retry = @ \/ (refused /\ AttemptOf(k) < MaxAttempts)]
    BY <1>2 DEF Attempt
  <2>2. Answered(AttemptOf(k), refused) \in Row
    BY AttemptOfType, AnsweredType DEF TypeInv
  <2>3. rows' \in [DOMAIN rows' -> Row] /\ DOMAIN rows' \subseteq Keys
    BY <1>1, <2>1, <2>2, PutType DEF TypeInv
  <2>4. sched' \in Scheduler
    BY <1>1, <2>1 DEF Scheduler
  <2>5. jobs' \subseteq Keys /\ fresh' \subseteq Keys
    BY <1>1, <1>2 DEF Attempt, TypeInv, DailyTypeOK
  <2> QED
    BY <1>2, <2>3, <2>4, <2>5 DEF Attempt, customers, TypeInv, DailyTypeOK
<1>3. CASE NotReserved(k)
  <2>1. sched' \in Scheduler
    BY <1>1, <1>3 DEF NotReserved, StillWaits, Refused, Scheduler
  <2> QED
    BY <1>3, <2>1 DEF NotReserved, customers, history, TypeInv, DailyTypeOK
<1>4. CASE ReserveFails(k)
  BY <1>4 DEF ReserveFails, Disturbed, customers, TypeInv, DailyTypeOK
<1> QED
  BY <1>2, <1>3, <1>4

LEMMA AdminType ==
  ASSUME TypeInv, NEW u \in Users,
         Pay(u) \/ ReverseCharge(u) \/ PauseUser(u) \/ ResumeUser(u)
  PROVE  DailyTypeOK'
<1>1. /\ next[u] \in Nat /\ balance[u] + 1 \in Int /\ charges[u] \subseteq Nat
      /\ ResumeDates \subseteq Nat
  BY CustomersAssumption DEF TypeInv, DailyTypeOK
<1>2. Command => /\ calm' \in BOOLEAN /\ fresh' \subseteq Keys
                 /\ UNCHANGED <<day, minute, jobs, rows, crashes, passed>>
  BY DEF Command, Disturbed
<1>3. Counts \/ UNCHANGED changes => changes' \in Nat
  BY DEF Counts, TypeInv, DailyTypeOK
<1>4. CASE Pay(u)
  BY <1>1, <1>2, <1>3, <1>4 DEF Pay, TypeInv, DailyTypeOK
<1>5. CASE ReverseCharge(u)
  <2>1. charges' \in [Users -> SUBSET Nat]
    BY <1>1, <1>5 DEF ReverseCharge, TypeInv, DailyTypeOK
  <2>2. balance' \in [Users -> Int]
    BY <1>1, <1>5 DEF ReverseCharge, TypeInv, DailyTypeOK
  <2> QED
    BY <1>2, <1>3, <1>5, <2>1, <2>2 DEF ReverseCharge, TypeInv, DailyTypeOK
<1>6. BatchIsStale => sched' \in Scheduler
  <2>1. sched \in Scheduler
    BY DEF TypeInv, DailyTypeOK
  <2>2. [sched EXCEPT !.stale = TRUE] \in Scheduler
    BY <2>1 DEF Scheduler
  <2> QED
    BY <2>1, <2>2 DEF BatchIsStale
<1>7. CASE PauseUser(u)
  BY <1>2, <1>3, <1>6, <1>7 DEF PauseUser, TypeInv, DailyTypeOK
<1>8. CASE ResumeUser(u)
  <2>1. next' \in [Users -> Nat]
    BY <1>1, <1>8 DEF ResumeUser, TypeInv, DailyTypeOK
  <2> QED
    BY <1>2, <1>3, <1>6, <1>8, <2>1 DEF ResumeUser, TypeInv, DailyTypeOK
<1> QED
  BY <1>4, <1>5, <1>7, <1>8

LEMMA CrashType ==
  ASSUME TypeInv, Crash
  PROVE  DailyTypeOK'
<1>1. rows' \in [DOMAIN rows' -> Row] /\ DOMAIN rows' \subseteq Keys
  <2>1. PICK inHand \in SUBSET jobs :
          rows' = [k \in DOMAIN rows \union inHand |-> IF k \in inHand THEN Settled ELSE rows[k]]
    BY DEF Crash
  <2>2. /\ inHand \subseteq Keys /\ DOMAIN rows \subseteq Keys /\ Settled \in Row
        /\ \A k \in DOMAIN rows : rows[k] \in Row
    BY DEF Row, TypeInv, DailyTypeOK
  <2>3. \A k \in DOMAIN rows \union inHand : (IF k \in inHand THEN Settled ELSE rows[k]) \in Row
    BY <2>2
  <2> QED
    BY <2>1, <2>2, <2>3
<1>2. calm' \in BOOLEAN /\ fresh' \subseteq Keys /\ UNCHANGED passed
  BY DEF Crash, Disturbed
<1>3. /\ crashes' \in Nat /\ sched' \in Scheduler /\ jobs' \subseteq Keys
      /\ UNCHANGED <<day, minute, status, next, balance, charges, billed, changes>>
  BY DownType DEF Crash, customers, TypeInv, DailyTypeOK
<1> QED
  BY <1>1, <1>2, <1>3 DEF TypeInv, DailyTypeOK

(* A minute less to wait is still a row. *)
LEMMA RowAfterTick ==
  ASSUME NEW row \in Row
  PROVE  [row EXCEPT !.left = IF @ > 0 THEN @ - 1 ELSE 0] \in Row
<1>1. CASE row = Settled
  <2>1. [row EXCEPT !.left = IF @ > 0 THEN @ - 1 ELSE 0] = Settled
    BY <1>1 DEF Settled
  <2> QED
    BY <2>1 DEF Row
<1>2. CASE row \in [status : {"refused"}, attempt : 1 .. MaxAttempts, left : Nat]
  <2>1. (IF row.left > 0 THEN row.left - 1 ELSE 0) \in Nat
    BY <1>2
  <2> QED
    BY <1>2, <2>1 DEF Row
<1> QED
  BY <1>1, <1>2 DEF Row

LEMMA TickType ==
  ASSUME TypeInv, Tick
  PROVE  DailyTypeOK'
<1>1. day' \in Nat /\ minute' \in 0 .. Minutes - 1
  BY ClockAssumption DEF Tick, TypeInv, DailyTypeOK
<1>2. sched' \in Scheduler
  <2>1. sched \in Scheduler
    BY DEF TypeInv, DailyTypeOK
  <2>2. CASE sched.pc = "wait"
    <3>1. sched.left - 1 \in Nat
      BY <2>1, <2>2 DEF Tick, Scheduler
    <3> QED
      BY <2>1, <2>2, <3>1 DEF Tick, Scheduler
  <2> QED
    BY <2>1, <2>2 DEF Tick
<1>3. rows' \in [DOMAIN rows' -> Row] /\ DOMAIN rows' \subseteq Keys
  BY RowAfterTick DEF Tick, TypeInv, DailyTypeOK
<1>4. passed' \in BOOLEAN
  BY DEF Tick
<1>5. calm' \in BOOLEAN /\ fresh' \subseteq Keys
  BY DEF Tick, TypeInv, DailyTypeOK
<1> QED
  BY <1>1, <1>2, <1>3, <1>4, <1>5 DEF Tick, customers, TypeInv, DailyTypeOK

LEMMA NextType ==
  ASSUME TypeInv, [Next]_vars
  PROVE  DailyTypeOK'
<1>1. CASE Boot \/ TimerFires
  BY <1>1, LoopType DEF Boot, TimerFires
<1>2. CASE Run
  BY <1>2, LoopType, RunType, ChargeType, JobType DEF Run
<1>3. CASE Admin
  BY <1>3, AdminType DEF Admin
<1>4. CASE Crash \/ Tick
  BY <1>4, CrashType, TickType
<1>5. CASE UNCHANGED vars \/ Rest
  BY <1>5 DEF Rest, vars, customers, history, TypeInv, DailyTypeOK
<1> QED
  BY <1>1, <1>2, <1>3, <1>4, <1>5 DEF Next

(* What a step does to where the scheduler is. *)
LEMMA Moves ==
  ASSUME TypeInv, [Next]_vars
  PROVE  \/ UNCHANGED sched
         \/ sched' = [sched EXCEPT !.stale = TRUE]
         \/ sched' = Down
         \/ BeginLoop \/ RunOnce \/ WaitEnds
         \/ CatchUpFails \/ (\E u \in Users : OutOfRange(u))
         \/ ListRetries \/ ListRetriesFails
         \/ ListCandidates \/ ListCandidatesFails \/ CandidatesDone
         \/ \E k \in jobs : Attempt(k) \/ NotReserved(k)
         \/ Tick
BY DEF Next, Boot, TimerFires, Run, Charge, ReserveFails, Admin, Pay, ReverseCharge, PauseUser,
       ResumeUser, BatchIsStale, Command, Crash, Rest, vars

LEMMA WaitLeavesARun ==
  ASSUME TypeInv, [Next]_vars, sched'.pc = "wait"
  PROVE  sched'.attempt < MaxRunAttempts
<1>1. sched \in Scheduler
  BY DEF TypeInv, DailyTypeOK
<1>2. ASSUME NEW again \in BOOLEAN, sched' = AfterRun(again)
      PROVE  sched'.attempt < MaxRunAttempts
  <2>1. sched' # Asleep
    BY AsleepType DEF TypeInv
  <2>2. /\ sched.attempt # MaxRunAttempts
        /\ sched' = [sched EXCEPT !.pc = "wait", !.left = RunBackoff(sched.attempt)]
    BY <1>2, <2>1 DEF AfterRun
  <2> QED
    BY <1>1, <2>2, LimitsAssumption DEF Scheduler
<1>3. CASE UNCHANGED sched \/ sched' = [sched EXCEPT !.stale = TRUE]
  BY <1>1, <1>3 DEF TypeInv, Scheduler
<1>4. CASE sched' = Down \/ BeginLoop \/ RunOnce \/ ListRetries \/ ListRetriesFails \/ ListCandidates
  <2>1. CASE sched' = Down
    BY <2>1 DEF Down
  <2>4. CASE BeginLoop
    BY <2>4, DownType DEF BeginLoop, Scheduler
  <2>2. CASE RunOnce
    BY <1>1, <2>2 DEF RunOnce, Scheduler
  <2>3. CASE ListRetries \/ ListRetriesFails \/ ListCandidates
    BY <1>1, <2>3 DEF ListRetries, ListRetriesFails, ListCandidates, Scheduler
  <2> QED
    BY <1>4, <2>1, <2>2, <2>3, <2>4
<1>5. CASE WaitEnds
  BY <1>1, <1>5, AsleepType DEF WaitEnds, TypeInv, Scheduler
<1>6. CASE CatchUpFails \/ (\E u \in Users : OutOfRange(u)) \/ ListCandidatesFails \/ CandidatesDone
  BY <1>1, <1>2, <1>6 DEF CatchUpFails, OutOfRange, ListCandidatesFails, CandidatesDone, Scheduler
<1>7. CASE \E k \in jobs : Attempt(k) \/ NotReserved(k)
  BY <1>1, <1>7 DEF Attempt, NotReserved, TypeInv, Scheduler
<1>8. CASE Tick
  BY <1>1, <1>8 DEF Tick, TypeInv, Scheduler
<1> QED
  BY <1>3, <1>4, <1>5, <1>6, <1>7, <1>8, Moves

LEMMA TypeInvHolds == Spec => []TypeInv
<1>1. Init => TypeInv
  BY InitType DEF Init, Down, TypeInv
<1>2. TypeInv /\ [Next]_vars => TypeInv'
  BY NextType, WaitLeavesARun DEF TypeInv
<1> QED
  BY <1>1, <1>2, PTL DEF Spec

(***************************************************************************)
(* Every variable of the daily run keeps its type; a refused row never     *)
(* counts more attempts than the limit, nor a loop more runs.              *)
(***************************************************************************)
THEOREM DailyTypes == Spec => []DailyTypeOK
<1>1. TypeInv => DailyTypeOK
  BY DEF TypeInv
<1> QED
  BY <1>1, TypeInvHolds, PTL

-----------------------------------------------------------------------------
(* No date is left out. *)

(* Why DateIsRun holds: a loop at work on a later date than its own at     *)
(* today's hour is recorded in passed, a run's date lies between the       *)
(* loop's and today's, and a timer set for tomorrow is set after the hour, *)
(* when today's date is run or passed.                                     *)
DateInv ==
  /\ InLoop => /\ sched.runDate <= day
               /\ sched.runDate # day /\ minute >= Hour => passed
  /\ sched.pc \in {"billing", "retrying", "selecting", "wait"} =>
       sched.runDate <= sched.date /\ sched.date <= day
  /\ sched.pc = "sleep" =>
       /\ sched.timer <= day + 1
       /\ sched.timer = day + 1 => minute >= Hour /\ (sched.date = day \/ passed)

LEMMA ClockTypes ==
  ASSUME TypeInv
  PROVE  /\ day \in Nat /\ minute \in Nat /\ minute < Minutes /\ sched \in Scheduler
         /\ Minutes \in Nat /\ Hour \in Nat /\ Hour < Minutes
         /\ passed \in BOOLEAN /\ calm \in BOOLEAN
BY ClockAssumption DEF TypeInv, DailyTypeOK

(* Only the clock moves the clock. *)
LEMMA ClockFrame ==
  ASSUME TypeInv, [Next]_vars
  PROVE  Tick \/ UNCHANGED <<day, minute, passed>>
BY DEF Next, Boot, TimerFires, BeginLoop, Run, RunOnce, WaitEnds, CatchUpFails, Charge, OutOfRange,
       ListRetries, ListRetriesFails, ListCandidates, ListCandidatesFails, CandidatesDone, Attempt, NotReserved,
       ReserveFails, Admin, Pay, ReverseCharge, PauseUser, ResumeUser, Command, Crash, Disturbed,
       Rest, vars, history

(* Going to sleep is right when today is run, or its hour is to come. *)
LEMMA SleepKeepsDateInv ==
  ASSUME TypeInv, UNCHANGED <<day, minute, passed>>,
         sched'.pc = "sleep", sched'.date = sched.date, sched'.timer = NextRun,
         minute >= Hour => sched.date = day \/ passed
  PROVE  DateInv'
<1>1. CASE minute < Hour
  BY <1>1, ClockTypes DEF DateInv, InLoop, NextRun
<1>2. CASE ~(minute < Hour)
  BY <1>2, ClockTypes DEF DateInv, InLoop, NextRun
<1> QED
  BY <1>1, <1>2

LEMMA AfterRunKeepsDateInv ==
  ASSUME TypeInv, DateInv, UNCHANGED <<day, minute, passed>>, NEW again \in BOOLEAN,
         sched.pc \in {"billing", "retrying", "selecting"}, sched' = AfterRun(again)
  PROVE  DateInv'
<1>1. /\ sched.runDate <= day
      /\ sched.runDate # day /\ minute >= Hour => passed
      /\ sched.runDate <= sched.date /\ sched.date <= day
  BY DEF DateInv, InLoop
<1>2. minute >= Hour => sched.date = day \/ passed
  BY <1>1, ClockTypes DEF Scheduler
<1>3. CASE sched'.pc = "sleep" /\ sched'.date = sched.date /\ sched'.timer = NextRun
  BY <1>2, <1>3, SleepKeepsDateInv
<1>4. CASE sched'.pc = "wait" /\ sched'.date = sched.date /\ sched'.runDate = sched.runDate
  BY <1>1, <1>4 DEF DateInv, InLoop
<1> QED
  BY <1>3, <1>4, AfterRunShape DEF TypeInv

(* The loop goes on: its dates stay what they are. *)
LEMMA StageKeepsDateInv ==
  ASSUME TypeInv, DateInv, UNCHANGED <<day, minute, passed>>,
         sched.pc \in {"billing", "retrying", "selecting"},
         sched'.pc \in {"billing", "retrying", "selecting"},
         sched'.date = sched.date, sched'.runDate = sched.runDate
  PROVE  DateInv'
BY DEF DateInv, InLoop

LEMMA TickKeepsDateInv ==
  ASSUME TypeInv, DateInv, Tick
  PROVE  DateInv'
<1>1. /\ sched'.pc = sched.pc /\ sched'.date = sched.date
      /\ sched'.runDate = sched.runDate /\ sched'.timer = sched.timer
  BY ClockTypes DEF Tick, Scheduler
<1>2. CASE minute < Minutes - 1
  <2>1. day' = day /\ minute' = minute + 1
    BY <1>2 DEF Tick
  <2>2. passed' = IF minute' = Hour THEN InLoop /\ sched.runDate # day' ELSE passed /\ minute' > Hour
    BY DEF Tick, InLoop
  <2>3. ASSUME InLoop PROVE /\ sched.runDate <= day'
                            /\ sched.runDate # day' /\ minute' >= Hour => passed'
    <3>1. sched.runDate <= day /\ (sched.runDate # day /\ minute >= Hour => passed)
      BY <2>3 DEF DateInv
    <3>2. CASE minute' = Hour
      <4>1. passed' = (sched.runDate # day')
        BY <2>2, <2>3, <3>2
      <4> QED
        BY <2>1, <3>1, <4>1
    <3>3. CASE minute' # Hour
      <4>1. passed' = (passed /\ minute' > Hour)
        BY <2>2, <3>3
      <4>2. minute' >= Hour => minute >= Hour /\ minute' > Hour
        BY <2>1, <3>3, ClockTypes
      <4> QED
        BY <2>1, <3>1, <4>1, <4>2
    <3> QED
      BY <3>2, <3>3
  <2>4. ASSUME sched.pc = "sleep", sched.timer = day + 1
        PROVE  minute' >= Hour /\ (sched.date = day' \/ passed')
    <3>1. minute >= Hour /\ (sched.date = day \/ passed)
      BY <2>4 DEF DateInv
    <3>2. minute' >= Hour /\ minute' # Hour /\ minute' > Hour
      BY <2>1, <3>1, ClockTypes
    <3> QED
      BY <2>1, <2>2, <3>1, <3>2
  <2> QED
    BY <1>1, <2>1, <2>3, <2>4 DEF DateInv, InLoop
<1>3. CASE ~(minute < Minutes - 1)
  <2>1. day' = day + 1 /\ minute' = 0 /\ minute >= Hour
    BY <1>3, ClockTypes DEF Tick
  <2>2. ASSUME InLoop PROVE /\ sched.runDate <= day'
                            /\ sched.runDate # day' /\ minute' >= Hour => passed'
    <3>1. sched.runDate <= day /\ sched.runDate \in Nat
      BY <2>2, ClockTypes DEF DateInv, Scheduler
    <3>2. minute' >= Hour => passed'
      <4>1. passed' = IF minute' = Hour THEN InLoop /\ sched.runDate # day' ELSE passed /\ minute' > Hour
        BY DEF Tick, InLoop
      <4>2. sched.runDate # day'
        BY <2>1, <3>1, ClockTypes
      <4>3. minute' >= Hour => minute' = Hour
        BY <2>1, ClockTypes
      <4> QED
        BY <2>2, <4>1, <4>2, <4>3
    <3> QED
      BY <2>1, <3>1, <3>2, ClockTypes
  <2>3. sched.pc \in {"billing", "retrying", "selecting", "wait"} =>
          sched.runDate <= sched.date /\ sched.date <= day'
    BY <2>1, ClockTypes DEF DateInv, Scheduler
  <2>4. sched.pc = "sleep" => sched.timer <= day' /\ sched.timer # day' + 1
    BY <2>1, ClockTypes DEF DateInv, Scheduler
  <2> QED
    BY <1>1, <2>1, <2>2, <2>3, <2>4, ClockTypes DEF DateInv, InLoop, Scheduler
<1> QED
  BY <1>2, <1>3

LEMMA DateInvStep ==
  ASSUME TypeInv, DateInv, [Next]_vars
  PROVE  DateInv'
<1> USE DEF Scheduler
<1>1. CASE Tick
  BY <1>1, TickKeepsDateInv
<1>2. ASSUME UNCHANGED <<day, minute, passed>>
      PROVE  DateInv'
  <2>1. CASE UNCHANGED sched \/ sched' = [sched EXCEPT !.stale = TRUE]
    <3>1. /\ sched'.pc = sched.pc /\ sched'.date = sched.date
          /\ sched'.runDate = sched.runDate /\ sched'.timer = sched.timer
      BY <2>1, ClockTypes
    <3> QED
      BY <1>2, <3>1 DEF DateInv, InLoop
  <2>2. CASE sched' = Down
    BY <2>2 DEF DateInv, InLoop, Down
  <2>3. CASE BeginLoop
    <3>1. sched'.pc = "run" /\ sched'.runDate = day
      BY <2>3, DownType DEF BeginLoop
    <3> QED
      BY <1>2, <3>1, ClockTypes DEF DateInv, InLoop
  <2>4. CASE RunOnce
    <3>1. /\ sched.pc = "run" /\ sched'.pc = "billing"
          /\ sched'.runDate = sched.runDate /\ sched'.date = day
      BY <2>4, ClockTypes DEF RunOnce
    <3> QED
      BY <1>2, <3>1, ClockTypes DEF DateInv, InLoop
  <2>5. CASE WaitEnds
    <3>1. sched.pc = "wait" /\ (sched.runDate # day /\ minute >= Hour => passed)
      BY <2>5 DEF WaitEnds, DateInv, InLoop
    <3>2. CASE day # sched.runDate
      <4>1. sched' = Asleep
        BY <2>5, <3>2 DEF WaitEnds
      <4> QED
        BY <1>2, <3>1, <3>2, <4>1, AsleepType, SleepKeepsDateInv DEF TypeInv
    <3>3. CASE day = sched.runDate
      <4>1. sched'.pc = "run" /\ sched'.runDate = sched.runDate
        BY <2>5, <3>3, ClockTypes DEF WaitEnds
      <4> QED
        BY <1>2, <3>3, <4>1, ClockTypes DEF DateInv, InLoop
    <3> QED
      BY <3>2, <3>3
  <2>6. CASE CatchUpFails \/ (\E u \in Users : OutOfRange(u)) \/ ListCandidatesFails \/ CandidatesDone
    <3>1. /\ sched.pc \in {"billing", "retrying", "selecting"}
          /\ sched' = AfterRun(FALSE) \/ sched' = AfterRun(sched.retry)
      BY <2>6 DEF CatchUpFails, OutOfRange, ListCandidatesFails, CandidatesDone
    <3>2. sched.retry \in BOOLEAN
      BY ClockTypes
    <3> QED
      BY <1>2, <3>1, <3>2, AfterRunKeepsDateInv
  <2>7. CASE ListRetries \/ ListRetriesFails \/ ListCandidates
    <3>1. /\ sched.pc \in {"billing", "retrying", "selecting"}
          /\ sched'.pc \in {"billing", "retrying", "selecting"}
          /\ sched'.date = sched.date /\ sched'.runDate = sched.runDate
      BY <2>7, ClockTypes DEF CatchUpEnds, ListRetries, ListRetriesFails, ListCandidates
    <3> QED
      BY <1>2, <3>1, StageKeepsDateInv
  <2>8. CASE \E k \in jobs : Attempt(k) \/ NotReserved(k)
    <3>1. /\ sched.pc \in {"billing", "retrying", "selecting"}
          /\ sched'.pc \in {"billing", "retrying", "selecting"}
          /\ sched'.date = sched.date /\ sched'.runDate = sched.runDate
      BY <2>8, ClockTypes DEF Attempt, NotReserved
    <3> QED
      BY <1>2, <3>1, StageKeepsDateInv
  <2>9. CASE Tick
    BY <2>9, TickKeepsDateInv
  <2> QED
    BY <2>1, <2>2, <2>3, <2>4, <2>5, <2>6, <2>7, <2>8, <2>9, Moves
<1> QED
  BY <1>1, <1>2, ClockFrame

(***************************************************************************)
(* Whenever the hour is over and the scheduler sleeps until a later time,  *)
(* it has run today's date, or a loop of an earlier date was at work when  *)
(* the hour came: for any hour, any delays and any interruptions.          *)
(***************************************************************************)
THEOREM NoDateLeftOut == Spec => []DateIsRun
<1>1. Init => DateInv
  BY DEF Init, Down, DateInv, InLoop
<1>2. TypeInv /\ DateInv /\ [Next]_vars => DateInv'
  BY DateInvStep
<1>3. TypeInv /\ DateInv => DateIsRun
  <2> SUFFICES ASSUME TypeInv, DateInv, Sleeping, minute >= Hour
               PROVE  sched.date = day \/ passed
    BY DEF DateIsRun
  <2>1. sched.pc = "sleep" /\ sched.timer \in Nat /\ sched.timer > day
    BY ClockTypes DEF Sleeping, TimerDue, Scheduler
  <2>2. sched.timer = day + 1
    BY <2>1, ClockTypes DEF DateInv
  <2> QED
    BY <2>1, <2>2 DEF DateInv
<1> QED
  BY <1>1, <1>2, <1>3, TypeInvHolds, PTL DEF Spec

-----------------------------------------------------------------------------
(* An undisturbed loop attempts the reminders of its date. *)

(* Why OverdueIsReminded and ChargedThenReminded hold: what the listing    *)
(* selects is in the list or in the table, after the last of the list it   *)
(* is in the table, and all that time nobody is left to be charged.        *)
PlanInv ==
  /\ calm /\ InLoop => ~sched.stale
  /\ calm /\ sched.pc \in {"retrying", "selecting", "wait", "sleep"} => NobodyLeft(sched.date)
  /\ calm /\ sched.pc = "selecting" =>
       \A u \in Users : SelectAutomatic(u, sched.date) \subseteq jobs \union DOMAIN rows
  /\ calm /\ sched.pc \in {"wait", "sleep"} =>
       \A u \in Users : SelectAutomatic(u, sched.date) \subseteq DOMAIN rows

(* A selection only depends on the customers and the date. *)
LEMMA SelectionFrame ==
  ASSUME UNCHANGED customers, sched'.date = sched.date
  PROVE  \A u \in Users : SelectAutomatic(u, sched.date)' = SelectAutomatic(u, sched.date)
BY DEF SelectAutomatic, LatestCharge, InDebt, customers

(* Who is left to be charged, too. *)
LEMMA ChargesFrame ==
  ASSUME UNCHANGED customers
  PROVE  \A date : NobodyLeft(date)' <=> NobodyLeft(date)
BY DEF NobodyLeft, InFirstBatch, IsDue, InFront, customers

(* Only somebody who is left is charged. *)
LEMMA ChargedIsLeft ==
  ASSUME NEW u \in Users, Charge(u), ~sched.stale
  PROVE  ~NobodyLeft(sched.date)
BY DEF Charge, Listed, NobodyLeft

(* What a loop does once it stops selecting, and while it does not begin. *)
LEMMA PlanKept ==
  ASSUME PlanInv, UNCHANGED customers, sched'.date = sched.date,
         calm' => calm, DOMAIN rows \subseteq DOMAIN rows', sched'.stale \in {sched.stale, FALSE},
         \/ sched'.pc = sched.pc /\ jobs \subseteq jobs' \union DOMAIN rows'
         \/ sched.pc = "selecting" /\ jobs = {} /\ sched'.pc \in {"wait", "sleep"}
         \/ sched.pc = "wait" /\ sched'.pc \in {"run", "sleep"}
  PROVE  PlanInv'
<1>1. NobodyLeft(sched.date)' <=> NobodyLeft(sched.date)
  BY ChargesFrame
<1> QED
  BY <1>1, SelectionFrame DEF PlanInv, InLoop

LEMMA PlanInvStep ==
  ASSUME TypeInv, PlanInv, [Next]_vars
  PROVE  PlanInv'
<1>0. sched \in Scheduler
  BY DEF TypeInv, DailyTypeOK
<1>1. CASE Boot \/ TimerFires
  <2>1. sched'.pc = "run" /\ sched'.stale = FALSE
    BY <1>1, DownType DEF Boot, TimerFires, BeginLoop, Down, Scheduler
  <2> QED
    BY <2>1 DEF PlanInv
<1>2. CASE RunOnce \/ ListRetries
  <2>1. CASE RunOnce
    <3>1. sched'.pc = "billing" /\ sched'.stale = FALSE
      BY <1>0, <2>1 DEF RunOnce, Scheduler
    <3> QED
      BY <3>1 DEF PlanInv
  <2>2. CASE ListRetries
    <3>1. /\ sched.pc = "billing" /\ sched'.pc = "retrying" /\ sched'.date = sched.date
          /\ sched'.stale = sched.stale /\ UNCHANGED <<customers, calm>>
          /\ NobodyLeft(sched.date) \/ sched.stale
      BY <1>0, <2>2 DEF ListRetries, CatchUpEnds, Scheduler, history
    <3> QED
      BY <3>1, ChargesFrame DEF PlanInv, InLoop
  <2> QED
    BY <1>2, <2>1, <2>2
<1>3. CASE WaitEnds
  <2>1. /\ sched.pc = "wait" /\ sched'.pc \in {"run", "sleep"} /\ sched'.date = sched.date
        /\ sched'.stale \in {sched.stale, FALSE}
    BY <1>0, <1>3, AsleepType DEF WaitEnds, Asleep, Down, TypeInv, Scheduler
  <2> QED
    BY <1>3, <2>1, PlanKept DEF WaitEnds, history
<1>4. CASE CatchUpFails \/ (\E u \in Users : OutOfRange(u)) \/ ListRetriesFails \/ ListCandidatesFails \/ Crash
           \/ (\E k \in jobs : ReserveFails(k)) \/ Admin
  <2>1. calm' = FALSE
    BY <1>4 DEF CatchUpFails, OutOfRange, ListRetriesFails, ListCandidatesFails, Crash, ReserveFails,
                Admin, Pay, ReverseCharge, PauseUser, ResumeUser, Command, Disturbed
  <2> QED
    BY <2>1 DEF PlanInv
<1>5. CASE \E u \in Users : Charge(u)
  <2>1. sched'.pc = "billing" /\ UNCHANGED <<sched, calm>>
    BY <1>5 DEF Charge, history
  <2> QED
    BY <2>1 DEF PlanInv, InLoop
<1>6. CASE ListCandidates
  <2>1. /\ sched.pc = "retrying" /\ sched'.pc = "selecting" /\ sched'.date = sched.date
        /\ sched'.stale = sched.stale /\ UNCHANGED <<customers, calm>>
        /\ jobs' = UNION {SelectAutomatic(u, sched.date) : u \in Users}
    BY <1>0, <1>6 DEF ListCandidates, Scheduler, history
  <2>2. \A u \in Users : SelectAutomatic(u, sched.date)' \subseteq jobs'
    BY <2>1, SelectionFrame
  <2> QED
    BY <2>1, <2>2, ChargesFrame DEF PlanInv, InLoop
<1>7. CASE CandidatesDone
  <2>1. sched'.pc \in {"wait", "sleep"} /\ sched'.date = sched.date
    BY <1>0, <1>7, AfterRunShape DEF CandidatesDone, TypeInv, Scheduler
  <2>2. sched'.stale \in {sched.stale, FALSE}
    BY <1>0, <1>7 DEF CandidatesDone, AfterRun, Asleep, Down, Scheduler
  <2> QED
    BY <1>7, <2>1, <2>2, PlanKept DEF CandidatesDone, history
<1>8. CASE \E k \in jobs : Attempt(k) \/ NotReserved(k)
  <2>1. PICK k \in jobs : Attempt(k) \/ NotReserved(k)
    BY <1>8
  <2>2. k \in DOMAIN rows' /\ DOMAIN rows \subseteq DOMAIN rows'
    BY <2>1 DEF Attempt, NotReserved, Put, CanReserve
  <2>3. /\ jobs' = jobs \ {k} /\ sched'.pc = sched.pc /\ sched'.date = sched.date
        /\ sched'.stale = sched.stale
    BY <1>0, <2>1 DEF Attempt, NotReserved, Scheduler
  <2>4. UNCHANGED customers /\ UNCHANGED calm
    BY <2>1 DEF Attempt, NotReserved, history
  <2> QED
    BY <2>2, <2>3, <2>4, PlanKept
<1>9. CASE Tick
  <2>1. sched'.pc = sched.pc /\ sched'.date = sched.date /\ sched'.stale = sched.stale
    BY <1>0, <1>9 DEF Tick, Scheduler
  <2>2. DOMAIN rows' = DOMAIN rows
    BY <1>9 DEF Tick
  <2>3. UNCHANGED <<jobs, customers>> /\ (calm' => calm)
    BY <1>9 DEF Tick
  <2>4. jobs \subseteq jobs' \union DOMAIN rows' /\ UNCHANGED customers
    BY <2>3
  <2> QED
    BY <2>1, <2>2, <2>3, <2>4, PlanKept
<1>10. CASE UNCHANGED vars \/ Rest
  <2>1. UNCHANGED vars
    BY <1>10 DEF Rest
  <2>2. UNCHANGED <<sched, jobs, rows, calm>> /\ UNCHANGED customers
    BY <2>1 DEF vars, history
  <2> QED
    BY <2>2, PlanKept
<1> QED
  BY <1>1, <1>2, <1>3, <1>4, <1>5, <1>6, <1>7, <1>8, <1>9, <1>10 DEF Next, Run

(***************************************************************************)
(* After a loop that nothing disturbed, a customer in debt has had the     *)
(* overdue reminder that is due, however many days the process was down.   *)
(***************************************************************************)
THEOREM OverdueReminded == Spec => []OverdueIsReminded
<1>1. Init => PlanInv
  BY DEF Init, Down, PlanInv, InLoop
<1>2. TypeInv /\ PlanInv /\ [Next]_vars => PlanInv'
  BY PlanInvStep
<1>3. TypeInv /\ PlanInv => OverdueIsReminded
  <2> SUFFICES ASSUME TypeInv, PlanInv, sched.pc = "sleep", calm, NEW u \in Users,
                      LatestCharge(u, sched.date) # Null, status[u] = "active", InDebt(u),
                      next[u] # sched.date + Notice
               PROVE  LET latest == LatestCharge(u, sched.date)
                      IN /\ sched.date >= latest + LongOverdue =>
                              <<u, latest, "overdue_7d">> \in DOMAIN rows
                         /\ sched.date >= latest + Overdue =>
                              \/ <<u, latest, "overdue_3d">> \in DOMAIN rows
                              \/ <<u, latest, "overdue_7d">> \in DOMAIN rows
    BY DEF OverdueIsReminded
  <2> DEFINE latest == LatestCharge(u, sched.date)
  <2>1. sched.date \in Nat /\ latest \in Nat /\ balance[u] \in Int /\ balance[u] < 1
    <3>1. sched.date \in Nat /\ balance[u] \in Int
      BY DEF TypeInv, DailyTypeOK, Scheduler
    <3> QED
      BY <3>1, LatestChargeType DEF InDebt, TypeInv
  <2>2. SelectAutomatic(u, sched.date) \subseteq DOMAIN rows
    BY DEF PlanInv
  <2>3. CASE sched.date >= latest + LongOverdue
    <3>1. latest # sched.date /\ ~(balance[u] >= 1)
      BY <2>1, <2>3, DaysAssumption
    <3>2. SelectAutomatic(u, sched.date) = {<<u, latest, "overdue_7d">>}
      BY <2>3, <3>1 DEF SelectAutomatic
    <3> QED
      BY <2>2, <3>2
  <2>4. CASE ~(sched.date >= latest + LongOverdue) /\ sched.date >= latest + Overdue
    <3>1. latest # sched.date /\ ~(balance[u] >= 1)
      BY <2>1, <2>4, DaysAssumption
    <3>2. SelectAutomatic(u, sched.date) = {<<u, latest, "overdue_3d">>}
      BY <2>4, <3>1 DEF SelectAutomatic
    <3> QED
      BY <2>2, <2>4, <3>2
  <2>5. CASE ~(sched.date >= latest + LongOverdue) /\ ~(sched.date >= latest + Overdue)
    BY <2>5
  <2> QED
    BY <2>3, <2>4, <2>5
<1> QED
  BY <1>1, <1>2, <1>3, TypeInvHolds, PTL DEF Spec

(***************************************************************************)
(* RunOnce: for any number of customers and any size of a batch, a loop    *)
(* that nothing disturbed leaves nobody of the first batch uncharged whose *)
(* period was not charged before, and has reminded whomever a charge of    *)
(* its date has put into debt of that charge.                              *)
(***************************************************************************)
THEOREM RemindedOfTheCharge == Spec => []ChargedThenReminded
<1>1. Init => PlanInv
  BY DEF Init, Down, PlanInv, InLoop
<1>2. TypeInv /\ PlanInv /\ [Next]_vars => PlanInv'
  BY PlanInvStep
<1>3. TypeInv /\ PlanInv => ChargedThenReminded
  <2> SUFFICES ASSUME TypeInv, PlanInv, sched.pc = "sleep", calm, NEW u \in Users
               PROVE  /\ InFirstBatch(u, sched.date) => next[u] \in billed[u]
                      /\ status[u] = "active" /\ InDebt(u) /\ sched.date \in charges[u] =>
                           <<u, sched.date, "charge_debt">> \in DOMAIN rows
    BY DEF ChargedThenReminded
  <2>1. InFirstBatch(u, sched.date) => next[u] \in billed[u]
    BY DEF PlanInv, NobodyLeft
  <2>2. ASSUME status[u] = "active", InDebt(u), sched.date \in charges[u]
        PROVE  <<u, sched.date, "charge_debt">> \in DOMAIN rows
    <3> DEFINE date == sched.date
               past == {c \in charges[u] : c <= date}
    <3>1. date \in Nat /\ balance[u] \in Int /\ charges[u] \subseteq Nat
      BY DEF TypeInv, DailyTypeOK, Scheduler
    <3>2. date \in past /\ (\A other \in past : other <= date) /\ past \subseteq Nat
      BY <2>2, <3>1
    <3>3. LatestCharge(u, date) = CHOOSE c \in past : \A other \in past : other <= c
      BY <3>2 DEF LatestCharge
    <3> HIDE DEF past
    <3>4. LatestCharge(u, date) = date
      <4>1. \A c \in past : (\A other \in past : other <= c) => c = date
        BY <3>1, <3>2
      <4> QED
        BY <3>2, <3>3, <4>1
    <3>5. ~(balance[u] >= 1)
      BY <2>2, <3>1 DEF InDebt
    <3>6. SelectAutomatic(u, date) = {<<u, date, "charge_debt">>}
      BY <2>2, <3>4, <3>5 DEF SelectAutomatic
    <3> QED
      BY <3>6 DEF PlanInv
  <2> QED
    BY <2>1, <2>2
<1> QED
  BY <1>1, <1>2, <1>3, TypeInvHolds, PTL DEF Spec

-----------------------------------------------------------------------------
(* A reminder begun by a calm loop is settled by it. *)

(* Nothing but midnight ends the date of a loop. *)
CalmInv ==
  calm /\ InLoop => /\ sched.runDate = day /\ (sched.pc # "run" => sched.date = day)
                    /\ ~sched.stale

(* A refused row has attempts left, and waits no longer than its delay. *)
RowsInv ==
  \A k \in DOMAIN rows : Refused(k) =>
    /\ rows[k].attempt < MaxAttempts
    /\ rows[k].left <= DeliveryBackoff(rows[k].attempt)

(* Process works off one list after the other; retries are in the table. *)
JobsInv ==
  /\ sched.pc \notin {"retrying", "selecting"} => jobs = {}
  /\ sched.pc = "retrying" => jobs \subseteq DOMAIN rows

(* A fresh reminder has been attempted. *)
BegunInv == fresh \subseteq DOMAIN rows

(* As nobody is charged any more, every run of the loop selects the same. *)
SelectedInv ==
  /\ calm /\ sched.pc \in {"retrying", "selecting"} => NobodyLeft(sched.date)
  /\ calm /\ sched.pc = "selecting" => \A k \in jobs : k \in SelectAutomatic(Owner(k), sched.date)
  /\ calm /\ InLoop /\ fresh # {} => NobodyLeft(day)
  /\ calm /\ InLoop => \A k \in fresh : k \in SelectAutomatic(Owner(k), day)

(***************************************************************************)
(* The attempts of a fresh reminder keep up with the runs of the loop: at  *)
(* the end of run n it has had n attempts or more, and when the delay of   *)
(* the scheduler is over, so is the delay of a row with just n.            *)
(***************************************************************************)
KeepsUp(k) ==
  LET n == rows[k].attempt
      due == n >= sched.attempt \/ (n = sched.attempt - 1 /\ rows[k].left = 0)
  IN CASE sched.pc \in {"run", "billing"} -> due
       [] sched.pc = "retrying" -> due /\ (k \in jobs \/ n >= sched.attempt)
       [] sched.pc = "selecting" -> n >= sched.attempt /\ (k \in jobs \/ sched.retry)
       [] sched.pc = "wait" -> n > sched.attempt \/ (n = sched.attempt /\ rows[k].left <= sched.left)
       [] OTHER -> FALSE

ProgressInv == calm /\ InLoop => \A k \in fresh : Refused(k) => KeepsUp(k)

FreshInv ==
  /\ CalmInv /\ RowsInv /\ JobsInv /\ BegunInv
  /\ SelectedInv /\ ProgressInv /\ FreshIsSettled

(* The steps that disturb nothing. *)
LEMMA CalmSteps ==
  ASSUME [Next]_vars, calm'
  PROVE  \/ UNCHANGED <<day, sched, jobs, rows, customers, history>>
         \/ sched.pc \in {"down", "sleep"} /\ BeginLoop
         \/ RunOnce \/ WaitEnds \/ (\E u \in Users : Charge(u))
         \/ ListRetries \/ ListCandidates \/ CandidatesDone
         \/ (\E k \in jobs : Attempt(k) \/ NotReserved(k))
         \/ Tick
BY DEF Next, Boot, TimerFires, Run, CatchUpFails, OutOfRange, ListRetriesFails, ListCandidatesFails,
       ReserveFails, Admin, Pay, ReverseCharge, PauseUser, ResumeUser, Command, Crash,
       Disturbed, Rest, vars, history

LEMMA CalmKept ==
  ASSUME TypeInv, CalmInv, [Next]_vars
  PROVE  CalmInv'
<1> USE DEF CalmInv, InLoop
<1> SUFFICES ASSUME calm'
             PROVE  CalmInv'
  OBVIOUS
<1>0. sched \in Scheduler
  BY ClockTypes
<1>1. CASE UNCHANGED <<day, sched, jobs, rows, customers, history>>
  BY <1>1 DEF history
<1>2. CASE BeginLoop
  <2>1. sched'.pc = "run" /\ sched'.runDate = day /\ day' = day /\ sched'.stale = FALSE
    BY <1>2, DownType DEF BeginLoop, Down, Scheduler
  <2> QED
    BY <2>1
<1>3. CASE RunOnce
  <2>1. /\ sched.pc = "run" /\ sched'.date = day /\ sched'.runDate = sched.runDate
        /\ day' = day /\ calm' = calm /\ sched'.stale = FALSE
    BY <1>0, <1>3 DEF RunOnce, Scheduler, history
  <2> QED
    BY <2>1
<1>4. CASE WaitEnds
  <2>1. /\ sched.pc = "wait" /\ day' = day /\ calm' = calm
        /\ \/ sched'.pc = "sleep"
           \/ /\ sched'.pc = "run" /\ sched'.runDate = sched.runDate
              /\ sched'.stale = sched.stale
    BY <1>0, <1>4, AsleepType DEF WaitEnds, TypeInv, Scheduler, history
  <2> QED
    BY <2>1
<1>5. CASE CandidatesDone
  <2>1. sched.retry \in BOOLEAN
    BY <1>0 DEF Scheduler
  <2>2. /\ sched.pc = "selecting" /\ day' = day /\ calm' = calm
        /\ sched'.pc = "sleep" \/ (sched'.date = sched.date /\ sched'.runDate = sched.runDate)
    BY <1>5, <2>1, AfterRunShape DEF CandidatesDone, TypeInv, history
  <2>3. sched'.stale \in {sched.stale, FALSE}
    BY <1>0, <1>5 DEF CandidatesDone, AfterRun, Asleep, Down, Scheduler
  <2> QED
    BY <2>2, <2>3
<1>6. CASE (\E u \in Users : Charge(u)) \/ ListRetries \/ ListCandidates
             \/ (\E k \in jobs : Attempt(k) \/ NotReserved(k))
  <2>1. /\ sched.pc \in {"billing", "retrying", "selecting"} /\ day' = day /\ calm' = calm
        /\ sched'.date = sched.date /\ sched'.runDate = sched.runDate /\ sched'.stale = sched.stale
    BY <1>0, <1>6 DEF Charge, ListRetries, CatchUpEnds, ListCandidates, Attempt, NotReserved, Scheduler, history
  <2> QED
    BY <2>1
<1>7. CASE Tick
  <2>1. /\ sched'.pc = sched.pc /\ sched'.date = sched.date /\ sched'.runDate = sched.runDate
        /\ sched'.stale = sched.stale
    BY <1>0, <1>7 DEF Tick, Scheduler
  <2>2. calm /\ (day' = day \/ sched.pc = "sleep")
    BY <1>7 DEF Tick
  <2> QED
    BY <2>1, <2>2
<1> QED
  BY <1>1, <1>2, <1>3, <1>4, <1>5, <1>6, <1>7, CalmSteps

LEMMA JobsKept ==
  ASSUME TypeInv, JobsInv, [Next]_vars
  PROVE  JobsInv'
<1> USE DEF JobsInv
<1>0. sched \in Scheduler
  BY ClockTypes
<1>1. CASE UNCHANGED <<jobs, rows>> /\ (UNCHANGED sched \/ BatchIsStale)
  <2>1. sched'.pc = sched.pc
    BY <1>0, <1>1 DEF BatchIsStale, Scheduler
  <2> QED
    BY <1>1, <2>1
<1>2. CASE BeginLoop /\ sched.pc \in {"down", "sleep"}
  <2>1. sched'.pc = "run" /\ jobs' = jobs
    BY <1>2, DownType DEF BeginLoop, Scheduler
  <2> QED
    BY <1>2, <2>1
<1>3. CASE RunOnce \/ WaitEnds \/ CatchUpFails \/ \E u \in Users : OutOfRange(u)
  <2>1. /\ sched.pc \in {"run", "wait", "billing"} /\ jobs' = jobs
        /\ sched'.pc \in {"run", "billing", "wait", "sleep"}
    BY <1>0, <1>3, AsleepType, AfterRunShape
       DEF RunOnce, WaitEnds, CatchUpFails, OutOfRange, TypeInv, Scheduler
  <2> QED
    BY <2>1
<1>4. CASE ListRetries \/ ListRetriesFails
  <2>1. /\ sched.pc = "billing" /\ sched'.pc = "retrying" /\ rows' = rows
        /\ jobs' = RetryCandidates \/ jobs' = jobs
    BY <1>0, <1>4 DEF ListRetries, ListRetriesFails, CatchUpEnds, Scheduler
  <2> QED
    BY <2>1 DEF RetryCandidates
<1>5. CASE ListCandidates
  <2>1. sched'.pc = "selecting"
    BY <1>0, <1>5 DEF ListCandidates, Scheduler
  <2> QED
    BY <2>1
<1>6. CASE ListCandidatesFails \/ CandidatesDone
  <2>1. jobs' = {}
    BY <1>6 DEF ListCandidatesFails, CandidatesDone
  <2> QED
    BY <2>1
<1>7. CASE \E k \in jobs : Attempt(k) \/ NotReserved(k) \/ ReserveFails(k)
  <2>1. /\ jobs' \subseteq jobs /\ sched'.pc = sched.pc /\ DOMAIN rows \subseteq DOMAIN rows'
        /\ sched.pc \in {"retrying", "selecting"}
    BY <1>0, <1>7 DEF Attempt, NotReserved, ReserveFails, Put, Scheduler
  <2> QED
    BY <2>1
<1>8. CASE Crash
  <2>1. jobs' = {}
    BY <1>8 DEF Crash
  <2> QED
    BY <2>1
<1>9. CASE Tick
  <2>1. sched'.pc = sched.pc /\ jobs' = jobs /\ DOMAIN rows' = DOMAIN rows
    BY <1>0, <1>9 DEF Tick, Scheduler
  <2> QED
    BY <2>1
<1> QED
  BY <1>1, <1>2, <1>3, <1>4, <1>5, <1>6, <1>7, <1>8, <1>9
     DEF Next, Boot, TimerFires, Run, Charge, Admin, Pay, ReverseCharge, PauseUser, ResumeUser,
         Command, Rest, vars

LEMMA AnsweredRow ==
  ASSUME NEW n \in Nat, NEW refused \in BOOLEAN, Answered(n, refused).status = "refused"
  PROVE  /\ refused /\ n < MaxAttempts
         /\ Answered(n, refused).attempt = n
         /\ Answered(n, refused).left = DeliveryBackoff(n)
BY DEF Answered, Settled

LEMMA RowsKept ==
  ASSUME TypeInv, RowsInv, [Next]_vars
  PROVE  RowsInv'
<1> USE DEF RowsInv, Refused
<1>1. CASE UNCHANGED rows
  BY <1>1 DEF DeliveryBackoff
<1>2. ASSUME NEW k \in jobs, Attempt(k)
      PROVE  RowsInv'
  <2>1. PICK refused \in BOOLEAN : rows' = Put(k, Answered(AttemptOf(k), refused))
    BY <1>2 DEF Attempt
  <2>2. AttemptOf(k) \in Nat
    BY AttemptOfType DEF TypeInv
  <2>3. DeliveryBackoff(AttemptOf(k)) \in Nat
    BY <2>2, DeliveryBackoffType
  <2> DEFINE row == Answered(AttemptOf(k), refused)
  <2>4. row.status = "refused" =>
          row.attempt < MaxAttempts /\ row.left <= DeliveryBackoff(row.attempt)
    BY <2>2, <2>3, AnsweredRow
  <2> HIDE DEF row
  <2>5. ASSUME NEW other \in DOMAIN rows', rows'[other].status = "refused"
        PROVE  /\ rows'[other].attempt < MaxAttempts
               /\ rows'[other].left <= DeliveryBackoff(rows'[other].attempt)
    <3>1. rows'[k] = row /\ (other # k => other \in DOMAIN rows /\ rows'[other] = rows[other])
      <4>1. rows' = Put(k, row)
        BY <2>1 DEF row
      <4> QED
        BY <4>1 DEF Put
    <3>2. CASE other = k
      BY <2>4, <2>5, <3>1, <3>2
    <3>3. CASE other # k
      BY <2>5, <3>1, <3>3
    <3> QED
      BY <3>2, <3>3
  <2> QED
    BY <2>5 DEF DeliveryBackoff
<1>3. CASE Crash
  <2>1. PICK inHand \in SUBSET jobs :
          rows' = [k \in DOMAIN rows \union inHand |-> IF k \in inHand THEN Settled ELSE rows[k]]
    BY <1>3 DEF Crash
  <2>2. Settled.status # "refused"
    BY DEF Settled
  <2>3. ASSUME NEW other \in DOMAIN rows', rows'[other].status = "refused"
        PROVE  other \in DOMAIN rows /\ rows'[other] = rows[other]
    BY <2>1, <2>2, <2>3
  <2> QED
    BY <2>3 DEF DeliveryBackoff
<1>4. CASE Tick
  <2> SUFFICES ASSUME NEW k \in DOMAIN rows, rows'[k].status = "refused"
               PROVE  /\ rows'[k].attempt < MaxAttempts
                      /\ rows'[k].left <= DeliveryBackoff(rows'[k].attempt)
    BY <1>4 DEF Tick
  <2>1. rows[k] \in Row
    BY DEF TypeInv, DailyTypeOK
  <2>2. /\ rows'[k].status = rows[k].status
        /\ rows'[k].attempt = rows[k].attempt
        /\ rows'[k].left = IF rows[k].left > 0 THEN rows[k].left - 1 ELSE 0
    BY <1>4, <2>1 DEF Tick, Row, Settled
  <2>3. rows[k].attempt \in Nat /\ rows[k].left \in Nat
    BY <2>1, LimitsAssumption DEF Row, Settled
  <2>4. DeliveryBackoff(rows[k].attempt) \in Nat
    BY <2>3, DeliveryBackoffType
  <2> QED
    BY <2>2, <2>3, <2>4
<1> QED
  BY <1>1, <1>2, <1>3, <1>4
     DEF Next, Boot, TimerFires, BeginLoop, Run, RunOnce, WaitEnds, CatchUpFails, Charge,
         OutOfRange, ListRetries, ListRetriesFails, ListCandidates, ListCandidatesFails, CandidatesDone, NotReserved,
         ReserveFails, Admin, Pay, ReverseCharge, PauseUser, ResumeUser, Command, Rest, vars

LEMMA OwnerOfSelected ==
  ASSUME NEW u, NEW date, NEW k \in SelectAutomatic(u, date)
  PROVE  Owner(k) = u
BY DEF SelectAutomatic, Owner

(* A selection only depends on the customers, for any date. *)
LEMMA CustomersFrame ==
  ASSUME UNCHANGED customers
  PROVE  \A u \in Users : \A date : SelectAutomatic(u, date)' = SelectAutomatic(u, date)
BY DEF SelectAutomatic, LatestCharge, InDebt, customers

(* What a loop knows at a date stays so while date and customers do. *)
LEMMA SelectedFrame ==
  ASSUME TypeInv, SelectedInv, calm, UNCHANGED <<day, customers, fresh>>, InLoop,
         sched'.pc \notin {"retrying", "selecting"}
  PROVE  SelectedInv'
<1>1. \A k \in fresh : Owner(k) \in Users
  BY DEF TypeInv, DailyTypeOK, Keys, Owner
<1>2. \A k \in fresh : k \in SelectAutomatic(Owner(k), day)'
  BY <1>1, CustomersFrame DEF SelectedInv
<1>3. fresh # {} => NobodyLeft(day)'
  BY ChargesFrame DEF SelectedInv
<1> QED
  BY <1>2, <1>3 DEF SelectedInv, Owner

LEMMA SelectedStays ==
  ASSUME TypeInv, SelectedInv, calm, UNCHANGED <<day, jobs, customers, fresh>>,
         sched'.pc = sched.pc, sched'.date = sched.date
  PROVE  SelectedInv'
<1>1. \A k \in jobs \union fresh : Owner(k) \in Users
  BY DEF TypeInv, DailyTypeOK, Keys, Owner
<1>2. sched.pc = "selecting" => \A k \in jobs : k \in SelectAutomatic(Owner(k), sched.date)'
  BY <1>1, CustomersFrame DEF SelectedInv
<1>3. InLoop => \A k \in fresh : k \in SelectAutomatic(Owner(k), day)'
  BY <1>1, CustomersFrame DEF SelectedInv
<1>4. sched.pc \in {"retrying", "selecting"} => NobodyLeft(sched.date)'
  BY ChargesFrame DEF SelectedInv
<1>5. InLoop /\ fresh # {} => NobodyLeft(day)'
  BY ChargesFrame DEF SelectedInv
<1> QED
  BY <1>2, <1>3, <1>4, <1>5 DEF SelectedInv, InLoop, Owner

LEMMA SelectedKept ==
  ASSUME TypeInv, CalmInv, JobsInv, SelectedInv, [Next]_vars
  PROVE  SelectedInv'
<1> SUFFICES ASSUME calm'
             PROVE  SelectedInv'
  BY DEF SelectedInv
<1>0. sched \in Scheduler
  BY ClockTypes
<1>1. CASE UNCHANGED <<day, sched, jobs, rows, customers, history>>
  BY <1>1, SelectedStays DEF history
<1>2. CASE BeginLoop
  <2>1. sched'.pc = "run" /\ fresh' = {}
    BY <1>2, DownType DEF BeginLoop, Scheduler
  <2> QED
    BY <2>1 DEF SelectedInv
<1>3. CASE RunOnce \/ WaitEnds \/ CandidatesDone
  <2>1. sched.retry \in BOOLEAN
    BY <1>0 DEF Scheduler
  <2>2. /\ sched.pc \in {"run", "wait", "selecting"}
        /\ sched'.pc \in {"billing", "run", "wait", "sleep"}
        /\ UNCHANGED <<day, customers, fresh, calm>>
    BY <1>0, <1>3, <2>1, AsleepType, AfterRunShape
       DEF RunOnce, WaitEnds, CandidatesDone, TypeInv, Scheduler, history
  <2> QED
    BY <2>2, SelectedFrame DEF InLoop
<1>4. CASE \E u \in Users : Charge(u)
  <2>1. PICK u \in Users : Charge(u)
    BY <1>4
  <2>2. /\ sched.pc = "billing" /\ calm
        /\ UNCHANGED <<day, sched, fresh>>
    BY <2>1 DEF Charge, history
  <2>3. sched.date = day /\ ~sched.stale
    BY <2>2 DEF CalmInv, InLoop
  <2>4. fresh = {}
    BY <2>1, <2>2, <2>3, ChargedIsLeft DEF SelectedInv, InLoop
  <2> QED
    BY <2>2, <2>4 DEF SelectedInv
<1>5. CASE ListRetries
  <2>1. /\ sched.pc = "billing" /\ sched'.pc = "retrying" /\ sched'.date = sched.date
        /\ UNCHANGED <<day, customers, fresh, calm>>
        /\ NobodyLeft(sched.date) \/ sched.stale
    BY <1>0, <1>5 DEF ListRetries, CatchUpEnds, Scheduler, history
  <2>2. NobodyLeft(sched.date)'
    BY <2>1, ChargesFrame DEF CalmInv, InLoop
  <2>3. \A k \in fresh : k \in SelectAutomatic(Owner(k), day)' /\ Owner(k) \in Users
    BY <2>1, CustomersFrame DEF SelectedInv, InLoop, TypeInv, DailyTypeOK, Keys, Owner
  <2>4. fresh # {} => NobodyLeft(day)'
    BY <2>1, ChargesFrame DEF SelectedInv, InLoop
  <2> QED
    BY <2>1, <2>2, <2>3, <2>4 DEF SelectedInv, Owner
<1>6. CASE ListCandidates
  <2>1. /\ sched.pc = "retrying" /\ sched'.pc = "selecting" /\ sched'.date = sched.date
        /\ UNCHANGED <<day, customers, fresh, calm>>
        /\ jobs' = UNION {SelectAutomatic(u, sched.date) : u \in Users}
    BY <1>0, <1>6 DEF ListCandidates, Scheduler, history
  <2>2. NobodyLeft(sched.date)'
    BY <2>1, ChargesFrame DEF SelectedInv
  <2>3. ASSUME NEW k \in jobs'
        PROVE  k \in SelectAutomatic(Owner(k), sched.date)'
    <3>1. PICK u \in Users : k \in SelectAutomatic(u, sched.date)
      BY <2>1
    <3>2. Owner(k) = u
      BY <3>1, OwnerOfSelected
    <3> QED
      BY <2>1, <3>1, <3>2, SelectionFrame
  <2>4. \A k \in fresh : k \in SelectAutomatic(Owner(k), day)' /\ Owner(k) \in Users
    BY <2>1, CustomersFrame DEF SelectedInv, InLoop, TypeInv, DailyTypeOK, Keys, Owner
  <2>5. fresh # {} => NobodyLeft(day)'
    BY <2>1, ChargesFrame DEF SelectedInv, InLoop
  <2> QED
    BY <2>1, <2>2, <2>3, <2>4, <2>5 DEF SelectedInv, Owner
<1>7. CASE \E k \in jobs : Attempt(k) \/ NotReserved(k)
  <2>1. PICK k \in jobs : Attempt(k) \/ NotReserved(k)
    BY <1>7
  <2>2. /\ sched.pc \in {"retrying", "selecting"} /\ calm
        /\ sched'.pc = sched.pc /\ sched'.date = sched.date /\ jobs' \subseteq jobs
        /\ UNCHANGED <<day, customers>>
        /\ fresh' \subseteq fresh \union {k}
        /\ fresh' # fresh => k \notin DOMAIN rows
    BY <1>0, <2>1 DEF Attempt, NotReserved, Scheduler, history
  <2>3. sched.date = day
    BY <2>2 DEF CalmInv, InLoop
  <2>4. NobodyLeft(day)' /\ NobodyLeft(sched.date)'
    BY <2>2, <2>3, ChargesFrame DEF SelectedInv
  <2>5. \A other \in jobs \union fresh : Owner(other) \in Users
    BY DEF TypeInv, DailyTypeOK, Keys, Owner
  <2>6. sched.pc = "selecting" => \A other \in jobs' : other \in SelectAutomatic(Owner(other), sched.date)'
    BY <2>2, <2>5, CustomersFrame DEF SelectedInv
  <2>7. fresh' # fresh => k \in SelectAutomatic(Owner(k), day)'
    <3>1. fresh' # fresh => sched.pc = "selecting"
      BY <2>2 DEF JobsInv
    <3> QED
      BY <2>2, <2>3, <2>5, <3>1, CustomersFrame DEF SelectedInv
  <2>8. \A other \in fresh' : other \in SelectAutomatic(Owner(other), day)'
    BY <2>2, <2>5, <2>7, CustomersFrame DEF SelectedInv, InLoop
  <2> QED
    BY <2>2, <2>4, <2>6, <2>8 DEF SelectedInv, Owner
<1>8. CASE Tick
  <2>1. /\ sched'.pc = sched.pc /\ sched'.date = sched.date
        /\ UNCHANGED <<jobs, customers, fresh>> /\ calm
        /\ day' = day \/ sched.pc = "sleep"
    BY <1>0, <1>8 DEF Tick, Scheduler
  <2>2. CASE sched.pc = "sleep"
    BY <2>1, <2>2 DEF SelectedInv, InLoop
  <2>3. CASE day' = day
    BY <2>1, <2>3, SelectedStays
  <2> QED
    BY <2>1, <2>2, <2>3
<1> QED
  BY <1>1, <1>2, <1>3, <1>4, <1>5, <1>6, <1>7, <1>8, CalmSteps

LEMMA BegunKept ==
  ASSUME TypeInv, BegunInv, [Next]_vars
  PROVE  BegunInv'
<1> SUFFICES ASSUME fresh' # {}
             PROVE  BegunInv'
  BY DEF BegunInv
<1>1. CASE UNCHANGED <<rows, fresh>>
  BY <1>1 DEF BegunInv
<1>2. ASSUME NEW k \in jobs, Attempt(k)
      PROVE  BegunInv'
  <2>1. DOMAIN rows' = DOMAIN rows \union {k} /\ fresh' \subseteq fresh \union {k}
    BY <1>2 DEF Attempt, Put
  <2> QED
    BY <2>1 DEF BegunInv
<1>3. CASE Tick
  <2>1. DOMAIN rows' = DOMAIN rows /\ fresh' \subseteq fresh
    BY <1>3 DEF Tick
  <2> QED
    BY <2>1 DEF BegunInv
<1> QED
  BY <1>1, <1>2, <1>3
     DEF Next, Boot, TimerFires, BeginLoop, Run, RunOnce, WaitEnds, CatchUpFails, Charge,
         OutOfRange, ListRetries, ListRetriesFails, ListCandidates, ListCandidatesFails, CandidatesDone, NotReserved,
         ReserveFails, Admin, Pay, ReverseCharge, PauseUser, ResumeUser, Command, Disturbed, Crash,
         Rest, vars, history

LEMMA RefusedRow ==
  ASSUME TypeInv, NEW k, Refused(k)
  PROVE  /\ k \in DOMAIN rows
         /\ rows[k].attempt \in Nat \ {0}
         /\ rows[k].left \in Nat
<1>1. k \in DOMAIN rows /\ rows[k] \in Row /\ rows[k].status = "refused"
  BY DEF Refused, TypeInv, DailyTypeOK
<1> QED
  BY <1>1, LimitsAssumption DEF Row, Settled

(* An attempt keeps up: it is the next of its row, or the first of all. *)
LEMMA AttemptKeepsUp ==
  ASSUME TypeInv, BegunInv, ProgressInv, calm, NEW j \in jobs, Attempt(j),
         NEW k \in fresh', Refused(k)'
  PROVE  KeepsUp(k)'
<1>0. sched \in Scheduler /\ sched.attempt \in Nat \ {0} /\ sched.retry \in BOOLEAN
  BY ClockTypes, LimitsAssumption DEF Scheduler
<1>1. PICK refused \in BOOLEAN :
        /\ rows' = Put(j, Answered(AttemptOf(j), refused))
        /\ sched' = [sched EXCEPT !.retry = @ \/ (refused /\ AttemptOf(j) < MaxAttempts)]
  BY DEF Attempt
<1>2. /\ sched.pc \in {"retrying", "selecting"}
      /\ jobs' = jobs \ {j}
      /\ sched'.pc = sched.pc /\ sched'.attempt = sched.attempt
      /\ sched'.retry <=> sched.retry \/ (refused /\ AttemptOf(j) < MaxAttempts)
  BY <1>0, <1>1 DEF Attempt, Scheduler
<1>3. CASE k # j
  <2>1. k \in fresh /\ k \in DOMAIN rows /\ rows'[k] = rows[k]
    BY <1>1, <1>3 DEF Attempt, Put, BegunInv
  <2>2. KeepsUp(k)
    BY <1>2, <1>3, <2>1 DEF ProgressInv, InLoop, Refused
  <2>3. k \in jobs <=> k \in jobs'
    BY <1>2, <1>3
  <2> QED
    BY <1>2, <2>1, <2>2, <2>3 DEF KeepsUp
<1>4. CASE k = j
  <2> DEFINE n == AttemptOf(j)
  <2>1. n \in Nat
    BY AttemptOfType DEF TypeInv
  <2>2. rows'[k] = Answered(n, refused) /\ rows'[k].status = "refused"
    BY <1>1, <1>4 DEF Put, Refused
  <2>3. refused /\ n < MaxAttempts /\ rows'[k].attempt = n
    BY <2>1, <2>2, AnsweredRow
  <2>4. n >= sched.attempt
    <3>1. CASE j \in DOMAIN rows
      <4>1. j \in fresh /\ Refused(j)
        BY <1>4, <3>1 DEF Attempt, CanReserve
      <4>2. KeepsUp(j) /\ rows[j].attempt \in Nat
        BY <1>2, <4>1, RefusedRow DEF ProgressInv, InLoop
      <4>3. rows[j].attempt >= sched.attempt - 1
        BY <1>0, <1>2, <4>2 DEF KeepsUp
      <4> QED
        BY <1>0, <3>1, <4>2, <4>3 DEF AttemptOf
    <3>2. CASE j \notin DOMAIN rows
      <4>1. j \notin fresh
        BY <3>2 DEF BegunInv
      <4>2. sched.attempt = 1
        BY <1>4, <4>1 DEF Attempt
      <4> QED
        BY <3>2, <4>2 DEF AttemptOf
    <3> QED
      BY <3>1, <3>2
  <2>5. rows'[k].attempt >= sched'.attempt /\ sched'.retry
    BY <1>2, <2>3, <2>4
  <2> QED
    BY <1>2, <2>5 DEF KeepsUp
<1> QED
  BY <1>3, <1>4

(* So do a run that ends, and the time that the next one waits. *)
LEMMA ProgressKept ==
  ASSUME TypeInv, CalmInv, RowsInv, BegunInv, SelectedInv, ProgressInv, [Next]_vars
  PROVE  ProgressInv'
<1> SUFFICES ASSUME calm', InLoop', NEW k \in fresh', Refused(k)'
             PROVE  KeepsUp(k)'
  BY DEF ProgressInv
<1>0. sched \in Scheduler /\ sched.attempt \in Nat \ {0} /\ sched.left \in Nat /\ sched.retry \in BOOLEAN
  BY ClockTypes, LimitsAssumption DEF Scheduler
<1>1. ASSUME InLoop, calm, UNCHANGED <<rows, fresh>>
      PROVE  /\ k \in fresh /\ Refused(k) /\ KeepsUp(k)
             /\ k \in DOMAIN rows /\ rows[k].attempt \in Nat \ {0} /\ rows[k].left \in Nat
             /\ k \in SelectAutomatic(Owner(k), day)
  BY <1>1, RefusedRow DEF ProgressInv, SelectedInv, Refused
<1>2. CASE UNCHANGED <<day, sched, jobs, rows, customers, history>>
  BY <1>1, <1>2 DEF KeepsUp, InLoop, history
<1>3. CASE BeginLoop
  BY <1>3 DEF BeginLoop
<1>4. CASE RunOnce \/ \E u \in Users : Charge(u)
  <2>1. /\ sched.pc \in {"run", "billing"} /\ sched'.pc \in {"run", "billing"}
        /\ sched'.attempt = sched.attempt /\ UNCHANGED <<rows, fresh, calm>>
    BY <1>0, <1>4 DEF RunOnce, Charge, Scheduler, history
  <2> QED
    BY <1>1, <2>1 DEF KeepsUp, InLoop
<1>5. CASE WaitEnds
  <2>1. sched.pc = "wait" /\ sched.left = 0 /\ UNCHANGED <<rows, fresh, calm>>
    BY <1>5 DEF WaitEnds, history
  <2>2. day = sched.runDate
    BY <2>1 DEF CalmInv, InLoop
  <2>3. sched'.pc = "run" /\ sched'.attempt = sched.attempt + 1
    BY <1>0, <1>5, <2>2 DEF WaitEnds, Scheduler
  <2>4. rows[k].attempt > sched.attempt
          \/ (rows[k].attempt = sched.attempt /\ rows[k].left = 0)
    BY <1>0, <1>1, <2>1 DEF KeepsUp, InLoop
  <2> QED
    BY <1>0, <1>1, <2>1, <2>3, <2>4 DEF KeepsUp, InLoop
<1>6. CASE ListRetries
  <2>1. /\ sched.pc = "billing" /\ sched'.pc = "retrying" /\ sched'.attempt = sched.attempt
        /\ jobs' = RetryCandidates /\ UNCHANGED <<rows, fresh, calm>>
    BY <1>0, <1>6 DEF ListRetries, CatchUpEnds, Scheduler, history
  <2>2. status[Owner(k)] = "active"
    BY <1>1, <2>1 DEF SelectAutomatic, InLoop
  <2>3. rows[k].left = 0 => k \in jobs'
    BY <1>1, <2>1, <2>2 DEF RetryCandidates, InLoop
  <2> QED
    BY <1>0, <1>1, <2>1, <2>3 DEF KeepsUp, InLoop
<1>7. CASE ListCandidates
  <2>1. /\ sched.pc = "retrying" /\ sched'.pc = "selecting" /\ sched'.attempt = sched.attempt
        /\ jobs = {} /\ UNCHANGED <<rows, fresh, calm>>
        /\ jobs' = UNION {SelectAutomatic(u, sched.date) : u \in Users}
    BY <1>0, <1>7 DEF ListCandidates, Scheduler, history
  <2>2. sched.date = day
    BY <2>1 DEF CalmInv, InLoop
  <2>3. Owner(k) \in Users
    BY <2>1 DEF TypeInv, DailyTypeOK, Keys, Owner
  <2>4. k \in jobs'
    BY <1>1, <2>1, <2>2, <2>3 DEF InLoop
  <2> QED
    BY <1>1, <2>1, <2>4 DEF KeepsUp, InLoop
<1>8. CASE CandidatesDone
  <2>1. /\ sched.pc = "selecting" /\ jobs = {} /\ UNCHANGED <<rows, fresh, calm>>
        /\ sched' = AfterRun(sched.retry)
    BY <1>8 DEF CandidatesDone, history
  <2>2. rows[k].attempt >= sched.attempt /\ sched.retry
    BY <1>1, <2>1 DEF KeepsUp, InLoop
  <2>3. sched' = [sched EXCEPT !.pc = "wait", !.left = RunBackoff(sched.attempt)]
    BY <2>1, AsleepType DEF AfterRun, InLoop, TypeInv
  <2>4. sched'.pc = "wait" /\ sched'.attempt = sched.attempt /\ sched'.left = RunBackoff(sched.attempt)
    BY <1>0, <2>3 DEF Scheduler
  <2>5. rows[k].left <= DeliveryBackoff(rows[k].attempt)
    BY <1>1, <2>1 DEF RowsInv, InLoop
  <2>6. rows[k].attempt = sched.attempt => rows[k].left <= sched'.left
    BY <2>4, <2>5 DEF RunBackoff, DeliveryBackoff
  <2>7. rows[k].attempt \in Nat /\ rows'[k] = rows[k]
    BY <1>1, <2>1 DEF InLoop
  <2>8. \/ rows'[k].attempt > sched'.attempt
        \/ rows'[k].attempt = sched'.attempt /\ rows'[k].left <= sched'.left
    BY <1>0, <2>2, <2>4, <2>6, <2>7
  <2> QED
    BY <2>4, <2>8 DEF KeepsUp
<1>9. ASSUME NEW j \in jobs, NotReserved(j)
      PROVE  KeepsUp(k)'
  <2>1. /\ sched.pc \in {"retrying", "selecting"} /\ ~CanReserve(j) /\ jobs' = jobs \ {j}
        /\ sched'.pc = sched.pc /\ sched'.attempt = sched.attempt
        /\ sched'.retry <=> sched.retry \/ Refused(j)
        /\ UNCHANGED <<rows, fresh, calm>>
    BY <1>0, <1>9 DEF NotReserved, StillWaits, Scheduler, Refused, history
  <2>2. k = j => rows[k].left # 0 /\ sched'.retry
    BY <1>1, <2>1 DEF CanReserve, InLoop
  <2>3. k # j => (k \in jobs' <=> k \in jobs)
    BY <2>1
  <2> QED
    BY <1>0, <1>1, <2>1, <2>2, <2>3 DEF KeepsUp, InLoop
<1>10. ASSUME NEW j \in jobs, Attempt(j)
       PROVE  KeepsUp(k)'
  BY <1>10, AttemptKeepsUp DEF Attempt
<1>11. CASE Tick
  <2>1. /\ sched'.pc = sched.pc /\ sched'.attempt = sched.attempt /\ sched'.retry = sched.retry
        /\ sched.pc = "wait" => sched.left > 0 /\ sched'.left = sched.left - 1
        /\ UNCHANGED <<jobs, fresh, calm>> /\ calm
        /\ DOMAIN rows' = DOMAIN rows
    BY <1>0, <1>11 DEF Tick, Scheduler
  <2>2. k \in DOMAIN rows /\ rows[k] \in Row
    BY <2>1 DEF Refused, TypeInv, DailyTypeOK
  <2>3. /\ rows'[k].status = rows[k].status
        /\ rows'[k].attempt = rows[k].attempt
        /\ rows'[k].left = IF rows[k].left > 0 THEN rows[k].left - 1 ELSE 0
    BY <1>11, <2>2 DEF Tick, Row, Settled
  <2>4. k \in fresh /\ Refused(k) /\ KeepsUp(k)
    BY <2>1, <2>2, <2>3 DEF ProgressInv, InLoop, Refused
  <2>5. rows[k].attempt \in Nat /\ rows[k].left \in Nat
    BY <2>4, RefusedRow
  <2> QED
    BY <1>0, <2>1, <2>3, <2>4, <2>5 DEF KeepsUp
<1> QED
  BY <1>2, <1>3, <1>4, <1>5, <1>6, <1>7, <1>8, <1>9, <1>10, <1>11, CalmSteps

(* A loop that goes to sleep undisturbed has no refused reminder left. *)
LEMMA FreshSettledKept ==
  ASSUME TypeInv, CalmInv, RowsInv, ProgressInv, FreshIsSettled, [Next]_vars
  PROVE  FreshIsSettled'
<1> SUFFICES ASSUME calm', sched'.pc = "sleep", NEW k \in fresh', Refused(k)'
             PROVE  FALSE
  BY DEF FreshIsSettled
<1>0. sched \in Scheduler /\ sched.attempt \in Nat \ {0} /\ sched.retry \in BOOLEAN
  BY ClockTypes, LimitsAssumption DEF Scheduler
<1>1. CASE UNCHANGED <<day, sched, jobs, rows, customers, history>>
  BY <1>1 DEF FreshIsSettled, Refused, history
<1>2. CASE BeginLoop
  BY <1>2 DEF BeginLoop
<1>3. CASE WaitEnds
  <2>1. sched.pc = "wait" /\ calm
    BY <1>3 DEF WaitEnds, history
  <2>2. day = sched.runDate
    BY <2>1 DEF CalmInv, InLoop
  <2>3. sched'.pc = "run"
    BY <1>0, <1>3, <2>2 DEF WaitEnds, Scheduler
  <2> QED
    BY <2>3
<1>4. CASE CandidatesDone
  <2>1. /\ sched.pc = "selecting" /\ jobs = {} /\ UNCHANGED <<rows, fresh, calm>>
        /\ sched' = AfterRun(sched.retry)
    BY <1>4 DEF CandidatesDone, history
  <2>2. k \in fresh /\ Refused(k)
    BY <2>1 DEF Refused
  <2>3. rows[k].attempt >= sched.attempt /\ sched.retry
    BY <2>1, <2>2 DEF ProgressInv, KeepsUp, InLoop
  <2>4. sched.date = sched.runDate
    BY <2>1 DEF CalmInv, InLoop
  <2>5. sched.attempt = MaxRunAttempts
    <3>1. SUFFICES ASSUME sched.attempt # MaxRunAttempts
                   PROVE  sched'.pc = "wait"
      OBVIOUS
    <3>2. sched' = [sched EXCEPT !.pc = "wait", !.left = RunBackoff(sched.attempt)]
      BY <2>1, <2>3, <2>4, <3>1 DEF AfterRun
    <3> QED
      BY <1>0, <3>2 DEF Scheduler
  <2>6. rows[k].attempt < MaxAttempts /\ rows[k].attempt \in Nat
    BY <2>2, RefusedRow DEF RowsInv
  <2> QED
    BY <2>3, <2>5, <2>6, LimitsAssumption, RetriesAssumption
<1>5. CASE Tick
  <2>1. /\ sched.pc = "sleep" /\ calm /\ UNCHANGED fresh
        /\ DOMAIN rows' = DOMAIN rows
    BY <1>0, <1>5 DEF Tick, Scheduler
  <2>2. k \in DOMAIN rows /\ rows[k] \in Row
    BY <2>1 DEF Refused, TypeInv, DailyTypeOK
  <2>3. rows'[k].status = rows[k].status
    BY <1>5, <2>2 DEF Tick, Row, Settled
  <2> QED
    BY <2>1, <2>2, <2>3 DEF FreshIsSettled, Refused
<1>6. CASE \/ RunOnce \/ (\E u \in Users : Charge(u)) \/ ListRetries \/ ListCandidates
           \/ (\E j \in jobs : Attempt(j) \/ NotReserved(j))
  <2>1. sched'.pc # "sleep"
    BY <1>0, <1>6 DEF RunOnce, Charge, ListRetries, ListCandidates, Attempt, NotReserved, Scheduler
  <2> QED
    BY <2>1
<1> QED
  BY <1>1, <1>2, <1>3, <1>4, <1>5, <1>6, CalmSteps

LEMMA FreshInvStarts == Init => FreshInv
<1> SUFFICES ASSUME Init
             PROVE  FreshInv
  OBVIOUS
<1>1. sched.pc = "down" /\ jobs = {} /\ fresh = {} /\ DOMAIN rows = {}
  BY DEF Init, Down
<1> QED
  BY <1>1 DEF FreshInv, CalmInv, RowsInv, JobsInv, BegunInv, SelectedInv, ProgressInv,
              FreshIsSettled, InLoop

(***************************************************************************)
(* For any customers, hour and calendar, with the delays that runs and     *)
(* attempts share and any limits with MaxAttempts <= MaxRunAttempts: what  *)
(* the first run of an undisturbed loop began is not refused any more      *)
(* when the loop goes to sleep.  The retries of runCurrentDate suffice for *)
(* those of deliver, although the row's delay, not the scheduler's,        *)
(* decides whether a run may attempt it again.                             *)
(***************************************************************************)
THEOREM FreshSettled == Spec => []FreshIsSettled
<1>1. Init => FreshInv
  BY FreshInvStarts
<1>2. TypeInv /\ FreshInv /\ [Next]_vars => FreshInv'
  BY CalmKept, RowsKept, JobsKept, BegunKept, SelectedKept, ProgressKept, FreshSettledKept
     DEF FreshInv
<1>3. FreshInv => FreshIsSettled
  BY DEF FreshInv
<1> QED
  BY <1>1, <1>2, <1>3, TypeInvHolds, PTL DEF Spec
=============================================================================
