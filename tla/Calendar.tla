------------------------------ MODULE Calendar ------------------------------
(***************************************************************************)
(* Calendar dates and monthly billing dates.                               *)
(***************************************************************************)
EXTENDS Integers

Dates == [year : Nat, month : 1 .. 12, day : 1 .. 31]

Date(y, m, d) == [year |-> y, month |-> m, day |-> d]

(* What package time of the Go library computes for daysInMonth. *)
IsLeapYear(y) == y % 4 = 0 /\ (y % 100 # 0 \/ y % 400 = 0)

DaysInMonth(y, m) ==
  IF m = 2 THEN IF IsLeapYear(y) THEN 29 ELSE 28
  ELSE IF m \in {4, 6, 9, 11} THEN 30 ELSE 31

(* NewDate and IsValid. *)
IsValid(d) == d \in Dates /\ d.day <= DaysInMonth(d.year, d.month)

(* The order of dates, which SQL compares as ISO 8601 strings. *)
Earlier(a, b) ==
  \/ a.year < b.year
  \/ a.year = b.year /\ a.month < b.month
  \/ a.year = b.year /\ a.month = b.month /\ a.day < b.day

OnOrBefore(a, b) == a = b \/ Earlier(a, b)

InLaterMonth(a, b) == a.year < b.year \/ (a.year = b.year /\ a.month < b.month)

(* The first day of the month after the month of d. *)
FollowingMonth(d) ==
  IF d.month = 12 THEN Date(d.year + 1, 1, 1) ELSE Date(d.year, d.month + 1, 1)

(* Fault: the day of the month is not clipped. *)
NextBillingDateUnclipped(d, anchorDay) == [FollowingMonth(d) EXCEPT !.day = anchorDay]

(* Fault: the day is clipped from the current date and not from the anchor. *)
NextBillingDateDrifting(d, anchorDay) ==
  LET m == FollowingMonth(d)
      length == DaysInMonth(m.year, m.month)
  IN [m EXCEPT !.day = IF d.day < length THEN d.day ELSE length]

(* The anchor day of the following month, or its last day. *)
NextBillingDate(d, anchorDay) ==
  LET m == FollowingMonth(d)
      length == DaysInMonth(m.year, m.month)
  IN [m EXCEPT !.day = IF anchorDay < length THEN anchorDay ELSE length]
=============================================================================
