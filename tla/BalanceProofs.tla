---------------------------- MODULE BalanceProofs ----------------------------
(***************************************************************************)
(* Proofs about the balances of Billing.  A balance is a recursive sum     *)
(* over the ledger, so they rest on an induction over the natural numbers: *)
(* a set of numbers with 0 and every successor has them all, because every *)
(* nonempty set of natural numbers has a least element.                    *)
(***************************************************************************)
EXTENDS BillingProofs, WellFoundedInduction

-----------------------------------------------------------------------------
(* Induction. *)

LEMMA LeastNumber ==
  ASSUME NEW T \in SUBSET Nat, T # {}
  PROVE  \E x \in T : \A y \in T : x <= y
<1> DEFINE Below == {p \in Nat \X Nat : p[1] < p[2]}
<1>1. IsWellFoundedOn(Below, Nat)
  BY NatLessThanWellFounded DEF OpToRel
<1>2. \A x \in Nat, y \in Nat : y < x => <<y, x>> \in Below
  OBVIOUS
<1> HIDE DEF Below
<1>3. PICK x \in T : \A y \in T : <<y, x>> \notin Below
  BY <1>1, WFMin
<1>4. \A y \in T : ~(y < x)
  BY <1>2, <1>3
<1>5. \A y \in T : x <= y
  BY <1>4
<1> QED
  BY <1>5

LEMMA SetInduction ==
  ASSUME NEW S, 0 \in S, \A n \in Nat : n \in S => n + 1 \in S
  PROVE  Nat \subseteq S
<1> SUFFICES ASSUME Nat \ S # {}
             PROVE  FALSE
  OBVIOUS
<1>1. PICK x \in Nat \ S : \A y \in Nat \ S : x <= y
  BY LeastNumber
<1>2. x - 1 \in Nat /\ (x - 1) + 1 = x
  BY <1>1
<1>3. x - 1 \in S
  BY <1>1, <1>2
<1> QED
  BY <1>1, <1>2, <1>3

-----------------------------------------------------------------------------
(* Running sums. *)

(* The equation that defines the running sums of t up to n. *)
IsRunning(f, t, n) ==
  f = [i \in 0 .. n |-> IF i = 0 THEN 0 ELSE f[i - 1] + t[i]]

LEMMA RunningValues ==
  ASSUME NEW f, NEW t, NEW N \in Nat, IsRunning(f, t, N)
  PROVE  \A i \in 0 .. N : f[i] = IF i = 0 THEN 0 ELSE f[i - 1] + t[i]
<1> DEFINE g == [i \in 0 .. N |-> IF i = 0 THEN 0 ELSE f[i - 1] + t[i]]
<1>1. f = g
  BY DEF IsRunning
<1>2. \A i \in 0 .. N : g[i] = IF i = 0 THEN 0 ELSE f[i - 1] + t[i]
  OBVIOUS
<1> HIDE DEF g
<1> QED
  BY <1>1, <1>2

Solves(f, t, n) ==
  /\ f \in [0 .. n -> Int]
  /\ \A i \in 0 .. n : f[i] = IF i = 0 THEN 0 ELSE f[i - 1] + t[i]

(* The recursion has a solution, extended from 0 .. n to 0 .. n + 1. *)
LEMMA RunningSumsExist ==
  ASSUME NEW t \in Seq(Int)
  PROVE  \E f : IsRunning(f, t, Len(t))
<1> DEFINE S == {n \in Nat : n <= Len(t) => \E f : Solves(f, t, n)}
<1>0. Len(t) \in Nat /\ \A i \in 1 .. Len(t) : t[i] \in Int
  OBVIOUS
<1>1. 0 \in S
  <2>1. Solves([i \in 0 .. 0 |-> 0], t, 0)
    BY DEF Solves
  <2> QED
    BY <2>1
<1>2. ASSUME NEW n \in Nat, n \in S
      PROVE  n + 1 \in S
  <2> SUFFICES ASSUME n + 1 <= Len(t)
               PROVE  \E f : Solves(f, t, n + 1)
    OBVIOUS
  <2>1. PICK f : Solves(f, t, n)
    BY <1>0, <1>2
  <2> DEFINE g == [i \in 0 .. n + 1 |-> IF i = n + 1 THEN f[n] + t[n + 1] ELSE f[i]]
  <2>2. g \in [0 .. n + 1 -> Int]
    BY <1>0, <2>1 DEF Solves
  <2>3. ASSUME NEW i \in 0 .. n + 1
        PROVE  g[i] = IF i = 0 THEN 0 ELSE g[i - 1] + t[i]
    <3>1. CASE i = n + 1
      <4>1. g[n + 1] = f[n] + t[n + 1] /\ g[n] = f[n]
        OBVIOUS
      <4> QED
        BY <3>1, <4>1
    <3>2. CASE i \in 0 .. n
      <4>1. g[i] = f[i] /\ (i # 0 => g[i - 1] = f[i - 1])
        BY <3>2
      <4> QED
        BY <2>1, <3>2, <4>1 DEF Solves
    <3> QED
      BY <3>1, <3>2
  <2> QED
    BY <2>2, <2>3 DEF Solves
<1>3. Len(t) \in S
  BY <1>0, <1>1, <1>2, SetInduction
<1>4. PICK f : Solves(f, t, Len(t))
  BY <1>0, <1>3
<1>5. IsRunning(f, t, Len(t))
  BY <1>4 DEF IsRunning, Solves
<1> QED
  BY <1>5

(* Running sums start at 0 and add one term after the other. *)
LEMMA RunningSumsAre ==
  ASSUME NEW t \in Seq(Int)
  PROVE  /\ RunningSums(t)[0] = 0
         /\ \A n \in 0 .. Len(t) : RunningSums(t)[n] \in Int
         /\ \A n \in 1 .. Len(t) : RunningSums(t)[n] = RunningSums(t)[n - 1] + t[n]
<1> DEFINE s == RunningSums(t)
<1>1. PICK f : IsRunning(f, t, Len(t))
  BY RunningSumsExist
<1>0. Len(t) \in Nat /\ \A n \in 1 .. Len(t) : t[n] \in Int
  OBVIOUS
<1>2. IsRunning(s, t, Len(t))
  BY <1>1 DEF IsRunning, RunningSums
<1> HIDE DEF s
<1>3. /\ Len(t) \in Nat
      /\ \A n \in 0 .. Len(t) : s[n] = IF n = 0 THEN 0 ELSE s[n - 1] + t[n]
  BY <1>0, <1>2, RunningValues
<1> DEFINE S == {n \in Nat : n <= Len(t) => s[n] \in Int}
<1>4. 0 \in S
  BY <1>3
<1>5. ASSUME NEW n \in Nat, n \in S
      PROVE  n + 1 \in S
  BY <1>0, <1>3, <1>5
<1>6. Nat \subseteq S
  BY <1>4, <1>5, SetInduction
<1> QED
  BY <1>3, <1>6 DEF s

(* A term in front is added to every running sum. *)
LEMMA SumsAfterFirst ==
  ASSUME NEW t \in Seq(Int), NEW r \in Seq(Int),
         Len(r) = Len(t) + 1, \A n \in 1 .. Len(t) : r[n + 1] = t[n]
  PROVE  RunningSums(r)[Len(r)] = r[1] + RunningSums(t)[Len(t)]
<1> DEFINE a == RunningSums(t)
           b == RunningSums(r)
           S == {n \in Nat : n <= Len(t) => b[n + 1] = r[1] + a[n]}
<1>1. /\ Len(t) \in Nat /\ Len(r) = Len(t) + 1 /\ r[1] \in Int
      /\ \A n \in 1 .. Len(t) : t[n] \in Int /\ r[n + 1] = t[n]
  OBVIOUS
<1>2. /\ a[0] = 0 /\ \A n \in 0 .. Len(t) : a[n] \in Int
      /\ \A n \in 1 .. Len(t) : a[n] = a[n - 1] + t[n]
  BY RunningSumsAre
<1>3. /\ b[0] = 0 /\ \A n \in 0 .. Len(r) : b[n] \in Int
      /\ \A n \in 1 .. Len(r) : b[n] = b[n - 1] + r[n]
  BY RunningSumsAre
<1> HIDE DEF a, b
<1>4. 0 \in S
  <2>1. b[1] = b[1 - 1] + r[1]
    BY <1>1, <1>3
  <2> QED
    BY <1>1, <1>2, <1>3, <2>1
<1>5. ASSUME NEW n \in Nat, n \in S
      PROVE  n + 1 \in S
  <2> SUFFICES ASSUME n + 1 <= Len(t)
               PROVE  b[(n + 1) + 1] = r[1] + a[n + 1]
    OBVIOUS
  <2>1. b[n + 1] = r[1] + a[n] /\ a[n] \in Int
    BY <1>1, <1>2, <1>5
  <2>2. a[n + 1] = a[n] + t[n + 1]
    <3>1. n + 1 \in 1 .. Len(t) /\ (n + 1) - 1 = n
      BY <1>1
    <3> QED
      BY <1>2, <3>1
  <2>3. b[(n + 1) + 1] = b[n + 1] + r[(n + 1) + 1]
    <3>1. (n + 1) + 1 \in 1 .. Len(r) /\ ((n + 1) + 1) - 1 = n + 1
      BY <1>1
    <3> QED
      BY <1>3, <3>1
  <2>4. r[(n + 1) + 1] = t[n + 1] /\ t[n + 1] \in Int
    BY <1>1
  <2>5. (r[1] + a[n]) + t[n + 1] = r[1] + (a[n] + t[n + 1])
    <3>1. \A p, q, s \in Int : (p + q) + s = p + (q + s)
      OBVIOUS
    <3> QED
      BY <1>1, <2>1, <2>4, <3>1
  <2> QED
    BY <2>1, <2>2, <2>3, <2>4, <2>5, Zenon
<1>6. Len(t) \in S
  BY <1>1, <1>4, <1>5, SetInduction
<1> QED
  BY <1>1, <1>6 DEF a, b

DiffersAt(t, r, k, c) ==
  \A n \in 1 .. Len(t) : r[n] = t[n] + IF n = k THEN c ELSE 0

(* Where only the k-th term differs, the sums differ by as much from k on. *)
LEMMA SumsButOne ==
  ASSUME NEW t \in Seq(Int), NEW r \in Seq(Int), NEW k \in Nat, NEW c \in Int,
         Len(t) <= Len(r), DiffersAt(t, r, k, c)
  PROVE  /\ k \in 1 .. Len(t) => RunningSums(r)[Len(t)] = RunningSums(t)[Len(t)] + c
         /\ k \notin 1 .. Len(t) => RunningSums(r)[Len(t)] = RunningSums(t)[Len(t)]
<1> DEFINE a == RunningSums(t)
           b == RunningSums(r)
           S == {n \in Nat : n <= Len(t) => b[n] = a[n] + IF k \in 1 .. n THEN c ELSE 0}
<1>0. /\ Len(t) \in Nat /\ Len(r) \in Nat
      /\ \A n \in 1 .. Len(t) : t[n] \in Int
  OBVIOUS
<1>1. /\ Len(t) \in Nat /\ Len(r) \in Nat /\ Len(t) <= Len(r)
      /\ \A n \in 1 .. Len(t) : t[n] \in Int /\ r[n] = t[n] + IF n = k THEN c ELSE 0
  BY <1>0 DEF DiffersAt
<1>2. /\ a[0] = 0 /\ \A n \in 0 .. Len(t) : a[n] \in Int
      /\ \A n \in 1 .. Len(t) : a[n] = a[n - 1] + t[n]
  BY RunningSumsAre
<1>3. b[0] = 0 /\ \A n \in 1 .. Len(r) : b[n] = b[n - 1] + r[n]
  BY RunningSumsAre
<1> HIDE DEF a, b
<1>4. 0 \in S
  <2>1. k \notin 1 .. 0 /\ 0 + 0 = 0
    OBVIOUS
  <2>2. b[0] = a[0] + 0
    BY <1>2, <1>3
  <2> QED
    BY <2>1, <2>2
<1>5. ASSUME NEW n \in Nat, n \in S
      PROVE  n + 1 \in S
  <2> SUFFICES ASSUME n + 1 <= Len(t)
               PROVE  b[n + 1] = a[n + 1] + IF k \in 1 .. n + 1 THEN c ELSE 0
    OBVIOUS
  <2>1. /\ b[n] = a[n] + IF k \in 1 .. n THEN c ELSE 0
        /\ a[n] \in Int
    BY <1>1, <1>2, <1>5
  <2>2. n + 1 \in 1 .. Len(t) /\ n + 1 \in 1 .. Len(r) /\ (n + 1) - 1 = n
    BY <1>1
  <2>3. a[n + 1] = a[n] + t[n + 1] /\ b[n + 1] = b[n] + r[n + 1]
    BY <1>2, <1>3, <2>2
  <2>4. t[n + 1] \in Int /\ r[n + 1] = t[n + 1] + IF n + 1 = k THEN c ELSE 0
    BY <1>1, <2>2
  <2>5. CASE k = n + 1
    BY <2>1, <2>3, <2>4, <2>5
  <2>6. CASE k # n + 1
    <3>1. k \in 1 .. n + 1 <=> k \in 1 .. n
      BY <2>6
    <3>2. r[n + 1] = t[n + 1]
      BY <2>4, <2>6
    <3>3. CASE k \in 1 .. n
      BY <2>1, <2>3, <2>4, <3>1, <3>2, <3>3
    <3>4. CASE k \notin 1 .. n
      BY <2>1, <2>3, <2>4, <3>1, <3>2, <3>4
    <3> QED
      BY <3>3, <3>4
  <2> QED
    BY <2>5, <2>6
<1>6. Len(t) \in S
  BY <1>1, <1>4, <1>5, SetInduction
<1>7. b[Len(t)] = a[Len(t)] + IF k \in 1 .. Len(t) THEN c ELSE 0
  BY <1>1, <1>6
<1>8. a[Len(t)] \in Int
  BY <1>1, <1>2
<1> QED
  BY <1>7, <1>8 DEF a, b

-----------------------------------------------------------------------------
(* Balances. *)

LEMMA AmountsOfLedger ==
  ASSUME NEW l \in Seq(Entry), NEW u \in Users
  PROVE  /\ Newest(l, u) \in Seq(Int) /\ Len(Newest(l, u)) = Len(l)
         /\ StandingAmounts(l, u) \in Seq(Int) /\ Len(StandingAmounts(l, u)) = Len(l)
<1>1. Len(l) \in Nat /\ \A n \in 1 .. Len(l) : l[n] \in Entry
  OBVIOUS
<1>2. \A n \in 1 .. Len(l) : l[n].amount \in Int
  BY <1>1 DEF Entry
<1>3. \A n \in 1 .. Len(l) : Len(l) + 1 - n \in 1 .. Len(l)
  BY <1>1
<1>4. Newest(l, u) \in [1 .. Len(l) -> Int]
  BY <1>2, <1>3 DEF Newest
<1>5. StandingAmounts(l, u) \in [1 .. Len(l) -> Int]
  BY <1>2 DEF StandingAmounts
<1> QED
  BY <1>1, <1>4, <1>5

LEMMA BalanceType ==
  ASSUME NEW l \in Seq(Entry), NEW u \in Users
  PROVE  Balance(l, u) \in Int /\ StandingSum(l, u) \in Int
<1>1. Len(l) \in 0 .. Len(l)
  OBVIOUS
<1> QED
  BY <1>1, AmountsOfLedger, RunningSumsAre DEF Balance, PartialSums, StandingSum

LEMMA BalanceOfNothing ==
  ASSUME NEW l \in Seq(Entry), Len(l) = 0, NEW u \in Users
  PROVE  Balance(l, u) = 0 /\ StandingSum(l, u) = 0
BY AmountsOfLedger, RunningSumsAre DEF Balance, PartialSums, StandingSum

(* A new entry counts for its customer, and for nobody else. *)
LEMMA BalanceOfAppend ==
  ASSUME NEW l \in Seq(Entry), NEW e \in Entry, NEW u \in Users
  PROVE  Balance(Append(l, e), u) = Balance(l, u) + IF e.user = u THEN e.amount ELSE 0
<1> DEFINE t == Newest(l, u)
           r == Newest(Append(l, e), u)
           amount == IF e.user = u THEN e.amount ELSE 0
<1>1. /\ Append(l, e) \in Seq(Entry) /\ Len(l) \in Nat /\ Len(Append(l, e)) = Len(l) + 1
      /\ Append(l, e)[Len(l) + 1] = e
      /\ \A i \in 1 .. Len(l) : Append(l, e)[i] = l[i]
  BY AppendEntry
<1>2. /\ t \in Seq(Int) /\ Len(t) = Len(l)
      /\ r \in Seq(Int) /\ Len(r) = Len(l) + 1
  BY <1>1, AmountsOfLedger
<1>3. r[1] = amount
  BY <1>1 DEF Newest
<1>4. ASSUME NEW n \in 1 .. Len(l)
      PROVE  r[n + 1] = t[n]
  <2>1. /\ n + 1 \in 1 .. Len(Append(l, e))
        /\ Len(Append(l, e)) + 1 - (n + 1) = Len(l) + 1 - n
        /\ Len(l) + 1 - n \in 1 .. Len(l)
    BY <1>1
  <2>2. Append(l, e)[Len(Append(l, e)) + 1 - (n + 1)] = l[Len(l) + 1 - n]
    BY <1>1, <2>1
  <2> QED
    BY <2>1, <2>2 DEF Newest
<1>5. amount \in Int
  BY DEF Entry
<1>6. RunningSums(r)[Len(r)] = r[1] + RunningSums(t)[Len(t)]
  BY <1>2, <1>4, SumsAfterFirst
<1>7. Balance(l, u) \in Int
  BY BalanceType
<1>8. Balance(Append(l, e), u) = amount + Balance(l, u)
  BY <1>1, <1>2, <1>3, <1>6 DEF Balance, PartialSums
<1> HIDE DEF amount
<1>9. Balance(Append(l, e), u) = Balance(l, u) + amount
  BY <1>5, <1>7, <1>8
<1> QED
  BY <1>9 DEF amount

(* The reversals, and they alone, point at an entry, and at an earlier one. *)
WellReversed(l) ==
  \A j \in 1 .. Len(l) :
    /\ l[j].kind = "reversal" <=> l[j].reverses # Null
    /\ l[j].reverses # Null => l[j].reverses \in 1 .. j - 1

(* An entry that is no reversal stands as soon as it is written. *)
LEMMA StandingOfPlain ==
  ASSUME NEW l \in Seq(Entry), WellReversed(l), NEW e \in Entry, NEW u \in Users,
         e.kind # "reversal", e.reverses = Null
  PROVE  StandingSum(Append(l, e), u) = StandingSum(l, u) + IF e.user = u THEN e.amount ELSE 0
<1> DEFINE m == Append(l, e)
           last == Len(l) + 1
<1>1. /\ m \in Seq(Entry) /\ Len(l) \in Nat /\ Len(m) = last
      /\ m[last] = e /\ \A i \in 1 .. Len(l) : m[i] = l[i]
  BY AppendEntry
<1>2. Null \notin Nat
  BY BillingNullAssumption
<1>3. \A i \in 1 .. last : \A j \in 1 .. last : m[j].reverses = i => j # last /\ i # last
  BY <1>1, <1>2 DEF WellReversed
<1>4. \A i \in 1 .. Len(l) : i \in Standing(m, u) <=> i \in Standing(l, u)
  BY <1>1, <1>2, <1>3 DEF Standing
<1>5. last \in Standing(m, u) <=> e.user = u
  BY <1>1, <1>3 DEF Standing
<1> DEFINE t == StandingAmounts(l, u)
           r == StandingAmounts(m, u)
<1>6. /\ t \in Seq(Int) /\ Len(t) = Len(l)
      /\ r \in Seq(Int) /\ Len(r) = last
  BY <1>1, AmountsOfLedger
<1>7. \A n \in 1 .. Len(l) : r[n] = t[n]
  BY <1>1, <1>4 DEF StandingAmounts
<1>8. r[last] = IF e.user = u THEN e.amount ELSE 0
  BY <1>1, <1>5 DEF StandingAmounts
<1> HIDE DEF t, r
<1>9. RunningSums(r)[Len(l)] = RunningSums(t)[Len(l)]
  <2>0. \A n \in 1 .. Len(t) : t[n] \in Int
    BY <1>6
  <2>1. DiffersAt(t, r, 0, 0) /\ Len(t) <= Len(r)
    BY <1>1, <1>6, <1>7, <2>0 DEF DiffersAt
  <2>2. 0 \notin 1 .. Len(t)
    OBVIOUS
  <2> QED
    BY <1>1, <1>6, <2>1, <2>2, SumsButOne
<1>10. RunningSums(r)[last] = RunningSums(r)[Len(l)] + r[last]
  <2>1. last \in 1 .. Len(r) /\ last - 1 = Len(l)
    BY <1>1, <1>6
  <2> QED
    BY <1>6, <2>1, RunningSumsAre
<1> QED
  BY <1>1, <1>8, <1>9, <1>10 DEF StandingSum, t, r

(* A reversal does not stand, and what it reverses does not stand any more. *)
LEMMA StandingOfReversal ==
  ASSUME NEW l \in Seq(Entry), WellReversed(l), NEW e \in Entry, NEW u \in Users,
         NEW id \in 1 .. Len(l), ~Reversed(l, id), l[id].kind # "reversal",
         e.kind = "reversal", e.reverses = id,
         e.user = l[id].user, e.amount = -l[id].amount
  PROVE  StandingSum(Append(l, e), u) = StandingSum(l, u) + IF e.user = u THEN e.amount ELSE 0
<1> DEFINE m == Append(l, e)
           last == Len(l) + 1
           c == IF e.user = u THEN e.amount ELSE 0
<1>1. /\ m \in Seq(Entry) /\ Len(l) \in Nat /\ Len(m) = last
      /\ m[last] = e /\ \A i \in 1 .. Len(l) : m[i] = l[i]
  BY AppendEntry
<1>2. last \notin Standing(m, u)
  BY <1>1 DEF Standing
<1>3. id \in Standing(l, u) <=> e.user = u
  BY DEF Standing, Reversed
<1>4. id \notin Standing(m, u)
  BY <1>1 DEF Standing
<1>5. \A i \in 1 .. Len(l) : i # id => (i \in Standing(m, u) <=> i \in Standing(l, u))
  BY <1>1 DEF Standing
<1> DEFINE t == StandingAmounts(l, u)
           r == StandingAmounts(m, u)
<1>6. /\ t \in Seq(Int) /\ Len(t) = Len(l)
      /\ r \in Seq(Int) /\ Len(r) = last
  BY <1>1, AmountsOfLedger
<1>7. c \in Int /\ l[id].amount \in Int /\ e.amount \in Int
  <2>1. l[id] \in Entry
    OBVIOUS
  <2> QED
    BY <2>1 DEF Entry
<1>8. ASSUME NEW n \in 1 .. Len(t)
      PROVE  r[n] = t[n] + IF n = id THEN c ELSE 0
  <2>1. n \in 1 .. Len(l) /\ t[n] \in Int
    BY <1>6
  <2>2. CASE n # id
    BY <1>1, <1>5, <2>1, <2>2 DEF StandingAmounts
  <2>3. CASE n = id
    <3>1. r[id] = 0 /\ t[id] = IF e.user = u THEN l[id].amount ELSE 0
      BY <1>1, <1>3, <1>4 DEF StandingAmounts
    <3> QED
      BY <1>7, <2>3, <3>1
  <2> QED
    BY <2>2, <2>3
<1>9. r[last] = 0
  BY <1>1, <1>2 DEF StandingAmounts
<1> HIDE DEF c, t, r
<1>10. RunningSums(r)[Len(l)] = RunningSums(t)[Len(l)] + c
  <2>1. DiffersAt(t, r, id, c) /\ Len(t) <= Len(r) /\ id \in Nat /\ id \in 1 .. Len(t)
    BY <1>1, <1>6, <1>8 DEF DiffersAt
  <2>2. RunningSums(r)[Len(t)] = RunningSums(t)[Len(t)] + c
    BY <1>6, <1>7, <2>1, SumsButOne
  <2> QED
    BY <1>6, <2>1, <2>2
<1>11. /\ RunningSums(r)[last] = RunningSums(r)[Len(l)] + r[last]
       /\ RunningSums(r)[Len(l)] \in Int
  <2>1. last \in 1 .. Len(r) /\ last - 1 = Len(l) /\ Len(l) \in 0 .. Len(r)
    BY <1>1, <1>6
  <2> QED
    BY <1>6, <2>1, RunningSumsAre
<1>12. StandingSum(m, u) = StandingSum(l, u) + c
  BY <1>1, <1>9, <1>10, <1>11 DEF StandingSum, t, r
<1> QED
  BY <1>12 DEF c

-----------------------------------------------------------------------------
(* What the steps add to the ledger. *)

(* An entry that fits is appended: a plain one, or a reversal. *)
Posts(e) ==
  /\ e \in Entry
  /\ ledger' = Append(ledger, e)
  /\ Fits(ledger, e.user, e.amount)
  /\ \/ e.kind # "reversal" /\ e.reverses = Null
     \/ \E id \in 1 .. Len(ledger) :
          /\ ~Reversed(ledger, id) /\ ledger[id].kind # "reversal"
          /\ e.kind = "reversal" /\ e.reverses = id
          /\ e.user = ledger[id].user /\ e.amount = -ledger[id].amount

LEMMA LedgerWrites ==
  ASSUME BillingTypeOK, [Next]_vars
  PROVE  UNCHANGED ledger \/ \E e : Posts(e)
<1> USE AmountsAssumption
<1>1. ASSUME NEW u \in Users, NEW kind \in Manual, NEW amount \in Amounts,
             CreateLedgerEntry(u, kind, amount)
      PROVE  Posts(ManualEntry(u, kind, amount))
  <2>1. ManualEntry(u, kind, amount) \in Entry
    BY DEF ManualEntry, Entry, Kinds
  <2> QED
    BY <1>1, <2>1 DEF CreateLedgerEntry, ManualEntry, Manual, Posts
<1>2. ASSUME NEW u \in Users, NEW id \in 1 .. Len(ledger), ReverseLedgerEntry(u, id)
      PROVE  Posts(ReversalEntry(id))
  <2>1. ledger[id] \in Entry
    BY DEF BillingTypeOK
  <2>2. ReversalEntry(id) \in Entry
    BY <2>1 DEF ReversalEntry, Entry, Kinds
  <2> QED
    BY <1>2, <2>2 DEF ReverseLedgerEntry, ReversalEntry, Posts
<1>3. ASSUME NEW u \in Users, ReserveSubscriptionCharge(u)
      PROVE  UNCHANGED ledger \/ Posts(ChargeEntry(u, users[u].next))
  <2>1. \/ UNCHANGED ledger
        \/ /\ users[u].status = "active"
           /\ Fits(ledger, u, -users[u].fee)
           /\ ledger' = Append(ledger, ChargeEntry(u, users[u].next))
    BY <1>3 DEF ReserveSubscriptionCharge, RecordCharge, StillDue
  <2> QED
    BY <2>1, AdvancedValid DEF ChargeEntry, Posts
<1>4. CASE Admin
  BY <1>1, <1>2, <1>4
     DEF Admin, CreateUser, SetMonthlyFee, Pause, Disable, SetStatus, Resume
<1>5. CASE CatchUp
  BY <1>3, <1>5 DEF CatchUp, StartCatchUp, UsersDueForCharge, CatchUpFails
<1>6. CASE NextDay \/ UNCHANGED vars
  BY <1>6 DEF NextDay, vars
<1> QED
  BY <1>4, <1>5, <1>6 DEF Next

-----------------------------------------------------------------------------
(* The invariant of the balances. *)

BalanceInv == WellReversed(ledger) /\ BalanceCountsStanding /\ BalanceInRange

LEMMA BalanceInit == Init => BalanceInv
<1> SUFFICES ASSUME Init
             PROVE  BalanceInv
  OBVIOUS
<1>1. ledger \in Seq(Entry) /\ Len(ledger) = 0
  BY DEF Init
<1>2. \A u \in Users : Balance(ledger, u) = 0 /\ StandingSum(ledger, u) = 0
  BY <1>1, BalanceOfNothing
<1>3. InRange(0)
  BY AmountsAssumption DEF InRange
<1> QED
  BY <1>1, <1>2, <1>3 DEF BalanceInv, WellReversed, BalanceCountsStanding, BalanceInRange

LEMMA WellReversedKept ==
  ASSUME BillingTypeOK, WellReversed(ledger), NEW e, Posts(e)
  PROVE  WellReversed(ledger')
<1>1. /\ ledger \in Seq(Entry) /\ e \in Entry /\ ledger' = Append(ledger, e)
      /\ Null \notin Nat
  BY BillingNullAssumption DEF BillingTypeOK, Posts
<1>2. /\ Len(ledger) \in Nat /\ Len(ledger') = Len(ledger) + 1
      /\ ledger'[Len(ledger) + 1] = e
      /\ \A i \in 1 .. Len(ledger) : ledger'[i] = ledger[i]
  BY <1>1, AppendEntry
<1>3. /\ e.kind = "reversal" <=> e.reverses # Null
      /\ e.reverses # Null => e.reverses \in 1 .. Len(ledger)
  BY <1>1 DEF Posts
<1> SUFFICES ASSUME NEW j \in 1 .. Len(ledger')
             PROVE  /\ ledger'[j].kind = "reversal" <=> ledger'[j].reverses # Null
                    /\ ledger'[j].reverses # Null => ledger'[j].reverses \in 1 .. j - 1
  BY DEF WellReversed
<1>4. CASE j \in 1 .. Len(ledger)
  BY <1>2, <1>4 DEF WellReversed
<1>5. CASE j = Len(ledger) + 1
  BY <1>2, <1>3, <1>5
<1> QED
  BY <1>2, <1>4, <1>5

LEMMA BalanceStep ==
  ASSUME BillingTypeOK, BalanceInv, [Next]_vars
  PROVE  BalanceInv'
<1>1. CASE UNCHANGED ledger
  BY <1>1 DEF BalanceInv, WellReversed, BalanceCountsStanding, BalanceInRange
<1>2. ASSUME NEW e, Posts(e)
      PROVE  BalanceInv'
  <2>1. ledger \in Seq(Entry) /\ e \in Entry /\ ledger' = Append(ledger, e)
    BY <1>2 DEF BillingTypeOK, Posts
  <2>2. WellReversed(ledger) /\ WellReversed(ledger)'
    BY <1>2, WellReversedKept DEF BalanceInv
  <2>3. ASSUME NEW u \in Users
        PROVE  /\ Balance(ledger', u) = StandingSum(ledger', u)
               /\ InRange(Balance(ledger', u))
    <3> DEFINE c == IF e.user = u THEN e.amount ELSE 0
    <3>1. Balance(ledger', u) = Balance(ledger, u) + c
      BY <2>1, BalanceOfAppend
    <3>2. StandingSum(ledger', u) = StandingSum(ledger, u) + c
      BY <1>2, <2>1, <2>2, StandingOfPlain, StandingOfReversal DEF Posts
    <3>3. Balance(ledger, u) = StandingSum(ledger, u) /\ InRange(Balance(ledger, u))
      BY DEF BalanceInv, BalanceCountsStanding, BalanceInRange
    <3>4. CASE e.user = u
      BY <1>2, <3>1, <3>2, <3>3, <3>4 DEF Posts, Fits
    <3>5. CASE e.user # u
      <4>1. Balance(ledger, u) \in Int
        BY <2>1, BalanceType
      <4>2. Balance(ledger', u) = Balance(ledger, u)
        BY <3>1, <3>5, <4>1
      <4> QED
        BY <3>1, <3>2, <3>3, <4>2
    <3> QED
      BY <3>4, <3>5
  <2> QED
    BY <2>2, <2>3 DEF BalanceInv, BalanceCountsStanding, BalanceInRange
<1> QED
  BY <1>1, <1>2, LedgerWrites

(* The invariant of the balances holds in every reachable state. *)
THEOREM BalanceInvHolds == Spec => []BalanceInv
<1>1. BillingTypeOK /\ BalanceInv /\ [Next]_vars => BalanceInv'
  BY BalanceStep
<1> QED
  BY <1>1, BalanceInit, BillingTypes, PTL DEF Spec

(***************************************************************************)
(* The balance that the ledger queries sum up is the sum of the entries    *)
(* that stand, however entries of several customers are mixed and reversed.*)
(***************************************************************************)
THEOREM BalanceCountsWhatStands == Spec => []BalanceCountsStanding
<1>1. BalanceInv => BalanceCountsStanding
  BY DEF BalanceInv
<1> QED
  BY <1>1, BalanceInvHolds, PTL

(* ensureBalanceRange before every write keeps each balance in its type. *)
THEOREM BalanceStaysInRange == Spec => []BalanceInRange
<1>1. BalanceInv => BalanceInRange
  BY DEF BalanceInv
<1> QED
  BY <1>1, BalanceInvHolds, PTL
=============================================================================
