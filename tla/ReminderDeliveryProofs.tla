----------------------- MODULE ReminderDeliveryProofs -----------------------
(***************************************************************************)
(* Proofs about reminder delivery for any number of customers, keys,       *)
(* workers and attempts, and any lease.                                    *)
(***************************************************************************)
EXTENDS ReminderDelivery, TLAPS

USE KeysAssumption, SendersAssumption, NumbersAssumption, NullAssumption

-----------------------------------------------------------------------------
(* Type correctness. *)

(* The retry delay is a number of minutes. *)
LEMMA BackoffIsNat == \A n \in Nat : Backoff(n) \in Nat
  BY DEF Backoff

(* What the row statements write is a row. *)
LEMMA RowTypes ==
  ASSUME NEW row \in Row, NEW t \in Nat
  PROVE  /\ CanReserve(row, t) => Reserved(row, t) \in Row
         /\ row.status = "pending" => Ambiguous(row) \in Row
         /\ CanReopen(row) => Reopened(row, t) \in Row
         /\ \A r \in Results : row.status = "pending" => Recorded(row, r, t) \in Row
  <1>0. /\ row.status = "none" <=> row = NoRow
        /\ row.status # "none" =>
             row \in [status : {"pending", "sent", "failed"}, error : Codes \union {Null},
                      attempt : Attempts, lease : Nat \union {Null}, next : Nat \union {Null}]
    BY DEF Row, NoRow
  <1>1. CanReserve(row, t) => Reserved(row, t) \in Row
    BY <1>0 DEF Row, NoRow, Reserved, CanReserve, Due, Retryable, Codes, Attempts
  <1>2. row.status = "pending" => Ambiguous(row) \in Row
    BY <1>0 DEF Row, Ambiguous, Codes
  <1>3. CanReopen(row) => Reopened(row, t) \in Row
    BY <1>0 DEF Row, CanReopen, Reopened, Codes
  <1>4. ASSUME NEW r \in Results, row.status = "pending"
        PROVE  Recorded(row, r, t) \in Row
    <2>1. NextAttempt(row.attempt, r, t) \in Nat \union {Null}
      BY <1>0, <1>4, BackoffIsNat DEF NextAttempt, Attempts
    <2>2. QED
      BY <1>0, <1>4, <2>1 DEF Row, Recorded, Results, Codes
  <1>5. QED
    BY <1>1, <1>2, <1>3, <1>4

(* What a goroutine carries, by the step it has reached. *)
LEMMA SenderTypes ==
  ASSUME NEW g \in Sender
  PROVE  /\ g.pc = "idle" => g = Idle
         /\ g.pc # "idle" => g.key \in Keys /\ g.at \in Nat
         /\ g.pc \in {"send", "record"} => g.attempt \in Attempts
         /\ g.pc = "record" => g.result \in Results
         /\ g.pc \in {"idle", "reserve", "send", "record"}
  BY DEF Sender, Idle

(***************************************************************************)
(* Init and every step keep the types.  The clock readings, the keys and   *)
(* the attempt numbers that goroutines carry are legal values, and no row  *)
(* is ever attempted more than MaxAttempts times.                          *)
(***************************************************************************)
THEOREM TypeCorrect == Spec => []TypeOK
  <1>1. Init => TypeOK
    <2> SUFFICES ASSUME Init PROVE TypeOK
      OBVIOUS
    <2>1. NoRow \in Row /\ Idle \in Sender
      BY DEF Row, Sender
    <2>2. QED
      BY <2>1 DEF Init, TypeOK, Phases
  <1>2. TypeOK /\ [Next]_vars => TypeOK'
    <2> SUFFICES ASSUME TypeOK, [Next]_vars
                 PROVE  TypeOK'
      OBVIOUS
    <2> USE DEF TypeOK
    <2>0. Idle \in Sender
      BY DEF Sender
    <2>1. ASSUME NEW s \in Senders, Reserve(s)
          PROVE  TypeOK'
      <3> DEFINE k == sender[s].key
                 at == sender[s].at
      <3>1. sender[s].pc = "reserve" /\ k \in Keys /\ at \in Nat /\ rows[k] \in Row
        BY <2>1, SenderTypes DEF Reserve
      <3>2. rows' \in [Keys -> Row]
        BY <2>1, <3>1, RowTypes DEF Reserve
      <3>3. CanReserve(rows[k], at) =>
              [sender[s] EXCEPT !.pc = "send", !.attempt = rows[k].attempt + 1] \in Sender
        <4>1. CanReserve(rows[k], at) => rows[k].attempt + 1 \in Attempts
          BY <3>1 DEF CanReserve, Due, Retryable, Row, NoRow, Attempts
        <4>2. sender[s] \in [pc : {"reserve"}, key : Keys, at : Nat, attempt : {0}, result : {Null}]
          BY <3>1 DEF Sender, Idle
        <4>3. QED
          BY <4>1, <4>2 DEF Sender
      <3>4. sender' \in [Senders -> Sender]
        <4> DEFINE sends == [sender[s] EXCEPT !.pc = "send", !.attempt = rows[k].attempt + 1]
        <4>1. \/ CanReserve(rows[k], at) /\ sender' = [sender EXCEPT ![s] = sends]
              \/ sender' = [sender EXCEPT ![s] = Idle]
          BY <2>1 DEF Reserve
        <4>2. CanReserve(rows[k], at) => sends \in Sender
          BY <3>3
        <4> HIDE DEF sends
        <4>3. ASSUME NEW x \in Sender, sender' = [sender EXCEPT ![s] = x]
              PROVE  sender' \in [Senders -> Sender]
          BY <4>3, Zenon
        <4>4. QED
          BY <2>0, <4>1, <4>2, <4>3
      <3>5. QED
        BY <2>1, <3>2, <3>4 DEF Reserve
    <2>2. ASSUME NEW s \in Senders, ReserveFails(s) \/ RecordFails(s)
          PROVE  TypeOK'
      BY <2>0, <2>2 DEF ReserveFails, RecordFails
    <2>3. ASSUME NEW s \in Senders, Send(s)
          PROVE  TypeOK'
      <3>1. sender[s] \in [pc : {"send"}, key : Keys, at : Nat, attempt : Attempts, result : {Null}]
        BY <2>3 DEF Send, Sender, Idle
      <3>2. \A answer \in Results :
              [sender[s] EXCEPT !.pc = "record", !.result = answer] \in Sender
        BY <3>1 DEF Sender
      <3>3. sender' \in [Senders -> Sender]
        <4>1. PICK answer \in Results :
                sender' = [sender EXCEPT ![s] = [sender[s] EXCEPT !.pc = "record", !.result = answer]]
          BY <2>3 DEF Send
        <4>2. QED
          BY <3>2, <4>1, Zenon
      <3>4. got' \in [Keys -> SUBSET Attempts]
        BY <2>3, <3>1 DEF Send
      <3>5. QED
        BY <2>3, <3>3, <3>4 DEF Send
    <2>4. ASSUME NEW s \in Senders, Record(s)
          PROVE  TypeOK'
      <3>1. sender[s].key \in Keys /\ sender[s].result \in Results
        BY <2>4, SenderTypes DEF Record
      <3>2. rows' \in [Keys -> Row]
        BY <2>4, <3>1, RowTypes DEF Record, OwnsRow
      <3>3. QED
        BY <2>0, <2>4, <3>2 DEF Record
    <2>5. CASE StartProcess
      BY <2>5, RowTypes DEF StartProcess, LeaseExpired, Phases
    <2>6. CASE ListRetries
      BY <2>6 DEF ListRetries, RetryCandidates, Phases
    <2>7. CASE ListRetriesFails \/ RetriesDone \/ ListCandidatesFails \/ CandidatesDone
      BY <2>7 DEF ListRetriesFails, RetriesDone, ListCandidatesFails, CandidatesDone, Phases
    <2>8. CASE ListCandidates
      <3>1. afterID' \in Nat
        BY <2>8 DEF ListCandidates, Candidates
      <3>2. jobs' \subseteq Keys /\ more' \in BOOLEAN /\ phase' \in Phases
        BY <2>8 DEF ListCandidates, Automatic, Phases
      <3>3. QED
        BY <2>8, <3>1, <3>2 DEF ListCandidates
    <2>9. ASSUME NEW s \in Senders, NEW k \in Keys, Begin(s, k)
          PROVE  sender' \in [Senders -> Sender]
      <3>1. [Idle EXCEPT !.pc = "reserve", !.key = k, !.at = now] \in Sender
        BY DEF Idle, Sender
      <3>2. QED
        BY <2>9, <3>1 DEF Begin
    <2>10. ASSUME NEW w \in Workers, Take(w)
           PROVE  TypeOK'
      BY <2>9, <2>10 DEF Take, Senders
    <2>11. ASSUME NEW k \in Keys, Remind(k)
           PROVE  TypeOK'
      BY <2>9, <2>11 DEF Remind, Senders
    <2>12. ASSUME NEW k \in Keys, Reconcile(k)
           PROVE  TypeOK'
      BY <2>12, RowTypes DEF Reconcile
    <2>13. ASSUME NEW u \in Users, Pause(u) \/ Resume(u) \/ Disable(u)
           PROVE  TypeOK'
      BY <2>13 DEF Pause, Resume, Disable, SetStatus
    <2>14. CASE Crash
      <3>1. sender' \in [Senders -> Sender]
        BY <2>0, <2>14 DEF Crash
      <3>2. crashes' \in Nat /\ jobs' \subseteq Keys /\ phase' \in Phases
        BY <2>14 DEF Crash, Phases
      <3>3. up' \in BOOLEAN /\ more' \in BOOLEAN /\ afterID' \in Nat
        BY <2>14 DEF Crash
      <3>4. QED
        BY <2>14, <3>1, <3>2, <3>3 DEF Crash
    <2>15. CASE Restart
      BY <2>15, RowTypes DEF Restart, Interrupted
    <2>16. CASE Tick
      BY <2>16 DEF Tick
    <2>17. CASE UNCHANGED vars
      BY <2>17 DEF vars
    <2>18. QED
      BY <2>1, <2>2, <2>3, <2>4, <2>5, <2>6, <2>7, <2>8, <2>10, <2>11, <2>12, <2>13,
         <2>14, <2>15, <2>16, <2>17
      DEF Next, Deliver, Process, Admin
  <1>3. QED
    BY <1>1, <1>2, PTL DEF Spec

-----------------------------------------------------------------------------
(* Fencing: no assumption on how long an attempt takes. *)

(* A reservation gives the row a number that no goroutine holds. *)
LEMMA ReserveIsFresh ==
  ASSUME TypeOK, FenceInv, NEW s \in Senders, Reserve(s), sender'[s].pc = "send"
  PROVE  /\ sender'[s].key = sender[s].key
         /\ sender'[s].attempt = rows[sender[s].key].attempt + 1
         /\ rows'[sender[s].key].attempt = rows[sender[s].key].attempt + 1
         /\ rows'[sender[s].key].status = "pending"
         /\ CanReserve(rows[sender[s].key], sender[s].at)
         /\ \A other \in Senders \ {s} :
              Busy(other) /\ sender[other].key = sender[s].key
              => sender[other].attempt # sender'[s].attempt
  <1> DEFINE k == sender[s].key
  <1>1. sender[s].pc = "reserve" /\ k \in Keys /\ rows[k] \in Row /\ sender[s] \in Sender
    BY SenderTypes DEF Reserve, TypeOK
  <1>2. /\ CanReserve(rows[k], sender[s].at)
        /\ rows' = [rows EXCEPT ![k] = Reserved(@, sender[s].at)]
        /\ sender' = [sender EXCEPT ![s].pc = "send", ![s].attempt = rows[k].attempt + 1]
    BY <1>1 DEF Reserve, TypeOK, Idle
  <1>3. /\ sender'[s].key = k
        /\ sender'[s].attempt = rows[k].attempt + 1
    BY <1>1, <1>2 DEF TypeOK, Sender, Idle
  <1>4. rows'[k].attempt = rows[k].attempt + 1 /\ rows'[k].status = "pending"
    BY <1>1, <1>2 DEF TypeOK, Reserved
  <1>5. rows[k].attempt \in Int
    BY <1>1 DEF Row, NoRow, Attempts
  <1>6. ASSUME NEW other \in Senders \ {s}, Busy(other), sender[other].key = k
        PROVE  sender[other].attempt # sender'[s].attempt
    <2>1. sender[other].attempt <= rows[k].attempt /\ sender[other].attempt \in Int
      BY <1>6, SenderTypes DEF FenceInv, Busy, TypeOK, Attempts
    <2>2. QED
      BY <2>1, <1>3, <1>5
  <1>7. QED
    BY <1>2, <1>3, <1>4, <1>6

(* Steps that change at most the status of rows that are not sent. *)
LEMMA FenceRows ==
  ASSUME TypeOK, FenceInv, UNCHANGED <<sender, got>>,
         \A k \in Keys : \/ rows'[k] = rows[k]
                         \/ rows'[k].attempt = rows[k].attempt /\ rows'[k].status # "sent"
  PROVE  FenceInv'
  <1>1. \A k \in Keys : rows'[k].attempt = rows[k].attempt
    OBVIOUS
  <1>2. \A s \in Senders : sender[s].pc # "idle" => sender[s].key \in Keys
    BY SenderTypes DEF TypeOK
  <1>3. OneSenderPerAttempt'
    BY DEF FenceInv, OneSenderPerAttempt, Busy
  <1>4. SentIsTrue'
    BY <1>1 DEF FenceInv, SentIsTrue
  <1>5. QED
    BY <1>1, <1>2, <1>3, <1>4 DEF FenceInv, Busy

(* Steps that make one goroutine idle or start a delivery with it. *)
LEMMA FenceSender ==
  ASSUME TypeOK, FenceInv, UNCHANGED <<rows, got>>,
         NEW s \in Senders, NEW g, g.pc \notin {"send", "record"},
         sender' = [sender EXCEPT ![s] = g]
  PROVE  FenceInv'
  <1>1. /\ ~Busy(s)'
        /\ \A other \in Senders \ {s} : sender'[other] = sender[other]
    BY DEF TypeOK, Busy
  <1>2. OneSenderPerAttempt'
    BY <1>1 DEF FenceInv, OneSenderPerAttempt, Busy
  <1>3. QED
    BY <1>1, <1>2 DEF FenceInv, SentIsTrue, Busy

(* Every step keeps the attempts in flight apart and the sent rows true. *)
LEMMA FenceStep ==
  ASSUME TypeOK, FenceInv, [Next]_vars
  PROVE  FenceInv'
  <1>1. ASSUME NEW s \in Senders, Reserve(s)
        PROVE  FenceInv'
    <2> DEFINE k == sender[s].key
    <2>1. k \in Keys /\ rows[k] \in Row /\ sender[s].pc = "reserve"
      BY <1>1, SenderTypes DEF Reserve, TypeOK
    <2>2. CASE sender'[s].pc = "send"
      <3>1. /\ rows' = [rows EXCEPT ![k] = Reserved(@, sender[s].at)]
            /\ \A other \in Senders \ {s} : sender'[other] = sender[other]
            /\ got' = got
        BY <1>1, <2>2, <2>1 DEF Reserve, TypeOK, Idle
      <3>2. /\ sender'[s].key = k
            /\ sender'[s].attempt = rows[k].attempt + 1
            /\ rows'[k].attempt = rows[k].attempt + 1
            /\ rows'[k].status = "pending"
            /\ \A other \in Senders \ {s} :
                 Busy(other) /\ sender[other].key = k => sender[other].attempt # sender'[s].attempt
        BY <1>1, <2>2, ReserveIsFresh
      <3>3. rows[k].attempt \in Int
        BY <2>1 DEF Row, NoRow, Attempts
      <3>4. OneSenderPerAttempt'
        BY <3>1, <3>2 DEF FenceInv, OneSenderPerAttempt, Busy
      <3>5. ASSUME NEW o \in Senders, Busy(o)'
            PROVE  sender'[o].attempt <= rows'[sender'[o].key].attempt
        <4>1. CASE o = s
          BY <3>2, <3>3, <4>1
        <4>2. CASE o # s
          <5>1. /\ Busy(o) /\ sender'[o] = sender[o]
                /\ sender[o].key \in Keys /\ sender[o].attempt \in Int
                /\ sender[o].attempt <= rows[sender[o].key].attempt
            BY <3>1, <3>5, <4>2, SenderTypes DEF FenceInv, Busy, TypeOK, Attempts
          <5>2. CASE sender[o].key = k
            BY <3>2, <3>3, <5>1, <5>2
          <5>3. CASE sender[o].key # k
            BY <3>1, <5>1, <5>3 DEF TypeOK
          <5>4. QED
            BY <5>2, <5>3
        <4>3. QED
          BY <4>1, <4>2
      <3>6. SentIsTrue'
        BY <3>1, <3>2, <2>1 DEF FenceInv, SentIsTrue, TypeOK
      <3>7. ASSUME NEW o \in Senders, sender'[o].pc = "record", sender'[o].result = "sent"
            PROVE  sender'[o].attempt \in got'[sender'[o].key]
        BY <2>2, <3>1, <3>7 DEF FenceInv
      <3>8. QED
        BY <3>4, <3>5, <3>6, <3>7 DEF FenceInv
    <2>3. CASE sender'[s].pc # "send"
      <3>0. sender[s] \in [pc : {"reserve"}, key : Keys, at : Nat, attempt : {0}, result : {Null}]
        BY <2>1 DEF TypeOK, Sender, Idle
      <3>1. sender' = [sender EXCEPT ![s] = Idle] /\ got' = got
        <4>1. sender' # [sender EXCEPT ![s].pc = "send", ![s].attempt = rows[k].attempt + 1]
          BY <2>3, <3>0 DEF TypeOK
        <4>2. QED
          BY <1>1, <4>1 DEF Reserve
      <3>2. \A other \in Senders \ {s} : sender'[other] = sender[other]
        BY <3>1 DEF TypeOK
      <3>3. ~Busy(s)'
        BY <3>1 DEF TypeOK, Busy, Idle
      <3>4. /\ \A x \in Keys \ {k} : rows'[x] = rows[x]
            /\ \/ rows'[k] = rows[k]
               \/ rows'[k].attempt = rows[k].attempt + 1 /\ rows'[k].status = "pending"
        BY <1>1, <2>1 DEF Reserve, Reserved, TypeOK
      <3>5. rows[k].attempt \in Int
        BY <2>1 DEF Row, NoRow, Attempts
      <3>6. OneSenderPerAttempt'
        BY <3>2, <3>3 DEF FenceInv, OneSenderPerAttempt, Busy
      <3>7. SentIsTrue'
        BY <3>1, <3>4, <2>1 DEF FenceInv, SentIsTrue
      <3>8. ASSUME NEW o \in Senders, Busy(o)'
            PROVE  sender'[o].attempt <= rows'[sender'[o].key].attempt
        <4>1. o # s
          BY <3>3, <3>8
        <4>2. /\ sender'[o] = sender[o] /\ sender[o].key \in Keys
              /\ sender[o].attempt \in Int
              /\ sender[o].attempt <= rows[sender[o].key].attempt
          BY <3>2, <3>8, <4>1, SenderTypes DEF FenceInv, Busy, TypeOK, Attempts
        <4>3. QED
          BY <3>4, <3>5, <4>2
      <3>9. ASSUME NEW o \in Senders, sender'[o].pc = "record", sender'[o].result = "sent"
            PROVE  sender'[o].attempt \in got'[sender'[o].key]
        BY <3>1, <3>2, <3>3, <3>9 DEF FenceInv, Busy
      <3>10. QED
        BY <3>6, <3>7, <3>8, <3>9 DEF FenceInv
    <2>4. QED
      BY <2>2, <2>3
  <1>2. ASSUME NEW s \in Senders, ReserveFails(s) \/ RecordFails(s)
        PROVE  FenceInv'
    <2>1. Idle.pc \notin {"send", "record"}
      BY DEF Idle
    <2>2. QED
      BY <1>2, <2>1, FenceSender DEF ReserveFails, RecordFails
  <1>3. ASSUME NEW s \in Senders, Send(s)
        PROVE  FenceInv'
    <2> DEFINE k == sender[s].key
    <2>1. /\ sender[s].pc = "send" /\ k \in Keys
          /\ rows' = rows
          /\ \A x \in Keys : got[x] \subseteq got'[x]
          /\ \A o \in Senders \ {s} : sender'[o] = sender[o]
          /\ sender'[s].key = k /\ sender'[s].attempt = sender[s].attempt
          /\ sender'[s].pc = "record"
      BY <1>3, SenderTypes DEF Send, TypeOK
    <2>2. sender'[s].result = "sent" => sender[s].attempt \in got'[k]
      BY <1>3, <2>1 DEF Send, Answers, Codes, TypeOK
    <2>3. \A o \in Senders : Busy(o)' => Busy(o) /\ sender'[o].key = sender[o].key
                                               /\ sender'[o].attempt = sender[o].attempt
      BY <2>1 DEF Busy
    <2>4. OneSenderPerAttempt'
      BY <2>3 DEF FenceInv, OneSenderPerAttempt
    <2>5. SentIsTrue'
      BY <2>1 DEF FenceInv, SentIsTrue
    <2>6. ASSUME NEW o \in Senders, sender'[o].pc = "record", sender'[o].result = "sent"
          PROVE  sender'[o].attempt \in got'[sender'[o].key]
      <3>1. CASE o = s
        BY <2>1, <2>2, <2>6, <3>1
      <3>2. CASE o # s
        <4>1. sender[o].key \in Keys /\ sender[o].attempt \in got[sender[o].key]
          BY <2>1, <2>6, <3>2, SenderTypes DEF FenceInv, TypeOK
        <4>2. QED
          BY <2>1, <3>2, <4>1
      <3>3. QED
        BY <3>1, <3>2
    <2>7. QED
      BY <2>1, <2>3, <2>4, <2>5, <2>6 DEF FenceInv
  <1>4. ASSUME NEW s \in Senders, Record(s)
        PROVE  FenceInv'
    <2> DEFINE k == sender[s].key
    <2>1. /\ sender[s].pc = "record" /\ k \in Keys /\ Busy(s)
          /\ got' = got
          /\ \A o \in Senders \ {s} : sender'[o] = sender[o]
          /\ ~Busy(s)'
      BY <1>4, SenderTypes DEF Record, TypeOK, Busy, Idle
    <2>2. /\ \A x \in Keys \ {k} : rows'[x] = rows[x]
          /\ rows'[k].attempt = rows[k].attempt
          /\ \/ rows'[k] = rows[k]
             \/ rows'[k].status # "sent"
             \/ sender[s].result = "sent" /\ sender[s].attempt = rows[k].attempt
      <3>1. CASE OwnsRow(rows[k], sender[s].attempt)
        <4>1. rows[k] \in Row /\ rows[k] # NoRow
          BY <2>1, <3>1 DEF TypeOK, OwnsRow, NoRow
        <4>2. /\ Recorded(rows[k], sender[s].result, now).attempt = rows[k].attempt
              /\ Recorded(rows[k], sender[s].result, now).status = "sent"
                   => sender[s].result = "sent"
          BY <4>1 DEF Row, Recorded
        <4>3. rows' = [rows EXCEPT ![k] = Recorded(rows[k], sender[s].result, now)]
          BY <1>4, <3>1 DEF Record
        <4>4. /\ \A x \in Keys \ {k} : rows'[x] = rows[x]
              /\ rows'[k] = Recorded(rows[k], sender[s].result, now)
          BY <2>1, <4>3 DEF TypeOK
        <4>5. sender[s].attempt = rows[k].attempt
          BY <3>1 DEF OwnsRow
        <4>6. rows'[k].attempt = rows[k].attempt
          BY <4>2, <4>4
        <4>7. rows'[k].status = "sent" => sender[s].result = "sent"
          BY <4>2, <4>4
        <4>8. QED
          BY <4>4, <4>5, <4>6, <4>7
      <3>2. CASE ~OwnsRow(rows[k], sender[s].attempt)
        BY <1>4, <3>2 DEF Record
      <3>3. QED
        BY <3>1, <3>2
    <2>3. sender[s].result = "sent" => sender[s].attempt \in got[k]
      BY <2>1 DEF FenceInv
    <2>4. SentIsTrue'
      BY <2>1, <2>2, <2>3 DEF FenceInv, SentIsTrue
    <2>5. OneSenderPerAttempt'
      BY <2>1 DEF FenceInv, OneSenderPerAttempt, Busy
    <2>6. \A o \in Senders : Busy(o)' => sender'[o].attempt <= rows'[sender'[o].key].attempt
      BY <2>1, <2>2, SenderTypes DEF FenceInv, Busy, TypeOK
    <2>7. \A o \in Senders : sender'[o].pc = "record" /\ sender'[o].result = "sent"
                               => sender'[o].attempt \in got'[sender'[o].key]
      BY <2>1 DEF FenceInv, Busy
    <2>8. QED
      BY <2>4, <2>5, <2>6, <2>7 DEF FenceInv
  <1>5. CASE StartProcess \/ Restart
    <2>1. \A row \in Row : row.status = "pending" =>
            Ambiguous(row).attempt = row.attempt /\ Ambiguous(row).status # "sent"
      BY DEF Row, NoRow, Ambiguous
    <2>2. \A k \in Keys : \/ rows'[k] = rows[k]
                          \/ rows'[k].attempt = rows[k].attempt /\ rows'[k].status # "sent"
      BY <1>5, <2>1 DEF StartProcess, Restart, LeaseExpired, Interrupted, TypeOK
    <2>3. QED
      BY <1>5, <2>2, FenceRows DEF StartProcess, Restart
  <1>6. ASSUME NEW k \in Keys, Reconcile(k)
        PROVE  FenceInv'
    <2>1. \A row \in Row : CanReopen(row) =>
            Reopened(row, now).attempt = row.attempt /\ Reopened(row, now).status # "sent"
      BY DEF Row, NoRow, CanReopen, Reopened
    <2>2. QED
      BY <1>6, <2>1, FenceRows DEF Reconcile, TypeOK
  <1>7. ASSUME NEW s \in Senders, NEW k \in Keys, Begin(s, k), UNCHANGED <<rows, got>>
        PROVE  FenceInv'
    <2>1. [Idle EXCEPT !.pc = "reserve", !.key = k, !.at = now].pc \notin {"send", "record"}
      BY DEF Idle
    <2>2. QED
      BY <1>7, <2>1, FenceSender DEF Begin
  <1>8. ASSUME NEW w \in Workers, Take(w)
        PROVE  FenceInv'
    BY <1>7, <1>8 DEF Take, Senders, TypeOK
  <1>9. ASSUME NEW k \in Keys, Remind(k)
        PROVE  FenceInv'
    BY <1>7, <1>9 DEF Remind, Senders
  <1>10. CASE Crash
    <2>1. \A s \in Senders : sender'[s].pc = "idle"
      BY <1>10 DEF Crash, Idle
    <2>2. rows' = rows /\ got' = got
      BY <1>10 DEF Crash
    <2>3. QED
      BY <2>1, <2>2 DEF FenceInv, OneSenderPerAttempt, SentIsTrue, Busy
  <1>11. CASE UNCHANGED <<rows, sender, got>>
    BY <1>11, FenceRows
  <1>12. QED
    BY <1>1, <1>2, <1>3, <1>4, <1>5, <1>6, <1>8, <1>9, <1>10, <1>11
    DEF Next, Deliver, Process, Admin, ListRetries, ListRetriesFails, RetriesDone,
        ListCandidates, ListCandidatesFails, CandidatesDone, Pause, Resume, Disable,
        SetStatus, Tick, vars

(***************************************************************************)
(* The fencing invariant holds with no assumption about time, so a row is  *)
(* never marked sent on behalf of an attempt that did not arrive.          *)
(***************************************************************************)
THEOREM Fencing == Spec => []FenceInv
  <1>1. Init => FenceInv
    BY DEF Init, FenceInv, OneSenderPerAttempt, SentIsTrue, Busy, Idle, NoRow
  <1>2. TypeOK /\ FenceInv /\ [Next]_vars => FenceInv'
    BY FenceStep
  <1>3. QED
    BY <1>1, <1>2, TypeCorrect, PTL DEF Spec

(* A row says sent only if the message of its current attempt arrived. *)
THEOREM SentRowsAreTrue == Spec => []SentIsTrue
  <1>1. FenceInv => SentIsTrue
    BY DEF FenceInv
  <1>2. QED
    BY <1>1, Fencing, PTL

(***************************************************************************)
(* No step of the scheduler, a worker or a recovery rewrites a row that is *)
(* settled, whatever the timeouts are: only the operator reopens one.      *)
(***************************************************************************)
THEOREM SettledRowsAreFinal == Spec => SettledIsFinal
  <1>1. ASSUME TypeOK, [Next]_vars, NEW k \in Keys, Settled(rows[k])
        PROVE  rows'[k] = rows[k] \/ Reconcile(k)
    <2>1. ASSUME NEW s \in Senders, Reserve(s)
          PROVE  rows'[k] = rows[k]
      BY <1>1, <2>1 DEF Reserve, CanReserve, Due, Settled, Retryable, TypeOK
    <2>2. ASSUME NEW s \in Senders, Record(s)
          PROVE  rows'[k] = rows[k]
      BY <1>1, <2>2 DEF Record, OwnsRow, Settled, TypeOK
    <2>3. CASE StartProcess \/ Restart
      BY <1>1, <2>3 DEF StartProcess, Restart, LeaseExpired, Interrupted, Settled, TypeOK
    <2>4. ASSUME NEW x \in Keys, Reconcile(x)
          PROVE  rows'[k] = rows[k] \/ Reconcile(k)
      <3>1. CASE x = k
        BY <2>4, <3>1
      <3>2. CASE x # k
        BY <1>1, <2>4, <3>2 DEF Reconcile, TypeOK
      <3>3. QED
        BY <3>1, <3>2
    <2>5. CASE UNCHANGED rows
      BY <2>5
    <2>6. QED
      BY <1>1, <2>1, <2>2, <2>3, <2>4, <2>5
      DEF Next, Deliver, Process, Admin, ReserveFails, RecordFails, Send, ListRetries,
          ListRetriesFails, RetriesDone, ListCandidates, ListCandidatesFails, CandidatesDone,
          Take, Remind, Pause, Resume, Disable, SetStatus, Crash, Tick, vars
  <1>2. TypeOK /\ [Next]_vars =>
          [\A k \in Keys : Settled(rows[k]) => rows'[k] = rows[k] \/ Reconcile(k)]_vars
    BY <1>1
  <1>3. QED
    BY <1>2, TypeCorrect, PTL DEF Spec, SettledIsFinal

-----------------------------------------------------------------------------
(* Customers who are disabled. *)

(* Nothing is listed between two lists, and the poller reserves manual keys. *)
HandInv ==
  /\ phase \in {"idle", "listRetries", "listCandidates"}
       => jobs = {} /\ \A w \in Workers : sender[w].pc = "idle"
  /\ sender[Poller].pc = "reserve" => sender[Poller].key \in Manual

(* A delivery goes on in the goroutine that began it, with the same key. *)
LEMMA DeliverKeepsHands ==
  ASSUME TypeOK, NEW s \in Senders, Deliver(s)
  PROVE  /\ \A o \in Senders \ {s} : sender'[o] = sender[o]
         /\ sender[s].pc # "idle" /\ sender'[s].pc # "reserve"
         /\ UNCHANGED <<status, phase, jobs>>
  <1>1. sender[s].pc # "idle" /\ UNCHANGED <<status, phase, jobs>>
    BY DEF Deliver, Reserve, ReserveFails, Send, Record, RecordFails
  <1>2. CASE Reserve(s)
    <2>1. sender[s] \in [pc : {"reserve"}, key : Keys, at : Nat, attempt : {0}, result : {Null}]
      BY <1>2 DEF Reserve, TypeOK, Sender, Idle
    <2>2. QED
      BY <1>1, <1>2, <2>1 DEF Reserve, TypeOK, Idle
  <1>3. CASE Send(s)
    <2>1. sender[s] \in [pc : {"send"}, key : Keys, at : Nat, attempt : Attempts, result : {Null}]
      BY <1>3 DEF Send, TypeOK, Sender, Idle
    <2>2. QED
      BY <1>1, <1>3, <2>1 DEF Send, TypeOK
  <1>4. CASE ReserveFails(s) \/ Record(s) \/ RecordFails(s)
    BY <1>1, <1>4 DEF ReserveFails, Record, RecordFails, TypeOK, Idle
  <1>5. QED
    BY <1>2, <1>3, <1>4 DEF Deliver

(* Every step keeps HandInv. *)
LEMMA HandStep ==
  ASSUME TypeOK, HandInv, [Next]_vars
  PROVE  HandInv'
  <1>1. ASSUME NEW s \in Senders, Deliver(s)
        PROVE  HandInv'
    BY <1>1, DeliverKeepsHands DEF HandInv, Senders
  <1>2. CASE \/ StartProcess \/ ListRetries \/ ListRetriesFails \/ RetriesDone
             \/ ListCandidates \/ ListCandidatesFails \/ CandidatesDone
    BY <1>2 DEF HandInv, StartProcess, ListRetries, ListRetriesFails, RetriesDone,
                ListCandidates, ListCandidatesFails, CandidatesDone, PoolDone
  <1>3. ASSUME NEW w \in Workers, Take(w)
        PROVE  HandInv'
    <2>1. sender'[Poller] = sender[Poller] /\ phase' = phase
      BY <1>3 DEF Take, Begin, TypeOK, Senders
    <2>2. phase \notin {"idle", "listRetries", "listCandidates"}
      BY <1>3 DEF Take
    <2>3. QED
      BY <2>1, <2>2 DEF HandInv
  <1>4. ASSUME NEW k \in Manual, Remind(k)
        PROVE  HandInv'
    <2>1. sender'[Poller].key = k /\ \A w \in Workers : sender'[w] = sender[w]
      BY <1>4 DEF Remind, Begin, TypeOK, Senders, Idle
    <2>2. QED
      BY <1>4, <2>1 DEF HandInv, Remind
  <1>5. CASE Crash
    BY <1>5 DEF HandInv, Crash, Idle, Senders
  <1>6. CASE UNCHANGED <<sender, phase, jobs>>
    BY <1>6 DEF HandInv
  <1>7. QED
    BY <1>1, <1>2, <1>3, <1>4, <1>5, <1>6
    DEF Next, Process, Admin, Reconcile, Pause, Resume, Disable, SetStatus, Restart, Tick, vars

(* What HandInv says of the keys nobody has taken, in every state. *)
LEMMA HandsHold == Spec => []HandInv
  <1>1. Init => HandInv
    BY DEF Init, HandInv, Idle, Senders
  <1>2. TypeOK /\ HandInv /\ [Next]_vars => HandInv'
    BY HandStep
  <1>3. QED
    BY <1>1, <1>2, TypeCorrect, PTL DEF Spec

(* An attempt number changes only in the reservation of a key in hand. *)
LEMMA AttemptsAreReserved ==
  ASSUME TypeOK, [Next]_vars, NEW k \in Keys, ~InHand(k)
  PROVE  rows'[k].attempt = rows[k].attempt
  <1>1. ASSUME NEW s \in Senders, Reserve(s)
        PROVE  rows'[k] = rows[k]
    BY <1>1 DEF Reserve, InHand, TypeOK
  <1>2. ASSUME NEW s \in Senders, Record(s)
        PROVE  rows'[k].attempt = rows[k].attempt
    <2>1. ASSUME NEW row \in Row, NEW r, row # NoRow
          PROVE  Recorded(row, r, now).attempt = row.attempt
      BY <2>1 DEF Row, Recorded
    <2>2. OwnsRow(rows[k], sender[s].attempt) => rows[k] # NoRow
      BY DEF OwnsRow, NoRow
    <2>3. QED
      BY <1>2, <2>1, <2>2 DEF Record, TypeOK
  <1>3. CASE StartProcess \/ Restart
    <2>1. \A row \in Row : row.status = "pending" => Ambiguous(row).attempt = row.attempt
      BY DEF Row, NoRow, Ambiguous
    <2>2. QED
      BY <1>3, <2>1 DEF StartProcess, Restart, LeaseExpired, Interrupted, TypeOK
  <1>4. ASSUME NEW x \in Keys, Reconcile(x)
        PROVE  rows'[k].attempt = rows[k].attempt
    <2>1. \A row \in Row : CanReopen(row) => Reopened(row, now).attempt = row.attempt
      BY DEF Row, NoRow, CanReopen, Reopened
    <2>2. QED
      BY <1>4, <2>1 DEF Reconcile, TypeOK
  <1>5. CASE UNCHANGED rows
    BY <1>5
  <1>6. QED
    BY <1>1, <1>2, <1>3, <1>4, <1>5
    DEF Next, Deliver, Process, Admin, ReserveFails, RecordFails, Send, ListRetries,
        ListRetriesFails, RetriesDone, ListCandidates, ListCandidatesFails, CandidatesDone,
        Take, Remind, Pause, Resume, Disable, SetStatus, Crash, Tick, vars

(* Only the lists of active customers put an automatic key in hand. *)
LEMMA DisabledStayOut ==
  ASSUME TypeOK, HandInv, [Next]_vars,
         NEW k \in Automatic, status[Owner[k]] = "disabled", ~InHand(k)
  PROVE  ~InHand(k)'
  <1>0. k \in Keys /\ k \notin Manual
    BY DEF Automatic
  <1>1. ASSUME NEW s \in Senders, Deliver(s)
        PROVE  ~InHand(k)'
    BY <1>1, DeliverKeepsHands DEF InHand
  <1>2. CASE ListRetries
    <2>1. k \notin jobs'
      BY <1>0, <1>2 DEF ListRetries, RetryCandidates
    <2>2. QED
      BY <1>2, <2>1 DEF ListRetries, InHand
  <1>3. CASE ListCandidates
    <2>1. k \notin jobs'
      BY <1>0, <1>3 DEF ListCandidates, Candidates
    <2>2. QED
      BY <1>3, <2>1 DEF ListCandidates, InHand
  <1>4. ASSUME NEW w \in Workers, Take(w)
        PROVE  ~InHand(k)'
    <2>1. PICK x \in jobs : Begin(w, x) /\ jobs' = jobs \ {x}
      BY <1>4 DEF Take
    <2>2. x # k /\ w \in Senders
      BY DEF InHand, Senders
    <2>3. \A s \in Senders : sender'[s] = sender[s] \/ sender'[s].key = x
      BY <2>1, <2>2 DEF Begin, TypeOK, Idle
    <2>4. QED
      BY <2>1, <2>2, <2>3 DEF InHand
  <1>5. ASSUME NEW x \in Manual, Remind(x)
        PROVE  ~InHand(k)'
    <2>1. \A s \in Senders : sender'[s] = sender[s] \/ sender'[s].key = x
      BY <1>5 DEF Remind, Begin, TypeOK, Idle, Senders
    <2>2. QED
      BY <1>0, <1>5, <2>1 DEF Remind, InHand
  <1>6. CASE Crash
    BY <1>6 DEF Crash, InHand, Idle
  <1>7. CASE UNCHANGED <<sender, jobs>>
    BY <1>7 DEF InHand
  <1>8. QED
    BY <1>1, <1>2, <1>3, <1>4, <1>5, <1>6, <1>7
    DEF Next, Process, Admin, StartProcess, ListRetriesFails, RetriesDone, ListCandidatesFails,
        CandidatesDone, Reconcile, Pause, Resume, Disable, SetStatus, Restart, Tick, vars

(***************************************************************************)
(* A reminder for a customer who is disabled is one that the pass of that  *)
(* moment had listed or a worker had taken: once no such reminder is left, *)
(* and always between two passes, no step attempts an automatic reminder   *)
(* of the customer any more.                                               *)
(***************************************************************************)
THEOREM DisabledForGood == Spec => ExcludedForGood
  <1>1. ASSUME TypeOK, HandInv, [Next]_vars, NEW u \in Users, status[u] = "disabled",
               phase = "idle" \/ Excluded(u)
        PROVE  /\ Excluded(u)'
               /\ \A k \in Automatic : Owner[k] = u => rows'[k].attempt = rows[k].attempt
    <2>1. Excluded(u)
      <3>1. ASSUME phase = "idle", NEW k \in Automatic, InHand(k)
            PROVE  FALSE
        BY <1>1, <3>1 DEF HandInv, InHand, Senders, Automatic
      <3>2. QED
        BY <1>1, <3>1 DEF Excluded
    <2>2. status'[u] = "disabled"
      BY <1>1 DEF TypeOK, Next, Deliver, Process, Admin, Reserve, ReserveFails, Send, Record,
                  RecordFails, StartProcess, ListRetries, ListRetriesFails, RetriesDone,
                  ListCandidates, ListCandidatesFails, CandidatesDone, Take, Remind, Reconcile,
                  Pause, Resume, Disable, SetStatus, Crash, Restart, Tick, vars
    <2>3. ASSUME NEW k \in Automatic, Owner[k] = u
          PROVE  ~InHand(k)' /\ rows'[k].attempt = rows[k].attempt
      <3>1. k \in Keys /\ ~InHand(k) /\ status[Owner[k]] = "disabled"
        BY <2>1, <2>3 DEF Excluded, Automatic
      <3>2. QED
        BY <1>1, <3>1, AttemptsAreReserved, DisabledStayOut
    <2>4. QED
      BY <2>2, <2>3 DEF Excluded
  <1>2. TypeOK /\ HandInv /\ [Next]_vars =>
          [\A u \in Users :
             status[u] = "disabled" /\ (phase = "idle" \/ Excluded(u)) =>
               /\ Excluded(u)'
               /\ \A k \in Automatic : Owner[k] = u => rows'[k].attempt = rows[k].attempt]_vars
    BY <1>1
  <1>3. QED
    BY <1>2, TypeCorrect, HandsHold, PTL DEF Spec, ExcludedForGood
=============================================================================
