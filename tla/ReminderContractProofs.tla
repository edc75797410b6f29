----------------------- MODULE ReminderContractProofs -----------------------
(***************************************************************************)
(* What holds when every attempt ends before its lease does: one message   *)
(* per key, and the contract.                                              *)
(***************************************************************************)
EXTENDS ReminderDeliveryProofs

USE KeysAssumption, SendersAssumption, NumbersAssumption, NullAssumption

(* An attempt in flight owns its row: no other goroutine shares its key. *)
LEMMA OneSenderPerKey ==
  ASSUME TypeOK, TimelyInv, NEW s \in Senders, NEW o \in Senders, Busy(s), Busy(o),
         sender[s].key = sender[o].key
  PROVE  s = o
  BY DEF TimelyInv, FenceInv, LiveAttemptOwnsRow, OwnsRow, OneSenderPerAttempt

(* A live attempt is inside its lease, so no pass takes it for expired. *)
LEMMA LiveLeaseHolds ==
  ASSUME Timely, TypeOK, TimelyInv, NEW s \in Senders, Busy(s)
  PROVE  ~LeaseExpired(rows[sender[s].key], now)
  <1>1. /\ sender[s].at \in Nat
        /\ now \in Nat
        /\ rows[sender[s].key].lease = sender[s].at + Lease
        /\ now <= sender[s].at + AttemptTime
    BY SenderTypes DEF TimelyInv, YoungAttempts, Busy, TypeOK
  <1>2. QED
    BY <1>1 DEF Timely, LeaseExpired

(* A row open for a reservation belongs to a chat without the message. *)
LEMMA OpenMeansUnsent ==
  ASSUME TypeOK, TimelyInv, NEW k \in Keys, NEW t, CanReserve(rows[k], t)
  PROVE  got[k] = {} /\ rows[k].status # "pending"
  BY DEF TimelyInv, OpenRowIsUnsent, CanReserve, Due, Retryable

(* The parts of TimelyInv that a step can disturb beyond FenceInv. *)
LiveInv ==
  /\ LiveAttemptOwnsRow
  /\ \A s \in Senders : Busy(s) => rows[sender[s].key].lease = sender[s].at + Lease
ChatInv ==
  /\ \A k \in Keys : rows[k].status = "none" => got[k] = {}
  /\ SenderKnowsChat
  /\ OpenRowIsUnsent
  /\ AtMostOneMessage

LEMMA TimelyParts == TimelyInv <=> FenceInv /\ LiveInv /\ YoungAttempts /\ ChatInv
  BY DEF TimelyInv, LiveInv, ChatInv

-----------------------------------------------------------------------------
(* The steps of a delivery, field by field. *)

(* A reservation that finds its row open makes it pending. *)
LEMMA ReserveEffect ==
  ASSUME TypeOK, NEW s \in Senders, Reserve(s)
  PROVE  LET k == sender[s].key
             at == sender[s].at
         IN /\ k \in Keys /\ at \in Nat /\ ~Busy(s) /\ got' = got
            /\ sender[s].pc = "reserve"
            /\ \A o \in Senders \ {s} : sender'[o] = sender[o]
            /\ \A x \in Keys \ {k} : rows'[x] = rows[x]
            /\ \/ /\ CanReserve(rows[k], at)
                  /\ rows'[k] = Reserved(rows[k], at)
                  /\ \/ sender'[s] = Idle
                     \/ /\ sender'[s].pc = "send" /\ sender'[s].key = k
                        /\ sender'[s].at = at /\ sender'[s].attempt = rows[k].attempt + 1
               \/ rows' = rows /\ sender'[s] = Idle
  <1> DEFINE k == sender[s].key
             at == sender[s].at
  <1>1. sender[s] \in [pc : {"reserve"}, key : Keys, at : Nat, attempt : {0}, result : {Null}]
    BY DEF Reserve, TypeOK, Sender, Idle
  <1>2. \A o \in Senders \ {s} : sender'[o] = sender[o]
    BY DEF Reserve, TypeOK
  <1>3. CASE /\ CanReserve(rows[k], at)
             /\ rows' = [rows EXCEPT ![k] = Reserved(@, at)]
             /\ sender' = [sender EXCEPT ![s].pc = "send", ![s].attempt = rows[k].attempt + 1]
    <2>1. rows'[k] = Reserved(rows[k], at) /\ \A x \in Keys \ {k} : rows'[x] = rows[x]
      BY <1>1, <1>3 DEF TypeOK
    <2>2. /\ sender'[s].pc = "send" /\ sender'[s].key = k
          /\ sender'[s].at = at /\ sender'[s].attempt = rows[k].attempt + 1
      BY <1>1, <1>3 DEF TypeOK
    <2>3. QED
      BY <1>1, <1>2, <1>3, <2>1, <2>2 DEF Reserve, Busy
  <1>4. CASE /\ CanReserve(rows[k], at)
             /\ rows' = [rows EXCEPT ![k] = Reserved(@, at)]
             /\ sender' = [sender EXCEPT ![s] = Idle]
    BY <1>1, <1>2, <1>4 DEF Reserve, Busy, TypeOK
  <1>5. CASE rows' = rows /\ sender' = [sender EXCEPT ![s] = Idle]
    BY <1>1, <1>2, <1>5 DEF Reserve, Busy, TypeOK
  <1>6. QED
    BY <1>3, <1>4, <1>5 DEF Reserve

(* An exchange changes the chat of its own key at most. *)
LEMMA SendEffect ==
  ASSUME TypeOK, NEW s \in Senders, Send(s)
  PROVE  LET k == sender[s].key
         IN /\ k \in Keys /\ sender[s].pc = "send" /\ rows' = rows
            /\ sender[s].attempt \in Attempts
            /\ \A o \in Senders \ {s} : sender'[o] = sender[o]
            /\ \A x \in Keys \ {k} : got'[x] = got[x]
            /\ sender'[s].pc = "record" /\ sender'[s].key = k
            /\ sender'[s].at = sender[s].at /\ sender'[s].attempt = sender[s].attempt
            /\ \/ got'[k] = got[k] /\ sender'[s].result \in Codes
               \/ /\ got'[k] = got[k] \union {sender[s].attempt}
                  /\ sender'[s].result \in {"sent", "unknown", "failed"}
  <1> DEFINE k == sender[s].key
  <1>1. sender[s] \in [pc : {"send"}, key : Keys, at : Nat, attempt : Attempts, result : {Null}]
    BY DEF Send, TypeOK, Sender, Idle
  <1>2. PICK arrived \in BOOLEAN, answer \in Results :
          /\ answer \in Answers(arrived)
          /\ sender' = [sender EXCEPT ![s].pc = "record", ![s].result = answer]
          /\ got' = IF arrived
                    THEN [got EXCEPT ![k] = @ \union {sender[s].attempt}]
                    ELSE got
    BY DEF Send
  <1>3. /\ sender'[s].pc = "record" /\ sender'[s].key = k /\ sender'[s].at = sender[s].at
        /\ sender'[s].attempt = sender[s].attempt /\ sender'[s].result = answer
        /\ \A o \in Senders \ {s} : sender'[o] = sender[o]
    BY <1>1, <1>2 DEF TypeOK
  <1>4. CASE arrived
    BY <1>1, <1>2, <1>3, <1>4 DEF Send, Answers, TypeOK
  <1>5. CASE ~arrived
    BY <1>1, <1>2, <1>3, <1>5 DEF Send, Answers, TypeOK
  <1>6. QED
    BY <1>4, <1>5

(* The other steps end the delivery; Record writes an owned row. *)
LEMMA EndEffect ==
  ASSUME TypeOK, NEW s \in Senders, ReserveFails(s) \/ Record(s) \/ RecordFails(s)
  PROVE  LET k == sender[s].key
         IN /\ k \in Keys /\ got' = got /\ sender'[s] = Idle
            /\ sender[s].pc \in {"reserve", "record"}
            /\ \A o \in Senders \ {s} : sender'[o] = sender[o]
            /\ \A x \in Keys \ {k} : rows'[x] = rows[x]
            /\ \/ rows' = rows
               \/ /\ sender[s].pc = "record" /\ sender[s].result \in Results
                  /\ OwnsRow(rows[k], sender[s].attempt)
                  /\ rows'[k] = Recorded(rows[k], sender[s].result, now)
  <1>1. sender[s].key \in Keys /\ (sender[s].pc = "record" => sender[s].result \in Results)
    BY SenderTypes DEF ReserveFails, Record, RecordFails, TypeOK
  <1>2. /\ got' = got /\ sender'[s] = Idle
        /\ \A o \in Senders \ {s} : sender'[o] = sender[o]
    BY DEF ReserveFails, Record, RecordFails, TypeOK
  <1>3. CASE Record(s)
    BY <1>1, <1>2, <1>3 DEF Record, TypeOK
  <1>4. CASE ReserveFails(s) \/ RecordFails(s)
    BY <1>1, <1>2, <1>4 DEF ReserveFails, RecordFails
  <1>5. QED
    BY <1>3, <1>4

-----------------------------------------------------------------------------
(* Every part of TimelyInv is kept. *)

(* Clocks and ages: only Tick moves the clock, and not past a live attempt. *)
LEMMA AgeStep ==
  ASSUME TypeOK, YoungAttempts, [Next]_vars
  PROVE  YoungAttempts'
  <1> USE DEF YoungAttempts
  <1>0. \A s \in Senders : sender[s] \in Sender
    BY DEF TypeOK
  <1>1. ASSUME NEW s \in Senders, Deliver(s)
        PROVE  YoungAttempts'
    <2>1. /\ \A o \in Senders \ {s} : sender'[o] = sender[o]
          /\ UNCHANGED <<up, now>>
      BY <1>1 DEF Deliver, Reserve, ReserveFails, Send, Record, RecordFails, TypeOK
    <2>2. sender[s].pc # "idle"
      BY <1>1 DEF Deliver, Reserve, ReserveFails, Send, Record, RecordFails
    <2>3. sender'[s] = Idle \/ sender'[s].at = sender[s].at
      BY <1>1, ReserveEffect, SendEffect, EndEffect DEF Deliver
    <2>4. QED
      BY <2>1, <2>2, <2>3 DEF Idle
  <1>2. ASSUME NEW s \in Senders, NEW k \in Keys, Begin(s, k), up, UNCHANGED <<up, now, phase>>
        PROVE  YoungAttempts'
    <2>1. /\ \A o \in Senders \ {s} : sender'[o] = sender[o]
          /\ sender'[s].at = now
      BY <1>2 DEF Begin, TypeOK, Idle
    <2>2. now <= now + AttemptTime /\ now <= now
      BY DEF TypeOK
    <2>3. QED
      BY <1>2, <2>1, <2>2 DEF TypeOK
  <1>3. ASSUME NEW w \in Workers, Take(w)
        PROVE  YoungAttempts'
    BY <1>2, <1>3 DEF Take, Senders, TypeOK
  <1>4. ASSUME NEW k \in Keys, Remind(k)
        PROVE  YoungAttempts'
    BY <1>2, <1>4 DEF Remind, PollerFree, Senders
  <1>5. CASE Crash
    BY <1>5 DEF Crash, Idle
  <1>6. CASE Restart
    BY <1>6 DEF Restart
  <1>7. CASE Tick
    <2>1. /\ now' = now + 1 /\ UNCHANGED <<sender, up, phase>>
          /\ \A s \in Senders : sender[s].pc # "idle" => now < sender[s].at + AttemptTime
      BY <1>7 DEF Tick
    <2>2. \A s \in Senders : sender[s].pc # "idle" => sender[s].at \in Nat
      BY SenderTypes, <1>0
    <2>3. QED
      BY <2>1, <2>2 DEF TypeOK
  <1>8. CASE UNCHANGED <<sender, up, now>> /\ (up \/ UNCHANGED phase)
    BY <1>8
  <1>9. CASE StartProcess
    BY <1>9 DEF StartProcess
  <1>10. CASE \/ ListRetries \/ ListRetriesFails \/ RetriesDone
              \/ ListCandidates \/ ListCandidatesFails \/ CandidatesDone
    BY <1>8, <1>10 DEF ListRetries, ListRetriesFails, RetriesDone, ListCandidates,
      ListCandidatesFails, CandidatesDone
  <1>11. ASSUME NEW k \in Keys, Reconcile(k)
         PROVE  YoungAttempts'
    BY <1>8, <1>11 DEF Reconcile
  <1>12. ASSUME NEW u \in Users, Pause(u) \/ Resume(u) \/ Disable(u)
         PROVE  YoungAttempts'
    BY <1>8, <1>12 DEF Pause, Resume, Disable, SetStatus
  <1>13. QED
    BY <1>1, <1>3, <1>4, <1>5, <1>6, <1>7, <1>8, <1>9, <1>10, <1>11, <1>12
    DEF Next, Process, Admin, vars

(***************************************************************************)
(* A step of one goroutine on its row, or of anybody on other rows, leaves *)
(* the remaining attempts in flight in possession of theirs.               *)
(***************************************************************************)
LEMMA LiveKept ==
  ASSUME TypeOK, LiveInv,
         \A s \in Senders : Busy(s)' =>
           \/ Busy(s) /\ sender'[s].key = sender[s].key
                      /\ sender'[s].attempt = sender[s].attempt
                      /\ sender'[s].at = sender[s].at
                      /\ rows'[sender[s].key] = rows[sender[s].key]
           \/ /\ OwnsRow(rows'[sender'[s].key], sender'[s].attempt)
              /\ rows'[sender'[s].key].lease = sender'[s].at + Lease
  PROVE  LiveInv'
  BY DEF LiveInv, LiveAttemptOwnsRow, OwnsRow

LEMMA LiveStep ==
  ASSUME Timely, TypeOK, TimelyInv, [Next]_vars
  PROVE  LiveInv'
  <1> LiveInv
    BY TimelyParts
  <1> DEFINE Keeps(o) == /\ Busy(o) /\ sender'[o].key = sender[o].key
                         /\ sender'[o].attempt = sender[o].attempt
                         /\ sender'[o].at = sender[o].at
                         /\ rows'[sender[o].key] = rows[sender[o].key]
             Takes(o) == /\ OwnsRow(rows'[sender'[o].key], sender'[o].attempt)
                         /\ rows'[sender'[o].key].lease = sender'[o].at + Lease
  <1>0. (\A o \in Senders : Busy(o)' => Keeps(o) \/ Takes(o)) => LiveInv'
    BY LiveKept
  <1>i. Idle.pc = "idle"
    BY DEF Idle
  <1>k. \A o \in Senders : Busy(o) => sender[o].key \in Keys
    BY SenderTypes DEF Busy, TypeOK
  <1>1. ASSUME NEW s \in Senders, Reserve(s)
        PROVE  LiveInv'
    <2> DEFINE k == sender[s].key
    <2>1. ASSUME NEW o \in Senders \ {s}, Busy(o)'
          PROVE  Keeps(o)
      <3>1. Busy(o) /\ sender'[o] = sender[o]
        BY <1>1, <2>1, ReserveEffect DEF Busy
      <3>2. rows[sender[o].key].status = "pending"
        BY <3>1 DEF LiveInv, LiveAttemptOwnsRow, OwnsRow
      <3>3. rows'[sender[o].key] = rows[sender[o].key]
        <4>1. CASE sender[o].key = k
          BY <1>1, <3>1, <3>2, <4>1, ReserveEffect, OpenMeansUnsent
        <4>2. CASE sender[o].key # k
          BY <1>1, <1>k, <3>1, <4>2, ReserveEffect
        <4>3. QED
          BY <4>1, <4>2
      <3>4. QED
        BY <3>1, <3>3
    <2>2. ASSUME Busy(s)'
          PROVE  Takes(s)
      <3>1. /\ rows'[k] = Reserved(rows[k], sender[s].at)
            /\ sender'[s].key = k /\ sender'[s].at = sender[s].at
            /\ sender'[s].attempt = rows[k].attempt + 1
        BY <1>1, <1>i, <2>2, ReserveEffect DEF Busy
      <3>2. QED
        BY <3>1 DEF Reserved, OwnsRow
    <2>3. QED
      BY <1>0, <2>1, <2>2
  <1>2. ASSUME NEW s \in Senders, Send(s)
        PROVE  LiveInv'
    <2>1. \A o \in Senders : Busy(o)' => Keeps(o)
      BY <1>2, SendEffect DEF Busy
    <2>2. QED
      BY <1>0, <2>1
  <1>3. ASSUME NEW s \in Senders, ReserveFails(s) \/ Record(s) \/ RecordFails(s)
        PROVE  LiveInv'
    <2>1. ASSUME NEW o \in Senders, Busy(o)'
          PROVE  Keeps(o)
      <3>1. o # s /\ Busy(o) /\ sender'[o] = sender[o]
        BY <1>3, <1>i, <2>1, EndEffect DEF Busy
      <3>2. CASE rows' = rows
        BY <3>1, <3>2
      <3>3. CASE Busy(s)
        BY <1>3, <1>k, <3>1, <3>3, EndEffect, OneSenderPerKey
      <3>4. QED
        BY <1>3, <3>2, <3>3, EndEffect DEF Busy
    <2>2. QED
      BY <1>0, <2>1
  <1>4. ASSUME NEW s \in Senders, NEW k \in Keys, Begin(s, k), UNCHANGED rows
        PROVE  LiveInv'
    <2>1. /\ \A o \in Senders \ {s} : sender'[o] = sender[o]
          /\ ~Busy(s)'
      BY <1>4 DEF Begin, Busy, TypeOK, Idle
    <2>2. \A o \in Senders : Busy(o)' => Keeps(o)
      BY <1>4, <2>1 DEF Busy
    <2>3. QED
      BY <1>0, <2>2
  <1>5. ASSUME NEW w \in Workers, Take(w)
        PROVE  LiveInv'
    BY <1>4, <1>5 DEF Take, Senders, TypeOK
  <1>6. ASSUME NEW k \in Keys, Remind(k)
        PROVE  LiveInv'
    BY <1>4, <1>6 DEF Remind, Senders
  <1>7. CASE StartProcess
    <2>1. \A o \in Senders : Busy(o) => ~LeaseExpired(rows[sender[o].key], now)
      BY LiveLeaseHolds
    <2>2. \A o \in Senders : Busy(o)' => Keeps(o)
      BY <1>7, <1>k, <2>1 DEF StartProcess, Busy
    <2>3. QED
      BY <1>0, <2>2
  <1>8. CASE Restart
    <2>1. \A o \in Senders : ~Busy(o)'
      BY <1>8 DEF Restart, TimelyInv, YoungAttempts, Busy
    <2>2. QED
      BY <1>0, <2>1
  <1>9. CASE Crash
    BY <1>0, <1>9, <1>i DEF Crash, Busy
  <1>10. ASSUME NEW k \in Keys, Reconcile(k)
         PROVE  LiveInv'
    <2>1. ASSUME NEW o \in Senders, Busy(o)
          PROVE  sender[o].key # k
      BY <1>10, <2>1 DEF Reconcile, CanReopen, LiveInv, LiveAttemptOwnsRow, OwnsRow
    <2>2. /\ sender' = sender
          /\ \A x \in Keys \ {k} : rows'[x] = rows[x]
      BY <1>10 DEF Reconcile, TypeOK
    <2>3. \A o \in Senders : Busy(o)' => Keeps(o)
      BY <1>k, <2>1, <2>2 DEF Busy
    <2>4. QED
      BY <1>0, <2>3
  <1>11. CASE UNCHANGED <<rows, sender>>
    <2>1. \A o \in Senders : Busy(o)' => Keeps(o)
      BY <1>11 DEF Busy
    <2>2. QED
      BY <1>0, <2>1
  <1>12. QED
    BY <1>1, <1>2, <1>3, <1>5, <1>6, <1>7, <1>8, <1>9, <1>10, <1>11
    DEF Next, Deliver, Process, Admin, ListRetries, ListRetriesFails, RetriesDone,
        ListCandidates, ListCandidatesFails, CandidatesDone, Pause, Resume, Disable,
        SetStatus, Tick, vars

(* What the row statements write, as far as the chat is concerned. *)
LEMMA WrittenRows ==
  ASSUME NEW row \in Row, NEW t \in Nat
  PROVE  /\ Reserved(row, t).status = "pending"
         /\ row.status = "pending" =>
              /\ Ambiguous(row).status = "failed" /\ Ambiguous(row).error = "unknown"
              /\ Ambiguous(row).attempt = row.attempt
              /\ \A r \in Results :
                   /\ Recorded(row, r, t).status = (IF r = "sent" THEN "sent" ELSE "failed")
                   /\ Recorded(row, r, t).error = (IF r = "sent" THEN Null ELSE r)
                   /\ Recorded(row, r, t).attempt = row.attempt
         /\ CanReopen(row) =>
              /\ Reopened(row, t).status = "failed" /\ Reopened(row, t).error = "retryable"
              /\ Reopened(row, t).attempt = row.attempt
  <1>1. Reserved(row, t).status = "pending"
    BY DEF Reserved
  <1>2. row # NoRow =>
          row \in [status : {"pending", "sent", "failed"}, error : Codes \union {Null},
                   attempt : Attempts, lease : Nat \union {Null}, next : Nat \union {Null}]
    BY DEF Row
  <1>3. row.status = "pending" \/ CanReopen(row) => row # NoRow
    BY DEF NoRow, CanReopen
  <1>4. row.status = "pending" =>
          /\ Ambiguous(row).status = "failed" /\ Ambiguous(row).error = "unknown"
          /\ Ambiguous(row).attempt = row.attempt
    BY <1>2, <1>3 DEF Ambiguous
  <1>5. ASSUME NEW r \in Results, row.status = "pending"
        PROVE  /\ Recorded(row, r, t).status = (IF r = "sent" THEN "sent" ELSE "failed")
               /\ Recorded(row, r, t).error = (IF r = "sent" THEN Null ELSE r)
               /\ Recorded(row, r, t).attempt = row.attempt
    BY <1>2, <1>3, <1>5 DEF Recorded
  <1>6. CanReopen(row) =>
          /\ Reopened(row, t).status = "failed" /\ Reopened(row, t).error = "retryable"
          /\ Reopened(row, t).attempt = row.attempt
    BY <1>2, <1>3 DEF CanReopen, Reopened
  <1>7. QED
    BY <1>1, <1>4, <1>5, <1>6

(***************************************************************************)
(* When chats and goroutines stay as they are, rows may change as long as  *)
(* none is reopened that has a message.                                    *)
(***************************************************************************)
LEMMA ChatRows ==
  ASSUME TypeOK, ChatInv, got' = got,
         \A s \in Senders : \/ sender'[s] = sender[s]
                            \/ sender'[s].pc \in {"idle", "reserve"}
                            \/ sender'[s].pc = "send" /\ got[sender'[s].key] = {},
         \A k \in Keys : \/ rows'[k] = rows[k]
                         \/ /\ rows'[k].status # "none"
                            /\ rows'[k].status = "failed" /\ rows'[k].error = "retryable"
                                 => got[k] = {}
  PROVE  ChatInv'
  <1>1. SenderKnowsChat'
    BY DEF ChatInv, SenderKnowsChat
  <1>2. OpenRowIsUnsent'
    BY DEF ChatInv, OpenRowIsUnsent
  <1>3. AtMostOneMessage'
    BY DEF ChatInv, AtMostOneMessage
  <1>4. QED
    BY <1>1, <1>2, <1>3 DEF ChatInv

LEMMA ChatStep ==
  ASSUME TypeOK, TimelyInv, [Next]_vars
  PROVE  ChatInv'
  <1> ChatInv
    BY TimelyParts
  <1>i. Idle.pc = "idle"
    BY DEF Idle
  <1>t. now \in Nat /\ \A k \in Keys : rows[k] \in Row
    BY DEF TypeOK
  <1>1. ASSUME NEW s \in Senders, Reserve(s)
        PROVE  ChatInv'
    <2>1. rows[sender[s].key] \in Row
      BY <1>1, <1>t, ReserveEffect
    <2>2. \/ sender'[s] = Idle
          \/ sender'[s].pc = "send" /\ got[sender'[s].key] = {}
      BY <1>1, ReserveEffect, OpenMeansUnsent
    <2>3. \A k \in Keys : rows'[k] = rows[k] \/ rows'[k].status = "pending"
      BY <1>1, <2>1, ReserveEffect, WrittenRows
    <2>4. QED
      BY <1>1, <1>i, <2>2, <2>3, ReserveEffect, ChatRows
  <1>2. ASSUME NEW s \in Senders, Send(s)
        PROVE  ChatInv'
    <2> DEFINE k == sender[s].key
    <2>1. k \in Keys /\ got[k] = {} /\ rows[k].status = "pending"
      BY <1>2, SendEffect DEF ChatInv, SenderKnowsChat, TimelyInv, LiveAttemptOwnsRow, OwnsRow, Busy
    <2>2. \A x \in Keys : \A a, b \in got'[x] : a = b
      BY <1>2, <2>1, SendEffect DEF ChatInv, AtMostOneMessage
    <2>3. \A x \in Keys : rows'[x].status \in {"none", "failed"} => got'[x] = got[x]
      BY <1>2, <2>1, SendEffect
    <2>4. ASSUME NEW o \in Senders, Busy(o)', o # s
          PROVE  sender'[o] = sender[o] /\ got'[sender[o].key] = got[sender[o].key]
      <3>1. Busy(o) /\ Busy(s) /\ sender'[o] = sender[o] /\ sender[o].key \in Keys
        BY <1>2, <2>4, SendEffect, SenderTypes DEF Busy, TypeOK
      <3>2. sender[o].key # k
        BY <2>4, <3>1, OneSenderPerKey
      <3>3. QED
        BY <1>2, <3>1, <3>2, SendEffect
    <2>5. SenderKnowsChat'
      <3>1. ASSUME NEW o \in Senders, o # s
            PROVE  /\ sender'[o].pc = "send" => got'[sender'[o].key] = {}
                   /\ sender'[o].pc = "record" /\ sender'[o].result \in {"retryable", "unreachable"}
                        => got'[sender'[o].key] = {}
        BY <2>4, <3>1 DEF ChatInv, SenderKnowsChat, Busy
      <3>2. /\ sender'[s].pc = "record"
            /\ sender'[s].result \in {"retryable", "unreachable"} => got'[sender'[s].key] = {}
        BY <1>2, <2>1, SendEffect
      <3>3. QED
        BY <3>1, <3>2 DEF SenderKnowsChat
    <2>6. rows' = rows
      BY <1>2, SendEffect
    <2>7. QED
      BY <2>2, <2>3, <2>5, <2>6 DEF ChatInv, AtMostOneMessage, OpenRowIsUnsent
  <1>3. ASSUME NEW s \in Senders, ReserveFails(s) \/ Record(s) \/ RecordFails(s)
        PROVE  ChatInv'
    <2> DEFINE k == sender[s].key
    <2>1. ASSUME sender[s].pc = "record", sender[s].result \in Results,
                 OwnsRow(rows[k], sender[s].attempt),
                 rows'[k] = Recorded(rows[k], sender[s].result, now)
          PROVE  /\ rows'[k].status # "none"
                 /\ rows'[k].status = "failed" /\ rows'[k].error = "retryable" => got[k] = {}
      <3>1. k \in Keys /\ rows[k].status = "pending"
        BY <1>3, <2>1, EndEffect DEF OwnsRow
      <3>2. /\ rows'[k].status = (IF sender[s].result = "sent" THEN "sent" ELSE "failed")
            /\ rows'[k].error = (IF sender[s].result = "sent" THEN Null ELSE sender[s].result)
        BY <1>t, <2>1, <3>1, WrittenRows
      <3>3. QED
        BY <2>1, <3>2 DEF ChatInv, SenderKnowsChat
    <2>2. QED
      BY <1>3, <1>i, <2>1, EndEffect, ChatRows
  <1>4. ASSUME NEW s \in Senders, NEW k \in Keys, Begin(s, k), UNCHANGED <<rows, got>>
        PROVE  ChatInv'
    <2>1. /\ \A o \in Senders \ {s} : sender'[o] = sender[o]
          /\ sender'[s].pc = "reserve"
      BY <1>4 DEF Begin, TypeOK, Idle
    <2>2. QED
      BY <1>4, <2>1, ChatRows
  <1>5. ASSUME NEW w \in Workers, Take(w)
        PROVE  ChatInv'
    BY <1>4, <1>5 DEF Take, Senders, TypeOK
  <1>6. ASSUME NEW k \in Keys, Remind(k)
        PROVE  ChatInv'
    BY <1>4, <1>6 DEF Remind, Senders
  <1>7. CASE StartProcess \/ Restart
    <2>1. \A k \in Keys : \/ rows'[k] = rows[k]
                          \/ rows[k].status = "pending" /\ rows'[k] = Ambiguous(rows[k])
      BY <1>7 DEF StartProcess, Restart, LeaseExpired, Interrupted
    <2>2. \A k \in Keys : \/ rows'[k] = rows[k]
                          \/ rows'[k].status = "failed" /\ rows'[k].error = "unknown"
      BY <1>t, <2>1, WrittenRows
    <2>3. got' = got /\ sender' = sender
      BY <1>7 DEF StartProcess, Restart
    <2>4. QED
      BY <2>2, <2>3, ChatRows
  <1>8. CASE Crash
    BY <1>8, <1>i, ChatRows DEF Crash
  <1>9. ASSUME NEW k \in Keys, Reconcile(k)
        PROVE  ChatInv'
    <2>1. /\ got' = got /\ sender' = sender /\ got[k] = {}
          /\ \A x \in Keys \ {k} : rows'[x] = rows[x]
          /\ rows'[k].status = "failed"
      BY <1>9, <1>t, WrittenRows DEF Reconcile, TypeOK
    <2>2. QED
      BY <2>1, ChatRows
  <1>10. CASE UNCHANGED <<rows, sender, got>>
    BY <1>10, ChatRows
  <1>11. QED
    BY <1>1, <1>2, <1>3, <1>5, <1>6, <1>7, <1>8, <1>9, <1>10
    DEF Next, Deliver, Process, Admin, ListRetries, ListRetriesFails, RetriesDone,
        ListCandidates, ListCandidatesFails, CandidatesDone, Pause, Resume, Disable,
        SetStatus, Tick, vars

(***************************************************************************)
(* When an attempt cannot outlive its lease, the whole argument is         *)
(* inductive: fencing, live leases, young attempts, and truthful rows.     *)
(***************************************************************************)
THEOREM TimelyHolds ==
  ASSUME Timely
  PROVE  Spec => []TimelyInv
  <1>1. Init => TimelyInv
    BY DEF Init, TimelyInv, FenceInv, OneSenderPerAttempt, SentIsTrue, LiveAttemptOwnsRow,
           YoungAttempts, SenderKnowsChat, OpenRowIsUnsent, AtMostOneMessage, Busy, Idle, NoRow
  <1>2. TypeOK /\ TimelyInv /\ [Next]_vars => TimelyInv'
    <2> SUFFICES ASSUME TypeOK, TimelyInv, [Next]_vars
                 PROVE  TimelyInv'
      OBVIOUS
    <2>1. FenceInv /\ YoungAttempts
      BY DEF TimelyInv
    <2>2. FenceInv'
      BY <2>1, FenceStep
    <2>3. YoungAttempts'
      BY <2>1, AgeStep
    <2>4. LiveInv'
      BY LiveStep
    <2>5. ChatInv'
      BY ChatStep
    <2>6. QED
      BY <2>2, <2>3, <2>4, <2>5 DEF TimelyInv, LiveInv, ChatInv
  <1>3. QED
    BY <1>1, <1>2, TypeCorrect, PTL DEF Spec

(***************************************************************************)
(* No recovery pass takes the row of a live attempt away from it.          *)
(***************************************************************************)
THEOREM LiveAttemptsOwnTheirRows ==
  ASSUME Timely
  PROVE  Spec => []LiveAttemptOwnsRow
  <1>1. TimelyInv => LiveAttemptOwnsRow
    BY DEF TimelyInv
  <1>2. QED
    BY <1>1, TimelyHolds, PTL

(* Every delivery key puts at most one message in the customer's chat. *)
THEOREM OneMessagePerKey ==
  ASSUME Timely
  PROVE  Spec => []AtMostOneMessage
  <1>1. TimelyInv => AtMostOneMessage
    BY DEF TimelyInv
  <1>2. QED
    BY <1>1, TimelyHolds, PTL

(* A row is open for another attempt only while its chat has no message. *)
THEOREM OpenRowsAreUnsent ==
  ASSUME Timely
  PROVE  Spec => []OpenRowIsUnsent
  <1>1. TimelyInv => OpenRowIsUnsent
    BY DEF TimelyInv
  <1>2. QED
    BY <1>1, TimelyHolds, PTL

-----------------------------------------------------------------------------
(* The contract. *)

(* A step on one row is a step on one stage. *)
LEMMA OneStage ==
  ASSUME NEW k \in Keys, \A x \in Keys \ {k} : rows'[x] = rows[x]
  PROVE  [x \in Keys |-> Stage(rows[x])]' =
         [[x \in Keys |-> Stage(rows[x])] EXCEPT ![k] = Stage(rows'[k])]
  OBVIOUS

(* The stages of the rows that the statements read and write. *)
LEMMA RowStages ==
  ASSUME NEW row \in Row, NEW t \in Nat
  PROVE  /\ CanReserve(row, t) => Stage(row) \in {"new", "refused"}
         /\ Stage(Reserved(row, t)) = "sending"
         /\ row.status = "pending" => /\ Stage(row) = "sending"
                                      /\ Stage(Ambiguous(row)) = "ambiguous"
         /\ CanReopen(row) => /\ Stage(row) = "ambiguous"
                              /\ Stage(Reopened(row, t)) = "refused"
  BY WrittenRows DEF CanReserve, Due, CanReopen, Retryable, Stage

(* The stage that a recorded answer leads to. *)
LEMMA RecordedStages ==
  ASSUME NEW row \in Row, NEW t \in Nat, NEW r \in Results, row.status = "pending"
  PROVE  /\ r = "sent" => Stage(Recorded(row, r, t)) = "sent"
         /\ r = "unknown" => Stage(Recorded(row, r, t)) = "ambiguous"
         /\ r = "retryable" => Stage(Recorded(row, r, t)) \in {"refused", "closed"}
         /\ r \in {"failed", "unreachable"} => Stage(Recorded(row, r, t)) = "closed"
  BY WrittenRows DEF Stage, Retryable

(***************************************************************************)
(* Every step is a step of the contract or leaves its variables alone.     *)
(***************************************************************************)
LEMMA ContractStep ==
  ASSUME TypeOK, TimelyInv, [Next]_vars
  PROVE  [Contract!Next]_(Contract!vars)
  <1> DEFINE stage == [k \in Keys |-> Stage(rows[k])]
  <1>s. stage = [k \in Keys |-> Stage(rows[k])]
    OBVIOUS
  <1>t. now \in Nat /\ \A k \in Keys : rows[k] \in Row
    BY DEF TypeOK
  <1>u. (rows' = rows /\ got' = got) => [Contract!Next]_(Contract!vars)
    BY DEF Contract!vars
  <1>m. ASSUME NEW k \in Keys, \A x \in Keys \ {k} : rows'[x] = rows[x], got' = got
        PROVE  stage' = [stage EXCEPT ![k] = Stage(rows'[k])] /\ stage[k] = Stage(rows[k])
    BY <1>m, OneStage
  <1> HIDE DEF stage
  <1>1. ASSUME NEW s \in Senders, Reserve(s)
        PROVE  [Contract!Next]_(Contract!vars)
    <2> DEFINE k == sender[s].key
    <2>1. CASE CanReserve(rows[k], sender[s].at) /\ rows'[k] = Reserved(rows[k], sender[s].at)
      <3>1. k \in Keys /\ sender[s].at \in Nat /\ got' = got
            /\ \A x \in Keys \ {k} : rows'[x] = rows[x]
        BY <1>1, ReserveEffect
      <3>2. Stage(rows[k]) \in {"new", "refused"} /\ Stage(rows'[k]) = "sending"
        BY <1>t, <2>1, <3>1, RowStages
      <3>3. stage' = [stage EXCEPT ![k] = "sending"] /\ stage[k] \in {"new", "refused"}
        BY <1>m, <3>1, <3>2
      <3>4. Contract!Begin(k)
        BY <3>1, <3>3, <1>s DEF Contract!Begin, Contract!Move, stage
      <3>5. QED
        BY <3>1, <3>4 DEF Contract!Next
    <2>2. CASE rows' = rows
      BY <1>1, <1>u, <2>2, ReserveEffect
    <2>3. QED
      BY <1>1, <2>1, <2>2, ReserveEffect
  <1>2. ASSUME NEW s \in Senders, Send(s)
        PROVE  [Contract!Next]_(Contract!vars)
    <2> DEFINE k == sender[s].key
    <2>1. /\ k \in Keys /\ rows' = rows /\ got[k] = {} /\ rows[k].status = "pending"
          /\ sender[s].attempt \in Attempts
      BY <1>2, SendEffect DEF TimelyInv, SenderKnowsChat, LiveAttemptOwnsRow, OwnsRow, Busy
    <2>2. /\ got \in [Keys -> SUBSET Attempts] /\ DOMAIN got' = Keys
      BY <1>2 DEF TypeOK, Send
    <2>3. CASE got'[k] = got[k]
      <3>1. \A x \in Keys : got'[x] = got[x]
        BY <1>2, <2>3, SendEffect
      <3>2. got' = got
        BY <1>2, <2>2, <3>1 DEF Send
      <3>3. QED
        BY <1>u, <2>1, <3>2
    <2>4. CASE got'[k] = got[k] \union {sender[s].attempt}
      <3>1. got'[k] = {sender[s].attempt} /\ \A x \in Keys \ {k} : got'[x] = got[x]
        BY <1>2, <2>1, <2>4, SendEffect
      <3>2. got' = [got EXCEPT ![k] = {sender[s].attempt}]
        BY <1>2, <2>1, <2>2, <3>1 DEF Send
      <3>3. stage[k] = "sending" /\ stage' = stage
        BY <1>t, <2>1, RowStages DEF stage
      <3>4. Contract!Arrive(k)
        BY <2>1, <3>2, <3>3 DEF Contract!Arrive, stage
      <3>5. QED
        BY <2>1, <3>4 DEF Contract!Next
    <2>5. QED
      BY <1>2, <2>3, <2>4, SendEffect
  <1>3. ASSUME NEW s \in Senders, ReserveFails(s) \/ Record(s) \/ RecordFails(s)
        PROVE  [Contract!Next]_(Contract!vars)
    <2> DEFINE k == sender[s].key
               r == sender[s].result
    <2>1. ASSUME sender[s].pc = "record", r \in Results, OwnsRow(rows[k], sender[s].attempt),
                 rows'[k] = Recorded(rows[k], r, now)
          PROVE  [Contract!Next]_(Contract!vars)
      <3>1. k \in Keys /\ got' = got /\ \A x \in Keys \ {k} : rows'[x] = rows[x]
        BY <1>3, EndEffect
      <3>2. rows[k] \in Row /\ rows[k].status = "pending"
        BY <1>t, <2>1, <3>1 DEF OwnsRow
      <3>3. stage' = [stage EXCEPT ![k] = Stage(rows'[k])] /\ stage[k] = "sending"
        BY <1>t, <1>m, <3>1, <3>2, RowStages
      <3>4. CASE r = "sent"
        <4>1. got[k] # {}
          BY <2>1, <3>4 DEF TimelyInv, FenceInv
        <4>s. Stage(rows'[k]) = "sent"
          BY <1>t, <2>1, <3>2, <3>4, RecordedStages
        <4>2. Contract!Confirm(k)
          BY <3>1, <3>3, <4>1, <4>s
          DEF Contract!Confirm, Contract!Move, stage
        <4>3. QED
          BY <3>1, <4>2 DEF Contract!Next
      <3>5. CASE r = "unknown"
        <4>1. Stage(rows'[k]) = "ambiguous"
          BY <1>t, <2>1, <3>2, <3>5, RecordedStages
        <4>2. stage' = [x \in Keys |-> IF x \in {k} THEN "ambiguous" ELSE stage[x]]
          BY <3>3, <4>1 DEF stage
        <4>3. Contract!Doubt({k})
          BY <3>1, <3>3, <4>2 DEF Contract!Doubt, stage
        <4>4. QED
          BY <3>1, <4>3 DEF Contract!Next
      <3>6. CASE r = "retryable"
        <4>1. got[k] = {}
          BY <2>1, <3>6 DEF TimelyInv, SenderKnowsChat
        <4>2. Stage(rows'[k]) \in {"refused", "closed"}
          BY <1>t, <2>1, <3>2, <3>6, RecordedStages
        <4>3. Contract!Refuse(k) \/ Contract!Close(k)
          BY <3>1, <3>3, <4>1, <4>2
          DEF Contract!Refuse, Contract!Close, Contract!Move, stage
        <4>4. QED
          BY <3>1, <4>3 DEF Contract!Next
      <3>7. CASE r \in {"failed", "unreachable"}
        <4>1. Stage(rows'[k]) = "closed"
          BY <1>t, <2>1, <3>2, <3>7, RecordedStages
        <4>2. Contract!Close(k)
          BY <3>1, <3>3, <4>1 DEF Contract!Close, Contract!Move, stage
        <4>3. QED
          BY <3>1, <4>2 DEF Contract!Next
      <3>8. QED
        BY <2>1, <3>4, <3>5, <3>6, <3>7 DEF Results, Codes
    <2>2. CASE rows' = rows
      BY <1>3, <1>u, <2>2, EndEffect
    <2>3. QED
      BY <1>3, <2>1, <2>2, EndEffect
  <1>4. CASE StartProcess \/ Restart
    <2> DEFINE lost == {k \in Keys : rows[k].status = "pending" /\ rows'[k] = Ambiguous(rows[k])}
    <2>1. got' = got /\ \A k \in Keys \ lost : rows'[k] = rows[k]
      BY <1>4 DEF StartProcess, Restart, LeaseExpired, Interrupted
    <2>2. \A k \in lost : Stage(rows[k]) = "sending" /\ Stage(rows'[k]) = "ambiguous"
      BY <1>t, RowStages
    <2>3. stage' = [k \in Keys |-> IF k \in lost THEN "ambiguous" ELSE stage[k]]
      BY <2>1, <2>2 DEF stage
    <2>4. Contract!Doubt(lost)
      BY <2>1, <2>2, <2>3 DEF Contract!Doubt, stage
    <2>5. QED
      BY <2>4 DEF Contract!Next
  <1>5. ASSUME NEW k \in Keys, Reconcile(k)
        PROVE  [Contract!Next]_(Contract!vars)
    <2>1. /\ got' = got /\ got[k] = {} /\ CanReopen(rows[k])
          /\ \A x \in Keys \ {k} : rows'[x] = rows[x]
          /\ rows'[k] = Reopened(rows[k], now)
      BY <1>5 DEF Reconcile, TypeOK
    <2>2. stage' = [stage EXCEPT ![k] = "refused"] /\ stage[k] = "ambiguous"
      BY <1>t, <1>m, <2>1, RowStages
    <2>3. Contract!Reopen(k)
      BY <2>1, <2>2 DEF Contract!Reopen, Contract!Move, stage
    <2>4. QED
      BY <2>3 DEF Contract!Next
  <1>6. CASE UNCHANGED <<rows, got>>
    BY <1>6, <1>u
  <1>7. QED
    BY <1>1, <1>2, <1>3, <1>4, <1>5, <1>6
    DEF Next, Deliver, Process, Admin, ListRetries, ListRetriesFails, RetriesDone,
        ListCandidates, ListCandidatesFails, CandidatesDone, Take, Remind, Pause, Resume,
        Disable, SetStatus, Crash, Tick, vars

(***************************************************************************)
(* Reminder delivery implements its contract, for any number of customers, *)
(* keys, workers, attempts, crashes and expiries.                          *)
(***************************************************************************)
THEOREM ImplementsContract ==
  ASSUME Timely
  PROVE  Spec => KeepsContract
  <1>1. Init => Contract!Init
    <2>1. Stage(NoRow) = "new"
      <3>1. NoRow.status = "none"
        BY DEF NoRow
      <3>2. QED
        BY <3>1 DEF Stage, Retryable
    <2>2. QED
      BY <2>1 DEF Init, Contract!Init
  <1>2. TypeOK /\ TimelyInv /\ [Next]_vars => [Contract!Next]_(Contract!vars)
    BY ContractStep
  <1>3. QED
    BY <1>1, <1>2, TypeCorrect, TimelyHolds, PTL DEF Spec, KeepsContract, Contract!Spec
=============================================================================
