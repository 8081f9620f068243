---------------------------- MODULE AuditorProofs ----------------------------
(***************************************************************************)
(* What TLAPS proves of Auditor: for any size of batch, any topic and any  *)
(* number of restarts.                                                     *)
(***************************************************************************)
EXTENDS Auditor, SequenceTheorems, TLAPS

\* The batch in hand, if there is one, lies within the topic: the topic only
\* grows behind it.
BatchInv == lastSeq + Len(events) <= Len(log)

IInv == TypeOK /\ AuditsAPrefix /\ CursorExact /\ BatchInv

-----------------------------------------------------------------------------
\* The size of a batch: what the topic holds behind the cursor, or the count
\* asked for.
LEMMA MinOfTwo ==
  ASSUME NEW a \in Nat, NEW b \in Nat
  PROVE  /\ Min({a, b}) \in Nat
         /\ Min({a, b}) <= a /\ Min({a, b}) <= b
  <1>1. \E x \in {a, b} : \A y \in {a, b} : x <= y
    OBVIOUS
  <1> QED
    BY <1>1 DEF Min

LEMMA VerdictType ==
  ASSUME NEW seq \in Nat, NEW e \in Event
  PROVE  VerdictOf(seq, e) \in Verdict
  BY DEF VerdictOf, Verdict, Event

LEMMA InitInv == Init => IInv
  <1> SUFFICES ASSUME Init PROVE IInv
    OBVIOUS
  <1>0. <<>> \in Seq(Event) /\ <<>> \in Seq(Delivered) /\ <<>> \in Seq(Verdict)
    BY EmptySeq
  <1>1. TypeOK
    BY <1>0 DEF Init, TypeOK
  <1>2. /\ log = <<>> /\ events = <<>> /\ reports = <<>> /\ lastSeq = 0
        /\ Len(<<>>) = 0 /\ DOMAIN <<>> = {}
    BY DEF Init
  <1>3. AuditsAPrefix /\ CursorExact /\ BatchInv
    BY <1>2 DEF AuditsAPrefix, CursorExact, BatchInv
  <1> QED
    BY <1>1, <1>3 DEF IInv

\* An event appended to the topic leaves those before it in their places.
LEMMA CommitStep == IInv /\ Commit => IInv'
  <1> SUFFICES ASSUME IInv, NEW e \in Event, log' = Append(log, e),
                      UNCHANGED <<pc, lastSeq, events, polled, reports, restarts>>
               PROVE  IInv'
    BY DEF Commit
  <1>1. /\ log \in Seq(Event) /\ log' \in Seq(Event)
        /\ Len(log) \in Nat /\ Len(log') = Len(log) + 1
        /\ \A k \in 1 .. Len(log) : log'[k] = log[k]
    BY DEF IInv, TypeOK
  <1>2. /\ lastSeq \in Nat /\ Len(events) \in Nat /\ DOMAIN events = 1 .. Len(events)
        /\ Len(reports) \in Nat /\ DOMAIN reports = 1 .. Len(reports)
    BY DEF IInv, TypeOK
  <1>3. TypeOK'
    BY <1>1 DEF IInv, TypeOK
  <1>4. AuditsAPrefix' /\ BatchInv'
    BY <1>1, <1>2 DEF IInv, AuditsAPrefix, BatchInv
  <1>5. \A k \in DOMAIN events : lastSeq + k \in 1 .. Len(log)
    BY <1>1, <1>2 DEF IInv, BatchInv
  <1>6. CursorExact'
    BY <1>1, <1>2, <1>5 DEF IInv, CursorExact
  <1> QED
    BY <1>3, <1>4, <1>6 DEF IInv

\* A new batch begins behind the cursor and ends within the topic.
LEMMA ConsumeStep == IInv /\ Consume => IInv'
  <1> SUFFICES ASSUME IInv, Consume PROVE IInv'
    OBVIOUS
  <1> DEFINE size == Min({BatchSize, Len(log) - lastSeq})
  <1>1. /\ log \in Seq(Event) /\ Len(log) \in Nat /\ lastSeq \in Nat
        /\ lastSeq <= Len(log)
    BY DEF IInv, TypeOK, BatchInv, CursorExact, AuditsAPrefix
  <1>2. /\ size \in Nat
        /\ size <= Len(log) - lastSeq
    BY <1>1, MinOfTwo, AuditorAssumption
  <1>3. events' = [k \in 1 .. size |-> [seq |-> lastSeq + k, event |-> log[lastSeq + k]]]
    BY DEF Consume
  <1> HIDE DEF size
  <1>4. \A k \in 1 .. size : [seq |-> lastSeq + k, event |-> log[lastSeq + k]] \in Delivered
    BY <1>1, <1>2 DEF Delivered
  <1>5. events' \in Seq(Delivered) /\ Len(events') = size
    BY <1>2, <1>3, <1>4, IsASeq
  <1>6. polled' \in BOOLEAN /\ pc' = "consume"
    BY DEF Consume
  <1>7. TypeOK'
    BY <1>5, <1>6 DEF IInv, TypeOK, Consume
  <1>8. CursorExact'
    BY <1>3 DEF IInv, CursorExact, Consume
  <1>9. BatchInv'
    <2>1. UNCHANGED <<log, lastSeq>>
      BY DEF Consume
    <2> QED
      BY <1>1, <1>2, <1>5, <2>1 DEF BatchInv
  <1>10. AuditsAPrefix'
    BY DEF IInv, AuditsAPrefix, Consume
  <1> QED
    BY <1>7, <1>8, <1>9, <1>10 DEF IInv

\* One turn of the loop: the event in hand is the one behind the cursor.
LEMMA AuditStep == IInv /\ Audit => IInv'
  <1> SUFFICES ASSUME IInv, Audit PROVE IInv'
    OBVIOUS
  <1> DEFINE d == Head(events)
             v == VerdictOf(d.seq, d.event)
  <1>1. /\ log \in Seq(Event) /\ Len(log) \in Nat /\ lastSeq \in Nat
        /\ events \in Seq(Delivered) /\ events # <<>> /\ Len(events) \in Nat
        /\ reports \in Seq(Verdict) /\ Len(reports) = lastSeq
        /\ lastSeq + Len(events) <= Len(log)
    BY DEF IInv, TypeOK, CursorExact, BatchInv, Audit
  <1>2. /\ Len(events) >= 1 /\ d = events[1] /\ d \in Delivered
        /\ events' \in Seq(Delivered) /\ Len(events') = Len(events) - 1
        /\ \A k \in 1 .. Len(events') : events'[k] = events[k + 1]
    BY <1>1 DEF Audit
  <1>3. d = [seq |-> lastSeq + 1, event |-> log[lastSeq + 1]]
    BY <1>1, <1>2 DEF IInv, CursorExact
  <1>4. lastSeq' = lastSeq + 1
    BY <1>3 DEF Audit
  <1>5. reports' = Append(reports, v) /\ v = VerdictOf(lastSeq + 1, log[lastSeq + 1])
    BY <1>3 DEF Audit
  <1> HIDE DEF d, v
  <1>6. v \in Verdict
    BY <1>1, <1>2, <1>5, VerdictType
  <1>7. /\ reports' \in Seq(Verdict) /\ Len(reports') = lastSeq + 1
        /\ DOMAIN reports' = 1 .. lastSeq + 1
        /\ \A n \in 1 .. lastSeq : reports'[n] = reports[n]
        /\ reports'[lastSeq + 1] = v
    BY <1>1, <1>5, <1>6
  <1>8. UNCHANGED <<log, pc, polled, restarts>>
    BY DEF Audit
  <1>9. TypeOK'
    BY <1>1, <1>2, <1>4, <1>7, <1>8 DEF IInv, TypeOK
  <1>10. AuditsAPrefix'
    <2>1. Len(reports') <= Len(log')
      BY <1>1, <1>2, <1>7, <1>8
    <2>2. ASSUME NEW n \in DOMAIN reports'
          PROVE  reports'[n] = VerdictOf(n, log[n])
      <3>1. CASE n = lastSeq + 1
        BY <3>1, <1>5, <1>7
      <3>2. CASE n \in 1 .. lastSeq
        BY <3>2, <1>1, <1>7 DEF IInv, AuditsAPrefix
      <3> QED
        BY <3>1, <3>2, <1>1, <1>7
    <2> QED
      BY <2>1, <2>2, <1>8 DEF AuditsAPrefix
  <1>11. CursorExact'
    <2>1. ASSUME NEW k \in DOMAIN events'
          PROVE  events'[k] = [seq |-> lastSeq' + k, event |-> log[lastSeq' + k]]
      <3>1. k \in 1 .. Len(events') /\ k + 1 \in DOMAIN events
        BY <1>1, <1>2
      <3>2. events'[k] = [seq |-> lastSeq + (k + 1), event |-> log[lastSeq + (k + 1)]]
        BY <3>1, <1>2 DEF IInv, CursorExact
      <3> QED
        BY <3>1, <3>2, <1>1, <1>4
    <2> QED
      BY <2>1, <1>4, <1>7, <1>8 DEF CursorExact
  <1>12. BatchInv'
    BY <1>1, <1>2, <1>4, <1>8 DEF BatchInv
  <1> QED
    BY <1>9, <1>10, <1>11, <1>12 DEF IInv

\* The other steps move main() along, or take the process' memory whole.
LEMMA OtherSteps ==
  IInv /\ (TopicChecked \/ Resume \/ BatchDone \/ Wake \/ Fail \/ Restart \/ UNCHANGED vars)
    => IInv'
  <1> SUFFICES ASSUME IInv PROVE
        (TopicChecked \/ Resume \/ BatchDone \/ Wake \/ Fail \/ Restart \/ UNCHANGED vars) => IInv'
    OBVIOUS
  <1>1. CASE UNCHANGED <<log, lastSeq, events, reports>> /\ TypeOK'
    BY <1>1 DEF IInv, AuditsAPrefix, CursorExact, BatchInv
  <1>2. TopicChecked \/ Resume \/ BatchDone \/ Wake \/ Restart \/ UNCHANGED vars
          => UNCHANGED <<log, lastSeq, events, reports>> /\ TypeOK'
    BY DEF IInv, TypeOK, TopicChecked, Resume, BatchDone, Wake, Restart, vars
  <1>3. CASE Fail
    <2>0. <<>> \in Seq(Delivered) /\ <<>> \in Seq(Verdict)
      BY EmptySeq
    <2>1. TypeOK'
      BY <1>3, <2>0 DEF IInv, TypeOK, Fail
    <2>2. /\ events' = <<>> /\ reports' = <<>> /\ lastSeq' = 0 /\ log' = log
          /\ Len(<<>>) = 0 /\ DOMAIN <<>> = {} /\ Len(log) \in Nat
      BY <1>3 DEF Fail, IInv, TypeOK
    <2>3. AuditsAPrefix' /\ CursorExact' /\ BatchInv'
      BY <2>2 DEF AuditsAPrefix, CursorExact, BatchInv
    <2> QED
      BY <2>1, <2>3 DEF IInv
  <1> QED
    BY <1>1, <1>2, <1>3

LEMMA NextInv == IInv /\ [Next]_vars => IInv'
  BY CommitStep, ConsumeStep, AuditStep, OtherSteps DEF Next, Run

-----------------------------------------------------------------------------
(* Theorems. *)

\* The reports, the cursor, the batch in hand and the topic fit together in
\* every state, whatever is published and whenever the process fails.
THEOREM Invariant == Spec => []IInv
  BY InitInv, NextInv, PTL DEF Spec

\* Every variable of the auditor and the topic keeps its type.
THEOREM TypeCorrect == Spec => []TypeOK
  BY Invariant, PTL DEF IInv

\* What the auditor has reported is the verdict on the first events of the
\* topic, each once and in order.
THEOREM ReportsArePrefix == Spec => []AuditsAPrefix
  BY Invariant, PTL DEF IInv

\* The cursor is where the reports end, and the batch in hand continues them.
THEOREM CursorIsExact == Spec => []CursorExact
  BY Invariant, PTL DEF IInv
=============================================================================
