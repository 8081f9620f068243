--------------------------- MODULE SentinelProofs ---------------------------
(***************************************************************************)
(* What TLAPS proves of Sentinel: for any topics, any tokens and any       *)
(* number of events, cycles and calls.                                     *)
(***************************************************************************)
EXTENDS Sentinel, FiniteSetTheorems, SequenceTheorems, TLAPS

-----------------------------------------------------------------------------
(* The inductive invariant, in parts. *)

\* The environment holds one number or none, and from the first check on the
\* checker knows what it holds.
TokenInv ==
    /\ \A n \in envToken : envToken = {n}
    /\ lastToken = IF main = "start" THEN {} ELSE envToken

\* Before main() spawns its tasks and after it has awaited them none is at its
\* await: no shutdown event is published while one could record a violation.
TasksInv ==
    /\ main \in {"start", "startup", "gather", "publishing", "closed"} => health # "waiting"
    /\ main \in {"start", "startup", "publishing", "closed"} =>
            \A t \in Monitors : monitor[t] # "watching"
    /\ shutdownEvent # {} => main \in {"publishing", "closed"}
    /\ main = "start" => cycle = 0
    /\ cycle <= checkCycles

\* What the checker remembers of a topic is the highest number delivered on it.
HighestInv ==
    \A t \in Topics :
        /\ \A last \in lastSeq[t] :
              \E j \in DOMAIN delivered : delivered[j].topic = t /\ delivered[j].seq = last
        /\ \A j \in DOMAIN delivered :
              delivered[j].topic = t => \E last \in lastSeq[t] : delivered[j].seq <= last

IInv ==
    /\ TypeOK /\ TokenInv /\ TasksInv /\ HighestInv
    /\ OrderVerdictsExact /\ TokenRecheckFlags /\ ShutdownEventFinal

-----------------------------------------------------------------------------
(* Counting. *)

\* What becomes of a count when a sequence is one longer.
LEMMA OneMore ==
  ASSUME NEW n \in Nat, NEW A \in SUBSET (1 .. n)
  PROVE  /\ Cardinality(A) \in Nat
         /\ Cardinality(A \cup {n + 1}) = Cardinality(A) + 1
  <1>1. IsFiniteSet(1 .. n)
    BY FS_Interval
  <1>2. IsFiniteSet(A)
    BY <1>1, FS_Subset
  <1>3. n + 1 \notin A
    OBVIOUS
  <1> QED
    BY <1>2, <1>3, FS_AddElement, FS_CardinalityType

\* A violation recorded counts for its topic and for no other.
LEMMA ViolationRecorded ==
  ASSUME NEW x \in Violation, violations \in Seq(Violation),
         violations' = Append(violations, x), NEW t
  PROVE  /\ violations' \in Seq(Violation)
         /\ Cardinality(ViolationsOf(t)) \in Nat
         /\ Cardinality(ViolationsOf(t))' =
                Cardinality(ViolationsOf(t)) + IF x.topic = t THEN 1 ELSE 0
  <1> DEFINE n == Len(violations)
  <1>1. /\ n \in Nat /\ violations' \in Seq(Violation)
        /\ DOMAIN violations = 1 .. n /\ DOMAIN violations' = 1 .. (n + 1)
        /\ \A k \in 1 .. n : violations'[k] = violations[k]
        /\ violations'[n + 1] = x
    OBVIOUS
  <1>2. ViolationsOf(t) \in SUBSET (1 .. n)
    BY <1>1 DEF ViolationsOf
  <1>3. ViolationsOf(t)' = {k \in 1 .. (n + 1) : violations'[k].topic = t}
    BY <1>1 DEF ViolationsOf
  <1>4. ViolationsOf(t)' = IF x.topic = t THEN ViolationsOf(t) \cup {n + 1} ELSE ViolationsOf(t)
    <2>1. ViolationsOf(t) = {k \in 1 .. n : violations'[k].topic = t}
      BY <1>1 DEF ViolationsOf
    <2>2. \A k : k \in 1 .. (n + 1) <=> k \in 1 .. n \/ k = n + 1
      BY <1>1
    <2> QED
      BY <2>1, <2>2, <1>1, <1>3
  <1>5. /\ Cardinality(ViolationsOf(t)) \in Nat
        /\ Cardinality(ViolationsOf(t) \cup {n + 1}) = Cardinality(ViolationsOf(t)) + 1
    BY <1>1, <1>2, OneMore
  <1> QED
    BY <1>1, <1>4, <1>5

\* A check of the token records a violation unless it is the first one or
\* there is no token, and leaves the checker with the token it has seen.
LEMMA TokenChecked ==
  ASSUME IInv, CheckFencingToken
  PROVE  /\ lastToken' = envToken
         /\ violations' \in Seq(Violation)
         /\ Cardinality(ViolationsOf("token"))' =
                Cardinality(ViolationsOf("token"))
                    + IF envToken = {} \/ main = "start" THEN 0 ELSE 1
         /\ \A t \in Topics : Cardinality(ViolationsOf(t))' = Cardinality(ViolationsOf(t))
  <1>1. /\ violations \in Seq(Violation) /\ envToken \in SUBSET Nat
        /\ \A n \in envToken : envToken = {n}
        /\ lastToken = IF main = "start" THEN {} ELSE envToken
        /\ Cardinality(ViolationsOf("token")) \in Nat
    <2>1. IF envToken = {} THEN 0 \in Nat ELSE cycle \in Nat
      BY DEF IInv, TypeOK
    <2> QED
      BY <2>1 DEF IInv, TypeOK, TokenInv, TokenRecheckFlags
  <1>2. CASE envToken = {} \/ main = "start"
    <2>1. ~ \E token \in envToken, last \in lastToken : token <= last
      BY <1>1, <1>2
    <2>2. lastToken' = envToken /\ violations' = violations
      BY <1>1, <1>2, <2>1 DEF CheckFencingToken
    <2> QED
      BY <1>1, <1>2, <2>2 DEF ViolationsOf
  <1>3. CASE envToken # {} /\ main # "start"
    <2> PICK n \in envToken : envToken = {n}
      BY <1>1, <1>3
    <2>1. n \in Nat /\ lastToken = {n}
      BY <1>1, <1>3
    <2>2. \E token \in envToken, last \in lastToken : token <= last
      BY <2>1
    <2>3. Max(envToken) = n
      BY <2>1 DEF Max
    <2>4. /\ violations' = Append(violations, [topic |-> "token", observed |-> n])
          /\ lastToken' = lastToken
      BY <2>2, <2>3 DEF CheckFencingToken
    <2>5. [topic |-> "token", observed |-> n] \in Violation
      BY <2>1 DEF Violation
    <2>6. /\ violations' \in Seq(Violation)
          /\ Cardinality(ViolationsOf("token"))' = Cardinality(ViolationsOf("token")) + 1
      BY <1>1, <2>4, <2>5, ViolationRecorded
    <2>7. ASSUME NEW t \in Topics
          PROVE  Cardinality(ViolationsOf(t))' = Cardinality(ViolationsOf(t))
      <3>1. t # "token"
        BY SentinelAssumption
      <3> QED
        BY <1>1, <2>4, <2>5, <3>1, ViolationRecorded
    <2> QED
      BY <1>3, <2>1, <2>4, <2>6, <2>7
  <1> QED
    BY <1>2, <1>3

\* An event is late exactly when the checker remembers a number as high.
LEMMA LateRecorded ==
  ASSUME IInv, NEW s \in Topics, NEW seq \in Nat, NEW t \in Topics,
         delivered' = Append(delivered, [topic |-> s, seq |-> seq])
  PROVE  /\ Cardinality(Late(t)) \in Nat
         /\ Cardinality(Late(t))' =
                Cardinality(Late(t))
                    + IF t = s /\ \E last \in lastSeq[t] : seq <= last THEN 1 ELSE 0
  <1> DEFINE n == Len(delivered)
             e == [topic |-> s, seq |-> seq]
             Flagged == t = s /\ \E last \in lastSeq[t] : seq <= last
             Behind(k, d) == /\ d[k].topic = t
                             /\ \E j \in 1 .. (k - 1) : d[j].topic = t /\ d[j].seq >= d[k].seq
  <1>1. /\ n \in Nat /\ DOMAIN delivered = 1 .. n /\ DOMAIN delivered' = 1 .. (n + 1)
        /\ \A k \in 1 .. n : delivered'[k] = delivered[k]
        /\ delivered'[n + 1] = e
    <2>1. delivered \in Seq([topic : Topics, seq : Nat] \cup [topic : {Telemetry}, kind : TattleKinds])
      BY DEF IInv, TypeOK
    <2> QED
      BY <2>1
  <1>2. \A j \in 1 .. n : delivered[j].topic = t => delivered[j].seq \in Nat
    BY <1>1, SentinelAssumption DEF IInv, TypeOK
  <1>3. Late(t) = {k \in 1 .. n : Behind(k, delivered)}
    BY <1>1 DEF Late
  <1>4. Late(t)' = {k \in 1 .. (n + 1) : Behind(k, delivered')}
    BY <1>1 DEF Late
  <1>5. ASSUME NEW k \in 1 .. n
        PROVE  Behind(k, delivered') <=> Behind(k, delivered)
    <2>1. \A j \in 1 .. (k - 1) : j \in 1 .. n
      BY <1>1
    <2> QED
      BY <2>1, <1>1
  <1>6. Behind(n + 1, delivered') <=> Flagged
    <2>1. Behind(n + 1, delivered') <=>
              s = t /\ \E j \in 1 .. n : delivered[j].topic = t /\ delivered[j].seq >= seq
      BY <1>1
    <2>2. ASSUME NEW j \in 1 .. n, delivered[j].topic = t, delivered[j].seq >= seq
          PROVE  \E last \in lastSeq[t] : seq <= last
      <3>1. PICK last \in lastSeq[t] : delivered[j].seq <= last
        BY <1>1, <2>2 DEF IInv, HighestInv
      <3>2. last \in Nat /\ delivered[j].seq \in Nat
        BY <1>2, <2>2 DEF IInv, TypeOK
      <3> QED
        BY <2>2, <3>1, <3>2
    <2>3. ASSUME NEW last \in lastSeq[t], seq <= last
          PROVE  \E j \in 1 .. n : delivered[j].topic = t /\ delivered[j].seq >= seq
      <3>1. PICK j \in 1 .. n : delivered[j].topic = t /\ delivered[j].seq = last
        BY <1>1 DEF IInv, HighestInv
      <3>2. last \in Nat
        BY DEF IInv, TypeOK
      <3> QED
        BY <2>3, <3>1, <3>2
    <2> QED
      BY <2>1, <2>2, <2>3
  <1> HIDE DEF Behind, Flagged
  <1>7. Late(t)' = IF Flagged THEN Late(t) \cup {n + 1} ELSE Late(t)
    <2>1. \A k : k \in 1 .. (n + 1) <=> k \in 1 .. n \/ k = n + 1
      BY <1>1
    <2> QED
      BY <2>1, <1>3, <1>4, <1>5, <1>6
  <1>8. /\ Cardinality(Late(t)) \in Nat
        /\ Cardinality(Late(t) \cup {n + 1}) = Cardinality(Late(t)) + 1
    BY <1>1, <1>3, OneMore
  <1> QED
    BY <1>7, <1>8 DEF Flagged

-----------------------------------------------------------------------------
(* The invariant is inductive. *)

LEMMA InitInv == Init => IInv
  <1> SUFFICES ASSUME Init PROVE IInv
    OBVIOUS
  <1>1. /\ violations = <<>> /\ delivered = <<>> /\ lastSeq = [t \in Topics |-> {}]
        /\ shutdownEvent = {} /\ tattles = 0 /\ cycle = 0 /\ main = "start"
        /\ DOMAIN <<>> = {} /\ Cardinality({}) = 0
    BY FS_EmptySet DEF Init
  <1>2. TypeOK
    <2>1. <<>> \in Seq(Violation)
      OBVIOUS
    <2>2. <<>> \in Seq([topic : Topics, seq : Nat] \cup [topic : {Telemetry}, kind : TattleKinds])
      OBVIOUS
    <2>3. envToken \in SUBSET Nat
      BY SentinelAssumption DEF Init
    <2>4. monitor \in [Monitors -> {"none", "watching", "done"}]
      BY DEF Init
    <2>5. lastSeq \in [Topics -> SUBSET Nat]
      BY <1>1
    <2> QED
      BY <2>1, <2>2, <2>3, <2>4, <2>5 DEF Init, TypeOK
  <1>3. TokenInv
    BY DEF Init, TokenInv
  <1>4. TasksInv
    BY DEF Init, TasksInv
  <1>5. HighestInv
    BY <1>1 DEF HighestInv
  <1>6. OrderVerdictsExact
    BY <1>1 DEF OrderVerdictsExact, Late, ViolationsOf
  <1>7. TokenRecheckFlags
    <2>1. ViolationsOf("token") = {} /\ 0 \div 3 = 0
      BY <1>1 DEF ViolationsOf
    <2> QED
      BY <2>1, <1>1 DEF TokenRecheckFlags
  <1>8. ShutdownEventFinal
    BY <1>1 DEF ShutdownEventFinal
  <1> QED
    BY <1>2, <1>3, <1>4, <1>5, <1>6, <1>7, <1>8 DEF IInv

\* The parts that speak of the checker and the grid alone.
LEMMA CheckerUnchanged ==
  ASSUME IInv, UNCHANGED <<envToken, cycle, lastSeq, violations, tattles, delivered>>
  PROVE  /\ HighestInv' /\ OrderVerdictsExact' /\ TokenRecheckFlags'
  <1>1. HighestInv'
    BY DEF IInv, HighestInv
  <1>2. OrderVerdictsExact'
    BY DEF IInv, OrderVerdictsExact, Late, ViolationsOf
  <1>3. TokenRecheckFlags'
    BY DEF IInv, TokenRecheckFlags, ViolationsOf
  <1> QED
    BY <1>1, <1>2, <1>3

\* The first check, at start.
LEMMA StartStep == IInv /\ Start => IInv'
  <1> SUFFICES ASSUME IInv, Start PROVE IInv'
    OBVIOUS
  <1>1. /\ main = "start" /\ main' = "startup" /\ CheckFencingToken
        /\ UNCHANGED <<envToken, health, monitor, stopping, cycle, checkCycles, lastSeq, tattles,
                       delivered, shutdownEvent>>
    BY DEF Start
  <1>2. /\ lastToken' = envToken
        /\ violations' \in Seq(Violation)
        /\ Cardinality(ViolationsOf("token"))' = Cardinality(ViolationsOf("token")) + 0
        /\ \A t \in Topics : Cardinality(ViolationsOf(t))' = Cardinality(ViolationsOf(t))
    BY <1>1, TokenChecked
  <1>3. TypeOK'
    BY <1>1, <1>2 DEF IInv, TypeOK
  <1>4. TokenInv' /\ TasksInv'
    BY <1>1, <1>2 DEF IInv, TokenInv, TasksInv
  <1>5. HighestInv'
    BY <1>1 DEF IInv, HighestInv
  <1>6. OrderVerdictsExact'
    <2>1. \A t \in Topics : Late(t)' = Late(t)
      BY <1>1 DEF Late
    <2> QED
      BY <2>1, <1>2 DEF IInv, OrderVerdictsExact
  <1>7. TokenRecheckFlags'
    <2>1. cycle \in Nat /\ cycle \div 3 \in Nat
      BY DEF IInv, TypeOK
    <2> QED
      BY <2>1, <1>1, <1>2 DEF IInv, TokenRecheckFlags
  <1>8. ShutdownEventFinal'
    BY <1>1 DEF IInv, TasksInv, ShutdownEventFinal
  <1> QED
    BY <1>3, <1>4, <1>5, <1>6, <1>7, <1>8 DEF IInv

\* A cycle of the health loop; every third one checks the token again.
LEMMA HealthTickStep == IInv /\ HealthTick => IInv'
  <1> SUFFICES ASSUME IInv, HealthTick PROVE IInv'
    OBVIOUS
  <1>1. /\ health = "waiting" /\ cycle' = cycle + 1 /\ checkCycles' = checkCycles + 1
        /\ UNCHANGED <<envToken, main, health, monitor, stopping, lastSeq, tattles,
                       delivered, shutdownEvent>>
    BY DEF HealthTick, taskVars
  <1>2. /\ main # "start" /\ lastToken = envToken /\ shutdownEvent = {}
        /\ cycle \in Nat /\ checkCycles \in Nat /\ cycle <= checkCycles
        /\ violations \in Seq(Violation)
    BY <1>1 DEF IInv, TypeOK, TokenInv, TasksInv
  <1>3. /\ lastToken' = envToken
        /\ violations' \in Seq(Violation)
        /\ Cardinality(ViolationsOf("token"))' =
               Cardinality(ViolationsOf("token"))
                   + IF envToken = {} \/ (cycle + 1) % 3 # 0 THEN 0 ELSE 1
        /\ \A t \in Topics : Cardinality(ViolationsOf(t))' = Cardinality(ViolationsOf(t))
    <2>1. CASE (cycle + 1) % 3 = 0
      <3>1. CheckFencingToken
        BY <2>1 DEF HealthTick
      <3> QED
        BY <2>1, <3>1, <1>2, TokenChecked
    <2>2. CASE (cycle + 1) % 3 # 0
      <3>1. lastToken' = lastToken /\ violations' = violations
        BY <2>2 DEF HealthTick
      <3>2. Cardinality(ViolationsOf("token")) \in Nat
        BY <1>2 DEF IInv, TokenRecheckFlags
      <3> QED
        BY <2>2, <3>1, <3>2, <1>2 DEF ViolationsOf
    <2> QED
      BY <2>1, <2>2
  <1>4. TypeOK'
    BY <1>1, <1>2, <1>3 DEF IInv, TypeOK
  <1>5. TokenInv' /\ TasksInv'
    BY <1>1, <1>2, <1>3 DEF IInv, TokenInv, TasksInv
  <1>6. HighestInv'
    BY <1>1 DEF IInv, HighestInv
  <1>7. OrderVerdictsExact'
    <2>1. \A t \in Topics : Late(t)' = Late(t)
      BY <1>1 DEF Late
    <2> QED
      BY <2>1, <1>3 DEF IInv, OrderVerdictsExact
  <1>8. TokenRecheckFlags'
    <2>1. (cycle + 1) \div 3 = cycle \div 3 + IF (cycle + 1) % 3 = 0 THEN 1 ELSE 0
      BY <1>2
    <2>2. envToken' = envToken /\ cycle' = cycle + 1
      BY <1>1
    <2> QED
      BY <2>1, <2>2, <1>2, <1>3 DEF IInv, TokenRecheckFlags
  <1>9. ShutdownEventFinal'
    BY <1>1, <1>2 DEF ShutdownEventFinal
  <1> QED
    BY <1>4, <1>5, <1>6, <1>7, <1>8, <1>9 DEF IInv

\* An event on a topic: it is flagged when it is late, else it is the highest.
LEMMA EventStep ==
  ASSUME IInv, NEW s \in Topics, NEW seq \in 1 .. MaxSeq, EventDelivered(s, seq)
  PROVE  IInv'
  <1> DEFINE e == [topic |-> s, seq |-> seq]
             Flagged == \E last \in lastSeq[s] : seq <= last
  <1>1. /\ monitor[s] = "watching" /\ delivered' = Append(delivered, e)
        /\ UNCHANGED <<envToken, main, health, monitor, stopping, cycle, checkCycles, lastToken,
                       tattles, shutdownEvent>>
    BY DEF EventDelivered, Hears, taskVars
  <1>2. /\ seq \in Nat /\ s \in Monitors /\ s # "token" /\ s # Telemetry
        /\ violations \in Seq(Violation) /\ lastSeq \in [Topics -> SUBSET Nat]
        /\ delivered \in Seq([topic : Topics, seq : Nat] \cup [topic : {Telemetry}, kind : TattleKinds])
    BY SentinelAssumption DEF IInv, TypeOK, Monitors
  <1>3. /\ violations' = IF Flagged THEN Append(violations, [topic |-> s, observed |-> seq])
                                    ELSE violations
        /\ lastSeq' = IF Flagged THEN lastSeq ELSE [lastSeq EXCEPT ![s] = {seq}]
    BY DEF EventDelivered, CheckEventOrdering
  <1>4. shutdownEvent = {}
    BY <1>1, <1>2 DEF IInv, TasksInv
  <1>5. /\ violations' \in Seq(Violation)
        /\ \A t : Cardinality(ViolationsOf(t)) \in Nat =>
                     Cardinality(ViolationsOf(t))' =
                       Cardinality(ViolationsOf(t)) + IF Flagged /\ s = t THEN 1 ELSE 0
    <2>1. CASE Flagged
      <3>1. [topic |-> s, observed |-> seq] \in Violation
        BY <1>2 DEF Violation
      <3> QED
        BY <1>2, <1>3, <2>1, <3>1, ViolationRecorded
    <2>2. CASE ~ Flagged
      BY <1>2, <1>3, <2>2 DEF ViolationsOf
    <2> QED
      BY <2>1, <2>2
  <1>6. TypeOK'
    <2>1. lastSeq' \in [Topics -> SUBSET Nat]
      BY <1>2, <1>3
    <2>2. e \in [topic : Topics, seq : Nat] \cup [topic : {Telemetry}, kind : TattleKinds]
      BY <1>2
    <2>3. delivered' \in Seq([topic : Topics, seq : Nat] \cup [topic : {Telemetry}, kind : TattleKinds])
      BY <1>1, <1>2, <2>2
    <2> QED
      BY <1>1, <1>5, <2>1, <2>3 DEF IInv, TypeOK
  <1>7. TokenInv' /\ TasksInv'
    BY <1>1 DEF IInv, TokenInv, TasksInv
  <1>8. HighestInv'
    <2>1. /\ DOMAIN delivered = 1 .. Len(delivered) /\ Len(delivered) \in Nat
          /\ DOMAIN delivered' = 1 .. (Len(delivered) + 1)
          /\ \A k \in DOMAIN delivered : delivered'[k] = delivered[k]
          /\ delivered'[Len(delivered) + 1] = e
      BY <1>1, <1>2
    <2>2. \A k : k \in DOMAIN delivered' <=> k \in DOMAIN delivered \/ k = Len(delivered) + 1
      BY <2>1
    <2>3. ASSUME NEW t \in Topics, NEW last \in lastSeq'[t]
          PROVE  \E j \in DOMAIN delivered' :
                    delivered'[j].topic = t /\ delivered'[j].seq = last
      <3>1. CASE last \in lastSeq[t]
        BY <2>1, <2>2, <3>1 DEF IInv, HighestInv
      <3>2. CASE last \notin lastSeq[t]
        <4>1. t = s /\ last = seq
          BY <1>2, <1>3, <3>2
        <4> QED
          BY <4>1, <2>1, <2>2
      <3> QED
        BY <3>1, <3>2
    <2>4. ASSUME NEW t \in Topics, NEW j \in DOMAIN delivered', delivered'[j].topic = t
          PROVE  \E last \in lastSeq'[t] : delivered'[j].seq <= last
      <3>1. CASE j \in DOMAIN delivered
        <4>1. PICK last \in lastSeq[t] : delivered[j].seq <= last
          BY <2>1, <2>4, <3>1 DEF IInv, HighestInv
        <4>2. CASE t # s \/ Flagged
          BY <1>2, <1>3, <2>1, <3>1, <4>1, <4>2
        <4>3. CASE t = s /\ ~ Flagged
          <5>1. lastSeq'[t] = {seq} /\ last < seq /\ last \in Nat
            BY <1>2, <1>3, <4>1, <4>3
          <5>2. /\ delivered[j] \in [topic : Topics, seq : Nat] \cup [topic : {Telemetry}, kind : TattleKinds]
                /\ delivered[j].topic # Telemetry
            BY <1>2, <2>1, <2>4, <3>1, <4>3
          <5> QED
            BY <1>2, <2>1, <3>1, <4>1, <5>1, <5>2
        <4> QED
          BY <4>2, <4>3
      <3>2. CASE j = Len(delivered) + 1
        <4>1. t = s /\ delivered'[j].seq = seq
          BY <2>1, <2>4, <3>2
        <4>2. CASE Flagged
          BY <1>3, <4>1, <4>2
        <4>3. CASE ~ Flagged
          BY <1>2, <1>3, <4>1, <4>3
        <4> QED
          BY <4>2, <4>3
      <3> QED
        BY <2>2, <3>1, <3>2
    <2> QED
      BY <2>3, <2>4 DEF HighestInv
  <1>9. OrderVerdictsExact'
    <2> SUFFICES ASSUME NEW t \in Topics
                 PROVE  Cardinality(ViolationsOf(t))' = Cardinality(Late(t))'
      BY DEF OrderVerdictsExact
    <2>1. /\ Cardinality(Late(t)) \in Nat
          /\ Cardinality(Late(t))' =
                 Cardinality(Late(t)) + IF t = s /\ \E last \in lastSeq[t] : seq <= last THEN 1 ELSE 0
      BY <1>1, <1>2, LateRecorded
    <2>2. Cardinality(ViolationsOf(t)) = Cardinality(Late(t))
      BY DEF IInv, OrderVerdictsExact
    <2> QED
      BY <1>5, <2>1, <2>2
  <1>10. TokenRecheckFlags'
    <2>1. cycle \in Nat /\ cycle \div 3 \in Nat
      BY DEF IInv, TypeOK
    <2>2. Cardinality(ViolationsOf("token"))' = Cardinality(ViolationsOf("token"))
      BY <1>2, <1>5, <2>1 DEF IInv, TokenRecheckFlags
    <2> QED
      BY <1>1, <2>2 DEF IInv, TokenRecheckFlags
  <1>11. ShutdownEventFinal'
    BY <1>1, <1>4 DEF ShutdownEventFinal
  <1> QED
    BY <1>6, <1>7, <1>8, <1>9, <1>10, <1>11 DEF IInv

\* An event on the telemetry topic is late on no other.
LEMMA TattleStep ==
  ASSUME IInv, NEW kind \in TattleKinds, TattleDelivered(kind)
  PROVE  IInv'
  <1> DEFINE e == [topic |-> Telemetry, kind |-> kind]
  <1>1. /\ delivered' = Append(delivered, e)
        /\ tattles' = IF kind = "us" THEN tattles + 1 ELSE tattles
        /\ UNCHANGED <<envToken, main, health, monitor, stopping, cycle, checkCycles, lastToken,
                       lastSeq, violations, shutdownEvent>>
    BY DEF TattleDelivered, taskVars
  <1>2. /\ delivered \in Seq([topic : Topics, seq : Nat] \cup [topic : {Telemetry}, kind : TattleKinds])
        /\ e \in [topic : Topics, seq : Nat] \cup [topic : {Telemetry}, kind : TattleKinds]
        /\ tattles \in Nat
    BY DEF IInv, TypeOK
  <1>3. /\ DOMAIN delivered = 1 .. Len(delivered) /\ Len(delivered) \in Nat
        /\ DOMAIN delivered' = 1 .. (Len(delivered) + 1)
        /\ \A k \in DOMAIN delivered : delivered'[k] = delivered[k]
        /\ delivered'[Len(delivered) + 1] = e
    BY <1>1, <1>2
  <1>4. /\ \A k \in DOMAIN delivered : k \in DOMAIN delivered'
        /\ \A k \in DOMAIN delivered', t \in Topics :
              delivered'[k].topic = t => k \in DOMAIN delivered
    BY <1>3, SentinelAssumption
  <1>5. TypeOK'
    BY <1>1, <1>2 DEF IInv, TypeOK
  <1>6. TokenInv' /\ TasksInv' /\ ShutdownEventFinal'
    BY <1>1 DEF IInv, TokenInv, TasksInv, ShutdownEventFinal
  <1>7. HighestInv'
    BY <1>1, <1>3, <1>4 DEF IInv, HighestInv
  <1>8. OrderVerdictsExact'
    <2>1. ASSUME NEW t \in Topics PROVE Late(t)' = Late(t)
      <3>1. \A k \in DOMAIN delivered : \A j \in 1 .. (k - 1) : j \in DOMAIN delivered
        BY <1>3
      <3> QED
        BY <1>3, <1>4, <3>1 DEF Late
    <2> QED
      BY <1>1, <2>1 DEF IInv, OrderVerdictsExact, ViolationsOf
  <1>9. TokenRecheckFlags'
    BY <1>1 DEF IInv, TokenRecheckFlags, ViolationsOf
  <1> QED
    BY <1>5, <1>6, <1>7, <1>8, <1>9 DEF IInv

\* The shutdown event is published when every task has been awaited.
LEMMA PublishShutdownStep == IInv /\ PublishShutdown => IInv'
  <1> SUFFICES ASSUME IInv, PublishShutdown PROVE IInv'
    OBVIOUS
  <1> DEFINE e == [violations |-> Len(violations), cycles |-> checkCycles]
  <1>1. /\ main = "gather" /\ main' = "publishing" /\ \A t \in Monitors : monitor[t] = "done"
        /\ shutdownEvent' = shutdownEvent \cup {e}
        /\ UNCHANGED <<envToken, health, monitor, stopping, cycle, checkCycles, lastToken, lastSeq,
                       violations, tattles, delivered>>
    BY DEF PublishShutdown, checkerVars
  <1>2. /\ shutdownEvent = {} /\ health # "waiting" /\ cycle <= checkCycles
        /\ cycle \in Nat /\ checkCycles \in Nat /\ violations \in Seq(Violation)
    BY <1>1 DEF IInv, TypeOK, TasksInv
  <1>3. e \in [violations : Nat, cycles : Nat]
    BY <1>2
  <1>4. TypeOK'
    BY <1>1, <1>3 DEF IInv, TypeOK
  <1>5. TokenInv' /\ TasksInv'
    BY <1>1, <1>2 DEF IInv, TokenInv, TasksInv
  <1>6. ShutdownEventFinal'
    BY <1>1, <1>2 DEF ShutdownEventFinal
  <1> QED
    BY <1>1, <1>4, <1>5, <1>6, CheckerUnchanged DEF IInv

\* The other steps move the tasks along or count a remote call.
LEMMA TaskSteps ==
  ASSUME IInv,
         \/ Spawn \/ StopMonitors \/ Close \/ CancelledEarly \/ CancelledAgain \/ Shutdown \/ RunCheckCycle
         \/ HealthEnds \/ (\E t \in Monitors : StreamBreaks(t) \/ MonitorEnds(t))
         \/ UNCHANGED vars
  PROVE  IInv'
  <1>1. UNCHANGED <<envToken, cycle, lastToken, lastSeq, violations, tattles, delivered,
                    shutdownEvent>>
    BY DEF Spawn, StopMonitors, Close, CancelledEarly, CancelledAgain, Shutdown, RunCheckCycle, HealthEnds,
           StreamBreaks, MonitorEnds, vars, taskVars, checkerVars
  <1>2. /\ cycle \in Nat /\ checkCycles \in Nat
        /\ monitor \in [Monitors -> {"none", "watching", "done"}]
    BY DEF IInv, TypeOK
  <1>3. checkCycles' \in {checkCycles, checkCycles + 1}
    BY DEF Spawn, StopMonitors, Close, CancelledEarly, CancelledAgain, Shutdown, RunCheckCycle, HealthEnds,
           StreamBreaks, MonitorEnds, vars
  <1>4. ASSUME NEW t \in Monitors, monitor' = [monitor EXCEPT ![t] = "done"]
        PROVE  /\ monitor' \in [Monitors -> {"none", "watching", "done"}]
               /\ \A u \in Monitors : monitor'[u] = "watching" => monitor[u] = "watching"
    BY <1>2, <1>4
  <1>5. TypeOK'
    <2>1. checkCycles' \in Nat
      BY <1>2, <1>3
    <2>2. CASE Spawn
      <3>1. monitor' \in [Monitors -> {"none", "watching", "done"}]
        BY <2>2 DEF Spawn
      <3> QED
        BY <1>1, <2>1, <2>2, <3>1 DEF IInv, TypeOK, Spawn
    <2>3. CASE StopMonitors \/ Close \/ CancelledEarly \/ CancelledAgain \/ Shutdown \/ RunCheckCycle \/ HealthEnds
      BY <1>1, <2>1, <2>3 DEF IInv, TypeOK, StopMonitors, Close, CancelledEarly, CancelledAgain, Shutdown,
                              RunCheckCycle, HealthEnds, taskVars
    <2>4. CASE \E t \in Monitors : StreamBreaks(t) \/ MonitorEnds(t)
      BY <1>1, <1>4, <2>1, <2>4 DEF IInv, TypeOK, StreamBreaks, MonitorEnds
    <2>5. CASE UNCHANGED vars
      BY <1>1, <2>1, <2>5 DEF IInv, TypeOK, vars, taskVars
    <2> QED
      BY <2>2, <2>3, <2>4, <2>5
  <1>6. TokenInv'
    BY <1>1 DEF IInv, TokenInv, Spawn, StopMonitors, Close, CancelledEarly, CancelledAgain, Shutdown,
                RunCheckCycle, HealthEnds, StreamBreaks, MonitorEnds, vars, taskVars
  <1>7. TasksInv'
    <2>1. cycle' <= checkCycles'
      BY <1>1, <1>2, <1>3 DEF IInv, TasksInv
    <2>2. CASE Spawn \/ StopMonitors \/ Close \/ CancelledEarly \/ CancelledAgain \/ Shutdown \/ HealthEnds
      BY <1>1, <2>1, <2>2 DEF IInv, TasksInv, Spawn, StopMonitors, Close, CancelledEarly, CancelledAgain,
                              Shutdown, HealthEnds
    <2>3. CASE RunCheckCycle \/ UNCHANGED vars
      BY <1>1, <2>1, <2>3 DEF IInv, TasksInv, RunCheckCycle, vars, taskVars
    <2>4. CASE \E t \in Monitors : StreamBreaks(t) \/ MonitorEnds(t)
      BY <1>1, <1>4, <2>1, <2>4 DEF IInv, TasksInv, StreamBreaks, MonitorEnds
    <2> QED
      BY <2>1, <2>2, <2>3, <2>4
  <1>8. ShutdownEventFinal'
    <2>1. ASSUME NEW e \in shutdownEvent
          PROVE  e.cycles \in Nat
      BY DEF IInv, TypeOK
    <2> QED
      BY <1>1, <1>2, <1>3, <2>1 DEF IInv, ShutdownEventFinal
  <1> QED
    BY <1>1, <1>5, <1>6, <1>7, <1>8, CheckerUnchanged DEF IInv

LEMMA NextInv == IInv /\ [Next]_vars => IInv'
  BY StartStep, HealthTickStep, EventStep, TattleStep, PublishShutdownStep, TaskSteps
     DEF Next, Main

-----------------------------------------------------------------------------
(* Theorems. *)

\* The tasks, what the checker remembers and what the grid delivered fit
\* together in every state.
THEOREM Invariant == Spec => []IInv
  BY InitInv, NextInv, PTL DEF Spec

\* Every variable of the sentinel and the grid keeps its type.
THEOREM TypeCorrect == Spec => []TypeOK
  BY Invariant, PTL DEF IInv

\* Every late event is flagged and no other, on every topic.
THEOREM OrderVerdictsAreExact == Spec => []OrderVerdictsExact
  BY Invariant, PTL DEF IInv

\* Every third cycle flags the token of this process, if it has one.
THEOREM TokenIsFlagged == Spec => []TokenRecheckFlags
  BY Invariant, PTL DEF IInv

\* Nothing is recorded behind a shutdown event.
THEOREM ShutdownEventIsFinal == Spec => []ShutdownEventFinal
  BY Invariant, PTL DEF IInv
=============================================================================
