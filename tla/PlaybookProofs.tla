--------------------------- MODULE PlaybookProofs ---------------------------
(***************************************************************************)
(* What TLAPS proves of Playbook: for any number of tattles and of flood   *)
(* events, any windows the attacks read, whatever is on the topics when    *)
(* the process starts and whichever events given up come in late.          *)
(***************************************************************************)
EXTENDS Playbook, FiniteSetTheorems, SequenceTheorems, TLAPS

-----------------------------------------------------------------------------
(* The inductive invariant, in parts. *)

\* The flood events whose call has come back, at await s of the flood.
Done(s) == IF s < 2 THEN 0 ELSE IF s - 2 <= Flood THEN s - 2 ELSE Flood

\* What the flood knows of the first done of its events.
FloodSound(e, done, stored) ==
    /\ e.count <= done
    /\ done - e.errors <= e.count
    /\ done - e.errors <= stored

\* The executor's locals are as sound as the result it will return.
EvidenceInv ==
    /\ ~evidence.cleaned
    /\ Attack = "lease_race" => evidence.held
    /\ Attack = "phantom_registration" /\ evidence.held =>
            "tattle" \in First(telemetry, TelemetryWindow)
    /\ Attack = "event_flood" => FloodSound(evidence, Done(step), Cardinality(FloodStored))

\* A phantom is registered by an event that did not come in late.
PhantomInTime ==
    \E i \in DOMAIN serviceState :
        /\ serviceState[i] = "register" /\ i \notin late
        /\ \A j \in (i + 1) .. Len(serviceState) : serviceState[j] # "unregister"

\* A result has its evidence on the topics, and only the last attack cleans up.
ResultSound(r) ==
    /\ r.ended = "timeout" => ~r.held /\ r.trigger
    /\ r.ended = "returned" =>
        /\ r.attack = "phantom_registration" /\ r.held =>
                "tattle" \in First(telemetry, TelemetryWindow)
        /\ r.attack = "false_tattle" /\ r.held => lifecycle
        /\ r.attack = "lease_race" /\ ~r.held => "transfer" \in First(serviceState, StateWindow)
        /\ r.attack = "event_flood" => FloodSound(r, Flood, Cardinality(FloodStored))
    /\ r.cleaned => r.attack = "phantom_registration" /\ ~PhantomInTime

IInv ==
    /\ TypeOK /\ EvidenceInv /\ ResultsInOrder
    /\ \A r \in Range(results) : ResultSound(r)

-----------------------------------------------------------------------------
(* The attacks and their awaits. *)

LEMMA AttackList ==
  /\ Len(Attacks) = 5
  /\ Attacks[1] = "false_tattle" /\ Attacks[2] = "lease_race" /\ Attacks[3] = "event_flood"
  /\ Attacks[4] = "stale_invoke" /\ Attacks[5] = "phantom_registration"
  /\ \A i \in 1 .. 5 : Attacks[i] \in Range(Attacks)
  BY DEF Attacks, Range

LEMMA ScriptOf ==
  /\ Script["false_tattle"] = FalseTattle /\ Script["lease_race"] = LeaseRace
  /\ Script["event_flood"] = EventFlood /\ Script["stale_invoke"] = StaleInvoke
  /\ Script["phantom_registration"] = PhantomRegistration
  BY DEF Script

\* A call repeated n times behind the announcement, and two awaits more.
Repeats(s, n, call, b, c) ==
    /\ Len(s) = n + 3
    /\ s[1] = "announce" /\ s[n + 2] = b /\ s[n + 3] = c
    /\ \A k \in 2 .. n + 1 : s[k] = call

LEMMA Repeated ==
  ASSUME NEW n \in Nat, NEW call, NEW b, NEW c
  PROVE  Repeats(<<"announce">> \o Times(n, call) \o <<b, c>>, n, call, b, c)
  <1> DEFINE Word == {"announce", call, b, c}
  <1>1. /\ Times(n, call) \in Seq(Word) /\ Len(Times(n, call)) = n
        /\ \A i \in 1 .. n : Times(n, call)[i] = call
    BY IsASeq DEF Times
  <1>2. /\ <<"announce">> \in Seq(Word) /\ Len(<<"announce">>) = 1
        /\ <<"announce">>[1] = "announce"
        /\ <<b, c>> \in Seq(Word) /\ Len(<<b, c>>) = 2 /\ <<b, c>>[1] = b /\ <<b, c>>[2] = c
    <2>2. <<"announce">> \in Seq(Word) /\ <<b, c>> \in Seq(Word)
      OBVIOUS
    <2>3. Len(<<"announce">>) = 1 /\ <<"announce">>[1] = "announce"
      OBVIOUS
    <2>4. Len(<<b, c>>) = 2 /\ <<b, c>>[1] = b /\ <<b, c>>[2] = c
      OBVIOUS
    <2> QED
      BY <2>2, <2>3, <2>4
  <1> DEFINE front == <<"announce">> \o Times(n, call)
             s == front \o <<b, c>>
  <1>3. /\ front \in Seq(Word) /\ Len(front) = n + 1
        /\ front[1] = "announce"
        /\ \A k \in 2 .. n + 1 : front[k] = call
    <2>1. /\ front \in Seq(Word) /\ Len(front) = 1 + n
          /\ \A i \in 1 .. 1 + n :
                front[i] = IF i <= 1 THEN <<"announce">>[i] ELSE Times(n, call)[i - 1]
      BY <1>1, <1>2, ConcatProperties
    <2> QED
      BY <2>1, <1>1, <1>2
  <1>4. s = front \o <<b, c>>
    OBVIOUS
  <1> HIDE DEF front
  <1>5. /\ Len(s) = n + 1 + 2
        /\ \A i \in 1 .. n + 1 + 2 :
              s[i] = IF i <= n + 1 THEN front[i] ELSE <<b, c>>[i - (n + 1)]
    BY <1>2, <1>3, <1>4, ConcatProperties
  <1>6. s[1] = "announce" /\ \A k \in 2 .. n + 1 : s[k] = call
    BY <1>3, <1>5
  <1>7. s[n + 2] = b /\ s[n + 3] = c
    <2>1. s[n + 2] = <<b, c>>[(n + 2) - (n + 1)] /\ s[n + 3] = <<b, c>>[(n + 3) - (n + 1)]
      BY <1>5
    <2>2. (n + 2) - (n + 1) = 1 /\ (n + 3) - (n + 1) = 2
      OBVIOUS
    <2> QED
      BY <1>2, <2>1, <2>2
  <1>8. Repeats(s, n, call, b, c)
    BY <1>5, <1>6, <1>7 DEF Repeats
  <1> QED
    BY <1>8 DEF front

\* Where each attack is at which call, as far as its evidence depends on it.
LEMMA Calls ==
  ASSUME TypeOK
  PROVE  /\ at \in 1 .. 5 /\ step \in Nat /\ step >= 1 /\ step <= Len(Script[Attack])
         /\ Attack \in Range(Attacks) /\ Len(Script[Attack]) \in Nat
         /\ Attack = "phantom_registration" <=> at = 5
         /\ Call = "flood" <=> Attack = "event_flood" /\ step \in 2 .. Flood + 1
         /\ Attack = "event_flood" => Len(Script[Attack]) = Flood + 3
         /\ Call = "tattle" => Attack = "false_tattle"
         /\ Call = "lifecycle" <=> Attack = "false_tattle" /\ step = Len(Script[Attack])
         /\ Call = "serviceState" <=> Attack = "lease_race" /\ step = Len(Script[Attack])
         /\ Call = "telemetry" => Attack = "phantom_registration"
         /\ Call = "unregister" <=> Attack = "phantom_registration" /\ step = Len(Script[Attack])
         /\ Call = "attacks" => Attack = "event_flood"
  <1>1. at \in 1 .. 5 /\ step \in 1 .. Len(Script[Attack])
    BY AttackList DEF TypeOK
  <1>2. Tattles \in Nat /\ Flood \in Nat
    BY PlaybookAssumption
  <1>3. CASE at = 1
    <2>1. Attack = "false_tattle" /\ Script[Attack] = FalseTattle
      BY <1>3, AttackList, ScriptOf DEF Attack
    <2>2. /\ Len(FalseTattle) = Tattles + 3
          /\ FalseTattle[1] = "announce" /\ FalseTattle[Tattles + 2] = "sleep"
          /\ FalseTattle[Tattles + 3] = "lifecycle"
          /\ \A k \in 2 .. Tattles + 1 : FalseTattle[k] = "tattle"
      <3>1. Repeats(FalseTattle, Tattles, "tattle", "sleep", "lifecycle")
        BY <1>2, Repeated DEF FalseTattle
      <3> QED
        BY <3>1 DEF Repeats
    <2>3. step = 1 \/ step \in 2 .. Tattles + 1 \/ step = Tattles + 2 \/ step = Tattles + 3
      BY <1>1, <1>2, <2>1, <2>2
    <2>4. /\ Call \in {"announce", "tattle", "sleep", "lifecycle"}
          /\ Call = "lifecycle" <=> step = Tattles + 3
      BY <1>2, <2>1, <2>2, <2>3 DEF Call
    <2> QED
      BY <1>1, <1>2, <1>3, <2>1, <2>2, <2>4, AttackList
  <1>4. CASE at = 2
    <2>1. Attack = "lease_race" /\ Script[Attack] = LeaseRace
      BY <1>4, AttackList, ScriptOf DEF Attack
    <2>2. /\ Len(LeaseRace) = 4 /\ LeaseRace[1] = "announce" /\ LeaseRace[2] = "bid"
          /\ LeaseRace[3] = "sleep" /\ LeaseRace[4] = "serviceState"
      BY DEF LeaseRace
    <2>3. step = 1 \/ step = 2 \/ step = 3 \/ step = 4
      BY <1>1, <2>1, <2>2
    <2>4. /\ Call \in {"announce", "bid", "sleep", "serviceState"}
          /\ Call = "serviceState" <=> step = 4
      BY <2>1, <2>2, <2>3 DEF Call
    <2> QED
      BY <1>1, <1>4, <2>1, <2>2, <2>4, AttackList
  <1>5. CASE at = 3
    <2>1. Attack = "event_flood" /\ Script[Attack] = EventFlood
      BY <1>5, AttackList, ScriptOf DEF Attack
    <2>2. /\ Len(EventFlood) = Flood + 3
          /\ EventFlood[1] = "announce" /\ EventFlood[Flood + 2] = "attacks"
          /\ EventFlood[Flood + 3] = "sentinel"
          /\ \A k \in 2 .. Flood + 1 : EventFlood[k] = "flood"
      <3>1. Repeats(EventFlood, Flood, "flood", "attacks", "sentinel")
        BY <1>2, Repeated DEF EventFlood
      <3> QED
        BY <3>1 DEF Repeats
    <2>3. step = 1 \/ step \in 2 .. Flood + 1 \/ step = Flood + 2 \/ step = Flood + 3
      BY <1>1, <1>2, <2>1, <2>2
    <2>4. /\ Call \in {"announce", "flood", "attacks", "sentinel"}
          /\ Call = "flood" <=> step \in 2 .. Flood + 1
      BY <1>2, <2>1, <2>2, <2>3 DEF Call
    <2> QED
      BY <1>1, <1>2, <1>5, <2>1, <2>2, <2>4, AttackList
  <1>6. CASE at = 4
    <2>1. Attack = "stale_invoke" /\ Script[Attack] = StaleInvoke
      BY <1>6, AttackList, ScriptOf DEF Attack
    <2>2. Len(StaleInvoke) = 2 /\ StaleInvoke[1] = "announce" /\ StaleInvoke[2] = "invoke"
      BY DEF StaleInvoke
    <2>3. step = 1 \/ step = 2
      BY <1>1, <2>1, <2>2
    <2>4. Call \in {"announce", "invoke"}
      BY <2>1, <2>2, <2>3 DEF Call
    <2> QED
      BY <1>1, <1>6, <2>1, <2>2, <2>4, AttackList
  <1>7. CASE at = 5
    <2>1. Attack = "phantom_registration" /\ Script[Attack] = PhantomRegistration
      BY <1>7, AttackList, ScriptOf DEF Attack
    <2>2. /\ Len(PhantomRegistration) = 5 /\ PhantomRegistration[1] = "announce"
          /\ PhantomRegistration[2] = "register" /\ PhantomRegistration[3] = "sleep"
          /\ PhantomRegistration[4] = "telemetry" /\ PhantomRegistration[5] = "unregister"
      BY DEF PhantomRegistration
    <2>3. step = 1 \/ step = 2 \/ step = 3 \/ step = 4 \/ step = 5
      BY <1>1, <2>1, <2>2
    <2>4. /\ Call \in {"announce", "register", "sleep", "telemetry", "unregister"}
          /\ Call = "unregister" <=> step = 5
      BY <2>1, <2>2, <2>3 DEF Call
    <2> QED
      BY <1>1, <1>7, <2>1, <2>2, <2>4, AttackList
  <1> QED
    BY <1>1, <1>3, <1>4, <1>5, <1>6, <1>7

LEMMA ScriptLengths == \A i \in 1 .. 5 : Len(Script[Attacks[i]]) \in Nat \ {0}
  <1>1. Len(FalseTattle) \in Nat \ {0}
    <2>1. Repeats(FalseTattle, Tattles, "tattle", "sleep", "lifecycle")
      BY PlaybookAssumption, Repeated DEF FalseTattle
    <2> QED
      BY <2>1, PlaybookAssumption DEF Repeats
  <1>2. Len(EventFlood) \in Nat \ {0}
    <2>1. Repeats(EventFlood, Flood, "flood", "attacks", "sentinel")
      BY PlaybookAssumption, Repeated DEF EventFlood
    <2> QED
      BY <2>1, PlaybookAssumption DEF Repeats
  <1>3. Len(LeaseRace) = 4 /\ Len(StaleInvoke) = 2 /\ Len(PhantomRegistration) = 5
    BY DEF LeaseRace, StaleInvoke, PhantomRegistration
  <1>4. \A i \in 1 .. 5 : i = 1 \/ i = 2 \/ i = 3 \/ i = 4 \/ i = 5
    OBVIOUS
  <1>5. /\ Script[Attacks[1]] = FalseTattle /\ Script[Attacks[2]] = LeaseRace
        /\ Script[Attacks[3]] = EventFlood /\ Script[Attacks[4]] = StaleInvoke
        /\ Script[Attacks[5]] = PhantomRegistration
    BY AttackList, ScriptOf
  <1> QED
    BY <1>1, <1>2, <1>3, <1>4, <1>5

-----------------------------------------------------------------------------
(* The topics. *)

LEMMA FirstIs ==
  ASSUME NEW S, NEW topic \in Seq(S), NEW n \in Nat, NEW x
  PROVE  x \in First(topic, n) <=> \E k \in 1 .. Len(topic) : k <= n /\ topic[k] = x
  <1> DEFINE m == IF n < Len(topic) THEN n ELSE Len(topic)
             read == SubSeq(topic, 1, m)
  <1>1. m \in Nat /\ m <= Len(topic) /\ m <= n /\ Len(topic) \in Nat
        /\ \A k \in 1 .. Len(topic) : k <= n <=> k <= m
    OBVIOUS
  <1>2. read \in Seq(S) /\ Len(read) = m /\ \A k \in 1 .. m : read[k] = topic[k]
    <2>1. \A k \in 1 .. m : topic[k] \in S
      BY <1>1
    <2> HIDE DEF m
    <2>2. /\ SubSeq(topic, 1, m) \in Seq(S)
          /\ Len(SubSeq(topic, 1, m)) = IF 1 <= m THEN m - 1 + 1 ELSE 0
          /\ \A k \in 1 .. m - 1 + 1 : SubSeq(topic, 1, m)[k] = topic[1 + k - 1]
      BY <1>1, <2>1, SubSeqProperties
    <2> QED
      BY <1>1, <2>2
  <1>3. First(topic, n) = {read[k] : k \in 1 .. m}
    <2>1. DOMAIN read = 1 .. m
      BY <1>2
    <2> QED
      BY <2>1 DEF First, Range
  <1> HIDE DEF m, read
  <1> QED
    BY <1>1, <1>2, <1>3

\* What a reader of the first events has seen stays there.
LEMMA FirstGrows ==
  ASSUME NEW S, NEW topic \in Seq(S), NEW n \in Nat, NEW e \in S, NEW x \in First(topic, n)
  PROVE  x \in First(Append(topic, e), n)
  <1>1. PICK k \in 1 .. Len(topic) : k <= n /\ topic[k] = x
    BY FirstIs
  <1>2. /\ Append(topic, e) \in Seq(S) /\ Len(Append(topic, e)) = Len(topic) + 1
        /\ Append(topic, e)[k] = topic[k] /\ Len(topic) \in Nat
    BY <1>1
  <1>3. \E i \in 1 .. Len(Append(topic, e)) : i <= n /\ Append(topic, e)[i] = x
    BY <1>1, <1>2
  <1> QED
    BY <1>2, <1>3, FirstIs

\* The topics only grow.
TopicsGrow ==
    /\ serviceState' \in Seq(StateEvent)
    /\ telemetry' \in Seq(Telemetry)
    /\ lifecycle' \in BOOLEAN
    /\ adrift' \in SUBSET GivenUp /\ late' \in SUBSET Nat
    /\ lifecycle => lifecycle'
    /\ "transfer" \in First(serviceState, StateWindow) =>
            "transfer" \in First(serviceState', StateWindow)
    /\ "tattle" \in First(telemetry, TelemetryWindow) =>
            "tattle" \in First(telemetry', TelemetryWindow)
    /\ Cardinality(FloodStored) \in Nat /\ Cardinality(FloodStored)' \in Nat
    /\ Cardinality(FloodStored) <= Cardinality(FloodStored)'

LEMMA FloodCounts ==
  ASSUME TypeOK
  PROVE  /\ Cardinality(FloodStored) \in Nat
         /\ \A e : telemetry' = Append(telemetry, e) =>
                Cardinality(FloodStored)' =
                    Cardinality(FloodStored) + IF e = "flood" THEN 1 ELSE 0
  <1> DEFINE n == Len(telemetry)
  <1>1. n \in Nat /\ DOMAIN telemetry = 1 .. n
    BY DEF TypeOK
  <1>2. IsFiniteSet(1 .. n) /\ FloodStored \in SUBSET (1 .. n)
    BY <1>1, FS_Interval DEF FloodStored
  <1>3. IsFiniteSet(FloodStored) /\ Cardinality(FloodStored) \in Nat
    BY <1>2, FS_Subset, FS_CardinalityType
  <1>4. ASSUME NEW e, telemetry' = Append(telemetry, e)
        PROVE  Cardinality(FloodStored)' =
                    Cardinality(FloodStored) + IF e = "flood" THEN 1 ELSE 0
    <2>1. /\ DOMAIN telemetry' = 1 .. (n + 1) /\ telemetry'[n + 1] = e
          /\ \A k \in 1 .. n : telemetry'[k] = telemetry[k]
          /\ \A k : k \in 1 .. (n + 1) <=> k \in 1 .. n \/ k = n + 1
      BY <1>1, <1>4 DEF TypeOK
    <2>2. FloodStored' = IF e = "flood" THEN FloodStored \cup {n + 1} ELSE FloodStored
      BY <1>1, <2>1 DEF FloodStored
    <2>3. n + 1 \notin FloodStored
      BY <1>1, <1>2
    <2>4. Cardinality(FloodStored \cup {n + 1}) = Cardinality(FloodStored) + 1
      BY <1>3, <2>3, FS_AddElement
    <2> QED
      BY <1>3, <2>2, <2>4
  <1> QED
    BY <1>3, <1>4

\* One event more on one of the topics, or none.
LEMMA TopicGrows ==
  ASSUME TypeOK,
         \/ UNCHANGED serviceState
         \/ \E e \in StateEvent : serviceState' = Append(serviceState, e),
         UNCHANGED telemetry \/ \E e \in Telemetry : telemetry' = Append(telemetry, e),
         lifecycle' \in BOOLEAN, lifecycle => lifecycle',
         adrift' \in SUBSET GivenUp, late' \in SUBSET Nat
  PROVE  TopicsGrow
  <1>1. /\ serviceState \in Seq(StateEvent)
        /\ telemetry \in Seq(Telemetry)
        /\ TelemetryWindow \in Nat /\ StateWindow \in Nat
    BY PlaybookAssumption DEF TypeOK
  <1>2. /\ serviceState' \in Seq(StateEvent)
        /\ "transfer" \in First(serviceState, StateWindow) =>
              "transfer" \in First(serviceState', StateWindow)
    <2>1. CASE UNCHANGED serviceState
      BY <1>1, <2>1
    <2>2. ASSUME NEW e \in StateEvent,
                 serviceState' = Append(serviceState, e)
          PROVE  <1>2!1 /\ <1>2!2
      BY <1>1, <2>2, FirstGrows
    <2> QED
      BY <2>1, <2>2
  <1>3. /\ telemetry' \in Seq(Telemetry)
        /\ "tattle" \in First(telemetry, TelemetryWindow) =>
              "tattle" \in First(telemetry', TelemetryWindow)
    <2>1. CASE UNCHANGED telemetry
      BY <1>1, <2>1
    <2>2. ASSUME NEW e \in Telemetry, telemetry' = Append(telemetry, e)
          PROVE  <1>3!1 /\ <1>3!2
      BY <1>1, <2>2, FirstGrows
    <2> QED
      BY <2>1, <2>2
  <1>4. /\ Cardinality(FloodStored) \in Nat /\ Cardinality(FloodStored)' \in Nat
        /\ Cardinality(FloodStored) <= Cardinality(FloodStored)'
    <2>1. CASE UNCHANGED telemetry
      BY <2>1, FloodCounts DEF FloodStored
    <2>2. CASE \E e \in Telemetry : telemetry' = Append(telemetry, e)
      BY <2>2, FloodCounts
    <2> QED
      BY <2>1, <2>2
  <1> QED
    BY <1>2, <1>3, <1>4 DEF TopicsGrow

\* A phantom stays away until somebody registers it again in time.
LEMMA PhantomStaysAway ==
  ASSUME TypeOK, NEW e, serviceState' = Append(serviceState, e), late \subseteq late'
  PROVE  /\ e # "register" \/ Len(serviceState) + 1 \in late' =>
                (PhantomInTime' => PhantomInTime)
         /\ e = "unregister" => ~PhantomInTime'
  <1> DEFINE n == Len(serviceState)
  <1>1. /\ n \in Nat /\ DOMAIN serviceState = 1 .. n /\ DOMAIN serviceState' = 1 .. (n + 1)
        /\ Len(serviceState') = n + 1 /\ serviceState'[n + 1] = e
        /\ \A k \in 1 .. n : serviceState'[k] = serviceState[k]
    BY DEF TypeOK
  <1>2. ASSUME e # "register" \/ n + 1 \in late', NEW i \in 1 .. (n + 1),
               serviceState'[i] = "register", i \notin late',
               \A j \in (i + 1) .. (n + 1) : serviceState'[j] # "unregister"
        PROVE  PhantomInTime /\ e # "unregister"
    <2>1. i \in 1 .. n
      BY <1>1, <1>2
    <2>2. \A j \in (i + 1) .. n : j \in 1 .. n /\ j \in (i + 1) .. (n + 1)
      BY <1>1, <2>1
    <2>3. n + 1 \in (i + 1) .. (n + 1) /\ i \notin late
      BY <1>1, <1>2, <2>1
    <2> QED
      BY <1>1, <1>2, <2>1, <2>2, <2>3 DEF PhantomInTime
  <1> QED
    BY <1>1, <1>2 DEF PhantomInTime

-----------------------------------------------------------------------------
(* The results. *)

LEMMA InOrder ==
  ASSUME NEW s \in Seq(Result)
  PROVE  [i \in DOMAIN s |-> s[i].attack] = SubSeq(Attacks, 1, Len(s))
            <=> \A i \in 1 .. Len(s) : s[i].attack = Attacks[i]
  <1> DEFINE n == Len(s)
             named == [i \in DOMAIN s |-> s[i].attack]
             first == SubSeq(Attacks, 1, n)
  <1>1. n \in Nat /\ DOMAIN s = 1 .. n
    OBVIOUS
  <1>2. Len(first) = n /\ DOMAIN first = 1 .. n /\ \A i \in 1 .. n : first[i] = Attacks[i]
    <2> DEFINE S == {Attacks[i] : i \in 1 .. n}
    <2>1. \A i \in 1 .. n : Attacks[i] \in S
      OBVIOUS
    <2> HIDE DEF S
    <2>2. /\ SubSeq(Attacks, 1, n) \in Seq(S)
          /\ Len(SubSeq(Attacks, 1, n)) = IF 1 <= n THEN n - 1 + 1 ELSE 0
          /\ \A i \in 1 .. n - 1 + 1 : SubSeq(Attacks, 1, n)[i] = Attacks[1 + i - 1]
      BY <1>1, <2>1, SubSeqProperties
    <2> QED
      BY <1>1, <2>2
  <1>3. first = [i \in 1 .. n |-> Attacks[i]]
    <2>1. first \in Seq({Attacks[i] : i \in 1 .. n})
      <3>1. \A i \in 1 .. n : Attacks[i] \in {Attacks[k] : k \in 1 .. n}
        OBVIOUS
      <3> QED
        BY <1>1, <3>1, SubSeqProperties
    <2>2. first \in [1 .. n -> {Attacks[i] : i \in 1 .. n}]
      BY <2>1, <1>2, LenProperties
    <2> HIDE DEF first
    <2> QED
      BY <2>2, <1>2
  <1>4. named = [i \in 1 .. n |-> s[i].attack]
    BY <1>1
  <1> HIDE DEF n, named, first
  <1>5. named = first <=> \A i \in 1 .. n : s[i].attack = Attacks[i]
    BY <1>3, <1>4
  <1> QED
    BY <1>1, <1>5 DEF n, named, first

\* While an attack runs, those that have ended left results that say nothing of
\* a cleanup.
LEMMA NotCleanedYet ==
  ASSUME IInv, phase \in {"startup", "headStart", "attacking"}
  PROVE  \A r \in Range(results) : ~r.cleaned
  <1>1. at \in 1 .. 5 /\ results \in Seq(Result)
    BY Calls DEF IInv, TypeOK
  <1>2. Len(results) = at - 1 /\ \A i \in 1 .. Len(results) : results[i].attack = Attacks[i]
    BY <1>1, InOrder DEF IInv, ResultsInOrder
  <1>3. \A i \in 1 .. 4 : Attacks[i] # "phantom_registration"
    <2>1. \A i \in 1 .. 4 : i = 1 \/ i = 2 \/ i = 3 \/ i = 4
      OBVIOUS
    <2> QED
      BY <2>1, AttackList
  <1>4. ASSUME NEW i \in DOMAIN results
        PROVE  ~results[i].cleaned
    <2>1. i \in 1 .. Len(results) /\ i \in 1 .. 4
      BY <1>1, <1>2
    <2>2. results[i].attack # "phantom_registration" /\ results[i] \in Range(results)
      BY <1>2, <1>3, <2>1 DEF Range
    <2> QED
      BY <2>2 DEF IInv, ResultSound
  <1> QED
    BY <1>4 DEF Range

\* A result stays sound as the topics grow.
LEMMA SoundStays ==
  ASSUME TopicsGrow, NEW r \in Result, ResultSound(r),
         ~r.cleaned \/ (PhantomInTime' => PhantomInTime)
  PROVE  ResultSound(r)'
  <1>1. r.attack = "event_flood" /\ r.ended = "returned" =>
            FloodSound(r, Flood, Cardinality(FloodStored'))
    <2>1. Flood \in Nat /\ r.errors \in Nat /\ r.count \in Nat
      BY PlaybookAssumption DEF Result
    <2>2. /\ Cardinality(FloodStored) \in Nat /\ Cardinality(FloodStored') \in Nat
          /\ Cardinality(FloodStored) <= Cardinality(FloodStored')
      BY DEF TopicsGrow
    <2> QED
      BY <2>1, <2>2 DEF ResultSound, FloodSound
  <1>2. /\ lifecycle => lifecycle'
        /\ "transfer" \in First(serviceState, StateWindow) =>
              "transfer" \in First(serviceState', StateWindow)
        /\ "tattle" \in First(telemetry, TelemetryWindow) =>
              "tattle" \in First(telemetry', TelemetryWindow)
    BY DEF TopicsGrow
  <1> QED
    BY <1>1, <1>2 DEF ResultSound

\* So do the locals of the attack that runs.
LEMMA EvidenceStays ==
  ASSUME TypeOK, EvidenceInv, TopicsGrow, UNCHANGED attackVars
  PROVE  EvidenceInv'
  <1>1. Attack' = Attack /\ step' = step /\ evidence' = evidence
    BY DEF attackVars, Attack
  <1>2. /\ Cardinality(FloodStored) \in Nat /\ Cardinality(FloodStored') \in Nat
        /\ Cardinality(FloodStored) <= Cardinality(FloodStored')
        /\ "tattle" \in First(telemetry, TelemetryWindow) =>
              "tattle" \in First(telemetry', TelemetryWindow)
    BY DEF TopicsGrow
  <1>3. Done(step) \in Nat /\ evidence.errors \in Nat
    BY Calls, PlaybookAssumption DEF TypeOK, Evidence, Done
  <1>4. Attack = "event_flood" => FloodSound(evidence, Done(step), Cardinality(FloodStored'))
    BY <1>2, <1>3 DEF EvidenceInv, FloodSound
  <1> QED
    BY <1>1, <1>2, <1>4 DEF EvidenceInv

-----------------------------------------------------------------------------
(* The invariant is inductive. *)

LEMMA BoundedSeqs ==
  ASSUME NEW S, NEW T, NEW n \in Nat, NEW s \in BoundedSeq(S \cap T, n)
  PROVE  s \in Seq(T)
  <1>1. PICK m \in 0 .. n : s \in [1 .. m -> S \cap T]
    BY DEF BoundedSeq, SeqOf
  <1>2. m \in Nat /\ s = [i \in 1 .. m |-> s[i]] /\ \A i \in 1 .. m : s[i] \in T
    BY <1>1
  <1> QED
    BY <1>2, IsASeq

LEMMA InitInv == Init => IInv
  <1> SUFFICES ASSUME Init PROVE IInv
    OBVIOUS
  <1>1. /\ at = 1 /\ step = 1 /\ phase = "startup" /\ results = <<>>
        /\ Attack = "false_tattle" /\ Range(<<>>) = {}
    BY AttackList DEF Init, Attack, Range
  <1>2. /\ evidence \in Evidence /\ ~evidence.cleaned
    BY <1>1, AttackList DEF Init, NoEvidence, Evidence
  <1>3. TypeOK
    <2>1. at \in 1 .. Len(Attacks) /\ step \in 1 .. Len(Script[Attack])
      <3>1. Len(Script[Attack]) \in Nat \ {0}
        BY <1>1, ScriptLengths DEF Attack
      <3> QED
        BY <1>1, <3>1, AttackList
    <2>2. results \in Seq(Result)
      BY <1>1
    <2>3. serviceState \in Seq(StateEvent) /\ telemetry \in Seq(Telemetry)
      <3>1. /\ serviceState \in BoundedSeq(Prior \cap StateEvent, MaxPrior)
            /\ telemetry \in BoundedSeq(Prior \cap {"tattle", "other"}, MaxPrior)
        BY Zenon DEF Init
      <3>2. serviceState \in Seq(StateEvent)
        BY <3>1, BoundedSeqs, PlaybookAssumption
      <3>3. telemetry \in Seq({"tattle", "other"})
        BY <3>1, BoundedSeqs, PlaybookAssumption
      <3>4. {"tattle", "other"} \subseteq Telemetry
        BY DEF Telemetry
      <3> QED
        BY <3>2, <3>3, <3>4
    <2>4. adrift \in SUBSET GivenUp /\ late \in SUBSET Nat
      BY PlaybookAssumption DEF Init, GivenUp
    <2>5. lifecycle \in BOOLEAN
      BY Zenon DEF Init
    <2> QED
      BY <1>1, <1>2, <2>1, <2>2, <2>3, <2>4, <2>5 DEF TypeOK
  <1>4. EvidenceInv
    BY <1>1, <1>2 DEF EvidenceInv
  <1>5. ResultsInOrder
    <2>1. <<>> \in Seq(Result) /\ Len(<<>>) = 0
      OBVIOUS
    <2>2. \A i \in 1 .. Len(results) : results[i].attack = Attacks[i]
      BY <1>1, <2>1
    <2>3. [i \in DOMAIN results |-> results[i].attack] = SubSeq(Attacks, 1, Len(results))
      BY <1>1, <2>1, <2>2, InOrder
    <2> QED
      BY <1>1, <2>1, <2>3 DEF ResultsInOrder
  <1> QED
    BY <1>1, <1>3, <1>4, <1>5 DEF IInv

LEMMA NothingYet ==
  ASSUME NEW attack
  PROVE  /\ ~NoEvidence(attack).cleaned
         /\ NoEvidence(attack).count = 0 /\ NoEvidence(attack).errors = 0
         /\ NoEvidence(attack).held <=> attack # "phantom_registration"
  <1>1. /\ NoEvidence(attack).count = 0 /\ NoEvidence(attack).errors = 0
        /\ NoEvidence(attack).cleaned = FALSE
        /\ NoEvidence(attack).held = (attack # "phantom_registration")
    BY DEF NoEvidence
  <1> QED
    BY <1>1, Zenon

\* An attack leaves its result, and the next one starts with nothing.
LEMMA ConcludeStep ==
  ASSUME IInv, phase = "attacking", TopicsGrow,
         NEW r \in Result, r.attack = Attack, ResultSound(r)', Conclude(r)
  PROVE  IInv'
  <1>1. /\ at \in 1 .. 5 /\ results \in Seq(Result) /\ Len(results) = at - 1
        /\ \A i \in 1 .. Len(results) : results[i].attack = Attacks[i]
        /\ evidence \in Evidence /\ step \in 1 .. Len(Script[Attack])
    BY Calls, InOrder DEF IInv, TypeOK, ResultsInOrder
  <1>2. /\ results' = Append(results, r)
        /\ at = 5 => phase' = "reporting" /\ UNCHANGED <<at, step, evidence>>
        /\ at # 5 => /\ at' = at + 1 /\ step' = 1 /\ evidence' = NoEvidence(Attacks[at + 1])
                     /\ phase' = "attacking"
    BY AttackList DEF Conclude, attackVars
  <1>3. /\ results' \in Seq(Result) /\ Len(results') = at
        /\ \A i \in 1 .. at - 1 : results'[i] = results[i]
        /\ results'[at] = r /\ DOMAIN results' = 1 .. at /\ DOMAIN results = 1 .. at - 1
    BY <1>1, <1>2
  <1>4. NoEvidence(Attacks[at + 1]) \in Evidence
    BY DEF NoEvidence, Evidence
  <1>5. TypeOK'
    <2>1. CASE at = 5
      <3>1. Attack' = Attack
        BY <1>2, <2>1 DEF Attack
      <3> QED
        BY <1>1, <1>2, <1>3, <2>1, <3>1, AttackList DEF TypeOK, TopicsGrow
    <2>2. CASE at # 5
      <3>1. at + 1 \in 1 .. 5 /\ Attack' = Attacks[at + 1]
        BY <1>1, <1>2, <2>2 DEF Attack
      <3>2. Len(Script[Attack']) \in Nat \ {0}
        BY <3>1, ScriptLengths
      <3>3. at' \in 1 .. Len(Attacks) /\ step' \in 1 .. Len(Script[Attack'])
        BY <1>2, <2>2, <3>1, <3>2, AttackList
      <3> QED
        BY <1>2, <1>3, <1>4, <2>2, <3>3 DEF TypeOK, TopicsGrow
    <2> QED
      BY <2>1, <2>2
  <1>6. EvidenceInv'
    <2>1. CASE at = 5
      BY <1>2, <2>1, EvidenceStays DEF IInv, attackVars
    <2>2. CASE at # 5
      <3>1. Attack' = Attacks[at + 1] /\ Done(1) = 0
        BY <1>2, <2>2 DEF Attack, Done
      <3>2. /\ ~evidence'.cleaned /\ evidence'.count = 0 /\ evidence'.errors = 0
            /\ evidence'.held <=> Attack' # "phantom_registration"
        BY <1>2, <2>2, <3>1, NothingYet
      <3>3. FloodSound(evidence', 0, Cardinality(FloodStored'))
        BY <3>2 DEF FloodSound, TopicsGrow
      <3> QED
        BY <1>2, <2>2, <3>1, <3>2, <3>3 DEF EvidenceInv
    <2> QED
      BY <2>1, <2>2
  <1>7. ResultsInOrder'
    <2>1. \A i \in 1 .. Len(results') : results'[i].attack = Attacks[i]
      <3>1. \A i \in 1 .. at : i \in 1 .. at - 1 \/ i = at
        BY <1>1
      <3> QED
        BY <1>1, <1>3, <3>1 DEF Attack
    <2>2. [i \in DOMAIN results' |-> results'[i].attack] = SubSeq(Attacks, 1, Len(results'))
      BY <1>3, <2>1, InOrder
    <2>3. Len(results') = IF phase' \in {"reporting", "idle"} THEN Len(Attacks) ELSE at' - 1
      BY <1>1, <1>2, <1>3, AttackList
    <2>4. phase' # "stopped"
      BY <1>2
    <2> QED
      BY <2>2, <2>3, <2>4 DEF ResultsInOrder
  <1>8. \A q \in Range(results') : ResultSound(q)'
    <2> SUFFICES ASSUME NEW i \in 1 .. at
                 PROVE  \A q : q = results'[i] => ResultSound(q)'
      BY <1>3 DEF Range
    <2>1. CASE i = at
      BY <1>3, <2>1
    <2>2. CASE i \in 1 .. at - 1
      <3>1. results[i] \in Range(results) /\ results[i] \in Result
        BY <1>1, <1>3, <2>2 DEF Range
      <3>2. \A q \in Range(results) : ~q.cleaned /\ ResultSound(q)
        BY NotCleanedYet DEF IInv
      <3>3. \A q : q = results[i] => ResultSound(q)'
        BY <3>1, <3>2, SoundStays
      <3> QED
        BY <1>3, <2>2, <3>3
    <2> QED
      BY <1>1, <2>1, <2>2
  <1> QED
    BY <1>5, <1>6, <1>7, <1>8 DEF IInv

\* What the executor knows when an await ends bears out what it will return.
EvidenceNext(e) ==
    /\ e.cleaned => /\ Attack = "phantom_registration" /\ step = Len(Script[Attack])
                    /\ ~PhantomInTime'
    /\ Attack = "lease_race" /\ ~e.held =>
            step = Len(Script[Attack]) /\ "transfer" \in First(serviceState', StateWindow)
    /\ Attack = "phantom_registration" /\ e.held =>
            "tattle" \in First(telemetry', TelemetryWindow)
    /\ Attack = "false_tattle" /\ step = Len(Script[Attack]) /\ e.held => lifecycle'
    /\ Attack = "event_flood" => FloodSound(e, Done(step + 1), Cardinality(FloodStored'))

LEMMA ProceedStep ==
  ASSUME IInv, phase = "attacking", TopicsGrow, NEW e \in Evidence, EvidenceNext(e), Proceed(e)
  PROVE  IInv'
  <1>0. /\ step \in Nat /\ step >= 1 /\ step <= Len(Script[Attack])
        /\ Len(Script[Attack]) \in Nat /\ Attack \in Range(Attacks) /\ Flood \in Nat
        /\ Attack = "event_flood" => Len(Script[Attack]) = Flood + 3
    BY Calls, PlaybookAssumption DEF IInv
  <1>1. CASE step = Len(Script[Attack])
    <2>1. Conclude(Returned(e))
      BY <1>1 DEF Proceed
    <2> PICK r : r = Returned(e)
      OBVIOUS
    <2>2. /\ r.attack = Attack /\ r.ended = "returned" /\ r.held = e.held
          /\ r.count = e.count /\ r.errors = e.errors /\ r.cleaned = e.cleaned
      BY DEF Returned
    <2>3. r \in Result
      <3>1. /\ e.held \in BOOLEAN /\ e.count \in Nat /\ e.errors \in Nat /\ e.cleaned \in BOOLEAN
        BY DEF Evidence
      <3>2. (~e.held \/ Attack = "stale_invoke") \in BOOLEAN
        OBVIOUS
      <3> QED
        BY <1>0, <3>1, <3>2 DEF Returned, Result
    <2>4. Attack = "event_flood" => FloodSound(r, Flood, Cardinality(FloodStored'))
      <3>1. Attack = "event_flood" => Done(step + 1) = Flood
        BY <1>0, <1>1 DEF Done
      <3> QED
        BY <2>2, <3>1 DEF EvidenceNext, FloodSound
    <2>5. ResultSound(r)'
      BY <1>1, <2>2, <2>4 DEF EvidenceNext, ResultSound
    <2> QED
      BY <2>1, <2>2, <2>3, <2>5, ConcludeStep
  <1>2. CASE step # Len(Script[Attack])
    <2>1. step' = step + 1 /\ evidence' = e /\ UNCHANGED <<phase, at, results>>
      BY <1>2 DEF Proceed
    <2>2. Attack' = Attack
      BY <2>1 DEF Attack
    <2>3. TypeOK'
      <3>1. step' \in 1 .. Len(Script[Attack'])
        BY <1>0, <1>2, <2>1, <2>2
      <3> QED
        BY <2>1, <3>1 DEF IInv, TypeOK, TopicsGrow
    <2>4. EvidenceInv'
      BY <1>2, <2>1, <2>2 DEF EvidenceInv, EvidenceNext
    <2>5. ResultsInOrder'
      BY <2>1 DEF IInv, ResultsInOrder
    <2>6. \A q \in Range(results') : ResultSound(q)'
      <3>1. \A q \in Range(results) : q \in Result /\ ~q.cleaned /\ ResultSound(q)
        BY NotCleanedYet DEF IInv, TypeOK, Range
      <3> QED
        BY <2>1, <3>1, SoundStays
    <2> QED
      BY <2>3, <2>4, <2>5, <2>6 DEF IInv
  <1> QED
    BY <1>1, <1>2

\* A call stored adds one event to a topic, or none.
LEMMA StoredGrows ==
  ASSUME TypeOK, Stored(Call), UNCHANGED driftVars
  PROVE  /\ TopicsGrow
         /\ Cardinality(FloodStored') = Cardinality(FloodStored) + IF Call = "flood" THEN 1 ELSE 0
         /\ Call = "unregister" => ~PhantomInTime'
         /\ lifecycle' = lifecycle
  <1>1. /\ serviceState' = IF Call \in Commands THEN Append(serviceState, Call) ELSE serviceState
        /\ telemetry' = IF Call = "flood" THEN Append(telemetry, Call) ELSE telemetry
        /\ lifecycle' = lifecycle /\ lifecycle \in BOOLEAN
        /\ adrift' \in SUBSET GivenUp /\ late' \in SUBSET Nat /\ late' = late
    BY DEF Stored, TypeOK, driftVars
  <1>2. TopicsGrow
    <2>1. \/ UNCHANGED serviceState
          \/ \E e \in StateEvent : serviceState' = Append(serviceState, e)
      BY <1>1 DEF StateEvent
    <2>2. UNCHANGED telemetry \/ \E e \in Telemetry : telemetry' = Append(telemetry, e)
      BY <1>1 DEF Telemetry
    <2> QED
      BY <1>1, <2>1, <2>2, TopicGrows
  <1>3. Cardinality(FloodStored') = Cardinality(FloodStored) + IF Call = "flood" THEN 1 ELSE 0
    <2>1. CASE Call = "flood"
      BY <1>1, <2>1, FloodCounts
    <2>2. CASE Call # "flood"
      BY <1>1, <2>2, FloodCounts DEF FloodStored
    <2> QED
      BY <2>1, <2>2
  <1>4. Call = "unregister" => ~PhantomInTime'
    BY <1>1, PhantomStaysAway DEF Commands
  <1> QED
    BY <1>1, <1>2, <1>3, <1>4

\* The topics as they are.
LEMMA NothingStored ==
  ASSUME TypeOK, UNCHANGED <<busVars, driftVars>>
  PROVE  TopicsGrow /\ Cardinality(FloodStored') = Cardinality(FloodStored)
  <1>1. TopicsGrow
    BY TopicGrows DEF TypeOK, busVars, driftVars
  <1> QED
    BY <1>1 DEF FloodStored, busVars

\* An event given up is on a topic, on its way or lost.
LEMMA GivenUpGrows ==
  ASSUME TypeOK, GiveUp
  PROVE  TopicsGrow
  <1>1. CASE Stored(Call) /\ UNCHANGED driftVars
    BY <1>1, StoredGrows
  <1>2. CASE /\ Call \in Drifting /\ adrift' = adrift \cup {[call |-> Call, step |-> step]}
             /\ UNCHANGED <<busVars, late>>
    <2>1. [call |-> Call, step |-> step] \in GivenUp
      BY <1>2, Calls, PlaybookAssumption DEF GivenUp
    <2>2. adrift' \in SUBSET GivenUp /\ late' \in SUBSET Nat
      BY <1>2, <2>1 DEF TypeOK
    <2> QED
      BY <1>2, <2>2, TopicGrows DEF TypeOK, busVars
  <1>3. CASE UNCHANGED <<busVars, driftVars>>
    BY <1>3, NothingStored
  <1> QED
    BY <1>1, <1>2, <1>3 DEF GiveUp

\* How many flood events have come back when this await ends.
LEMMA DoneNext ==
  ASSUME TypeOK, Attack = "event_flood"
  PROVE  /\ Done(step) \in Nat
         /\ Done(step + 1) = Done(step) + IF Call = "flood" THEN 1 ELSE 0
         /\ Call = "flood" => Done(step + 1) = step - 1
  <1>1. /\ step \in Nat /\ step >= 1 /\ step <= Flood + 3 /\ Flood \in Nat
        /\ Call = "flood" <=> step \in 2 .. Flood + 1
    BY Calls, PlaybookAssumption
  <1>2. CASE step \in 2 .. Flood + 1
    BY <1>1, <1>2 DEF Done
  <1>3. CASE step \notin 2 .. Flood + 1
    BY <1>1, <1>3 DEF Done
  <1> QED
    BY <1>2, <1>3

LEMMA EvidenceFields ==
  ASSUME TypeOK
  PROVE  /\ evidence.held \in BOOLEAN /\ evidence.cleaned \in BOOLEAN
         /\ evidence.count \in Nat /\ evidence.errors \in Nat
         /\ DOMAIN evidence = {"held", "count", "errors", "cleaned"}
  BY DEF TypeOK, Evidence

\* What is learned from a call that returned, seen from the new topics.
LEMMA CallReturnsStep == IInv /\ CallReturns => IInv'
  <1> SUFFICES ASSUME IInv, CallReturns PROVE IInv'
    OBVIOUS
  <1>1. /\ TypeOK /\ EvidenceInv /\ phase = "attacking"
        /\ Stored(Call) /\ UNCHANGED driftVars /\ Proceed(Learned(Call))
    BY DEF IInv, CallReturns
  <1>2. /\ TopicsGrow /\ lifecycle' = lifecycle
        /\ Cardinality(FloodStored') = Cardinality(FloodStored) + IF Call = "flood" THEN 1 ELSE 0
        /\ Call = "unregister" => ~PhantomInTime'
    BY <1>1, StoredGrows
  <1>3. /\ Cardinality(FloodStored) \in Nat /\ Cardinality(FloodStored') \in Nat
        /\ "transfer" \in First(serviceState, StateWindow) =>
              "transfer" \in First(serviceState', StateWindow)
        /\ "tattle" \in First(telemetry, TelemetryWindow) =>
              "tattle" \in First(telemetry', TelemetryWindow)
    BY <1>2 DEF TopicsGrow
  <1> PICK e : e = Learned(Call)
    OBVIOUS
  <1>4. CASE Call = "flood"
    <2>1. e = [evidence EXCEPT !.count = step - 1]
      BY <1>4 DEF Learned
    <2>2. step - 1 \in Nat
      BY <1>1, Calls
    <2>3. /\ e \in Evidence /\ e.held = evidence.held /\ e.cleaned = evidence.cleaned
          /\ e.count = step - 1 /\ e.errors = evidence.errors
      BY <1>1, <2>1, <2>2 DEF TypeOK, Evidence
    <2>4. Attack = "event_flood" /\ step # Len(Script[Attack])
      BY <1>1, <1>4, Calls, PlaybookAssumption
    <2>5. Attack = "event_flood" => FloodSound(e, Done(step + 1), Cardinality(FloodStored'))
      <3> SUFFICES ASSUME Attack = "event_flood"
                   PROVE  FloodSound(e, Done(step + 1), Cardinality(FloodStored'))
        OBVIOUS
      <3>1. Call = "flood"
        BY <1>1, <1>4, Calls
      <3>2. /\ Done(step) \in Nat /\ Done(step + 1) = Done(step) + 1 /\ Done(step + 1) = step - 1
            /\ evidence.errors \in Nat
        BY <1>1, <3>1, DoneNext, EvidenceFields
      <3>3. Done(step) - evidence.errors <= Cardinality(FloodStored)
        BY <1>1 DEF EvidenceInv, FloodSound
      <3> QED
        BY <1>2, <1>3, <2>3, <3>1, <3>2, <3>3 DEF FloodSound
    <2>6. EvidenceNext(e)
      BY <1>1, <2>3, <2>4, <2>5 DEF EvidenceInv, EvidenceNext
    <2> QED
      BY <1>1, <1>2, <2>3, <2>6, ProceedStep
  <1>5. CASE Call \in {"lifecycle", "serviceState", "telemetry"}
    <2>1. /\ Call = "lifecycle" => e = [evidence EXCEPT !.held = lifecycle]
          /\ Call = "serviceState" =>
                e = [evidence EXCEPT !.held = "transfer" \notin First(serviceState, StateWindow)]
          /\ Call = "telemetry" =>
                e = [evidence EXCEPT !.held = "tattle" \in First(telemetry, TelemetryWindow)]
      BY DEF Learned
    <2>2. \A held \in BOOLEAN : e = [evidence EXCEPT !.held = held] =>
              e \in Evidence /\ e.cleaned = evidence.cleaned /\ e.held = held
      BY <1>1 DEF TypeOK, Evidence
    <2>3. /\ e \in Evidence /\ e.cleaned = evidence.cleaned
          /\ Call = "lifecycle" => e.held = lifecycle
          /\ Call = "serviceState" => e.held = ("transfer" \notin First(serviceState, StateWindow))
          /\ Call = "telemetry" => e.held = ("tattle" \in First(telemetry, TelemetryWindow))
      <3>1. CASE Call = "lifecycle"
        BY <1>1, <2>1, <2>2, <3>1 DEF TypeOK
      <3>2. CASE Call = "serviceState"
        <4>1. ("transfer" \notin First(serviceState, StateWindow)) \in BOOLEAN
          OBVIOUS
        <4> QED
          BY <2>1, <2>2, <3>2, <4>1
      <3>3. CASE Call = "telemetry"
        <4>1. ("tattle" \in First(telemetry, TelemetryWindow)) \in BOOLEAN
          OBVIOUS
        <4> QED
          BY <2>1, <2>2, <3>3, <4>1
      <3> QED
        BY <1>5, <3>1, <3>2, <3>3
    <2>4. /\ Call = "lifecycle" => Attack = "false_tattle"
          /\ Call = "serviceState" => Attack = "lease_race" /\ step = Len(Script[Attack])
          /\ Call = "telemetry" => Attack = "phantom_registration"
      BY <1>1, Calls
    <2>5. EvidenceNext(e)
      BY <1>1, <1>2, <1>3, <1>5, <2>3, <2>4 DEF EvidenceInv, EvidenceNext
    <2> QED
      BY <1>1, <1>2, <2>3, <2>5, ProceedStep
  <1>6. CASE Call = "unregister"
    <2>1. e = [evidence EXCEPT !.cleaned = TRUE]
      BY <1>6 DEF Learned
    <2>2. e \in Evidence /\ e.held = evidence.held
      BY <1>1, <2>1 DEF TypeOK, Evidence
    <2>3. Attack = "phantom_registration" /\ step = Len(Script[Attack])
      BY <1>1, <1>6, Calls
    <2>4. EvidenceNext(e)
      BY <1>1, <1>2, <1>3, <1>6, <2>2, <2>3 DEF EvidenceInv, EvidenceNext
    <2> QED
      BY <1>1, <1>2, <2>2, <2>4, ProceedStep
  <1>7. CASE Call \notin {"flood", "lifecycle", "serviceState", "telemetry", "unregister"}
    <2>1. e = evidence
      BY <1>7 DEF Learned
    <2>2. Attack = "false_tattle" => step # Len(Script[Attack])
      BY <1>1, <1>7, Calls
    <2>3. Attack = "event_flood" => FloodSound(e, Done(step + 1), Cardinality(FloodStored'))
      <3>1. Attack = "event_flood" => Done(step + 1) = Done(step)
        BY <1>1, <1>7, DoneNext
      <3>2. Cardinality(FloodStored') = Cardinality(FloodStored)
        BY <1>2, <1>3, <1>7
      <3> QED
        BY <1>1, <2>1, <3>1, <3>2 DEF EvidenceInv
    <2>4. EvidenceNext(e)
      BY <1>1, <1>3, <2>1, <2>2, <2>3 DEF EvidenceInv, EvidenceNext
    <2> QED
      BY <1>1, <1>2, <2>1, <2>4, ProceedStep DEF TypeOK
  <1> QED
    BY <1>4, <1>5, <1>6, <1>7

\* A call that raised: its event is stored or not, and little is noted.
LEMMA CallRaisesStep == IInv /\ CallRaises => IInv'
  <1> SUFFICES ASSUME IInv, CallRaises PROVE IInv'
    OBVIOUS
  <1>1. /\ TypeOK /\ EvidenceInv /\ phase = "attacking" /\ Proceed(Missed(Call))
        /\ GiveUp
    BY DEF IInv, CallRaises
  <1>2. TopicsGrow
    BY <1>1, GivenUpGrows
  <1>3. /\ Cardinality(FloodStored) \in Nat /\ Cardinality(FloodStored') \in Nat
        /\ Cardinality(FloodStored) <= Cardinality(FloodStored')
        /\ "tattle" \in First(telemetry, TelemetryWindow) =>
              "tattle" \in First(telemetry', TelemetryWindow)
    BY <1>2 DEF TopicsGrow
  <1> PICK e : e = Missed(Call)
    OBVIOUS
  <1>4. /\ evidence.held \in BOOLEAN /\ evidence.cleaned \in BOOLEAN
        /\ evidence.count \in Nat /\ evidence.errors \in Nat /\ evidence \in Evidence
    BY <1>1, EvidenceFields DEF TypeOK
  <1>5. CASE Call = "flood"
    <2>1. e = [evidence EXCEPT !.errors = @ + 1]
      BY <1>5 DEF Missed
    <2>2. /\ e \in Evidence /\ e.held = evidence.held /\ e.cleaned = evidence.cleaned
          /\ e.count = evidence.count /\ e.errors = evidence.errors + 1
      BY <1>4, <2>1 DEF Evidence
    <2>3. Attack = "event_flood"
      BY <1>1, <1>5, Calls
    <2>4. FloodSound(e, Done(step + 1), Cardinality(FloodStored'))
      <3>1. Done(step) \in Nat /\ Done(step + 1) = Done(step) + 1
        BY <1>1, <1>5, <2>3, DoneNext
      <3>2. FloodSound(evidence, Done(step), Cardinality(FloodStored))
        BY <1>1, <2>3 DEF EvidenceInv
      <3> QED
        BY <1>3, <1>4, <2>2, <3>1, <3>2 DEF FloodSound
    <2>5. EvidenceNext(e)
      BY <1>1, <2>2, <2>3, <2>4 DEF EvidenceInv, EvidenceNext
    <2> QED
      BY <1>1, <1>2, <2>2, <2>5, ProceedStep
  <1>6. CASE Call # "flood"
    <2>1. /\ e \in Evidence /\ e.cleaned = evidence.cleaned
          /\ e.count = evidence.count /\ e.errors = evidence.errors
          /\ e.held => evidence.held
          /\ Call = "lifecycle" => ~e.held
          /\ Call \notin {"lifecycle", "attacks"} => e.held = evidence.held
      <3>1. CASE Call \in {"lifecycle", "attacks"}
        <4>1. e = [evidence EXCEPT !.held = FALSE]
          BY <1>6, <3>1 DEF Missed
        <4> QED
          BY <1>4, <3>1, <4>1 DEF Evidence
      <3>2. CASE Call \notin {"lifecycle", "attacks"}
        <4>1. e = evidence
          BY <1>6, <3>2 DEF Missed
        <4> QED
          BY <1>4, <3>2, <4>1
      <3> QED
        BY <3>1, <3>2
    <2>2. /\ Attack = "false_tattle" /\ step = Len(Script[Attack]) => Call = "lifecycle"
          /\ Attack = "lease_race" => Call \notin {"lifecycle", "attacks"}
      BY <1>1, Calls
    <2>3. Attack = "event_flood" => FloodSound(e, Done(step + 1), Cardinality(FloodStored'))
      <3> SUFFICES ASSUME Attack = "event_flood"
                   PROVE  FloodSound(e, Done(step + 1), Cardinality(FloodStored'))
        OBVIOUS
      <3>1. Done(step) \in Nat /\ Done(step + 1) = Done(step)
        BY <1>1, <1>6, DoneNext
      <3>2. FloodSound(evidence, Done(step), Cardinality(FloodStored))
        BY <1>1 DEF EvidenceInv
      <3> QED
        BY <1>3, <1>4, <2>1, <3>1, <3>2 DEF FloodSound
    <2>4. EvidenceNext(e)
      BY <1>1, <1>3, <2>1, <2>2, <2>3 DEF EvidenceInv, EvidenceNext
    <2> QED
      BY <1>1, <1>2, <2>1, <2>4, ProceedStep
  <1> QED
    BY <1>5, <1>6

LEMMA SleepEndsStep == IInv /\ SleepEnds => IInv'
  <1> SUFFICES ASSUME IInv, SleepEnds PROVE IInv'
    OBVIOUS
  <1>1. /\ TypeOK /\ EvidenceInv /\ phase = "attacking" /\ Call = "sleep"
        /\ Proceed(evidence) /\ UNCHANGED <<busVars, driftVars>>
    BY DEF IInv, SleepEnds
  <1>2. TopicsGrow /\ Cardinality(FloodStored') = Cardinality(FloodStored)
    BY <1>1, NothingStored
  <1> PICK e : e = evidence
    OBVIOUS
  <1>3. Attack = "false_tattle" => step # Len(Script[Attack])
    BY <1>1, Calls
  <1>4. Attack = "event_flood" => FloodSound(e, Done(step + 1), Cardinality(FloodStored'))
    <2>1. Attack = "event_flood" => Done(step + 1) = Done(step)
      BY <1>1, DoneNext
    <2> QED
      BY <1>1, <1>2, <2>1 DEF EvidenceInv
  <1>5. EvidenceNext(e)
    BY <1>1, <1>2, <1>3, <1>4 DEF EvidenceInv, EvidenceNext, TopicsGrow
  <1> QED
    BY <1>1, <1>2, <1>5, ProceedStep DEF TypeOK

\* A result without evidence claims nothing.
LEMMA TimesOutStep == IInv /\ TimesOut => IInv'
  <1> SUFFICES ASSUME IInv, TimesOut PROVE IInv'
    OBVIOUS
  <1>1. /\ TypeOK /\ phase = "attacking" /\ Conclude(TimedOut)
        /\ GiveUp
    BY DEF IInv, TimesOut
  <1>2. TopicsGrow
    BY <1>1, GivenUpGrows
  <1> PICK r : r = TimedOut
    OBVIOUS
  <1>3. /\ r \in Result /\ r.attack = Attack
        /\ r.ended = "timeout" /\ ~r.held /\ r.trigger /\ ~r.cleaned
    BY <1>1, Calls DEF TimedOut, Result
  <1>4. ResultSound(r)'
    BY <1>3 DEF ResultSound
  <1> QED
    BY <1>1, <1>2, <1>3, <1>4, ConcludeStep

\* What an event that comes in late adds to the topics.
LEMMA ArrivesGrows ==
  ASSUME TypeOK, Arrives
  PROVE  TopicsGrow /\ (PhantomInTime' => PhantomInTime)
  <1>1. PICK g \in adrift :
           /\ Stored(g.call) /\ adrift' = adrift \ {g}
           /\ late' = IF g.call \in Commands THEN late \cup {Len(serviceState) + 1} ELSE late
    BY DEF Arrives
  <1>2. /\ serviceState' = IF g.call \in Commands THEN Append(serviceState, g.call)
                         ELSE serviceState
        /\ telemetry' = IF g.call = "flood" THEN Append(telemetry, g.call) ELSE telemetry
        /\ lifecycle' = lifecycle /\ lifecycle \in BOOLEAN
        /\ Len(serviceState) + 1 \in Nat
    BY <1>1 DEF Stored, TypeOK
  <1>3. adrift' \in SUBSET GivenUp /\ late' \in SUBSET Nat /\ late \subseteq late'
    BY <1>1, <1>2 DEF TypeOK
  <1>4. TopicsGrow
    <2>1. UNCHANGED serviceState \/ \E e \in StateEvent : serviceState' = Append(serviceState, e)
      BY <1>2 DEF StateEvent
    <2>2. UNCHANGED telemetry \/ \E e \in Telemetry : telemetry' = Append(telemetry, e)
      BY <1>2 DEF Telemetry
    <2> QED
      BY <1>2, <1>3, <2>1, <2>2, TopicGrows
  <1>5. PhantomInTime' => PhantomInTime
    <2>1. CASE g.call \in Commands
      BY <1>1, <1>2, <1>3, <2>1, PhantomStaysAway
    <2>2. CASE g.call \notin Commands
      BY <1>2, <1>3, <2>2 DEF PhantomInTime
    <2> QED
      BY <2>1, <2>2
  <1> QED
    BY <1>4, <1>5

\* The grid and its services only add to the topics, and register nothing in time.
LEMMA GridStep == IInv /\ Grid => IInv'
  <1> SUFFICES ASSUME IInv, Grid PROVE IInv'
    OBVIOUS
  <1>1. TypeOK /\ EvidenceInv /\ UNCHANGED <<phase, attackVars, results>>
    BY DEF IInv, Grid, Arrives, HonoursBid, FilesTattle, SentinelPublishes
  <1>2. ASSUME ~Arrives
        PROVE  /\ UNCHANGED serviceState \/ serviceState' = Append(serviceState, "transfer")
               /\ UNCHANGED telemetry \/ telemetry' = Append(telemetry, "tattle")
               /\ UNCHANGED lifecycle \/ (~lifecycle /\ lifecycle' = TRUE)
               /\ adrift' = adrift /\ late' = late
    BY <1>2 DEF Grid, HonoursBid, FilesTattle, SentinelPublishes, driftVars
  <1>3. TopicsGrow
    <2>1. CASE Arrives
      BY <1>1, <2>1, ArrivesGrows
    <2>2. CASE ~Arrives
      <3>1. lifecycle' \in BOOLEAN /\ (lifecycle => lifecycle')
        <4>1. lifecycle \in BOOLEAN
          BY <1>1 DEF TypeOK
        <4>2. lifecycle' = lifecycle \/ lifecycle' = TRUE
          BY <1>2, <2>2
        <4> QED
          BY <4>1, <4>2
      <3>2. "transfer" \in StateEvent /\ "tattle" \in Telemetry
        BY DEF StateEvent, Telemetry
      <3>3. adrift' \in SUBSET GivenUp /\ late' \in SUBSET Nat
        BY <1>1, <1>2, <2>2 DEF TypeOK
      <3> QED
        BY <1>1, <1>2, <2>2, <3>1, <3>2, <3>3, TopicGrows
    <2> QED
      BY <2>1, <2>2
  <1>4. PhantomInTime' => PhantomInTime
    <2>1. CASE Arrives
      BY <1>1, <2>1, ArrivesGrows
    <2>2. CASE UNCHANGED <<serviceState, late>>
      BY <2>2 DEF PhantomInTime
    <2>3. CASE serviceState' = Append(serviceState, "transfer") /\ late' = late
      BY <1>1, <2>3, PhantomStaysAway
    <2> QED
      BY <1>2, <2>1, <2>2, <2>3
  <1>5. TypeOK'
    BY <1>1, <1>3 DEF TypeOK, TopicsGrow, attackVars, Attack
  <1>6. EvidenceInv'
    BY <1>1, <1>3, EvidenceStays
  <1>7. ResultsInOrder'
    BY <1>1 DEF IInv, ResultsInOrder, attackVars
  <1>8. \A r \in Range(results') : ResultSound(r)'
    <2>1. \A r \in Range(results) : r \in Result /\ ResultSound(r)
      BY DEF IInv, TypeOK, Range
    <2> QED
      BY <1>1, <1>3, <1>4, <2>1, SoundStays
  <1> QED
    BY <1>5, <1>6, <1>7, <1>8 DEF IInv

\* main() moves along, or nothing does.
LEMMA MainStep == IInv /\ (Startup \/ HeadStart \/ Report \/ UNCHANGED vars) => IInv'
  <1> SUFFICES ASSUME IInv, Startup \/ HeadStart \/ Report \/ UNCHANGED vars PROVE IInv'
    OBVIOUS
  <1>1. UNCHANGED <<at, step, evidence, results, serviceState, telemetry, lifecycle, adrift, late>>
    BY DEF Startup, HeadStart, Report, vars, attackVars, busVars, driftVars
  <1>2. TypeOK'
    BY <1>1 DEF IInv, TypeOK, Startup, HeadStart, Report, vars, Attack
  <1>3. EvidenceInv'
    <2>1. /\ TypeOK /\ EvidenceInv
          /\ UNCHANGED attackVars /\ UNCHANGED <<busVars, driftVars>>
      BY <1>1 DEF IInv, attackVars, busVars, driftVars
    <2> QED
      BY <2>1, NothingStored, EvidenceStays
  <1>4. ResultsInOrder'
    BY <1>1 DEF IInv, ResultsInOrder, Startup, HeadStart, Report, vars
  <1>5. \A r \in Range(results') : ResultSound(r)'
    BY <1>1 DEF IInv, ResultSound, PhantomInTime, FloodStored, FloodSound
  <1> QED
    BY <1>2, <1>3, <1>4, <1>5 DEF IInv

\* A process that is gone remembers nothing.
LEMMA StopStep == IInv /\ Stop => IInv'
  <1> SUFFICES ASSUME IInv, Stop PROVE IInv'
    OBVIOUS
  <1>1. /\ at' = 1 /\ step' = 1 /\ evidence' = NoEvidence(Attacks[1])
        /\ phase' = "stopped" /\ results' = <<>>
    BY DEF Stop
  <1>2. TopicsGrow
    BY GivenUpGrows, NothingStored DEF Stop, IInv
  <1>3. Attack' = "false_tattle" /\ Len(Script[Attack']) \in Nat \ {0} /\ Len(Attacks) = 5
    <2>1. Attack' = Attacks[1] /\ 1 \in 1 .. 5
      BY <1>1 DEF Attack
    <2> QED
      BY <2>1, AttackList, ScriptLengths
  <1>4. /\ evidence' \in Evidence /\ ~evidence'.cleaned
    BY <1>1, AttackList DEF NoEvidence, Evidence
  <1>5. <<>> \in Seq(Result) /\ Len(<<>>) = 0 /\ Range(<<>>) = {}
    BY DEF Range
  <1>6. TypeOK'
    BY <1>1, <1>2, <1>3, <1>4, <1>5 DEF TypeOK, TopicsGrow
  <1>7. EvidenceInv'
    BY <1>3, <1>4 DEF EvidenceInv
  <1>8. ResultsInOrder'
    <2>1. \A i \in 1 .. Len(results') : results'[i].attack = Attacks[i]
      BY <1>1, <1>5
    <2>2. [i \in DOMAIN results' |-> results'[i].attack] = SubSeq(Attacks, 1, Len(results'))
      BY <1>1, <1>5, <2>1, InOrder
    <2> QED
      BY <1>1, <1>5, <2>2 DEF ResultsInOrder
  <1> QED
    BY <1>1, <1>5, <1>6, <1>7, <1>8 DEF IInv

LEMMA NextInv == IInv /\ [Next]_vars => IInv'
  BY CallReturnsStep, CallRaisesStep, SleepEndsStep, TimesOutStep, GridStep, MainStep, StopStep
     DEF Next

-----------------------------------------------------------------------------
(* Theorems. *)

\* The attack that runs, the results of those before it and the topics fit
\* together in every state, whatever the grid answers.
THEOREM Invariant == Spec => []IInv
  BY InitInv, NextInv, PTL DEF Spec

\* Every variable of the playbook and the topics keeps its type; an attack never
\* runs past its last await.
THEOREM TypeCorrect == Spec => []TypeOK
  BY Invariant, PTL DEF IInv

\* Each attack leaves one result, in the order of registration.
THEOREM ResultsAreInOrder == Spec => []ResultsInOrder
  BY Invariant, PTL DEF IInv

\* A verdict has its evidence on the topics, whatever they held when the process
\* started.
THEOREM VerdictsAreFounded == Spec => []VerdictsHaveEvidence
  <1>1. IInv => VerdictsHaveEvidence
    BY DEF IInv, ResultSound, VerdictsHaveEvidence, ResultOf
  <1> QED
    BY <1>1, Invariant, PTL

\* What the flood reports bounds what it did from both sides.
THEOREM FloodEvidenceIsSound == Spec => []FloodEvidenceSound
  <1>1. IInv => FloodEvidenceSound
    BY DEF IInv, ResultSound, FloodSound, FloodEvidenceSound, ResultOf
  <1> QED
    BY <1>1, Invariant, PTL

\* A phantom attack that says it cleaned up has, now and later: no phantom stays
\* registered but by a registration given up that came in late.
THEOREM CleanedIsGone == Spec => []CleanedMeansGone
  <1>1. IInv => CleanedMeansGone
    BY DEF IInv, ResultSound, PhantomInTime, CleanedMeansGone
  <1> QED
    BY <1>1, Invariant, PTL
=============================================================================
