----------------------------- MODULE CellProofs ------------------------------
(***************************************************************************)
(* What TLAPS proves of the applications of a node, for any deployment and *)
(* whatever happens to the switches: of the beacon, for any number of      *)
(* heartbeats, restarts and abandoned publications; of the chat, for any   *)
(* size of batch, any topic and any number of restarts; and that, with the *)
(* Entropy Engine beside them, everything on the node keeps its type.      *)
(***************************************************************************)
EXTENDS Cell, FiniteSetTheorems, SequenceTheorems, TLAPS

-----------------------------------------------------------------------------
(* The beacon: the inductive invariant, in parts. *)

\* The events on the topics, and with them those that may still arrive there.
Stored == {beats[k] : k \in DOMAIN beats}
Known == Stored \cup beatsAdrift

NoneTwice == \A j, k \in DOMAIN beats : beats[j] = beats[k] => j = k

Once == NoneTwice /\ Stored \cap beatsAdrift = {}

\* What main() of the present process has not published yet is not known: no
\* startup event before it is sent, no heartbeat beyond the count, no shutdown
\* event before the end.
OfThisRun(e) ==
    /\ e.type = "startup" => beacon \notin {"probe", "startup"}
    /\ e.type = "heartbeat" =>
          /\ e.count \in 1 .. beatCount
          /\ beacon = "heartbeat" => e.count < beatCount
    /\ e.type = "shutdown" => beacon \in BeaconOver /\ e.count = beatCount

RunsInv == \A e \in Known : e.run <= beaconRuns /\ (e.run = beaconRuns => OfThisRun(e))

\* A shutdown event totals the heartbeats of its process, stored or adrift.
Totals ==
    \A d, e \in Known :
        (d.type = "shutdown" /\ e.type = "heartbeat" /\ d.run = e.run) => e.count <= d.count

BeaconInv ==
    /\ BeaconTypeOK /\ Once /\ RunsInv /\ Totals
    /\ beacon = "heartbeat" => beatCount >= 1

-----------------------------------------------------------------------------
(* The beacon: publications. *)

LEMMA OutgoingFacts ==
  ASSUME BeaconInv, beacon \in Publishing
  PROVE  /\ Outgoing \in Event
         /\ Outgoing \notin Known
  <1>1. Outgoing \in Event
    BY DEF BeaconInv, BeaconTypeOK, Publishing, Outgoing, Event
  <1>2. ASSUME Outgoing \in Known PROVE FALSE
    <2>1. OfThisRun(Outgoing)
      BY <1>2 DEF BeaconInv, BeaconTypeOK, RunsInv, Outgoing
    <2> QED
      BY <2>1 DEF BeaconInv, BeaconTypeOK, OfThisRun, Outgoing, Publishing, BeaconOver
  <1> QED
    BY <1>1, <1>2

\* An event stored is appended: the topics hold it and what they held.
LEMMA StoreFacts ==
  ASSUME beats \in Seq(Event), NEW e \in Event, Store(e)
  PROVE  /\ beats' \in Seq(Event)
         /\ Stored' = Stored \cup {e}
         /\ NoneTwice /\ e \notin Stored => NoneTwice'
  <1>1. beats' = Append(beats, e)
    BY DEF Store
  <1>2. /\ beats' \in Seq(Event)
        /\ Len(beats') = Len(beats) + 1
        /\ Len(beats) \in Nat
        /\ \A k \in 1 .. Len(beats) : beats'[k] = beats[k]
        /\ beats'[Len(beats) + 1] = e
    BY <1>1
  <1>3. DOMAIN beats = 1 .. Len(beats) /\ DOMAIN beats' = 1 .. Len(beats) + 1
    BY <1>2
  <1>4. Stored' = Stored \cup {e}
    BY <1>2, <1>3 DEF Stored
  <1>5. ASSUME NoneTwice, e \notin Stored PROVE NoneTwice'
    <2> SUFFICES ASSUME NEW j \in DOMAIN beats', NEW k \in DOMAIN beats',
                        beats'[j] = beats'[k], j < k
                 PROVE  FALSE
      BY <1>2, <1>3 DEF NoneTwice
    <2>1. j \in DOMAIN beats /\ beats'[j] = beats[j] /\ beats[j] \in Stored
      BY <1>2, <1>3 DEF Stored
    <2>2. CASE k = Len(beats) + 1
      BY <2>1, <2>2, <1>2, <1>5
    <2>3. CASE k \in DOMAIN beats
      <3>1. beats'[k] = beats[k]
        BY <2>3, <1>2, <1>3
      <3>2. j = k
        BY <2>1, <2>3, <3>1, <1>5 DEF NoneTwice
      <3> QED
        BY <3>2, <1>3
    <2> QED
      BY <2>2, <2>3, <1>2, <1>3
  <1> QED
    BY <1>2, <1>4, <1>5

\* The publication of the event that main() or its heartbeat task awaits ends
\* with that event known, once, or lost.
LEMMA Emitted ==
  ASSUME BeaconInv, beacon \in Publishing,
         Abandon \/ (Store(Outgoing) /\ UNCHANGED beatsAdrift)
  PROVE  /\ beats' \in Seq(Event) /\ beatsAdrift' \in SUBSET Event
         /\ Known' \subseteq Known \cup {Outgoing}
         /\ Once'
  <1>1. Outgoing \in Event /\ Outgoing \notin Known
    BY OutgoingFacts
  <1>2. beats \in Seq(Event) /\ beatsAdrift \in SUBSET Event
    BY DEF BeaconInv, BeaconTypeOK
  <1>3. CASE Store(Outgoing) /\ UNCHANGED beatsAdrift
    <2>1. /\ beats' \in Seq(Event)
          /\ Stored' = Stored \cup {Outgoing}
          /\ NoneTwice /\ Outgoing \notin Stored => NoneTwice'
      BY <1>1, <1>2, <1>3, StoreFacts
    <2> QED
      BY <2>1, <1>1, <1>2, <1>3 DEF BeaconInv, Once, Known
  <1>4. CASE beatsAdrift' = beatsAdrift \cup {Outgoing} /\ UNCHANGED beats
    <2>1. Stored' = Stored /\ (NoneTwice => NoneTwice')
      BY <1>4 DEF Stored, NoneTwice
    <2> QED
      BY <2>1, <1>1, <1>2, <1>4 DEF BeaconInv, Once, Known
  <1>5. CASE UNCHANGED <<beats, beatsAdrift>>
    <2>1. Stored' = Stored /\ (NoneTwice => NoneTwice')
      BY <1>5 DEF Stored, NoneTwice
    <2> QED
      BY <2>1, <1>2, <1>5 DEF BeaconInv, Once, Known
  <1> QED
    BY <1>3, <1>4, <1>5 DEF Abandon

\* A step that stores nothing leaves what is known alone.
LEMMA NothingEmitted ==
  ASSUME BeaconInv, UNCHANGED <<beats, beatsAdrift>>
  PROVE  /\ beats' \in Seq(Event) /\ beatsAdrift' \in SUBSET Event
         /\ Known' = Known
         /\ Once'
  BY DEF BeaconInv, BeaconTypeOK, Once, NoneTwice, Known, Stored

\* A late arrival was known before.
LEMMA ArrivesFacts ==
  ASSUME BeaconInv, BeatArrives
  PROVE  /\ beats' \in Seq(Event) /\ beatsAdrift' \in SUBSET Event
         /\ Known' \subseteq Known
         /\ Once'
  <1>1. PICK e \in beatsAdrift : Store(e) /\ beatsAdrift' = beatsAdrift \ {e}
    BY DEF BeatArrives
  <1>2. /\ beats \in Seq(Event) /\ beatsAdrift \in SUBSET Event
        /\ e \in Event /\ e \notin Stored
    BY <1>1 DEF BeaconInv, BeaconTypeOK, Once
  <1>3. /\ beats' \in Seq(Event)
        /\ Stored' = Stored \cup {e}
        /\ NoneTwice /\ e \notin Stored => NoneTwice'
    BY <1>1, <1>2, StoreFacts
  <1> QED
    BY <1>1, <1>2, <1>3 DEF BeaconInv, Once, Known

-----------------------------------------------------------------------------
(* The beacon: the invariant is inductive. *)

LEMMA BeaconInvInit == Init => BeaconInv
  <1> SUFFICES ASSUME BeaconInit PROVE BeaconInv
    BY DEF Init
  <1>1. beats = <<>> /\ beatsAdrift = {} /\ DOMAIN beats = {}
    BY DEF BeaconInit
  <1>2. Stored = {} /\ Known = {}
    BY <1>1 DEF Stored, Known
  <1> QED
    BY <1>1, <1>2 DEF BeaconInit, BeaconInv, BeaconTypeOK, Once, NoneTwice, RunsInv, Totals,
                      Publishing, BeaconOver

\* A step of the present process that leaves the count alone and emits the
\* awaited event or nothing: what is to be shown of it is about main() only.
LEMMA SameCount ==
  ASSUME BeaconInv,
         \/ /\ beacon \in Publishing
            /\ Abandon \/ (Store(Outgoing) /\ UNCHANGED beatsAdrift)
         \/ UNCHANGED <<beats, beatsAdrift>>,
         UNCHANGED <<beatCount, beaconRuns>>,
         beacon' \in {"startup", "waiting", "stopping", "shutdown"} \cup BeaconOver,
         beacon' = "startup" => beacon = "probe",
         beacon \in BeaconOver => beacon' \in BeaconOver,
         beacon = "shutdown" => beacon' \in BeaconOver
  PROVE  BeaconInv'
  <1> DEFINE New == IF beacon \in Publishing THEN {Outgoing} ELSE {}
  <1>1. /\ beats' \in Seq(Event) /\ beatsAdrift' \in SUBSET Event
        /\ Known' \subseteq Known \cup New
        /\ Once'
    <2>1. CASE UNCHANGED <<beats, beatsAdrift>>
      BY <2>1, NothingEmitted
    <2>2. CASE beacon \in Publishing /\ (Abandon \/ (Store(Outgoing) /\ UNCHANGED beatsAdrift))
      BY <2>2, Emitted
    <2> QED
      BY <2>1, <2>2
  <1>2. BeaconTypeOK'
    BY <1>1 DEF BeaconInv, BeaconTypeOK, Publishing, BeaconOver
  <1>3. Known \subseteq Event
    BY DEF BeaconInv, BeaconTypeOK, Known, Stored
  <1>4. RunsInv'
    <2> SUFFICES ASSUME NEW e \in Known'
                 PROVE  e.run <= beaconRuns' /\ (e.run = beaconRuns' => OfThisRun(e)')
      BY DEF RunsInv
    <2>1. CASE e \in Known
      BY <2>1, <1>3 DEF BeaconInv, BeaconTypeOK, RunsInv, OfThisRun, BeaconOver, Publishing
    <2>2. CASE beacon \in Publishing /\ e = Outgoing
      BY <2>2 DEF BeaconInv, BeaconTypeOK, Outgoing, OfThisRun, BeaconOver, Publishing
    <2> QED
      BY <1>1, <2>1, <2>2
  <1>5. Totals'
    <2> SUFFICES ASSUME NEW d \in Known', NEW e \in Known',
                        d.type = "shutdown", e.type = "heartbeat", d.run = e.run
                 PROVE  e.count <= d.count
      BY DEF Totals
    <2>1. CASE d \in Known /\ e \in Known
      BY <2>1 DEF BeaconInv, Totals
    <2>2. CASE d \in Known /\ beacon \in Publishing /\ e = Outgoing
      <3>1. d.run = beaconRuns /\ beacon = "heartbeat"
        BY <2>2 DEF Outgoing
      <3>2. beacon \in BeaconOver
        BY <2>2, <3>1 DEF BeaconInv, RunsInv, OfThisRun
      <3> QED
        BY <3>1, <3>2 DEF BeaconOver
    <2>3. CASE beacon \in Publishing /\ d = Outgoing /\ e \in Known
      <3>1. e.run = beaconRuns /\ d.count = beatCount
        BY <2>3 DEF Outgoing
      <3>2. e.count \in 1 .. beatCount
        BY <2>3, <3>1 DEF BeaconInv, RunsInv, OfThisRun
      <3> QED
        BY <3>1, <3>2 DEF BeaconInv, BeaconTypeOK
    <2> QED
      BY <1>1, <2>1, <2>2, <2>3
  <1>6. beacon' # "heartbeat"
    BY DEF BeaconOver
  <1> QED
    BY <1>1, <1>2, <1>4, <1>5, <1>6 DEF BeaconInv

LEMMA BeatStep == BeaconInv /\ Beat => BeaconInv'
  <1> SUFFICES ASSUME BeaconInv, Beat PROVE BeaconInv'
    OBVIOUS
  <1>1. /\ beats' \in Seq(Event) /\ beatsAdrift' \in SUBSET Event
        /\ Known' = Known
        /\ Once'
    BY NothingEmitted DEF Beat
  <1>2. Known \subseteq Event
    BY DEF BeaconInv, BeaconTypeOK, Known, Stored
  <1>3. BeaconTypeOK'
    BY <1>1 DEF BeaconInv, BeaconTypeOK, Beat, Publishing
  <1>4. RunsInv'
    <2> SUFFICES ASSUME NEW e \in Known
                 PROVE  e.run <= beaconRuns' /\ (e.run = beaconRuns' => OfThisRun(e)')
      BY <1>1 DEF RunsInv
    <2> QED
      BY <1>2 DEF BeaconInv, BeaconTypeOK, RunsInv, OfThisRun, Beat, BeaconOver
  <1>5. Totals'
    BY <1>1 DEF BeaconInv, Totals
  <1> QED
    BY <1>1, <1>3, <1>4, <1>5 DEF BeaconInv, BeaconTypeOK, Beat

LEMMA RestartStep == BeaconInv /\ BeaconRestart => BeaconInv'
  <1> SUFFICES ASSUME BeaconInv, BeaconRestart PROVE BeaconInv'
    OBVIOUS
  <1>1. /\ beats' \in Seq(Event) /\ beatsAdrift' \in SUBSET Event
        /\ Known' = Known
        /\ Once'
    BY NothingEmitted DEF BeaconRestart
  <1>2. Known \subseteq Event
    BY DEF BeaconInv, BeaconTypeOK, Known, Stored
  <1>3. BeaconTypeOK'
    BY <1>1 DEF BeaconInv, BeaconTypeOK, BeaconRestart
  <1>4. RunsInv'
    <2> SUFFICES ASSUME NEW e \in Known PROVE e.run < beaconRuns'
      BY <1>1, <1>2, <1>3 DEF RunsInv, BeaconTypeOK, Event
    <2> QED
      BY <1>2 DEF BeaconInv, BeaconTypeOK, RunsInv, BeaconRestart, Event
  <1>5. Totals'
    BY <1>1 DEF BeaconInv, Totals
  <1> QED
    BY <1>1, <1>3, <1>4, <1>5 DEF BeaconInv, BeaconRestart

LEMMA ArrivesStep == BeaconInv /\ BeatArrives => BeaconInv'
  <1> SUFFICES ASSUME BeaconInv, BeatArrives PROVE BeaconInv'
    OBVIOUS
  <1>1. /\ beats' \in Seq(Event) /\ beatsAdrift' \in SUBSET Event
        /\ Known' \subseteq Known
        /\ Once'
    BY ArrivesFacts
  <1>2. UNCHANGED <<beacon, beatCount, beaconRuns>>
    BY DEF BeatArrives
  <1>3. BeaconTypeOK' /\ RunsInv' /\ Totals'
    BY <1>1, <1>2 DEF BeaconInv, BeaconTypeOK, RunsInv, OfThisRun, Totals
  <1> QED
    BY <1>1, <1>2, <1>3 DEF BeaconInv

LEMMA BeaconStep == BeaconInv /\ BeaconNext => BeaconInv'
  <1> SUFFICES ASSUME BeaconInv, BeaconNext PROVE BeaconInv'
    OBVIOUS
  <1>1. CASE Probed
    BY <1>1, SameCount DEF Probed, Publishing, BeaconOver
  <1>2. CASE PublishReturns
    BY <1>2, SameCount DEF PublishReturns, After, Publishing, BeaconOver
  <1>3. CASE PublishRaises
    BY <1>3, SameCount DEF PublishRaises, After, Publishing, BeaconOver
  <1>4. CASE Beat
    BY <1>4, BeatStep
  <1>5. CASE BeaconCancelled
    BY <1>5, SameCount DEF BeaconCancelled, Publishing, BeaconOver
  <1>6. CASE BeatTaskEnds
    BY <1>6, SameCount DEF BeatTaskEnds, Publishing, BeaconOver
  <1>7. CASE BeaconKilled
    BY <1>7, SameCount DEF BeaconKilled, Publishing, BeaconOver
  <1>8. CASE BeaconRestart
    BY <1>8, RestartStep
  <1>9. CASE BeatArrives
    BY <1>9, ArrivesStep
  <1> QED
    BY <1>1, <1>2, <1>3, <1>4, <1>5, <1>6, <1>7, <1>8, <1>9 DEF BeaconNext

LEMMA OthersStep == BeaconInv /\ UNCHANGED beaconVars => BeaconInv'
  BY DEF BeaconInv, BeaconTypeOK, Once, NoneTwice, RunsInv, OfThisRun, Totals, Known, Stored,
         beaconVars

-----------------------------------------------------------------------------
(* The beacon: theorems. *)

LEMMA BeaconInvStep == BeaconInv /\ [Next]_vars => BeaconInv'
  <1> SUFFICES ASSUME BeaconInv, [Next]_vars PROVE BeaconInv'
    OBVIOUS
  <1>1. BeaconNext \/ UNCHANGED beaconVars
    BY DEF Next, OfEngine, OfChat, SwitchedElsewhere, vars
  <1> QED
    BY <1>1, BeaconStep, OthersStep

\* What main() of the beacon and its heartbeat task hold, and what the topics
\* and the publications on their way hold, fits together in every state.
THEOREM BeaconInvariant == Spec => []BeaconInv
  BY BeaconInvInit, BeaconInvStep, PTL DEF Spec

\* The heartbeats on the topic are at most as many as get_status() says, none
\* is there twice, and the number in a shutdown event bounds those of its
\* process for good, whatever fails, is cancelled, killed or arrives late.
THEOREM HeartbeatsAreHonest == Spec => []BeatsHonest
  <1>1. BeaconInv => BeatsHonest
    <2> SUFFICES ASSUME BeaconInv PROVE BeatsHonest
      OBVIOUS
    <2>1. \A k \in DOMAIN beats : beats[k] \in Known
      BY DEF Known, Stored
    <2>2. \A k \in DOMAIN beats :
            IsBeat(beats[k]) /\ beats[k].run = beaconRuns => beats[k].count \in 1 .. beatCount
      BY <2>1 DEF BeaconInv, RunsInv, OfThisRun, IsBeat
    <2>3. \A j, k \in DOMAIN beats :
            (/\ beats[j].type = "shutdown" /\ IsBeat(beats[k])
             /\ beats[j].run = beats[k].run)
               => beats[k].count <= beats[j].count
      BY <2>1 DEF BeaconInv, Totals, IsBeat
    <2> QED
      BY <2>2, <2>3 DEF BeaconInv, Once, NoneTwice, BeatsHonest
  <1> QED
    BY <1>1, BeaconInvariant, PTL

-----------------------------------------------------------------------------
(* The chat: the inductive invariant. *)

\* Beside what the user sees: a message lost in print() lies behind the
\* cursor, it is never asked for again.
ChatInv == ChatTypeOK /\ ShownExactly /\ unshown \subseteq 1 .. lastSeq

-----------------------------------------------------------------------------
(* The chat: the lines of a batch. *)

\* The places of the readable messages are the numbers from 1 on, in order.
LEMMA Places ==
  ASSUME lastSeq \in Nat, NEW seq \in Nat
  PROVE  LET N == Cardinality(Readable(seq))
         IN  /\ N \in Nat
             /\ \A n \in Readable(seq) : Place(n, seq) \in 1 .. N
             /\ \A m, n \in Readable(seq) : m < n => Place(m, seq) < Place(n, seq)
             /\ \A k \in 1 .. N : \E n \in Readable(seq) : Place(n, seq) = k
  <1> DEFINE R == Readable(seq)
             N == Cardinality(R)
             UpTo(n) == {m \in R : m <= n}
  <1>1. R \subseteq Nat /\ IsFiniteSet(R) /\ N \in Nat
    <2>1. R \subseteq lastSeq + 1 .. seq /\ IsFiniteSet(lastSeq + 1 .. seq)
      BY FS_Interval DEF Readable
    <2>2. IsFiniteSet(R)
      BY <2>1, FS_Subset
    <2> QED
      BY <2>1, <2>2, FS_CardinalityType
  <1> HIDE DEF R
  <1>2. \A n \in R : Place(n, seq) = Cardinality(UpTo(n))
    BY DEF Place, R
  <1>3. \A n \in R : /\ IsFiniteSet(UpTo(n)) /\ Cardinality(UpTo(n)) \in Nat
                     /\ Cardinality(UpTo(n)) <= N /\ Cardinality(UpTo(n)) >= 1
    <2> SUFFICES ASSUME NEW n \in R
                 PROVE  /\ IsFiniteSet(UpTo(n)) /\ Cardinality(UpTo(n)) \in Nat
                        /\ Cardinality(UpTo(n)) <= N /\ Cardinality(UpTo(n)) >= 1
      OBVIOUS
    <2>1. /\ IsFiniteSet(UpTo(n)) /\ Cardinality(UpTo(n)) \in Nat /\ Cardinality(UpTo(n)) <= N
      BY <1>1, FS_Subset, FS_CardinalityType
    <2>2. n \in UpTo(n)
      BY <1>1
    <2>3. Cardinality(UpTo(n)) # 0
      BY <2>1, <2>2, FS_EmptySet
    <2> QED
      BY <2>1, <2>3
  <1>4. ASSUME NEW m \in R, NEW n \in R, m < n
        PROVE  Cardinality(UpTo(m)) < Cardinality(UpTo(n))
    <2>0. m \in Nat /\ n \in Nat /\ \A x \in R : x \in Nat
      BY <1>1
    <2>1. UpTo(m) \in SUBSET UpTo(n) /\ n \in UpTo(n) /\ n \notin UpTo(m)
      <3>1. \A x \in R : x <= m => x <= n
        BY <2>0, <1>4
      <3>2. n <= n /\ ~(n <= m)
        BY <2>0, <1>4
      <3> QED
        BY <3>1, <3>2
    <2>2. /\ Cardinality(UpTo(m)) <= Cardinality(UpTo(n))
          /\ Cardinality(UpTo(n)) = Cardinality(UpTo(m)) => UpTo(n) = UpTo(m)
      BY <1>3, <2>1, FS_Subset
    <2> QED
      BY <1>3, <2>1, <2>2
  <1>5. \A k \in 1 .. N : \E n \in R : Cardinality(UpTo(n)) = k
    <2> DEFINE place == [n \in R |-> Cardinality(UpTo(n))]
    <2>1. place \in [R -> 1 .. N]
      BY <1>1, <1>3
    <2>2. \A m, n \in R : place[m] = place[n] => m = n
      <3> SUFFICES ASSUME NEW m \in R, NEW n \in R, m # n
                   PROVE  place[m] # place[n]
        OBVIOUS
      <3>1. m < n \/ n < m
        BY <1>1
      <3> QED
        BY <3>1, <1>3, <1>4
    <2>3. place \in Injection(R, 1 .. N)
      BY <2>1, <2>2 DEF Injection, IsInjective
    <2>4. IsFiniteSet(1 .. N) /\ Cardinality(1 .. N) = N
      BY <1>1, FS_Interval
    <2>5. place \in Surjection(R, 1 .. N)
      BY <2>3, <2>4, FS_Injection
    <2> QED
      BY <2>5 DEF Surjection
  <1>6. /\ N \in Nat
        /\ \A n \in R : Place(n, seq) \in 1 .. N
        /\ \A m, n \in R : m < n => Place(m, seq) < Place(n, seq)
        /\ \A k \in 1 .. N : \E n \in R : Place(n, seq) = k
    <2>1. ASSUME NEW n \in R
          PROVE  Place(n, seq) \in 1 .. N
      <3>1. /\ Place(n, seq) = Cardinality(UpTo(n))
            /\ Cardinality(UpTo(n)) \in Nat
            /\ Cardinality(UpTo(n)) <= N /\ Cardinality(UpTo(n)) >= 1
        BY <1>2, <1>3
      <3> HIDE DEF UpTo, N
      <3> QED
        BY <1>1, <3>1
    <2>2. \A m, n \in R : m < n => Place(m, seq) < Place(n, seq)
      BY <1>2, <1>4
    <2>3. \A k \in 1 .. N : \E n \in R : Place(n, seq) = k
      BY <1>2, <1>5
    <2> QED
      BY <1>1, <2>1, <2>2, <2>3
  <1> QED
    BY <1>6 DEF R

\* A batch prints one line for each readable message, in their order.
LEMMA LinesAre ==
  ASSUME lastSeq \in Nat, NEW seq \in Nat
  PROVE  /\ Lines(seq) \in Seq(Line) /\ Len(Lines(seq)) \in Nat
         /\ DOMAIN Lines(seq) = 1 .. Len(Lines(seq))
         /\ \A k \in DOMAIN Lines(seq) :
               /\ Lines(seq)[k].seq \in Readable(seq)
               /\ Lines(seq)[k].verified = (topic[Lines(seq)[k].seq] = "signed")
         /\ \A j, k \in DOMAIN Lines(seq) : j < k => Lines(seq)[j].seq < Lines(seq)[k].seq
         /\ \A n \in Readable(seq) : \E k \in DOMAIN Lines(seq) : Lines(seq)[k].seq = n
  <1> DEFINE R == Readable(seq)
             N == Cardinality(R)
             Nth(k) == CHOOSE n \in R : Place(n, seq) = k
             At(k) == [seq |-> Nth(k), verified |-> topic[Nth(k)] = "signed"]
  <1>1. /\ N \in Nat
        /\ \A n \in R : Place(n, seq) \in 1 .. N
        /\ \A m, n \in R : m < n => Place(m, seq) < Place(n, seq)
        /\ \A k \in 1 .. N : \E n \in R : Place(n, seq) = k
    BY Places
  <1>2. \A k \in 1 .. N : Nth(k) \in R /\ Place(Nth(k), seq) = k
    BY <1>1
  <1>3. R \subseteq Nat
    BY DEF Readable
  <1>4. Lines(seq) = [k \in 1 .. N |-> At(k)]
    BY DEF Lines
  <1> HIDE DEF R, N, Nth
  <1>5. \A k \in 1 .. N : At(k) \in Line
    <2>1. \A k : (topic[Nth(k)] = "signed") \in BOOLEAN
      OBVIOUS
    <2> QED
      BY <1>2, <1>3, <2>1 DEF Line
  <1>6. Lines(seq) \in Seq(Line) /\ Len(Lines(seq)) = N /\ DOMAIN Lines(seq) = 1 .. N
    BY <1>1, <1>4, <1>5, IsASeq
  <1>7. \A k \in 1 .. N : /\ Lines(seq)[k].seq = Nth(k)
                          /\ Lines(seq)[k].verified = (topic[Nth(k)] = "signed")
    BY <1>4
  <1>8. ASSUME NEW j \in 1 .. N, NEW k \in 1 .. N, j < k
        PROVE  Nth(j) < Nth(k)
    <2>1. Nth(j) \in Nat /\ Nth(k) \in Nat
      BY <1>2, <1>3
    <2>2. Nth(k) < Nth(j) => k < j
      BY <1>1, <1>2
    <2>3. Nth(k) # Nth(j)
      BY <1>2, <1>8
    <2> QED
      BY <1>8, <2>1, <2>2, <2>3
  <1>9. ASSUME NEW n \in R
        PROVE  \E k \in 1 .. N : Nth(k) = n
    <2>1. Place(n, seq) \in 1 .. N
      BY <1>1
    <2> PICK k \in 1 .. N : k = Place(n, seq)
      BY <2>1
    <2>2. Nth(k) \in R /\ Place(Nth(k), seq) = k /\ Place(n, seq) = k
      BY <1>2
    <2>3. ~(Nth(k) < n) /\ ~(n < Nth(k)) /\ k \in Nat
      BY <1>1, <2>2
    <2>4. Nth(k) \in Nat /\ n \in Nat
      BY <1>3, <2>2
    <2>5. Nth(k) = n
      BY <2>3, <2>4
    <2> QED
      BY <2>5
  <1> QED
    BY <1>1, <1>2, <1>6, <1>7, <1>8, <1>9 DEF R

-----------------------------------------------------------------------------
(* The chat: the invariant is inductive. *)

LEMMA ChatTypes ==
  ASSUME ChatInv
  PROVE  /\ topic \in Seq(Message) /\ Len(topic) \in Nat /\ DOMAIN topic = 1 .. Len(topic)
         /\ shown \in Seq(Line) /\ Len(shown) \in Nat /\ DOMAIN shown = 1 .. Len(shown)
         /\ lastSeq \in Nat /\ lastSeq <= Len(topic)
         /\ unshown \in SUBSET Nat
         /\ \A k \in DOMAIN shown : shown[k].seq \in Nat
  BY DEF ChatInv, ChatTypeOK, ShownExactly, Line

LEMMA ChatInvInit == Init => ChatInv
  <1> SUFFICES ASSUME ChatInit PROVE ChatInv
    BY DEF Init
  <1>1. /\ <<>> \in Seq(Message) /\ <<>> \in Seq(Line)
        /\ DOMAIN <<>> = {} /\ Len(<<>>) = 0
    BY EmptySeq
  <1>2. ChatTypeOK
    BY <1>1 DEF ChatInit, ChatTypeOK
  <1>3. ShownExactly /\ unshown \subseteq 1 .. lastSeq
    BY <1>1 DEF ChatInit, ShownExactly
  <1> QED
    BY <1>2, <1>3 DEF ChatInv

\* The cursor moves to last, the lines of the messages up to seq are printed,
\* and those behind seq, if any, are the ones lost in print().
LEMMA Printed ==
  ASSUME ChatInv, NEW seq \in Nat, NEW last \in Nat,
         lastSeq <= seq, seq <= last, last <= Len(topic),
         lastSeq' = last, topic' = topic,
         shown' = shown \o Lines(seq), unshown' = unshown \cup (seq + 1 .. last)
  PROVE  /\ ShownExactly' /\ unshown' \subseteq 1 .. lastSeq'
         /\ shown' \in Seq(Line) /\ unshown' \in SUBSET Nat
  <1> DEFINE new == Lines(seq)
             n == Len(shown)
             m == Len(new)
  <1>1. /\ topic \in Seq(Message) /\ Len(topic) \in Nat /\ DOMAIN topic = 1 .. Len(topic)
        /\ shown \in Seq(Line) /\ n \in Nat /\ DOMAIN shown = 1 .. n
        /\ lastSeq \in Nat /\ unshown \subseteq 1 .. lastSeq
        /\ \A k \in 1 .. n : shown[k].seq \in Nat
    BY ChatTypes DEF ChatInv
  <1>2. /\ new \in Seq(Line) /\ m \in Nat /\ DOMAIN new = 1 .. m
        /\ \A k \in 1 .. m : /\ new[k].seq \in Readable(seq)
                             /\ new[k].verified = (topic[new[k].seq] = "signed")
        /\ \A j, k \in 1 .. m : j < k => new[j].seq < new[k].seq
        /\ \A x \in Readable(seq) : \E k \in 1 .. m : new[k].seq = x
    <2>1. /\ new \in Seq(Line) /\ m \in Nat /\ DOMAIN new = 1 .. m
          /\ \A k \in DOMAIN new : /\ new[k].seq \in Readable(seq)
                                   /\ new[k].verified = (topic[new[k].seq] = "signed")
          /\ \A j, k \in DOMAIN new : j < k => new[j].seq < new[k].seq
          /\ \A x \in Readable(seq) : \E k \in DOMAIN new : new[k].seq = x
      BY <1>1, LinesAre, Zenon
    <2> HIDE DEF new
    <2> QED
      BY <2>1
  <1> HIDE DEF new
  <1>3. /\ shown' \in Seq(Line) /\ Len(shown') = n + m /\ DOMAIN shown' = 1 .. n + m
        /\ \A k \in 1 .. n : shown'[k] = shown[k]
        /\ \A k \in 1 .. m : shown'[n + k] = new[k]
    <2>1. /\ shown \o new \in Seq(Line) /\ Len(shown \o new) = n + m
          /\ \A k \in 1 .. n + m : (shown \o new)[k] = IF k <= n THEN shown[k] ELSE new[k - n]
      BY <1>1, <1>2, ConcatProperties
    <2>2. \A k \in 1 .. m : n + k \in 1 .. n + m /\ ~(n + k <= n) /\ (n + k) - n = k
      BY <1>1, <1>2
    <2>3. \A k \in 1 .. n : k \in 1 .. n + m /\ k <= n
      BY <1>1, <1>2
    <2>4. shown' = shown \o new
      BY DEF new
    <2> QED
      BY <1>1, <1>2, <2>1, <2>2, <2>3, <2>4
  <1>4. \A k \in 1 .. n + m : k \in 1 .. n \/ \E i \in 1 .. m : k = n + i
    <2> SUFFICES ASSUME NEW k \in 1 .. n + m, k \notin 1 .. n
                 PROVE  \E i \in 1 .. m : k = n + i
      OBVIOUS
    <2>1. k - n \in 1 .. m /\ k = n + (k - n)
      BY <1>1, <1>2
    <2> QED
      BY <2>1
  <1>5. \A x \in Readable(seq) : x \in lastSeq + 1 .. seq /\ topic[x] # "garbled"
    BY DEF Readable
  <1>6. /\ \A k \in 1 .. n : /\ shown[k].seq \in 1 .. lastSeq /\ shown[k].seq \notin unshown
                             /\ topic[shown[k].seq] = IF shown[k].verified THEN "signed" ELSE "unsigned"
        /\ \A j, k \in 1 .. n : j < k => shown[j].seq < shown[k].seq
        /\ \A x \in 1 .. lastSeq : \/ topic[x] = "garbled" \/ x \in unshown
                                   \/ \E k \in 1 .. n : shown[k].seq = x
    BY <1>1 DEF ChatInv, ShownExactly
  <1>7. ASSUME NEW j \in 1 .. n + m, NEW k \in 1 .. n + m, j < k
        PROVE  shown'[j].seq < shown'[k].seq
    <2>1. CASE j \in 1 .. n /\ k \in 1 .. n
      BY <1>3, <1>6, <1>7, <2>1
    <2>2. ASSUME NEW i \in 1 .. m, k = n + i, j \in 1 .. n
          PROVE  shown'[j].seq < shown'[k].seq
      <3>1. shown[j].seq \in 1 .. lastSeq /\ new[i].seq \in lastSeq + 1 .. seq
        BY <1>2, <1>5, <1>6, <2>2
      <3> QED
        BY <1>1, <1>3, <2>2, <3>1
    <2>3. ASSUME NEW h \in 1 .. m, NEW i \in 1 .. m, j = n + h, k = n + i
          PROVE  shown'[j].seq < shown'[k].seq
      <3>1. h < i
        BY <1>1, <1>7, <2>3
      <3> QED
        BY <1>2, <1>3, <2>3, <3>1
    <2>4. CASE j \notin 1 .. n /\ k \in 1 .. n
      BY <1>1, <1>2, <1>7, <2>4
    <2> QED
      BY <1>4, <2>1, <2>2, <2>3, <2>4
  <1>8. ASSUME NEW k \in 1 .. n + m
        PROVE  /\ shown'[k].seq \in 1 .. last /\ shown'[k].seq \notin unshown'
               /\ topic[shown'[k].seq] = IF shown'[k].verified THEN "signed" ELSE "unsigned"
    <2>1. CASE k \in 1 .. n
      <3>1. shown[k].seq \in 1 .. lastSeq /\ shown[k].seq \notin unshown
        BY <1>6, <2>1
      <3>2. shown[k].seq \in 1 .. last /\ shown[k].seq \notin seq + 1 .. last
        BY <1>1, <3>1
      <3> QED
        BY <1>3, <1>6, <2>1, <3>1, <3>2
    <2>2. ASSUME NEW i \in 1 .. m, k = n + i
          PROVE  /\ shown'[k].seq \in 1 .. last /\ shown'[k].seq \notin unshown'
                 /\ topic[shown'[k].seq] = IF shown'[k].verified THEN "signed" ELSE "unsigned"
      <3>1. /\ shown'[k] = new[i]
            /\ new[i].seq \in lastSeq + 1 .. seq /\ topic[new[i].seq] # "garbled"
            /\ new[i].verified = (topic[new[i].seq] = "signed")
        BY <1>2, <1>3, <1>5, <2>2
      <3>2. /\ new[i].seq \in 1 .. last /\ new[i].seq \notin seq + 1 .. last
            /\ new[i].seq \notin 1 .. lastSeq
        BY <1>1, <3>1
      <3>3. topic[new[i].seq] \in {"signed", "unsigned"}
        <4>1. new[i].seq \in 1 .. Len(topic)
          BY <1>1, <3>2
        <4>2. topic[new[i].seq] \in Message
          BY <1>1, <4>1
        <4> QED
          BY <3>1, <4>2 DEF Message
      <3>4. new[i].seq \notin unshown'
        BY <1>1, <3>2
      <3> QED
        BY <3>1, <3>2, <3>3, <3>4
    <2> QED
      BY <1>4, <2>1, <2>2
  <1>9. ASSUME NEW x \in 1 .. last
        PROVE  topic[x] = "garbled" \/ x \in unshown' \/ \E k \in 1 .. n + m : shown'[k].seq = x
    <2>1. CASE x \in 1 .. lastSeq
      <3>1. \A k \in 1 .. n : k \in 1 .. n + m /\ shown'[k] = shown[k]
        BY <1>1, <1>2, <1>3
      <3>2. topic[x] = "garbled" \/ x \in unshown \/ \E k \in 1 .. n : shown[k].seq = x
        BY <1>6, <2>1
      <3>3. x \in unshown => x \in unshown'
        OBVIOUS
      <3>4. ASSUME NEW k \in 1 .. n, shown[k].seq = x
            PROVE  \E i \in 1 .. n + m : shown'[i].seq = x
        BY <3>1, <3>4
      <3>5. CASE \E k \in 1 .. n : shown[k].seq = x
        <4>1. PICK k \in 1 .. n : shown[k].seq = x
          BY <3>5
        <4>2. \E i \in 1 .. n + m : shown'[i].seq = x
          BY <3>4, <4>1
        <4> QED
          BY <4>2
      <3> QED
        <4>1. CASE topic[x] = "garbled"
          BY <4>1
        <4>2. CASE x \in unshown
          BY <3>3, <4>2
        <4> QED
          BY <3>2, <3>5, <4>1, <4>2
    <2>2. CASE x \in lastSeq + 1 .. seq
      <3>1. topic[x] = "garbled" \/ x \in Readable(seq)
        BY <2>2 DEF Readable
      <3>2. ASSUME x \in Readable(seq)
            PROVE  \E k \in 1 .. n + m : shown'[k].seq = x
        <4>1. PICK i \in 1 .. m : new[i].seq = x
          BY <1>2, <3>2
        <4>2. n + i \in 1 .. n + m /\ shown'[n + i] = new[i]
          BY <1>1, <1>2, <1>3
        <4> QED
          BY <4>1, <4>2
      <3> QED
        BY <3>1, <3>2
    <2>3. CASE x \in seq + 1 .. last
      BY <2>3
    <2>4. x \in 1 .. lastSeq \/ x \in lastSeq + 1 .. seq \/ x \in seq + 1 .. last
      BY <1>1
    <2> QED
      BY <2>1, <2>2, <2>3, <2>4
  <1>10. ShownExactly'
    BY <1>3, <1>7, <1>8, <1>9 DEF ShownExactly
  <1>11. unshown' \subseteq 1 .. lastSeq'
    BY <1>1
  <1> QED
    BY <1>3, <1>10, <1>11

\* A batch shown to its end, or up to the one where printing raised.
LEMMA BatchStep == ChatInv /\ (BatchShown \/ PrintFails) => ChatInv'
  <1> SUFFICES ASSUME ChatInv, BatchShown \/ PrintFails PROVE ChatInv'
    OBVIOUS
  <1>1. /\ lastSeq \in Nat /\ lastSeq <= Len(topic) /\ Len(topic) \in Nat
        /\ BatchEnd \in Nat /\ lastSeq <= BatchEnd /\ BatchEnd <= Len(topic)
    BY ChatTypes, ChatAssumption DEF BatchEnd
  <1>2. \E seq \in Nat, last \in Nat :
           /\ lastSeq <= seq /\ seq <= last /\ last <= Len(topic)
           /\ lastSeq' = last /\ topic' = topic
           /\ shown' = shown \o Lines(seq) /\ unshown' = unshown \cup (seq + 1 .. last)
    <2>1. CASE BatchShown
      <3>1. BatchEnd + 1 .. BatchEnd = {}
        BY <1>1
      <3>2. /\ lastSeq' = BatchEnd /\ topic' = topic /\ unshown' = unshown
            /\ shown' = shown \o Lines(BatchEnd)
        BY <2>1 DEF BatchShown
      <3>3. unshown' = unshown \cup (BatchEnd + 1 .. BatchEnd)
        BY <3>1, <3>2
      <3> QED
        BY <1>1, <3>2, <3>3
    <2>2. CASE PrintFails
      <3>1. PICK seq \in lastSeq + 1 .. BatchEnd :
               /\ lastSeq' = seq /\ topic' = topic
               /\ \/ shown' = shown \o Lines(seq - 1) /\ unshown' = unshown \cup {seq}
                  \/ shown' = shown \o Lines(seq) /\ unshown' = unshown
        BY <2>2 DEF PrintFails
      <3>2. /\ seq - 1 \in Nat /\ seq \in Nat /\ lastSeq <= seq - 1 /\ seq - 1 <= seq
            /\ lastSeq <= seq /\ seq <= seq /\ seq <= Len(topic)
        BY <1>1
      <3>3. (seq - 1) + 1 .. seq = {seq} /\ seq + 1 .. seq = {}
        BY <3>2
      <3>4. CASE shown' = shown \o Lines(seq - 1) /\ unshown' = unshown \cup {seq}
        BY <3>1, <3>2, <3>3, <3>4
      <3>5. CASE shown' = shown \o Lines(seq) /\ unshown' = unshown
        <4>1. unshown' = unshown \cup (seq + 1 .. seq)
          BY <3>3, <3>5
        <4> QED
          BY <3>1, <3>2, <3>5, <4>1
      <3> QED
        BY <3>1, <3>4, <3>5
    <2> QED
      BY <2>1, <2>2
  <1>3. /\ ShownExactly' /\ unshown' \subseteq 1 .. lastSeq'
        /\ shown' \in Seq(Line) /\ unshown' \in SUBSET Nat /\ lastSeq' \in Nat
    BY <1>2, Printed
  <1>4. ChatTypeOK'
    BY <1>3 DEF ChatInv, ChatTypeOK, BatchShown, PrintFails
  <1> QED
    BY <1>3, <1>4 DEF ChatInv

\* One message more on the topic, or none, and the listener where it was.
LEMMA TopicStep ==
  ASSUME ChatInv, UNCHANGED <<lastSeq, shown, unshown>>,
         UNCHANGED topic \/ \E x \in Message : topic' = Append(topic, x)
  PROVE  ShownExactly' /\ unshown' \subseteq 1 .. lastSeq' /\ topic' \in Seq(Message)
  <1>1. /\ topic \in Seq(Message) /\ Len(topic) \in Nat
        /\ lastSeq \in Nat /\ lastSeq <= Len(topic)
    BY ChatTypes
  <1>2. /\ topic' \in Seq(Message) /\ Len(topic) <= Len(topic') /\ Len(topic') \in Nat
        /\ \A k \in 1 .. Len(topic) : topic'[k] = topic[k]
    BY <1>1
  <1>3. \A k \in 1 .. lastSeq : topic'[k] = topic[k]
    BY <1>1, <1>2
  <1>4. lastSeq' <= Len(topic')
    BY <1>1, <1>2
  <1>5. ShownExactly'
    BY <1>3, <1>4 DEF ChatInv, ShownExactly
  <1> QED
    BY <1>2, <1>5 DEF ChatInv

LEMMA ChatRestartStep == ChatInv /\ ChatRestart => ChatInv'
  <1> SUFFICES ASSUME ChatInv, ChatRestart PROVE ChatInv'
    OBVIOUS
  <1>1. /\ lastSeq' = 0 /\ shown' = <<>> /\ unshown' = {} /\ topic' = topic
        /\ <<>> \in Seq(Line) /\ DOMAIN <<>> = {} /\ Len(topic) \in Nat
    BY EmptySeq, ChatTypes DEF ChatRestart, Started
  <1>2. ShownExactly' /\ unshown' \subseteq 1 .. lastSeq'
    BY <1>1 DEF ShownExactly
  <1>3. ChatTypeOK'
    BY <1>1 DEF ChatInv, ChatTypeOK, ChatRestart, Started
  <1> QED
    BY <1>2, <1>3 DEF ChatInv

LEMMA ChatInvStep == ChatInv /\ [Next]_vars => ChatInv'
  <1> SUFFICES ASSUME ChatInv, [Next]_vars PROVE ChatInv'
    OBVIOUS
  <1>1. CASE BatchShown \/ PrintFails
    BY <1>1, BatchStep
  <1>2. CASE ChatRestart
    BY <1>2, ChatRestartStep
  <1>3. CASE \/ LineTyped \/ InputEnds \/ ExitTyped \/ LinePublished \/ PublishFails
             \/ ChatCloses \/ ChatDies \/ ConsumeRaises \/ ListenerWakes \/ MessageArrives
    <2>1. /\ UNCHANGED <<lastSeq, shown, unshown>>
          /\ UNCHANGED topic \/ \E x \in Message : topic' = Append(topic, x)
      BY <1>3 DEF LineTyped, InputEnds, ExitTyped, LinePublished, PublishFails, LineStored,
                  ChatCloses, ChatDies, ConsumeRaises, ListenerWakes, MessageArrives,
                  listenerVars, Message
    <2>2. ShownExactly' /\ unshown' \subseteq 1 .. lastSeq' /\ topic' \in Seq(Message)
      BY <2>1, TopicStep
    <2>3. ChatTypeOK'
      BY <1>3, <2>1, <2>2
         DEF ChatInv, ChatTypeOK, LineTyped, InputEnds, ExitTyped, LinePublished, PublishFails,
             ChatCloses, ChatDies, ConsumeRaises, ListenerWakes, MessageArrives, listenerVars
    <2> QED
      BY <2>2, <2>3 DEF ChatInv
  <1>4. CASE UNCHANGED chatVars
    <2>1. ChatTypeOK'
      BY <1>4 DEF ChatInv, ChatTypeOK, chatVars
    <2>2. ShownExactly' /\ unshown' \subseteq 1 .. lastSeq'
      BY <1>4, TopicStep DEF chatVars
    <2> QED
      BY <2>1, <2>2 DEF ChatInv
  <1> QED
    BY <1>1, <1>2, <1>3, <1>4 DEF Next, ChatNext, OfEngine, OfBeacon, SwitchedElsewhere, vars

-----------------------------------------------------------------------------
(* The chat: theorems. *)

\* The cursor, what is printed and the topic fit together in every state.
THEOREM ChatInvariant == Spec => []ChatInv
  BY ChatInvInit, ChatInvStep, PTL DEF Spec

\* Each readable message up to the cursor is printed once, in order and under
\* its own badge, but for those lost in print().
THEOREM MessagesAreShown == Spec => []ShownExactly
  BY ChatInvariant, PTL DEF ChatInv

-----------------------------------------------------------------------------
(* The types of the whole node. *)

EngineInv == SwitchesOK /\ EntropyTypeOK

\* The platform sets one switch to what the method means.
LEMMA Switched == ASSUME NEW op, Switch(op), SwitchesOK PROVE SwitchesOK'
  <1>1. \A m \in DOMAIN Suspension : Suspension[m] \in BOOLEAN
    <2>1. DOMAIN Suspension = {"isolate", "heal"}
      BY DEF Suspension
    <2>2. Suspension.isolate \in BOOLEAN
      BY DEF Suspension
    <2>3. Suspension.heal \in BOOLEAN
      BY DEF Suspension
    <2> QED
      BY <2>1, <2>2, <2>3
  <1>2. \A m \in DOMAIN Fault : Fault[m] \in BOOLEAN
    <2>1. DOMAIN Fault = {"failStorage", "restoreStorage"}
      BY DEF Fault
    <2>2. Fault.failStorage \in BOOLEAN
      BY DEF Fault
    <2>3. Fault.restoreStorage \in BOOLEAN
      BY DEF Fault
    <2> QED
      BY <2>1, <2>2, <2>3
  <1> QED
    BY Zenon, <1>1, <1>2 DEF Switch, SwitchesOK

\* A call is replaced, forgotten or moved on.
LEMMA CallMoved ==
  ASSUME EntropyTypeOK, NEW c \in CallIds,
         \/ \E op \in Methods : calls' = [calls EXCEPT ![c] = [op |-> op, at |-> "queued"]]
         \/ Drop(c)
         \/ calls[c] # NoCall /\ \E at \in {"sent", "applied", "adrift"} : Move(c, at)
  PROVE  calls' \in [CallIds -> Call \cup {NoCall}]
  <1>1. calls \in [CallIds -> Call \cup {NoCall}]
    BY DEF EntropyTypeOK
  <1>2. CASE \E op \in Methods : calls' = [calls EXCEPT ![c] = [op |-> op, at |-> "queued"]]
    <2>1. PICK op \in Methods : calls' = [calls EXCEPT ![c] = [op |-> op, at |-> "queued"]]
      BY <1>2
    <2>2. [op |-> op, at |-> "queued"] \in Call
      BY DEF Call
    <2> QED
      BY <1>1, <2>1, <2>2
  <1>3. CASE Drop(c)
    BY <1>1, <1>3 DEF Drop
  <1>4. CASE calls[c] # NoCall /\ \E at \in {"sent", "applied", "adrift"} : Move(c, at)
    <2>1. PICK at \in {"sent", "applied", "adrift"} : calls' = [calls EXCEPT ![c].at = at]
      BY <1>4 DEF Move
    <2>2. calls[c] \in Call
      BY <1>1, <1>4
    <2>3. [calls[c] EXCEPT !.at = at] \in Call
      BY <2>2 DEF Call
    <2> QED
      BY <1>1, <2>1, <2>3
  <1> QED
    BY <1>2, <1>3, <1>4

\* The engine and the platform keep the switches and the calls well typed.
LEMMA EngineStep == EngineInv /\ EntropyNext => EngineInv'
  <1> SUFFICES ASSUME EngineInv, EntropyNext PROVE EngineInv'
    OBVIOUS
  <1> USE DEF EngineInv
  <1>1. ASSUME NEW c \in CallIds,
               \/ CallArrives(c) \/ TriggerCpuStress(c) \/ MethodCalls(c)
               \/ RequestApplied(c) \/ RequestLost(c) \/ MethodReturns(c) \/ MethodRaises(c)
        PROVE  EngineInv'
    <2>1. calls' \in [CallIds -> Call \cup {NoCall}]
      BY <1>1, CallMoved DEF CallArrives, TriggerCpuStress, MethodCalls, RequestApplied,
                             RequestLost, MethodReturns, MethodRaises, NoCall
    <2>2. SwitchesOK'
      <3>1. CASE RequestApplied(c)
        BY <3>1, Switched DEF RequestApplied
      <3>2. CASE UNCHANGED switches
        BY <3>2 DEF SwitchesOK, switches
      <3> QED
        BY <1>1, <3>1, <3>2 DEF CallArrives, TriggerCpuStress, MethodCalls, RequestLost,
                                MethodReturns, MethodRaises
    <2>3. /\ engine' = engine /\ engineRuns' = engineRuns /\ burning' = burning
          /\ burns' = burns \/ (burns < MaxBurns /\ burns' = burns + 1)
      BY <1>1 DEF CallArrives, TriggerCpuStress, MethodCalls, RequestApplied, RequestLost,
                  MethodReturns, MethodRaises
    <2>4. burns' \in 0 .. MaxBurns
      BY <2>3, EntropyAssumption DEF EntropyTypeOK
    <2> QED
      BY <2>1, <2>2, <2>3, <2>4 DEF EntropyTypeOK
  <1>2. CASE BurnStarts \/ BurnEnds
    <2>1. UNCHANGED <<engine, calls, engineRuns, switches>> /\ burning' \in BOOLEAN
      BY <1>2 DEF BurnStarts, BurnEnds
    <2>2. burns' = burns \/ (burns > 0 /\ burns' = burns - 1)
      BY <1>2 DEF BurnStarts, BurnEnds
    <2>3. burns' \in 0 .. MaxBurns
      BY <2>2, EntropyAssumption DEF EntropyTypeOK
    <2> QED
      BY <2>1, <2>3 DEF EntropyTypeOK, SwitchesOK, switches
  <1>3. CASE LoopTurns
    BY <1>3 DEF LoopTurns, EntropyTypeOK, SwitchesOK, switches
  <1>4. CASE EngineFails
    <2>1. ASSUME NEW c \in CallIds, calls[c].at \in {"sent", "adrift"}
          PROVE  [calls[c] EXCEPT !.at = "adrift"] \in Call
      <3>1. calls[c] \in Call
        BY <2>1 DEF EntropyTypeOK, NoCall
      <3> QED
        BY <3>1 DEF Call
    <2>2. calls' \in [CallIds -> Call \cup {NoCall}]
      BY <1>4, <2>1 DEF EngineFails
    <2> QED
      <3>1. engine' = "failed" /\ burning' = FALSE /\ UNCHANGED <<engineRuns, switches>>
        BY <1>4 DEF EngineFails
      <3>2. burns' \in 0 .. MaxBurns
        BY <1>4, EntropyAssumption DEF EngineFails
      <3> QED
        BY <2>2, <3>1, <3>2 DEF EntropyTypeOK, SwitchesOK, switches
  <1>5. CASE EngineRestart
    BY <1>5, EntropyAssumption DEF EngineRestart, EntropyTypeOK, SwitchesOK, switches
  <1> QED
    BY <1>1, <1>2, <1>3, <1>4, <1>5 DEF EntropyNext

LEMMA EngineInvStep == EngineInv /\ [Next]_vars => EngineInv'
  <1> SUFFICES ASSUME EngineInv, [Next]_vars PROVE EngineInv'
    OBVIOUS
  <1>1. CASE EntropyNext
    BY <1>1, EngineStep
  <1>2. CASE SwitchedElsewhere
    BY <1>2, Switched DEF SwitchedElsewhere, EngineInv, EntropyTypeOK, engineVars
  <1>3. CASE UNCHANGED <<switches, engineVars>>
    BY <1>3 DEF EngineInv, EntropyTypeOK, SwitchesOK, switches, engineVars
  <1> QED
    BY <1>1, <1>2, <1>3 DEF Next, OfBeacon, OfChat, vars

\* On a node of any deployment every variable of every application, and of the
\* switches they share, keeps its type.
THEOREM TypeCorrect == Spec => []TypeOK
  <1>1. Init => EngineInv /\ deployed \in Deployments
    <2> SUFFICES ASSUME Init PROVE EngineInv /\ deployed \in Deployments
      OBVIOUS
    <2>1. SwitchesOK /\ deployed \in Deployments
      BY Zenon DEF Init, SwitchesInit, SwitchesOK
    <2>2. EntropyTypeOK
      <3>1. /\ engine = "status" /\ engineRuns = 1
            /\ calls \in [CallIds -> Call \cup {NoCall}]
        BY DEF Init, EntropyInit
      <3>2. burning \in BOOLEAN
        BY Zenon DEF Init, EntropyInit
      <3>3. engineRuns \in 1 .. EngineRestarts + 1 /\ burns \in 0 .. MaxBurns
        BY <3>1, EntropyAssumption DEF Init, EntropyInit
      <3> QED
        BY <3>1, <3>2, <3>3 DEF EntropyTypeOK
    <2> QED
      BY <2>1, <2>2 DEF EngineInv
  <1>2. deployed \in Deployments /\ [Next]_vars => (deployed \in Deployments)'
    BY DEF Next, OfEngine, OfBeacon, OfChat, SwitchedElsewhere, vars
  <1>3. BeaconInv => BeaconTypeOK
    BY DEF BeaconInv
  <1>4. ChatInv => ChatTypeOK
    BY DEF ChatInv
  <1>5. EngineInv /\ BeaconTypeOK /\ ChatTypeOK /\ deployed \in Deployments => TypeOK
    BY DEF TypeOK, EngineInv
  <1> QED
    BY <1>1, <1>2, <1>3, <1>4, <1>5, EngineInvStep, BeaconInvariant, ChatInvariant, PTL DEF Spec
=============================================================================
