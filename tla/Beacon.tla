------------------------------- MODULE Beacon --------------------------------
(***************************************************************************)
(* The Sovereign Beacon (tier1-sovereign-beacon/app.py): a probe of the    *)
(* configuration, a startup event, a heartbeat task until the grid cancels *)
(* the process, a shutdown event.  Failures of the grid are swallowed; a   *)
(* publication nobody waits for any more may still reach its topic.        *)
(***************************************************************************)
EXTENDS ChaosManager

CONSTANTS
    MaxBeats,           \* bound: heartbeats of one process
    MaxBeatsAdrift,     \* bound: abandoned publications that may still arrive
    BeaconRestarts      \* MaxRestartAttempts of app.manifest.json (3 there)

ASSUME BeaconAssumption ==
    MaxBeats \in Nat /\ MaxBeatsAdrift \in Nat /\ BeaconRestarts \in Nat

VARIABLES
    beacon,         \* where main() and its heartbeat task are
    beatCount,      \* service._heartbeat_count
    beaconRuns,     \* how often the beacon was started; names its events
    beatsAdrift,    \* abandoned publications
    beats           \* both topics: the events stored, in the order they were

beaconVars == <<beacon, beatCount, beaconRuns, beatsAdrift, beats>>

Event == [type : {"startup", "heartbeat", "shutdown"}, run : Nat, count : Nat]

Publishing == {"startup", "heartbeat", "shutdown"}      \* awaiting that event
BeaconOver == {"stopped", "cancelled", "failed"}

BeaconTypeOK ==
    /\ beacon \in {"probe", "waiting", "stopping"} \cup Publishing \cup BeaconOver
    /\ beatCount \in Nat
    /\ beaconRuns \in Nat
    /\ beatsAdrift \in SUBSET Event
    /\ beats \in Seq(Event)

BeaconInit ==
    /\ beacon = "probe"
    /\ beatCount = 0
    /\ beaconRuns = 1
    /\ beatsAdrift = {}
    /\ beats = <<>>

\* The event being published: it carries the count of this moment.
Outgoing == [type |-> beacon, run |-> beaconRuns, count |-> beatCount]

\* The platform stores an event, unless it was told to fail.
Store(e) == ~storageFault /\ beats' = Append(beats, e)

\* A publication nobody waits for: stored, or stored later, or lost.
Abandon ==
    \/ Store(Outgoing) /\ UNCHANGED beatsAdrift
    \/ /\ Cardinality(beatsAdrift) < MaxBeatsAdrift
       /\ beatsAdrift' = beatsAdrift \cup {Outgoing}
       /\ UNCHANGED beats
    \/ UNCHANGED <<beats, beatsAdrift>>

After(event) == IF event = "shutdown" THEN "stopped" ELSE "waiting"

\* The configuration is read or its failure swallowed.
Probed ==
    /\ beacon = "probe"
    /\ beacon' = "startup"
    /\ UNCHANGED <<beatCount, beaconRuns, beatsAdrift, beats>>

\* _publish_event() returns whether the event was stored or its call raised.
PublishReturns ==
    /\ beacon \in Publishing
    /\ Store(Outgoing)
    /\ beacon' = After(beacon)
    /\ UNCHANGED <<beatCount, beaconRuns, beatsAdrift>>

\* Mutation: a heartbeat whose publication failed is taken back.
RaisesUncounted ==
    /\ beacon \in Publishing
    /\ Abandon
    /\ beacon' = After(beacon)
    /\ beatCount' = IF beacon = "heartbeat" THEN beatCount - 1 ELSE beatCount
    /\ UNCHANGED beaconRuns

\* Mutation: _publish_event() takes the count back for whatever event failed.
RaisesTakesBack ==
    /\ beacon \in Publishing
    /\ Abandon
    /\ beacon' = After(beacon)
    /\ beatCount' = beatCount - 1
    /\ UNCHANGED beaconRuns

PublishRaises ==
    /\ beacon \in Publishing
    /\ Abandon
    /\ beacon' = After(beacon)
    /\ UNCHANGED <<beatCount, beaconRuns>>

\* Thirty seconds without a stop: the heartbeat is counted, then published.
Beat ==
    /\ beacon = "waiting" /\ beatCount < MaxBeats
    /\ beatCount' = beatCount + 1
    /\ beacon' = "heartbeat"
    /\ UNCHANGED <<beaconRuns, beatsAdrift, beats>>

\* The grid cancels main(): while the heartbeat task runs, that stops the task,
\* whose publication is abandoned; at any other await it ends the process.
BeaconCancelled ==
    \/ /\ beacon = "waiting" \/ beacon = "heartbeat"
       /\ beacon' = "stopping"
       /\ IF beacon = "heartbeat" THEN Abandon ELSE UNCHANGED <<beatsAdrift, beats>>
       /\ UNCHANGED <<beatCount, beaconRuns>>
    \/ /\ beacon \in {"probe", "startup", "shutdown"}
       /\ beacon' = "cancelled"
       /\ IF beacon = "probe" THEN UNCHANGED <<beatsAdrift, beats>> ELSE Abandon
       /\ UNCHANGED <<beatCount, beaconRuns>>

\* The heartbeat task is over, and main(), cancelled once more or not, goes on
\* to the shutdown event.
BeatTaskEnds ==
    /\ beacon = "stopping"
    /\ beacon' = "shutdown"
    /\ UNCHANGED <<beatCount, beaconRuns, beatsAdrift, beats>>

BeaconKilled ==
    /\ beacon \notin BeaconOver
    /\ beacon' = "failed"
    /\ IF beacon \in Publishing THEN Abandon ELSE UNCHANGED <<beatsAdrift, beats>>
    /\ UNCHANGED <<beatCount, beaconRuns>>

BeaconRestart ==
    /\ beacon = "failed" /\ beaconRuns <= BeaconRestarts
    /\ beacon' = "probe"
    /\ beatCount' = 0
    /\ beaconRuns' = beaconRuns + 1
    /\ UNCHANGED <<beatsAdrift, beats>>

\* An abandoned publication arrives after all.
BeatArrives ==
    \E e \in beatsAdrift :
        /\ Store(e)
        /\ beatsAdrift' = beatsAdrift \ {e}
        /\ UNCHANGED <<beacon, beatCount, beaconRuns>>

BeaconNext ==
    \/ Probed \/ PublishReturns \/ PublishRaises \/ Beat
    \/ BeaconCancelled \/ BeatTaskEnds \/ BeaconKilled
    \/ BeaconRestart \/ BeatArrives

-----------------------------------------------------------------------------
(* What the topics tell of a beacon. *)

IsBeat(e) == e.type = "heartbeat"

\* The count is honest in one direction: get_status() calls it the heartbeats
\* published so far, and no more than that many are ever on the topic, each
\* once; the number in a shutdown event bounds the heartbeats of its process
\* for good, although one abandoned at the shutdown may arrive behind it.
BeatsHonest ==
    /\ \A j, k \in DOMAIN beats : beats[j] = beats[k] => j = k
    /\ \A k \in DOMAIN beats :
          IsBeat(beats[k]) /\ beats[k].run = beaconRuns => beats[k].count \in 1 .. beatCount
    /\ \A j, k \in DOMAIN beats :
          (/\ beats[j].type = "shutdown" /\ IsBeat(beats[k])
           /\ beats[j].run = beats[k].run)
             => beats[k].count <= beats[j].count
=============================================================================
