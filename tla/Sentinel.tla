------------------------------ MODULE Sentinel ------------------------------
(***************************************************************************)
(* The grid-gauntlet sentinel (tier2-grid-gauntlet/sentinel): main(), its   *)
(* health loop and its three subscribe() monitors as tasks of one event    *)
(* loop, the InvariantChecker they share (invariants.py), and the grid     *)
(* that delivers events, duplicated and out of order if it likes, and may  *)
(* break any stream.  A task runs from one await to the next undisturbed.  *)
(***************************************************************************)
EXTENDS Naturals, Sequences, FiniteSetsExt

CONSTANTS
    Topics,         \* the topics whose order is monitored (two in the code)
    Telemetry,      \* system.telemetry, where tattles arrive
    Tokens,         \* numbers AURAGRID_FENCING_TOKEN may hold
    MaxSeq,         \* bound: sequence numbers of a topic
    MaxEvents,      \* bound: events delivered to all monitors
    MaxCycles,      \* bound: cycles of the health loop
    MaxCalls        \* bound: remote calls of run_check_cycle

ASSUME SentinelAssumption ==
    /\ Tokens \subseteq Nat /\ Telemetry \notin Topics /\ "token" \notin Topics
    /\ MaxSeq \in Nat /\ MaxEvents \in Nat /\ MaxCycles \in Nat /\ MaxCalls \in Nat

VARIABLES
    envToken,       \* AURAGRID_FENCING_TOKEN: {n}, or {} when unset or no number
    main,           \* where main() is
    health,         \* the health task
    monitor,        \* monitor[t]: the monitor task of topic t
    stopping,       \* the tasks that were cancelled
    cycle,          \* cycle, local to the health loop
    checkCycles,    \* service._check_cycles
    lastToken,      \* checker._last_fencing_token, {} for None
    lastSeq,        \* checker._topic_sequences, {} for a topic without entry
    violations,     \* checker._violations
    tattles,        \* the length of checker._tattle_evidence
    delivered,      \* history: what the grid delivered, on which topic
    shutdownEvent   \* the shutdown events published: violations and cycles

checkerVars == <<lastToken, lastSeq, violations, tattles>>
taskVars == <<main, health, monitor, stopping>>
vars == <<envToken, taskVars, cycle, checkCycles, checkerVars, delivered, shutdownEvent>>

Monitors == Topics \cup {Telemetry}

\* A telemetry event: a tattle on this sentinel's masId, on another's, or a
\* payload that makes the handler raise.
TattleKinds == {"us", "other", "malformed"}

Violation == [topic : Topics \cup {"token"}, observed : Nat]

TypeOK ==
    /\ envToken \in SUBSET Nat /\ lastToken \in SUBSET Nat
    /\ main \in {"start", "startup", "running", "awaitHealth", "gather", "publishing", "closed"}
    /\ health \in {"none", "waiting", "done"}
    /\ monitor \in [Monitors -> {"none", "watching", "done"}]
    /\ stopping \in SUBSET (Monitors \cup {"health"})
    /\ cycle \in Nat /\ checkCycles \in Nat /\ tattles \in Nat
    /\ lastSeq \in [Topics -> SUBSET Nat]
    /\ violations \in Seq(Violation)
    /\ delivered \in Seq([topic : Topics, seq : Nat] \cup [topic : {Telemetry}, kind : TattleKinds])
    /\ shutdownEvent \in SUBSET [violations : Nat, cycles : Nat]

Init ==
    /\ envToken \in {{}} \cup {{n} : n \in Tokens}
    /\ main = "start"
    /\ health = "none"
    /\ monitor = [t \in Monitors |-> "none"]
    /\ stopping = {}
    /\ cycle = 0 /\ checkCycles = 0 /\ tattles = 0
    /\ lastToken = {} /\ lastSeq = [t \in Topics |-> {}]
    /\ violations = <<>>
    /\ delivered = <<>>
    /\ shutdownEvent = {}

-----------------------------------------------------------------------------
(* InvariantChecker. *)

\* _check_fencing_token(): the environment of a process never changes, so this
\* is the same token every time.
CheckFencingToken ==
    IF \E token \in envToken, last \in lastToken : token <= last
    THEN /\ violations' = Append(violations, [topic |-> "token", observed |-> Max(envToken)])
         /\ UNCHANGED lastToken
    ELSE /\ lastToken' = IF envToken = {} THEN lastToken ELSE envToken
         /\ UNCHANGED violations

\* Mutation: the last number is remembered although it violates the order.
CheckOrderForgets(t, seq) ==
    /\ violations' = IF \E last \in lastSeq[t] : seq <= last
                     THEN Append(violations, [topic |-> t, observed |-> seq])
                     ELSE violations
    /\ lastSeq' = [lastSeq EXCEPT ![t] = {seq}]

CheckEventOrdering(t, seq) ==
    IF \E last \in lastSeq[t] : seq <= last
    THEN /\ violations' = Append(violations, [topic |-> t, observed |-> seq])
         /\ UNCHANGED lastSeq
    ELSE /\ lastSeq' = [lastSeq EXCEPT ![t] = {seq}]
         /\ UNCHANGED violations

-----------------------------------------------------------------------------
(* The remote method and the background tasks. *)

\* The service is reachable for as long as the context is open.
RunCheckCycle ==
    /\ main # "closed"
    /\ checkCycles < cycle + MaxCalls
    /\ checkCycles' = checkCycles + 1
    /\ UNCHANGED <<envToken, taskVars, cycle, checkerVars, delivered, shutdownEvent>>

\* Mutation: the cadence of the token check counts the remote calls too.
HealthTickByCalls ==
    /\ health = "waiting" /\ "health" \notin stopping /\ cycle < MaxCycles
    /\ cycle' = cycle + 1
    /\ checkCycles' = checkCycles + 1
    /\ IF (checkCycles + 1) % 3 = 0 THEN CheckFencingToken ELSE UNCHANGED <<lastToken, violations>>
    /\ UNCHANGED <<envToken, taskVars, lastSeq, tattles, delivered, shutdownEvent>>

\* wait_for(stop_event.wait()) times out: one cycle, without an await in it.
HealthTick ==
    /\ health = "waiting" /\ "health" \notin stopping /\ cycle < MaxCycles
    /\ cycle' = cycle + 1
    /\ checkCycles' = checkCycles + 1
    /\ IF (cycle + 1) % 3 = 0 THEN CheckFencingToken ELSE UNCHANGED <<lastToken, violations>>
    /\ UNCHANGED <<envToken, taskVars, lastSeq, tattles, delivered, shutdownEvent>>

\* The cancelled loop ends at its await.
HealthEnds ==
    /\ health = "waiting" /\ "health" \in stopping
    /\ health' = "done"
    /\ UNCHANGED <<envToken, main, monitor, stopping, cycle, checkCycles, checkerVars,
                   delivered, shutdownEvent>>

\* A monitor at its await, with an event for it on the stream.
Hears(t) ==
    /\ monitor[t] = "watching" /\ t \notin stopping
    /\ Len(delivered) < MaxEvents

\* _event_monitor(): the number may be old, or one delivered before.
EventDelivered(t, seq) ==
    /\ Hears(t)
    /\ delivered' = Append(delivered, [topic |-> t, seq |-> seq])
    /\ CheckEventOrdering(t, seq)
    /\ UNCHANGED <<envToken, taskVars, cycle, checkCycles, lastToken, tattles, shutdownEvent>>

\* _tattle_monitor(): what cannot be read is skipped, the monitor goes on.
TattleDelivered(kind) ==
    /\ Hears(Telemetry)
    /\ delivered' = Append(delivered, [topic |-> Telemetry, kind |-> kind])
    /\ tattles' = IF kind = "us" THEN tattles + 1 ELSE tattles
    /\ UNCHANGED <<envToken, taskVars, cycle, checkCycles, lastToken, lastSeq, violations,
                   shutdownEvent>>

\* A stream that raises ends its monitor for good; nobody starts it again.
StreamBreaks(t) ==
    /\ monitor[t] = "watching"
    /\ monitor' = [monitor EXCEPT ![t] = "done"]
    /\ UNCHANGED <<envToken, main, health, stopping, cycle, checkCycles, checkerVars,
                   delivered, shutdownEvent>>

\* Mutation: the monitor treats its cancellation as one more failed event.
MonitorIgnoresCancel(t) ==
    /\ monitor[t] = "watching" /\ t \in stopping
    /\ stopping' = stopping \ {t}
    /\ UNCHANGED <<envToken, main, health, monitor, cycle, checkCycles, checkerVars,
                   delivered, shutdownEvent>>

MonitorEnds(t) ==
    /\ monitor[t] = "watching" /\ t \in stopping
    /\ monitor' = [monitor EXCEPT ![t] = "done"]
    /\ UNCHANGED <<envToken, main, health, stopping, cycle, checkCycles, checkerVars,
                   delivered, shutdownEvent>>

-----------------------------------------------------------------------------
(* main(). *)

\* The context is open: check the token once, then publish the startup event.
Start ==
    /\ main = "start"
    /\ CheckFencingToken
    /\ main' = "startup"
    /\ UNCHANGED <<envToken, health, monitor, stopping, cycle, checkCycles, lastSeq, tattles,
                   delivered, shutdownEvent>>

\* Mutation: the task that watches for tattles is not spawned.
SpawnNoTattleMonitor ==
    /\ main = "startup"
    /\ main' = "running"
    /\ monitor' = [t \in Topics |-> "watching"]
    /\ health' = "waiting"
    /\ UNCHANGED <<envToken, stopping, cycle, checkCycles, checkerVars, delivered, shutdownEvent>>

\* The startup event is published, or its failure logged: spawn the tasks.
Spawn ==
    /\ main = "startup"
    /\ main' = "running"
    /\ monitor' = [t \in Monitors |-> "watching"]
    /\ health' = "waiting"
    /\ UNCHANGED <<envToken, stopping, cycle, checkCycles, checkerVars, delivered, shutdownEvent>>

\* Cancelled while the startup event is on its way: no task to stop, no event.
CancelledEarly ==
    /\ main = "startup"
    /\ main' = "closed"
    /\ UNCHANGED <<envToken, health, monitor, stopping, cycle, checkCycles, checkerVars,
                   delivered, shutdownEvent>>

\* The signal arrives: set stop_event, cancel the health loop, await it.
Shutdown ==
    /\ main = "running"
    /\ main' = "awaitHealth"
    /\ stopping' = stopping \cup {"health"}
    /\ UNCHANGED <<envToken, health, monitor, cycle, checkCycles, checkerVars, delivered,
                   shutdownEvent>>

\* Mutation: the shutdown event is published before the monitors are stopped.
PublishBeforeStop ==
    /\ main = "awaitHealth" /\ health = "done"
    /\ main' = "publishing"
    /\ shutdownEvent' = {[violations |-> Len(violations), cycles |-> checkCycles]}
    /\ UNCHANGED <<envToken, health, monitor, stopping, cycle, checkCycles, checkerVars,
                   delivered>>

\* Cancel the monitors and gather() them.
StopMonitors ==
    /\ main = "awaitHealth" /\ health = "done"
    /\ main' = "gather"
    /\ stopping' = stopping \cup Monitors
    /\ UNCHANGED <<envToken, health, monitor, cycle, checkCycles, checkerVars, delivered,
                   shutdownEvent>>

\* The shutdown event carries the numbers of this moment.
PublishShutdown ==
    /\ main = "gather" /\ \A t \in Monitors : monitor[t] = "done"
    /\ main' = "publishing"
    /\ shutdownEvent' = shutdownEvent \cup
                           {[violations |-> Len(violations), cycles |-> checkCycles]}
    /\ UNCHANGED <<envToken, health, monitor, stopping, cycle, checkCycles, checkerVars,
                   delivered>>

\* A second cancellation.  At the gather() it cancels the monitors once more and
\* surfaces when they are done: the shutdown event is skipped.  While main() awaits
\* the health loop it is swallowed with that task's own, and changes nothing.
CancelledAgain ==
    /\ main = "gather" /\ \A t \in Monitors : monitor[t] = "done"
    /\ main' = "closed"
    /\ UNCHANGED <<envToken, health, monitor, stopping, cycle, checkCycles, checkerVars,
                   delivered, shutdownEvent>>

\* Published, failed or cancelled again, the context closes.
Close ==
    /\ main = "publishing"
    /\ main' = "closed"
    /\ UNCHANGED <<envToken, health, monitor, stopping, cycle, checkCycles, checkerVars,
                   delivered, shutdownEvent>>

Main == Start \/ Spawn \/ StopMonitors \/ PublishShutdown \/ Close

Next ==
    \/ Main \/ CancelledEarly \/ Shutdown \/ CancelledAgain
    \/ RunCheckCycle \/ HealthTick \/ HealthEnds
    \/ \E t \in Topics, seq \in 1 .. MaxSeq : EventDelivered(t, seq)
    \/ \E kind \in TattleKinds : TattleDelivered(kind)
    \/ \E t \in Monitors : StreamBreaks(t) \/ MonitorEnds(t)

(* Fairness: the event loop runs the tasks main() cancelled to their end and  *)
(* resumes main() behind them.  Nothing is assumed of the grid, whose answers *)
(* to the two publish calls are awaited without a timeout.                    *)
Spec == Init /\ [][Next]_vars
             /\ WF_vars(StopMonitors \/ PublishShutdown) /\ WF_vars(HealthEnds)
             /\ \A t \in Monitors : WF_vars(MonitorEnds(t))

-----------------------------------------------------------------------------
(* Properties. *)

\* The events of topic t that came behind one with the same or a higher number.
Late(t) ==
    {k \in DOMAIN delivered :
        /\ delivered[k].topic = t
        /\ \E j \in 1 .. (k - 1) :
            delivered[j].topic = t /\ delivered[j].seq >= delivered[k].seq}

ViolationsOf(t) == {k \in DOMAIN violations : violations[k].topic = t}

\* The checker flags exactly the events that are late on their own topic,
\* although it keeps only the last number it accepted and all monitors write
\* into one list: none is missed, none on time is flagged.
OrderVerdictsExact ==
    \A t \in Topics : Cardinality(ViolationsOf(t)) = Cardinality(Late(t))

\* The token is checked at start and at every third cycle of the health loop,
\* however often the remote method runs a cycle; each of these later checks
\* finds the token it knows and records a violation.
TokenRecheckFlags ==
    Cardinality(ViolationsOf("token")) = IF envToken = {} THEN 0 ELSE cycle \div 3

\* The shutdown event tells the final number of violations: by then no task is
\* left that could record one.  Its cycles may be short of remote calls only.
ShutdownEventFinal ==
    \A e \in shutdownEvent :
        /\ e.violations = Len(violations)
        /\ cycle <= e.cycles /\ e.cycles <= checkCycles

\* A shutdown gets past the tasks it stops, whatever they are at: it comes as far
\* as the shutdown event, or closes.  Whether the grid answers that last call is
\* not claimed.
ShutdownCompletes == main = "awaitHealth" ~> main \in {"publishing", "closed"}

\* What invariants.py line 8 says of a violation: it records that an invariant
\* of the grid was violated.  So there is none while the grid delivers in order
\* and the token is the one token of this process.
NoFalseAlarm ==
    (\A t \in Topics : Late(t) = {}) => violations = <<>>
=============================================================================
