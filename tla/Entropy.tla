------------------------------- MODULE Entropy -------------------------------
(***************************************************************************)
(* The Entropy Engine (tier5-entropy-engine/entropy.py): run_entropy()     *)
(* polls the chaos status of the node while the remote methods of          *)
(* EntropyService set the switches.  All run on one event loop, and the    *)
(* burn() task that trigger_cpu_stress() creates has no await: once it is  *)
(* run, nothing else in the process is until its seconds are over.         *)
(***************************************************************************)
EXTENDS ChaosManager

CONSTANTS
    CallIds,            \* bound: remote calls in progress at a time
    MaxBurns,           \* bound: burn() tasks created and not yet run
    EngineRestarts      \* MaxRestartAttempts of app.manifest.json (3 there)

ASSUME EntropyAssumption == MaxBurns \in Nat /\ EngineRestarts \in Nat

VARIABLES
    engine,         \* where run_entropy() is
    burns,          \* the burn() tasks created and not yet run
    burning,        \* a burn() task is in its loop
    calls,          \* calls[c]: the remote call c and how far it is
    engineRuns      \* how often the engine was started

engineVars == <<engine, burns, burning, calls, engineRuns>>

Methods == {"stress"} \cup DOMAIN Suspension \cup DOMAIN Fault

\* queued: at the engine, its task not yet run; sent: its request awaited;
\* applied: answered, not yet resumed; adrift: nobody waits for the request.
NoCall == [op |-> "none", at |-> "none"]
Call == [op : Methods, at : {"queued", "sent", "applied", "adrift"}]

EntropyTypeOK ==
    /\ engine \in {"status", "sleep", "failed"}
    /\ burns \in 0 .. MaxBurns
    /\ burning \in BOOLEAN
    /\ calls \in [CallIds -> Call \cup {NoCall}]
    /\ engineRuns \in 1 .. EngineRestarts + 1

EntropyInit ==
    /\ engine = "status"
    /\ burns = 0 /\ burning = FALSE
    /\ calls = [c \in CallIds |-> NoCall]
    /\ engineRuns = 1

Up == engine # "failed"
Free == Up /\ ~burning          \* the event loop can run another task

Move(c, at) == calls' = [calls EXCEPT ![c].at = at]
Drop(c) == calls' = [calls EXCEPT ![c] = NoCall]

\* Somebody calls a method of the service.
CallArrives(c) ==
    /\ Up /\ calls[c] = NoCall
    /\ \E op \in Methods : calls' = [calls EXCEPT ![c] = [op |-> op, at |-> "queued"]]
    /\ UNCHANGED <<engine, burns, burning, engineRuns, switches>>

\* trigger_cpu_stress() creates a task and answers; the burns of several calls
\* come one after the other, and whatever task is ready may run between two.
TriggerCpuStress(c) ==
    /\ Free /\ calls[c] = [op |-> "stress", at |-> "queued"]
    /\ burns < MaxBurns
    /\ burns' = burns + 1
    /\ Drop(c)
    /\ UNCHANGED <<engine, burning, engineRuns, switches>>

BurnStarts ==
    /\ Free /\ burns > 0
    /\ burns' = burns - 1
    /\ burning' = TRUE
    /\ UNCHANGED <<engine, calls, engineRuns, switches>>

\* Mutation: the time is compared with a start that moves along.
BurnsForEver ==
    /\ burning
    /\ UNCHANGED <<engineVars, switches>>

BurnEnds ==
    /\ burning
    /\ burning' = FALSE
    /\ UNCHANGED <<engine, burns, calls, engineRuns, switches>>

\* isolate_node(), heal_node() and fail_storage() ask the platform.
MethodCalls(c) ==
    /\ Free /\ calls[c].at = "queued" /\ calls[c].op # "stress"
    /\ Move(c, "sent")
    /\ UNCHANGED <<engine, burns, burning, engineRuns, switches>>

\* Awaited or not, and while the engine burns as well.
RequestApplied(c) ==
    /\ calls[c].at \in {"sent", "adrift"}
    /\ Switch(calls[c].op)
    /\ IF calls[c].at = "sent" THEN Move(c, "applied") ELSE Drop(c)
    /\ UNCHANGED <<engine, burns, burning, engineRuns>>

RequestLost(c) ==
    /\ calls[c].at = "adrift"
    /\ Drop(c)
    /\ UNCHANGED <<engine, burns, burning, engineRuns, switches>>

MethodReturns(c) ==
    /\ Free /\ calls[c].at = "applied"
    /\ Drop(c)
    /\ UNCHANGED <<engine, burns, burning, engineRuns, switches>>

\* The request fails at the engine; its caller gets the exception.
MethodRaises(c) ==
    /\ Free /\ calls[c].at = "sent"
    /\ Move(c, "adrift")
    /\ UNCHANGED <<engine, burns, burning, engineRuns, switches>>

\* get_status() answers and the loop logs what it says, or the five seconds
\* are over and it asks again.
LoopTurns ==
    /\ Free
    /\ engine' = IF engine = "status" THEN "sleep" ELSE "status"
    /\ UNCHANGED <<burns, burning, calls, engineRuns, switches>>

\* get_status() raises, which nothing catches, or the process is killed: its
\* calls end with it, the switches stay.
EngineFails ==
    /\ Up
    /\ engine' = "failed"
    /\ burns' = 0 /\ burning' = FALSE
    /\ calls' = [c \in CallIds |->
                    IF calls[c].at \in {"sent", "adrift"}
                      THEN [calls[c] EXCEPT !.at = "adrift"] ELSE NoCall]
    /\ UNCHANGED <<engineRuns, switches>>

EngineRestart ==
    /\ engine = "failed" /\ engineRuns <= EngineRestarts
    /\ engine' = "status"
    /\ engineRuns' = engineRuns + 1
    /\ UNCHANGED <<burns, burning, calls, switches>>

EntropyNext ==
    \/ \E c \in CallIds :
         \/ CallArrives(c) \/ TriggerCpuStress(c) \/ MethodCalls(c)
         \/ RequestApplied(c) \/ RequestLost(c) \/ MethodReturns(c) \/ MethodRaises(c)
    \/ BurnStarts \/ BurnEnds \/ LoopTurns \/ EngineFails \/ EngineRestart
=============================================================================
