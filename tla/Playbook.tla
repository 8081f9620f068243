------------------------------ MODULE Playbook ------------------------------
(***************************************************************************)
(* The provocateur (tier2-grid-gauntlet/provocateur): main() in app.py,    *)
(* AttackPlaybook in playbook.py and the five attacks, run one after the   *)
(* other under a timeout against the append-only topics of the grid.  The  *)
(* grid may answer a call, fail it or leave it hanging; an event given up  *)
(* in the last two cases is stored, or stored at any later time, or lost.  *)
(* An attack is the list of its awaits; what it does between two awaits is *)
(* one step.                                                               *)
(***************************************************************************)
EXTENDS Naturals, SequencesExt

CONSTANTS
    Tattles,            \* tattle_count (5 in the code)
    Flood,              \* event_count (1000 in the code)
    TelemetryWindow,    \* events the phantom attack reads of telemetry (100)
    StateWindow,        \* events the lease race reads of service-state (50)
    Prior,              \* the events the topics may hold when it starts
    MaxPrior,           \* bound: how many of them on each topic
    Earlier,            \* bound: the commands an earlier process gave up
    Drifting,           \* bound: the calls whose event, given up, may come in late
    MaxAdrift           \* bound: events given up that may still arrive

Commands == {"bid", "invoke", "register", "unregister"}

ASSUME PlaybookAssumption ==
    /\ Tattles \in Nat /\ Flood \in Nat
    /\ TelemetryWindow \in Nat /\ StateWindow \in Nat
    /\ MaxPrior \in Nat /\ MaxAdrift \in Nat
    /\ Earlier \subseteq Commands /\ Drifting \subseteq Commands \cup {"flood"}

VARIABLES
    phase,          \* where main() is
    at,             \* the scenario execute_all() has reached
    step,           \* the await of its executor
    evidence,       \* the executor's locals: defense_held and evidence
    results,        \* playbook._results
    serviceState,   \* the topic system.service-state
    telemetry,      \* the topic system.telemetry
    lifecycle,      \* the sentinel's lifecycle topic has an event
    adrift,         \* the events given up that may still arrive
    late            \* history: the places of service-state they arrived at

attackVars == <<at, step, evidence>>
busVars == <<serviceState, telemetry, lifecycle>>
driftVars == <<adrift, late>>
vars == <<phase, attackVars, results, busVars, driftVars>>

\* The scenarios in the order ProvocateurService registers them.
Attacks == <<"false_tattle", "lease_race", "event_flood", "stale_invoke", "phantom_registration">>

Times(n, call) == [i \in 1 .. n |-> call]

(* The awaits of each attack: publications by what they publish, reads by   *)
(* the topic they read.  Only event_flood reads the announcements back.     *)

FalseTattle == <<"announce">> \o Times(Tattles, "tattle") \o <<"sleep", "lifecycle">>

LeaseRace == <<"announce", "bid", "sleep", "serviceState">>

EventFlood == <<"announce">> \o Times(Flood, "flood") \o <<"attacks", "sentinel">>

StaleInvoke == <<"announce", "invoke">>

\* Mutation: the cleanup comes first, to wipe what an earlier run left.
PhantomCleansFirst == <<"announce", "unregister", "register", "sleep", "telemetry">>

PhantomRegistration == <<"announce", "register", "sleep", "telemetry", "unregister">>

Script ==
    [ false_tattle |-> FalseTattle, lease_race |-> LeaseRace, event_flood |-> EventFlood,
      stale_invoke |-> StaleInvoke, phantom_registration |-> PhantomRegistration ]

Attack == Attacks[at]
Call == Script[Attack][step]

Evidence == [held : BOOLEAN, count : Nat, errors : Nat, cleaned : BOOLEAN]
Result == [attack : Range(Attacks), ended : {"returned", "timeout"}, trigger : BOOLEAN,
           held : BOOLEAN, count : Nat, errors : Nat, cleaned : BOOLEAN]

StateEvent == Commands \cup {"transfer", "other"}
Telemetry == {"flood", "tattle", "other"}

\* An event given up, and the await it was given up at; 0 in an earlier process.
GivenUp == [call : Commands \cup {"flood"}, step : Nat]

TypeOK ==
    /\ phase \in {"startup", "headStart", "attacking", "reporting", "idle", "stopped"}
    /\ at \in 1 .. Len(Attacks)
    /\ step \in 1 .. Len(Script[Attack])
    /\ evidence \in Evidence
    /\ results \in Seq(Result)
    /\ serviceState \in Seq(StateEvent)
    /\ telemetry \in Seq(Telemetry)
    /\ lifecycle \in BOOLEAN
    /\ adrift \in SUBSET GivenUp
    /\ late \in SUBSET Nat

\* What an executor starts from; only the phantom attack presumes the worst.
NoEvidence(attack) ==
    [held |-> attack # "phantom_registration", count |-> 0, errors |-> 0, cleaned |-> FALSE]

\* The topics outlive the process and may hold anything when it starts: what an
\* earlier one left, with what the grid and a sentinel made of it, and the traffic
\* of other services (other, and so is an earlier flood).  What an earlier one
\* gave up may still be on its way.
Init ==
    /\ phase = "startup"
    /\ at = 1 /\ step = 1 /\ evidence = NoEvidence(Attacks[1])
    /\ results = <<>>
    /\ serviceState \in BoundedSeq(Prior \cap StateEvent, MaxPrior)
    /\ telemetry \in BoundedSeq(Prior \cap {"tattle", "other"}, MaxPrior)
    /\ lifecycle \in BOOLEAN
    /\ adrift \in SUBSET [call : Earlier, step : {0}]
    /\ late = {}

First(topic, n) == Range(SubSeq(topic, 1, IF n < Len(topic) THEN n ELSE Len(topic)))

-----------------------------------------------------------------------------
(* Events *)

Stored(call) ==
    /\ serviceState' = IF call \in Commands THEN Append(serviceState, call) ELSE serviceState
    /\ telemetry' = IF call = "flood" THEN Append(telemetry, call) ELSE telemetry
    /\ UNCHANGED lifecycle

\* The event of the awaited call is given up: stored at once, on its way, or lost.
GiveUp ==
    \/ Stored(Call) /\ UNCHANGED driftVars
    \/ /\ Call \in Drifting /\ Cardinality(adrift) < MaxAdrift
       /\ adrift' = adrift \cup {[call |-> Call, step |-> step]}
       /\ UNCHANGED <<busVars, late>>
    \/ UNCHANGED <<busVars, driftVars>>

-----------------------------------------------------------------------------
(* main() *)

\* The startup event is published or its failure swallowed; then the sentinel
\* gets its head start, and the playbook begins.
Startup ==
    /\ phase = "startup"
    /\ phase' = "headStart"
    /\ UNCHANGED <<attackVars, results, busVars, driftVars>>

HeadStart ==
    /\ phase = "headStart"
    /\ phase' = "attacking"
    /\ UNCHANGED <<attackVars, results, busVars, driftVars>>

\* The summary is published, or not; the service stays up for queries.
Report ==
    /\ phase = "reporting"
    /\ phase' = "idle"
    /\ UNCHANGED <<attackVars, results, busVars, driftVars>>

\* The process is cancelled or dies, at any await, and its memory with it.
Stop ==
    /\ phase # "stopped"
    /\ phase' = "stopped"
    /\ at' = 1 /\ step' = 1 /\ evidence' = NoEvidence(Attacks[1])
    /\ results' = <<>>
    /\ IF phase = "attacking" THEN GiveUp ELSE UNCHANGED <<busVars, driftVars>>

-----------------------------------------------------------------------------
(* The attacks and the playbook around them *)

\* Mutation: any telemetry at all passes for a tattle on the phantom.
LearnedAny(call) ==
    CASE call = "flood" -> [evidence EXCEPT !.count = step - 1]
      [] call = "lifecycle" -> [evidence EXCEPT !.held = lifecycle]
      [] call = "serviceState" ->
            [evidence EXCEPT !.held = "transfer" \notin First(serviceState, StateWindow)]
      [] call = "telemetry" ->
            [evidence EXCEPT !.held = First(telemetry, TelemetryWindow) # {}]
      [] call = "unregister" -> [evidence EXCEPT !.cleaned = TRUE]
      [] OTHER -> evidence

\* What the executor notes when a call returns, as far as a verdict or the flood's
\* numbers rest on it.  The count is the index of the last call that returned, not
\* the number of those that did.
Learned(call) ==
    CASE call = "flood" -> [evidence EXCEPT !.count = step - 1]
      [] call = "lifecycle" -> [evidence EXCEPT !.held = lifecycle]
      [] call = "serviceState" ->
            [evidence EXCEPT !.held = "transfer" \notin First(serviceState, StateWindow)]
      [] call = "telemetry" ->
            [evidence EXCEPT !.held = "tattle" \in First(telemetry, TelemetryWindow)]
      [] call = "unregister" -> [evidence EXCEPT !.cleaned = TRUE]
      [] OTHER -> evidence

\* Mutation: the exception of a flood event is swallowed without a trace.
MissedSilently(call) ==
    IF call \in {"lifecycle", "attacks"} THEN [evidence EXCEPT !.held = FALSE]
    ELSE evidence

\* What it notes when a call raises: mostly nothing, even where the verdict
\* rests on the call (serviceState).
Missed(call) ==
    CASE call = "flood" -> [evidence EXCEPT !.errors = @ + 1]
      [] call \in {"lifecycle", "attacks"} -> [evidence EXCEPT !.held = FALSE]
      [] OTHER -> evidence

\* Mutation: the next attack starts where the last one ended.
ConcludeKeepsStep(result) ==
    /\ results' = Append(results, result)
    /\ UNCHANGED step
    /\ IF at = Len(Attacks)
         THEN phase' = "reporting" /\ UNCHANGED <<at, evidence>>
         ELSE /\ at' = at + 1 /\ evidence' = NoEvidence(Attacks[at + 1])
              /\ UNCHANGED phase

\* The result of execute_all()'s current scenario, and the next scenario.
Conclude(result) ==
    /\ results' = Append(results, result)
    /\ IF at = Len(Attacks)
         THEN phase' = "reporting" /\ UNCHANGED attackVars
         ELSE /\ at' = at + 1 /\ step' = 1 /\ evidence' = NoEvidence(Attacks[at + 1])
              /\ UNCHANGED phase

\* What the executor returns; stale_invoke calls for a change whatever it saw.
Returned(e) ==
    [attack |-> Attack, ended |-> "returned", held |-> e.held,
     trigger |-> ~e.held \/ Attack = "stale_invoke",
     count |-> e.count, errors |-> e.errors, cleaned |-> e.cleaned]

\* What _execute_with_timeout() returns instead: no evidence, and the worst.
TimedOut ==
    [attack |-> Attack, ended |-> "timeout", held |-> FALSE, trigger |-> TRUE,
     count |-> 0, errors |-> 0, cleaned |-> FALSE]

Proceed(e) ==
    IF step = Len(Script[Attack])
      THEN Conclude(Returned(e))
      ELSE step' = step + 1 /\ evidence' = e /\ UNCHANGED <<phase, at, results>>

CallReturns ==
    /\ phase = "attacking" /\ Call # "sleep"
    /\ Stored(Call)
    /\ Proceed(Learned(Call))
    /\ UNCHANGED driftVars

CallRaises ==
    /\ phase = "attacking" /\ Call # "sleep"
    /\ GiveUp
    /\ Proceed(Missed(Call))

SleepEnds ==
    /\ phase = "attacking" /\ Call = "sleep"
    /\ Proceed(evidence)
    /\ UNCHANGED <<busVars, driftVars>>

\* Mutation: a timeout ends the attack without a result of its own.
TimesOutUnrecorded ==
    /\ phase = "attacking"
    /\ GiveUp
    /\ IF at = Len(Attacks)
         THEN phase' = "reporting" /\ UNCHANGED attackVars
         ELSE /\ at' = at + 1 /\ step' = 1 /\ evidence' = NoEvidence(Attacks[at + 1])
              /\ UNCHANGED phase
    /\ UNCHANGED results

\* Mutation: only a sleep is cut short, a call is waited for.
TimesOutInSleep ==
    /\ phase = "attacking" /\ Call = "sleep"
    /\ UNCHANGED <<busVars, driftVars>>
    /\ Conclude(TimedOut)

\* wait_for() cancels the executor at its await: no later line of it runs.
TimesOut ==
    /\ phase = "attacking"
    /\ GiveUp
    /\ Conclude(TimedOut)

-----------------------------------------------------------------------------
(* The grid and the other services on it *)

\* An event given up is stored after all.
Arrives ==
    \E g \in adrift :
        /\ Stored(g.call)
        /\ adrift' = adrift \ {g}
        /\ late' = IF g.call \in Commands THEN late \cup {Len(serviceState) + 1} ELSE late
        /\ UNCHANGED <<phase, attackVars, results>>

\* The grid honours the fake bid; it files a tattle on the phantom.
HonoursBid ==
    /\ "bid" \in Range(serviceState) /\ "transfer" \notin Range(serviceState)
    /\ serviceState' = Append(serviceState, "transfer")
    /\ UNCHANGED <<phase, attackVars, results, telemetry, lifecycle, driftVars>>

FilesTattle ==
    /\ "register" \in Range(serviceState) /\ "tattle" \notin Range(telemetry)
    /\ telemetry' = Append(telemetry, "tattle")
    /\ UNCHANGED <<phase, attackVars, results, serviceState, lifecycle, driftVars>>

SentinelPublishes ==
    /\ ~lifecycle
    /\ lifecycle' = TRUE
    /\ UNCHANGED <<phase, attackVars, results, serviceState, telemetry, driftVars>>

Grid == Arrives \/ HonoursBid \/ FilesTattle \/ SentinelPublishes

Next ==
    \/ Startup \/ HeadStart \/ Report \/ Stop
    \/ CallReturns \/ CallRaises \/ SleepEnds \/ TimesOut
    \/ Grid

Spec == Init /\ [][Next]_vars

(* Fairness: timers fire, those of the attacks' timeouts included.  The grid  *)
(* owes nothing: a call may never be answered.                              *)
FairSpec == Spec /\ WF_vars(HeadStart) /\ WF_vars(SleepEnds) /\ WF_vars(TimesOut)

-----------------------------------------------------------------------------
(* Properties. *)

PhantomRegistered ==
    \E i \in DOMAIN serviceState :
        /\ serviceState[i] = "register"
        /\ \A j \in (i + 1) .. Len(serviceState) : serviceState[j] # "unregister"

FloodStored == {k \in DOMAIN telemetry : telemetry[k] = "flood"}

ResultOf(attack) == {r \in Range(results) : r.attack = attack /\ r.ended = "returned"}

\* Whatever returns, raises or times out, each scenario leaves one result, in
\* the order of registration: what get_results() shows is never of another
\* attack, and the report lists all five.
ResultsInOrder ==
    /\ [i \in DOMAIN results |-> results[i].attack] = SubSeq(Attacks, 1, Len(results))
    /\ Len(results) = IF phase \in {"reporting", "idle"} THEN Len(Attacks) ELSE at - 1

\* A verdict has its evidence on the topics: an attack cut short held nothing,
\* a held phantom or tattle attack saw the event it looks for among those it
\* reads, and the lease race never accuses the grid without a transfer.
VerdictsHaveEvidence ==
    /\ \A r \in Range(results) : r.ended = "timeout" => ~r.held /\ r.trigger
    /\ \A r \in ResultOf("phantom_registration") :
          r.held => "tattle" \in First(telemetry, TelemetryWindow)
    /\ \A r \in ResultOf("false_tattle") : r.held => lifecycle
    /\ \A r \in ResultOf("lease_race") :
          ~r.held => "transfer" \in First(serviceState, StateWindow)

\* What the flood reports bounds what it did from both sides: the topic holds
\* at least the events that are not counted as errors, and the number it calls
\* published is never less than those.
FloodEvidenceSound ==
    \A r \in ResultOf("event_flood") :
        /\ Flood - r.errors <= Cardinality(FloodStored)
        /\ Flood - r.errors <= r.count
        /\ r.count <= Flood

\* A phantom attack that says it cleaned up has: its phantom, and any that an
\* earlier process left, is registered no more, now and later, but for one way
\* that the code leaves open: a registration somebody gave up that comes in late.
CleanedMeansGone ==
    \A r \in Range(results) : r.cleaned =>
        \A i \in DOMAIN serviceState :
            serviceState[i] = "register" /\ i \notin late =>
                \E j \in (i + 1) .. Len(serviceState) : serviceState[j] = "unregister"

\* A grid that answers nothing cannot stop the playbook: once begun it gets to
\* its report, unless the process stops.
PlaybookCompletes == phase = "attacking" ~> phase \in {"reporting", "stopped"}

\* What tier2_design.md lines 28 and 29 say of every attack, a timeout and a
\* cleanup step without permanent corruption: when the playbook is over, no
\* phantom stays registered.
PhantomCleanedUp == phase = "idle" => ~PhantomRegistered
=============================================================================
