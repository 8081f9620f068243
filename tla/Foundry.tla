------------------------------ MODULE Foundry -------------------------------
(***************************************************************************)
(* The model foundry (tier4-model-foundry/foundry.py): three remote methods *)
(* and the training jobs they start, all on one event loop.  A method has  *)
(* no await in it, so it is one step; a job is a task that sleeps and then *)
(* writes.  Nobody keeps a reference to a job: nothing can cancel it.      *)
(***************************************************************************)
EXTENDS Naturals, FiniteSets

CONSTANTS
    MaxJobs,        \* bound: training jobs started
    MaxStops        \* bound: emergency stops

ASSUME FoundryAssumption == MaxJobs \in Nat /\ MaxStops \in Nat

VARIABLES
    isTraining,     \* _is_training
    model,          \* _current_model: "v1" or "v2"
    jobs,           \* the tasks of _simulate_training that still run, by number
    started,        \* jobs started so far; the number of the last one
    stops           \* emergency stops so far

vars == <<isTraining, model, jobs, started, stops>>

Job == Nat \ {0}

TypeOK ==
    /\ isTraining \in BOOLEAN
    /\ model \in {"v1", "v2"}
    /\ jobs \in SUBSET Job
    /\ started \in Nat
    /\ stops \in Nat

Init ==
    /\ isTraining = FALSE
    /\ model = "v1"
    /\ jobs = {}
    /\ started = 0
    /\ stops = 0

\* Mutation: the guard on a training in progress is missing.
StartUnguarded ==
    /\ started < MaxJobs
    /\ isTraining' = TRUE
    /\ started' = started + 1
    /\ jobs' = jobs \cup {started + 1}
    /\ UNCHANGED <<model, stops>>

\* A call while isTraining is told "Training already in progress." and changes
\* nothing: it is a stuttering step.
StartTraining ==
    /\ ~isTraining
    /\ started < MaxJobs
    /\ isTraining' = TRUE
    /\ started' = started + 1
    /\ jobs' = jobs \cup {started + 1}
    /\ UNCHANGED <<model, stops>>

\* Mutation: the stop takes the model out of service, and no model is left.
EmergencyStopUnloads ==
    /\ stops < MaxStops
    /\ stops' = stops + 1
    /\ isTraining' = FALSE
    /\ model' = "none"
    /\ UNCHANGED <<jobs, started>>

\* emergency_stop() clears the flag and returns True; the job sleeps on.
EmergencyStop ==
    /\ stops < MaxStops
    /\ stops' = stops + 1
    /\ isTraining' = FALSE
    /\ UNCHANGED <<model, jobs, started>>

\* Every job sleeps for the same time, so the oldest one wakes first.
Oldest(j) == j \in jobs /\ \A k \in jobs : j <= k

\* Mutation: the job that ends forgets the flag.
TrainingEndsFlagSet(j) ==
    /\ Oldest(j)
    /\ jobs' = jobs \ {j}
    /\ model' = "v2"
    /\ UNCHANGED <<isTraining, started, stops>>

\* The 30 seconds of job j are over: it clears the flag, whoever set it, and
\* puts the new model in service.
TrainingEnds(j) ==
    /\ Oldest(j)
    /\ jobs' = jobs \ {j}
    /\ isTraining' = FALSE
    /\ model' = "v2"
    /\ UNCHANGED <<started, stops>>

Next ==
    \/ StartTraining \/ EmergencyStop
    \/ \E j \in jobs : TrainingEnds(j)

(* Fairness: a job's sleep ends and the event loop resumes the job.         *)
Spec == Init /\ [][Next]_vars /\ \A j \in 1 .. MaxJobs : WF_vars(TrainingEnds(j))

-----------------------------------------------------------------------------
(* Properties. *)

\* While the service says it is training, the job it started last is running:
\* no older job, ending late, leaves the flag set without one.
FlagHasItsJob == isTraining => started \in jobs

\* At most one job runs for each emergency stop and one for the flag: only a
\* stop lets a second training start beside the first.
JobsBounded == Cardinality(jobs) <= stops + (IF isTraining THEN 1 ELSE 0)

\* The new model is in service exactly when some job has ended, and is never
\* taken back, however stops and starts interleave with the jobs.
ModelFollowsJobs == model = "v2" <=> Cardinality(jobs) < started

\* The service never stays busy for good: a caller refused because training is
\* in progress finds it idle later.
TrainingEndsAtLast == isTraining ~> ~isTraining

\* What the refusal in foundry.py line 40 is there for: no training starts while
\* another one is in progress.
OneTraining == Cardinality(jobs) <= 1
=============================================================================
