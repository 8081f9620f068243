# Models of the AuraGrid example applications

TLA+ models, TLC runs and TLAPS proofs for the example applications of this
repository. The AuraGrid platform itself (lease store, write-ahead log and event
bus, registry, orchestrator, `auragrid` SDK) is not part of the repository: where
an application calls it, the models take it from the way `src/` uses it and mark
it external.

## 1. Inventory

| Component | State it keeps | Operations | Hard parts | Correct when |
|---|---|---|---|---|
| Sovereign Ledger, `tier3-sovereign-ledger/ledger.py` | fencing token, transaction counter; in the grid: lease, WAL marker, log | acquire, publish, renew every 5th transaction, release | several processes, lost leases, late and abandoned requests, cancellation and failure at every await, restarts | no transaction twice, none skipped, a stale writer is bounded and stops, the marker is sound and never goes back |
| Ledger Auditor, `auditor.py` | cursor `last_seq`, in memory only | consume a batch, report on each event | log grows meanwhile, calls raise, restart from 0 | reports in order, each event once per process, none left out |
| Sentinel, `tier2-grid-gauntlet/sentinel` | violations, last token, last number per topic, tattle evidence, cycle counters | three monitors, a health loop, remote methods, shutdown | tasks share one checker, events repeated or out of order, streams break, cancellation | verdicts are exact, the shutdown event is final |
| Provocateur and playbook, `tier2-grid-gauntlet/provocateur` | results; topics that outlive the process | five attacks in sequence under timeouts | timeout at any await with a call in flight, partial failure, evidence of an earlier run | one result per scenario in order, verdicts have evidence, cleanup |
| Model Foundry, `tier4-model-foundry/foundry.py` | `_is_training`, `_current_model`, running jobs | start, emergency stop, job | jobs nobody can cancel | flag and model tell the truth about the jobs |
| Telemetry Torrent, `tier4-telemetry-torrent` | chunks, acks, the streams | write, read, acknowledge, register, wait for readiness | flow control in both directions, handler failure, lost connection | no deadlock, nothing lost, completed means acknowledged |
| Sovereign Beacon, `tier1-sovereign-beacon/app.py` | heartbeat count, stop event | heartbeat loop, lifecycle events | cancellation at every await, swallowed errors, publications nobody waits for, restarts | the reported count bounds what the topic holds |
| Cognitive Beacon, `tier4-cognitive-beacon/beacon.py` | none | two discoveries, two calls | none | not modelled |
| Direct Inference Bypass, `tier4-direct-inference-bypass` | none | one unary call | none | not modelled |
| Entropy Engine, `tier5-entropy-engine/entropy.py` | switches in the grid | stress, isolate, heal, fail storage | busy loop blocks the event loop, concurrent calls, faults outlive the process | a call to heal gets through |
| Signed Chat, `tier5-signed-chat/chat.py` | cursor | publish lines, listen | end of input, exception in a batch, `consume()` that raises, restarts | every message reached, shown once, in order, under its own badge |
| Resource Glutton, `tier6-container-resource-glutton` | one counter | allocate, stop at 512 MB | none | not modelled |
| GridTestRunner, scenarios, package build | none | scripts | none | not modelled |

How they interact: every application talks to the grid alone, by awaited calls.
The ledger and the auditor share the topic `system.ledger`. The provocateur
attacks what the sentinel watches: `system.service-state`, `system.telemetry` and
the sentinel's lifecycle topic. The entropy engine moves the chaos switches of
the node, which beacon and chat feel: no event is stored while storage is
faulted, no message of another node comes in while gossip is suspended. Inside a Python application everything runs on
one event loop, so a task is undisturbed from one await to the next; that is the
grain of the actions in all models of Python code. The torrent client has two
real tasks, and the worker is another process.

The hazards, each at its line and with the properties that look after it, are
listed in `PROJECT.json`.

## 2. Modules

| Module | Models | Notes |
|---|---|---|
| `Ledger` | `ledger.py`, its manifest's restart policy, and (external) lease store and log | one action per await's outcome; constants for places, renewal period, restarts |
| `EpochLog` | what a fenced ledger promises its readers | the abstract specification; `Ledger` instantiates it with the refinement mapping `epoch <- lastToken`, `open <- holder # 0`, `log <- wal` |
| `OpenLog` | what a ledger promises its readers when the log takes every write | the abstract specification of the other kind of log; `Ledger` instantiates it with `Batch <- RenewEvery`, `epoch <- lastToken`, `log <- wal` |
| `MCLedger` | symmetry of the places, for TLC | |
| `LedgerProofs` | theorems about the log of `Ledger` | |
| `LeaseProofs` | theorems about its leases, marker and stale writers | extends `LedgerProofs` |
| `Auditor`, `AuditorProofs` | `auditor.py` | a topic that grows, a cursor, batches, restarts |
| `Sentinel`, `SentinelProofs` | `sentinel/app.py`, `sentinel/invariants.py` | main, health task and one monitor per topic as tasks |
| `Playbook`, `PlaybookProofs` | `provocateur/app.py`, `playbook.py`, `attacks/*.py` | an attack is the list of its awaits |
| `Foundry`, `FoundryProofs` | `foundry.py` | jobs are numbered as they start |
| `Torrent`, `TorrentProofs` | both `Program.cs` of the torrent | two bounded streams between three tasks |
| `ChaosManager` | (external) the chaos switches of a node | shared by the next three |
| `Entropy` | `entropy.py` | calls in progress, the burning event loop, requests left behind |
| `Beacon` | `tier1-sovereign-beacon/app.py` | `main()` and its heartbeat task, both topics |
| `Chat` | `chat.py` | the input loop and the listener, topic `chat.global` |
| `Cell` | which of the three a node runs, and their steps together | holds the specification, the fairness and `HealHeals` |
| `CellProofs` | theorems about `Cell`: the beacon, the chat, and the types of the whole node | |

Correspondence of state and actions:

- **Ledger.** `pc`, `token`, `counter` are the local variables of `run_ledger()`
  per place; `net` holds requests sent and not yet applied, `reply` the answer
  before the process resumes. So each `await` is three steps (send, apply,
  resume). `CallFails`, `Cancel` and `Crash` may strike at any await and leave
  the request behind, to be applied later or never. `NotExtended` is the `break`
  after a refused renewal, `Finally`/`Released` the `finally` block. A process
  that returns ends as `exited`, one that raises as `failed`; only the latter is
  restarted (`OnFailure`).
- **Auditor.** `events` is the rest of the batch the `for` loop iterates over;
  `Audit` is one turn of it; `Fail` may strike any run, the last one too, and
  loses all of the process's memory. When no restart is left the auditor is `Down`.
- **Sentinel.** `CheckFencingToken` and `CheckEventOrdering` are the checks of
  `InvariantChecker`, used by `Start`, `HealthTick` and `EventDelivered`.
  `delivered` is a history of what the grid delivered; no action of the code
  reads it. A second cancellation of `main()` that strikes the `gather()` skips the
  shutdown event (`CancelledAgain`); one that strikes the publication of it ends
  that as an answer would (`Close`).
- **Playbook.** `at` and `step` say which await of which attack is next,
  `Learned` and `Missed` what the attack notes when the call returns or raises,
  `Conclude` appends the result. The event of a call that raises, times out or
  dies with the process is given up (`GiveUp`): it is stored at once, lost, or
  `adrift`, to be stored at any later time (`Arrives`), also behind what the
  playbook does next. `late` is the history of the places where a command came in
  so. `Stop` ends the process with its memory; the topics and what is adrift go on.
  `Init` lets the topics hold any events of `Prior`, for they outlive the process,
  and lets commands that an earlier process gave up (`Earlier`) be adrift. The two handlers of `_execute_with_timeout()` (timeout, exception) build
  the same verdict; the five attacks let no exception escape, so only the
  timeout is an action.
- **Foundry.** `start_training()` and `emergency_stop()` have no await and are
  one step each. Some model is in service whatever is stopped. A refused start and `get_status()` change nothing and are
  stuttering steps. All jobs sleep equally long, so the oldest ends first.
- **Torrent.** `up` and `down` are the messages flow control lets lie unread;
  `chunk` is the id of the chunk the handler has in hand, which its acknowledgement
  carries; `handler = "errored"` is the catch block of `StreamData` that ends the call
  normally.
- **Entropy.** `calls[c]` is a remote call: queued behind the tasks of the event
  loop, its request sent, or applied and not yet resumed. `trigger_cpu_stress()`
  only creates a task; `burns` counts those that have not run yet, and one of them
  runs at `BurnStarts`. While `burning` no task
  of the engine runs; the requests it sent are applied all the same. A request
  whose call failed or whose process died is adrift: applied later or never. The
  loop of `run_entropy()` only looks, and ends the process when a look fails.
- **Beacon.** `beacon` names the event that is being published, or where `main()`
  waits. Both exits of `_publish_event()` lead on, so `PublishRaises` differs
  from `PublishReturns` only in what becomes of the event. A cancellation while
  the heartbeat task runs leads to the shutdown event; any earlier one ends the
  process.
- **Chat.** `typing` and `listening` are the two tasks. The loop over a batch has
  no await and is one step; `PrintFails` is that step cut short at one message, by the `print()` before
  its line is out, or by the `flush()` behind it.
  At the end of input the input loop spins without a state change.
- **Cell.** A step of one application leaves the variables of the others alone.
  Where the engine is not deployed, `SwitchedElsewhere` moves the switches.

Each module also holds, under a comment "Mutation:", variants of its actions that
break one of the properties: they show that the properties can fail.

## 3. Runs

| Run | Instance | Shows |
|---|---|---|
| `ledger_race` | 2 places, renewal every 2, 3 transactions, 2 requests adrift, no restart, open log | safety and `StaleProcessStops` while a stale process still writes, and that `Ledger` implements `OpenLog` |
| `ledger_fenced` | 2 places, 1 restart each, renewal every 1, 2 transactions, log that checks tokens | that `Ledger` implements `EpochLog` |
| `ledger_failover` | 1 place, 2 restarts | violates `Failover`, which README of tier 3, line 14, promises |
| `auditor` | batches of 2, 3 events, 1 restart | prefix, cursor, every event audited unless the auditor is down for good |
| `sentinel` | 2 topics and telemetry, 3 events with numbers 1 to 3, 6 cycles | verdicts, evidence, shutdown |
| `sentinel_false_alarm` | the same | violates `NoFalseAlarm` at the third tick |
| `playbook` | 1 tattle, flood of 2, windows of 2; service-state starts empty, or with a registration or a transfer of an earlier run; one registration may come in late | results, verdicts, flood count, cleanup, completion |
| `playbook_cleanup` | the same, from empty topics, nothing late | violates `PhantomCleanedUp`, the cleanup step of `tier2_design.md` line 28 |
| `foundry` | 8 jobs, 4 stops | flag, jobs, and that training ends |
| `foundry_one_training` | 6 jobs, 3 stops | violates `OneTraining` |
| `torrent` | 6 chunks, windows of 2 | streams, backpressure, completion, no deadlock |
| `cell` | the engine with 2 calls at a time; the beacon with 2 heartbeats and 1 publication adrift; the chat with 3 messages in batches of 2; 1 restart each | what the beacon's topics tell, what the chat shows, every message reached, and that healing gets through a burning engine |

Whether the ledger's log checks the fencing token is for the platform to say: the
publish call of `ledger.py` line 73 carries no token beside the payload, README
of tier 3, line 8, promises that stale writes are rejected, and
`stale_invoke.py` line 73 that the log accepts every event. So both logs are
checked, `ledger_race` with the open one and `ledger_fenced` with the other. That
the log of `ledger_fenced` refuses a token that is not current is an assumption on
the platform (`FencedWal` in `Publish`, which is external), not a thing `ledger.py`
does: the run and its theorems say what the ledger achieves on such a log.

Why the bounds are enough. A stale writer needs a second place and one more
renewal period than it has seen (3 transactions at a period of 2). Two requests
adrift are an abandoned publish and an abandoned renewal or release at once. The
auditor's topic exceeds a batch, so that a batch ends before the topic does. The
sentinel needs two numbers on one topic and one on another between them, and six
ticks for two rechecks. The playbook's flood fills its telemetry window, as 1000
events fill 100, and an earlier event and two of its own fill the service-state
window. A registration may come in behind its unregistration; for a second late
event, or another command late, the proofs speak. Six chunks
are more than two windows of 2 and the chunk in hand hold, so both sides block.
In `cell` two burns can be queued and a second call can start more for ever while the first asks for
healing, a heartbeat adrift can arrive behind the shutdown event or behind the
startup of the next process, and the chat's topic exceeds a batch. `Deployments`
names one application at a time: beacon and chat meet the engine only through the
switches, and `SwitchedElsewhere` moves these in every way the engine can, so a
node with several of them shows each of them nothing new.
Deadlock checking is off: every one of these systems may stop (a process ends,
the bound on events is used up).

Bounds are named: `MaxTx` stops only a process whose lease is in force,
`MaxAdrift` limits abandoned requests, `MaxLog`, `MaxSeq`, `MaxEvents`,
`MaxCycles`, `MaxCalls`, `MaxJobs`, `MaxStops`, `MaxBeats`, `MaxBeatsAdrift`,
`MaxMessages`, `MaxBurns`, `CallIds` limit what the environment does; `Prior` and
`MaxPrior` what is on the playbook's topics when it starts, `Earlier`, `Drifting`
and (in `Playbook`) `MaxAdrift` which events given up may come in late. `MaxRestarts`,
`EngineRestarts`, `BeaconRestarts` and `ChatRestarts` are the manifests'
`MaxRestartAttempts`.

### Fairness

Weak fairness, with two exceptions, and only of what the event loop, a timer or a
live runtime owes: a task whose reply is there or whose sleep is over is resumed; a
cancelled task ends; a timeout fires; a lease nobody renews runs out; the
orchestrator starts what its policy says. In `Ledger`, `Auditor` and
`Cell` it is assumed that a call that is awaited is answered or fails. `Sentinel` and
`Playbook` assume nothing of the grid's answers: the playbook has its timeout, and
`ShutdownCompletes` goes as far as the publication of the shutdown event, which
`app.py` line 239 awaits without one. Nothing is assumed of requests nobody waits
for, of publishers, of who cancels or crashes.

The exceptions are in `Cell`. A method of the engine runs under strong fairness:
the event loop serves its ready tasks in turn, so a call that waits behind a burn
is served before the burns started after it, although the loop is blocked again
and again. And `consume()` of the chat's listener, which is repeated for ever,
succeeds in the end if it is tried again and again (strong fairness of
`BatchShown`): of a grid that always fails nothing could be said.

### Findings

1. `ledger_failover`: a restarted ledger that meets the unexpired lease of its
   predecessor returns (`ledger.py` lines 43 to 45); exit code 0 is not a failure,
   so no further attempt follows. The same holds after a refused renewal.
2. `sentinel_false_alarm`: `app.py` lines 96 and 205 check the same environment
   variable again with a check that wants a greater value.
3. `playbook_cleanup`: the cleanup of `phantom_registration.py` (line 96) is not in
   a `finally` block and its failure is swallowed.
4. `foundry_one_training`: `emergency_stop()` (`foundry.py` line 54) does not end the job.

Met while modelling, and not a run of its own: `get_status()` of the beacon
describes its count as "the number of heartbeat events published so far"
(`app.py` line 60), but line 164 counts before line 165 publishes, and a failed
publication is swallowed. The count is therefore an upper bound, and
`BeatsHonest` states just that.

## 4. Proofs

Every safety invariant and every action property of the passing runs is a theorem
of its specification, for all values of the constants, from the named assumptions
on them. TLC checked each inductive invariant on the run's instance before it was
proved. A `*Proofs` module states its invariant first, in named parts, then the
lemmas on the operators, one lemma or step per action, and last the theorems.

`LedgerProofs`, for any set of places, any period and any bounds:

- `TypeCorrect`, and `Invariant`: `[]IInv`. None of the safety properties is
  inductive: that a transaction is new in the log depends on what is still in the
  network. `IInv` adds that a token belongs to one process (`TokenInv`), that a
  granted token on its way is nowhere else (`GrantInv`), that the publish request
  of a working process is the one it awaits (`RunInv`), that a publish in the
  network is the only one of its token and the next transaction the log lacks
  (`PublishInv`), that a process knows the last transaction of its token
  (`ProcessInv`), and that the log is ordered per token (`LogInv`).
- `TransactionsAreUnique` (`TxOnce`), `TransactionsHaveNoGap` (`TxInOrder`; it
  adds an argument that the log only grows).
- `FencedImplementsEpochLog`, `ASSUME FencedWal`: with a checking log every step of
  the ledger is a step or a stutter of `EpochLog`. It rests on the lemma
  `FencedEpochOrder`, that such a log takes no entry of an old epoch behind one of a
  newer; that is the doing of the log, and so no property of the ledger.

`LeaseProofs` adds a second invariant, `LeaseInv`, for what a request left behind
can still do to the lease and the marker:

- `HolderInv`: a renewal or release in the network bears a token that was handed
  out, and a process that still has it waits for the answer or has gone on to its
  release. Hence `LiveLeasesOnlyExpire`.
- `RenewInv`, `CommitInv`: a renewal in the network is the only one of its token,
  and one the store may yet accept is of an entry that ends a batch and that the
  marker has not passed. Hence `MarkersAreSound` and `MarkerOnlyAdvances`.
- `HaltInv`, `SpanInv`: an entry is stale when it stands behind one of a newer
  lease. Behind a stale entry that ends a batch its token writes nothing more, for
  the renewal that follows is refused; so the stale entries of one token are of
  one batch. `NextRemainder` and `PhaseFacts` are the arithmetic of the remainder
  by an arbitrary period. Hence `ZombiesAreBounded`.
- `OpenLogIsImplemented` (`ImplementsOpenLog`), with no assumption on the log: every step of the ledger is
  a step or a stutter of `OpenLog`, in which epochs may write at once, each its
  transactions 1, 2, 3, ..., and a superseded one less than a batch more.

`AuditorProofs`: `ReportsArePrefix`, `CursorIsExact`, `TypeCorrect`. The invariant
adds that the batch in hand lies within the topic (`BatchInv`), which the topic's
growth cannot disturb.

`SentinelProofs`: `OrderVerdictsAreExact`, `TokenIsFlagged`,
`ShutdownEventIsFinal`, `TypeCorrect`. The checker's memory of a topic is the
highest number delivered on it (`HighestInv`); it knows the environment's token
from its first check on (`TokenInv`); no task is at its await before `main()`
spawns it or after it was awaited (`TasksInv`), which is what makes the shutdown
event final. Counting needs that the name `"token"`, under which fencing
violations are recorded, is not a topic: `Sentinel` assumes it.

`PlaybookProofs`: `ResultsAreInOrder`, `VerdictsAreFounded`, `FloodEvidenceIsSound`,
`CleanedIsGone`, `TypeCorrect`, for any number of tattles and flood events, any
windows, any events on the topics at the start, and any calls whose events may come
in late. `CleanedIsGone` says that once a cleanup is reported every registration on
the topic is followed by an unregistration, except one that somebody gave up and
that came in late: the code leaves that way open, for a registration that timed out
may be stored behind the unregistration. The proof speaks of the
phantom that a registration in time made (`PhantomInTime`): only an attack registers
one, and the attack that unregisters it is the last. The executor's locals must be as
sound at every await as the result they become (`EvidenceInv`), and each result stays sound while the topics grow
(`ResultSound`): a window shows the oldest events, so what it showed it shows
for good.

`FoundryProofs`: `StopsBoundJobs`, `FlagIsHonest`, `ModelIsHonest`, `TypeCorrect`, for
any number of jobs and stops. The invariant adds that job numbers do not exceed
the counter and that the set of jobs is finite, which counting needs.

`TorrentProofs`: `StreamsAreExact`, `InFlightIsBounded`, `CompletedIsAcked`,
`TypeCorrect`, for any number of chunks and any window. The invariant adds that no
stream exceeds its window and the handler owes one acknowledgement at most
(`WindowInv`), and what the end of one task says of the others (`EndInv`); streams
are compared element by element through `Consecutive`.

`CellProofs`, for any deployment:

- `BeaconInvariant` and `HeartbeatsAreHonest` (`BeatsHonest`), for any number of
  heartbeats, restarts and publications adrift. What is on the topics says too
  little, for an event adrift may arrive at any time: `BeaconInv` speaks of both
  together. None of them is there twice (`Once`); none is of a later process, nor
  of the present one before that has sent it (`RunsInv`), which is what makes an
  event new when it is published; and a shutdown event, wherever it is, totals the
  heartbeats of its process, wherever they are (`Totals`).
- `ChatInvariant` and `MessagesAreShown` (`ShownExactly`), for any batch size and any
  topic. `ChatInv` adds that a message lost because its `print()` raised lies
  behind the cursor. The lines of a batch are defined by the place of each message among the
  readable ones (`Place`, `Lines`), so that the lines of a longer prefix are those
  of a shorter one and those of the batch between them.
- `TypeCorrect`, with the switches and the calls of the engine (`EngineInv`).

Only model-checked: the liveness properties `StaleProcessStops`,
`EveryEventAudited`, `ShutdownCompletes`, `PlaybookCompletes`, `TrainingEndsAtLast`,
`TorrentEnds`, `MessagesReached` and `HealHeals`, for the prover has no ENABLED and
no fairness; and of course the four violations.

## 5. Not modelled

The applications marked so above, each with its reason in `PROJECT.json`. In the
modelled ones: logging, payload text, certificates and signatures as bytes (the
auditor's own check looks only whether they are there, and so does the model),
`execute_one()` of the playbook, which the application never calls, and
`check_lease_present()` of the sentinel, which nobody calls; the waiter tasks that
the beacon's shielded wait leaves pending, which nothing reads.

Abstractions to know of: that a log which checks tokens exists at all (`FencedWal`)
is assumed, as section 3 says. The playbook's events carry no time and no author, so
verdicts on old evidence happen in the model and are not told apart. The torrent's proxy is
part of the streams: `Window` is what the whole way holds. A reader of the torrent
that has ended is what tells the writer that the call is over, beside a broken
connection. In the chat and the beacon a storage fault makes every publication of
the node fail; what it does to other nodes is not modelled.

## 6. Plan

Done: `Ledger` with `EpochLog` and `OpenLog`, `Auditor`, `Sentinel`, `Foundry`,
`Playbook`, `Torrent`, and `Entropy`, `Beacon` and `Chat` composed in `Cell`; the
proofs of section 4 for each of them.

Left, extending the model: `Ledger` and `Auditor` composed over one topic (what
the auditor of a log with a stale writer reports); `Playbook` with a sentinel that
may lose its lease (the false-tattle verdict judged by stale lifecycle events).

Left, proofs: abstract specifications of the auditor (a reader of a growing log)
and of the torrent (a transfer), with the refinements proved as those of the
ledger are.
