------------------------------ MODULE Auditor -------------------------------
(***************************************************************************)
(* The auditor of the Sovereign Ledger (tier3-sovereign-ledger/auditor.py): *)
(* a process that reads topic system.ledger in batches from a cursor it    *)
(* keeps only in memory, and reports on every event.  Others append to the *)
(* topic meanwhile; a call to the grid may raise and end the process.      *)
(***************************************************************************)
EXTENDS Naturals, Sequences, FiniteSetsExt

CONSTANTS
    BatchSize,      \* count of consume(): 10 in the code
    MaxRestarts,    \* MaxRestartAttempts of app.manifest.json (3 there)
    MaxLog          \* bound: events in the topic

ASSUME AuditorAssumption ==
    BatchSize \in Nat \ {0} /\ MaxRestarts \in Nat /\ MaxLog \in Nat

VARIABLES
    log,        \* the events of the topic; an event's sequence number is its place
    pc,         \* where run_auditor() is
    lastSeq,    \* last_seq
    events,     \* the events consume() returned that are not audited yet
    polled,     \* did the last consume() return any event?
    reports,    \* the verdicts this process logged, one per event
    restarts    \* how often the orchestrator restarted the auditor

vars == <<log, pc, lastSeq, events, polled, reports, restarts>>

\* What the auditor looks at in an event: can the payload be decoded, is there
\* a signature, is there a certificate?
Event == [payload : {"transaction", "garbled"}, signature : BOOLEAN, certificate : BOOLEAN]
Verdict == [seq : Nat, txId : {"known", "INVALID"}, pass : BOOLEAN]
Delivered == [seq : Nat, event : Event]

TypeOK ==
    /\ log \in Seq(Event)
    /\ pc \in {"start", "poll", "consume", "audit", "sleep", "failed"}
    /\ lastSeq \in Nat
    /\ events \in Seq(Delivered)
    /\ polled \in BOOLEAN
    /\ reports \in Seq(Verdict)
    /\ restarts \in Nat

\* Mutation: what cannot be decoded is reported under its raw payload.
VerdictRaw(seq, e) ==
    [seq |-> seq,
     txId |-> IF e.payload = "transaction" THEN "known" ELSE e.payload,
     pass |-> e.signature /\ e.certificate]

\* The line the auditor logs on event e: it asks that a signature and a
\* certificate are there, not that they fit the payload.
VerdictOf(seq, e) ==
    [seq |-> seq,
     txId |-> IF e.payload = "transaction" THEN "known" ELSE "INVALID",
     pass |-> e.signature /\ e.certificate]

Init ==
    /\ log = <<>>
    /\ pc = "start"
    /\ lastSeq = 0
    /\ events = <<>>
    /\ polled = FALSE
    /\ reports = <<>>
    /\ restarts = 0

\* Somebody publishes to the topic.
Commit ==
    /\ Len(log) < MaxLog
    /\ \E e \in Event : log' = Append(log, e)
    /\ UNCHANGED <<pc, lastSeq, events, polled, reports, restarts>>

\* topic_exists() is answered; a missing topic is only warned about.
TopicChecked ==
    /\ pc = "start"
    /\ pc' = "poll"
    /\ UNCHANGED <<log, lastSeq, events, polled, reports, restarts>>

\* Mutation: the call asks for the events from last_seq + 1 on.
ConsumeSkipsOne ==
    /\ pc = "poll"
    /\ events' = [k \in 1 .. Min({BatchSize, Len(log) - Min({Len(log), lastSeq + 1})}) |->
                    [seq |-> lastSeq + 1 + k, event |-> log[lastSeq + 1 + k]]]
    /\ polled' = (events' # <<>>)
    /\ pc' = "consume"
    /\ UNCHANGED <<log, lastSeq, reports, restarts>>

\* The grid answers consume(after = last_seq, count = BatchSize).
Consume ==
    /\ pc = "poll"
    /\ events' = [k \in 1 .. Min({BatchSize, Len(log) - lastSeq}) |->
                    [seq |-> lastSeq + k, event |-> log[lastSeq + k]]]
    /\ polled' = (events' # <<>>)
    /\ pc' = "consume"
    /\ UNCHANGED <<log, lastSeq, reports, restarts>>

\* The answer reaches the auditor.
Resume ==
    /\ pc = "consume"
    /\ pc' = "audit"
    /\ UNCHANGED <<log, lastSeq, events, polled, reports, restarts>>

\* Mutation: the cursor advances only past events that pass.
AuditKeepsCursor ==
    /\ pc = "audit" /\ events # <<>>
    /\ LET d == Head(events) IN
         /\ lastSeq' = IF d.event.signature THEN d.seq ELSE lastSeq
         /\ reports' = Append(reports, VerdictOf(d.seq, d.event))
    /\ events' = Tail(events)
    /\ UNCHANGED <<log, pc, polled, restarts>>

\* Mutation: an undecodable payload ends the loop over the batch.
AuditBreaks ==
    /\ pc = "audit" /\ events # <<>>
    /\ LET d == Head(events) IN
         /\ lastSeq' = IF d.event.payload = "garbled" THEN lastSeq ELSE d.seq
         /\ reports' = IF d.event.payload = "garbled" THEN reports
                       ELSE Append(reports, VerdictOf(d.seq, d.event))
         /\ events' = IF d.event.payload = "garbled" THEN <<>> ELSE Tail(events)
    /\ UNCHANGED <<log, pc, polled, restarts>>

\* One turn of the loop over the batch.
Audit ==
    /\ pc = "audit" /\ events # <<>>
    /\ LET d == Head(events) IN
         /\ lastSeq' = d.seq
         /\ reports' = Append(reports, VerdictOf(d.seq, d.event))
    /\ events' = Tail(events)
    /\ UNCHANGED <<log, pc, polled, restarts>>

BatchDone ==
    /\ pc = "audit" /\ events = <<>>
    /\ pc' = IF polled THEN "poll" ELSE "sleep"
    /\ UNCHANGED <<log, lastSeq, events, polled, reports, restarts>>

Wake ==
    /\ pc = "sleep"
    /\ pc' = "poll"
    /\ UNCHANGED <<log, lastSeq, events, polled, reports, restarts>>

\* A call raises, or the process dies between two events: its memory is gone.
Fail ==
    /\ pc # "failed"
    /\ pc' = "failed"
    /\ lastSeq' = 0 /\ events' = <<>> /\ polled' = FALSE /\ reports' = <<>>
    /\ UNCHANGED <<log, restarts>>

\* The orchestrator starts it again, MaxRestarts times: run_auditor() begins at
\* sequence number 0.
Restart ==
    /\ pc = "failed"
    /\ restarts < MaxRestarts
    /\ pc' = "start"
    /\ restarts' = restarts + 1
    /\ UNCHANGED <<log, lastSeq, events, polled, reports>>

Run == TopicChecked \/ Consume \/ Resume \/ Audit \/ BatchDone \/ Wake

Next == Commit \/ Run \/ Fail \/ Restart

(* Fairness: an awaited call of the grid is answered or raises, so that the   *)
(* auditor either goes on or fails; an orchestrator that may restart it does. *)
(* Publishers need not publish.                                               *)
Spec == Init /\ [][Next]_vars /\ WF_vars(Run \/ Fail) /\ WF_vars(Restart)

-----------------------------------------------------------------------------
(* Properties. *)

\* Non-repudiation as far as the auditor goes: what this process has reported is
\* the verdict on the first events of the topic, each once, none left out, in
\* their order, whatever was committed while a batch was on its way.
AuditsAPrefix ==
    /\ Len(reports) <= Len(log)
    /\ \A n \in DOMAIN reports : reports[n] = VerdictOf(n, log[n])

\* The cursor is where the reports end and the batch in hand continues them, so
\* that a batch neither repeats nor skips an event.
CursorExact ==
    /\ lastSeq = Len(reports)
    /\ \A k \in DOMAIN events : events[k] = [seq |-> lastSeq + k, event |-> log[lastSeq + k]]

\* The orchestrator has given the auditor up.
Down == pc = "failed" /\ restarts = MaxRestarts

\* Every event of the topic is reported on in the end, by whichever run of the
\* auditor is the last, and stays so: a failed run's reports are made again from
\* the start.  Only an auditor that fails more often than it is restarted leaves
\* events unaudited.
EveryEventAudited ==
    \A n \in 1 .. MaxLog : n <= Len(log) ~> [](n <= Len(reports) \/ Down)
=============================================================================
