------------------------------- MODULE Ledger -------------------------------
(***************************************************************************)
(* The Tier 3 Sovereign Ledger (tier3-sovereign-ledger/ledger.py): the     *)
(* processes that run run_ledger(), the lease store and the write-ahead    *)
(* log they call, and the requests between them.                           *)
(*                                                                         *)
(* Every await is three steps: the process sends a request, the grid       *)
(* applies it, the process resumes with the reply.  In between the process *)
(* may be cancelled, may see the call fail, or may be killed; the request  *)
(* it leaves behind is still in the network and the grid may yet apply it. *)
(***************************************************************************)
EXTENDS Integers, Sequences, FiniteSets

CONSTANTS
    Instances,      \* the places where the orchestrator runs ledger.py
    RenewEvery,     \* transactions between two renewals (5 in the code)
    MaxRestarts,    \* MaxRestartAttempts of app.manifest.json (3 there)
    MaxTx,          \* bound: transactions a process that holds the lease starts
    MaxAdrift,      \* bound: requests in the network that nobody waits for
    FencedWal       \* does the log refuse a write whose token is not current?

ASSUME RenewEveryAssumption == RenewEvery \in Nat \ {0}
ASSUME BoundsAssumption == MaxRestarts \in Nat /\ MaxTx \in Nat /\ MaxAdrift \in Nat
ASSUME FencedWalAssumption == FencedWal \in BOOLEAN

VARIABLES
    pc,         \* pc[i]: where the process of place i is
    token,      \* token[i]: its fencing_token, 0 when it has none
    counter,    \* counter[i]: its counter, the number of the last transaction
    failing,    \* failing[i]: an exception is waiting for the finally block
    restarts,   \* restarts[i]: how often the orchestrator restarted place i
    net,        \* requests sent and not yet applied
    reply,      \* reply[i]: what the grid answered the process of place i
    holder,     \* the fencing token of the lease in force, 0 when it is free
    lastToken,  \* the last fencing token granted
    marker,     \* the WAL marker stored with the lease
    wal         \* the entries of topic system.ledger, in sequence order

processVars == <<pc, token, counter, failing, restarts>>
storeVars == <<holder, lastToken, marker>>
vars == <<processVars, net, reply, storeVars, wal>>

Calls == {"acquire", "publish", "renew", "release"}
Over == {"launch", "exited", "cancelled", "failed"}     \* no process is running
Working == {"publish", "renew", "sleep"}        \* inside the try block

\* n is the transaction of a publish and the sequence number of a renew.
Request == [op : Calls, src : Instances, run : Nat, token : Nat, n : Nat]
Entry == [token : Nat, tx : Nat]

NoReply == [status |-> "none", value |-> 0]
Refused == [status |-> "refused", value |-> 0]
Ok(v) == [status |-> "ok", value |-> v]

TypeOK ==
    /\ pc \in [Instances -> Calls \cup Over \cup {"sleep"}]
    /\ token \in [Instances -> Nat]
    /\ counter \in [Instances -> Nat]
    /\ failing \in [Instances -> BOOLEAN]
    /\ restarts \in [Instances -> Nat]
    /\ net \in SUBSET Request
    /\ reply \in [Instances -> [status : {"none", "ok", "refused"}, value : Nat]]
    /\ holder \in Nat
    /\ lastToken \in Nat
    /\ marker \in Nat
    /\ wal \in Seq(Entry)

Init ==
    /\ pc = [i \in Instances |-> "launch"]
    /\ token = [i \in Instances |-> 0]
    /\ counter = [i \in Instances |-> 0]
    /\ failing = [i \in Instances |-> FALSE]
    /\ restarts = [i \in Instances |-> 0]
    /\ net = {}
    /\ reply = [i \in Instances |-> NoReply]
    /\ holder = 0
    /\ lastToken = 0
    /\ marker = 0
    /\ wal = <<>>

-----------------------------------------------------------------------------
(* The process: run_ledger(). *)

\* Start a call: the process waits at pc = op, its request is in the network.
Send(i, op, run, t, n) ==
    /\ pc' = [pc EXCEPT ![i] = op]
    /\ reply' = [reply EXCEPT ![i] = NoReply]
    /\ net' = net \cup {[op |-> op, src |-> i, run |-> run, token |-> t, n |-> n]}

\* Mutation: the token of a process that left is marked by a number of its own.
LeaveToken(i, how) ==
    /\ pc' = [pc EXCEPT ![i] = how]
    /\ token' = [token EXCEPT ![i] = -1]
    /\ UNCHANGED <<counter, failing, reply, restarts, net>>

\* Leave the process: what it held in memory is gone, its requests are not.
Leave(i, how) ==
    /\ pc' = [pc EXCEPT ![i] = how]
    /\ token' = [token EXCEPT ![i] = 0]
    /\ counter' = [counter EXCEPT ![i] = 0]
    /\ failing' = [failing EXCEPT ![i] = FALSE]
    /\ reply' = [reply EXCEPT ![i] = NoReply]
    /\ UNCHANGED <<restarts, net>>

\* The finally block: give the lease back with the token of this process.
Finally(i, error) ==
    /\ Send(i, "release", restarts[i], token[i], 0)
    /\ failing' = [failing EXCEPT ![i] = error]
    /\ UNCHANGED <<token, counter, restarts>>

\* Is the sender of r still waiting for the answer to r?
Awaited(r) == pc[r.src] = r.op /\ restarts[r.src] = r.run

\* The bound MaxAdrift: a process leaves a request behind only while there are
\* fewer than that; without one in the network it may always stop waiting.
MayAbandon(i) ==
    \/ \A r \in net : Awaited(r) => r.src # i
    \/ Cardinality({r \in net : ~Awaited(r)}) < MaxAdrift

Launch(i) ==
    /\ pc[i] = "launch"
    /\ Send(i, "acquire", restarts[i], 0, 0)
    /\ UNCHANGED <<token, counter, failing, restarts, storeVars, wal>>

\* RestartPolicy OnFailure: only a process that failed is started again.
Restart(i) ==
    /\ pc[i] = "failed"
    /\ restarts[i] < MaxRestarts
    /\ restarts' = [restarts EXCEPT ![i] = @ + 1]
    /\ Send(i, "acquire", restarts[i] + 1, 0, 0)
    /\ UNCHANGED <<token, counter, failing, storeVars, wal>>

Acquired(i) ==
    /\ pc[i] = "acquire"
    /\ reply[i].status = "ok"
    /\ token' = [token EXCEPT ![i] = reply[i].value]
    /\ counter' = [counter EXCEPT ![i] = 1]
    /\ Send(i, "publish", restarts[i], reply[i].value, 1)
    /\ UNCHANGED <<failing, restarts, storeVars, wal>>

NotAcquired(i) ==
    /\ pc[i] = "acquire"
    /\ reply[i].status = "refused"
    /\ Leave(i, "exited")
    /\ UNCHANGED <<storeVars, wal>>

\* Mutation: the marker is the transaction number, not the sequence number.
MarkerIsCounter(i) ==
    /\ pc[i] = "publish"
    /\ reply[i].status = "ok"
    /\ IF counter[i] % RenewEvery = 0
       THEN Send(i, "renew", restarts[i], token[i], counter[i])
       ELSE pc' = [pc EXCEPT ![i] = "sleep"] /\ UNCHANGED <<net, reply>>
    /\ UNCHANGED <<token, counter, failing, restarts, storeVars, wal>>

\* A refused publish is an exception (CallFails); reply[i].value is the
\* sequence number of the event just published.
Published(i) ==
    /\ pc[i] = "publish"
    /\ reply[i].status = "ok"
    /\ IF counter[i] % RenewEvery = 0
       THEN Send(i, "renew", restarts[i], token[i], reply[i].value)
       ELSE /\ pc' = [pc EXCEPT ![i] = "sleep"]
            /\ reply' = [reply EXCEPT ![i] = NoReply]
            /\ UNCHANGED net
    /\ UNCHANGED <<token, counter, failing, restarts, storeVars, wal>>

Renewed(i) ==
    /\ pc[i] = "renew"
    /\ reply[i].status = "ok"
    /\ pc' = [pc EXCEPT ![i] = "sleep"]
    /\ reply' = [reply EXCEPT ![i] = NoReply]
    /\ UNCHANGED <<token, counter, failing, restarts, net, storeVars, wal>>

\* Mutation: the break after a refused renewal is forgotten.
CarryOn(i) ==
    /\ pc[i] = "renew"
    /\ reply[i].status = "refused"
    /\ pc' = [pc EXCEPT ![i] = "sleep"]
    /\ UNCHANGED <<token, counter, failing, restarts, net, reply, storeVars, wal>>

\* Mutation: a refused renewal is tried again.
RenewAgain(i) ==
    /\ pc[i] = "renew"
    /\ reply[i].status = "refused"
    /\ Send(i, "renew", restarts[i], token[i], Len(wal))
    /\ UNCHANGED <<token, counter, failing, restarts, storeVars, wal>>

NotExtended(i) ==
    /\ pc[i] = "renew"
    /\ reply[i].status = "refused"
    /\ Finally(i, FALSE)
    /\ UNCHANGED <<storeVars, wal>>

\* Mutation: the counter is not incremented.
WakeSameTx(i) ==
    /\ pc[i] = "sleep"
    /\ Send(i, "publish", restarts[i], token[i], counter[i])
    /\ UNCHANGED <<token, counter, failing, restarts, storeVars, wal>>

\* The bound MaxTx stops only a process whose lease is in force: one that
\* lost it goes on until its next renewal, as in the code.
Wake(i) ==
    /\ pc[i] = "sleep"
    /\ counter[i] < MaxTx \/ token[i] # holder
    /\ counter' = [counter EXCEPT ![i] = @ + 1]
    /\ Send(i, "publish", restarts[i], token[i], counter[i] + 1)
    /\ UNCHANGED <<token, failing, restarts, storeVars, wal>>

Released(i) ==
    /\ pc[i] = "release"
    /\ reply[i].status = "ok"
    /\ Leave(i, IF failing[i] THEN "failed" ELSE "exited")
    /\ UNCHANGED <<storeVars, wal>>

\* Mutation: a failed publish is logged and skipped.
PublishFailureSwallowed(i) ==
    /\ pc[i] = "publish"
    /\ MayAbandon(i)
    /\ pc' = [pc EXCEPT ![i] = "sleep"]
    /\ UNCHANGED <<token, counter, failing, restarts, net, reply, storeVars, wal>>

\* The awaited call raises: connection lost, timeout, write refused.  The
\* request may have been applied, may be applied later, or never.
CallFails(i) ==
    /\ MayAbandon(i)
    /\ \/ /\ pc[i] \in {"publish", "renew"}
          /\ Finally(i, TRUE)
       \/ /\ pc[i] \in {"acquire", "release"}
          /\ Leave(i, "failed")
    /\ UNCHANGED <<storeVars, wal>>

\* The shutdown signal cancels the task at its await.
Cancel(i) ==
    /\ MayAbandon(i)
    /\ \/ /\ pc[i] \in Working
          /\ Finally(i, FALSE)
       \/ /\ pc[i] \in {"acquire", "release"}
          /\ Leave(i, "cancelled")
    /\ UNCHANGED <<storeVars, wal>>

\* The process or its node dies.
Crash(i) ==
    /\ pc[i] \notin Over
    /\ MayAbandon(i)
    /\ Leave(i, "failed")
    /\ UNCHANGED <<storeVars, wal>>

-----------------------------------------------------------------------------
(* The grid: the lease store and the log, as ledger.py uses them. *)

Answer(r, a) ==
    /\ net' = net \ {r}
    /\ reply' = IF Awaited(r) THEN [reply EXCEPT ![r.src] = a] ELSE reply

\* Mutation: the store grants a lease that is still in force.
AcquireHeld(r) ==
    /\ r.op = "acquire"
    /\ lastToken' = lastToken + 1
    /\ holder' = lastToken + 1
    /\ Answer(r, Ok(lastToken + 1))
    /\ UNCHANGED <<processVars, marker, wal>>

TryAcquireLease(r) ==
    /\ r.op = "acquire"
    /\ IF holder = 0
       THEN /\ lastToken' = lastToken + 1
            /\ holder' = lastToken + 1
            /\ Answer(r, Ok(lastToken + 1))
       ELSE /\ Answer(r, Refused)
            /\ UNCHANGED <<holder, lastToken>>
    /\ UNCHANGED <<processVars, marker, wal>>

Publish(r) ==
    /\ r.op = "publish"
    /\ IF FencedWal /\ r.token # holder
       THEN /\ Answer(r, Refused)
            /\ UNCHANGED wal
       ELSE /\ wal' = Append(wal, [token |-> r.token, tx |-> r.n])
            /\ Answer(r, Ok(Len(wal) + 1))
    /\ UNCHANGED <<processVars, storeVars>>

\* Mutation: the store renews whatever the token.
RenewWithoutToken(r) ==
    /\ r.op = "renew"
    /\ marker' = r.n
    /\ Answer(r, Ok(0))
    /\ UNCHANGED <<processVars, holder, lastToken, wal>>

RenewLease(r) ==
    /\ r.op = "renew"
    /\ IF r.token = holder
       THEN marker' = r.n /\ Answer(r, Ok(0))
       ELSE Answer(r, Refused) /\ UNCHANGED marker
    /\ UNCHANGED <<processVars, holder, lastToken, wal>>

\* Mutation: the store releases whatever the token.
ReleaseWithoutToken(r) ==
    /\ r.op = "release"
    /\ holder' = 0
    /\ Answer(r, Ok(0))
    /\ UNCHANGED <<processVars, lastToken, marker, wal>>

ReleaseLease(r) ==
    /\ r.op = "release"
    /\ holder' = IF r.token = holder THEN 0 ELSE holder
    /\ Answer(r, Ok(0))
    /\ UNCHANGED <<processVars, lastToken, marker, wal>>

\* The lease runs out: renewals are late, or its holder is gone.
Expire ==
    /\ holder # 0
    /\ holder' = 0
    /\ UNCHANGED <<processVars, net, reply, lastToken, marker, wal>>

-----------------------------------------------------------------------------
Progress(i) ==
    \/ Acquired(i) \/ NotAcquired(i)
    \/ Published(i) \/ Renewed(i) \/ NotExtended(i)
    \/ Wake(i) \/ Released(i)

Apply(r) == TryAcquireLease(r) \/ Publish(r) \/ RenewLease(r) \/ ReleaseLease(r)

Next ==
    \/ \E i \in Instances :
         Launch(i) \/ Restart(i) \/ Progress(i)
           \/ CallFails(i) \/ Cancel(i) \/ Crash(i)
    \/ \E r \in net : Apply(r)
    \/ Expire

Spec == Init /\ [][Next]_vars

(* Fairness: the event loop resumes a process whose reply is there and     *)
(* whose sleep is over, the grid answers or fails a call that is awaited,  *)
(* the orchestrator starts what it should start, and a lease nobody renews *)
(* runs out.  Nothing is assumed of abandoned requests.                    *)
Abandoned(t) == \A i \in Instances : token[i] # t

Fairness ==
    /\ \A i \in Instances :
         /\ WF_vars(Launch(i) \/ Restart(i))
         /\ WF_vars(Progress(i))
         /\ WF_vars(CallFails(i) \/ \E r \in net : r.src = i /\ Awaited(r) /\ Apply(r))
    /\ WF_vars(Expire /\ Abandoned(holder))

FairSpec == Spec /\ Fairness

-----------------------------------------------------------------------------
(* Properties. *)

\* No transaction of a process is in the log twice, whatever was retried,
\* abandoned or restarted: the pair (fencingToken, txId) names one entry,
\* although txId alone starts again at TX-0001 with every process.
TxOnce ==
    \A m, n \in DOMAIN wal : wal[m] = wal[n] => m = n

\* The transactions of one fencing token have no gap and are in order: a
\* transaction is in the log only behind the one before it, because the next
\* is sent only when the last was acknowledged.
TxInOrder ==
    \A n \in DOMAIN wal :
        wal[n].tx > 1 =>
            \E m \in 1 .. (n - 1) :
                wal[m] = [token |-> wal[n].token, tx |-> wal[n].tx - 1]

\* A process that lost its lease writes at most RenewEvery transactions behind
\* the first entry of its successor: its next renewal halts it.
ZombieWritesBounded ==
    \A n \in DOMAIN wal : \A k, m \in (n + 1) .. Len(wal) :
        (/\ wal[k].token = wal[m].token
         /\ wal[m].token < wal[n].token)
            => wal[m].tx < wal[k].tx + RenewEvery

\* A marker names an entry of the log, written by a process that held the
\* lease, at the end of a batch of RenewEvery transactions.
MarkerSound ==
    marker # 0 =>
        /\ marker \in DOMAIN wal
        /\ wal[marker].tx % RenewEvery = 0

\* Progress is never taken back: no delayed renewal of an older process moves
\* the marker behind what a newer one has committed.
MarkerMonotone == [][marker' >= marker]_vars

\* The lease of a process that is at work ends only by running out: a release
\* sent by an older process, however late it arrives, does not end it.
LiveLeaseOnlyExpires ==
    [][ (/\ holder' # holder
         /\ \E i \in Instances : pc[i] \in Working /\ token[i] = holder)
        => Expire ]_vars

\* With a log that fences, the whole is the log EpochLog describes: one writer
\* at a time, each epoch a run of transactions 1, 2, 3, ...
Epochs == INSTANCE EpochLog WITH
    epoch <- lastToken, open <- (holder # 0), log <- wal
ImplementsEpochLog == Epochs!Spec

\* With a log that takes every write, it is the log OpenLog describes: several
\* writers at once, each in its own order and without a gap, and one that writes
\* behind a newer epoch soon at its end.
Logs == INSTANCE OpenLog WITH Batch <- RenewEvery, epoch <- lastToken, log <- wal
ImplementsOpenLog == Logs!Spec

\* A process that lost its lease comes to an end, by its next renewal.
StaleProcessStops ==
    \A i \in Instances :
        (token[i] # 0 /\ token[i] # holder) ~> (token[i] = 0 \/ token[i] = holder)

\* What README.md line 14 promises: a ledger that failed while restart attempts
\* are left is followed by one that holds the lease, unless someone shuts it
\* down or it fails until no attempt is left.
Failover ==
    \A i \in Instances :
        (pc[i] = "failed" /\ restarts[i] < MaxRestarts)
            ~> \/ \E j \in Instances : token[j] # 0
               \/ pc[i] = "cancelled"
               \/ pc[i] = "failed" /\ restarts[i] = MaxRestarts
=============================================================================
