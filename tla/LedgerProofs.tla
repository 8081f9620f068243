---------------------------- MODULE LedgerProofs ----------------------------
(***************************************************************************)
(* What TLAPS proves of Ledger: for any set of places, any period of       *)
(* renewal and any bounds.                                                 *)
(***************************************************************************)
EXTENDS Ledger, SequenceTheorems, TLAPS

-----------------------------------------------------------------------------
(* Type correctness. *)

LEMMA InitType == Init => TypeOK
  BY DEF Init, TypeOK, NoReply, Entry, Request, Over

\* Sending a request of the right type keeps the types of what it changes.
LEMMA SendType ==
  ASSUME TypeOK, NEW i \in Instances, NEW op \in Calls, NEW run \in Nat,
         NEW t \in Nat, NEW n \in Nat, Send(i, op, run, t, n)
  PROVE  /\ pc' \in [Instances -> Calls \cup Over \cup {"sleep"}]
         /\ reply' \in [Instances -> [status : {"none", "ok", "refused"}, value : Nat]]
         /\ net' \in SUBSET Request
  BY DEF TypeOK, Send, NoReply, Request

LEMMA LeaveType ==
  ASSUME TypeOK, NEW i \in Instances, NEW how \in Over, Leave(i, how),
         UNCHANGED <<storeVars, wal>>
  PROVE  TypeOK'
  BY DEF TypeOK, Leave, NoReply, storeVars

LEMMA FinallyType ==
  ASSUME TypeOK, NEW i \in Instances, NEW error \in BOOLEAN, Finally(i, error),
         UNCHANGED <<storeVars, wal>>
  PROVE  TypeOK'
  <1>1. restarts[i] \in Nat /\ token[i] \in Nat /\ "release" \in Calls
    BY DEF TypeOK, Calls
  <1>2. Send(i, "release", restarts[i], token[i], 0)
    BY DEF Finally
  <1> HIDE DEF Send
  <1>3. /\ pc' \in [Instances -> Calls \cup Over \cup {"sleep"}]
        /\ reply' \in [Instances -> [status : {"none", "ok", "refused"}, value : Nat]]
        /\ net' \in SUBSET Request
    BY <1>1, <1>2, SendType
  <1> QED
    BY <1>3 DEF TypeOK, Finally, storeVars

\* The grid answers requests of the network only.
LEMMA AnswerType ==
  ASSUME TypeOK, NEW r \in net,
         NEW a \in [status : {"none", "ok", "refused"}, value : Nat], Answer(r, a)
  PROVE  /\ reply' \in [Instances -> [status : {"none", "ok", "refused"}, value : Nat]]
         /\ net' \in SUBSET Request
  BY DEF TypeOK, Answer, Request

\* Every step of a process keeps the types.
LEMMA ProcessType ==
  ASSUME TypeOK, NEW i \in Instances,
         \/ Launch(i) \/ Restart(i) \/ Progress(i)
         \/ CallFails(i) \/ Cancel(i) \/ Crash(i)
  PROVE  TypeOK'
  <1> USE BoundsAssumption
  <1>0. /\ restarts[i] \in Nat /\ token[i] \in Nat /\ counter[i] \in Nat
        /\ reply[i].value \in Nat
        /\ {"acquire", "publish", "renew"} \subseteq Calls
        /\ {"exited", "cancelled", "failed"} \subseteq Over
    BY DEF TypeOK, Calls, Over
  <1>1. CASE Launch(i)
    BY <1>0, <1>1, SendType DEF Launch, TypeOK, storeVars
  <1>2. CASE Restart(i)
    BY <1>0, <1>2, SendType DEF Restart, TypeOK, storeVars
  <1>3. CASE Acquired(i)
    BY <1>0, <1>3, SendType DEF Acquired, TypeOK, storeVars
  <1>4. CASE NotAcquired(i)
    BY <1>0, <1>4, LeaveType DEF NotAcquired
  <1>5. CASE Published(i)
    <2>1. CASE counter[i] % RenewEvery = 0
      BY <1>0, <1>5, <2>1, SendType DEF Published, TypeOK, storeVars
    <2>2. CASE counter[i] % RenewEvery # 0
      <3>1. /\ pc' = [pc EXCEPT ![i] = "sleep"]
            /\ reply' = [reply EXCEPT ![i] = NoReply]
            /\ UNCHANGED <<token, counter, failing, restarts, net, storeVars, wal>>
        BY <1>5, <2>2 DEF Published
      <3> QED
        BY <3>1 DEF TypeOK, storeVars, NoReply
    <2> QED
      BY <2>1, <2>2
  <1>6. CASE Renewed(i)
    BY <1>6 DEF Renewed, TypeOK, storeVars, NoReply
  <1>7. CASE NotExtended(i)
    BY <1>7, FinallyType DEF NotExtended
  <1>8. CASE Wake(i)
    BY <1>0, <1>8, SendType DEF Wake, TypeOK, storeVars
  <1>9. CASE Released(i)
    BY <1>0, <1>9, LeaveType DEF Released
  <1>10. CASE CallFails(i)
    BY <1>0, <1>10, LeaveType, FinallyType DEF CallFails
  <1>11. CASE Cancel(i)
    BY <1>0, <1>11, LeaveType, FinallyType DEF Cancel
  <1>12. CASE Crash(i)
    BY <1>0, <1>12, LeaveType DEF Crash
  <1> QED
    BY <1>1, <1>2, <1>3, <1>4, <1>5, <1>6, <1>7, <1>8, <1>9, <1>10, <1>11, <1>12
    DEF Progress

\* Every step of the grid keeps the types.
LEMMA GridType ==
  ASSUME TypeOK, NEW r \in net, Apply(r)
  PROVE  TypeOK'
  <1>0. /\ r \in Request
        /\ \A v \in Nat : Ok(v) \in [status : {"none", "ok", "refused"}, value : Nat]
        /\ Refused \in [status : {"none", "ok", "refused"}, value : Nat]
    BY DEF TypeOK, Ok, Refused
  <1>1. CASE TryAcquireLease(r)
    <2>1. lastToken + 1 \in Nat
      BY DEF TypeOK
    <2> QED
      BY <1>0, <1>1, <2>1, AnswerType DEF TryAcquireLease, TypeOK, processVars
  <1>2. CASE Publish(r)
    <2>1. /\ Len(wal) + 1 \in Nat
          /\ Append(wal, [token |-> r.token, tx |-> r.n]) \in Seq(Entry)
      BY <1>0, AppendProperties DEF TypeOK, Request, Entry
    <2> QED
      BY <1>0, <1>2, <2>1, AnswerType DEF Publish, TypeOK, processVars, storeVars
  <1>3. CASE RenewLease(r)
    BY <1>0, <1>3, AnswerType DEF RenewLease, TypeOK, processVars, Request
  <1>4. CASE ReleaseLease(r)
    BY <1>0, <1>4, AnswerType DEF ReleaseLease, TypeOK, processVars
  <1> QED
    BY <1>1, <1>2, <1>3, <1>4 DEF Apply

LEMMA NextType == TypeOK /\ [Next]_vars => TypeOK'
  <1> SUFFICES ASSUME TypeOK, [Next]_vars
               PROVE  TypeOK'
    OBVIOUS
  <1>1. CASE Expire
    BY <1>1 DEF Expire, TypeOK, processVars
  <1>2. CASE UNCHANGED vars
    BY <1>2 DEF vars, processVars, storeVars, TypeOK
  <1> QED
    BY <1>1, <1>2, ProcessType, GridType DEF Next

\* Every variable of the processes, the network, the lease store and the log
\* keeps its type, whatever fails or is cancelled.
THEOREM TypeCorrect == Spec => []TypeOK
  BY InitType, NextType, PTL DEF Spec

-----------------------------------------------------------------------------
(* The inductive invariant, in parts. *)

IsPublish(r) == r.op = "publish"

Granted(i) == pc[i] = "acquire" /\ reply[i].status = "ok"

InLog(t, n) == \E k \in DOMAIN wal : wal[k] = [token |-> t, tx |-> n]

StoreInv == holder = 0 \/ holder = lastToken

\* A token belongs to one process at a time.
TokenInv ==
    \A i \in Instances :
        /\ token[i] <= lastToken
        /\ token[i] = 0 <=> pc[i] \in Over \cup {"acquire"}
        /\ \A j \in Instances : token[i] = token[j] /\ token[i] # 0 => i = j

\* A token on its way to its process is nowhere else yet.
GrantInv ==
    \A i \in Instances : Granted(i) =>
        /\ reply[i].value \in 1 .. lastToken
        /\ \A j \in Instances : token[j] # reply[i].value
        /\ \A j \in Instances \ {i} : Granted(j) => reply[j].value # reply[i].value
        /\ \A k \in DOMAIN wal : wal[k].token # reply[i].value
        /\ \A r \in net : IsPublish(r) => r.token # reply[i].value

\* The publish request of the present run of a process at work is the one
\* the process waits for.
RunInv ==
    \A r \in net :
        /\ r.run <= restarts[r.src]
        /\ (IsPublish(r) /\ r.run = restarts[r.src]) =>
              /\ pc[r.src] \notin {"launch", "acquire"}
              /\ pc[r.src] \in Working =>
                    /\ pc[r.src] = "publish"
                    /\ r.token = token[r.src]
                    /\ r.n = counter[r.src]

\* A publish in the network is the only one of its token, its transaction is
\* the next one the log lacks.
PublishInv ==
    \A r \in net : IsPublish(r) =>
        /\ r.token \in 1 .. lastToken
        /\ r.n >= 1
        /\ \A k \in DOMAIN wal : wal[k].token = r.token => wal[k].tx < r.n
        /\ r.n > 1 => InLog(r.token, r.n - 1)
        /\ \A s \in net : IsPublish(s) /\ s.token = r.token => s = r

\* A process knows the last transaction of its token.
ProcessInv ==
    \A i \in Instances : token[i] # 0 =>
        /\ \A k \in DOMAIN wal : wal[k].token = token[i] => wal[k].tx <= counter[i]
        /\ \A r \in net : IsPublish(r) /\ r.token = token[i] =>
              /\ r.n <= counter[i]
              /\ pc[i] = "release" \/ (pc[i] = "publish" /\ reply[i].status # "ok")
        /\ (pc[i] \in {"renew", "sleep"} \/ (pc[i] = "publish" /\ reply[i].status = "ok"))
              => InLog(token[i], counter[i])

LogInv ==
    \A k \in DOMAIN wal :
        /\ wal[k].token \in 1 .. lastToken
        /\ wal[k].tx >= 1
        /\ \A m \in 1 .. (k - 1) : wal[m].token = wal[k].token => wal[m].tx < wal[k].tx

IInv ==
    /\ TypeOK /\ StoreInv /\ TokenInv /\ GrantInv /\ RunInv
    /\ PublishInv /\ ProcessInv /\ LogInv

LEMMA InitInv == Init => IInv
  <1> SUFFICES ASSUME Init PROVE IInv
    OBVIOUS
  <1>1. TypeOK
    BY InitType
  <1>2. StoreInv /\ TokenInv /\ GrantInv /\ RunInv /\ PublishInv /\ ProcessInv /\ LogInv
    BY DEF Init, StoreInv, TokenInv, GrantInv, RunInv, PublishInv, ProcessInv,
           LogInv, Granted, Over, NoReply
  <1> QED
    BY <1>1, <1>2 DEF IInv

\* A process that ends takes nothing with it that another one relies on.
LEMMA LeaveInv ==
  ASSUME IInv, NEW i \in Instances, NEW how \in Over \ {"launch"}, Leave(i, how),
         UNCHANGED <<storeVars, wal>>
  PROVE  IInv'
  <1> USE DEF IInv, Leave, storeVars
  <1>1. TypeOK'
    BY LeaveType
  <1>2. StoreInv'
    BY DEF StoreInv
  <1>3. TokenInv'
    BY DEF TokenInv, TypeOK, Over
  <1>4. GrantInv'
    BY DEF GrantInv, Granted, TypeOK, Over
  <1>5. RunInv'
    BY DEF RunInv, TypeOK, Over, Working, Request
  <1>6. PublishInv'
    BY DEF PublishInv, InLog
  <1>7. ProcessInv'
    BY DEF ProcessInv, InLog, TypeOK
  <1>8. LogInv'
    BY DEF LogInv
  <1> QED
    BY <1>1, <1>2, <1>3, <1>4, <1>5, <1>6, <1>7, <1>8

\* The finally block sends a release, which no publish is mistaken for.
LEMMA FinallyInv ==
  ASSUME IInv, NEW i \in Instances, NEW error \in BOOLEAN, pc[i] \in Working,
         Finally(i, error), UNCHANGED <<storeVars, wal>>
  PROVE  IInv'
  <1> DEFINE q == [op |-> "release", src |-> i, run |-> restarts[i], token |-> token[i], n |-> 0]
  <1>0. /\ net' = net \cup {q}
        /\ ~IsPublish(q)
        /\ pc' = [pc EXCEPT ![i] = "release"]
        /\ reply' = [reply EXCEPT ![i] = NoReply]
        /\ UNCHANGED <<token, counter, restarts, holder, lastToken, wal>>
    BY DEF Finally, Send, IsPublish, storeVars
  <1> HIDE DEF q
  <1>1. TypeOK'
    BY FinallyType DEF IInv
  <1>2. StoreInv'
    BY <1>0 DEF IInv, StoreInv
  <1>3. TokenInv'
    BY <1>0 DEF IInv, TokenInv, TypeOK, Over, Working
  <1>4. GrantInv'
    BY <1>0 DEF IInv, GrantInv, Granted, TypeOK
  <1>5. RunInv'
    BY <1>0 DEF IInv, RunInv, TypeOK, Working, Request, q
  <1>6. PublishInv'
    BY <1>0 DEF IInv, PublishInv, InLog
  <1>7. ProcessInv'
    BY <1>0 DEF IInv, ProcessInv, InLog, TypeOK
  <1>8. LogInv'
    BY <1>0 DEF IInv, LogInv
  <1> QED
    BY <1>1, <1>2, <1>3, <1>4, <1>5, <1>6, <1>7, <1>8 DEF IInv

\* The first and every later run of a place asks for the lease under a run
\* number no request carries yet.
LEMMA StartInv ==
  ASSUME IInv, NEW i \in Instances, Launch(i) \/ Restart(i)
  PROVE  IInv'
  <1> DEFINE run == IF pc[i] = "launch" THEN restarts[i] ELSE restarts[i] + 1
             q == [op |-> "acquire", src |-> i, run |-> run, token |-> 0, n |-> 0]
  <1>0. /\ net' = net \cup {q}
        /\ ~IsPublish(q)
        /\ pc' = [pc EXCEPT ![i] = "acquire"]
        /\ pc[i] \in {"launch", "failed"}
        /\ pc[i] = "failed" => restarts'[i] = restarts[i] + 1
        /\ restarts' \in [Instances -> Nat]
        /\ restarts'[i] = q.run /\ q.src = i
        /\ \A j \in Instances : restarts[j] <= restarts'[j]
        /\ \A j \in Instances \ {i} : restarts[j] = restarts'[j]
        /\ reply' = [reply EXCEPT ![i] = NoReply]
        /\ UNCHANGED <<token, counter, holder, lastToken, wal>>
    <2>1. CASE Launch(i)
      BY <2>1 DEF Launch, Send, IsPublish, storeVars, IInv, TypeOK
    <2>2. CASE Restart(i)
      BY <2>2 DEF Restart, Send, IsPublish, storeVars, IInv, TypeOK
    <2> QED
      BY <2>1, <2>2
  <1> HIDE DEF q, run
  <1>1. TypeOK'
    BY ProcessType DEF IInv
  <1>2. StoreInv'
    BY <1>0 DEF IInv, StoreInv
  <1>3. TokenInv'
    BY <1>0 DEF IInv, TokenInv, TypeOK, Over
  <1>4. GrantInv'
    BY <1>0 DEF IInv, GrantInv, Granted, TypeOK, NoReply
  <1>5. RunInv'
    <2>1. \A r \in net' : r.run <= restarts'[r.src]
      BY <1>0 DEF IInv, RunInv, TypeOK, Request
    <2>2. \A r \in net' : IsPublish(r) /\ r.src = i => r.run < restarts'[i]
      BY <1>0 DEF IInv, RunInv, TypeOK, Request
    <2>3. \A r \in net' : IsPublish(r) => r \in net /\ r.src \in Instances
      BY <1>0 DEF IInv, TypeOK, Request
    <2>4. i \in Instances /\ pc \in [Instances -> Calls \cup Over \cup {"sleep"}]
      BY DEF IInv, TypeOK
    <2>5. ASSUME NEW r \in net', IsPublish(r), r.run = restarts'[r.src]
          PROVE  /\ pc'[r.src] \notin {"launch", "acquire"}
                 /\ pc'[r.src] \in Working =>
                       /\ pc'[r.src] = "publish"
                       /\ r.token = token'[r.src]
                       /\ r.n = counter'[r.src]
      <3>1. r \in net /\ r.src \in Instances /\ r.src # i
        BY <1>0, <2>2, <2>3, <2>5
      <3> QED
        BY <1>0, <2>4, <2>5, <3>1 DEF IInv, RunInv
    <2> QED
      BY <2>1, <2>5 DEF RunInv, IsPublish
  <1>6. PublishInv'
    BY <1>0 DEF IInv, PublishInv, InLog
  <1>7. ProcessInv'
    BY <1>0 DEF IInv, ProcessInv, TokenInv, InLog, TypeOK, Over
  <1>8. LogInv'
    BY <1>0 DEF IInv, LogInv
  <1> QED
    BY <1>1, <1>2, <1>3, <1>4, <1>5, <1>6, <1>7, <1>8 DEF IInv

\* A granted token is new: its first transaction is the first of that token.
LEMMA AcquiredInv ==
  ASSUME IInv, NEW i \in Instances, Acquired(i)
  PROVE  IInv'
  <1> DEFINE v == reply[i].value
             q == [op |-> "publish", src |-> i, run |-> restarts[i], token |-> v, n |-> 1]
  <1>0. /\ net' = net \cup {q}
        /\ q.token = v /\ q.n = 1 /\ q.src = i /\ q.run = restarts[i]
        /\ pc' = [pc EXCEPT ![i] = "publish"]
        /\ token' = [token EXCEPT ![i] = v]
        /\ counter' = [counter EXCEPT ![i] = 1]
        /\ pc[i] = "acquire"
        /\ Granted(i)
        /\ reply' = [reply EXCEPT ![i] = NoReply]
        /\ UNCHANGED <<restarts, holder, lastToken, wal>>
    BY DEF Acquired, Send, storeVars, Granted
  <1>00. /\ v \in 1 .. lastToken
         /\ \A j \in Instances : token[j] # v
         /\ \A j \in Instances \ {i} : Granted(j) => reply[j].value # v
         /\ \A k \in DOMAIN wal : wal[k].token # v
         /\ \A r \in net : IsPublish(r) => r.token # v
    BY <1>0 DEF IInv, GrantInv
  <1> HIDE DEF q, v
  <1>1. TypeOK'
    BY ProcessType DEF IInv, Progress
  <1>2. StoreInv'
    BY <1>0 DEF IInv, StoreInv
  <1>3. TokenInv'
    BY <1>0, <1>00 DEF IInv, TokenInv, TypeOK, Over
  <1>4. GrantInv'
    BY <1>0, <1>00 DEF IInv, GrantInv, Granted, TypeOK
  <1>5. RunInv'
    BY <1>0 DEF IInv, RunInv, TypeOK, Request
  <1>6. PublishInv'
    BY <1>0, <1>00 DEF IInv, PublishInv, InLog, TypeOK
  <1>7. ProcessInv'
    BY <1>0, <1>00 DEF IInv, ProcessInv, InLog, TypeOK, NoReply
  <1>8. LogInv'
    BY <1>0 DEF IInv, LogInv
  <1> QED
    BY <1>1, <1>2, <1>3, <1>4, <1>5, <1>6, <1>7, <1>8 DEF IInv

\* An acknowledged publish has left the network, so none of its token is there.
LEMMA PublishedInv ==
  ASSUME IInv, NEW i \in Instances, Published(i)
  PROVE  IInv'
  <1> DEFINE q == [op |-> "renew", src |-> i, run |-> restarts[i],
                   token |-> token[i], n |-> reply[i].value]
  <1>0. /\ pc[i] = "publish" /\ reply[i].status = "ok"
        /\ net' = net \/ net' = net \cup {q}
        /\ ~IsPublish(q) /\ q.src = i /\ q.run = restarts[i]
        /\ \/ pc' = [pc EXCEPT ![i] = "renew"]
           \/ pc' = [pc EXCEPT ![i] = "sleep"]
        /\ reply' = [reply EXCEPT ![i] = NoReply]
        /\ UNCHANGED <<token, counter, restarts, holder, lastToken, wal>>
    BY DEF Published, Send, storeVars, IsPublish
  <1>00. \A r \in net : IsPublish(r) => r.token # token[i] /\ (r.src = i => r.run # restarts[i])
    <2>1. token[i] # 0
      BY <1>0 DEF IInv, TokenInv, Over
    <2>2. \A r \in net : IsPublish(r) => r.token # token[i]
      BY <1>0, <2>1 DEF IInv, ProcessInv
    <2>3. ASSUME NEW r \in net, IsPublish(r), r.src = i, r.run = restarts[i]
          PROVE  r.token = token[i]
      BY <1>0, <2>3 DEF IInv, RunInv, Working
    <2> QED
      BY <2>2, <2>3
  <1> HIDE DEF q
  <1>1. TypeOK'
    BY ProcessType DEF IInv, Progress
  <1>2. StoreInv'
    BY <1>0 DEF IInv, StoreInv
  <1>3. TokenInv'
    BY <1>0 DEF IInv, TokenInv, TypeOK, Over
  <1>4. GrantInv'
    BY <1>0 DEF IInv, GrantInv, Granted, TypeOK
  <1>5. RunInv'
    BY <1>0, <1>00 DEF IInv, RunInv, TypeOK, Request
  <1>6. PublishInv'
    BY <1>0 DEF IInv, PublishInv, InLog
  <1>7. ProcessInv'
    BY <1>0, <1>00 DEF IInv, ProcessInv, InLog, TypeOK
  <1>8. LogInv'
    BY <1>0 DEF IInv, LogInv
  <1> QED
    BY <1>1, <1>2, <1>3, <1>4, <1>5, <1>6, <1>7, <1>8 DEF IInv

\* An extended lease sends the process to sleep, no publish of it is out.
LEMMA RenewedInv ==
  ASSUME IInv, NEW i \in Instances, Renewed(i)
  PROVE  IInv'
  <1>0. /\ pc[i] = "renew"
        /\ pc' = [pc EXCEPT ![i] = "sleep"]
        /\ reply' = [reply EXCEPT ![i] = NoReply]
        /\ UNCHANGED <<token, counter, restarts, net, holder, lastToken, wal>>
    BY DEF Renewed, storeVars
  <1>1. TypeOK'
    BY ProcessType DEF IInv, Progress
  <1>2. StoreInv'
    BY <1>0 DEF IInv, StoreInv
  <1>3. TokenInv'
    BY <1>0 DEF IInv, TokenInv, TypeOK, Over
  <1>4. GrantInv'
    BY <1>0 DEF IInv, GrantInv, Granted, TypeOK
  <1>5. RunInv'
    BY <1>0 DEF IInv, RunInv, TypeOK, Request, Working
  <1>6. PublishInv'
    BY <1>0 DEF IInv, PublishInv, InLog
  <1>7. ProcessInv'
    BY <1>0 DEF IInv, ProcessInv, InLog, TypeOK
  <1>8. LogInv'
    BY <1>0 DEF IInv, LogInv
  <1> QED
    BY <1>1, <1>2, <1>3, <1>4, <1>5, <1>6, <1>7, <1>8 DEF IInv

LEMMA LogTyped ==
  ASSUME TypeOK
  PROVE  \A k \in DOMAIN wal : wal[k] \in Entry /\ wal[k].token \in Nat /\ wal[k].tx \in Nat
  <1>1. wal \in Seq(Entry)
    BY DEF TypeOK
  <1>2. \A k \in DOMAIN wal : wal[k] \in Entry
    BY <1>1
  <1> QED
    BY <1>2 DEF Entry

\* The next transaction is published when the last one is in the log and no
\* publish of this token is in the network.
LEMMA WakeInv ==
  ASSUME IInv, NEW i \in Instances, Wake(i)
  PROVE  IInv'
  <1> DEFINE q == [op |-> "publish", src |-> i, run |-> restarts[i],
                   token |-> token[i], n |-> counter[i] + 1]
  <1>0. /\ net' = net \cup {q}
        /\ q.token = token[i] /\ q.n = counter[i] + 1
        /\ q.src = i /\ q.run = restarts[i]
        /\ pc[i] = "sleep"
        /\ pc' = [pc EXCEPT ![i] = "publish"]
        /\ counter' = [counter EXCEPT ![i] = counter[i] + 1]
        /\ reply' = [reply EXCEPT ![i] = NoReply]
        /\ UNCHANGED <<token, restarts, holder, lastToken, wal>>
    BY DEF Wake, Send, storeVars
  <1>00. token[i] # 0 /\ token[i] \in 1 .. lastToken
    <2>1. token[i] # 0 /\ token[i] <= lastToken
      BY <1>0 DEF IInv, TokenInv, Over
    <2>2. token[i] \in Nat /\ lastToken \in Nat
      BY DEF IInv, TypeOK
    <2> QED
      BY <2>1, <2>2
  <1>01. \A r \in net : IsPublish(r) => r.token # token[i] /\ (r.src = i => r.run # restarts[i])
    <2>1. \A r \in net : IsPublish(r) => r.token # token[i]
      BY <1>0, <1>00 DEF IInv, ProcessInv
    <2>2. \A r \in net : IsPublish(r) /\ r.src = i => r.run # restarts[i]
      BY <1>0 DEF IInv, RunInv, Working
    <2> QED
      BY <2>1, <2>2
  <1>02. /\ InLog(token[i], counter[i])
         /\ \A k \in DOMAIN wal : wal[k].token = token[i] => wal[k].tx <= counter[i]
    BY <1>0, <1>00 DEF IInv, ProcessInv
  <1> HIDE DEF q
  <1>1. TypeOK'
    BY ProcessType DEF IInv, Progress
  <1>2. StoreInv'
    BY <1>0 DEF IInv, StoreInv
  <1>3. TokenInv'
    BY <1>0 DEF IInv, TokenInv, TypeOK, Over
  <1>4. GrantInv'
    <2>1. ASSUME NEW j \in Instances, Granted(j)'
          PROVE  Granted(j) /\ j # i /\ reply'[j] = reply[j]
      BY <1>0, <2>1 DEF IInv, Granted, TypeOK
    <2>2. ASSUME NEW j \in Instances, Granted(j)'
          PROVE  q.token # reply[j].value
      BY <1>0, <2>1, <2>2 DEF IInv, GrantInv
    <2> QED
      BY <1>0, <2>1, <2>2 DEF IInv, GrantInv
  <1>5. RunInv'
    BY <1>0, <1>01 DEF IInv, RunInv, TypeOK, Request
  <1>6. PublishInv'
    <2>1. /\ q.n >= 1 /\ q.n - 1 = counter[i]
          /\ \A k \in DOMAIN wal : wal[k].token = q.token => wal[k].tx < q.n
      <3>1. counter[i] \in Nat
        BY DEF IInv, TypeOK
      <3>2. \A k \in DOMAIN wal : wal[k].tx \in Nat
        BY LogTyped DEF IInv
      <3> QED
        BY <1>0, <1>02, <3>1, <3>2
    <2>2. \A r \in net' : IsPublish(r) => r = q \/ (r \in net /\ r.token # q.token)
      BY <1>0, <1>01
    <2> QED
      BY <1>0, <1>00, <1>02, <2>1, <2>2 DEF IInv, PublishInv, InLog
  <1>7. ProcessInv'
    <2>1. ASSUME NEW j \in Instances, token[j] = q.token
          PROVE  j = i
      BY <1>0, <1>00, <2>1 DEF IInv, TokenInv
    <2>2. \A k \in DOMAIN wal : wal[k].token = token[i] => wal[k].tx <= counter[i] + 1
      <3>1. counter[i] \in Nat
        BY DEF IInv, TypeOK
      <3>2. \A k \in DOMAIN wal : wal[k].tx \in Nat
        BY LogTyped DEF IInv
      <3> QED
        BY <1>02, <3>1, <3>2
    <2>3. counter'[i] = counter[i] + 1 /\ pc'[i] = "publish" /\ reply'[i].status # "ok"
      BY <1>0 DEF IInv, TypeOK, NoReply
    <2>4. counter'[i] \in Nat
      BY <1>1 DEF TypeOK
    <2>5. \A j \in Instances \ {i} :
            counter'[j] = counter[j] /\ pc'[j] = pc[j] /\ reply'[j] = reply[j]
      BY <1>0 DEF IInv, TypeOK
    <2> QED
      BY <1>0, <1>01, <2>1, <2>2, <2>3, <2>4, <2>5 DEF IInv, ProcessInv, InLog
  <1>8. LogInv'
    BY <1>0 DEF IInv, LogInv
  <1> QED
    BY <1>1, <1>2, <1>3, <1>4, <1>5, <1>6, <1>7, <1>8 DEF IInv

\* A step of a process keeps the invariant.
LEMMA ProcessInvariant ==
  ASSUME IInv, NEW i \in Instances,
         \/ Launch(i) \/ Restart(i) \/ Progress(i)
         \/ CallFails(i) \/ Cancel(i) \/ Crash(i)
  PROVE  IInv'
  <1>1. CASE Launch(i) \/ Restart(i)
    BY <1>1, StartInv
  <1>2. CASE Acquired(i)
    BY <1>2, AcquiredInv
  <1>3. CASE NotAcquired(i)
    BY <1>3, LeaveInv DEF NotAcquired, Over
  <1>4. CASE Published(i)
    BY <1>4, PublishedInv
  <1>5. CASE Renewed(i)
    BY <1>5, RenewedInv
  <1>6. CASE NotExtended(i)
    BY <1>6, FinallyInv DEF NotExtended, Working
  <1>7. CASE Wake(i)
    BY <1>7, WakeInv
  <1>8. CASE Released(i)
    <2>1. PICK how \in {"failed", "exited"} : Leave(i, how)
      BY <1>8 DEF Released
    <2> QED
      BY <1>8, <2>1, LeaveInv DEF Released, Over
  <1>9. CASE CallFails(i)
    BY <1>9, FinallyInv, LeaveInv DEF CallFails, Working, Over
  <1>10. CASE Cancel(i)
    BY <1>10, FinallyInv, LeaveInv DEF Cancel, Over
  <1>11. CASE Crash(i)
    BY <1>11, LeaveInv DEF Crash, Over
  <1> QED
    BY <1>1, <1>2, <1>3, <1>4, <1>5, <1>6, <1>7, <1>8, <1>9, <1>10, <1>11 DEF Progress

\* A new token is above every token there is.
LEMMA TryAcquireLeaseInv ==
  ASSUME IInv, NEW r \in net, TryAcquireLease(r)
  PROVE  IInv'
  <1>0. /\ net' = net \ {r}
        /\ r.src \in Instances
        /\ lastToken \in Nat
        /\ UNCHANGED <<processVars, wal>>
    BY DEF TryAcquireLease, Answer, IInv, TypeOK, Request
  <1>1. TypeOK'
    BY GridType DEF Apply, IInv
  <1>2. StoreInv' /\ lastToken' \in {lastToken, lastToken + 1}
    BY DEF TryAcquireLease, IInv, StoreInv
  <1>3. TokenInv'
    <2>1. \A i \in Instances : token[i] \in Nat
      BY DEF IInv, TypeOK
    <2> QED
      BY <1>0, <1>2, <2>1 DEF IInv, TokenInv, processVars
  <1>4. \A i \in Instances :
          \/ reply'[i] = reply[i]
          \/ /\ pc[i] = "acquire"
             /\ i = r.src
             /\ \/ reply'[i].status = "refused"
                \/ reply'[i].value = lastToken + 1 /\ lastToken' = lastToken + 1
    BY <1>0 DEF TryAcquireLease, Answer, Awaited, Ok, Refused, IInv, TypeOK
  <1>5. GrantInv'
    <2> SUFFICES ASSUME NEW i \in Instances, Granted(i)'
                 PROVE  /\ reply'[i].value \in 1 .. lastToken'
                        /\ \A j \in Instances : token[j] # reply'[i].value
                        /\ \A j \in Instances \ {i} :
                              Granted(j)' => reply'[j].value # reply'[i].value
                        /\ \A k \in DOMAIN wal : wal[k].token # reply'[i].value
                        /\ \A s \in net' : IsPublish(s) => s.token # reply'[i].value
      BY <1>0 DEF GrantInv, processVars
    <2>1. \A j \in Instances : Granted(j)' =>
            \/ Granted(j) /\ reply'[j] = reply[j]
            \/ j = r.src /\ reply'[j].value = lastToken + 1 /\ lastToken' = lastToken + 1
      BY <1>0, <1>4 DEF Granted, processVars
    <2>2. \A j \in Instances : Granted(j) => reply[j].value \in 1 .. lastToken
      BY DEF IInv, GrantInv
    <2>3. CASE Granted(i) /\ reply'[i] = reply[i]
      <3>1. \A j \in Instances \ {i} : Granted(j)' => reply'[j].value # reply'[i].value
        BY <1>0, <2>1, <2>2, <2>3 DEF IInv, GrantInv
      <3>2. reply'[i].value \in 1 .. lastToken'
        BY <1>0, <1>2, <2>2, <2>3
      <3> QED
        BY <1>0, <2>3, <3>1, <3>2 DEF IInv, GrantInv
    <2>4. CASE i = r.src /\ reply'[i].value = lastToken + 1 /\ lastToken' = lastToken + 1
      <3>1. \A j \in Instances : token[j] # lastToken + 1
        BY <1>0 DEF IInv, TokenInv, TypeOK
      <3>2. \A j \in Instances \ {i} : Granted(j)' => reply'[j].value # lastToken + 1
        BY <1>0, <2>1, <2>2, <2>4
      <3>3. \A k \in DOMAIN wal : wal[k].token # lastToken + 1
        BY <1>0 DEF IInv, LogInv
      <3>4. \A s \in net : IsPublish(s) => s.token # lastToken + 1
        BY <1>0 DEF IInv, PublishInv
      <3> QED
        BY <1>0, <2>4, <3>1, <3>2, <3>3, <3>4
    <2> QED
      BY <2>1, <2>3, <2>4
  <1>6. RunInv'
    BY <1>0 DEF IInv, RunInv, processVars
  <1>7. PublishInv'
    BY <1>0, <1>2 DEF IInv, PublishInv, InLog
  <1>8. ProcessInv'
    <2>1. \A i \in Instances : token[i] # 0 => reply'[i] = reply[i]
      BY <1>4 DEF IInv, TokenInv
    <2> QED
      BY <1>0, <2>1 DEF IInv, ProcessInv, InLog, processVars
  <1>9. LogInv'
    BY <1>0, <1>2 DEF IInv, LogInv
  <1> QED
    BY <1>1, <1>2, <1>3, <1>5, <1>6, <1>7, <1>8, <1>9 DEF IInv

\* A renewal, a release and the end of a lease touch neither log nor tokens.
LEMMA StoreStepInv ==
  ASSUME IInv, \/ \E r \in net : RenewLease(r) \/ ReleaseLease(r)
               \/ Expire
  PROVE  IInv'
  <1>0. /\ net' \in SUBSET net
        /\ holder' = 0 \/ holder' = holder
        /\ UNCHANGED <<processVars, lastToken, wal>>
    BY DEF RenewLease, ReleaseLease, Expire, Answer
  <1>1. TypeOK'
    BY GridType, NextType DEF Apply, IInv, Next
  <1>2. StoreInv'
    BY <1>0 DEF IInv, StoreInv
  <1>3. TokenInv'
    BY <1>0 DEF IInv, TokenInv, processVars
  <1>4. \A i \in Instances : reply'[i] = reply[i] \/ pc[i] \in {"renew", "release"}
    BY DEF RenewLease, ReleaseLease, Expire, Answer, Awaited, IInv, TypeOK, Request
  <1>5. GrantInv'
    BY <1>0, <1>4 DEF IInv, GrantInv, Granted, processVars
  <1>6. RunInv'
    BY <1>0 DEF IInv, RunInv, processVars
  <1>7. PublishInv'
    BY <1>0 DEF IInv, PublishInv, InLog
  <1>8. ProcessInv'
    BY <1>0, <1>4 DEF IInv, ProcessInv, InLog, processVars
  <1>9. LogInv'
    BY <1>0 DEF IInv, LogInv
  <1> QED
    BY <1>1, <1>2, <1>3, <1>5, <1>6, <1>7, <1>8, <1>9 DEF IInv

\* The log grows by one entry at its end.
LEMMA AppendLog ==
  ASSUME TypeOK, NEW e \in Entry, wal' = Append(wal, e)
  PROVE  /\ DOMAIN wal = 1 .. Len(wal) /\ Len(wal) \in Nat
         /\ DOMAIN wal' = 1 .. (Len(wal) + 1)
         /\ \A k \in DOMAIN wal : wal'[k] = wal[k]
         /\ wal'[Len(wal) + 1] = e
         /\ \A k \in DOMAIN wal' : k \in DOMAIN wal \/ k = Len(wal) + 1
  <1>1. wal \in Seq(Entry)
    BY DEF TypeOK
  <1> QED
    BY <1>1, AppendProperties

\* The log accepts or refuses a publish.  If its process still waits, its token
\* and counter are those of the entry; if not, nobody hears of it.
LEMMA PublishStepInv ==
  ASSUME IInv, NEW r \in net, Publish(r)
  PROVE  IInv'
  <1> DEFINE e == [token |-> r.token, tx |-> r.n]
  <1>0. /\ net' = net \ {r}
        /\ IsPublish(r)
        /\ r.src \in Instances /\ r.token \in Nat /\ r.n \in Nat
        /\ UNCHANGED <<processVars, holder, lastToken>>
    BY DEF Publish, Answer, IInv, TypeOK, Request, IsPublish, storeVars
  <1>1. TypeOK'
    BY GridType DEF Apply, IInv
  <1>2. StoreInv' /\ TokenInv'
    BY <1>0 DEF IInv, StoreInv, TokenInv, processVars
  <1>3. \A i \in Instances :
          \/ reply'[i] = reply[i]
          \/ i = r.src /\ pc[i] = "publish" /\ r.token = token[i] /\ r.n = counter[i]
    <2>1. \A i \in Instances : reply'[i] = reply[i] \/ (i = r.src /\ Awaited(r))
      BY <1>0 DEF Publish, Answer, IInv, TypeOK
    <2>2. Awaited(r) => pc[r.src] = "publish" /\ r.token = token[r.src] /\ r.n = counter[r.src]
      BY <1>0 DEF IInv, RunInv, Awaited, IsPublish, Working
    <2> QED
      BY <2>1, <2>2
  <1>4. \A i \in Instances : Granted(i)' => Granted(i) /\ reply'[i] = reply[i]
    BY <1>0, <1>3 DEF Granted, processVars
  <1>5. RunInv'
    BY <1>0 DEF IInv, RunInv, processVars
  <1>6. CASE UNCHANGED wal /\ \A i \in Instances : reply'[i] # reply[i] => reply'[i].status = "refused"
    <2>1. GrantInv'
      BY <1>0, <1>4, <1>6 DEF IInv, GrantInv, processVars
    <2>2. PublishInv'
      BY <1>0, <1>6 DEF IInv, PublishInv, InLog
    <2>3. ProcessInv'
      BY <1>0, <1>3, <1>6 DEF IInv, ProcessInv, InLog, processVars
    <2>4. LogInv'
      BY <1>0, <1>6 DEF IInv, LogInv
    <2> QED
      BY <1>1, <1>2, <1>5, <2>1, <2>2, <2>3, <2>4 DEF IInv
  <1>7. CASE wal' = Append(wal, e)
    <2>0. /\ DOMAIN wal = 1 .. Len(wal) /\ Len(wal) \in Nat
          /\ DOMAIN wal' = 1 .. (Len(wal) + 1)
          /\ \A k \in DOMAIN wal : wal'[k] = wal[k]
          /\ wal'[Len(wal) + 1] = e
          /\ \A k \in DOMAIN wal' : k \in DOMAIN wal \/ k = Len(wal) + 1
      BY <1>0, <1>7, AppendLog DEF IInv, Entry
    <2> DEFINE Logged(t, n) == \E k \in DOMAIN wal' : wal'[k] = [token |-> t, tx |-> n]
    <2>1. \A t, n : InLog(t, n) => Logged(t, n)
      BY <2>0 DEF InLog
    <2>2. Logged(r.token, r.n)
      BY <2>0
    <2>3. /\ r.token \in 1 .. lastToken /\ r.n >= 1
          /\ \A k \in DOMAIN wal : wal[k].token = r.token => wal[k].tx < r.n
          /\ \A s \in net : IsPublish(s) /\ s.token = r.token => s = r
      BY <1>0 DEF IInv, PublishInv
    <2> HIDE DEF Logged
    <2>4. GrantInv'
      <3>1. \A i \in Instances : Granted(i) => r.token # reply[i].value
        BY <1>0 DEF IInv, GrantInv
      <3>2. ASSUME NEW i \in Instances, Granted(i)', NEW k \in DOMAIN wal'
            PROVE  wal'[k].token # reply'[i].value
        BY <1>4, <2>0, <3>1, <3>2 DEF IInv, GrantInv
      <3> QED
        BY <1>0, <1>4, <3>2 DEF IInv, GrantInv, processVars
    <2>5. PublishInv'
      <3>1. ASSUME NEW s \in net', IsPublish(s)
            PROVE  s \in net /\ s.token # r.token
        BY <1>0, <2>3, <3>1
      <3>2. ASSUME NEW s \in net', IsPublish(s), NEW k \in DOMAIN wal', wal'[k].token = s.token
            PROVE  wal'[k].tx < s.n
        BY <2>0, <3>1, <3>2 DEF IInv, PublishInv
      <3>3. ASSUME NEW s \in net', IsPublish(s), s.n > 1
            PROVE  InLog(s.token, s.n - 1)'
        <4>1. InLog(s.token, s.n - 1)
          BY <3>1, <3>3 DEF IInv, PublishInv
        <4> QED
          BY <2>1, <4>1 DEF InLog, Logged
      <3>4. ASSUME NEW s \in net', IsPublish(s)
            PROVE  /\ s.token \in 1 .. lastToken /\ s.n >= 1
                   /\ \A q \in net' : IsPublish(q) /\ q.token = s.token => q = s
        BY <1>0, <3>1, <3>4 DEF IInv, PublishInv
      <3> QED
        BY <1>0, <3>2, <3>3, <3>4 DEF PublishInv, IsPublish
    <2>6. ProcessInv'
      <3> SUFFICES ASSUME NEW i \in Instances, token[i] # 0
                   PROVE  /\ \A k \in DOMAIN wal' :
                               wal'[k].token = token[i] => wal'[k].tx <= counter[i]
                          /\ \A s \in net' : IsPublish(s) /\ s.token = token[i] =>
                               /\ s.n <= counter[i]
                               /\ \/ pc[i] = "release"
                                  \/ pc[i] = "publish" /\ reply'[i].status # "ok"
                          /\ (\/ pc[i] \in {"renew", "sleep"}
                              \/ pc[i] = "publish" /\ reply'[i].status = "ok")
                               => Logged(token[i], counter[i])
        BY <1>0 DEF ProcessInv, InLog, Logged, processVars
      <3>1. \A k \in DOMAIN wal' : wal'[k].token = token[i] => wal'[k].tx <= counter[i]
        <4>1. r.token = token[i] => r.n <= counter[i]
          BY <1>0 DEF IInv, ProcessInv
        <4> QED
          BY <2>0, <4>1 DEF IInv, ProcessInv
      <3>2. CASE reply'[i] = reply[i]
        BY <1>0, <2>1, <3>1, <3>2 DEF IInv, ProcessInv
      <3>3. CASE reply'[i] # reply[i]
        <4>1. i = r.src /\ pc[i] = "publish" /\ r.token = token[i] /\ r.n = counter[i]
          BY <1>3, <3>3
        <4>2. \A s \in net' : IsPublish(s) => s.token # token[i]
          BY <1>0, <2>3, <4>1
        <4> QED
          BY <2>2, <3>1, <4>1, <4>2
      <3> QED
        BY <3>2, <3>3
    <2>7. LogInv'
      <3>1. ASSUME NEW k \in DOMAIN wal'
            PROVE  /\ wal'[k].token \in 1 .. lastToken
                   /\ wal'[k].tx >= 1
                   /\ \A m \in 1 .. (k - 1) :
                        wal'[m].token = wal'[k].token => wal'[m].tx < wal'[k].tx
        <4>1. CASE k \in DOMAIN wal
          <5>1. \A m \in 1 .. (k - 1) : m \in DOMAIN wal
            BY <2>0, <4>1
          <5> QED
            BY <2>0, <4>1, <5>1 DEF IInv, LogInv
        <4>2. CASE k = Len(wal) + 1
          BY <2>0, <2>3, <4>2
        <4> QED
          BY <2>0, <4>1, <4>2
      <3> QED
        BY <1>0, <3>1 DEF LogInv
    <2> QED
      BY <1>1, <1>2, <1>5, <2>4, <2>5, <2>6, <2>7 DEF IInv
  <1>8. \/ UNCHANGED wal /\ \A i \in Instances : reply'[i] # reply[i] => reply'[i].status = "refused"
        \/ wal' = Append(wal, e)
    BY <1>0 DEF Publish, Answer, Refused, IInv, TypeOK
  <1> QED
    BY <1>6, <1>7, <1>8

LEMMA NextInv == IInv /\ [Next]_vars => IInv'
  <1> SUFFICES ASSUME IInv, [Next]_vars
               PROVE  IInv'
    OBVIOUS
  <1>1. ASSUME NEW i \in Instances,
               \/ Launch(i) \/ Restart(i) \/ Progress(i)
               \/ CallFails(i) \/ Cancel(i) \/ Crash(i)
        PROVE  IInv'
    BY <1>1, ProcessInvariant
  <1>2. ASSUME NEW r \in net, Apply(r)
        PROVE  IInv'
    BY <1>2, TryAcquireLeaseInv, PublishStepInv, StoreStepInv DEF Apply
  <1>3. CASE Expire
    BY <1>3, StoreStepInv
  <1>4. CASE UNCHANGED vars
    BY <1>4 DEF vars, processVars, storeVars, IInv, TypeOK, StoreInv, TokenInv, GrantInv,
                RunInv, PublishInv, ProcessInv, LogInv, Granted, InLog
  <1> QED
    BY <1>1, <1>2, <1>3, <1>4 DEF Next

\* The invariant holds in every reachable state.
THEOREM Invariant == Spec => []IInv
  BY InitInv, NextInv, PTL DEF Spec

-----------------------------------------------------------------------------
(* What a reader of the log may rely on. *)

\* No pair of fencing token and transaction is in the log twice.
THEOREM TransactionsAreUnique == Spec => []TxOnce
  <1>1. IInv => TxOnce
    <2> SUFFICES ASSUME IInv, NEW m \in DOMAIN wal, NEW n \in DOMAIN wal, wal[m] = wal[n]
                 PROVE  m = n
      BY DEF TxOnce
    <2>1. DOMAIN wal = 1 .. Len(wal) /\ Len(wal) \in Nat
      BY DEF IInv, TypeOK
    <2>2. wal[m].tx \in Nat /\ wal[n].tx \in Nat
      BY LogTyped DEF IInv
    <2>3. ~(m < n) /\ ~(n < m)
      BY <2>1, <2>2 DEF IInv, LogInv
    <2> QED
      BY <2>1, <2>3
  <1> QED
    BY <1>1, Invariant, PTL

\* Where the log grows, and by what.
LEMMA LogGrows ==
  ASSUME IInv, [Next]_vars
  PROVE  \/ UNCHANGED wal
         \/ \E r \in net :
              /\ IsPublish(r) /\ r.token \in Nat /\ r.n \in Nat
              /\ FencedWal => r.token = holder
              /\ wal' = Append(wal, [token |-> r.token, tx |-> r.n])
              /\ UNCHANGED <<holder, lastToken>>
  <1>1. ASSUME NEW i \in Instances,
               \/ Launch(i) \/ Restart(i) \/ Progress(i)
               \/ CallFails(i) \/ Cancel(i) \/ Crash(i)
        PROVE  UNCHANGED wal
    BY <1>1 DEF Launch, Restart, Progress, Acquired, NotAcquired, Published, Renewed,
                NotExtended, Wake, Released, CallFails, Cancel, Crash
  <1>2. ASSUME NEW r \in net, TryAcquireLease(r) \/ RenewLease(r) \/ ReleaseLease(r)
        PROVE  UNCHANGED wal
    BY <1>2 DEF TryAcquireLease, RenewLease, ReleaseLease
  <1>3. ASSUME NEW r \in net, Publish(r)
        PROVE  \/ UNCHANGED wal
               \/ /\ IsPublish(r) /\ r.token \in Nat /\ r.n \in Nat
                  /\ FencedWal => r.token = holder
                  /\ wal' = Append(wal, [token |-> r.token, tx |-> r.n])
                  /\ UNCHANGED <<holder, lastToken>>
    BY <1>3 DEF Publish, IsPublish, storeVars, IInv, TypeOK, Request
  <1>4. CASE Expire \/ UNCHANGED vars
    BY <1>4 DEF Expire, vars
  <1> QED
    BY <1>1, <1>2, <1>3, <1>4 DEF Next, Apply

\* Behind a transaction stands the one before it, of the same token: the
\* transactions of a token have no gap.
THEOREM TransactionsHaveNoGap == Spec => []TxInOrder
  <1>1. Init => TxInOrder
    BY DEF Init, TxInOrder
  <1>2. IInv /\ TxInOrder /\ [Next]_vars => TxInOrder'
    <2> SUFFICES ASSUME IInv, TxInOrder, [Next]_vars
                 PROVE  TxInOrder'
      OBVIOUS
    <2>1. CASE UNCHANGED wal
      BY <2>1 DEF TxInOrder
    <2>2. ASSUME NEW r \in net, IsPublish(r), r.token \in Nat, r.n \in Nat,
                 wal' = Append(wal, [token |-> r.token, tx |-> r.n])
          PROVE  TxInOrder'
      <3>1. /\ DOMAIN wal = 1 .. Len(wal) /\ Len(wal) \in Nat
            /\ DOMAIN wal' = 1 .. (Len(wal) + 1)
            /\ \A k \in DOMAIN wal : wal'[k] = wal[k]
            /\ wal'[Len(wal) + 1] = [token |-> r.token, tx |-> r.n]
        BY <2>2, AppendLog DEF IInv, Entry
      <3>2. r.n > 1 => \E m \in DOMAIN wal : wal[m] = [token |-> r.token, tx |-> r.n - 1]
        BY <2>2 DEF IInv, PublishInv, InLog
      <3> SUFFICES ASSUME NEW n \in DOMAIN wal', wal'[n].tx > 1
                   PROVE  \E m \in 1 .. (n - 1) :
                            wal'[m] = [token |-> wal'[n].token, tx |-> wal'[n].tx - 1]
        BY DEF TxInOrder
      <3>3. CASE n = Len(wal) + 1
        BY <3>1, <3>2, <3>3
      <3>4. CASE n \in DOMAIN wal
        <4>1. PICK m \in 1 .. (n - 1) :
                wal[m] = [token |-> wal[n].token, tx |-> wal[n].tx - 1]
          BY <3>1, <3>4 DEF TxInOrder
        <4> QED
          BY <3>1, <3>4, <4>1
      <3> QED
        BY <3>1, <3>3, <3>4
    <2> QED
      BY <2>1, <2>2, LogGrows
  <1> QED
    BY <1>1, <1>2, Invariant, PTL DEF Spec

\* Once a newer lease has written, no entry of an older one follows.
EpochOrder ==
    \A n \in DOMAIN wal : \A m \in 1 .. n : wal[m].token <= wal[n].token

\* With a log that refuses stale tokens, no entry of an older lease follows one
\* of a newer lease: the log that checks tokens sees to it, not the ledger.
LEMMA FencedEpochOrder == ASSUME FencedWal PROVE Spec => []EpochOrder
  <1>1. Init => EpochOrder
    BY DEF Init, EpochOrder
  <1>2. IInv /\ EpochOrder /\ [Next]_vars => EpochOrder'
    <2> SUFFICES ASSUME IInv, EpochOrder, [Next]_vars
                 PROVE  EpochOrder'
      OBVIOUS
    <2>1. CASE UNCHANGED wal
      BY <2>1 DEF EpochOrder
    <2>2. ASSUME NEW r \in net, IsPublish(r), r.token \in Nat, r.n \in Nat, r.token = holder,
                 wal' = Append(wal, [token |-> r.token, tx |-> r.n])
          PROVE  EpochOrder'
      <3>1. /\ DOMAIN wal = 1 .. Len(wal) /\ Len(wal) \in Nat
            /\ DOMAIN wal' = 1 .. (Len(wal) + 1)
            /\ \A k \in DOMAIN wal : wal'[k] = wal[k]
            /\ wal'[Len(wal) + 1] = [token |-> r.token, tx |-> r.n]
        BY <2>2, AppendLog DEF IInv, Entry
      <3>2. r.token = lastToken
        BY <2>2 DEF IInv, StoreInv, PublishInv, TypeOK
      <3>3. \A k \in DOMAIN wal : wal[k].token <= r.token
        BY <2>2, <3>2 DEF IInv, LogInv
      <3> SUFFICES ASSUME NEW n \in DOMAIN wal', NEW m \in 1 .. n
                   PROVE  wal'[m].token <= wal'[n].token
        BY DEF EpochOrder
      <3>4. CASE n = Len(wal) + 1
        BY <2>2, <3>1, <3>3, <3>4
      <3>5. CASE n \in DOMAIN wal
        BY <3>1, <3>5 DEF EpochOrder
      <3> QED
        BY <3>1, <3>4, <3>5
    <2> QED
      BY <2>1, <2>2, LogGrows
  <1> QED
    BY <1>1, <1>2, Invariant, PTL DEF Spec

\* With a log that refuses stale tokens, the ledger, its lease store and its log
\* together implement EpochLog: an acquired lease opens an epoch, a lease that is
\* released or runs out closes it, an accepted publish writes the next
\* transaction of the open epoch, and every other step is invisible.
THEOREM FencedImplementsEpochLog == ASSUME FencedWal PROVE Spec => ImplementsEpochLog
  <1>1. Init => Epochs!Init
    BY DEF Init, Epochs!Init
  <1>2. IInv /\ EpochOrder /\ [Next]_vars => [Epochs!Next]_<<lastToken, holder # 0, wal>>
    <2> SUFFICES ASSUME IInv, EpochOrder, [Next]_vars
                 PROVE  [Epochs!Next]_<<lastToken, holder # 0, wal>>
      OBVIOUS
    <2>1. ASSUME NEW i \in Instances,
                 \/ Launch(i) \/ Restart(i) \/ Progress(i)
                 \/ CallFails(i) \/ Cancel(i) \/ Crash(i)
          PROVE  UNCHANGED <<lastToken, holder, wal>>
      BY <2>1 DEF Launch, Restart, Progress, Acquired, NotAcquired, Published, Renewed,
                  NotExtended, Wake, Released, CallFails, Cancel, Crash, storeVars
    <2>2. ASSUME NEW r \in net, TryAcquireLease(r)
          PROVE  UNCHANGED <<lastToken, holder, wal>> \/ Epochs!Open
      BY <2>2 DEF TryAcquireLease, Epochs!Open, IInv, TypeOK
    <2>3. ASSUME NEW r \in net, RenewLease(r)
          PROVE  UNCHANGED <<lastToken, holder, wal>>
      BY <2>3 DEF RenewLease
    <2>4. ASSUME NEW r \in net, ReleaseLease(r)
          PROVE  UNCHANGED <<lastToken, holder, wal>> \/ Epochs!Close
      BY <2>4 DEF ReleaseLease, Epochs!Close
    <2>5. CASE Expire
      BY <2>5 DEF Expire, Epochs!Close, Epochs!Next
    <2>6. ASSUME NEW r \in net, Publish(r)
          PROVE  UNCHANGED <<lastToken, holder, wal>> \/ Epochs!Write
      <3>1. CASE r.token # holder
        BY <2>6, <3>1 DEF Publish, storeVars
      <3>2. CASE r.token = holder
        <4>1. /\ wal' = Append(wal, [token |-> r.token, tx |-> r.n])
              /\ UNCHANGED <<lastToken, holder>>
          BY <2>6, <3>2 DEF Publish, storeVars
        <4>2. /\ r.token \in 1 .. lastToken /\ r.n >= 1 /\ r.n \in Nat /\ lastToken \in Nat
              /\ \A k \in DOMAIN wal : wal[k].token = r.token => wal[k].tx < r.n
              /\ r.n > 1 => \E k \in DOMAIN wal : wal[k] = [token |-> r.token, tx |-> r.n - 1]
          BY <2>6 DEF Publish, IInv, PublishInv, IsPublish, InLog, TypeOK, Request
        <4>3. r.token = lastToken /\ holder # 0
          BY <3>2, <4>2 DEF IInv, StoreInv
        <4>4. /\ DOMAIN wal = 1 .. Len(wal) /\ Len(wal) \in Nat
              /\ wal # <<>> <=> Len(wal) # 0
          BY DEF IInv, TypeOK
        <4>5. r.n = Epochs!NextTx
          <5>1. CASE r.n = 1
            <6>1. \A k \in DOMAIN wal : wal[k].token # lastToken
              BY <4>2, <4>3, <5>1, LogTyped DEF IInv, LogInv
            <6> QED
              BY <4>4, <5>1, <6>1 DEF Epochs!NextTx
          <5>2. CASE r.n > 1
            <6>1. PICK k \in DOMAIN wal : wal[k] = [token |-> r.token, tx |-> r.n - 1]
              BY <4>2, <5>2
            <6>2. Len(wal) \in DOMAIN wal /\ k <= Len(wal) /\ k \in 1 .. Len(wal)
              BY <4>4, <6>1
            <6>3. wal[Len(wal)].token = lastToken
              <7>1. lastToken <= wal[Len(wal)].token
                BY <4>3, <6>1, <6>2 DEF EpochOrder
              <7> QED
                BY <4>2, <6>2, <7>1 DEF IInv, LogInv
            <6>4. wal[Len(wal)].tx < r.n /\ wal[Len(wal)].tx \in Nat
              BY <4>2, <4>3, <6>2, <6>3, LogTyped DEF IInv
            <6>5. r.n - 1 <= wal[Len(wal)].tx
              <7>1. CASE k = Len(wal)
                BY <4>2, <6>1, <7>1
              <7>2. CASE k # Len(wal)
                <8>1. k \in 1 .. (Len(wal) - 1)
                  BY <4>4, <6>2, <7>2
                <8>2. wal[k].tx < wal[Len(wal)].tx
                  BY <4>3, <6>1, <6>2, <6>3, <8>1 DEF IInv, LogInv
                <8> QED
                  BY <4>2, <6>1, <6>4, <8>2
              <7> QED
                BY <7>1, <7>2
            <6> QED
              BY <4>2, <4>4, <6>2, <6>3, <6>4, <6>5 DEF Epochs!NextTx
          <5> QED
            BY <4>2, <5>1, <5>2
        <4> QED
          BY <4>1, <4>3, <4>5 DEF Epochs!Write
      <3> QED
        BY <3>1, <3>2
    <2>7. CASE UNCHANGED vars
      BY <2>7 DEF vars, storeVars
    <2> QED
      BY <2>1, <2>2, <2>3, <2>4, <2>5, <2>6, <2>7 DEF Next, Apply, Epochs!Next
  <1>3. Spec => []EpochOrder
    BY FencedEpochOrder
  <1> QED
    BY <1>1, <1>2, <1>3, Invariant, PTL DEF Spec, ImplementsEpochLog, Epochs!Spec
=============================================================================
