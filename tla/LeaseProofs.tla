----------------------------- MODULE LeaseProofs -----------------------------
(***************************************************************************)
(* What TLAPS proves of the leases of Ledger, for any set of places, any   *)
(* period of renewal and any bounds: what the renewals and releases in the *)
(* network can do to the marker and to the lease of a process at work, and *)
(* how far a process writes that lost its lease.  A second inductive       *)
(* invariant, on top of that of LedgerProofs.                              *)
(***************************************************************************)
EXTENDS LedgerProofs

-----------------------------------------------------------------------------
(* The second invariant, in parts. *)

IsRenew(r) == r.op = "renew"

Acked(i) == pc[i] = "publish" /\ reply[i].status = "ok"

\* A renewal or release in the network bears a token that was handed out, and
\* a process that still has it has gone on no further than to wait for it.
HolderInv ==
    \A r \in net : r.op \in {"renew", "release"} =>
        /\ r.token \in 1 .. lastToken
        /\ \A i \in Instances : Granted(i) => reply[i].value # r.token
        /\ \A i \in Instances : token[i] = r.token =>
              \/ pc[i] = "release"
              \/ IsRenew(r) /\ pc[i] = "renew" /\ reply[i].status = "none"

\* A renewal in the network is the only one of its token, and that of the
\* present run of a process at work is the one the process waits for.
RenewInv ==
    \A r \in net : IsRenew(r) =>
        /\ \A s \in net : IsRenew(s) /\ s.token = r.token => s = r
        /\ r.run = restarts[r.src] =>
              /\ pc[r.src] \notin {"launch", "acquire"}
              /\ pc[r.src] \in Working => pc[r.src] = "renew" /\ r.token = token[r.src]

\* A renewal that the store may yet accept, and the acknowledgement a process
\* may yet make one of, are of entries the marker has not passed.
CommitInv ==
    /\ \A r \in net : IsRenew(r) =>
          /\ r.n \in DOMAIN wal /\ wal[r.n].tx % RenewEvery = 0
          /\ r.token = lastToken => marker <= r.n
    /\ \A i \in Instances : Acked(i) =>
          /\ reply[i].value \in DOMAIN wal /\ wal[reply[i].value].tx = counter[i]
          /\ token[i] = lastToken => marker <= reply[i].value

\* An entry that stands behind one of a newer lease, and one of them that ends
\* a batch of RenewEvery.
Stale(k) == \E n \in 1 .. (k - 1) : wal[k].token < wal[n].token
StaleEnd(p) == Stale(p) /\ wal[p].tx % RenewEvery = 0

\* Behind such an end its token writes nothing more: the renewal that follows
\* it is not extended.
HaltInv ==
    \A p \in DOMAIN wal : StaleEnd(p) =>
        /\ \A i \in Instances : token[i] = wal[p].token /\ counter[i] = wal[p].tx =>
              pc[i] # "sleep" /\ ~(pc[i] = "renew" /\ reply[i].status = "ok")
        /\ \A r \in net : IsPublish(r) /\ r.token = wal[p].token => r.n # wal[p].tx + 1

\* The place of a transaction in its batch, from 0.
Phase(x) == (x - 1) % RenewEvery

\* The stale entries of a token are of one batch.
SpanInv ==
    \A k, m \in DOMAIN wal :
        Stale(k) /\ Stale(m) /\ wal[k].token = wal[m].token =>
            wal[m].tx - wal[k].tx = Phase(wal[m].tx) - Phase(wal[k].tx)

LeaseInv == HolderInv /\ RenewInv /\ CommitInv /\ MarkerSound /\ HaltInv /\ SpanInv

-----------------------------------------------------------------------------
(* Steps of a process. *)

\* At the start there is no request, no entry and no marker.
LEMMA InitLease == Init => LeaseInv
  <1> SUFFICES ASSUME Init PROVE LeaseInv
    OBVIOUS
  <1>1. net = {} /\ wal = <<>> /\ marker = 0 /\ DOMAIN wal = {}
    BY DEF Init
  <1>2. \A i \in Instances : ~Acked(i)
    BY DEF Init, Acked
  <1> QED
    BY <1>1, <1>2 DEF LeaseInv, HolderInv, RenewInv, CommitInv, MarkerSound, HaltInv, SpanInv

\* As long as the log is the same, so is what is said of its entries.
LEMMA SameLog ==
  ASSUME UNCHANGED wal
  PROVE  /\ SpanInv => SpanInv'
         /\ \A k : StaleEnd(k)' <=> StaleEnd(k)
  BY DEF SpanInv, StaleEnd, Stale, Phase

\* A process that ends leaves its requests as they are.
LEMMA LeaveLease ==
  ASSUME IInv, LeaseInv, NEW i \in Instances, NEW how \in Over \ {"launch"}, Leave(i, how),
         UNCHANGED <<storeVars, wal>>
  PROVE  LeaseInv'
  <1>0. /\ how \notin {"launch", "acquire", "publish", "renew", "sleep", "release"}
        /\ pc' = [pc EXCEPT ![i] = how]
        /\ token' = [token EXCEPT ![i] = 0]
        /\ counter' = [counter EXCEPT ![i] = 0]
        /\ reply' = [reply EXCEPT ![i] = NoReply]
        /\ UNCHANGED <<restarts, net, holder, lastToken, marker, wal>>
        /\ net \subseteq Request
        /\ \A j \in Instances : pc'[j] = IF j = i THEN how ELSE pc[j]
        /\ \A j \in Instances : token'[j] = IF j = i THEN 0 ELSE token[j]
        /\ \A j \in Instances \ {i} : reply'[j] = reply[j] /\ counter'[j] = counter[j]
    BY DEF Leave, storeVars, IInv, TypeOK, Over
  <1>1. HolderInv'
    BY <1>0 DEF LeaseInv, HolderInv, Granted, IsRenew
  <1>2. RenewInv'
    BY <1>0 DEF LeaseInv, RenewInv, IsRenew, Working, Request
  <1>3. CommitInv'
    BY <1>0 DEF LeaseInv, CommitInv, Acked, IsRenew
  <1>4. MarkerSound'
    BY <1>0 DEF LeaseInv, MarkerSound
  <1>5. HaltInv'
    <2>1. \A p \in DOMAIN wal : wal[p].token # 0
      BY DEF IInv, LogInv
    <2> QED
      BY <1>0, <2>1, SameLog DEF LeaseInv, HaltInv
  <1>6. SpanInv'
    BY <1>0, SameLog DEF LeaseInv
  <1> QED
    BY <1>1, <1>2, <1>3, <1>4, <1>5, <1>6 DEF LeaseInv

\* A process at work bears a token that was handed out, alone.
LEMMA WorkingToken ==
  ASSUME IInv, NEW i \in Instances, pc[i] \in Working
  PROVE  /\ token[i] \in 1 .. lastToken
         /\ \A j \in Instances : token[j] = token[i] => j = i
         /\ \A j \in Instances : Granted(j) => reply[j].value # token[i]
  <1>1. token[i] # 0 /\ token[i] <= lastToken
    BY DEF IInv, TokenInv, Over, Working
  <1>2. token[i] \in Nat /\ lastToken \in Nat
    BY DEF IInv, TypeOK
  <1> QED
    BY <1>1, <1>2 DEF IInv, TokenInv, GrantInv

\* The finally block gives back a token that nobody else has.
LEMMA FinallyLease ==
  ASSUME IInv, LeaseInv, NEW i \in Instances, NEW error \in BOOLEAN, pc[i] \in Working,
         Finally(i, error), UNCHANGED <<storeVars, wal>>
  PROVE  LeaseInv'
  <1> DEFINE q == [op |-> "release", src |-> i, run |-> restarts[i], token |-> token[i], n |-> 0]
  <1>0. /\ net' = net \cup {q}
        /\ ~IsPublish(q) /\ ~IsRenew(q) /\ q.token = token[i]
        /\ UNCHANGED <<token, counter, restarts, holder, lastToken, marker, wal>>
        /\ net \subseteq Request
        /\ \A j \in Instances : pc'[j] = IF j = i THEN "release" ELSE pc[j]
        /\ \A j \in Instances \ {i} : reply'[j] = reply[j]
    BY DEF Finally, Send, IsPublish, IsRenew, storeVars, IInv, TypeOK
  <1>00. /\ token[i] \in 1 .. lastToken
         /\ \A j \in Instances : token[j] = token[i] => j = i
         /\ \A j \in Instances : Granted(j) => reply[j].value # token[i]
    BY WorkingToken
  <1> HIDE DEF q
  <1>1. HolderInv'
    BY <1>0, <1>00 DEF LeaseInv, HolderInv, Granted, IsRenew
  <1>2. RenewInv'
    BY <1>0 DEF LeaseInv, RenewInv, IsRenew, Working, Request
  <1>3. CommitInv'
    BY <1>0 DEF LeaseInv, CommitInv, Acked, IsRenew
  <1>4. MarkerSound'
    BY <1>0 DEF LeaseInv, MarkerSound
  <1>5. HaltInv'
    BY <1>0, SameLog DEF LeaseInv, HaltInv, IsPublish
  <1>6. SpanInv'
    BY <1>0, SameLog DEF LeaseInv
  <1> QED
    BY <1>1, <1>2, <1>3, <1>4, <1>5, <1>6 DEF LeaseInv

\* The first and every later run of a place asks under a run number no renewal
\* carries yet.
LEMMA StartLease ==
  ASSUME IInv, LeaseInv, NEW i \in Instances, Launch(i) \/ Restart(i)
  PROVE  LeaseInv'
  <1> DEFINE run == IF pc[i] = "launch" THEN restarts[i] ELSE restarts[i] + 1
             q == [op |-> "acquire", src |-> i, run |-> run, token |-> 0, n |-> 0]
  <1>0. /\ net' = net \cup {q}
        /\ q.op = "acquire"
        /\ pc[i] \in {"launch", "failed"}
        /\ pc[i] = "failed" => restarts'[i] = restarts[i] + 1
        /\ restarts[i] \in Nat
        /\ net \subseteq Request
        /\ \A j \in Instances \ {i} : restarts'[j] = restarts[j]
        /\ pc[i] = "launch" => restarts'[i] = restarts[i]
        /\ \A j \in Instances : pc'[j] = IF j = i THEN "acquire" ELSE pc[j]
        /\ reply'[i].status = "none"
        /\ \A j \in Instances \ {i} : reply'[j] = reply[j]
        /\ UNCHANGED <<token, counter, holder, lastToken, marker, wal>>
    <2>1. CASE Launch(i)
      BY <2>1 DEF Launch, Send, NoReply, storeVars, IInv, TypeOK
    <2>2. CASE Restart(i)
      BY <2>2 DEF Restart, Send, NoReply, storeVars, IInv, TypeOK
    <2> QED
      BY <2>1, <2>2
  <1>00. token[i] = 0
    BY <1>0 DEF IInv, TokenInv, Over
  <1> HIDE DEF q, run
  <1>1. HolderInv'
    BY <1>0, <1>00 DEF LeaseInv, HolderInv, Granted, IsRenew
  <1>2. RenewInv'
    <2>1. \A r \in net' : IsRenew(r) => r \in net /\ r.src \in Instances
      BY <1>0 DEF IsRenew, Request
    <2>2. \A r \in net' : IsRenew(r) /\ r.src = i => r.run # restarts'[i]
      <3>1. \A r \in net : r.run \in Nat /\ r.run <= restarts[r.src]
        BY <1>0 DEF IInv, RunInv, Request
      <3>2. CASE pc[i] = "failed"
        BY <1>0, <2>1, <3>1, <3>2
      <3>3. CASE pc[i] = "launch"
        BY <1>0, <2>1, <3>3 DEF LeaseInv, RenewInv
      <3> QED
        BY <1>0, <3>2, <3>3
    <2>3. ASSUME NEW r \in net', IsRenew(r), r.run = restarts'[r.src]
          PROVE  /\ pc'[r.src] \notin {"launch", "acquire"}
                 /\ pc'[r.src] \in Working => pc'[r.src] = "renew" /\ r.token = token'[r.src]
      <3>1. r \in net /\ r.src \in Instances /\ r.src # i
        BY <2>1, <2>2, <2>3
      <3> QED
        BY <1>0, <2>3, <3>1 DEF LeaseInv, RenewInv
    <2>4. \A r, s \in net' : IsRenew(r) /\ IsRenew(s) /\ s.token = r.token => s = r
      BY <2>1 DEF LeaseInv, RenewInv
    <2> QED
      BY <2>3, <2>4 DEF RenewInv, IsRenew
  <1>3. CommitInv'
    BY <1>0 DEF LeaseInv, CommitInv, Acked, IsRenew
  <1>4. MarkerSound'
    BY <1>0 DEF LeaseInv, MarkerSound
  <1>5. HaltInv'
    BY <1>0, SameLog DEF LeaseInv, HaltInv, IsPublish
  <1>6. SpanInv'
    BY <1>0, SameLog DEF LeaseInv
  <1> QED
    BY <1>1, <1>2, <1>3, <1>4, <1>5, <1>6 DEF LeaseInv

\* A granted token is in no request and in no entry.
LEMMA AcquiredLease ==
  ASSUME IInv, LeaseInv, NEW i \in Instances, Acquired(i)
  PROVE  LeaseInv'
  <1> DEFINE v == reply[i].value
             q == [op |-> "publish", src |-> i, run |-> restarts[i], token |-> v, n |-> 1]
  <1>0. /\ net' = net \cup {q}
        /\ q.op = "publish" /\ q.token = v
        /\ pc[i] = "acquire" /\ Granted(i)
        /\ net \subseteq Request
        /\ \A j \in Instances : pc'[j] = IF j = i THEN "publish" ELSE pc[j]
        /\ \A j \in Instances : token'[j] = IF j = i THEN v ELSE token[j]
        /\ reply'[i].status = "none"
        /\ \A j \in Instances \ {i} : reply'[j] = reply[j] /\ counter'[j] = counter[j]
        /\ UNCHANGED <<restarts, holder, lastToken, marker, wal>>
    BY DEF Acquired, Send, NoReply, storeVars, Granted, IInv, TypeOK
  <1>00. \A k \in DOMAIN wal : wal[k].token # v
    BY <1>0 DEF IInv, GrantInv
  <1> HIDE DEF q, v
  <1>1. HolderInv'
    <2>1. \A r \in net : r.op \in {"renew", "release"} => r.token # v
      BY <1>0 DEF LeaseInv, HolderInv, v
    <2> QED
      BY <1>0, <2>1 DEF LeaseInv, HolderInv, Granted, IsRenew
  <1>2. RenewInv'
    BY <1>0 DEF LeaseInv, RenewInv, IsRenew, Working, Request
  <1>3. CommitInv'
    BY <1>0 DEF LeaseInv, CommitInv, Acked, IsRenew
  <1>4. MarkerSound'
    BY <1>0 DEF LeaseInv, MarkerSound
  <1>5. HaltInv'
    BY <1>0, <1>00, SameLog DEF LeaseInv, HaltInv, IsPublish
  <1>6. SpanInv'
    BY <1>0, SameLog DEF LeaseInv
  <1> QED
    BY <1>1, <1>2, <1>3, <1>4, <1>5, <1>6 DEF LeaseInv

\* At the end of a batch the process renews with the place of the entry it was
\* just told of.
LEMMA PublishedLease ==
  ASSUME IInv, LeaseInv, NEW i \in Instances, Published(i)
  PROVE  LeaseInv'
  <1> DEFINE q == [op |-> "renew", src |-> i, run |-> restarts[i],
                   token |-> token[i], n |-> reply[i].value]
  <1>0. /\ Acked(i) /\ pc[i] = "publish"
        /\ \/ /\ net' = net \cup {q}
              /\ counter[i] % RenewEvery = 0
              /\ \A j \in Instances : pc'[j] = IF j = i THEN "renew" ELSE pc[j]
           \/ /\ net' = net
              /\ counter[i] % RenewEvery # 0
              /\ \A j \in Instances : pc'[j] = IF j = i THEN "sleep" ELSE pc[j]
        /\ q.op = "renew" /\ q.src = i /\ q.run = restarts[i]
        /\ q.token = token[i] /\ q.n = reply[i].value
        /\ reply'[i].status = "none"
        /\ \A j \in Instances \ {i} : reply'[j] = reply[j]
        /\ net \subseteq Request
        /\ UNCHANGED <<token, counter, restarts, holder, lastToken, marker, wal>>
    BY DEF Published, Send, NoReply, storeVars, IInv, TypeOK, Acked
  <1>00. /\ token[i] \in 1 .. lastToken
         /\ \A j \in Instances : token[j] = token[i] => j = i
         /\ \A j \in Instances : Granted(j) => reply[j].value # token[i]
    BY <1>0, WorkingToken DEF Working
  <1>01. \A r \in net : IsRenew(r) =>
           r.token # token[i] /\ (r.src = i => r.run # restarts[i])
    BY <1>0 DEF LeaseInv, HolderInv, RenewInv, IsRenew, Working
  <1>02. \A r \in net' : IsRenew(r) => r \in net \/ (r = q /\ counter[i] % RenewEvery = 0)
    BY <1>0
  <1> HIDE DEF q
  <1>1. HolderInv'
    BY <1>0, <1>00, <1>01 DEF LeaseInv, HolderInv, Granted, IsRenew
  <1>2. RenewInv'
    <2>1. \A r, s \in net' : IsRenew(r) /\ IsRenew(s) /\ s.token = r.token => s = r
      BY <1>0, <1>01, <1>02 DEF LeaseInv, RenewInv
    <2>2. ASSUME NEW r \in net', IsRenew(r), r.run = restarts[r.src]
          PROVE  /\ pc'[r.src] \notin {"launch", "acquire"}
                 /\ pc'[r.src] \in Working => pc'[r.src] = "renew" /\ r.token = token[r.src]
      <3>1. CASE r \in net
        <4>1. r.src # i /\ r.src \in Instances
          BY <1>0, <1>01, <2>2, <3>1 DEF Request
        <4> QED
          BY <1>0, <2>2, <3>1, <4>1 DEF LeaseInv, RenewInv
      <3>2. CASE r \notin net
        BY <1>0, <1>02, <2>2, <3>2
      <3> QED
        BY <3>1, <3>2
    <2> QED
      BY <1>0, <2>1, <2>2 DEF RenewInv, IsRenew
  <1>3. CommitInv'
    <2>1. ASSUME NEW r \in net', IsRenew(r)
          PROVE  /\ r.n \in DOMAIN wal /\ wal[r.n].tx % RenewEvery = 0
                 /\ r.token = lastToken => marker <= r.n
      BY <1>0, <1>02, <2>1 DEF LeaseInv, CommitInv
    <2>2. \A j \in Instances : Acked(j)' => Acked(j) /\ j # i
      BY <1>0 DEF Acked
    <2> QED
      BY <1>0, <2>1, <2>2 DEF LeaseInv, CommitInv, IsRenew
  <1>4. MarkerSound'
    BY <1>0 DEF LeaseInv, MarkerSound
  <1>5. HaltInv'
    <2>1. \A r \in net' : IsPublish(r) => r \in net
      BY <1>0 DEF IsPublish
    <2> QED
      BY <1>0, <2>1, SameLog DEF LeaseInv, HaltInv, IsPublish, StaleEnd
  <1>6. SpanInv'
    BY <1>0, SameLog DEF LeaseInv
  <1> QED
    BY <1>1, <1>2, <1>3, <1>4, <1>5, <1>6 DEF LeaseInv

\* An extended lease is not that of a stale end.
LEMMA RenewedLease ==
  ASSUME IInv, LeaseInv, NEW i \in Instances, Renewed(i)
  PROVE  LeaseInv'
  <1>0. /\ pc[i] = "renew" /\ reply[i].status = "ok"
        /\ \A j \in Instances : pc'[j] = IF j = i THEN "sleep" ELSE pc[j]
        /\ reply'[i].status = "none"
        /\ \A j \in Instances \ {i} : reply'[j] = reply[j]
        /\ net \subseteq Request
        /\ UNCHANGED <<token, counter, restarts, net, holder, lastToken, marker, wal>>
    BY DEF Renewed, NoReply, storeVars, IInv, TypeOK
  <1>1. HolderInv'
    BY <1>0 DEF LeaseInv, HolderInv, Granted, IsRenew
  <1>2. RenewInv'
    <2>1. \A r \in net : IsRenew(r) /\ r.src = i => r.run # restarts[i]
      BY <1>0 DEF LeaseInv, HolderInv, RenewInv, IsRenew, Working
    <2> QED
      BY <1>0, <2>1 DEF LeaseInv, RenewInv, IsRenew, Request
  <1>3. CommitInv'
    BY <1>0 DEF LeaseInv, CommitInv, Acked, IsRenew
  <1>4. MarkerSound'
    BY <1>0 DEF LeaseInv, MarkerSound
  <1>5. HaltInv'
    BY <1>0, SameLog DEF LeaseInv, HaltInv, IsPublish
  <1>6. SpanInv'
    BY <1>0, SameLog DEF LeaseInv
  <1> QED
    BY <1>1, <1>2, <1>3, <1>4, <1>5, <1>6 DEF LeaseInv

\* The transaction behind a stale end is not sent.
LEMMA WakeLease ==
  ASSUME IInv, LeaseInv, NEW i \in Instances, Wake(i)
  PROVE  LeaseInv'
  <1> DEFINE q == [op |-> "publish", src |-> i, run |-> restarts[i],
                   token |-> token[i], n |-> counter[i] + 1]
  <1>0. /\ net' = net \cup {q}
        /\ q.op = "publish" /\ q.token = token[i] /\ q.n = counter[i] + 1
        /\ counter[i] \in Nat
        /\ pc[i] = "sleep"
        /\ \A j \in Instances : pc'[j] = IF j = i THEN "publish" ELSE pc[j]
        /\ reply'[i].status = "none"
        /\ \A j \in Instances \ {i} : reply'[j] = reply[j] /\ counter'[j] = counter[j]
        /\ net \subseteq Request
        /\ UNCHANGED <<token, restarts, holder, lastToken, marker, wal>>
    BY DEF Wake, Send, NoReply, storeVars, IInv, TypeOK
  <1> HIDE DEF q
  <1>1. HolderInv'
    BY <1>0 DEF LeaseInv, HolderInv, Granted, IsRenew
  <1>2. RenewInv'
    BY <1>0 DEF LeaseInv, RenewInv, IsRenew, Request, Working
  <1>3. CommitInv'
    BY <1>0 DEF LeaseInv, CommitInv, Acked, IsRenew
  <1>4. MarkerSound'
    BY <1>0 DEF LeaseInv, MarkerSound
  <1>5. HaltInv'
    <2>1. \A p \in DOMAIN wal : wal[p].tx \in Nat
      BY LogTyped DEF IInv
    <2>2. ASSUME NEW p \in DOMAIN wal, StaleEnd(p), q.token = wal[p].token
          PROVE  q.n # wal[p].tx + 1
      <3>1. counter[i] # wal[p].tx
        BY <1>0, <2>2 DEF LeaseInv, HaltInv
      <3> QED
        BY <1>0, <2>1, <3>1
    <2> QED
      BY <1>0, <2>2, SameLog DEF LeaseInv, HaltInv, IsPublish
  <1>6. SpanInv'
    BY <1>0, SameLog DEF LeaseInv
  <1> QED
    BY <1>1, <1>2, <1>3, <1>4, <1>5, <1>6 DEF LeaseInv

\* A step of a process keeps the second invariant.
LEMMA ProcessLease ==
  ASSUME IInv, LeaseInv, NEW i \in Instances,
         \/ Launch(i) \/ Restart(i) \/ Progress(i)
         \/ CallFails(i) \/ Cancel(i) \/ Crash(i)
  PROVE  LeaseInv'
  <1>1. CASE Launch(i) \/ Restart(i)
    BY <1>1, StartLease
  <1>2. CASE Acquired(i)
    BY <1>2, AcquiredLease
  <1>3. CASE NotAcquired(i)
    BY <1>3, LeaveLease DEF NotAcquired, Over
  <1>4. CASE Published(i)
    BY <1>4, PublishedLease
  <1>5. CASE Renewed(i)
    BY <1>5, RenewedLease
  <1>6. CASE NotExtended(i)
    BY <1>6, FinallyLease DEF NotExtended, Working
  <1>7. CASE Wake(i)
    BY <1>7, WakeLease
  <1>8. CASE Released(i)
    <2>1. PICK how \in {"failed", "exited"} : Leave(i, how)
      BY <1>8 DEF Released
    <2> QED
      BY <1>8, <2>1, LeaveLease DEF Released, Over
  <1>9. CASE CallFails(i)
    BY <1>9, FinallyLease, LeaveLease DEF CallFails, Working, Over
  <1>10. CASE Cancel(i)
    BY <1>10, FinallyLease, LeaveLease DEF Cancel, Over
  <1>11. CASE Crash(i)
    BY <1>11, LeaveLease DEF Crash, Over
  <1> QED
    BY <1>1, <1>2, <1>3, <1>4, <1>5, <1>6, <1>7, <1>8, <1>9, <1>10, <1>11 DEF Progress

-----------------------------------------------------------------------------
(* Steps of the grid. *)

\* A new token is above that of every request.
LEMMA GrantLease ==
  ASSUME IInv, LeaseInv, NEW r \in net, TryAcquireLease(r)
  PROVE  LeaseInv'
  <1>0. /\ net' = net \ {r}
        /\ lastToken \in Nat
        /\ \/ lastToken' = lastToken
           \/ lastToken' = lastToken + 1
        /\ UNCHANGED <<pc, token, counter, restarts, marker, wal>>
    BY DEF TryAcquireLease, Answer, IInv, TypeOK, processVars
  <1>1. \A i \in Instances :
          \/ reply'[i] = reply[i]
          \/ /\ pc[i] = "acquire"
             /\ Granted(i)' => reply'[i].value = lastToken + 1 /\ lastToken' = lastToken + 1
    BY <1>0 DEF TryAcquireLease, Answer, Awaited, Granted, Ok, Refused, IInv, TypeOK, Request
  <1>2. ASSUME NEW s \in net, s.op \in {"renew", "release"}
        PROVE  s.token # lastToken + 1 /\ s.token \in 1 .. lastToken'
    BY <1>0, <1>2 DEF LeaseInv, HolderInv
  <1>3. \A i \in Instances : token[i] # lastToken + 1
    BY <1>0 DEF IInv, TokenInv, TypeOK
  <1>4. HolderInv'
    <2> SUFFICES ASSUME NEW s \in net, s.op \in {"renew", "release"}
                 PROVE  /\ s.token \in 1 .. lastToken'
                        /\ \A i \in Instances : Granted(i)' => reply'[i].value # s.token
                        /\ \A i \in Instances : token[i] = s.token =>
                              \/ pc[i] = "release"
                              \/ IsRenew(s) /\ pc[i] = "renew" /\ reply'[i].status = "none"
      BY <1>0 DEF HolderInv, IsRenew
    <2>1. \A i \in Instances : Granted(i)' => reply'[i].value # s.token
      BY <1>0, <1>1, <1>2 DEF LeaseInv, HolderInv, Granted
    <2>2. \A i \in Instances : token[i] = s.token => reply'[i] = reply[i]
      BY <1>1 DEF LeaseInv, HolderInv
    <2> QED
      BY <1>2, <2>1, <2>2 DEF LeaseInv, HolderInv
  <1>5. RenewInv'
    BY <1>0 DEF LeaseInv, RenewInv, IsRenew
  <1>6. CommitInv'
    <2>1. \A i \in Instances : Acked(i)' => Acked(i) /\ reply'[i] = reply[i]
      BY <1>0, <1>1 DEF Acked
    <2>2. \A s \in net : IsRenew(s) /\ s.token = lastToken' => s.token = lastToken
      BY <1>0, <1>2 DEF IsRenew
    <2>3. \A i \in Instances : token[i] = lastToken' => token[i] = lastToken
      BY <1>0, <1>3
    <2> QED
      BY <1>0, <2>1, <2>2, <2>3 DEF LeaseInv, CommitInv, IsRenew
  <1>7. MarkerSound'
    BY <1>0 DEF LeaseInv, MarkerSound
  <1>8. HaltInv'
    <2>1. \A i \in Instances : pc[i] = "renew" => reply'[i] = reply[i]
      BY <1>1
    <2> QED
      BY <1>0, <2>1, SameLog DEF LeaseInv, HaltInv, IsPublish
  <1>9. SpanInv'
    BY <1>0, SameLog DEF LeaseInv
  <1> QED
    BY <1>4, <1>5, <1>6, <1>7, <1>8, <1>9 DEF LeaseInv

\* Entries whose token is not the last are written no more by the store's leave:
\* a renewal is extended only with the last token.
LEMMA ExtendLease ==
  ASSUME IInv, LeaseInv, NEW r \in net, RenewLease(r)
  PROVE  LeaseInv'
  <1>0. /\ net' = net \ {r}
        /\ IsRenew(r) /\ r.src \in Instances
        /\ \/ marker' = marker
           \/ marker' = r.n /\ r.token = holder
        /\ UNCHANGED <<pc, token, counter, restarts, holder, lastToken, wal>>
    BY DEF RenewLease, Answer, IInv, TypeOK, processVars, IsRenew, Request
  <1>1. r.token = holder => r.token = lastToken
    BY <1>0 DEF IInv, StoreInv, LeaseInv, HolderInv, IsRenew
  <1>2. \A i \in Instances :
          \/ reply'[i] = reply[i]
          \/ /\ pc[i] = "renew" /\ token[i] = r.token
             /\ reply'[i].status = "ok" => r.token = holder
    <2>1. Awaited(r) => pc[r.src] = "renew" /\ token[r.src] = r.token
      BY <1>0 DEF Awaited, IsRenew, LeaseInv, RenewInv, Working
    <2> QED
      BY <1>0, <2>1 DEF RenewLease, Answer, Ok, Refused, IInv, TypeOK
  <1>3. r.n \in DOMAIN wal /\ wal[r.n].tx % RenewEvery = 0
    BY <1>0 DEF LeaseInv, CommitInv
  <1>4. HolderInv'
    <2>1. \A s \in net' : s.op \in {"renew", "release"} => s.op = "release" \/ s.token # r.token
      BY <1>0 DEF LeaseInv, RenewInv, IsRenew
    <2> SUFFICES ASSUME NEW s \in net', s.op \in {"renew", "release"}
                 PROVE  /\ s.token \in 1 .. lastToken
                        /\ \A i \in Instances : Granted(i)' => reply'[i].value # s.token
                        /\ \A i \in Instances : token[i] = s.token =>
                              \/ pc[i] = "release"
                              \/ IsRenew(s) /\ pc[i] = "renew" /\ reply'[i].status = "none"
      BY <1>0 DEF HolderInv, IsRenew
    <2>2. \A i \in Instances : Granted(i)' => Granted(i) /\ reply'[i] = reply[i]
      BY <1>0, <1>2 DEF Granted
    <2>3. \A i \in Instances : token[i] = s.token => pc[i] = "release" \/ reply'[i] = reply[i]
      BY <1>0, <1>2, <2>1 DEF LeaseInv, HolderInv, IsRenew
    <2> QED
      BY <1>0, <2>2, <2>3 DEF LeaseInv, HolderInv
  <1>5. RenewInv'
    BY <1>0 DEF LeaseInv, RenewInv, IsRenew
  <1>6. CommitInv'
    <2>1. \A i \in Instances : Acked(i)' => Acked(i) /\ reply'[i] = reply[i]
      BY <1>0, <1>2 DEF Acked
    <2>2. \A s \in net' : IsRenew(s) => s.token # r.token
      BY <1>0 DEF LeaseInv, RenewInv
    <2>3. \A i \in Instances : Acked(i) => token[i] # r.token
      BY <1>0 DEF LeaseInv, HolderInv, Acked, IsRenew
    <2>4. CASE marker' = marker
      BY <1>0, <2>1, <2>4 DEF LeaseInv, CommitInv, IsRenew
    <2>5. CASE marker' = r.n /\ r.token = lastToken
      BY <1>0, <2>1, <2>2, <2>3, <2>5 DEF LeaseInv, CommitInv, IsRenew
    <2> QED
      BY <1>0, <1>1, <2>4, <2>5
  <1>7. MarkerSound'
    BY <1>0, <1>3 DEF LeaseInv, MarkerSound
  <1>8. HaltInv'
    <2>1. ASSUME NEW p \in DOMAIN wal, StaleEnd(p)
          PROVE  wal[p].token # lastToken
      <3>1. PICK n \in 1 .. (p - 1) : wal[p].token < wal[n].token
        BY <2>1 DEF StaleEnd, Stale
      <3>2. n \in DOMAIN wal
        BY <2>1, <3>1 DEF IInv, TypeOK
      <3>3. wal[n].token <= lastToken /\ wal[n].token \in Nat /\ wal[p].token \in Nat
            /\ lastToken \in Nat
        BY <2>1, <3>2, LogTyped DEF IInv, LogInv, TypeOK
      <3> QED
        BY <3>1, <3>3
    <2>2. ASSUME NEW p \in DOMAIN wal, StaleEnd(p), NEW i \in Instances,
                 token[i] = wal[p].token, pc[i] = "renew", reply'[i].status = "ok"
          PROVE  reply'[i] = reply[i]
      BY <1>1, <1>2, <2>1, <2>2
    <2> QED
      BY <1>0, <2>2, SameLog DEF LeaseInv, HaltInv, IsPublish
  <1>9. SpanInv'
    BY <1>0, SameLog DEF LeaseInv
  <1> QED
    BY <1>4, <1>5, <1>6, <1>7, <1>8, <1>9 DEF LeaseInv

\* A release and the end of a lease answer nobody who renews or publishes.
LEMMA EndLease ==
  ASSUME IInv, LeaseInv, (\E r \in net : ReleaseLease(r)) \/ Expire
  PROVE  LeaseInv'
  <1>0. /\ net' \subseteq net
        /\ UNCHANGED <<pc, token, counter, restarts, lastToken, marker, wal>>
    BY DEF ReleaseLease, Expire, Answer, processVars
  <1>1. \A i \in Instances : reply'[i] = reply[i] \/ pc[i] = "release"
    BY DEF ReleaseLease, Expire, Answer, Awaited, IInv, TypeOK, Request
  <1>2. HolderInv'
    BY <1>0, <1>1 DEF LeaseInv, HolderInv, Granted, IsRenew
  <1>3. RenewInv'
    BY <1>0 DEF LeaseInv, RenewInv, IsRenew
  <1>4. CommitInv'
    BY <1>0, <1>1 DEF LeaseInv, CommitInv, Acked, IsRenew
  <1>5. MarkerSound'
    BY <1>0 DEF LeaseInv, MarkerSound
  <1>6. HaltInv'
    BY <1>0, <1>1, SameLog DEF LeaseInv, HaltInv, IsPublish
  <1>7. SpanInv'
    BY <1>0, SameLog DEF LeaseInv
  <1> QED
    BY <1>2, <1>3, <1>4, <1>5, <1>6, <1>7 DEF LeaseInv

-----------------------------------------------------------------------------
(* Entries. *)

\* Counting one on goes to the next remainder, and from the last one to 0.
LEMMA NextRemainder ==
  ASSUME NEW c \in Nat
  PROVE  /\ c % RenewEvery \in 0 .. RenewEvery - 1
         /\ c % RenewEvery # RenewEvery - 1 => (c + 1) % RenewEvery = (c % RenewEvery) + 1
         /\ c % RenewEvery = RenewEvery - 1 => (c + 1) % RenewEvery = 0
  <1> DEFINE R == RenewEvery
             q == c \div R
             p == (c + 1) \div R
             r == c % R
             s == (c + 1) % R
  <1>0. R \in Nat \ {0}
    BY RenewEveryAssumption
  <1>1. q \in Int /\ p \in Int /\ r \in 0 .. R - 1 /\ s \in 0 .. R - 1
    BY <1>0
  <1>2. c = R * q + r /\ c + 1 = R * p + s
    BY <1>0
  <1> HIDE DEF p, q, r, s
  <1>3. R * (p - q) = r + 1 - s
    BY <1>0, <1>1, <1>2
  <1>4. /\ p - q \in Int
        /\ p - q >= 1 => R * (p - q) >= R
        /\ p - q <= -1 => R * (p - q) <= -R
    BY <1>0, <1>1
  <1>5. p - q >= 0
    BY <1>0, <1>1, <1>3, <1>4
  <1>6. p - q = 0 => s = r + 1
    <2>1. R * 0 = 0
      BY <1>0
    <2> QED
      BY <1>1, <1>3, <2>1
  <1>7. p - q >= 1 => s = 0 /\ r = R - 1
    BY <1>0, <1>1, <1>3, <1>4
  <1> QED
    BY <1>0, <1>1, <1>4, <1>5, <1>6, <1>7 DEF r, s

\* The place of a transaction in its batch is below RenewEvery, and one more
\* than that of the one before it, which was no end.
LEMMA PhaseFacts ==
  ASSUME NEW x \in Nat \ {0}
  PROVE  /\ Phase(x) \in 0 .. RenewEvery - 1
         /\ x > 1 /\ (x - 1) % RenewEvery # 0 => Phase(x) = Phase(x - 1) + 1
  <1>1. Phase(x) \in 0 .. RenewEvery - 1
    <2>1. x - 1 \in Nat
      OBVIOUS
    <2> QED
      BY <2>1, NextRemainder DEF Phase
  <1>2. ASSUME x > 1, (x - 1) % RenewEvery # 0
        PROVE  Phase(x) = Phase(x - 1) + 1
    <2> DEFINE c == x - 2
    <2>1. c \in Nat /\ x - 1 = c + 1 /\ (x - 1) - 1 = c
      BY <1>2
    <2> HIDE DEF c
    <2>2. (c + 1) % RenewEvery = (c % RenewEvery) + 1
      BY <1>2, <2>1, NextRemainder
    <2> QED
      BY <2>1, <2>2 DEF Phase
  <1> QED
    BY <1>1, <1>2

\* The next transaction of a token is of the batch of its stale entries.
LEMMA StaleSpan ==
  ASSUME IInv, LeaseInv, NEW r \in net, IsPublish(r), NEW k \in DOMAIN wal,
         Stale(k), wal[k].token = r.token
  PROVE  r.n - wal[k].tx = Phase(r.n) - Phase(wal[k].tx)
  <1>0. /\ r.n \in Nat /\ r.n >= 1
        /\ DOMAIN wal = 1 .. Len(wal) /\ Len(wal) \in Nat
        /\ \A m \in DOMAIN wal : wal[m].token = r.token => wal[m].tx < r.n
        /\ r.n > 1 => InLog(r.token, r.n - 1)
    BY DEF IInv, TypeOK, Request, PublishInv
  <1>1. /\ wal[k].tx \in Nat /\ wal[k].tx >= 1 /\ wal[k].tx < r.n
    BY <1>0, LogTyped DEF IInv, LogInv
  <1>2. PICK p \in DOMAIN wal : wal[p].token = r.token /\ wal[p].tx = r.n - 1
    <2>1. InLog(r.token, r.n - 1)
      BY <1>0, <1>1
    <2> QED
      BY <2>1 DEF InLog
  <1>3. k <= p
    <2>1. p < k => wal[p].tx < wal[k].tx
      BY <1>0, <1>2 DEF IInv, LogInv
    <2> QED
      BY <1>0, <1>1, <1>2, <2>1
  <1>4. Stale(p)
    <2>1. PICK n \in 1 .. (k - 1) : wal[k].token < wal[n].token
      BY DEF Stale
    <2>2. n \in 1 .. (p - 1)
      BY <1>0, <1>3
    <2> QED
      BY <1>2, <2>1, <2>2 DEF Stale
  <1>5. (r.n - 1) % RenewEvery # 0
    BY <1>0, <1>1, <1>2, <1>4 DEF LeaseInv, HaltInv, StaleEnd
  <1>6. (r.n - 1) - wal[k].tx = Phase(r.n - 1) - Phase(wal[k].tx)
    BY <1>2, <1>4 DEF LeaseInv, SpanInv
  <1>7. r.n \in Nat \ {0} /\ r.n > 1 /\ r.n - 1 \in Nat \ {0} /\ wal[k].tx \in Nat \ {0}
    BY <1>0, <1>1
  <1>8. Phase(r.n) = Phase(r.n - 1) + 1
    BY <1>5, <1>7, PhaseFacts
  <1>9. Phase(r.n - 1) \in Int /\ Phase(wal[k].tx) \in Int
    BY <1>7, PhaseFacts, RenewEveryAssumption
  <1> QED
    BY <1>6, <1>7, <1>8, <1>9

\* The log takes an entry or refuses it.
LEMMA WriteLease ==
  ASSUME IInv, LeaseInv, NEW r \in net, Publish(r)
  PROVE  LeaseInv'
  <1> DEFINE e == [token |-> r.token, tx |-> r.n]
             end == Len(wal) + 1
  <1>0. /\ net' = net \ {r}
        /\ IsPublish(r)
        /\ r.src \in Instances /\ r.token \in Nat /\ r.n \in Nat
        /\ e \in Entry
        /\ UNCHANGED <<pc, token, counter, restarts, lastToken, marker>>
    BY DEF Publish, Answer, IInv, TypeOK, Request, IsPublish, storeVars, processVars, Entry
  <1>1. \A i \in Instances :
          \/ reply'[i] = reply[i]
          \/ /\ pc[i] = "publish" /\ r.n = counter[i]
             /\ \/ reply'[i].status = "refused"
                \/ reply'[i].value = end /\ wal' = Append(wal, e)
    <2>1. Awaited(r) => pc[r.src] = "publish" /\ r.n = counter[r.src]
      BY <1>0 DEF IInv, RunInv, Awaited, IsPublish, Working
    <2> QED
      BY <1>0, <2>1 DEF Publish, Answer, Ok, Refused, IInv, TypeOK
  <1>2. UNCHANGED wal \/ wal' = Append(wal, e)
    BY DEF Publish
  <1>3. HolderInv'
    <2>1. \A i \in Instances : Granted(i)' => Granted(i) /\ reply'[i] = reply[i]
      BY <1>0, <1>1 DEF Granted
    <2>2. \A i \in Instances : pc[i] = "renew" => reply'[i] = reply[i]
      BY <1>1
    <2> QED
      BY <1>0, <2>1, <2>2 DEF LeaseInv, HolderInv, IsRenew
  <1>4. RenewInv'
    BY <1>0 DEF LeaseInv, RenewInv, IsRenew
  <1>5. CASE UNCHANGED wal
    <2>1. \A i \in Instances : Acked(i)' => Acked(i) /\ reply'[i] = reply[i]
      <3>1. wal # Append(wal, e)
        BY <1>0 DEF IInv, TypeOK
      <3> QED
        BY <1>0, <1>1, <1>5, <3>1 DEF Acked
    <2>2. CommitInv'
      BY <1>0, <1>5, <2>1 DEF LeaseInv, CommitInv, IsRenew
    <2>3. MarkerSound'
      BY <1>0, <1>5 DEF LeaseInv, MarkerSound
    <2>4. HaltInv'
      <3>1. \A i \in Instances : pc[i] = "renew" => reply'[i] = reply[i]
        BY <1>1
      <3> QED
        BY <1>0, <1>5, <3>1, SameLog DEF LeaseInv, HaltInv, IsPublish
    <2>5. SpanInv'
      BY <1>5, SameLog DEF LeaseInv
    <2> QED
      BY <1>3, <1>4, <2>2, <2>3, <2>4, <2>5 DEF LeaseInv
  <1>6. CASE wal' = Append(wal, e)
    <2>0. /\ DOMAIN wal = 1 .. Len(wal) /\ Len(wal) \in Nat
          /\ DOMAIN wal' = 1 .. end
          /\ \A k \in DOMAIN wal : wal'[k] = wal[k] /\ k \in DOMAIN wal'
          /\ wal'[end] = e /\ end \in DOMAIN wal'
          /\ e.token = r.token /\ e.tx = r.n
          /\ \A k \in DOMAIN wal' : k \in DOMAIN wal \/ k = end
      BY <1>0, <1>6, AppendLog DEF IInv
    <2> HIDE DEF e, end
    <2>1. /\ r.n >= 1
          /\ \A k \in DOMAIN wal : wal[k].token = r.token => wal[k].tx < r.n
          /\ r.n > 1 => InLog(r.token, r.n - 1)
          /\ \A s \in net : IsPublish(s) /\ s.token = r.token => s = r
      BY <1>0 DEF IInv, PublishInv
    <2>2. marker \in Nat /\ marker < end
      BY <2>0 DEF IInv, TypeOK, LeaseInv, MarkerSound, end
    <2>3. \A k \in DOMAIN wal : (Stale(k)' <=> Stale(k)) /\ (StaleEnd(k)' <=> StaleEnd(k))
      <3>1. \A k \in DOMAIN wal : \A n \in 1 .. (k - 1) : n \in DOMAIN wal
        BY <2>0
      <3> QED
        BY <2>0, <3>1 DEF Stale, StaleEnd
    <2>4. CommitInv'
      <3>1. ASSUME NEW s \in net', IsRenew(s)
            PROVE  /\ s.n \in DOMAIN wal' /\ wal'[s.n].tx % RenewEvery = 0
                   /\ s.token = lastToken => marker <= s.n
        BY <1>0, <2>0, <3>1 DEF LeaseInv, CommitInv
      <3>2. ASSUME NEW i \in Instances, Acked(i)'
            PROVE  /\ reply'[i].value \in DOMAIN wal' /\ wal'[reply'[i].value].tx = counter[i]
                   /\ token[i] = lastToken => marker <= reply'[i].value
        <4>1. CASE reply'[i] = reply[i]
          <5>1. Acked(i)
            BY <1>0, <3>2, <4>1 DEF Acked
          <5> QED
            BY <2>0, <4>1, <5>1 DEF LeaseInv, CommitInv
        <4>2. CASE reply'[i].value = end /\ r.n = counter[i]
          BY <2>0, <2>2, <4>2 DEF end
        <4> QED
          BY <1>1, <3>2, <4>1, <4>2 DEF Acked
      <3> QED
        BY <1>0, <3>1, <3>2 DEF CommitInv, IsRenew
    <2>5. MarkerSound'
      BY <1>0, <2>0 DEF LeaseInv, MarkerSound
    <2>6. HaltInv'
      <3>1. \A i \in Instances : pc[i] = "renew" => reply'[i] = reply[i]
        BY <1>1
      <3>2. ASSUME NEW p \in DOMAIN wal, StaleEnd(p)'
            PROVE  /\ \A i \in Instances : token[i] = wal'[p].token /\ counter[i] = wal'[p].tx =>
                         pc[i] # "sleep" /\ ~(pc[i] = "renew" /\ reply'[i].status = "ok")
                   /\ \A s \in net' : IsPublish(s) /\ s.token = wal'[p].token => s.n # wal'[p].tx + 1
        BY <1>0, <2>0, <2>3, <3>1, <3>2 DEF LeaseInv, HaltInv
      <3>3. /\ \A i \in Instances : token[i] = r.token => pc[i] \notin {"sleep", "renew"}
            /\ \A s \in net' : IsPublish(s) => s.token # r.token
        <4>1. r.token # 0
          BY <1>0 DEF IInv, PublishInv
        <4> QED
          BY <1>0, <2>1, <4>1 DEF IInv, ProcessInv
      <3> QED
        BY <1>0, <2>0, <3>2, <3>3 DEF HaltInv, IsPublish
    <2>7. SpanInv'
      <3>1. \A k \in DOMAIN wal : Stale(k) /\ wal[k].token = r.token =>
              r.n - wal[k].tx = Phase(r.n) - Phase(wal[k].tx)
        BY <1>0, StaleSpan
      <3>2. \A k \in DOMAIN wal : wal[k].tx \in Nat /\ Phase(wal[k].tx) \in Int
        <4>1. \A k \in DOMAIN wal : wal[k].tx \in Nat \ {0}
          BY LogTyped DEF IInv, LogInv
        <4> QED
          BY <4>1, PhaseFacts, RenewEveryAssumption
      <3>3. Phase(r.n) \in Int
        BY <1>0, <2>1, PhaseFacts, RenewEveryAssumption
      <3> SUFFICES ASSUME NEW k \in DOMAIN wal', NEW m \in DOMAIN wal',
                          Stale(k)', Stale(m)', wal'[k].token = wal'[m].token
                   PROVE  wal'[m].tx - wal'[k].tx = Phase(wal'[m].tx) - Phase(wal'[k].tx)
        BY DEF SpanInv, Phase
      <3>4. CASE k \in DOMAIN wal /\ m \in DOMAIN wal
        BY <2>0, <2>3, <3>4 DEF LeaseInv, SpanInv
      <3>5. CASE k \in DOMAIN wal /\ m = end
        BY <2>0, <2>3, <3>1, <3>5
      <3>6. CASE k = end /\ m \in DOMAIN wal
        <4>1. /\ wal'[k].tx = r.n /\ wal'[m].tx = wal[m].tx
              /\ r.n - wal[m].tx = Phase(r.n) - Phase(wal[m].tx)
          BY <2>0, <2>3, <3>1, <3>6
        <4> QED
          BY <1>0, <3>2, <3>3, <3>6, <4>1
      <3>7. CASE k = end /\ m = end
        BY <1>0, <2>0, <3>3, <3>7
      <3> QED
        BY <2>0, <3>4, <3>5, <3>6, <3>7
    <2> QED
      BY <1>3, <1>4, <2>4, <2>5, <2>6, <2>7 DEF LeaseInv
  <1> QED
    BY <1>2, <1>5, <1>6

-----------------------------------------------------------------------------
(* The invariant is inductive, and what follows from it. *)

\* Every step keeps it.
LEMMA NextLease == IInv /\ LeaseInv /\ [Next]_vars => LeaseInv'
  <1> SUFFICES ASSUME IInv, LeaseInv, [Next]_vars PROVE LeaseInv'
    OBVIOUS
  <1>1. ASSUME NEW i \in Instances,
               \/ Launch(i) \/ Restart(i) \/ Progress(i)
               \/ CallFails(i) \/ Cancel(i) \/ Crash(i)
        PROVE  LeaseInv'
    BY <1>1, ProcessLease
  <1>2. ASSUME NEW r \in net, Apply(r)
        PROVE  LeaseInv'
    BY <1>2, GrantLease, WriteLease, ExtendLease, EndLease DEF Apply
  <1>3. CASE Expire
    BY <1>3, EndLease
  <1>4. CASE UNCHANGED vars
    BY <1>4 DEF vars, processVars, storeVars, LeaseInv, HolderInv, RenewInv, CommitInv,
                MarkerSound, HaltInv, SpanInv, Granted, Acked, StaleEnd, Stale
  <1> QED
    BY <1>1, <1>2, <1>3, <1>4 DEF Next

\* What the requests in the network and the log say of the leases they are of.
THEOREM LeaseInvariant == Spec => []LeaseInv
  BY InitLease, NextLease, Invariant, PTL DEF Spec

\* A marker names an entry of the log that ends a batch.
THEOREM MarkersAreSound == Spec => []MarkerSound
  <1>1. LeaseInv => MarkerSound
    BY DEF LeaseInv
  <1> QED
    BY <1>1, LeaseInvariant, PTL

\* The marker moves forward only, whichever delayed renewal the store applies.
THEOREM MarkerOnlyAdvances == Spec => MarkerMonotone
  <1>1. IInv /\ LeaseInv /\ [Next]_vars => [marker' >= marker]_vars
    <2> SUFFICES ASSUME IInv, LeaseInv, [Next]_vars PROVE marker' >= marker
      OBVIOUS
    <2>0. marker \in Nat
      BY DEF IInv, TypeOK
    <2>1. ASSUME NEW i \in Instances,
                 \/ Launch(i) \/ Restart(i) \/ Progress(i)
                 \/ CallFails(i) \/ Cancel(i) \/ Crash(i)
          PROVE  marker' = marker
      BY <2>1 DEF Launch, Restart, Progress, Acquired, NotAcquired, Published, Renewed,
                  NotExtended, Wake, Released, CallFails, Cancel, Crash, storeVars
    <2>2. ASSUME NEW r \in net, RenewLease(r)
          PROVE  marker' >= marker
      <3>1. CASE r.token = holder
        <4>1. IsRenew(r) /\ marker' = r.n
          BY <2>2, <3>1 DEF RenewLease, IsRenew
        <4>2. r.token = lastToken
          BY <3>1, <4>1 DEF IInv, StoreInv, LeaseInv, HolderInv, IsRenew
        <4>3. marker <= r.n /\ r.n \in Nat
          BY <4>1, <4>2 DEF LeaseInv, CommitInv, IInv, TypeOK, Request
        <4> QED
          BY <2>0, <4>1, <4>3
      <3>2. CASE r.token # holder
        BY <2>0, <2>2, <3>2 DEF RenewLease
      <3> QED
        BY <3>1, <3>2
    <2>3. ASSUME NEW r \in net, TryAcquireLease(r) \/ Publish(r) \/ ReleaseLease(r)
          PROVE  marker' = marker
      BY <2>3 DEF TryAcquireLease, Publish, ReleaseLease, storeVars
    <2>4. ASSUME Expire \/ UNCHANGED vars
          PROVE  marker' = marker
      BY <2>4 DEF Expire, vars, storeVars
    <2>5. marker' = marker \/ marker' >= marker
      BY <2>1, <2>2, <2>3, <2>4 DEF Next, Apply
    <2> QED
      BY <2>0, <2>5
  <1> QED
    BY <1>1, Invariant, LeaseInvariant, PTL DEF Spec, MarkerMonotone

\* The lease of a process at work ends by running out and in no other way: no
\* release on its way bears its token.
THEOREM LiveLeasesOnlyExpire == Spec => LiveLeaseOnlyExpires
  <1> DEFINE Lost == /\ holder' # holder
                     /\ \E i \in Instances : pc[i] \in Working /\ token[i] = holder
  <1>1. IInv /\ LeaseInv /\ [Next]_vars => [Lost => Expire]_vars
    <2> SUFFICES ASSUME IInv, LeaseInv, [Next]_vars, holder' # holder,
                        NEW i \in Instances, pc[i] \in Working, token[i] = holder
                 PROVE  Expire
      OBVIOUS
    <2>1. ASSUME NEW j \in Instances,
                 \/ Launch(j) \/ Restart(j) \/ Progress(j)
                 \/ CallFails(j) \/ Cancel(j) \/ Crash(j)
          PROVE  FALSE
      BY <2>1 DEF Launch, Restart, Progress, Acquired, NotAcquired, Published, Renewed,
                  NotExtended, Wake, Released, CallFails, Cancel, Crash, storeVars
    <2>2. ASSUME NEW r \in net, TryAcquireLease(r) PROVE FALSE
      <3>1. holder = 0
        BY <2>2 DEF TryAcquireLease
      <3> QED
        BY <3>1 DEF IInv, TokenInv, Over, Working
    <2>3. ASSUME NEW r \in net, Publish(r) \/ RenewLease(r) PROVE FALSE
      BY <2>3 DEF Publish, RenewLease, storeVars
    <2>4. ASSUME NEW r \in net, ReleaseLease(r) PROVE FALSE
      <3>1. r.op = "release" /\ r.token = holder
        BY <2>4 DEF ReleaseLease
      <3> QED
        BY <3>1 DEF LeaseInv, HolderInv, IsRenew, Working
    <2>5. ~UNCHANGED vars
      BY DEF vars, storeVars
    <2> QED
      BY <2>1, <2>2, <2>3, <2>4, <2>5 DEF Next, Apply
  <1> QED
    BY <1>1, Invariant, LeaseInvariant, PTL DEF Spec, LiveLeaseOnlyExpires

\* Whatever is delayed or retried, a token writes less than RenewEvery
\* transactions past the first it writes behind a newer one.
THEOREM ZombiesAreBounded == Spec => []ZombieWritesBounded
  <1>1. IInv /\ LeaseInv => ZombieWritesBounded
    <2> SUFFICES ASSUME IInv, LeaseInv, NEW n \in DOMAIN wal,
                        NEW k \in (n + 1) .. Len(wal), NEW m \in (n + 1) .. Len(wal),
                        wal[k].token = wal[m].token, wal[m].token < wal[n].token
                 PROVE  wal[m].tx < wal[k].tx + RenewEvery
      BY DEF ZombieWritesBounded
    <2>1. /\ k \in DOMAIN wal /\ m \in DOMAIN wal
          /\ n \in 1 .. (k - 1) /\ n \in 1 .. (m - 1)
      BY DEF IInv, TypeOK
    <2>2. Stale(k) /\ Stale(m)
      BY <2>1 DEF Stale
    <2>3. wal[m].tx - wal[k].tx = Phase(wal[m].tx) - Phase(wal[k].tx)
      BY <2>1, <2>2 DEF LeaseInv, SpanInv
    <2>4. wal[m].tx \in Nat \ {0} /\ wal[k].tx \in Nat \ {0}
      BY <2>1, LogTyped DEF IInv, LogInv
    <2>5. Phase(wal[m].tx) \in 0 .. RenewEvery - 1 /\ Phase(wal[k].tx) \in 0 .. RenewEvery - 1
      BY <2>4, PhaseFacts
    <2> QED
      BY <2>3, <2>4, <2>5, RenewEveryAssumption
  <1> QED
    BY <1>1, Invariant, LeaseInvariant, PTL

\* What the log takes from a process is the next transaction of its token, and
\* none that is too far behind a newer one.
LEMMA AppendIsWrite ==
  ASSUME IInv, LeaseInv, NEW r \in net, IsPublish(r), lastToken' = lastToken,
         wal' = Append(wal, [token |-> r.token, tx |-> r.n])
  PROVE  Logs!Next
  <1>0. /\ r.n \in Nat /\ r.n >= 1 /\ r.token \in 1 .. lastToken
        /\ \A k \in DOMAIN wal : wal[k].token = r.token => wal[k].tx < r.n
        /\ r.n > 1 => InLog(r.token, r.n - 1)
    BY DEF IInv, TypeOK, Request, PublishInv
  <1>1. ~Logs!Written(r.token, r.n)
    BY <1>0 DEF Logs!Written
  <1>2. r.n > 1 => Logs!Written(r.token, r.n - 1)
    BY <1>0 DEF InLog, Logs!Written
  <1>3. ASSUME NEW k \in DOMAIN wal, Logs!Superseded(k), wal[k].token = r.token
        PROVE  r.n < wal[k].tx + RenewEvery
    <2>1. Stale(k)
      BY <1>3 DEF Logs!Superseded, Stale
    <2>2. r.n - wal[k].tx = Phase(r.n) - Phase(wal[k].tx)
      BY <1>3, <2>1, StaleSpan
    <2>3. wal[k].tx \in Nat \ {0} /\ r.n \in Nat \ {0}
      BY <1>0, LogTyped DEF IInv, LogInv
    <2>4. Phase(r.n) \in 0 .. RenewEvery - 1 /\ Phase(wal[k].tx) \in 0 .. RenewEvery - 1
      BY <2>3, PhaseFacts
    <2> QED
      BY <2>2, <2>3, <2>4, RenewEveryAssumption
  <1>4. Logs!Write(r.token, r.n)
    BY <1>1, <1>2, <1>3 DEF Logs!Write
  <1>5. r.n \in {1} \cup {wal[k].tx + 1 : k \in DOMAIN wal}
    <2>1. CASE r.n > 1
      <3>1. PICK k \in DOMAIN wal : wal[k] = [token |-> r.token, tx |-> r.n - 1]
        BY <1>0, <2>1 DEF InLog
      <3> QED
        BY <1>0, <3>1
    <2> QED
      BY <1>0, <2>1
  <1> QED
    BY <1>0, <1>4, <1>5 DEF Logs!Next

\* The ledger, its lease store and a log of either kind together implement
\* OpenLog: an acquired lease opens an epoch, an accepted publish is its next
\* transaction, and every other step is invisible to who reads the log.
THEOREM OpenLogIsImplemented == Spec => ImplementsOpenLog
  <1>1. Init => Logs!Init
    BY DEF Init, Logs!Init
  <1>2. IInv /\ LeaseInv /\ [Next]_vars => [Logs!Next]_<<lastToken, wal>>
    <2> SUFFICES ASSUME IInv, LeaseInv, [Next]_vars
                 PROVE  [Logs!Next]_<<lastToken, wal>>
      OBVIOUS
    <2>1. ASSUME NEW i \in Instances,
                 \/ Launch(i) \/ Restart(i) \/ Progress(i)
                 \/ CallFails(i) \/ Cancel(i) \/ Crash(i)
          PROVE  UNCHANGED <<lastToken, wal>>
      BY <2>1 DEF Launch, Restart, Progress, Acquired, NotAcquired, Published, Renewed,
                  NotExtended, Wake, Released, CallFails, Cancel, Crash, storeVars
    <2>2. ASSUME NEW r \in net, TryAcquireLease(r)
          PROVE  UNCHANGED <<lastToken, wal>> \/ Logs!Open
      BY <2>2 DEF TryAcquireLease, Logs!Open
    <2>3. ASSUME NEW r \in net, RenewLease(r) \/ ReleaseLease(r)
          PROVE  UNCHANGED <<lastToken, wal>>
      BY <2>3 DEF RenewLease, ReleaseLease
    <2>4. ASSUME NEW r \in net, Publish(r)
          PROVE  UNCHANGED <<lastToken, wal>> \/ Logs!Next
      BY <2>4, AppendIsWrite DEF Publish, IsPublish, storeVars
    <2>5. CASE Expire \/ UNCHANGED vars
      BY <2>5 DEF Expire, vars, storeVars
    <2> QED
      BY <2>1, <2>2, <2>3, <2>4, <2>5 DEF Next, Apply, Logs!Next
  <1> QED
    BY <1>1, <1>2, Invariant, LeaseInvariant, PTL DEF Spec, ImplementsOpenLog, Logs!Spec
=============================================================================
