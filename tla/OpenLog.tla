------------------------------- MODULE OpenLog ------------------------------
(***************************************************************************)
(* What a ledger promises to who reads its log when the log may take every *)
(* write: the epochs may write at once, each its transactions 1, 2, 3, ... *)
(* without a gap, but one that finds itself behind a newer epoch's entry   *)
(* writes less than a batch past its first entry there.                    *)
(***************************************************************************)
EXTENDS Naturals, Sequences

CONSTANT Batch      \* transactions between two looks at the lease

VARIABLES
    epoch,  \* the last epoch that was opened
    log     \* the entries, each [token, tx]

Init == epoch = 0 /\ log = <<>>

Open == epoch' = epoch + 1 /\ UNCHANGED log

\* Is transaction n of epoch e in the log?
Written(e, n) == \E k \in DOMAIN log : log[k] = [token |-> e, tx |-> n]

\* Entry k stands behind one of a newer epoch.
Superseded(k) == \E m \in 1 .. (k - 1) : log[k].token < log[m].token

\* The next transaction of an epoch, superseded or not.
Write(e, n) ==
    /\ ~Written(e, n)
    /\ n > 1 => Written(e, n - 1)
    /\ \A k \in DOMAIN log : Superseded(k) /\ log[k].token = e => n < log[k].tx + Batch
    /\ log' = Append(log, [token |-> e, tx |-> n])
    /\ UNCHANGED epoch

Next ==
    \/ Open
    \/ \E e \in 1 .. epoch, n \in {1} \cup {log[k].tx + 1 : k \in DOMAIN log} : Write(e, n)

Spec == Init /\ [][Next]_<<epoch, log>>
=============================================================================
