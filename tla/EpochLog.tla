------------------------------ MODULE EpochLog ------------------------------
(***************************************************************************)
(* What a fenced ledger promises to who reads its log: epochs follow one   *)
(* another, only the open epoch writes, and it writes its transactions     *)
(* 1, 2, 3, ... without a gap.                                             *)
(***************************************************************************)
EXTENDS Naturals, Sequences

VARIABLES
    epoch,  \* the last epoch that was opened
    open,   \* may that epoch still write?
    log     \* the entries, each [token, tx]

Init == epoch = 0 /\ open = FALSE /\ log = <<>>

Open ==
    /\ ~open
    /\ epoch' = epoch + 1
    /\ open' = TRUE
    /\ UNCHANGED log

Close ==
    /\ open
    /\ open' = FALSE
    /\ UNCHANGED <<epoch, log>>

\* The transaction that comes next in the open epoch.
NextTx ==
    IF log # <<>> /\ log[Len(log)].token = epoch THEN log[Len(log)].tx + 1 ELSE 1

Write ==
    /\ open
    /\ log' = Append(log, [token |-> epoch, tx |-> NextTx])
    /\ UNCHANGED <<epoch, open>>

Next == Open \/ Close \/ Write

Spec == Init /\ [][Next]_<<epoch, open, log>>
=============================================================================
