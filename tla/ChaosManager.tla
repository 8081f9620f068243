---------------------------- MODULE ChaosManager ----------------------------
(***************************************************************************)
(* The chaos switches of a node, which the platform keeps and every        *)
(* application of the node feels: while gossip is suspended no message of  *)
(* another node comes in, while storage is faulted no event is stored.     *)
(***************************************************************************)
EXTENDS Naturals, Sequences, FiniteSets

VARIABLES
    gossipSuspended,    \* grid.chaos.suspend_gossip(True) is in force
    storageFault        \* grid.chaos.set_storage_fault(True) is in force

switches == <<gossipSuspended, storageFault>>

\* The switch each method of the engine sets, and to what.
Suspension == [isolate |-> TRUE, heal |-> FALSE]
Fault == [failStorage |-> TRUE, restoreStorage |-> FALSE]

SwitchesOK == gossipSuspended \in BOOLEAN /\ storageFault \in BOOLEAN

\* The switches outlive whoever set them: a process may find them in any position.
SwitchesInit == gossipSuspended \in BOOLEAN /\ storageFault \in BOOLEAN

\* The platform applies a request.
Switch(op) ==
    \/ /\ op \in DOMAIN Suspension
       /\ gossipSuspended' = Suspension[op]
       /\ UNCHANGED storageFault
    \/ /\ op \in DOMAIN Fault
       /\ storageFault' = Fault[op]
       /\ UNCHANGED gossipSuspended
=============================================================================
