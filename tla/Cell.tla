-------------------------------- MODULE Cell ---------------------------------
(***************************************************************************)
(* Applications on one node and the chaos switches they share: the Entropy *)
(* Engine sets them, the Sovereign Beacon and the Signed Chat live with    *)
(* what they do.  A deployment says which of the three the node runs;      *)
(* where the engine is not among them, somebody else holds the switches.   *)
(***************************************************************************)
EXTENDS Entropy, Beacon, Chat

CONSTANT Deployments    \* the sets of applications to look at

ASSUME DeploymentsAssumption == Deployments \subseteq SUBSET {"engine", "beacon", "chat"}

VARIABLE deployed

vars == <<switches, engineVars, beaconVars, chatVars, deployed>>

TypeOK == SwitchesOK /\ EntropyTypeOK /\ BeaconTypeOK /\ ChatTypeOK /\ deployed \in Deployments

Init ==
    /\ deployed \in Deployments
    /\ SwitchesInit /\ EntropyInit /\ BeaconInit /\ ChatInit

\* A step of one application leaves the others and, but for the engine's, the
\* switches alone.
OfEngine == "engine" \in deployed /\ UNCHANGED <<beaconVars, chatVars, deployed>>
OfBeacon == "beacon" \in deployed /\ UNCHANGED <<switches, engineVars, chatVars, deployed>>
OfChat == "chat" \in deployed /\ UNCHANGED <<switches, engineVars, beaconVars, deployed>>

SwitchedElsewhere ==
    /\ "engine" \notin deployed
    /\ \E op \in DOMAIN Suspension \cup DOMAIN Fault : Switch(op)
    /\ UNCHANGED <<engineVars, beaconVars, chatVars, deployed>>

Next ==
    \/ EntropyNext /\ OfEngine
    \/ BeaconNext /\ OfBeacon
    \/ ChatNext /\ OfChat
    \/ SwitchedElsewhere

Spec == Init /\ [][Next]_vars

(* Fairness: a burn lasts its seconds; the event loop runs its ready tasks  *)
(* in turn, so that a call waiting behind the burns is run although other   *)
(* calls start new ones (strong fairness); a call to the platform is        *)
(* answered or fails.  The chat's listener asks again and again: in the end *)
(* it gets an answer (strong fairness).  Who types, calls, cancels or kills *)
(* owes nothing.                                                            *)
Fairness ==
    /\ WF_vars(BurnEnds /\ OfEngine)
    /\ \A c \in CallIds :
         /\ SF_vars(MethodCalls(c) /\ OfEngine)
         /\ WF_vars((RequestApplied(c) \/ MethodRaises(c)) /\ calls[c].at = "sent" /\ OfEngine)
    /\ WF_vars(ListenerWakes /\ OfChat)
    /\ SF_vars(BatchShown /\ OfChat)

FairSpec == Spec /\ Fairness

\* A call of heal_node() that reached the engine ends the isolation, unless the
\* platform fails the call or the engine dies with it: however often the engine
\* is told to burn, and although the burn has no await, healing is not shut out.
HealHeals ==
    \A c \in CallIds :
        calls[c] = [op |-> "heal", at |-> "queued"]
            ~> (~gossipSuspended \/ calls[c].at \in {"adrift", "none"})
=============================================================================
