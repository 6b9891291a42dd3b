---------------------------- MODULE OneShotWrites ----------------------------
(***************************************************************************)
(* What the journal and the submission promise together, with neither      *)
(* sessions, awaits nor HomeTax in sight: each target is claimed by one    *)
(* plan at a time, a claim is given back only if nothing was sent for it,  *)
(* and therefore a target is written at most once, for ever.               *)
(***************************************************************************)
CONSTANTS Targets, Plans, Nobody

VARIABLES
    claim,    \* claim[t]: the plan that holds target t, or Nobody
    reached,  \* plans of which HomeTax may have seen something
    settled   \* plans known to be carried out

vars == <<claim, reached, settled>>

Init ==
    /\ claim = [t \in Targets |-> Nobody]
    /\ reached = {}
    /\ settled = {}

\* A plan holds one target at most, and no plan claims twice.
Claim(t, p) ==
    /\ claim[t] = Nobody
    /\ \A u \in Targets : claim[u] # p
    /\ p \notin reached
    /\ claim' = [claim EXCEPT ![t] = p]
    /\ UNCHANGED <<reached, settled>>

Release(t) ==
    /\ claim[t] # Nobody
    /\ claim[t] \notin reached
    /\ claim' = [claim EXCEPT ![t] = Nobody]
    /\ UNCHANGED <<reached, settled>>

Reach(t) ==
    /\ claim[t] # Nobody
    /\ reached' = reached \cup {claim[t]}
    /\ UNCHANGED <<claim, settled>>

Settle(t) ==
    /\ claim[t] \in reached
    /\ settled' = settled \cup {claim[t]}
    /\ UNCHANGED <<claim, reached>>

Next ==
    \E t \in Targets :
        \/ \E p \in Plans : Claim(t, p)
        \/ Release(t)
        \/ Reach(t)
        \/ Settle(t)

Spec == Init /\ [][Next]_vars
=============================================================================
