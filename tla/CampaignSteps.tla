---------------------------- MODULE CampaignSteps ----------------------------
(***************************************************************************)
(* What the continental runner promises of its measurement steps: they are *)
(* done in order, and each is settled once and for all with a measurement  *)
(* of its own, whatever happens to the processes involved.                 *)
(***************************************************************************)
EXTENDS Naturals

CONSTANTS
    Steps,   \* the steps are 1, 2, ... in their order
    Ids      \* the identities of measurements

VARIABLE adopted  \* per step: the identity of its measurement, 0 = none yet

Init == adopted = [s \in Steps |-> 0]

Settle(s, id) ==
    /\ adopted[s] = 0
    /\ \A t \in Steps : t < s => adopted[t] # 0
    /\ id # 0 /\ \A t \in Steps : adopted[t] # id
    /\ adopted' = [adopted EXCEPT ![s] = id]

Next == \E s \in Steps, id \in Ids : Settle(s, id)

Spec == Init /\ [][Next]_adopted
=============================================================================
