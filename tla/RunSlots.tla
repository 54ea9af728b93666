------------------------------ MODULE RunSlots ------------------------------
(***************************************************************************)
(* What the capacity ledger promises, without a single counter: admission  *)
(* is decided by counting the Runs that really wait and really run.        *)
(* CapacityLedger implements it with waiting <- Queued, running <- Active. *)
(***************************************************************************)
EXTENDS Integers, FiniteSets

CONSTANTS Leases, Conv, MaxGlobal, MaxSession, MaxQueued, MaxProvider
VARIABLES waiting, running

slots == <<waiting, running>>
Sharing(l) == {m \in waiting \cup running : Conv[m] = Conv[l]}

Init == waiting = {} /\ running = {}

Admit(l) ==
    /\ l \notin waiting \cup running
    /\ Cardinality(waiting \cup running) < MaxGlobal
    /\ Cardinality(Sharing(l)) < MaxSession
    /\ Cardinality(waiting) < MaxQueued
    /\ Cardinality(running) < MaxProvider
    /\ waiting' = waiting \cup {l}
    /\ UNCHANGED running

Begin(l) ==
    /\ l \in waiting
    /\ waiting' = waiting \ {l}
    /\ running' = running \cup {l}

End(l) ==
    /\ l \in waiting \cup running
    /\ waiting' = waiting \ {l}
    /\ running' = running \ {l}

Next == \E l \in Leases : Admit(l) \/ Begin(l) \/ End(l)

Spec == Init /\ [][Next]_slots
=============================================================================
