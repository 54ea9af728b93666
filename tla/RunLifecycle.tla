---------------------------- MODULE RunLifecycle ----------------------------
(***************************************************************************)
(* The life of the Runs of one Conversation as a client may rely on it: at *)
(* most one is live, each ends once and in one of four ways, an answer     *)
(* comes only from a Run that ran, and expiry takes them all at once.      *)
(***************************************************************************)
CONSTANT Runs
VARIABLE state

Live(r) == state[r] \in {"queued", "running"}

Init == state = [r \in Runs |-> "absent"]

Accept(r) ==
    /\ state[r] = "absent"
    /\ \A s \in Runs : ~Live(s)
    /\ state' = [state EXCEPT ![r] = "queued"]

Start(r) ==
    /\ state[r] = "queued"
    /\ state' = [state EXCEPT ![r] = "running"]

End(r, s) ==
    /\ Live(r)
    /\ s = "completed" => state[r] = "running"
    /\ state' = [state EXCEPT ![r] = s]

Purge == state' = [r \in Runs |-> "gone"]

Next ==
    \/ \E r \in Runs :
          \/ Accept(r)
          \/ Start(r)
          \/ \E s \in {"completed", "failed", "timeout", "cancelled"} : End(r, s)
    \/ Purge

Spec == Init /\ [][Next]_state
=============================================================================
