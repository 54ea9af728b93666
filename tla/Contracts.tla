------------------------------ MODULE Contracts ------------------------------
(* The cross-field rules of the wire contracts (contracts): what a validator
   refuses once every field has its type.  Each refusal is a ValueError, and a
   value built inside a commit or a read that meets one costs that call.      *)
EXTENDS Naturals

Outcomes == {"grounded", "partial", "wiki_gap", "out_of_scope", "meta"}
Sourced == {"grounded", "partial"}      \* SOURCED_OUTCOMES

(* _check_outcome_fields, of an agent's result, a sources event and a message. *)
CheckOutcomeFields(r) ==
    /\ r.outcome \in Outcomes
    /\ r.outcome \in Sourced <=> r.sources # {}
    /\ r.outcome = "partial" <=> r.uncovered

(* RunStatusEventV1 (its stage is "streaming" for "running" and "terminal" for
   the rest), AgentStepEventV1 and StreamEndEventV1 on the common base.       *)
ValidEvent(e) ==
    /\ e.seq >= 1
    /\ e.type = "run.status" =>
          e.state \in {"running", "completed", "failed", "timeout", "cancelled"}
    /\ e.type = "agent.step" => e.index >= 1
    /\ e.type = "stream.end" =>
          /\ e.state \in {"completed", "failed", "timeout", "cancelled", "expired"}
          /\ e.index = e.seq

(* RunProjectionV1.validate_terminal_fields; `output` and `error` say whether
   the field is there, `found` whether the message its id names was.          *)
ValidProjection(p) ==
    /\ p.state \in {"queued", "running", "completed", "failed", "timeout", "cancelled"}
    /\ p.output <=> p.state = "completed"
    /\ p.output => p.found
    /\ p.error <=> p.state \in {"failed", "timeout"}
=============================================================================
