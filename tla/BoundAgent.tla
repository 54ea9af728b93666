----------------------------- MODULE BoundAgent -----------------------------
(* The agent a process binds at startup, behind the one port the application
   drives: the deterministic agent or the Wiki research of the sidecar, each
   for one Run.  A process that binds neither is never Ready and runs nothing. *)
EXTENDS WikiResearch, Bootstrap

CONSTANTS LocalTestDocument

VARIABLES
    agent,      \* what build_provider returned
    fake        \* the Run of the deterministic agent

boundVars == <<vars, agent, fake>>

Fake == INSTANCE FakeAgent

(* None is no result of the deterministic agent either.                      *)
ASSUME BoundAssumption ==
    \A outcome \in Outcomes : None \notin {Fake!ResultFor(outcome), Fake!Incomplete}

(* The research that is not bound does not run, and neither does the stub.  A
   process with an UnboundProvider has no Run to model.                      *)
BoundInit ==
    /\ agent \in {BuildProvider(p) : p \in ProviderInputs} \ {"unbound"}
    /\ Init /\ Fake!Init
    /\ agent # "sidecar" => present = {}
    /\ agent # "fake" => fake.outcome = "grounded"

FakeRun == agent = "fake" /\ Fake!Next /\ UNCHANGED <<vars, agent>>
SidecarRun == agent = "sidecar" /\ Next /\ UNCHANGED <<agent, fake>>
BoundNext == FakeRun \/ SidecarRun

(* The event loop runs the stub on; the sidecar's fairness is WikiResearch's. *)
BoundFairness ==
    /\ WF_boundVars(agent = "fake" /\ Fake!Proceed /\ UNCHANGED <<vars, agent>>)
    /\ WF_boundVars(agent = "sidecar" /\ Proceed /\ UNCHANGED <<agent, fake>>)
BoundSpec == BoundInit /\ [][BoundNext]_boundVars /\ BoundFairness

-----------------------------------------------------------------------------
Bound(ofFake, ofSidecar) == IF agent = "fake" THEN ofFake ELSE ofSidecar

(* Whichever agent is bound, the application drives it as the same one: its
   steps come in the documented order and are at most three more than its tool
   calls, its text comes for sourced outcomes only, its result passes
   AgentResultV1, and whatever the model answers, or when the abort comes, it
   ends.                                                                     *)
Agent == INSTANCE AgentPort
    WITH steps <- Bound(fake.steps, state.steps), deltas <- Bound(fake.deltas, deltas),
         result <- Bound(fake.result, result), StepBudget <- MaxToolCalls + 3
ImplementsAgentPort == Agent!Spec
=============================================================================
