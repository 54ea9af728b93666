------------------------------ MODULE AgentPort ------------------------------
(* What ChatApplication takes for granted of whatever answers one Run behind
   AgentRuntimePort (application AgentRuntimePort, contracts AgentStepV1 and
   AgentResultV1, on_step, on_delta and the checks _generate makes of a result):
   steps in the documented order and within a budget, model text for a sourced
   outcome only, sources among the documents a step announced, and one end.  *)
EXTENDS Integers, Sequences, SequencesExt, Contracts

CONSTANTS None,
          StepBudget      \* AD-29: as many steps as a Run may announce

VARIABLES steps,    \* announced so far: [kind, doc]
          deltas,   \* pieces of model text passed on
          result    \* None, then the one end of the Run

vars == <<steps, deltas, result>>

ToolKinds == {"wiki_index", "wiki_search", "wiki_read"}
Kinds == ToolKinds \cup {"decide", "compose", "limit_reached"}

At(log, kind) == {i \in DOMAIN log : log[i].kind = kind}
ReadIn(log) == {log[i].doc : i \in At(log, "wiki_read")}

(* The reference's rules of a log of steps: the limit is announced once and no
   tool is used after it; one decision; composing comes once, last, and after
   the decision.                                                             *)
WellFormed(log) ==
    /\ Len(log) <= StepBudget
    /\ \A i, j \in DOMAIN log : i < j =>
          /\ log[i].kind # "compose"
          /\ log[i].kind = "limit_reached" => log[j].kind \notin ToolKinds
          /\ log[i].kind = log[j].kind => log[i].kind \in ToolKinds
    /\ \A j \in At(log, "compose") : \E i \in At(log, "decide") : i < j

(* AgentResultV1, and what the result says of the Run it ends.               *)
Valid(log, r) ==
    /\ CheckOutcomeFields(r)
    /\ r.outcome \in Sourced <=> At(log, "compose") # {}
    /\ r.sources \subseteq ReadIn(log)
    /\ r.truncated <=> At(log, "limit_reached") # {}

Init == steps = <<>> /\ deltas = 0 /\ result = None

Announced == IsPrefix(steps, steps') /\ WellFormed(steps')

Announce ==
    /\ result = None /\ result' = None
    /\ steps' # steps /\ Announced
    /\ UNCHANGED deltas

(* Fixed outcomes never carry model text: a delta comes after composing began. *)
Delta ==
    /\ result = None /\ result' = None
    /\ At(steps, "compose") # {}
    /\ deltas' = deltas + 1
    /\ UNCHANGED steps

End ==
    /\ result = None /\ result' # None
    /\ Announced
    /\ result'.finish # "error" => Valid(steps', result')
    /\ UNCHANGED deltas

Next == Announce \/ Delta \/ End

Safety == Init /\ [][Next]_vars
Spec == Safety /\ <>(result # None)
=============================================================================
