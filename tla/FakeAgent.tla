------------------------------ MODULE FakeAgent ------------------------------
(* The deterministic agent of the local_test profile (adapters/fake_agent.py):
   one Run of its default script, and an abort that it looks at between two
   callbacks.                                                                *)
EXTENDS Integers, Sequences, Contracts

CONSTANTS None,
          LocalTestDocument     \* concepts/local-test.md, the one it cites

VARIABLE fake       \* [outcome, steps, deltas, aborted, result]


Script(outcome) ==
    LET step(kind) == [kind |-> kind, doc |-> IF kind = "wiki_read" THEN LocalTestDocument ELSE None]
    IN  IF outcome \in Sourced
        THEN <<step("wiki_index"), step("wiki_read"), step("decide"), step("compose")>>
        ELSE <<step("wiki_index"), step("decide")>>
Chunks(outcome) == IF outcome \in Sourced THEN 1 ELSE 0
ResultFor(outcome) ==
    [outcome |-> outcome, sources |-> IF outcome \in Sourced THEN {LocalTestDocument} ELSE {},
     uncovered |-> outcome = "partial", truncated |-> FALSE, finish |-> "stop"]
Incomplete == [outcome |-> "provider_incomplete", sources |-> {}, uncovered |-> FALSE,
               truncated |-> FALSE, finish |-> "error"]

Started(outcome) ==
    [outcome |-> outcome, steps |-> <<>>, deltas |-> 0, aborted |-> FALSE, result |-> None]
Init == \E outcome \in Outcomes : fake = Started(outcome)

Told == Len(fake.steps) = Len(Script(fake.outcome))
Running == fake.result = None /\ ~fake.aborted

OnStep ==
    /\ Running /\ ~Told
    /\ fake' = [fake EXCEPT !.steps = Append(@, Script(fake.outcome)[Len(@) + 1])]
OnDelta ==
    /\ Running /\ Told /\ fake.deltas < Chunks(fake.outcome)
    /\ fake' = [fake EXCEPT !.deltas = @ + 1]
Finish ==
    /\ Running /\ Told /\ fake.deltas = Chunks(fake.outcome)
    /\ fake' = [fake EXCEPT !.result = ResultFor(fake.outcome)]
Abort ==
    /\ Running
    /\ fake' = [fake EXCEPT !.aborted = TRUE]
Interrupted ==
    /\ fake.result = None /\ fake.aborted
    /\ fake' = [fake EXCEPT !.result = Incomplete]

Proceed == OnStep \/ OnDelta \/ Finish \/ Interrupted
Next == Proceed \/ Abort
Spec == Init /\ [][Next]_fake /\ WF_fake(Proceed)
=============================================================================
