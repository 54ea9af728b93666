--------------------------- MODULE MCEventStream ---------------------------
(* One Run with a body of up to two events, and two requests for one slot: one that reads
   from the start, one that resumes where the shortest logs have already ended. *)
EXTENDS EventStream

CONSTANTS r1, k1, c1, q1, q2

MCRuns == {r1}
MCKeys == {k1}
MCContents == {c1}
MCRequests == {q1, q2}
MCCursors == [q \in MCRequests |-> IF q = q1 THEN {0} ELSE {4}]
MCShortText == {[raw |-> 1, json |-> 1]}
=============================================================================
