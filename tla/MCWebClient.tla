---------------------------- MODULE MCWebClient ----------------------------
(* One tab, one Run with a body of up to two events. *)
EXTENDS WebClient

CONSTANTS r1, k1, c1, q1, q2

MCRuns == {r1}
MCKeys == {k1}
MCContents == {c1}
MCRequests == {q1, q2}
MCCursors == [q \in MCRequests |-> {0}]
MCShortText == {[raw |-> 1, json |-> 1]}
=============================================================================
