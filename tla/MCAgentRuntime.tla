--------------------------- MODULE MCAgentRuntime ---------------------------
(* A Run and two probes that may all find the child dead, and one successor. *)
EXTENDS AgentRuntime

CONSTANTS r1, p1, p2

MCRuns == {r1}
MCProbes == {p1, p2}
=============================================================================
