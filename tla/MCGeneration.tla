---------------------------- MODULE MCGeneration ----------------------------
(* One or two POST requests to one Conversation, and one or two threads that
   poll and cancel.                                                          *)
EXTENDS Generation, TLC

CONSTANTS r1, r2, k1, k2, c1, c2

MCOneRun == {r1}
MCTwoRuns == {r1, r2}
MCOneKey == {k1}
MCKeys == {k1, k2}
MCOneClient == {c1}
MCTwoClients == {c1, c2}
MCSymmetry == Permutations(Runs) \cup Permutations(Keys)
=============================================================================
