--------------------------- MODULE MCConversation ---------------------------
(* One question and its Retries, or two questions and a Retry, each with its
   own key, and logs that have room for the end and one event more.  The larger
   text fits no log, the smaller one does.                                   *)
EXTENDS Conversation, TLC

CONSTANTS r1, r2, r3, k1, k2, k3, c1

MCThreeRuns == {r1, r2, r3}
MCThreeKeys == {k1, k2, k3}
MCContents == {c1}
MCTexts == {[raw |-> 1, json |-> 1], [raw |-> 1, json |-> 3]}
MCSymmetry == Permutations(Runs) \cup Permutations(Keys)
=============================================================================
