------------------------- MODULE MCConversationStore -------------------------
(* Two Conversations for one place in the Store, two request threads, and room
   for a second Sweeper that must never run beside the first.                *)
EXTENDS ConversationStore

CONSTANTS c1, c2, t1, t2, s1, s2

MCIds == {c1, c2}
MCThreads == {t1, t2}
MCSweepers == {s1, s2}
=============================================================================
