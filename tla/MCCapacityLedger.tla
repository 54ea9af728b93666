-------------------------- MODULE MCCapacityLedger --------------------------
(* Five leases of two conversations: one conversation can reach its own
   ceiling while the other still has room, and both can fill the process.    *)
EXTENDS CapacityLedger, TLC

CONSTANTS l1, l2, l3, l4, l5, c1, c2

MCLeases == {l1, l2, l3, l4, l5}
MCConversations == {c1, c2}
MCConv == [l \in MCLeases |-> IF l \in {l1, l2, l3} THEN c1 ELSE c2]
=============================================================================
