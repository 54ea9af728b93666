---------------------------- MODULE MCBoundAgent ----------------------------
(* The index and a document that does not fit beside it, both of which come
   and go, and two tool calls before the limit, in answers of one or two.    *)
EXTENDS BoundAgent, TLC

CONSTANTS index, doc

MCDocuments == {index, doc}
MCCost == (index :> 1) @@ (doc :> 2)
=============================================================================
