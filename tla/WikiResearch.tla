---------------------------- MODULE WikiResearch ----------------------------
(* One Run inside the sidecar (agent/run.mjs runAgent with the tools of
   agent/wiki-tools.mjs): research, in which a model calls Wiki tools and then
   decide, and compose, in which it writes the answer from the documents it
   named.  The agent library's loop is external: it calls the model, runs the
   tool calls of each answer in sequence and stops when there are none, when
   the model fails, or when a tool that terminates says so.                  *)
EXTENDS Integers, Sequences, FiniteSets, FiniteSetsExt, Contracts

CONSTANTS None,
          Documents, Index,     \* Wiki documents; index.md is one of them
          Cost,                 \* tokens of a whole document
          MaxToolCalls, MaxToolOutputTokens, MaxReadTokens,    \* AgentLimitsV1
          MaxBatch,             \* bound: tool calls in one answer of the model
          MaxText,              \* bound: tokens of the text a tool would return
          MaxDeltas             \* bound: pieces of one composed answer

ASSUME ResearchAssumption ==
    /\ Index \in Documents /\ None \notin Documents /\ Cost \in [Documents -> Nat]
    /\ {MaxToolCalls, MaxToolOutputTokens, MaxReadTokens, MaxBatch} \subseteq Nat \ {0}
    /\ {MaxText, MaxDeltas} \subseteq Nat
    \* None is no decision of the model and no result
    /\ None \notin [outcome : Outcomes, used : SUBSET Documents]
    /\ None \notin [outcome : Outcomes \cup {"wiki_unavailable", "context_overflow", "provider",
                                             "aborted"},
                    sources : SUBSET Documents, uncovered : BOOLEAN, truncated : BOOLEAN,
                    finish : {"stop", "length", "error"}]

VARIABLES
    phase,      \* where runAgent is
    state,      \* newRunState, with the steps emitted instead of their number
    turn,       \* the answer of the model whose tool calls are being run
    present,    \* documents there are in the Wiki now
    answer,     \* decisionOf's outcome, sources and uncovered
    seen,       \* ghost: documents that went into the composing request
    deltas,     \* pieces of the answer emitted
    result      \* None, then what the sidecar sends as final, error or aborted

vars == <<phase, state, turn, present, answer, seen, deltas, result>>

NoTurn == [left |-> 0, alone |-> FALSE, ending |-> FALSE, decideOnly |-> FALSE]
NewRunState ==
    [steps |-> <<>>, toolCalls |-> 0, toolOutputTokens |-> 0, limitHit |-> FALSE,
     reads |-> <<>>, decision |-> None, modelCalls |-> 0]

WikiGap == [outcome |-> "wiki_gap", sources |-> {}, uncovered |-> FALSE]

Reads(s) == {s.reads[i] : i \in DOMAIN s.reads}

Init ==
    /\ phase = "begin" /\ state = NewRunState /\ turn = NoTurn
    /\ present \in SUBSET Documents /\ answer = WikiGap /\ seen = {}
    /\ deltas = 0 /\ result = None

Final(a, finish) ==
    [outcome |-> a.outcome, sources |-> a.sources, uncovered |-> a.uncovered,
     truncated |-> state.limitHit, finish |-> finish]
Failed(cause) == [outcome |-> cause, sources |-> {}, uncovered |-> FALSE,
                  truncated |-> FALSE, finish |-> "error"]

(* final, error or aborted goes out and the Run is over.                     *)
Over(r) == phase' = "over" /\ result' = r

-----------------------------------------------------------------------------
(* The Run's bookkeeping, as functions of state.                             *)
EmitStep(s, kind, doc) == [s EXCEPT !.steps = Append(@, [kind |-> kind, doc |-> doc])]

LimitReached(s) ==
    s.limitHit \/ s.toolCalls >= MaxToolCalls \/ s.toolOutputTokens >= MaxToolOutputTokens

MarkLimit(s) ==
    IF s.limitHit THEN s ELSE EmitStep([s EXCEPT !.limitHit = TRUE], "limit_reached", None)

Admitted(s) == [s EXCEPT !.toolCalls = @ + 1]

(* fitTokens returns the text, or a beginning of it within the bound.        *)
Remaining(s) == MaxToolOutputTokens - s.toolOutputTokens
Cap(s) == IF Remaining(s) < MaxReadTokens THEN Remaining(s) ELSE MaxReadTokens
FitTokens(s, text) == IF text <= Cap(s) THEN {text} ELSE 0..Cap(s)

Charge(s, text, fitted) ==
    LET charged == [s EXCEPT !.toolOutputTokens = @ + fitted]
        cut == text > Cap(s) /\ Remaining(s) <= MaxReadTokens
    IN  IF cut \/ LimitReached(charged) THEN MarkLimit(charged) ELSE charged

-----------------------------------------------------------------------------
(* runAgent up to agent.prompt.                                              *)
Begin ==
    /\ phase = "begin"
    /\ \/ Index \notin present /\ Over(Failed("wiki_unavailable"))
       \/ Index \in present /\ Over(Failed("context_overflow"))
       \/ Index \in present /\ phase' = "model" /\ UNCHANGED result
    /\ UNCHANGED <<state, turn, present, answer, seen, deltas>>

(* guarded: every research call is re-counted, and their number is capped.   *)
CallModelFault_Uncapped ==
    /\ phase = "model"
    /\ phase' = "answering"
    /\ UNCHANGED <<state, turn, present, answer, seen, deltas, result>>
CallModel ==
    /\ phase = "model"
    /\ \/ /\ Over(Failed("context_overflow"))
          /\ UNCHANGED state
       \/ /\ state' = [state EXCEPT !.modelCalls = @ + 1]
          /\ IF state.modelCalls + 1 > MaxToolCalls + 2 THEN phase' = "runaway"
             ELSE phase' = "answering"
          /\ UNCHANGED result
    /\ UNCHANGED <<turn, present, answer, seen, deltas>>

(* The model fails, says something without calling a tool, or calls some.    *)
Answer ==
    /\ phase = "answering"
    /\ \/ Over(Failed("provider")) /\ UNCHANGED turn
       \/ phase' = "settle" /\ UNCHANGED <<turn, result>>
       \/ \E n \in 1..MaxBatch :
             /\ phase' = "tools"
             /\ turn' = [turn EXCEPT !.left = n, !.alone = n = 1, !.ending = FALSE]
             /\ UNCHANGED result
    /\ UNCHANGED <<state, present, answer, seen, deltas>>

-----------------------------------------------------------------------------
(* One tool call of the batch.  A call the library refuses, for its arguments
   or because only decide is offered, touches nothing.                       *)
Tool == phase = "tools" /\ turn.left > 0
Called == turn' = [turn EXCEPT !.left = @ - 1]
Offered == ~turn.decideOnly /\ ~LimitReached(state)
Rest == UNCHANGED <<phase, present, answer, seen, deltas, result>>

RefusedByLibrary == Tool /\ Called /\ UNCHANGED state /\ Rest

(* admit() refuses: no call is counted and no step but the limit's own.      *)
RefusedByLimit ==
    /\ Tool /\ ~turn.decideOnly /\ LimitReached(state)
    /\ state' = MarkLimit(state)
    /\ Called /\ Rest

WikiIndex ==
    /\ Tool /\ Offered
    /\ LET s == EmitStep(Admitted(state), "wiki_index", None)
       IN  \/ Index \notin present /\ state' = s
           \/ /\ Index \in present
              /\ \E f \in FitTokens(s, Cost[Index]) : state' = Charge(s, Cost[Index], f)
    /\ Called /\ Rest

(* A file that goes away while it is searched fails the call.                *)
WikiSearch ==
    /\ Tool /\ Offered
    /\ LET s == EmitStep(Admitted(state), "wiki_search", None)
       IN  \/ state' = s
           \/ \E text \in 0..MaxText : \E f \in FitTokens(s, text) : state' = Charge(s, text, f)
    /\ Called /\ Rest

(* A path that leads nowhere costs its call and announces nothing.           *)
WikiReadFault_NoteFirst(d) ==      \* noted as read before the path is resolved
    /\ Tool /\ Offered
    /\ state' = [Admitted(state) EXCEPT !.reads = IF d \in Reads(state) THEN @ ELSE Append(@, d)]
    /\ Called /\ Rest
WikiRead(d) ==
    /\ Tool /\ Offered
    /\ \/ d \notin present /\ state' = Admitted(state)
       \/ /\ d \in present
          /\ LET s == [EmitStep(Admitted(state), "wiki_read", d) EXCEPT
                          !.reads = IF d \in Reads(state) THEN @ ELSE Append(@, d)]
             IN  \E text \in 0..MaxText : \E f \in FitTokens(s, text) : state' = Charge(s, text, f)
    /\ Called /\ Rest

Decide(outcome, used) ==
    /\ Tool
    /\ \/ state.decision # None /\ Called /\ UNCHANGED state
       \/ /\ state.decision = None
          /\ state' = [EmitStep(state, "decide", None) EXCEPT
                          !.decision = [outcome |-> outcome, used |-> used]]
          /\ turn' = [turn EXCEPT !.left = @ - 1, !.ending = TRUE]
    /\ Rest

(* The batch is through.  A decision alone in it ends the loop; whether one
   among other calls does is the library's affair, and left open.  Otherwise
   prepareNextTurn takes the tools away once the limit is reached.           *)
EndTurn ==
    /\ phase = "tools" /\ turn.left = 0
    /\ \/ /\ turn.ending
          /\ phase' = "settle" /\ UNCHANGED <<state, turn>>
       \/ /\ ~(turn.ending /\ turn.alone)
          /\ phase' = "model"
          /\ IF state.decision = None /\ LimitReached(state)
             THEN state' = MarkLimit(state) /\ turn' = [turn EXCEPT !.decideOnly = TRUE]
             ELSE UNCHANGED <<state, turn>>
    /\ UNCHANGED <<present, answer, seen, deltas, result>>

-----------------------------------------------------------------------------
(* Only documents that were read, were named and are still there.            *)
DecisionOf ==
    LET d == state.decision
        sources == {doc \in Reads(state) : doc \in d.used /\ doc \in present}
    IN  IF d = None THEN WikiGap
        ELSE IF d.outcome \notin Sourced THEN [WikiGap EXCEPT !.outcome = d.outcome]
        ELSE IF sources = {} THEN WikiGap
        ELSE [outcome |-> d.outcome, sources |-> sources, uncovered |-> d.outcome = "partial"]

(* documentsBlock: in the order they were read, a document that does not fit
   in what the earlier ones left is skipped.                                 *)
Position(doc) == CHOOSE i \in DOMAIN state.reads : state.reads[i] = doc
InBlock(block, doc) ==
    LET earlier == {e \in block : Position(e) < Position(doc)}
    IN  MapThenSumSet(LAMBDA e : Cost[e], earlier \cup {doc}) <= MaxToolOutputTokens
IsBlock(block, sources) ==
    /\ block \subseteq sources
    /\ \A doc \in sources : doc \in block <=> InBlock(block, doc)

Cut(a, block) == [a EXCEPT !.sources = @ \cap block]

(* After agent.prompt: what to answer, and the composing request if any.     *)
Settle ==
    /\ phase \in {"settle", "runaway"}
    /\ LET a == IF phase = "runaway" THEN WikiGap ELSE DecisionOf
       IN  \/ /\ a.outcome \notin Sourced
              /\ Over(Final(a, "stop"))
              /\ UNCHANGED <<state, answer, seen>>
           \/ /\ a.outcome \in Sourced
              /\ \E block \in SUBSET a.sources :
                    /\ IsBlock(block, a.sources)
                    /\ IF Cut(a, block).sources = {}
                       THEN Over(Final(WikiGap, "stop")) /\ UNCHANGED <<state, answer, seen>>
                       ELSE /\ state' = EmitStep(state, "compose", None)
                            /\ answer' = Cut(a, block) /\ seen' = block
                            /\ \/ phase' = "compose" /\ UNCHANGED result
                               \/ Over(Failed("context_overflow"))
    /\ UNCHANGED <<turn, present, deltas>>

(* The composing call streams its text and ends, or fails.                   *)
TextDelta ==
    /\ phase = "compose" /\ deltas < MaxDeltas
    /\ deltas' = deltas + 1
    /\ UNCHANGED <<phase, state, turn, present, answer, seen, result>>

ComposeEnds ==
    /\ phase = "compose"
    /\ \/ \E finish \in {"stop", "length"} : Over(Final(answer, finish))
       \/ Over(Failed("provider"))
    /\ UNCHANGED <<state, turn, present, answer, seen, deltas>>

-----------------------------------------------------------------------------
(* From the moment its signal is set a Run emits nothing, and ends so.       *)
Abort ==
    /\ phase # "over"
    /\ Over(Failed("aborted"))
    /\ UNCHANGED <<state, turn, present, answer, seen, deltas>>

(* Files are read at call time and nothing here writes them: somebody else does. *)
EditWiki ==
    /\ phase # "over"
    /\ \E docs \in SUBSET Documents : present' = docs
    /\ UNCHANGED <<phase, state, turn, answer, seen, deltas, result>>

UseTool ==
    \/ RefusedByLibrary \/ RefusedByLimit \/ WikiIndex \/ WikiSearch
    \/ \E d \in Documents : WikiRead(d)
    \/ \E outcome \in Sourced, used \in SUBSET Documents : Decide(outcome, used)
    \/ \E outcome \in Outcomes \ Sourced : Decide(outcome, {})

Proceed ==
    \/ Begin \/ CallModel \/ Answer \/ UseTool \/ EndTurn \/ Settle
    \/ ComposeEnds

Next == Proceed \/ TextDelta \/ Abort \/ EditWiki

(* The model answers each call it is sent and the loop runs on.  A model that
   hangs is left to the Run's Deadline, whose abort is Generation's subject. *)
Fairness == WF_vars(Proceed)
Spec == Init /\ [][Next]_vars /\ Fairness

-----------------------------------------------------------------------------
(* AD-29, "an answer never cites a document compose did not see", and it saw
   none that no wiki_read step has announced, although documents come, go and
   fail to fit between the reading, the decision and the composing.          *)
AnswerCitesWhatItSaw ==
    result # None /\ result.sources # {} =>
        /\ result.sources \subseteq seen
        /\ \A doc \in seen :
              \E i \in DOMAIN state.steps : state.steps[i] = [kind |-> "wiki_read", doc |-> doc]

(* What the Run takes from the Wiki stays within its budget, however the cuts
   fall, and the model is asked at most max_tool_calls + 2 times.            *)
WithinBudget ==
    /\ state.toolCalls <= MaxToolCalls
    /\ state.toolOutputTokens <= MaxToolOutputTokens
    /\ state.modelCalls <= MaxToolCalls + 3
=============================================================================
