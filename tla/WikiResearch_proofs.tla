------------------------ MODULE WikiResearch_proofs ------------------------
(* What one Run of the research never does, for every Wiki, every budget and
   every model: cite a document the composing request did not carry or no step
   announced, and pass its budget.  And that whichever agent is bound, the
   application sees the machine AgentPort describes.                         *)
EXTENDS BoundAgent, TLAPS

Kinds == {"wiki_index", "wiki_search", "wiki_read", "decide", "compose", "limit_reached"}
StepType == [kind : Kinds, doc : Documents \cup {None}]
StateType ==
    [steps : Seq(StepType), toolCalls : Nat, toolOutputTokens : Nat, limitHit : BOOLEAN,
     reads : Seq(Documents), decision : [outcome : Outcomes, used : SUBSET Documents] \cup {None},
     modelCalls : Nat]

(* Every document noted as read was announced as read.                       *)
Read(s, d) == \E j \in DOMAIN s.steps : s.steps[j] = [kind |-> "wiki_read", doc |-> d]
ReadsAnnounced(s) == \A d \in Reads(s) : Read(s, d)

Sound(s) ==
    /\ s \in StateType
    /\ ReadsAnnounced(s)
    /\ s.toolCalls <= MaxToolCalls
    /\ s.toolOutputTokens <= MaxToolOutputTokens

Researching == {"begin", "model", "answering", "tools", "settle"}

IInv ==
    /\ Sound(state)
    /\ phase \in Researching \cup {"runaway", "compose", "over"}
    /\ phase \in Researching => state.modelCalls <= MaxToolCalls + 2
    /\ state.modelCalls <= MaxToolCalls + 3
    /\ \A d \in seen : Read(state, d)
    /\ phase = "compose" => answer.sources \subseteq seen
    /\ phase # "over" => result = None
    /\ result # None => result.sources \subseteq seen

-----------------------------------------------------------------------------
(* The bookkeeping keeps a sound state sound.                                *)
LEMMA EmitSound ==
    ASSUME NEW s, Sound(s), NEW kind \in Kinds, NEW doc \in Documents \cup {None}
    PROVE  LET t == EmitStep(s, kind, doc)
           IN  /\ Sound(t) /\ t.modelCalls = s.modelCalls
               /\ t.toolCalls = s.toolCalls /\ t.reads = s.reads
               /\ t.toolOutputTokens = s.toolOutputTokens
               /\ \A d : Read(s, d) => Read(t, d)
               /\ kind = "wiki_read" => Read(t, doc)
<1> DEFINE step == [kind |-> kind, doc |-> doc]
           t == [s EXCEPT !.steps = Append(@, step)]
<1>0. step \in StepType /\ s \in StateType /\ s.steps \in Seq(StepType)
  BY DEF StepType, Sound, StateType
<1>1. t \in StateType
  <2>1. Append(s.steps, step) \in Seq(StepType)
    BY <1>0
  <2> QED  BY <1>0, <2>1 DEF StateType
<1>2. /\ t.modelCalls = s.modelCalls /\ t.toolCalls = s.toolCalls /\ t.reads = s.reads
      /\ t.toolOutputTokens = s.toolOutputTokens /\ t.steps = Append(s.steps, step)
  BY <1>0 DEF StateType
<1>3. /\ \A j \in DOMAIN s.steps : j \in DOMAIN t.steps /\ t.steps[j] = s.steps[j]
      /\ Len(s.steps) + 1 \in DOMAIN t.steps /\ t.steps[Len(s.steps) + 1] = step
  BY <1>0, <1>2
<1>4. \A d : Read(s, d) => Read(t, d)
  BY <1>3 DEF Read
<1>5. kind = "wiki_read" => Read(t, doc)
  BY <1>3 DEF Read
<1>6. Sound(t)
  BY <1>1, <1>2, <1>4 DEF Sound, ReadsAnnounced, Reads
<1> QED  BY <1>2, <1>4, <1>5, <1>6 DEF EmitStep

(* Fields that only the counters' steps move.                                *)
SameResearch(s, t) ==
    /\ t.steps = s.steps /\ t.reads = s.reads /\ t.modelCalls = s.modelCalls

LEMMA SameKeeps ==
    ASSUME NEW s, NEW t, Sound(s), t \in StateType, SameResearch(s, t),
           t.toolCalls <= MaxToolCalls, t.toolOutputTokens <= MaxToolOutputTokens
    PROVE  Sound(t) /\ \A d : Read(s, d) => Read(t, d)
BY DEF Sound, SameResearch, ReadsAnnounced, Reads, Read

(* t is s with more announced, and no call to the model more.                *)
Follows(s, t) ==
    /\ Sound(t) /\ t.modelCalls = s.modelCalls
    /\ \A d : Read(s, d) => Read(t, d)

LEMMA MarkSound == ASSUME NEW s, Sound(s) PROVE Follows(s, MarkLimit(s))
<1>1. CASE s.limitHit
  BY <1>1 DEF MarkLimit, Follows
<1>2. CASE ~s.limitHit
  <2> DEFINE hit == [s EXCEPT !.limitHit = TRUE]
  <2>1. hit \in StateType /\ SameResearch(s, hit) /\ hit.toolCalls = s.toolCalls
        /\ hit.toolOutputTokens = s.toolOutputTokens
    BY DEF Sound, StateType, SameResearch
  <2>2. Sound(hit) /\ (\A d : Read(s, d) => Read(hit, d)) /\ hit.modelCalls = s.modelCalls
    BY <2>1, SameKeeps DEF Sound, SameResearch
  <2>3. "limit_reached" \in Kinds
    BY DEF Kinds
  <2>4. MarkLimit(s) = EmitStep(hit, "limit_reached", None)
    BY <1>2 DEF MarkLimit
  <2>5. LET t == EmitStep(hit, "limit_reached", None)
        IN  Sound(t) /\ t.modelCalls = hit.modelCalls /\ \A d : Read(hit, d) => Read(t, d)
    <3> HIDE DEF hit
    <3> QED  BY <2>2, <2>3, EmitSound
  <2> QED  BY <2>2, <2>4, <2>5 DEF Follows
<1> QED  BY <1>1, <1>2

LEMMA AdmitSound ==
    ASSUME NEW s, Sound(s), ~LimitReached(s)
    PROVE  Follows(s, Admitted(s))
<1> DEFINE t == [s EXCEPT !.toolCalls = @ + 1]
<1>1. /\ t \in StateType /\ SameResearch(s, t) /\ t.toolCalls = s.toolCalls + 1
      /\ t.toolOutputTokens = s.toolOutputTokens
  BY DEF Sound, StateType, SameResearch
<1>2. t.toolCalls <= MaxToolCalls
  BY <1>1, ResearchAssumption DEF Sound, LimitReached, StateType
<1> QED  BY <1>1, <1>2, SameKeeps DEF Follows, Admitted, Sound, SameResearch

(* However the cut falls, what is charged is no more than what was left.     *)
LEMMA ChargeSound ==
    ASSUME NEW s, Sound(s), NEW text \in Nat, NEW f \in FitTokens(s, text)
    PROVE  Follows(s, Charge(s, text, f))
<1> DEFINE t == [s EXCEPT !.toolOutputTokens = @ + f]
<1>1. s.toolOutputTokens \in Nat /\ s.toolOutputTokens <= MaxToolOutputTokens
  BY DEF Sound, StateType
<1>2. Cap(s) \in Nat /\ Cap(s) <= MaxToolOutputTokens - s.toolOutputTokens
  BY <1>1, ResearchAssumption DEF Cap, Remaining
<1>3. f \in Nat /\ f <= Cap(s)
  BY <1>2 DEF FitTokens
<1>4. /\ t \in StateType /\ SameResearch(s, t) /\ t.toolCalls = s.toolCalls
      /\ t.toolOutputTokens = s.toolOutputTokens + f
  BY <1>3 DEF Sound, StateType, SameResearch
<1>5. t.toolOutputTokens <= MaxToolOutputTokens
  BY <1>1, <1>2, <1>3, <1>4, ResearchAssumption
<1>6. Follows(s, t)
  BY <1>4, <1>5, SameKeeps DEF Follows, Sound, SameResearch
<1>7. Follows(t, MarkLimit(t))
  BY <1>6, MarkSound DEF Follows
<1>8. Follows(s, MarkLimit(t))
  BY <1>6, <1>7 DEF Follows
<1> QED  BY <1>6, <1>8 DEF Charge

(* A document that is noted as read is announced in the same breath.         *)
LEMMA ReadSound ==
    ASSUME NEW s, Sound(s), NEW d \in Documents
    PROVE  Follows(s, [EmitStep(s, "wiki_read", d) EXCEPT
                          !.reads = IF d \in Reads(s) THEN @ ELSE Append(@, d)])
<1> DEFINE t == EmitStep(s, "wiki_read", d)
           reads == IF d \in Reads(s) THEN t.reads ELSE Append(t.reads, d)
           u == [t EXCEPT !.reads = reads]
<1>1. /\ Sound(t) /\ t.modelCalls = s.modelCalls /\ t.reads = s.reads
      /\ (\A e : Read(s, e) => Read(t, e)) /\ Read(t, d)
  <2>1. "wiki_read" \in Kinds
    BY DEF Kinds
  <2> QED  BY <2>1, EmitSound
<1> HIDE DEF t
<1>2. t \in StateType /\ t.reads \in Seq(Documents)
  BY <1>1 DEF Sound, StateType
<1>3. reads \in Seq(Documents)
  BY <1>2
<1>4. /\ u \in StateType /\ u.reads = reads /\ u.steps = t.steps /\ u.toolCalls = t.toolCalls
      /\ u.toolOutputTokens = t.toolOutputTokens /\ u.modelCalls = t.modelCalls
  BY <1>2, <1>3 DEF StateType
<1>5. \A i \in DOMAIN reads : reads[i] = d \/ reads[i] \in Reads(t)
  BY <1>2 DEF Reads
<1>6. \A e \in Reads(u) : Read(u, e)
  BY <1>1, <1>4, <1>5 DEF Reads, Sound, ReadsAnnounced, Read
<1>7. Sound(u) /\ \A e : Read(t, e) => Read(u, e)
  BY <1>1, <1>4, <1>6 DEF Sound, ReadsAnnounced, Read
<1>8. Follows(s, u)
  BY <1>1, <1>4, <1>7 DEF Follows
<1> QED  BY <1>8 DEF t

LEMMA FollowsTransitive ==
    ASSUME NEW s, NEW t, NEW u, Follows(s, t), Follows(t, u)
    PROVE  Follows(s, u)
BY DEF Follows

-----------------------------------------------------------------------------
(* A step that leaves the answer alone and makes state only follow.          *)
LEMMA ResearchStep ==
    ASSUME IInv, Follows(state, state'), phase' \in Researching, phase \in Researching,
           UNCHANGED <<seen, answer, result>>
    PROVE  IInv'
<1>1. phase' # "compose" /\ phase' # "over" /\ phase # "over"
  BY DEF Researching
<1> QED  BY <1>1 DEF IInv, Follows, Sound, Read

(* One that ends the Run with nothing to cite.                               *)
LEMMA FailsEmpty ==
    ASSUME IInv, UNCHANGED <<state, seen, answer>>, NEW r, Over(r), r.sources = {}
    PROVE  IInv'
<1>1. phase' = "over" /\ "over" \notin Researching
  BY DEF Over, Researching
<1> QED  BY <1>1 DEF IInv, Over, Sound, Read

LEMMA SameFollows == ASSUME Sound(state), UNCHANGED state PROVE Follows(state, state')
BY DEF Follows

-----------------------------------------------------------------------------
LEMMA InitSound == Init => IInv
<1>1. NewRunState \in StateType
  BY DEF NewRunState, StateType
<1>2. Sound(NewRunState)
  BY <1>1, ResearchAssumption DEF Sound, ReadsAnnounced, Reads, NewRunState
<1> QED  BY <1>2, ResearchAssumption DEF Init, IInv, Researching, NewRunState

LEMMA BeginKeeps == IInv /\ Begin => IInv'
<1> SUFFICES ASSUME IInv, Begin PROVE IInv'
  OBVIOUS
<1>1. \A cause : Failed(cause).sources = {}
  BY DEF Failed
<1>2. CASE phase' = "model" /\ UNCHANGED result
  BY <1>2, SameFollows, ResearchStep DEF Begin, Researching, IInv
<1>3. CASE \E cause : Over(Failed(cause))
  BY <1>1, <1>3, FailsEmpty DEF Begin
<1> QED  BY <1>2, <1>3 DEF Begin

LEMMA CallModelKeeps == IInv /\ CallModel => IInv'
<1> SUFFICES ASSUME IInv, CallModel PROVE IInv'
  OBVIOUS
<1>1. CASE Over(Failed("context_overflow")) /\ UNCHANGED state
  BY <1>1, FailsEmpty DEF CallModel, Failed
<1>2. CASE /\ state' = [state EXCEPT !.modelCalls = @ + 1]
           /\ IF state.modelCalls + 1 > MaxToolCalls + 2 THEN phase' = "runaway"
              ELSE phase' = "answering"
           /\ UNCHANGED result
  <2>0. state' = [state EXCEPT !.modelCalls = @ + 1] /\ state \in StateType
    BY <1>2 DEF IInv, Sound
  <2>1. /\ state' \in StateType /\ state'.modelCalls = state.modelCalls + 1
        /\ state'.steps = state.steps /\ state'.reads = state.reads
        /\ state'.toolCalls = state.toolCalls
        /\ state'.toolOutputTokens = state.toolOutputTokens
    BY <2>0 DEF StateType
  <2>2. Sound(state') /\ \A d : Read(state, d) => Read(state', d)
    BY <2>1 DEF IInv, Sound, ReadsAnnounced, Reads, Read
  <2>3. state.modelCalls \in Nat /\ state.modelCalls <= MaxToolCalls + 2
    BY DEF IInv, CallModel, Researching, Sound, StateType
  <2>4. /\ phase' \in {"runaway", "answering"}
        /\ phase' = "answering" => state'.modelCalls <= MaxToolCalls + 2
        /\ state'.modelCalls <= MaxToolCalls + 3
    BY <1>2, <2>1, <2>3, ResearchAssumption
  <2> QED  BY <1>2, <2>2, <2>4 DEF IInv, CallModel, Researching
<1> QED  BY <1>1, <1>2 DEF CallModel

LEMMA AnswerKeeps == IInv /\ Answer => IInv'
<1> SUFFICES ASSUME IInv, Answer PROVE IInv'
  OBVIOUS
<1>1. CASE Over(Failed("provider"))
  BY <1>1, FailsEmpty DEF Answer, Failed
<1>2. CASE phase' \in {"settle", "tools"} /\ UNCHANGED result
  BY <1>2, SameFollows, ResearchStep DEF Answer, Researching, IInv
<1> QED  BY <1>1, <1>2 DEF Answer

(* Every tool call goes by ResearchStep.                                     *)
LEMMA ToolStep ==
    ASSUME IInv, Tool, Rest, Follows(state, state') PROVE IInv'
BY ResearchStep DEF Tool, Rest, Researching

LEMMA UseToolKeeps == IInv /\ UseTool => IInv'
<1> SUFFICES ASSUME IInv, UseTool PROVE IInv'
  OBVIOUS
<1>0. Sound(state)
  BY DEF IInv
<1>1. CASE RefusedByLibrary
  BY <1>0, <1>1, SameFollows, ToolStep DEF RefusedByLibrary
<1>2. CASE RefusedByLimit
  BY <1>0, <1>2, MarkSound, ToolStep DEF RefusedByLimit
<1>a. ASSUME Offered
      PROVE  /\ Follows(state, Admitted(state)) /\ Sound(Admitted(state))
  BY <1>0, <1>a, AdmitSound DEF Offered, Follows
<1>b. ASSUME NEW s, Follows(state, s), NEW text \in Nat, NEW f \in FitTokens(s, text)
      PROVE  Follows(state, Charge(s, text, f))
  <2>1. Follows(s, Charge(s, text, f))
    BY <1>b, ChargeSound DEF Follows
  <2> QED  BY <1>b, <2>1, FollowsTransitive
<1>c. ASSUME Offered, NEW kind \in Kinds
      PROVE  Follows(state, EmitStep(Admitted(state), kind, None))
  <2>1. Follows(Admitted(state), EmitStep(Admitted(state), kind, None))
    BY <1>a, <1>c, EmitSound DEF Follows
  <2> QED  BY <1>a, <1>c, <2>1, FollowsTransitive
<1>3. CASE WikiIndex
  <2>1. Follows(state, EmitStep(Admitted(state), "wiki_index", None))
    BY <1>3, <1>c DEF WikiIndex, Kinds
  <2>2. Cost[Index] \in Nat
    BY ResearchAssumption
  <2>3. Follows(state, state')
    BY <1>3, <1>b, <2>1, <2>2 DEF WikiIndex
  <2> QED  BY <1>3, <2>3, ToolStep DEF WikiIndex
<1>4. CASE WikiSearch
  <2>1. Follows(state, EmitStep(Admitted(state), "wiki_search", None))
    BY <1>4, <1>c DEF WikiSearch, Kinds
  <2>2. 0..MaxText \subseteq Nat
    BY ResearchAssumption
  <2>3. Follows(state, state')
    BY <1>4, <1>b, <2>1, <2>2 DEF WikiSearch
  <2> QED  BY <1>4, <2>3, ToolStep DEF WikiSearch
<1>5. ASSUME NEW d \in Documents, WikiRead(d) PROVE IInv'
  <2>1. Follows(state, Admitted(state)) /\ Sound(Admitted(state))
    BY <1>5, <1>a DEF WikiRead
  <2> DEFINE s == [EmitStep(Admitted(state), "wiki_read", d) EXCEPT
                      !.reads = IF d \in Reads(state) THEN @ ELSE Append(@, d)]
  <2>2. Reads(Admitted(state)) = Reads(state)
    BY <1>0 DEF Reads, Admitted, Sound, StateType
  <2>3. Follows(state, s)
    <3>1. Follows(Admitted(state), s)
      BY <2>1, <2>2, ReadSound
    <3> QED  BY <2>1, <3>1, FollowsTransitive
  <2>4. 0..MaxText \subseteq Nat
    BY ResearchAssumption
  <2>5. \/ state' = Admitted(state)
        \/ \E text \in 0..MaxText : \E f \in FitTokens(s, text) : state' = Charge(s, text, f)
    BY <1>5 DEF WikiRead
  <2>6. Follows(state, state')
    <3> HIDE DEF s
    <3> QED  BY <1>b, <2>1, <2>3, <2>4, <2>5
  <2> QED  BY <1>5, <2>6, ToolStep DEF WikiRead
<1>6. ASSUME NEW outcome \in Outcomes, NEW used \in SUBSET Documents, Decide(outcome, used)
      PROVE  IInv'
  <2> DEFINE t == EmitStep(state, "decide", None)
  <2>1. Follows(state, t)
    <3>1. "decide" \in Kinds
      BY DEF Kinds
    <3> QED  BY <1>0, <3>1, EmitSound DEF Follows
  <2> HIDE DEF t
  <2>2. ASSUME state' = [t EXCEPT !.decision = [outcome |-> outcome, used |-> used]]
        PROVE  Follows(state, state')
    <3>1. /\ state' \in StateType /\ SameResearch(t, state') /\ state'.toolCalls = t.toolCalls
          /\ state'.toolOutputTokens = t.toolOutputTokens
      BY <2>1, <2>2 DEF Follows, Sound, StateType, SameResearch
    <3>2. Follows(t, state')
      BY <2>1, <3>1, SameKeeps DEF Follows, Sound, SameResearch
    <3> QED  BY <2>1, <3>2, FollowsTransitive
  <2>3. Follows(state, state')
    BY <1>0, <1>6, <2>2, SameFollows DEF Decide, t
  <2> QED  BY <1>6, <2>3, ToolStep DEF Decide
<1> QED  BY <1>1, <1>2, <1>3, <1>4, <1>5, <1>6 DEF UseTool, Sourced, Outcomes

LEMMA EndTurnKeeps == IInv /\ EndTurn => IInv'
<1> SUFFICES ASSUME IInv, EndTurn PROVE IInv'
  OBVIOUS
<1>1. Follows(state, state')
  BY MarkSound, SameFollows DEF EndTurn, IInv
<1> QED  BY <1>1, ResearchStep DEF EndTurn, Researching

-----------------------------------------------------------------------------
(* The end of a Run, citing what was seen.                                   *)
LEMMA OverKeeps ==
    ASSUME IInv, Follows(state, state'), NEW r, Over(r),
           \A d \in seen' : Read(state', d), r.sources \subseteq seen'
    PROVE  IInv'
<1>1. phase' = "over" /\ result' = r /\ "over" \notin Researching
  BY DEF Over, Researching
<1> QED  BY <1>1 DEF IInv, Follows

(* Whatever was decided, only documents that were read are to be cited, and
   an outcome that needs no document cites none.                             *)
LEMMA DecisionCitesReads ==
    ASSUME Sound(state)
    PROVE  /\ DecisionOf.sources \subseteq Reads(state)
           /\ DecisionOf.outcome \notin Sourced => DecisionOf.sources = {}
<1>1. CASE state.decision = None
  BY <1>1 DEF DecisionOf, WikiGap
<1>2. CASE state.decision # None /\ state.decision.outcome \notin Sourced
  BY <1>2 DEF DecisionOf, WikiGap
<1>3. CASE state.decision # None /\ state.decision.outcome \in Sourced
  BY <1>3 DEF DecisionOf, WikiGap
<1> QED  BY <1>1, <1>2, <1>3

LEMMA SettleKeeps == IInv /\ Settle => IInv'
<1> SUFFICES ASSUME IInv, Settle PROVE IInv'
  OBVIOUS
<1> DEFINE a == IF phase = "runaway" THEN WikiGap ELSE DecisionOf
<1>0. /\ Sound(state)
      /\ a.sources \subseteq Reads(state)
      /\ a.outcome \notin Sourced => a.sources = {}
  BY DecisionCitesReads DEF IInv, WikiGap
<1>1. WikiGap.sources = {} /\ \A cause : Failed(cause).sources = {}
  BY DEF WikiGap, Failed
<1>2. \A b, finish : Final(b, finish).sources = b.sources
  BY DEF Final
<1>3. CASE a.outcome \notin Sourced /\ Over(Final(a, "stop")) /\ UNCHANGED <<state, answer, seen>>
  <2>1. Follows(state, state') /\ Final(a, "stop").sources = {}
    BY <1>0, <1>2, <1>3, SameFollows
  <2>2. \A d \in seen' : Read(state', d)
    BY <1>3 DEF IInv, Read
  <2> QED  BY <1>3, <2>1, <2>2, OverKeeps
<1>4. ASSUME NEW block \in SUBSET a.sources,
             Cut(a, block).sources = {}, Over(Final(WikiGap, "stop")),
             UNCHANGED <<state, answer, seen>>
      PROVE  IInv'
  <2>1. Follows(state, state') /\ Final(WikiGap, "stop").sources = {}
    BY <1>0, <1>1, <1>2, <1>4, SameFollows
  <2>2. \A d \in seen' : Read(state', d)
    BY <1>4 DEF IInv, Read
  <2> QED  BY <1>4, <2>1, <2>2, OverKeeps
<1>5. ASSUME NEW block \in SUBSET a.sources,
             state' = EmitStep(state, "compose", None),
             answer' = Cut(a, block), seen' = block,
             \/ phase' = "compose" /\ UNCHANGED result
             \/ Over(Failed("context_overflow"))
      PROVE  IInv'
  <2>1. Follows(state, state')
    <3>1. "compose" \in Kinds
      BY DEF Kinds
    <3> QED  BY <1>0, <1>5, <3>1, EmitSound DEF Follows
  <2>2. \A d \in seen' : Read(state', d)
    BY <1>0, <1>5, <2>1 DEF Sound, ReadsAnnounced, Follows
  <2>3. CASE Over(Failed("context_overflow"))
    BY <1>1, <2>1, <2>2, <2>3, OverKeeps
  <2>4. CASE phase' = "compose" /\ UNCHANGED result
    <3>1. answer'.sources \subseteq seen'
      BY <1>5 DEF Cut, DecisionOf, WikiGap
    <3>2. phase # "over" /\ "compose" \notin Researching
      BY DEF Settle, Researching
    <3> QED  BY <2>1, <2>2, <2>4, <3>1, <3>2 DEF IInv, Follows
  <2> QED  BY <1>5, <2>3, <2>4
<1> QED  BY <1>3, <1>4, <1>5 DEF Settle

LEMMA ComposeEndsKeeps == IInv /\ ComposeEnds => IInv'
<1> SUFFICES ASSUME IInv, ComposeEnds PROVE IInv'
  OBVIOUS
<1>1. /\ Follows(state, state') /\ (\A d \in seen' : Read(state', d))
      /\ answer.sources \subseteq seen'
  BY SameFollows DEF ComposeEnds, IInv, Read
<1>2. CASE Over(Failed("provider"))
  BY <1>1, <1>2, OverKeeps DEF Failed
<1>3. ASSUME NEW finish, Over(Final(answer, finish)) PROVE IInv'
  <2>1. Final(answer, finish).sources = answer.sources
    BY DEF Final
  <2> QED  BY <1>1, <1>3, <2>1, OverKeeps
<1> QED  BY <1>2, <1>3 DEF ComposeEnds

LEMMA AbortKeeps == IInv /\ Abort => IInv'
BY FailsEmpty DEF Abort, Failed

LEMMA StepKeeps == IInv /\ [Next]_vars => IInv'
<1> SUFFICES ASSUME IInv, [Next]_vars PROVE IInv'
  OBVIOUS
<1>1. CASE Proceed
  BY <1>1, BeginKeeps, CallModelKeeps, AnswerKeeps, UseToolKeeps, EndTurnKeeps, SettleKeeps,
     ComposeEndsKeeps DEF Proceed
<1>2. CASE TextDelta
  BY <1>2 DEF TextDelta, IInv, Sound, Read, ReadsAnnounced, Reads
<1>3. CASE Abort
  BY <1>3, AbortKeeps
<1>4. CASE EditWiki
  BY <1>4 DEF EditWiki, IInv, Sound, Read, ReadsAnnounced, Reads
<1>5. CASE UNCHANGED vars
  BY <1>5 DEF vars, IInv, Sound, Read, ReadsAnnounced, Reads
<1> QED  BY <1>1, <1>2, <1>3, <1>4, <1>5 DEF Next

LEMMA Inductive == Spec => []IInv
BY InitSound, StepKeeps, PTL DEF Spec

-----------------------------------------------------------------------------
(* AD-29 for every Wiki and model: an answer cites only documents its own
   composing request carried, each announced by a wiki_read step.            *)
THEOREM AnswersAreSourced == Spec => []AnswerCitesWhatItSaw
<1>1. IInv => AnswerCitesWhatItSaw
  BY DEF IInv, AnswerCitesWhatItSaw, Read
<1> QED  BY <1>1, Inductive, PTL

(* AD-30 for every budget: tool calls, tokens taken from the Wiki and calls to
   the model stay within it, however texts are cut.                          *)
THEOREM BudgetHolds == Spec => []WithinBudget
<1>1. IInv => WithinBudget
  BY DEF IInv, Sound, WithinBudget
<1> QED  BY <1>1, Inductive, PTL

-----------------------------------------------------------------------------
(* Towards the port: what the log of a Run's steps looks like while it is
   written.  AgentPort's rules of a log, with its places spelled out.        *)
Tools == {"wiki_index", "wiki_search", "wiki_read"}
Has(log, kind) == \E i \in DOMAIN log : log[i].kind = kind

Rules(log) ==
    /\ \A i, j \in DOMAIN log : i < j =>
          /\ log[i].kind # "compose"
          /\ log[i].kind = "limit_reached" => log[j].kind \notin Tools
          /\ log[i].kind = log[j].kind => log[i].kind \in Tools
    /\ \A j \in DOMAIN log :
          log[j].kind = "compose" => \E i \in DOMAIN log : i < j /\ log[i].kind = "decide"

Prefix(l, m) == Len(l) <= Len(m) /\ \A i \in DOMAIN l : m[i] = l[i]

One(b) == IF b THEN 1 ELSE 0

(* The steps a Run announced beside its tool calls are the limit, the decision
   and the composing, each told by a field of the state, and so three at most. *)
LogInv(s) ==
    /\ s \in StateType
    /\ Rules(s.steps)
    /\ Len(s.steps) <= s.toolCalls + One(s.limitHit) + One(s.decision # None)
                         + One(Has(s.steps, "compose"))
    /\ Has(s.steps, "limit_reached") <=> s.limitHit
    /\ Has(s.steps, "decide") <=> s.decision # None

PortInv ==
    /\ LogInv(state)
    /\ phase \in Researching \cup {"runaway"} => ~Has(state.steps, "compose")
    /\ phase = "compose" =>
          /\ Has(state.steps, "compose")
          /\ CheckOutcomeFields(answer) /\ answer.uncovered \in BOOLEAN
          /\ answer.outcome \in Sourced /\ answer.sources \subseteq Reads(state)

(* One step more keeps the rules when the log has none of its kind and none
   it may not follow.                                                        *)
LEMMA AppendKeepsRules ==
    ASSUME NEW l \in Seq(StepType), Rules(l), NEW step \in StepType,
           ~Has(l, "compose"),
           step.kind \in Tools => ~Has(l, "limit_reached"),
           step.kind \notin Tools => ~Has(l, step.kind),
           step.kind = "compose" => Has(l, "decide")
    PROVE  LET m == Append(l, step)
           IN  /\ m \in Seq(StepType) /\ Len(m) = Len(l) + 1
               /\ Rules(m) /\ Prefix(l, m)
               /\ \A kind : Has(m, kind) <=> Has(l, kind) \/ step.kind = kind
<1> DEFINE m == Append(l, step)
<1>1. /\ m \in Seq(StepType) /\ Len(m) = Len(l) + 1 /\ Len(l) \in Nat
      /\ DOMAIN l = 1..Len(l) /\ DOMAIN m = 1..(Len(l) + 1)
      /\ m[Len(l) + 1] = step
      /\ \A i \in DOMAIN l : m[i] = l[i]
  OBVIOUS
<1> HIDE DEF m
<1>2. Prefix(l, m)
  BY <1>1 DEF Prefix
<1>3. \A kind : Has(m, kind) <=> Has(l, kind) \/ step.kind = kind
  <2> TAKE kind
  <2>1. \A i \in DOMAIN m : i \in DOMAIN l \/ i = Len(l) + 1
    BY <1>1
  <2>2. DOMAIN l \subseteq DOMAIN m /\ Len(l) + 1 \in DOMAIN m
    BY <1>1
  <2> QED  BY <1>1, <2>1, <2>2 DEF Has
<1>4. ASSUME NEW i \in DOMAIN m, NEW j \in DOMAIN m, i < j
      PROVE  /\ m[i].kind # "compose"
             /\ m[i].kind = "limit_reached" => m[j].kind \notin Tools
             /\ m[i].kind = m[j].kind => m[i].kind \in Tools
  <2>1. i \in DOMAIN l /\ m[i] = l[i]
    BY <1>1, <1>4
  <2>2. CASE j \in DOMAIN l
    BY <1>1, <1>4, <2>1, <2>2 DEF Rules
  <2>3. CASE j = Len(l) + 1
    <3>1. m[j] = step
      BY <1>1, <2>3
    <3>2. Has(l, l[i].kind)
      BY <2>1 DEF Has
    <3> QED  BY <2>1, <3>1, <3>2
  <2> QED  BY <1>1, <2>2, <2>3
<1>5. ASSUME NEW j \in DOMAIN m, m[j].kind = "compose"
      PROVE  \E i \in DOMAIN m : i < j /\ m[i].kind = "decide"
  <2>1. CASE j \in DOMAIN l
    BY <1>1, <1>5, <2>1 DEF Has
  <2>2. CASE j = Len(l) + 1
    <3>1. PICK i \in DOMAIN l : l[i].kind = "decide"
      BY <1>1, <1>5, <2>2 DEF Has
    <3>2. i \in DOMAIN m /\ i < j /\ m[i] = l[i]
      BY <1>1, <2>2
    <3> QED  BY <3>1, <3>2
  <2> QED  BY <1>1, <2>1, <2>2
<1>6. Rules(m)
  BY <1>4, <1>5 DEF Rules
<1> QED  BY <1>1, <1>2, <1>3, <1>6 DEF m

LEMMA PrefixTransitive ==
    ASSUME NEW l \in Seq(StepType), NEW m \in Seq(StepType), NEW n \in Seq(StepType),
           Prefix(l, m), Prefix(m, n)
    PROVE  Prefix(l, n)
BY DEF Prefix

LEMMA PrefixReflexive == ASSUME NEW l \in Seq(StepType) PROVE Prefix(l, l)
BY DEF Prefix

-----------------------------------------------------------------------------
(* t is s with steps announced, none of them the composing one.              *)
Logs(s, t) == LogInv(t) /\ ~Has(t.steps, "compose") /\ Prefix(s.steps, t.steps)

(* A Run that researches: its log as the invariant has it.                   *)
Open(s) == LogInv(s) /\ ~Has(s.steps, "compose")

LEMMA LogsReflexive == ASSUME NEW s, Open(s) PROVE Logs(s, s)
BY PrefixReflexive DEF Logs, Open, LogInv, StateType

LEMMA LogsTransitive ==
    ASSUME NEW s, NEW t, NEW u, s \in StateType, Logs(s, t), Logs(t, u)
    PROVE  Logs(s, u)
BY PrefixTransitive DEF Logs, LogInv, StateType

(* Fields no rule of the log reads.                                          *)
LEMMA SameLogs ==
    ASSUME NEW s, NEW t, Open(s), t \in StateType, t.steps = s.steps,
           t.limitHit = s.limitHit, t.decision = s.decision, s.toolCalls <= t.toolCalls
    PROVE  Logs(s, t)
<1>1. Rules(t.steps) /\ ~Has(t.steps, "compose") /\ Prefix(s.steps, t.steps)
  BY PrefixReflexive DEF Open, LogInv, StateType
<1>2. s.toolCalls \in Nat /\ t.toolCalls \in Nat /\ Len(s.steps) \in Nat
  BY DEF Open, LogInv, StateType
<1>3. Len(t.steps) <= t.toolCalls + One(t.limitHit) + One(t.decision # None)
                         + One(Has(t.steps, "compose"))
  BY <1>2 DEF Open, LogInv, One
<1> QED  BY <1>1, <1>3 DEF Logs, Open, LogInv

LEMMA MarkLogs == ASSUME NEW s, Open(s) PROVE Logs(s, MarkLimit(s))
<1>1. CASE s.limitHit
  BY <1>1, LogsReflexive DEF MarkLimit
<1>2. CASE ~s.limitHit
  <2> DEFINE step == [kind |-> "limit_reached", doc |-> None]
             m == Append(s.steps, step)
             t == MarkLimit(s)
  <2>1. s \in StateType /\ step \in StepType /\ s.steps \in Seq(StepType)
    BY DEF Open, LogInv, StateType, StepType, Kinds
  <2>2. /\ m \in Seq(StepType) /\ Len(m) = Len(s.steps) + 1 /\ Rules(m) /\ Prefix(s.steps, m)
        /\ \A kind : Has(m, kind) <=> Has(s.steps, kind) \/ step.kind = kind
    <3>1. ~Has(s.steps, "limit_reached") /\ ~Has(s.steps, "compose") /\ Rules(s.steps)
      BY <1>2 DEF Open, LogInv
    <3>2. step.kind = "limit_reached"
      OBVIOUS
    <3> HIDE DEF step
    <3>3. step.kind \notin Tools /\ step.kind # "compose"
      BY <3>2 DEF Tools
    <3> QED  BY <2>1, <3>1, <3>2, <3>3, AppendKeepsRules
  <2> HIDE DEF m
  <2>3. t = [[s EXCEPT !.limitHit = TRUE] EXCEPT !.steps = m]
    BY <1>2, <2>1 DEF MarkLimit, EmitStep, StateType, m
  <2>4. /\ t \in StateType /\ t.steps = m /\ t.limitHit = TRUE /\ t.toolCalls = s.toolCalls
        /\ t.decision = s.decision
    BY <2>1, <2>2, <2>3 DEF StateType
  <2> HIDE DEF t
  <2>5. /\ Has(m, "limit_reached") /\ ~Has(m, "compose")
        /\ Has(m, "decide") <=> Has(s.steps, "decide")
    BY <2>2 DEF Open
  <2>6. Len(m) <= t.toolCalls + One(TRUE) + One(t.decision # None) + One(Has(m, "compose"))
    <3>1. s.toolCalls \in Nat /\ Len(s.steps) \in Nat
      BY <2>1 DEF StateType
    <3>2. Len(s.steps) <= s.toolCalls + One(s.decision # None)
      BY <1>2, <3>1 DEF Open, LogInv, One
    <3> QED  BY <2>2, <2>4, <2>5, <3>1, <3>2 DEF One
  <2>7. Logs(s, t)
    BY <2>2, <2>4, <2>5, <2>6 DEF Logs, Open, LogInv
  <2> QED  BY <2>7 DEF t
<1>3. s.limitHit \in BOOLEAN
  BY DEF Open, LogInv, StateType
<1> QED  BY <1>1, <1>2, <1>3

LEMMA ChargeLogs ==
    ASSUME NEW s, Open(s), NEW text, NEW f \in Nat
    PROVE  Logs(s, Charge(s, text, f))
<1> DEFINE t == [s EXCEPT !.toolOutputTokens = @ + f]
<1>1. /\ t \in StateType /\ t.steps = s.steps /\ t.limitHit = s.limitHit
      /\ t.decision = s.decision /\ t.toolCalls = s.toolCalls /\ s.toolCalls \in Nat
      /\ s \in StateType
  BY DEF Open, LogInv, StateType
<1>2. Logs(s, t)
  <2> HIDE DEF t
  <2> QED  BY <1>1, SameLogs
<1>3. Logs(t, MarkLimit(t))
  <2> HIDE DEF t
  <2> QED  BY <1>2, MarkLogs DEF Logs, Open
<1>4. Logs(s, MarkLimit(t))
  <2> HIDE DEF t
  <2> QED  BY <1>1, <1>2, <1>3, LogsTransitive
<1> QED  BY <1>2, <1>4 DEF Charge

LEMMA AdmitLogs == ASSUME NEW s, Open(s) PROVE Logs(s, Admitted(s))
<1> DEFINE t == Admitted(s)
<1>1. /\ t \in StateType /\ t.steps = s.steps /\ t.limitHit = s.limitHit
      /\ t.decision = s.decision /\ s.toolCalls <= t.toolCalls
  BY DEF Open, LogInv, StateType, Admitted
<1> HIDE DEF t
<1>2. Logs(s, t)
  BY <1>1, SameLogs
<1> QED  BY <1>2 DEF t

(* Every tool step is paid for by the call that was just counted.            *)
LEMMA ToolLogs ==
    ASSUME NEW s, Open(s), ~s.limitHit, NEW kind \in Tools, NEW doc \in Documents \cup {None}
    PROVE  Logs(s, EmitStep(Admitted(s), kind, doc))
<1> DEFINE step == [kind |-> kind, doc |-> doc]
           m == Append(s.steps, step)
           t == EmitStep(Admitted(s), kind, doc)
<1>1. s \in StateType /\ step \in StepType /\ s.steps \in Seq(StepType) /\ step.kind = kind
  BY DEF Open, LogInv, StateType, StepType, Kinds, Tools
<1>2. /\ m \in Seq(StepType) /\ Len(m) = Len(s.steps) + 1 /\ Rules(m) /\ Prefix(s.steps, m)
      /\ \A k : Has(m, k) <=> Has(s.steps, k) \/ kind = k
  <2> HIDE DEF step
  <2>1. ~Has(s.steps, "limit_reached") /\ ~Has(s.steps, "compose") /\ Rules(s.steps)
    BY DEF Open, LogInv
  <2>2. kind # "compose"
    BY DEF Tools
  <2> QED  BY <1>1, <2>1, <2>2, AppendKeepsRules
<1>a. /\ Admitted(s) \in StateType /\ Admitted(s).steps = s.steps
      /\ Admitted(s).limitHit = s.limitHit /\ Admitted(s).decision = s.decision
      /\ Admitted(s).toolCalls = s.toolCalls + 1
  BY <1>1 DEF Admitted, StateType
<1>3. t = [Admitted(s) EXCEPT !.steps = m]
  BY <1>a DEF EmitStep
<1> HIDE DEF m
<1>4. /\ t \in StateType /\ t.steps = m /\ t.limitHit = s.limitHit
      /\ t.toolCalls = s.toolCalls + 1 /\ t.decision = s.decision
  <2> DEFINE a == Admitted(s)
  <2> HIDE DEF a
  <2>1. t = [a EXCEPT !.steps = m] /\ a \in StateType /\ m \in Seq(StepType)
    BY <1>a, <1>2, <1>3 DEF a
  <2>2. t \in StateType /\ t.steps = m /\ t.limitHit = a.limitHit
        /\ t.toolCalls = a.toolCalls /\ t.decision = a.decision
    <3> HIDE DEF t
    <3> QED  BY <2>1 DEF StateType
  <2> QED  BY <1>a, <2>2 DEF a
<1> HIDE DEF t
<1>5. /\ ~Has(m, "compose")
      /\ Has(m, "limit_reached") <=> Has(s.steps, "limit_reached")
      /\ Has(m, "decide") <=> Has(s.steps, "decide")
  <2>1. kind \notin {"compose", "limit_reached", "decide"}
    BY DEF Tools
  <2> QED  BY <1>2, <2>1 DEF Open
<1>6. Len(m) <= t.toolCalls + One(t.limitHit) + One(t.decision # None) + One(Has(m, "compose"))
  <2>1. s.toolCalls \in Nat /\ Len(s.steps) \in Nat
    BY <1>1 DEF StateType
  <2> QED  BY <1>2, <1>4, <1>5, <2>1 DEF Open, LogInv, One
<1>7. Logs(s, t)
  BY <1>2, <1>4, <1>5, <1>6 DEF Logs, Open, LogInv
<1> QED  BY <1>7 DEF t

LEMMA DecideLogs ==
    ASSUME NEW s, Open(s), s.decision = None,
           NEW d \in [outcome : Outcomes, used : SUBSET Documents]
    PROVE  Logs(s, [EmitStep(s, "decide", None) EXCEPT !.decision = d])
<1> DEFINE step == [kind |-> "decide", doc |-> None]
           m == Append(s.steps, step)
           t == [EmitStep(s, "decide", None) EXCEPT !.decision = d]
<1>1. s \in StateType /\ step \in StepType /\ s.steps \in Seq(StepType) /\ step.kind = "decide"
  BY DEF Open, LogInv, StateType, StepType, Kinds
<1>2. /\ m \in Seq(StepType) /\ Len(m) = Len(s.steps) + 1 /\ Rules(m) /\ Prefix(s.steps, m)
      /\ \A k : Has(m, k) <=> Has(s.steps, k) \/ k = "decide"
  <2> HIDE DEF step
  <2>1. ~Has(s.steps, "decide") /\ ~Has(s.steps, "compose") /\ Rules(s.steps)
    BY DEF Open, LogInv
  <2>2. step.kind \notin Tools /\ step.kind # "compose"
    BY <1>1 DEF Tools
  <2> QED  BY <1>1, <2>1, <2>2, AppendKeepsRules
<1>3. t = [[s EXCEPT !.steps = m] EXCEPT !.decision = d]
  BY <1>1 DEF EmitStep, StateType
<1> HIDE DEF m
<1>4. /\ t \in StateType /\ t.steps = m /\ t.limitHit = s.limitHit
      /\ t.toolCalls = s.toolCalls /\ t.decision = d
  BY <1>1, <1>2, <1>3 DEF StateType
<1> HIDE DEF t
<1>5. /\ ~Has(m, "compose")
      /\ Has(m, "limit_reached") <=> Has(s.steps, "limit_reached")
      /\ Has(m, "decide") /\ d # None
  BY <1>2, ResearchAssumption DEF Open
<1>6. Len(m) <= t.toolCalls + One(t.limitHit) + One(t.decision # None) + One(Has(m, "compose"))
  <2>1. s.toolCalls \in Nat /\ Len(s.steps) \in Nat
    BY <1>1 DEF StateType
  <2> QED  BY <1>2, <1>4, <1>5, <2>1 DEF Open, LogInv, One
<1>7. Logs(s, t)
  BY <1>2, <1>4, <1>5, <1>6 DEF Logs, Open, LogInv
<1> QED  BY <1>7 DEF t

LEMMA ComposeLogs ==
    ASSUME NEW s, Open(s), s.decision # None
    PROVE  LET t == EmitStep(s, "compose", None)
           IN  /\ LogInv(t) /\ Has(t.steps, "compose") /\ Prefix(s.steps, t.steps)
               /\ t.reads = s.reads
<1> DEFINE step == [kind |-> "compose", doc |-> None]
           m == Append(s.steps, step)
           t == EmitStep(s, "compose", None)
<1>1. s \in StateType /\ step \in StepType /\ s.steps \in Seq(StepType) /\ step.kind = "compose"
  BY DEF Open, LogInv, StateType, StepType, Kinds
<1>2. /\ m \in Seq(StepType) /\ Len(m) = Len(s.steps) + 1 /\ Rules(m) /\ Prefix(s.steps, m)
      /\ \A k : Has(m, k) <=> Has(s.steps, k) \/ k = "compose"
  <2> HIDE DEF step
  <2>1. Has(s.steps, "decide") /\ ~Has(s.steps, "compose") /\ Rules(s.steps)
    BY DEF Open, LogInv
  <2>2. step.kind \notin Tools
    BY <1>1 DEF Tools
  <2> QED  BY <1>1, <2>1, <2>2, AppendKeepsRules
<1>3. t = [s EXCEPT !.steps = m]
  BY <1>1 DEF EmitStep, StateType
<1> HIDE DEF m
<1>4. /\ t \in StateType /\ t.steps = m /\ t.limitHit = s.limitHit
      /\ t.toolCalls = s.toolCalls /\ t.decision = s.decision /\ t.reads = s.reads
  BY <1>1, <1>2, <1>3 DEF StateType
<1> HIDE DEF t
<1>5. /\ Has(m, "compose")
      /\ Has(m, "limit_reached") <=> Has(s.steps, "limit_reached")
      /\ Has(m, "decide") <=> Has(s.steps, "decide")
  BY <1>2
<1>6. Len(m) <= t.toolCalls + One(t.limitHit) + One(t.decision # None) + One(Has(m, "compose"))
  <2>1. s.toolCalls \in Nat /\ Len(s.steps) \in Nat
    BY <1>1 DEF StateType
  <2> QED  BY <1>2, <1>4, <1>5, <2>1 DEF Open, LogInv, One
<1>7. LogInv(t) /\ Has(t.steps, "compose") /\ Prefix(s.steps, t.steps) /\ t.reads = s.reads
  BY <1>2, <1>4, <1>5, <1>6 DEF Open, LogInv
<1> QED  BY <1>7 DEF t

-----------------------------------------------------------------------------
(* What the application sees of a step of the research: nothing, steps that
   were announced, a piece of text, or the one end.                          *)
Still == state'.steps = state.steps /\ UNCHANGED <<deltas, result>>
Quiet ==
    /\ result = None /\ result' = None
    /\ Prefix(state.steps, state'.steps) /\ UNCHANGED deltas
Streams ==
    /\ result = None /\ result' = None
    /\ Has(state.steps, "compose")
    /\ deltas' = deltas + 1 /\ state'.steps = state.steps

Ended(s, r) ==
    /\ CheckOutcomeFields(r)
    /\ r.outcome \in Sourced <=> Has(s.steps, "compose")
    /\ \A d \in r.sources : Read(s, d)
    /\ r.truncated <=> Has(s.steps, "limit_reached")
Ends ==
    /\ result = None /\ result' # None
    /\ Prefix(state.steps, state'.steps) /\ UNCHANGED deltas
    /\ result'.finish # "error" => Ended(state', result')

PortStep == Still \/ Quiet \/ Streams \/ Ends

LEMMA PortResearches ==
    ASSUME IInv, phase \in Researching, phase' \in Researching \cup {"runaway"},
           Logs(state, state'), UNCHANGED <<deltas, result>>
    PROVE  PortInv' /\ PortStep
<1>1. /\ phase # "over" /\ phase' # "compose"
  BY DEF Researching
<1>2. result = None
  BY <1>1 DEF IInv
<1>3. PortInv'
  BY <1>1 DEF PortInv, Logs
<1> QED  BY <1>2, <1>3 DEF PortStep, Quiet, Logs

Causes == {"wiki_unavailable", "context_overflow", "provider", "aborted"}

LEMMA PortFails ==
    ASSUME IInv, phase # "over", NEW cause \in Causes, Over(Failed(cause)),
           LogInv(state'), Prefix(state.steps, state'.steps), UNCHANGED deltas
    PROVE  PortInv' /\ PortStep
<1>1. Failed(cause) # None /\ Failed(cause).finish = "error"
  <2>1. Failed(cause) \in
          [outcome : Outcomes \cup Causes, sources : SUBSET Documents, uncovered : BOOLEAN,
           truncated : BOOLEAN, finish : {"stop", "length", "error"}]
    BY DEF Failed
  <2>2. Failed(cause) # None
    <3> HIDE DEF Failed
    <3> QED  BY <2>1, ResearchAssumption DEF Causes
  <2> QED  BY <2>2 DEF Failed
<1>2. result = None /\ phase' = "over" /\ result' = Failed(cause)
  BY DEF IInv, Over
<1>3. PortInv'
  BY <1>2 DEF PortInv, Researching
<1> QED  BY <1>1, <1>2, <1>3 DEF PortStep, Ends

(* A result that is no failure says what the log says.                       *)
LEMMA PortFinishes ==
    ASSUME IInv, PortInv, phase # "over", UNCHANGED <<state, deltas>>,
           NEW a, NEW finish \in {"stop", "length"}, Over(Final(a, finish)),
           CheckOutcomeFields(a), a.uncovered \in BOOLEAN, a.sources \subseteq Reads(state),
           a.outcome \in Sourced <=> Has(state.steps, "compose")
    PROVE  PortInv' /\ PortStep
<1> DEFINE r == Final(a, finish)
<1>1. /\ state \in StateType /\ LogInv(state) /\ ReadsAnnounced(state)
      /\ result = None /\ phase' = "over" /\ result' = r
  BY DEF IInv, PortInv, LogInv, Over, Sound
<1>2. Reads(state) \subseteq Documents
  BY <1>1 DEF StateType, Reads
<1>3. /\ r.outcome = a.outcome /\ r.sources = a.sources /\ r.uncovered = a.uncovered
      /\ r.truncated = state.limitHit /\ r.finish = finish
  BY DEF Final
<1>4. r # None
  <2>1. a.outcome \in Outcomes /\ a.sources \in SUBSET Documents /\ state.limitHit \in BOOLEAN
    BY <1>1, <1>2 DEF CheckOutcomeFields, StateType
  <2> QED  BY <2>1, ResearchAssumption DEF Final
<1> HIDE DEF r
<1>5. Ended(state', r)
  <2>1. CheckOutcomeFields(r)
    BY <1>3 DEF CheckOutcomeFields
  <2>2. \A d \in r.sources : Read(state', d)
    BY <1>1, <1>3 DEF ReadsAnnounced
  <2> QED  BY <1>1, <1>3, <2>1, <2>2 DEF Ended, LogInv
<1>6. Prefix(state.steps, state'.steps)
  BY <1>1, PrefixReflexive DEF StateType
<1>7. PortInv'
  BY <1>1 DEF PortInv, Researching
<1> QED  BY <1>1, <1>4, <1>5, <1>6, <1>7 DEF PortStep, Ends

-----------------------------------------------------------------------------
LEMMA PortOpen ==
    ASSUME PortInv, phase \in Researching \cup {"runaway"}
    PROVE  /\ Open(state) /\ Logs(state, state)
           /\ UNCHANGED state => Logs(state, state') /\ LogInv(state')
                                   /\ Prefix(state.steps, state'.steps)
<1>1. Open(state) /\ Logs(state, state)
  BY LogsReflexive DEF PortInv, Open
<1> QED  BY <1>1 DEF Logs

LEMMA BeginPort == IInv /\ PortInv /\ Begin => PortInv' /\ PortStep
<1> SUFFICES ASSUME IInv, PortInv, Begin PROVE PortInv' /\ PortStep
  OBVIOUS
<1>1. /\ phase \in Researching /\ phase # "over" /\ Logs(state, state') /\ LogInv(state')
      /\ Prefix(state.steps, state'.steps)
  BY PortOpen DEF Begin, Researching
<1>2. CASE phase' = "model" /\ UNCHANGED result
  BY <1>1, <1>2, PortResearches DEF Begin, Researching
<1>3. CASE \E cause \in Causes : Over(Failed(cause))
  BY <1>1, <1>3, PortFails DEF Begin
<1> QED  BY <1>2, <1>3 DEF Begin, Causes

LEMMA CallModelPort == IInv /\ PortInv /\ CallModel => PortInv' /\ PortStep
<1> SUFFICES ASSUME IInv, PortInv, CallModel PROVE PortInv' /\ PortStep
  OBVIOUS
<1>1. phase \in Researching /\ phase # "over"
  BY DEF CallModel, Researching
<1>2. CASE Over(Failed("context_overflow")) /\ UNCHANGED state
  BY <1>1, <1>2, PortOpen, PortFails DEF CallModel, Causes
<1>3. CASE /\ state' = [state EXCEPT !.modelCalls = @ + 1]
           /\ phase' \in {"runaway", "answering"} /\ UNCHANGED result
  <2>1. Open(state) /\ state \in StateType
    BY <1>1, PortOpen DEF Open, LogInv
  <2>2. /\ state' \in StateType /\ state'.steps = state.steps /\ state'.limitHit = state.limitHit
        /\ state'.decision = state.decision /\ state.toolCalls <= state'.toolCalls
    BY <1>3, <2>1 DEF StateType
  <2>3. Logs(state, state')
    BY <2>1, <2>2, SameLogs
  <2> QED  BY <1>1, <1>3, <2>3, PortResearches DEF CallModel, Researching
<1> QED  BY <1>2, <1>3 DEF CallModel

LEMMA AnswerPort == IInv /\ PortInv /\ Answer => PortInv' /\ PortStep
<1> SUFFICES ASSUME IInv, PortInv, Answer PROVE PortInv' /\ PortStep
  OBVIOUS
<1>1. /\ phase \in Researching /\ phase # "over" /\ Logs(state, state') /\ LogInv(state')
      /\ Prefix(state.steps, state'.steps)
  BY PortOpen DEF Answer, Researching
<1>2. CASE phase' \in {"settle", "tools"} /\ UNCHANGED result
  BY <1>1, <1>2, PortResearches DEF Answer, Researching
<1>3. CASE Over(Failed("provider"))
  BY <1>1, <1>3, PortFails DEF Answer, Causes
<1> QED  BY <1>2, <1>3 DEF Answer

LEMMA ToolPort ==
    ASSUME IInv, Tool, Rest, Logs(state, state') PROVE PortInv' /\ PortStep
BY PortResearches DEF Tool, Rest, Researching

LEMMA UseToolPort == IInv /\ PortInv /\ UseTool => PortInv' /\ PortStep
<1> SUFFICES ASSUME IInv, PortInv, UseTool PROVE PortInv' /\ PortStep
  OBVIOUS
<1>0. Open(state) /\ Logs(state, state) /\ state \in StateType
  <2>1. phase \in Researching
    BY DEF UseTool, RefusedByLibrary, RefusedByLimit, WikiIndex, WikiSearch, WikiRead, Decide,
           Tool, Researching
  <2> QED  BY <2>1, PortOpen DEF Open, LogInv
<1>1. CASE RefusedByLibrary
  BY <1>0, <1>1, ToolPort DEF RefusedByLibrary, Logs
<1>2. CASE RefusedByLimit
  BY <1>0, <1>2, MarkLogs, ToolPort DEF RefusedByLimit
<1>a. ASSUME Offered PROVE ~state.limitHit
  BY <1>a DEF Offered, LimitReached
<1>b. ASSUME NEW s, Logs(state, s), NEW text \in Nat, NEW f \in FitTokens(s, text),
             s.toolOutputTokens \in Nat, s.toolOutputTokens <= MaxToolOutputTokens
      PROVE  Logs(state, Charge(s, text, f))
  <2>1. Cap(s) \in Nat
    BY <1>b, ResearchAssumption DEF Cap, Remaining
  <2>2. f \in Nat
    BY <1>b, <2>1 DEF FitTokens
  <2>3. Logs(s, Charge(s, text, f))
    BY <1>b, <2>2, ChargeLogs DEF Logs, Open
  <2> QED  BY <1>0, <1>b, <2>3, LogsTransitive
<1>c. /\ Sound(state) /\ (Offered => Sound(Admitted(state)))
      /\ Admitted(state).toolOutputTokens = state.toolOutputTokens
      /\ Reads(Admitted(state)) = Reads(state)
  BY <1>0, AdmitSound DEF IInv, Offered, Follows, Admitted, StateType, Reads
<1>d. ASSUME Offered, NEW kind \in Tools, NEW doc \in Documents \cup {None}
      PROVE  LET s == EmitStep(Admitted(state), kind, doc)
             IN  /\ Logs(state, s) /\ s.toolOutputTokens \in Nat
                 /\ s.toolOutputTokens <= MaxToolOutputTokens
  <2>1. Logs(state, EmitStep(Admitted(state), kind, doc))
    BY <1>0, <1>a, <1>d, ToolLogs
  <2>2. Sound(EmitStep(Admitted(state), kind, doc))
    <3>1. kind \in Kinds
      BY DEF Tools, Kinds
    <3> QED  BY <1>c, <1>d, <3>1, EmitSound
  <2> QED  BY <2>1, <2>2 DEF Sound, StateType
<1>3. CASE WikiIndex
  <2> DEFINE s == EmitStep(Admitted(state), "wiki_index", None)
  <2>1. /\ Logs(state, s) /\ s.toolOutputTokens \in Nat
        /\ s.toolOutputTokens <= MaxToolOutputTokens
    BY <1>3, <1>d DEF WikiIndex, Tools
  <2>2. Cost[Index] \in Nat
    BY ResearchAssumption
  <2>3. state' = s \/ \E f \in FitTokens(s, Cost[Index]) : state' = Charge(s, Cost[Index], f)
    BY <1>3 DEF WikiIndex
  <2>4. Logs(state, state')
    <3> HIDE DEF s
    <3> QED  BY <1>b, <2>1, <2>2, <2>3
  <2> QED  BY <1>3, <2>4, ToolPort DEF WikiIndex
<1>4. CASE WikiSearch
  <2> DEFINE s == EmitStep(Admitted(state), "wiki_search", None)
  <2>1. /\ Logs(state, s) /\ s.toolOutputTokens \in Nat
        /\ s.toolOutputTokens <= MaxToolOutputTokens
    BY <1>4, <1>d DEF WikiSearch, Tools
  <2>2. 0..MaxText \subseteq Nat
    BY ResearchAssumption
  <2>3. \/ state' = s
        \/ \E text \in 0..MaxText : \E f \in FitTokens(s, text) : state' = Charge(s, text, f)
    BY <1>4 DEF WikiSearch
  <2>4. Logs(state, state')
    <3> HIDE DEF s
    <3> QED  BY <1>b, <2>1, <2>2, <2>3
  <2> QED  BY <1>4, <2>4, ToolPort DEF WikiSearch
<1>5. ASSUME NEW d \in Documents, WikiRead(d) PROVE PortInv' /\ PortStep
  <2> DEFINE e == EmitStep(Admitted(state), "wiki_read", d)
             s == [e EXCEPT !.reads = IF d \in Reads(state) THEN @ ELSE Append(@, d)]
  <2>1. Offered /\ Tool /\ Rest
    BY <1>5 DEF WikiRead
  <2>2. /\ Logs(state, e) /\ e.toolOutputTokens \in Nat
        /\ e.toolOutputTokens <= MaxToolOutputTokens
    BY <2>1, <1>d DEF Tools
  <2>3. /\ Logs(e, s) /\ s.toolOutputTokens = e.toolOutputTokens
    <3> HIDE DEF e
    <3>1. Open(e) /\ e \in StateType
      BY <2>2 DEF Logs, Open, LogInv
    <3>2. (IF d \in Reads(state) THEN e.reads ELSE Append(e.reads, d)) \in Seq(Documents)
      BY <3>1 DEF StateType
    <3>3. /\ s \in StateType /\ s.steps = e.steps /\ s.limitHit = e.limitHit
          /\ s.decision = e.decision /\ s.toolCalls = e.toolCalls /\ e.toolCalls \in Nat
          /\ s.toolOutputTokens = e.toolOutputTokens
      BY <3>1, <3>2 DEF StateType
    <3> HIDE DEF s
    <3> QED  BY <3>1, <3>3, SameLogs
  <2>4. Logs(state, s)
    <3> HIDE DEF e, s
    <3> QED  BY <1>0, <2>2, <2>3, LogsTransitive
  <2>5. 0..MaxText \subseteq Nat
    BY ResearchAssumption
  <2>6. \/ state' = Admitted(state)
        \/ \E text \in 0..MaxText : \E f \in FitTokens(s, text) : state' = Charge(s, text, f)
    BY <1>5 DEF WikiRead
  <2>7. Logs(state, Admitted(state))
    BY <1>0, AdmitLogs
  <2>8. Logs(state, state')
    <3>1. s.toolOutputTokens \in Nat /\ s.toolOutputTokens <= MaxToolOutputTokens
      <4> HIDE DEF e, s
      <4> QED  BY <2>2, <2>3
    <3> HIDE DEF s
    <3> QED  BY <1>b, <2>4, <2>5, <2>6, <2>7, <3>1
  <2> QED  BY <2>1, <2>8, ToolPort
<1>6. ASSUME NEW outcome \in Outcomes, NEW used \in SUBSET Documents, Decide(outcome, used)
      PROVE  PortInv' /\ PortStep
  <2> DEFINE d == [outcome |-> outcome, used |-> used]
  <2>1. Logs(state, state')
    <3>1. CASE state' = state
      BY <1>0, <3>1
    <3>2. CASE /\ state.decision = None
               /\ state' = [EmitStep(state, "decide", None) EXCEPT !.decision = d]
      <4>1. d \in [outcome : Outcomes, used : SUBSET Documents]
        OBVIOUS
      <4> HIDE DEF d
      <4> QED  BY <1>0, <3>2, <4>1, DecideLogs
    <3> QED  BY <1>6, <3>1, <3>2 DEF Decide
  <2> QED  BY <1>6, <2>1, ToolPort DEF Decide
<1> QED  BY <1>1, <1>2, <1>3, <1>4, <1>5, <1>6 DEF UseTool, Sourced, Outcomes

LEMMA EndTurnPort == IInv /\ PortInv /\ EndTurn => PortInv' /\ PortStep
<1> SUFFICES ASSUME IInv, PortInv, EndTurn PROVE PortInv' /\ PortStep
  OBVIOUS
<1>1. phase \in Researching /\ phase' \in Researching
  BY DEF EndTurn, Researching
<1>2. Logs(state, state')
  BY <1>1, PortOpen, MarkLogs DEF EndTurn
<1> QED  BY <1>1, <1>2, PortResearches DEF EndTurn

-----------------------------------------------------------------------------
(* What is decided passes AgentResultV1, and asks for an answer only when the
   model did decide.                                                         *)
LEMMA DecisionIsValid ==
    ASSUME state \in StateType
    PROVE  /\ CheckOutcomeFields(DecisionOf) /\ DecisionOf.uncovered \in BOOLEAN
           /\ DecisionOf.sources \subseteq Reads(state)
           /\ DecisionOf.outcome \in Sourced => state.decision # None
<1> DEFINE d == state.decision
           sources == {doc \in Reads(state) : doc \in d.used /\ doc \in present}
<1>0. /\ CheckOutcomeFields(WikiGap) /\ WikiGap.uncovered \in BOOLEAN /\ WikiGap.sources = {}
      /\ WikiGap.outcome \notin Sourced
  BY DEF CheckOutcomeFields, WikiGap, Outcomes, Sourced
<1>1. CASE d = None
  BY <1>0, <1>1 DEF DecisionOf
<1>2. CASE d # None /\ d.outcome \notin Sourced
  <2>1. DecisionOf = [WikiGap EXCEPT !.outcome = d.outcome]
    BY <1>2 DEF DecisionOf
  <2>2. d.outcome \in Outcomes
    BY <1>2 DEF StateType
  <2>3. d.outcome # "partial"
    BY <1>2 DEF Sourced
  <2> QED  BY <1>2, <2>1, <2>2, <2>3 DEF WikiGap, CheckOutcomeFields
<1>3. CASE d # None /\ d.outcome \in Sourced /\ sources = {}
  <2>1. DecisionOf = WikiGap
    BY <1>3 DEF DecisionOf
  <2> QED  BY <1>0, <2>1
<1>4. CASE d # None /\ d.outcome \in Sourced /\ sources # {}
  <2>1. DecisionOf = [outcome |-> d.outcome, sources |-> sources,
                      uncovered |-> d.outcome = "partial"]
    BY <1>4 DEF DecisionOf
  <2> QED  BY <1>4, <2>1 DEF CheckOutcomeFields, Sourced, Outcomes
<1> QED  BY <1>1, <1>2, <1>3, <1>4

LEMMA SettlePort == IInv /\ PortInv /\ Settle => PortInv' /\ PortStep
<1> SUFFICES ASSUME IInv, PortInv, Settle PROVE PortInv' /\ PortStep
  OBVIOUS
<1> DEFINE a == IF phase = "runaway" THEN WikiGap ELSE DecisionOf
<1>0. /\ phase # "over" /\ phase \in Researching \cup {"runaway"}
      /\ UNCHANGED deltas
  BY DEF Settle, Researching
<1>1. Open(state) /\ state \in StateType /\ ~Has(state.steps, "compose") /\ result = None
  BY <1>0, PortOpen DEF Open, LogInv, IInv
<1>2. /\ CheckOutcomeFields(WikiGap) /\ WikiGap.uncovered \in BOOLEAN /\ WikiGap.sources = {}
      /\ WikiGap.outcome \notin Sourced
  BY DEF CheckOutcomeFields, WikiGap, Outcomes, Sourced
<1>3. /\ CheckOutcomeFields(a) /\ a.uncovered \in BOOLEAN /\ a.sources \subseteq Reads(state)
      /\ a.outcome \in Sourced => state.decision # None
  BY <1>1, <1>2, DecisionIsValid
<1>4. \/ a.outcome \notin Sourced /\ Over(Final(a, "stop")) /\ UNCHANGED <<state, answer, seen>>
      \/ Over(Final(WikiGap, "stop")) /\ UNCHANGED <<state, answer, seen>>
      \/ \E block \in SUBSET a.sources :
            /\ a.outcome \in Sourced /\ Cut(a, block).sources # {}
            /\ state' = EmitStep(state, "compose", None) /\ answer' = Cut(a, block)
            /\ \/ phase' = "compose" /\ UNCHANGED result
               \/ Over(Failed("context_overflow"))
  BY DEF Settle
<1>t. a = [outcome |-> a.outcome, sources |-> a.sources, uncovered |-> a.uncovered]
  BY DEF DecisionOf, WikiGap
<1> HIDE DEF a
<1>5. CASE a.outcome \notin Sourced /\ Over(Final(a, "stop")) /\ UNCHANGED <<state, answer, seen>>
  BY <1>0, <1>1, <1>3, <1>5, PortFinishes
<1>6. CASE Over(Final(WikiGap, "stop")) /\ UNCHANGED <<state, answer, seen>>
  BY <1>0, <1>1, <1>2, <1>6, PortFinishes
<1>7. ASSUME NEW block \in SUBSET a.sources, a.outcome \in Sourced, Cut(a, block).sources # {},
             state' = EmitStep(state, "compose", None), answer' = Cut(a, block),
             \/ phase' = "compose" /\ UNCHANGED result
             \/ Over(Failed("context_overflow"))
      PROVE  PortInv' /\ PortStep
  <2>1. /\ LogInv(state') /\ Has(state'.steps, "compose") /\ Prefix(state.steps, state'.steps)
        /\ state'.reads = state.reads
    BY <1>1, <1>3, <1>7, ComposeLogs
  <2>2. CASE Over(Failed("context_overflow"))
    BY <1>0, <2>1, <2>2, PortFails DEF Causes
  <2>3. CASE phase' = "compose" /\ UNCHANGED result
    <3>1. /\ answer'.outcome = a.outcome /\ answer'.uncovered = a.uncovered
          /\ answer'.sources \subseteq a.sources /\ answer'.sources # {}
      BY <1>7, <1>t DEF Cut
    <3>2. CheckOutcomeFields(answer')
      BY <1>3, <1>7, <3>1 DEF CheckOutcomeFields
    <3>3. Reads(state') = Reads(state)
      BY <2>1 DEF Reads
    <3>4. PortInv'
      BY <1>3, <1>7, <2>1, <2>3, <3>1, <3>2, <3>3 DEF PortInv, Researching
    <3> QED  BY <1>0, <1>1, <2>1, <2>3, <3>4 DEF PortStep, Quiet
  <2> QED  BY <1>7, <2>2, <2>3
<1> QED  BY <1>4, <1>5, <1>6, <1>7

LEMMA ComposeEndsPort == IInv /\ PortInv /\ ComposeEnds => PortInv' /\ PortStep
<1> SUFFICES ASSUME IInv, PortInv, ComposeEnds PROVE PortInv' /\ PortStep
  OBVIOUS
<1>1. phase # "over" /\ LogInv(state') /\ Prefix(state.steps, state'.steps) /\ UNCHANGED deltas
  BY PrefixReflexive DEF ComposeEnds, PortInv, LogInv, StateType
<1>2. CASE Over(Failed("provider"))
  BY <1>1, <1>2, PortFails DEF Causes
<1>3. CASE \E finish \in {"stop", "length"} : Over(Final(answer, finish))
  BY <1>1, <1>3, PortFinishes DEF ComposeEnds, PortInv
<1> QED  BY <1>2, <1>3 DEF ComposeEnds

LEMMA AbortPort == IInv /\ PortInv /\ Abort => PortInv' /\ PortStep
<1> SUFFICES ASSUME IInv, PortInv, Abort PROVE PortInv' /\ PortStep
  OBVIOUS
<1>1. LogInv(state') /\ Prefix(state.steps, state'.steps)
  BY PrefixReflexive DEF Abort, PortInv, LogInv, StateType
<1> QED  BY <1>1, PortFails DEF Abort, Causes

LEMMA NextPort == IInv /\ PortInv /\ [Next]_vars => PortInv' /\ PortStep
<1> SUFFICES ASSUME IInv, PortInv, [Next]_vars PROVE PortInv' /\ PortStep
  OBVIOUS
<1>1. CASE Proceed
  BY <1>1, BeginPort, CallModelPort, AnswerPort, UseToolPort, EndTurnPort, SettlePort,
     ComposeEndsPort DEF Proceed
<1>2. CASE TextDelta
  <2>1. PortInv'
    BY <1>2 DEF TextDelta, PortInv, Reads
  <2>2. Streams
    BY <1>2 DEF TextDelta, PortInv, IInv, Streams
  <2> QED  BY <2>1, <2>2 DEF PortStep
<1>3. CASE Abort
  BY <1>3, AbortPort
<1>4. CASE EditWiki \/ UNCHANGED vars
  BY <1>4 DEF EditWiki, vars, PortInv, Reads, PortStep, Still
<1> QED  BY <1>1, <1>2, <1>3, <1>4 DEF Next

LEMMA InitPort == Init => PortInv
<1> SUFFICES ASSUME Init PROVE PortInv
  OBVIOUS
<1>1. /\ state \in StateType /\ state.steps = <<>> /\ state.limitHit = FALSE
      /\ state.decision = None /\ state.toolCalls = 0
  BY DEF Init, NewRunState, StateType
<1>2. Rules(state.steps) /\ \A kind : ~Has(state.steps, kind)
  BY <1>1 DEF Rules, Has
<1>3. LogInv(state)
  BY <1>1, <1>2 DEF LogInv, One
<1> QED  BY <1>2, <1>3 DEF Init, PortInv

-----------------------------------------------------------------------------
(* The deterministic agent has announced a beginning of its script.          *)
FakeSteps == Seq([kind : Kinds, doc : {None, LocalTestDocument}])
FakeType ==
    [outcome : Outcomes, steps : FakeSteps, deltas : Nat, aborted : BOOLEAN,
     result : {None, Fake!Incomplete} \cup {Fake!ResultFor(o) : o \in Outcomes}]

FakeInv ==
    /\ fake \in FakeType
    /\ Len(fake.steps) <= Len(Fake!Script(fake.outcome))
    /\ \A i \in DOMAIN fake.steps : fake.steps[i] = Fake!Script(fake.outcome)[i]

LEMMA ScriptIs ==
    ASSUME NEW o \in Outcomes
    PROVE  LET script == Fake!Script(o)
           IN  /\ script \in FakeSteps
               /\ o \in Sourced => /\ Len(script) = 4
                                   /\ script[1].kind = "wiki_index"
                                   /\ script[2] = [kind |-> "wiki_read", doc |-> LocalTestDocument]
                                   /\ script[3].kind = "decide"
                                   /\ script[4].kind = "compose"
               /\ o \notin Sourced => /\ Len(script) = 2
                                      /\ script[1].kind = "wiki_index"
                                      /\ script[2].kind = "decide"
<1> DEFINE step(kind) == [kind |-> kind,
                          doc |-> IF kind = "wiki_read" THEN LocalTestDocument ELSE None]
           Step == [kind : Kinds, doc : {None, LocalTestDocument}]
<1>1. /\ step("wiki_index") \in Step /\ step("wiki_read") \in Step
      /\ step("decide") \in Step /\ step("compose") \in Step
      /\ step("wiki_index").kind = "wiki_index" /\ step("decide").kind = "decide"
      /\ step("compose").kind = "compose"
      /\ step("wiki_read") = [kind |-> "wiki_read", doc |-> LocalTestDocument]
  BY DEF Kinds
<1>2. CASE o \in Sourced
  <2>1. Fake!Script(o) = <<step("wiki_index"), step("wiki_read"), step("decide"), step("compose")>>
    BY <1>2 DEF Fake!Script, Fake!Sourced, Sourced
  <2> HIDE DEF step, Step
  <2>2. Fake!Script(o) \in Seq(Step)
    BY <1>1, <2>1
  <2>3. /\ Len(Fake!Script(o)) = 4 /\ Fake!Script(o)[1] = step("wiki_index")
        /\ Fake!Script(o)[2] = step("wiki_read") /\ Fake!Script(o)[3] = step("decide")
        /\ Fake!Script(o)[4] = step("compose")
    BY <2>1
  <2> QED  BY <1>1, <1>2, <2>2, <2>3 DEF FakeSteps, Step
<1>3. CASE o \notin Sourced
  <2>1. Fake!Script(o) = <<step("wiki_index"), step("decide")>>
    BY <1>3 DEF Fake!Script, Fake!Sourced, Sourced
  <2> HIDE DEF step, Step
  <2>2. Fake!Script(o) \in Seq(Step)
    BY <1>1, <2>1
  <2>3. /\ Len(Fake!Script(o)) = 2 /\ Fake!Script(o)[1] = step("wiki_index")
        /\ Fake!Script(o)[2] = step("decide")
    BY <2>1
  <2> QED  BY <1>1, <1>3, <2>2, <2>3 DEF FakeSteps, Step
<1> QED  BY <1>2, <1>3

(* A beginning of the script keeps the rules of a log.                       *)
LEMMA FakeRules ==
    ASSUME FakeInv
    PROVE  /\ Rules(fake.steps) /\ Len(fake.steps) <= MaxToolCalls + 3
           /\ ~Has(fake.steps, "limit_reached")
           /\ Fake!Told => /\ Has(fake.steps, "compose") <=> fake.outcome \in Sourced
                           /\ fake.outcome \in Sourced =>
                                 \E i \in DOMAIN fake.steps :
                                    fake.steps[i] = [kind |-> "wiki_read", doc |-> LocalTestDocument]
<1> DEFINE l == fake.steps
           o == fake.outcome
           script == Fake!Script(o)
<1>1. /\ o \in Outcomes /\ l \in FakeSteps /\ Len(l) <= Len(script)
      /\ \A i \in DOMAIN l : l[i] = script[i]
      /\ Fake!Told <=> Len(l) = Len(script)
  BY DEF FakeInv, FakeType, Fake!Told
<1>2. Len(l) \in Nat /\ DOMAIN l = 1..Len(l)
  BY <1>1 DEF FakeSteps
<1>3. MaxToolCalls + 3 >= 4
  BY ResearchAssumption
<1>4. CASE o \in Sourced
  <2>1. /\ Len(script) = 4 /\ script[1].kind = "wiki_index"
        /\ script[2] = [kind |-> "wiki_read", doc |-> LocalTestDocument]
        /\ script[2].kind = "wiki_read"
        /\ script[3].kind = "decide" /\ script[4].kind = "compose"
    BY <1>1, <1>4, ScriptIs
  <2> HIDE DEF l, script
  <2>2. /\ \A i \in DOMAIN l : /\ i \in {1, 2, 3, 4} /\ l[i].kind = script[i].kind
                               /\ \A k \in 1..i : k \in DOMAIN l
        /\ Len(l) <= 4
    BY <1>1, <1>2, <2>1
  <2>3. Rules(l)
    BY <2>1, <2>2 DEF Rules, Tools
  <2>4. ~Has(l, "limit_reached")
    BY <2>1, <2>2 DEF Has
  <2>5. ASSUME Fake!Told PROVE 4 \in DOMAIN l /\ 2 \in DOMAIN l
    BY <1>1, <1>2, <2>1, <2>5
  <2>6. Fake!Told => /\ Has(l, "compose")
                     /\ \E i \in DOMAIN l : l[i] = [kind |-> "wiki_read", doc |-> LocalTestDocument]
    BY <1>1, <2>1, <2>5 DEF Has
  <2> QED  BY <1>2, <1>3, <1>4, <2>2, <2>3, <2>4, <2>6, ResearchAssumption DEF l
<1>5. CASE o \notin Sourced
  <2>1. Len(script) = 2 /\ script[1].kind = "wiki_index" /\ script[2].kind = "decide"
    BY <1>1, <1>5, ScriptIs
  <2> HIDE DEF l, script
  <2>2. /\ \A i \in DOMAIN l : i \in {1, 2} /\ l[i].kind = script[i].kind
        /\ Len(l) <= 2
    BY <1>1, <1>2, <2>1
  <2>3. Rules(l)
    BY <2>1, <2>2 DEF Rules, Tools
  <2>4. ~Has(l, "limit_reached") /\ ~Has(l, "compose")
    BY <2>1, <2>2 DEF Has
  <2> QED  BY <1>2, <1>3, <1>5, <2>2, <2>3, <2>4, ResearchAssumption DEF l
<1> QED  BY <1>4, <1>5

(* What the application sees of a step of the deterministic agent.           *)
FakeStep ==
    \/ UNCHANGED <<fake.steps, fake.deltas, fake.result>>
    \/ /\ fake.result = None /\ fake'.result = None
       /\ Prefix(fake.steps, fake'.steps) /\ fake'.deltas = fake.deltas
    \/ /\ fake.result = None /\ fake'.result = None
       /\ Has(fake.steps, "compose")
       /\ fake'.deltas = fake.deltas + 1 /\ fake'.steps = fake.steps
    \/ /\ fake.result = None /\ fake'.result # None
       /\ Prefix(fake.steps, fake'.steps) /\ fake'.deltas = fake.deltas
       /\ fake'.result.finish # "error" => Ended(fake', fake'.result)

LEMMA FakeNext == FakeInv /\ Fake!Next => FakeInv' /\ FakeStep
<1> SUFFICES ASSUME FakeInv, Fake!Next PROVE FakeInv' /\ FakeStep
  OBVIOUS
<1> DEFINE l == fake.steps
           o == fake.outcome
           script == Fake!Script(o)
<1>0. /\ fake \in FakeType /\ o \in Outcomes /\ l \in FakeSteps
      /\ Len(l) <= Len(script) /\ \A i \in DOMAIN l : l[i] = script[i]
      /\ script \in FakeSteps
  BY ScriptIs DEF FakeInv, FakeType
<1>p. Prefix(l, l)
  BY <1>0 DEF Prefix, FakeSteps
<1>1. CASE Fake!OnStep
  <2> DEFINE m == Append(l, script[Len(l) + 1])
  <2>1. /\ fake' = [fake EXCEPT !.steps = m] /\ fake.result = None /\ Len(l) # Len(script)
    BY <1>0, <1>1 DEF Fake!OnStep, Fake!Running, Fake!Told, FakeType
  <2>2. /\ Len(l) + 1 \in DOMAIN script
        /\ script[Len(l) + 1] \in [kind : Kinds, doc : {None, LocalTestDocument}]
    <3> DEFINE S == [kind : Kinds, doc : {None, LocalTestDocument}]
    <3>1. l \in Seq(S) /\ script \in Seq(S) /\ Len(l) <= Len(script) /\ Len(l) # Len(script)
      BY <1>0, <2>1 DEF FakeSteps
    <3> HIDE DEF l, script, S
    <3>2. Len(l) \in Nat /\ Len(script) \in Nat /\ Len(l) + 1 \in 1..Len(script)
      BY <3>1
    <3>3. Len(l) + 1 \in DOMAIN script /\ script[Len(l) + 1] \in S
      BY <3>1, <3>2
    <3> QED  BY <3>3 DEF S
  <2>3. /\ m \in FakeSteps /\ Len(m) <= Len(script) /\ Prefix(l, m)
        /\ \A i \in DOMAIN m : m[i] = script[i]
    <3> HIDE DEF l, script
    <3>1. /\ m \in FakeSteps /\ Len(m) = Len(l) + 1 /\ m[Len(l) + 1] = script[Len(l) + 1]
          /\ DOMAIN m = 1..(Len(l) + 1) /\ DOMAIN l = 1..Len(l) /\ Len(l) \in Nat
          /\ \A i \in DOMAIN l : m[i] = l[i]
      BY <1>0, <2>2 DEF FakeSteps
    <3> HIDE DEF m
    <3>2. \A i \in DOMAIN m : i \in DOMAIN l \/ i = Len(l) + 1
      BY <3>1
    <3>3. Len(script) \in Nat /\ Len(m) <= Len(script)
      BY <1>0, <2>1, <3>1 DEF FakeSteps
    <3> QED  BY <1>0, <3>1, <3>2, <3>3 DEF Prefix
  <2> HIDE DEF m
  <2>4. /\ fake' \in FakeType /\ fake'.steps = m /\ fake'.outcome = o
        /\ fake'.deltas = fake.deltas /\ fake'.result = fake.result
    BY <1>0, <2>1, <2>3 DEF FakeType
  <2> QED  BY <2>1, <2>3, <2>4 DEF FakeInv, FakeStep
<1>2. CASE Fake!OnDelta
  <2>1. /\ fake' = [fake EXCEPT !.deltas = @ + 1] /\ fake.result = None /\ Fake!Told
        /\ fake.deltas < Fake!Chunks(o)
    BY <1>2 DEF Fake!OnDelta, Fake!Running
  <2>2. o \in Sourced
    BY <1>0, <2>1 DEF Fake!Chunks, Fake!Sourced, Sourced, FakeType
  <2>3. /\ fake' \in FakeType /\ fake'.steps = l /\ fake'.outcome = o
        /\ fake'.deltas = fake.deltas + 1 /\ fake'.result = fake.result
    BY <1>0, <2>1 DEF FakeType
  <2>4. Has(l, "compose")
    BY <2>1, <2>2, FakeRules
  <2> QED  BY <1>0, <2>1, <2>3, <2>4 DEF FakeInv, FakeStep
<1>3. CASE Fake!Finish
  <2> DEFINE r == Fake!ResultFor(o)
  <2>1. fake' = [fake EXCEPT !.result = r] /\ fake.result = None /\ Fake!Told
    BY <1>3 DEF Fake!Finish, Fake!Running
  <2>2. /\ fake' \in FakeType /\ fake'.steps = l /\ fake'.outcome = o
        /\ fake'.deltas = fake.deltas /\ fake'.result = r
    BY <1>0, <2>1 DEF FakeType
  <2>3. r # None
    BY <1>0, BoundAssumption
  <2>4. Ended(fake', r)
    <3>1. CheckOutcomeFields(r) /\ r.outcome = o /\ r.truncated = FALSE
          /\ r.sources = IF o \in Sourced THEN {LocalTestDocument} ELSE {}
      BY <1>0 DEF Fake!ResultFor, Fake!Sourced, CheckOutcomeFields, Outcomes, Sourced
    <3>2. \A d \in r.sources : Read(fake', d)
      BY <2>1, <2>2, <3>1, FakeRules DEF Read
    <3> HIDE DEF r
    <3> QED  BY <2>1, <2>2, <3>1, <3>2, FakeRules DEF Ended
  <2> HIDE DEF r
  <2> QED  BY <1>0, <1>p, <2>1, <2>2, <2>3, <2>4 DEF FakeInv, FakeStep
<1>4. CASE Fake!Abort
  <2>1. fake' = [fake EXCEPT !.aborted = TRUE]
    BY <1>4 DEF Fake!Abort
  <2>2. /\ fake' \in FakeType /\ fake'.steps = l /\ fake'.outcome = o
        /\ fake'.deltas = fake.deltas /\ fake'.result = fake.result
    BY <1>0, <2>1 DEF FakeType
  <2> QED  BY <1>0, <2>2 DEF FakeInv, FakeStep
<1>5. CASE Fake!Interrupted
  <2>1. fake' = [fake EXCEPT !.result = Fake!Incomplete] /\ fake.result = None
    BY <1>5 DEF Fake!Interrupted
  <2>2. /\ fake' \in FakeType /\ fake'.steps = l /\ fake'.outcome = o
        /\ fake'.deltas = fake.deltas /\ fake'.result = Fake!Incomplete
    BY <1>0, <2>1 DEF FakeType
  <2>3. Fake!Incomplete # None /\ Fake!Incomplete.finish = "error"
    BY <1>0, BoundAssumption DEF Fake!Incomplete
  <2> QED  BY <1>0, <1>p, <2>1, <2>2, <2>3 DEF FakeInv, FakeStep
<1> QED  BY <1>1, <1>2, <1>3, <1>4, <1>5 DEF Fake!Next, Fake!Proceed

-----------------------------------------------------------------------------
(* The rules of a log in AgentPort's own words.                              *)
LEMMA WellFormedIs ==
    ASSUME NEW l, Rules(l), Len(l) <= MaxToolCalls + 3
    PROVE  Agent!WellFormed(l)
BY DEF Agent!WellFormed, Agent!At, Agent!ToolKinds, Rules, Tools

LEMMA PrefixIs ==
    ASSUME NEW S, NEW l \in Seq(S), NEW m \in Seq(S), Prefix(l, m)
    PROVE  Agent!IsPrefix(l, m)
<1>1. Len(l) \in Nat /\ Len(m) \in Nat /\ Len(l) <= Len(m)
  BY DEF Prefix
<1>2. SubSeq(l, 1, Len(l)) = SubSeq(m, 1, Len(l))
  BY <1>1 DEF Prefix
<1> QED  BY <1>1, <1>2 DEF Agent!IsPrefix

LEMMA ValidIs ==
    ASSUME NEW s, NEW r, Ended(s, r)
    PROVE  Agent!Valid(s.steps, r)
<1>1. Agent!CheckOutcomeFields(r) /\ Agent!Sourced = Sourced
  BY DEF Ended, Agent!CheckOutcomeFields, CheckOutcomeFields, Agent!Sourced, Sourced,
         Agent!Outcomes, Outcomes
<1>2. \A kind : Agent!At(s.steps, kind) # {} <=> Has(s.steps, kind)
  BY DEF Agent!At, Has
<1>3. r.sources \subseteq Agent!ReadIn(s.steps)
  <2> SUFFICES ASSUME NEW d \in r.sources PROVE d \in Agent!ReadIn(s.steps)
    OBVIOUS
  <2>1. PICK j \in DOMAIN s.steps : s.steps[j] = [kind |-> "wiki_read", doc |-> d]
    BY DEF Ended, Read
  <2>2. j \in Agent!At(s.steps, "wiki_read") /\ s.steps[j].doc = d
    BY <2>1 DEF Agent!At
  <2> QED  BY <2>2 DEF Agent!ReadIn
<1> QED  BY <1>1, <1>2, <1>3 DEF Ended, Agent!Valid

-----------------------------------------------------------------------------
(* Each agent keeps its own invariant, and the one that is not bound stays as
   it began.                                                                 *)
BoundInv == IInv /\ PortInv /\ FakeInv

LEMMA BoundInit_Inv == BoundInit => BoundInv
<1> SUFFICES ASSUME BoundInit PROVE BoundInv
  OBVIOUS
<1>1. IInv /\ PortInv
  BY InitSound, InitPort DEF BoundInit
<1>2. PICK o \in Outcomes : fake = Fake!Started(o)
  BY DEF BoundInit, Fake!Init, Fake!Outcomes, Outcomes
<1>3. /\ fake \in FakeType /\ fake.steps = <<>> /\ fake.outcome = o
  BY <1>2 DEF Fake!Started, FakeType, FakeSteps
<1>4. Len(Fake!Script(o)) \in Nat
  BY ScriptIs DEF FakeSteps
<1>5. FakeInv
  BY <1>3, <1>4 DEF FakeInv
<1> QED  BY <1>1, <1>5 DEF BoundInv

LEMMA BoundStep ==
    BoundInv /\ [BoundNext]_boundVars =>
        /\ BoundInv' /\ agent' = agent
        /\ agent = "fake" => FakeStep
        /\ agent # "fake" => PortStep
<1> SUFFICES ASSUME BoundInv, [BoundNext]_boundVars
             PROVE  /\ BoundInv' /\ agent' = agent
                    /\ agent = "fake" => FakeStep
                    /\ agent # "fake" => PortStep
  OBVIOUS
<1>1. CASE FakeRun
  <2>1. FakeInv' /\ FakeStep
    BY <1>1, FakeNext DEF FakeRun, BoundInv
  <2>2. IInv' /\ PortInv'
    BY <1>1, StepKeeps, NextPort DEF FakeRun, BoundInv
  <2> QED  BY <1>1, <2>1, <2>2 DEF FakeRun, BoundInv
<1>2. CASE SidecarRun \/ UNCHANGED boundVars
  <2>1. [Next]_vars /\ UNCHANGED <<agent, fake>>
    BY <1>2 DEF SidecarRun, boundVars
  <2>2. IInv' /\ PortInv' /\ PortStep
    BY <2>1, StepKeeps, NextPort DEF BoundInv
  <2>3. FakeInv' /\ (agent = "fake" => FakeStep)
    <3>1. FakeInv'
      BY <2>1 DEF BoundInv, FakeInv
    <3>2. agent = "fake" => UNCHANGED boundVars
      BY <1>2 DEF SidecarRun
    <3> QED  BY <2>1, <3>1, <3>2 DEF FakeStep
  <2> QED  BY <2>1, <2>2, <2>3 DEF BoundInv
<1> QED  BY <1>1, <1>2 DEF BoundNext

(* Both logs are within the port's budget, the tool calls' steps by the number
   of the calls and the deterministic agent's by the length of its script.   *)
LogsWellFormed == Agent!WellFormed(fake.steps) /\ Agent!WellFormed(state.steps)

LEMMA BoundLogs == BoundInv => LogsWellFormed
<1> SUFFICES ASSUME BoundInv PROVE LogsWellFormed
  OBVIOUS
<1>1. Agent!WellFormed(fake.steps)
  BY FakeRules, WellFormedIs DEF BoundInv
<1>2. Len(state.steps) <= MaxToolCalls + 3
  <2>1. /\ Len(state.steps) \in Nat /\ state.toolCalls \in Nat
        /\ state.toolCalls <= MaxToolCalls /\ MaxToolCalls \in Nat
    BY ResearchAssumption DEF BoundInv, IInv, Sound, StateType
  <2>2. Len(state.steps) <= state.toolCalls + One(state.limitHit) + One(state.decision # None)
                              + One(Has(state.steps, "compose"))
    BY DEF BoundInv, PortInv, LogInv
  <2>3. \A b : One(b) \in Nat /\ One(b) <= 1
    BY DEF One
  <2> HIDE DEF One
  <2> QED  BY <2>1, <2>2, <2>3
<1>3. Agent!WellFormed(state.steps)
  BY <1>2, WellFormedIs DEF BoundInv, PortInv, LogInv
<1> QED  BY <1>1, <1>3 DEF LogsWellFormed

(* A step of whichever agent is bound is one of the port, or none.           *)
LEMMA FakeIsAgent ==
    ASSUME FakeInv, FakeInv', LogsWellFormed', agent = "fake", agent' = agent, FakeStep
    PROVE  [Agent!Next]_(Agent!vars)
<1> DEFINE S == [kind : Kinds, doc : {None, LocalTestDocument}]
<1>1. fake.steps \in Seq(S) /\ fake'.steps \in Seq(S)
  BY DEF FakeInv, FakeType, FakeSteps
<1>2. Agent!WellFormed(fake'.steps)
  BY DEF LogsWellFormed
<1>3. Prefix(fake.steps, fake'.steps) => Agent!IsPrefix(fake.steps, fake'.steps)
  <2> HIDE DEF S
  <2> QED  BY <1>1, PrefixIs
<1>4. /\ Bound(fake.steps, state.steps) = fake.steps
      /\ Bound(fake.deltas, deltas) = fake.deltas
      /\ Bound(fake.result, result) = fake.result
      /\ Bound(fake.steps, state.steps)' = fake'.steps
      /\ Bound(fake.deltas, deltas)' = fake'.deltas
      /\ Bound(fake.result, result)' = fake'.result
  BY DEF Bound
<1>5. Has(fake.steps, "compose") => Agent!At(fake.steps, "compose") # {}
  BY DEF Has, Agent!At
<1>6. \A r : Ended(fake', r) => Agent!Valid(fake'.steps, r)
  BY ValidIs
<1>7. CASE UNCHANGED <<fake.steps, fake.deltas, fake.result>>
  BY <1>4, <1>7 DEF Agent!vars
<1>8. CASE /\ fake.result = None /\ fake'.result = None
           /\ Prefix(fake.steps, fake'.steps) /\ fake'.deltas = fake.deltas
  BY <1>2, <1>3, <1>4, <1>8 DEF Agent!vars, Agent!Next, Agent!Announce, Agent!Announced
<1>9. CASE /\ fake.result = None /\ fake'.result = None
           /\ Has(fake.steps, "compose")
           /\ fake'.deltas = fake.deltas + 1 /\ fake'.steps = fake.steps
  BY <1>4, <1>5, <1>9 DEF Agent!Next, Agent!Delta
<1>10. CASE /\ fake.result = None /\ fake'.result # None
            /\ Prefix(fake.steps, fake'.steps) /\ fake'.deltas = fake.deltas
            /\ fake'.result.finish # "error" => Ended(fake', fake'.result)
  BY <1>2, <1>3, <1>4, <1>6, <1>10 DEF Agent!Next, Agent!End, Agent!Announced
<1> QED  BY <1>7, <1>8, <1>9, <1>10 DEF FakeStep

LEMMA SidecarIsAgent ==
    ASSUME PortInv, PortInv', LogsWellFormed', agent # "fake", agent' = agent, PortStep
    PROVE  [Agent!Next]_(Agent!vars)
<1>1. state.steps \in Seq(StepType) /\ state'.steps \in Seq(StepType)
  BY DEF PortInv, LogInv, StateType
<1>2. Agent!WellFormed(state'.steps)
  BY DEF LogsWellFormed
<1>3. Prefix(state.steps, state'.steps) => Agent!IsPrefix(state.steps, state'.steps)
  BY <1>1, PrefixIs
<1>4. /\ Bound(fake.steps, state.steps) = state.steps
      /\ Bound(fake.deltas, deltas) = deltas
      /\ Bound(fake.result, result) = result
      /\ Bound(fake.steps, state.steps)' = state'.steps
      /\ Bound(fake.deltas, deltas)' = deltas'
      /\ Bound(fake.result, result)' = result'
  BY DEF Bound
<1>5. Has(state.steps, "compose") => Agent!At(state.steps, "compose") # {}
  BY DEF Has, Agent!At
<1>6. \A r : Ended(state', r) => Agent!Valid(state'.steps, r)
  BY ValidIs
<1>7. CASE Still
  BY <1>4, <1>7 DEF Agent!vars, Still
<1>8. CASE Quiet
  BY <1>2, <1>3, <1>4, <1>8
     DEF Quiet, Agent!vars, Agent!Next, Agent!Announce, Agent!Announced
<1>9. CASE Streams
  BY <1>4, <1>5, <1>9 DEF Streams, Agent!Next, Agent!Delta
<1>10. CASE Ends
  BY <1>2, <1>3, <1>4, <1>6, <1>10 DEF Ends, Agent!Next, Agent!End, Agent!Announced
<1> QED  BY <1>7, <1>8, <1>9, <1>10 DEF PortStep

LEMMA BoundInductive == BoundSpec => []BoundInv
<1>1. BoundInv /\ [BoundNext]_boundVars => BoundInv'
  BY BoundStep
<1> QED  BY BoundInit_Inv, <1>1, PTL DEF BoundSpec

(* For every Wiki, budget, model answer and moment of an abort, and whichever
   agent the settings bind, what the application sees is AgentPort's machine:
   steps in the documented order and at most three more than the tool calls,
   text only once composing was announced, one end, and unless that is an
   error it passes AgentResultV1 and cites documents a step announced.  It is
   the safety half of ImplementsAgentPort; that the end comes is checked by
   its run.                                                                  *)
THEOREM EitherAgentIsThePort == BoundSpec => Agent!Safety
<1>1. BoundInit => Agent!Init
  BY DEF BoundInit, Init, NewRunState, Fake!Init, Fake!Started, Agent!Init, Bound
<1>2. BoundInv /\ BoundInv' /\ LogsWellFormed' /\ [BoundNext]_boundVars
        => [Agent!Next]_(Agent!vars)
  BY BoundStep, FakeIsAgent, SidecarIsAgent DEF BoundInv
<1> QED  BY <1>1, <1>2, BoundInductive, BoundLogs, PTL DEF BoundSpec, Agent!Safety

(* AD-29 as the run checks it, whichever agent is bound.                     *)
THEOREM BoundAnswersAreSourced == BoundSpec => []AnswerCitesWhatItSaw
<1>1. BoundInv => AnswerCitesWhatItSaw
  BY DEF BoundInv, IInv, AnswerCitesWhatItSaw, Read
<1> QED  BY <1>1, BoundInductive, PTL
=============================================================================
