------------------------- MODULE Conversation_proofs -------------------------
(***************************************************************************)
(* For every set of Runs, keys and texts and every value of the limits: at *)
(* most one Run is live; every log ends inside the Replay ceilings and in  *)
(* the documented order; a Purged Conversation stays empty, and until then *)
(* what was committed stays; a Retry goes on where its lineage stopped and *)
(* sends its request again; the transcript tells what the Runs came to;    *)
(* and the aggregate implements the life cycle a client may rely on.       *)
(***************************************************************************)
EXTENDS Conversation, FiniteSetTheorems, TLAPS

-----------------------------------------------------------------------------
(* The events and the tails are what the log may hold, and how long they are. *)
LEMMA EventTyped ==
    ASSUME NEW n \in Nat, NEW type \in EventNames
    PROVE  Event(n, type) \in EventType
BY DEF Event, EventType, EventStates

LEMMA StatusTyped ==
    ASSUME NEW n \in Nat, NEW s \in EventStates
    PROVE  Status(n, s) \in EventType
BY DEF Status, EventType, Event, EventNames

LEMMA StreamEndTyped ==
    ASSUME NEW n \in Nat, NEW s \in EventStates
    PROVE  StreamEnd(n, s) \in EventType
BY DEF StreamEnd, EventType, Event, EventNames

LEMMA TailsTyped ==
    ASSUME NEW n \in Nat, NEW s \in EventStates
    PROVE  /\ FailureTail(n, s) \in Seq(EventType) /\ Len(FailureTail(n, s)) = 4
           /\ CancelTail(n) \in Seq(EventType) /\ Len(CancelTail(n)) = 3
           /\ AnswerTail(n) \in Seq(EventType) /\ Len(AnswerTail(n)) = 4
           /\ ExpiryTail(n) \in Seq(EventType) /\ Len(ExpiryTail(n)) = 2
<1> DEFINE typed(e) == e \in EventType
<1>0. n + 1 \in Nat /\ n + 2 \in Nat /\ n + 3 \in Nat
  OBVIOUS
<1>s. /\ "cancelled" \in EventStates /\ "completed" \in EventStates
      /\ "expired" \in EventStates
  BY DEF EventStates, EndStates
<1>1. /\ typed(Event(n, "message.discarded")) /\ typed(Event(n, "message.sources"))
      /\ typed(Event(n, "conversation.expired")) /\ typed(Event(n + 1, "run.error"))
      /\ typed(Event(n + 1, "message.completed"))
  BY EventTyped DEF EventNames
<1>2. /\ typed(Status(n + 2, s)) /\ typed(Status(n + 1, "cancelled"))
      /\ typed(Status(n + 2, "completed"))
  BY <1>0, <1>s, StatusTyped
<1>3. /\ typed(StreamEnd(n + 3, s)) /\ typed(StreamEnd(n + 2, "cancelled"))
      /\ typed(StreamEnd(n + 3, "completed")) /\ typed(StreamEnd(n + 1, "expired"))
  BY <1>0, <1>s, StreamEndTyped
<1> HIDE DEF typed
<1>4. \A e : typed(e) => e \in EventType
  BY DEF typed
<1>5. FailureTail(n, s) \in Seq(EventType) /\ Len(FailureTail(n, s)) = 4
  BY <1>1, <1>2, <1>3, <1>4 DEF FailureTail
<1>6. CancelTail(n) \in Seq(EventType) /\ Len(CancelTail(n)) = 3
  BY <1>1, <1>2, <1>3, <1>4 DEF CancelTail
<1>7. AnswerTail(n) \in Seq(EventType) /\ Len(AnswerTail(n)) = 4
  BY <1>1, <1>2, <1>3, <1>4 DEF AnswerTail
<1>8. ExpiryTail(n) \in Seq(EventType) /\ Len(ExpiryTail(n)) = 2
  BY <1>1, <1>2, <1>3, <1>4 DEF ExpiryTail
<1> QED  BY <1>5, <1>6, <1>7, <1>8

(* _record extends the log by exactly what it is given and changes nothing but
   the log and the bytes.                                                    *)
LEMMA RecordExtends ==
    ASSUME NEW run \in RunType, NEW events \in Seq(EventType), NEW size \in Nat
    PROVE  /\ Record(run, events, size) \in RunType
           /\ Record(run, events, size).state = run.state
           /\ Record(run, events, size).log = run.log \o events
           /\ Len(Record(run, events, size).log) = Len(run.log) + Len(events)
           /\ Record(run, events, size).bytes = run.bytes + size
<1>1. /\ run.log \o events \in Seq(EventType)
      /\ Len(run.log \o events) = Len(run.log) + Len(events)
      /\ run.bytes + size \in Nat
  BY DEF RunType
<1> QED  BY <1>1 DEF Record, RunType

LEMMA SizesAreNat ==
    ASSUME TypeOK
    PROVE  /\ {MaxTurns, MaxAttempts, MaxReplayEvents, MaxReplayBytes, MaxOutputBytes,
               Envelope, ByteHeadroom} \subseteq Nat
           /\ \A t \in Texts : t.raw \in Nat /\ t.json \in Nat
           /\ \A s \in StepSizes \cup SourcesSizes : s \in Nat
           /\ \A r \in Runs : /\ runs[r] \in RunType
                              /\ runs[r].log \in Seq(EventType) /\ Len(runs[r].log) \in Nat
                              /\ runs[r].bytes \in Nat /\ runs[r].steps \in Nat
                              /\ runs[r].buffer.raw \in Nat /\ runs[r].buffer.json \in Nat
                              /\ NextSeq(runs[r]) \in Nat
<1>1. /\ \A t \in Texts : t.raw \in Nat /\ t.json \in Nat
      /\ \A s \in StepSizes \cup SourcesSizes : s \in Nat
  BY InputsAssumption
<1>2. ASSUME NEW r \in Runs
      PROVE  /\ runs[r] \in RunType /\ runs[r].log \in Seq(EventType)
             /\ runs[r].bytes \in Nat /\ runs[r].steps \in Nat
             /\ runs[r].buffer.raw \in Nat /\ runs[r].buffer.json \in Nat
  <2>1. runs[r] \in RunType
    BY DEF TypeOK
  <2> QED  BY <2>1 DEF RunType
<1>3. \A r \in Runs : Len(runs[r].log) \in Nat /\ NextSeq(runs[r]) \in Nat
  BY <1>2 DEF NextSeq
<1> QED  BY <1>1, <1>2, <1>3, LimitsAssumption

-----------------------------------------------------------------------------
(* What every commit does to its Run: the state it moves to, the events and the
   bytes it adds.  `Moves` is all the invariants need of an action.          *)
Moves(r, s, events, size) ==
    /\ runs[r].state \in LiveStates /\ resident /\ activeRun = r /\ ~expired
    /\ runs' = [runs EXCEPT ![r] = runs'[r]]
    /\ runs'[r] \in RunType /\ runs'[r].state = s
    /\ Len(runs'[r].log) = Len(runs[r].log) + events
    /\ runs'[r].bytes = runs[r].bytes + size
    /\ UNCHANGED <<receipts, resident, expired, overdue, tombstone, selected>>
Extends(r, s, events, size) ==
    Moves(r, s, events, size) /\ UNCHANGED <<messages, activeRun>>
Ends(r, s, events, size) ==
    /\ Moves(r, s, events, size) /\ s \in EndStates /\ activeRun' = None
    /\ messages' \in Seq([role : {"user", "assistant"}, run : Runs])

LEMMA CommitMoves ==
    ASSUME TypeOK, NEW r \in Runs, NEW run \in RunType, NEW events \in Seq(EventType),
           NEW size \in Nat, NEW states \in SUBSET LiveStates,
           Fenced(r, states), Commit(r, Record(run, events, size)), UNCHANGED selected,
           run.log = runs[r].log, run.bytes = runs[r].bytes
    PROVE  Moves(r, run.state, Len(events), size)
<1> DEFINE new == Record(run, events, size)
<1>1. runs'[r] = new /\ runs' = [runs EXCEPT ![r] = new]
  BY DEF Commit, TypeOK
<1>2. /\ new \in RunType /\ new.state = run.state /\ new.bytes = run.bytes + size
      /\ Len(new.log) = Len(run.log) + Len(events)
  BY RecordExtends
<1>3. /\ runs[r].state \in LiveStates /\ resident /\ activeRun = r /\ ~expired
      /\ UNCHANGED <<receipts, resident, expired, overdue, tombstone>>
  BY DEF Fenced, Commit
<1> HIDE DEF new
<1> QED  BY <1>1, <1>2, <1>3 DEF Moves

LEMMA MarkRunningMoves ==
    ASSUME TypeOK, NEW r \in Runs, MarkRunning(r)
    PROVE  /\ runs[r].state = "queued"
           /\ Extends(r, "running", 1, Envelope)
<1> DEFINE run == [runs[r] EXCEPT !.state = "running"]
           events == <<Status(1, "running")>>
<1>1. run \in RunType /\ run.log = runs[r].log /\ run.bytes = runs[r].bytes /\ run.state = "running"
  BY SizesAreNat DEF RunType, LiveStates
<1>2. events \in Seq(EventType) /\ Len(events) = 1
  <2>1. Status(1, "running") \in EventType
    BY StatusTyped DEF EventStates, LiveStates
  <2> QED  BY <2>1
<1>3. /\ Fenced(r, {"queued"}) /\ Commit(r, Record(run, events, Envelope))
      /\ UNCHANGED <<selected, messages, activeRun>>
  BY DEF MarkRunning, Extend
<1>4. Envelope \in Nat /\ {"queued"} \in SUBSET LiveStates
  BY SizesAreNat DEF LiveStates
<1>5. Moves(r, run.state, Len(events), Envelope)
  <2> HIDE DEF run, events
  <2> QED  BY <1>1, <1>2, <1>3, <1>4, CommitMoves
<1> QED  BY <1>1, <1>2, <1>3, <1>5 DEF Extends, Fenced

LEMMA TruncatedMoves ==
    ASSUME TypeOK, NEW r \in Runs, Fenced(r, {"running"}),
           Extend(r, Record(runs[r], <<Event(2, "context.truncated")>>, Envelope))
    PROVE  Extends(r, "running", 1, Envelope)
<1> DEFINE events == <<Event(2, "context.truncated")>>
<1>1. events \in Seq(EventType) /\ Len(events) = 1
  <2>1. Event(2, "context.truncated") \in EventType
    BY EventTyped DEF EventNames
  <2> QED  BY <2>1
<1>2. /\ Fenced(r, {"running"}) /\ Commit(r, Record(runs[r], events, Envelope))
      /\ UNCHANGED <<selected, messages, activeRun>> /\ runs[r].state = "running"
  BY DEF Extend, Fenced
<1>3. Envelope \in Nat /\ runs[r] \in RunType /\ {"running"} \in SUBSET LiveStates
  BY SizesAreNat DEF LiveStates
<1>4. Moves(r, "running", Len(events), Envelope)
  <2> HIDE DEF events
  <2> QED  BY <1>1, <1>2, <1>3, CommitMoves
<1> QED  BY <1>1, <1>2, <1>4 DEF Extends

LEMMA StepMoves ==
    ASSUME TypeOK, NEW r \in Runs, NEW s \in StepSizes, CommitStep(r, s)
    PROVE  /\ Extends(r, "running", 1, Envelope + s)
           /\ EventFits(runs[r])
           /\ runs[r].bytes + Envelope + s + ByteHeadroom <= MaxReplayBytes
<1> DEFINE run == [runs[r] EXCEPT !.steps = @ + 1]
           event == [Event(NextSeq(runs[r]), "agent.step") EXCEPT !.index = runs[r].steps + 1]
           events == <<event>>
<1>0. runs[r] \in RunType /\ NextSeq(runs[r]) \in Nat /\ runs[r].steps + 1 \in Nat
      /\ Envelope + s \in Nat
  BY SizesAreNat
<1>1. /\ run \in RunType /\ run.log = runs[r].log /\ run.bytes = runs[r].bytes
      /\ run.state = runs[r].state
  BY <1>0 DEF RunType
<1>2. events \in Seq(EventType) /\ Len(events) = 1
  <2>1. Event(NextSeq(runs[r]), "agent.step") \in EventType
    BY <1>0, EventTyped DEF EventNames
  <2>2. event \in EventType
    BY <1>0, <2>1 DEF EventType
  <2> HIDE DEF event
  <2> QED  BY <2>2
<1>3. /\ Fenced(r, {"running"}) /\ Commit(r, Record(run, events, Envelope + s))
      /\ UNCHANGED <<selected, messages, activeRun>> /\ runs[r].state = "running"
  BY DEF CommitStep, Extend, Fenced
<1>4. {"running"} \in SUBSET LiveStates
  BY DEF LiveStates
<1>5. Moves(r, run.state, Len(events), Envelope + s)
  <2> HIDE DEF run, events
  <2> QED  BY <1>0, <1>1, <1>2, <1>3, <1>4, CommitMoves
<1> QED  BY <1>1, <1>2, <1>3, <1>5 DEF Extends, CommitStep

LEMMA DeltaMoves ==
    ASSUME TypeOK, NEW r \in Runs, NEW t \in Texts, CommitDelta(r, t)
    PROVE  /\ Extends(r, "running", 1, TextSize(t.json))
           /\ DeltaFits(runs[r], t)
<1> DEFINE run == [runs[r] EXCEPT !.buffer = [raw |-> @.raw + t.raw, json |-> @.json + t.json]]
           events == <<Event(NextSeq(runs[r]), "message.delta")>>
<1>0. /\ runs[r] \in RunType /\ NextSeq(runs[r]) \in Nat /\ TextSize(t.json) \in Nat
      /\ runs[r].buffer.raw + t.raw \in Nat /\ runs[r].buffer.json + t.json \in Nat
  <2>1. /\ runs[r] \in RunType /\ NextSeq(runs[r]) \in Nat /\ Envelope \in Nat
        /\ t.raw \in Nat /\ t.json \in Nat
        /\ runs[r].buffer.raw \in Nat /\ runs[r].buffer.json \in Nat
    BY SizesAreNat
  <2> QED  BY <2>1 DEF TextSize
<1>1. /\ run \in RunType /\ run.log = runs[r].log /\ run.bytes = runs[r].bytes
      /\ run.state = runs[r].state
  BY <1>0 DEF RunType
<1>2. events \in Seq(EventType) /\ Len(events) = 1
  <2>1. Event(NextSeq(runs[r]), "message.delta") \in EventType
    BY <1>0, EventTyped DEF EventNames
  <2> QED  BY <2>1
<1>3. /\ Fenced(r, {"running"}) /\ Commit(r, Record(run, events, TextSize(t.json)))
      /\ UNCHANGED <<selected, messages, activeRun>> /\ runs[r].state = "running"
  BY DEF CommitDelta, Extend, Fenced
<1>4. {"running"} \in SUBSET LiveStates
  BY DEF LiveStates
<1>5. Moves(r, run.state, Len(events), TextSize(t.json))
  <2> HIDE DEF run, events
  <2> QED  BY <1>0, <1>1, <1>2, <1>3, <1>4, CommitMoves
<1> QED  BY <1>1, <1>2, <1>3, <1>5 DEF Extends, CommitDelta

LEMMA AnswerMoves ==
    ASSUME TypeOK, NEW r \in Runs, NEW s \in SourcesSizes, CommitStreamCompleted(r, s)
    PROVE  /\ runs[r].state = "running"
           /\ AnswerFits(runs[r], s)
           /\ Ends(r, "completed", 4, 3 * Envelope + s + TextSize(runs[r].buffer.json))
<1> DEFINE run == [runs[r] EXCEPT !.state = "completed"]
           events == AnswerTail(NextSeq(runs[r]))
           size == 3 * Envelope + s + TextSize(runs[r].buffer.json)
<1>0. runs[r] \in RunType /\ NextSeq(runs[r]) \in Nat /\ size \in Nat
  <2>1. /\ runs[r] \in RunType /\ NextSeq(runs[r]) \in Nat /\ Envelope \in Nat
        /\ s \in Nat /\ runs[r].buffer.json \in Nat
    BY SizesAreNat
  <2> QED  BY <2>1 DEF TextSize
<1>1. /\ run \in RunType /\ run.log = runs[r].log /\ run.bytes = runs[r].bytes
      /\ run.state = "completed"
  BY <1>0 DEF RunType, EndStates
<1>2. events \in Seq(EventType) /\ Len(events) = 4
  BY <1>0, TailsTyped DEF EventStates, EndStates
<1>3. /\ Fenced(r, {"running"}) /\ Commit(r, Record(run, events, size))
      /\ UNCHANGED selected /\ activeRun' = None /\ runs[r].state = "running"
  BY DEF CommitStreamCompleted, Finish, Fenced
<1>4. {"running"} \in SUBSET LiveStates
  BY DEF LiveStates
<1>5. Moves(r, run.state, Len(events), size)
  <2> HIDE DEF run, events, size
  <2> QED  BY <1>0, <1>1, <1>2, <1>3, <1>4, CommitMoves
<1>6. messages' \in Seq([role : {"user", "assistant"}, run : Runs])
  BY DEF CommitStreamCompleted, TypeOK
<1> QED  BY <1>1, <1>2, <1>3, <1>5, <1>6 DEF Ends, CommitStreamCompleted, EndStates

LEMMA FailMoves ==
    ASSUME TypeOK, NEW r \in Runs, NEW s \in {"failed", "timeout"},
           NEW states \in SUBSET LiveStates, Fenced(r, states), Fail(r, s)
    PROVE  Ends(r, s, 4, 4 * Envelope)
<1> DEFINE run == [runs[r] EXCEPT !.state = s, !.buffer = Absent.buffer]
           events == FailureTail(NextSeq(runs[r]), s)
<1>0. runs[r] \in RunType /\ NextSeq(runs[r]) \in Nat /\ 4 * Envelope \in Nat
  BY SizesAreNat
<1>1. run \in RunType /\ run.log = runs[r].log /\ run.bytes = runs[r].bytes /\ run.state = s
  BY <1>0 DEF RunType, EndStates, Absent
<1>2. events \in Seq(EventType) /\ Len(events) = 4
  BY <1>0, TailsTyped DEF EventStates, EndStates
<1>3. /\ Commit(r, Record(run, events, 4 * Envelope))
      /\ UNCHANGED <<selected, messages>> /\ activeRun' = None
  BY DEF Fail, Finish
<1>5. Moves(r, run.state, Len(events), 4 * Envelope)
  <2> HIDE DEF run, events
  <2> QED  BY <1>0, <1>1, <1>2, <1>3, CommitMoves
<1> QED  BY <1>1, <1>2, <1>3, <1>5 DEF Ends, TypeOK, EndStates

LEMMA CancelMoves ==
    ASSUME TypeOK, NEW r \in Runs, CommitCancelled(r)
    PROVE  Ends(r, "cancelled", 3, 3 * Envelope)
<1> DEFINE run == [runs[r] EXCEPT !.state = "cancelled", !.buffer = Absent.buffer]
           events == CancelTail(NextSeq(runs[r]))
<1>0. runs[r] \in RunType /\ NextSeq(runs[r]) \in Nat /\ 3 * Envelope \in Nat
  BY SizesAreNat
<1>1. /\ run \in RunType /\ run.log = runs[r].log /\ run.bytes = runs[r].bytes
      /\ run.state = "cancelled"
  BY <1>0 DEF RunType, EndStates, Absent
<1>2. events \in Seq(EventType) /\ Len(events) = 3
  BY <1>0, TailsTyped DEF EventStates, EndStates
<1>3. /\ Commit(r, Record(run, events, 3 * Envelope)) /\ Fenced(r, LiveStates)
      /\ UNCHANGED <<selected, messages>> /\ activeRun' = None
  BY DEF CommitCancelled, Finish
<1>5. Moves(r, run.state, Len(events), 3 * Envelope)
  <2> HIDE DEF run, events
  <2> QED  BY <1>0, <1>1, <1>2, <1>3, CommitMoves
<1> QED  BY <1>1, <1>2, <1>3, <1>5 DEF Ends, TypeOK, EndStates

-----------------------------------------------------------------------------
(* The other three shapes a step can have: it admits a Run, it leaves every
   Run's state and log alone, or it purges.                                  *)
MessageSeq == Seq([role : {"user", "assistant"}, run : Runs])
Admits(r) ==
    /\ runs[r].state = "absent" /\ NoActiveRun /\ resident
    /\ runs' = [runs EXCEPT ![r] = runs'[r]]
    /\ runs'[r] \in RunType /\ runs'[r].state = "queued"
    /\ Len(runs'[r].log) = 0 /\ runs'[r].bytes = 0
    /\ activeRun' = r /\ messages' \in MessageSeq
    /\ receipts' \in [Keys -> [digest : Contents \cup Runs, run : Runs] \cup {None}]
    /\ UNCHANGED <<resident, expired, overdue, selected, tombstone>>
Keeps ==
    /\ runs' \in [Runs -> RunType]
    /\ \A r \in Runs : /\ runs'[r].state = runs[r].state
                       /\ Len(runs'[r].log) = Len(runs[r].log)
                       /\ runs'[r].bytes = runs[r].bytes
    /\ UNCHANGED <<messages, receipts, activeRun, resident>>
    /\ expired' \in BOOLEAN /\ overdue \subseteq overdue' /\ overdue' \subseteq Runs
    /\ selected' \in [Runs -> Request \cup {None}]
    /\ tombstone' \in {tombstone, None}
Purges ==
    /\ resident /\ runs' = [r \in Runs |-> Absent] /\ messages' = <<>>
    /\ activeRun' = None /\ receipts' = [k \in Keys |-> None] /\ ~resident'
    /\ tombstone' \in [run : Runs, tail : Seq(EventType)] \cup {None}
    /\ tombstone' = IF activeRun = None THEN None
                    ELSE [run |-> activeRun, tail |-> ExpiryTail(NextSeq(runs[activeRun]))]
    /\ resident' \in BOOLEAN /\ UNCHANGED <<expired, overdue, selected>>

LEMMA AbsentTyped == Absent \in RunType /\ Absent.state = "absent" /\ Len(Absent.log) = 0
                     /\ Absent.bytes = 0
BY DEF Absent, RunType

LEMMA QueuedTyped == "queued" \in {"absent"} \cup LiveStates \cup EndStates
BY DEF LiveStates

LEMMA QuestionAdmits ==
    ASSUME TypeOK, NEW k \in Keys, NEW c \in Contents, NEW r \in Runs, AcceptQuestion(k, c, r)
    PROVE  Admits(r)
<1> DEFINE run == [Absent EXCEPT !.state = "queued", !.question = r, !.attempt = 1]
<1>1. run \in RunType /\ run.state = "queued" /\ Len(run.log) = 0 /\ run.bytes = 0
  <2>1. 1 \in Nat /\ r \in Runs \cup {None}
    OBVIOUS
  <2> QED  BY <2>1, AbsentTyped, QueuedTyped DEF RunType
<1>2. runs[r].state = "absent" /\ NoActiveRun /\ resident
  BY DEF AcceptQuestion, Admissible, Accepted
<1>3. messages' \in MessageSeq
  BY DEF AcceptQuestion, TypeOK, MessageSeq
<1>4. Install(k, c, r, run)
  BY DEF AcceptQuestion
<1> HIDE DEF run
<1>5. runs' = [runs EXCEPT ![r] = run] /\ runs'[r] = run /\ activeRun' = r
      /\ UNCHANGED <<resident, expired, overdue, selected, tombstone>>
  BY <1>4 DEF Install, TypeOK
<1>6. receipts' \in [Keys -> [digest : Contents \cup Runs, run : Runs] \cup {None}]
  BY <1>4 DEF Install, TypeOK
<1> QED  BY <1>1, <1>2, <1>3, <1>5, <1>6 DEF Admits

LEMMA RetryAdmits ==
    ASSUME TypeOK, NEW k \in Keys, NEW t \in Runs, NEW r \in Runs, AcceptRetry(k, t, r)
    PROVE  Admits(r)
<1> DEFINE run == [Absent EXCEPT !.state = "queued", !.question = runs[t].question,
                                 !.attempt = runs[t].attempt + 1, !.retryOf = t,
                                 !.prepared = runs[t].prepared]
<1>1. run \in RunType /\ run.state = "queued" /\ Len(run.log) = 0 /\ run.bytes = 0
  <2>1. runs[t] \in RunType
    BY SizesAreNat
  <2>2. /\ runs[t].question \in Runs \cup {None} /\ runs[t].prepared \in Request \cup {None}
        /\ runs[t].attempt + 1 \in Nat
    BY <2>1 DEF RunType
  <2>3. t \in Runs \cup {None}
    OBVIOUS
  <2> QED  BY <2>2, <2>3, AbsentTyped, QueuedTyped DEF RunType
<1>2. runs[r].state = "absent" /\ NoActiveRun /\ resident
  BY DEF AcceptRetry, Admissible, Accepted
<1>3. messages' \in MessageSeq
  BY DEF AcceptRetry, TypeOK, MessageSeq
<1>4. Install(k, t, r, run)
  BY DEF AcceptRetry
<1> HIDE DEF run
<1>5. runs' = [runs EXCEPT ![r] = run] /\ runs'[r] = run /\ activeRun' = r
      /\ UNCHANGED <<resident, expired, overdue, selected, tombstone>>
  BY <1>4 DEF Install, TypeOK
<1>6. receipts' \in [Keys -> [digest : Contents \cup Runs, run : Runs] \cup {None}]
  BY <1>4 DEF Install, TypeOK
<1> QED  BY <1>1, <1>2, <1>3, <1>5, <1>6 DEF Admits

LEMMA SelectKeeps ==
    ASSUME TypeOK, NEW r \in Runs, NEW cut \in 0..Len(messages), SelectContext(r, cut)
    PROVE  Keeps
<1> DEFINE request == [turns |-> TurnsAfter(cut), dropped |-> TurnsAfter(cut) # CompletedTurns]
<1>1. request \in Request
  BY DEF Request, TurnsAfter, CompletedTurns, Questions, TypeOK
<1>2. selected' = [selected EXCEPT ![r] = request]
  BY DEF SelectContext
<1> HIDE DEF request
<1>3. selected' \in [Runs -> Request \cup {None}]
  BY <1>1, <1>2 DEF TypeOK
<1>4. UNCHANGED <<messages, runs, receipts, activeRun, resident, expired, overdue, tombstone>>
  BY DEF SelectContext
<1> QED  BY <1>3, <1>4 DEF Keeps, TypeOK

LEMMA RecordKeeps ==
    ASSUME TypeOK, NEW r \in Runs, RecordPreparedRequest(r)
    PROVE  Keeps
<1>1. /\ selected[r] \in Request
      /\ selected' \in [Runs -> Request \cup {None}]
      /\ UNCHANGED <<messages, receipts, activeRun, resident, expired, overdue, tombstone>>
  BY DEF RecordPreparedRequest, TypeOK
<1> DEFINE run == [runs[r] EXCEPT !.prepared = selected[r]]
<1>2. /\ run \in RunType /\ run.state = runs[r].state /\ run.log = runs[r].log
      /\ run.bytes = runs[r].bytes
  BY <1>1, SizesAreNat DEF RunType
<1>3. runs' = runs \/ runs' = [runs EXCEPT ![r] = run]
  BY DEF RecordPreparedRequest
<1> HIDE DEF run
<1>4. /\ runs' \in [Runs -> RunType]
      /\ \A q \in Runs : /\ runs'[q].state = runs[q].state
                         /\ Len(runs'[q].log) = Len(runs[q].log)
                         /\ runs'[q].bytes = runs[q].bytes
  BY <1>2, <1>3 DEF TypeOK
<1> QED  BY <1>1, <1>4 DEF Keeps, TypeOK

LEMMA ExpirePurges ==
    ASSUME TypeOK, Expire
    PROVE  Purges
<1>1. /\ resident /\ runs' = [r \in Runs |-> Absent] /\ messages' = <<>>
      /\ activeRun' = None /\ receipts' = [k \in Keys |-> None] /\ resident' = FALSE
      /\ UNCHANGED <<expired, overdue, selected>>
  BY DEF Expire
<1>2. tombstone' \in [run : Runs, tail : Seq(EventType)] \cup {None}
  <2>1. CASE activeRun = None
    BY <2>1 DEF Expire
  <2>2. CASE activeRun # None
    <3>1. activeRun \in Runs
      BY <2>2 DEF TypeOK
    <3>2. NextSeq(runs[activeRun]) \in Nat
      BY <3>1, SizesAreNat
    <3>3. ExpiryTail(NextSeq(runs[activeRun])) \in Seq(EventType)
      BY <3>2, TailsTyped DEF EventStates
    <3> QED  BY <2>2, <3>1, <3>3 DEF Expire
  <2> QED  BY <2>1, <2>2
<1>3. tombstone' = IF activeRun = None THEN None
                   ELSE [run |-> activeRun, tail |-> ExpiryTail(NextSeq(runs[activeRun]))]
  BY DEF Expire
<1> QED  BY <1>1, <1>2, <1>3 DEF Purges

(* The shapes of the commits, told apart by what they may assume of the room
   left in the log: only a running Run grows or is answered.                 *)
Starts(r) == runs[r].state = "queued" /\ Extends(r, "running", 1, Envelope)
GrowsByOne(r) ==
    \/ Len(runs[r].log) = 1 /\ Extends(r, "running", 1, Envelope)
    \/ \E s \in StepSizes :
          /\ Extends(r, "running", 1, Envelope + s)
          /\ EventFits(runs[r])
          /\ runs[r].bytes + Envelope + s + ByteHeadroom <= MaxReplayBytes
    \/ \E t \in Texts :
          Extends(r, "running", 1, TextSize(t.json)) /\ DeltaFits(runs[r], t)
Answers(r) ==
    \E s \in SourcesSizes :
       /\ runs[r].state = "running" /\ AnswerFits(runs[r], s)
       /\ Ends(r, "completed", 4, 3 * Envelope + s + TextSize(runs[r].buffer.json))
Closes(r) ==
    \/ \E s \in {"failed", "timeout"} : Ends(r, s, 4, 4 * Envelope)
    \/ Ends(r, "cancelled", 3, 3 * Envelope)
Grows(r) == runs[r].state = "running" /\ GrowsByOne(r)

(* The modules that compose a Conversation let its store take two steps more: a
   context.truncated whose request they do not model, and a Deadline that passes
   while its Run is running.  Every lemma about a step is about these too.     *)
Truncates(r) ==
    /\ Fenced(r, {"running"}) /\ Len(runs[r].log) = 1
    /\ Extend(r, Record(runs[r], <<Event(2, "context.truncated")>>, Envelope))
Rings ==
    /\ overdue \subseteq overdue' /\ overdue' \subseteq Runs
    /\ UNCHANGED <<messages, runs, receipts, activeRun, resident, expired, selected, tombstone>>
Wide == Next \/ (\E r \in Runs : Truncates(r)) \/ Rings

LEMMA NextIsWide == [Next]_vars => [Wide]_vars
BY DEF Wide

LEMMA StepShape ==
    ASSUME TypeOK, Wide
    PROVE  \/ \E r \in Runs : Admits(r) \/ Starts(r) \/ Grows(r) \/ Answers(r) \/ Closes(r)
           \/ Keeps \/ Purges
<1>1. ASSUME NEW k \in Keys, NEW r \in Runs,
             \/ \E c \in Contents : AcceptQuestion(k, c, r)
             \/ \E t \in Runs : AcceptRetry(k, t, r)
      PROVE  Admits(r)
  BY <1>1, QuestionAdmits, RetryAdmits
<1>2. ASSUME NEW r \in Runs, MarkRunning(r)
      PROVE  Starts(r)
  BY <1>2, MarkRunningMoves DEF Starts
<1>3. ASSUME NEW r \in Runs, \E cut \in 0..Len(messages) : SelectContext(r, cut)
      PROVE  Keeps
  BY <1>3, SelectKeeps
<1>4. ASSUME NEW r \in Runs, RecordPreparedRequest(r)
      PROVE  Keeps
  BY <1>4, RecordKeeps
<1>5. ASSUME NEW r \in Runs,
             \/ CommitContextTruncated(r) \/ Truncates(r)
             \/ \E s \in StepSizes : CommitStep(r, s)
             \/ \E t \in Texts : CommitDelta(r, t)
      PROVE  Grows(r)
  <2>1. runs[r].state = "running"
    BY <1>5 DEF CommitContextTruncated, Truncates, CommitStep, CommitDelta, Fenced
  <2>2. GrowsByOne(r)
    BY <1>5, TruncatedMoves, StepMoves, DeltaMoves DEF GrowsByOne, CommitContextTruncated, Truncates
  <2> QED  BY <2>1, <2>2 DEF Grows
<1>6. ASSUME NEW r \in Runs, \E s \in SourcesSizes : CommitStreamCompleted(r, s)
      PROVE  Answers(r)
  BY <1>6, AnswerMoves DEF Answers
<1>7. ASSUME NEW r \in Runs,
             \/ CommitStreamMismatch(r) \/ CommitStreamFailed(r) \/ CommitFailed(r)
             \/ CommitTimeout(r) \/ CommitCancelled(r)
      PROVE  Closes(r)
  <2>1. {"running"} \in SUBSET LiveStates /\ LiveStates \in SUBSET LiveStates
    BY DEF LiveStates
  <2>2. CASE CommitStreamMismatch(r)
    BY <2>1, <2>2, FailMoves DEF CommitStreamMismatch, Closes
  <2>3. CASE CommitStreamFailed(r)
    BY <2>1, <2>3, FailMoves DEF CommitStreamFailed, Closes
  <2>4. CASE CommitFailed(r)
    BY <2>1, <2>4, FailMoves DEF CommitFailed, Closes
  <2>5. CASE CommitTimeout(r)
    BY <2>1, <2>5, FailMoves DEF CommitTimeout, Closes
  <2>6. CASE CommitCancelled(r)
    BY <2>6, CancelMoves DEF Closes
  <2> QED  BY <1>7, <2>2, <2>3, <2>4, <2>5, <2>6
<1>8. ASSUME \/ \E r \in Runs : DeadlinePasses(r)
             \/ AbsoluteExpiry \/ ReapTombstone \/ Rings
      PROVE  Keeps
  BY <1>8 DEF DeadlinePasses, AbsoluteExpiry, ReapTombstone, Rings, Keeps, TypeOK
<1>9. ASSUME Expire
      PROVE  Purges
  BY <1>9, ExpirePurges
<1> QED  BY <1>1, <1>2, <1>3, <1>4, <1>5, <1>6, <1>7, <1>8, <1>9 DEF Wide, Next

-----------------------------------------------------------------------------
LEMMA MovesKeepsType ==
    ASSUME TypeOK, NEW r \in Runs, NEW s, NEW events, NEW size, Moves(r, s, events, size),
           activeRun' \in Runs \cup {None}, messages' \in MessageSeq
    PROVE  TypeOK'
<1>1. runs' \in [Runs -> RunType]
  BY DEF Moves, TypeOK
<1> QED  BY <1>1 DEF Moves, TypeOK, MessageSeq

LEMMA ExtendsKeepsType ==
    ASSUME TypeOK, NEW r \in Runs, NEW s, NEW events, NEW size, Extends(r, s, events, size)
    PROVE  TypeOK'
BY MovesKeepsType DEF Extends, TypeOK, MessageSeq

LEMMA EndsKeepsType ==
    ASSUME TypeOK, NEW r \in Runs, NEW s, NEW events, NEW size, Ends(r, s, events, size)
    PROVE  TypeOK'
BY MovesKeepsType DEF Ends, MessageSeq

LEMMA TypeStep ==
    ASSUME TypeOK, [Wide]_vars
    PROVE  TypeOK'
<1>1. ASSUME NEW r \in Runs, Admits(r) PROVE TypeOK'
  <2>1. runs' \in [Runs -> RunType]
    BY <1>1 DEF Admits, TypeOK
  <2> QED  BY <1>1, <2>1 DEF Admits, TypeOK, MessageSeq
<1>2. ASSUME NEW r \in Runs, Starts(r) \/ Grows(r) PROVE TypeOK'
  BY <1>2, ExtendsKeepsType DEF Starts, Grows, GrowsByOne
<1>3. ASSUME NEW r \in Runs, Answers(r) \/ Closes(r) PROVE TypeOK'
  BY <1>3, EndsKeepsType DEF Answers, Closes
<1>4. ASSUME Keeps PROVE TypeOK'
  BY <1>4 DEF Keeps, TypeOK
<1>5. ASSUME Purges PROVE TypeOK'
  <2>1. /\ runs' \in [Runs -> RunType]
        /\ receipts' \in [Keys -> [digest : Contents \cup Runs, run : Runs] \cup {None}]
        /\ messages' \in MessageSeq
    BY <1>5, AbsentTyped DEF Purges, MessageSeq
  <2> QED  BY <1>5, <2>1 DEF Purges, TypeOK, MessageSeq
<1>6. CASE UNCHANGED vars
  BY <1>6 DEF vars, TypeOK
<1> QED  BY <1>1, <1>2, <1>3, <1>4, <1>5, <1>6, StepShape

LEMMA TypeInit == Init => TypeOK
<1> SUFFICES ASSUME Init PROVE TypeOK
  OBVIOUS
<1>1. runs \in [Runs -> RunType]
  BY AbsentTyped DEF Init
<1>2. /\ receipts \in [Keys -> [digest : Contents \cup Runs, run : Runs] \cup {None}]
      /\ selected \in [Runs -> Request \cup {None}]
  BY DEF Init
<1>3. messages \in MessageSeq
  BY DEF Init, MessageSeq
<1>4. /\ activeRun \in Runs \cup {None} /\ resident \in BOOLEAN /\ expired \in BOOLEAN
      /\ overdue \subseteq Runs
      /\ tombstone \in [run : Runs, tail : Seq(EventType)] \cup {None}
  BY DEF Init
<1> QED  BY <1>1, <1>2, <1>3, <1>4 DEF TypeOK, MessageSeq

(* Type correctness of the aggregate, its logs and its receipts.             *)
THEOREM TypeCorrect == Spec => []TypeOK
BY TypeInit, TypeStep, NextIsWide, PTL DEF Spec

-----------------------------------------------------------------------------
(* At most one Run is live.  Inductive once the types are known: admission asks
   that the active Run has ended, and every ending clears active_run_id.     *)
LEMMA LiveStep ==
    ASSUME TypeOK, LiveRunIsActive, [Wide]_vars
    PROVE  LiveRunIsActive'
<1>n. None \notin Runs /\ \A q \in Runs : q # None
  BY InputsAssumption
<1>1. ASSUME NEW r \in Runs, Admits(r) PROVE LiveRunIsActive'
  <2>1. \A q \in Runs \ {r} : runs'[q] = runs[q] /\ runs[q].state \notin LiveStates
    BY <1>1 DEF Admits, LiveRunIsActive, NoActiveRun, TypeOK
  <2>2. runs'[r].state \in LiveStates /\ activeRun' = r
    BY <1>1 DEF Admits, LiveStates
  <2> QED  BY <2>1, <2>2 DEF LiveRunIsActive
<1>2. ASSUME NEW r \in Runs, Starts(r) \/ Grows(r) PROVE LiveRunIsActive'
  <2>1. /\ activeRun = r /\ activeRun' = r /\ runs'[r].state = "running"
        /\ \A q \in Runs \ {r} : runs'[q] = runs[q]
    BY <1>2 DEF Starts, Grows, GrowsByOne, Extends, Moves, TypeOK
  <2> QED  BY <2>1 DEF LiveRunIsActive, LiveStates
<1>3. ASSUME NEW r \in Runs, Answers(r) \/ Closes(r) PROVE LiveRunIsActive'
  <2>1. /\ activeRun = r /\ activeRun' = None /\ runs'[r].state \in EndStates
        /\ \A q \in Runs \ {r} : runs'[q] = runs[q]
    BY <1>3 DEF Answers, Closes, Ends, Moves, TypeOK, EndStates
  <2> QED  BY <1>n, <2>1 DEF LiveRunIsActive, LiveStates, EndStates
<1>4. ASSUME Keeps PROVE LiveRunIsActive'
  BY <1>4 DEF Keeps, LiveRunIsActive
<1>5. ASSUME Purges PROVE LiveRunIsActive'
  <2>1. activeRun' = None /\ \A q \in Runs : runs'[q].state = "absent"
    BY <1>5, AbsentTyped DEF Purges
  <2> QED  BY <1>n, <2>1 DEF LiveRunIsActive, LiveStates
<1>6. CASE UNCHANGED vars
  BY <1>6 DEF vars, LiveRunIsActive
<1> QED  BY <1>1, <1>2, <1>3, <1>4, <1>5, <1>6, StepShape

LEMMA LiveInit == Init => LiveRunIsActive
<1> SUFFICES ASSUME Init PROVE LiveRunIsActive
  OBVIOUS
<1>1. activeRun = None /\ \A q \in Runs : runs[q].state = "absent"
  BY AbsentTyped DEF Init
<1>2. \A q \in Runs : q # None
  BY InputsAssumption
<1> QED  BY <1>1, <1>2 DEF LiveRunIsActive, LiveStates

(* A live Run is the active one and the active Run is live, so at most one is. *)
THEOREM OneLiveRun == Spec => []LiveRunIsActive
BY TypeInit, TypeStep, LiveInit, LiveStep, NextIsWide, PTL DEF Spec

-----------------------------------------------------------------------------
(* A Purged Conversation stays empty: every other shape needs the aggregate to
   be resident or changes nothing a Purge emptied.                           *)
LEMMA PurgedStep ==
    ASSUME TypeOK, PurgedStaysEmpty, [Wide]_vars
    PROVE  PurgedStaysEmpty'
<1>1. ASSUME NEW r \in Runs,
             Admits(r) \/ Starts(r) \/ Grows(r) \/ Answers(r) \/ Closes(r)
      PROVE  PurgedStaysEmpty'
  <2>1. resident'
    BY <1>1 DEF Admits, Starts, Grows, GrowsByOne, Answers, Closes, Extends, Ends, Moves
  <2> QED  BY <2>1 DEF PurgedStaysEmpty
<1>2. ASSUME Keeps PROVE PurgedStaysEmpty'
  BY <1>2 DEF Keeps, PurgedStaysEmpty, Accepted
<1>3. ASSUME Purges PROVE PurgedStaysEmpty'
  BY <1>3, AbsentTyped DEF Purges, PurgedStaysEmpty, Accepted
<1>4. CASE UNCHANGED vars
  BY <1>4 DEF vars, PurgedStaysEmpty, Accepted
<1> QED  BY <1>1, <1>2, <1>3, <1>4, StepShape

(* After the Purge the aggregate is empty for good, whatever arrives late.   *)
THEOREM PurgeIsFinal == Spec => []PurgedStaysEmpty
<1>1. Init => PurgedStaysEmpty
  BY DEF Init, PurgedStaysEmpty
<1> QED  BY <1>1, PurgedStep, TypeInit, TypeStep, NextIsWide, PTL DEF Spec

-----------------------------------------------------------------------------
(* The Replay ceilings.  The invariant says nothing of where a log started, and
   context.truncated is the one event whose room the code does not check: it
   fits because only run.status can be before it.                            *)
LogStart ==
    \A r \in Runs :
        /\ runs[r].state = "queued" => Len(runs[r].log) = 0 /\ runs[r].bytes = 0
        /\ runs[r].state = "running" =>
               /\ Len(runs[r].log) >= 1
               /\ Len(runs[r].log) = 1 => runs[r].bytes = Envelope
Room(state) == IF state \in LiveStates THEN EventHeadroom ELSE 0
Ceiling(run) ==
    /\ Len(run.log) + Room(run.state) <= MaxReplayEvents
    /\ run.bytes + Room(run.state) * Envelope <= MaxReplayBytes
AllCeilings == \A r \in Runs : Ceiling(runs[r])

LEMMA Ceilings ==
    /\ AllCeilings => RunEndsInsideCeilings
    /\ 0 <= MaxReplayEvents /\ 0 <= MaxReplayBytes
<1>1. AllCeilings => RunEndsInsideCeilings
  BY DEF AllCeilings, Ceiling, Room, RunEndsInsideCeilings, Accepted
<1>2. 0 <= MaxReplayEvents /\ 0 <= MaxReplayBytes
  BY LimitsAssumption
<1> QED  BY <1>1, <1>2

LEMMA StartStep ==
    ASSUME TypeOK, LogStart, [Wide]_vars
    PROVE  LogStart'
<1> DEFINE Good(run) ==
        /\ run.state = "queued" => Len(run.log) = 0 /\ run.bytes = 0
        /\ run.state = "running" =>
               /\ Len(run.log) >= 1
               /\ Len(run.log) = 1 => run.bytes = Envelope
<1>0. \A r \in Runs : Good(runs[r])
  BY DEF LogStart
<1>g. (\A r \in Runs : Good(runs'[r])) => LogStart'
  BY DEF LogStart
<1>1. ASSUME NEW r \in Runs, Admits(r) PROVE \A q \in Runs : Good(runs'[q])
  <2>1. Good(runs'[r]) /\ \A q \in Runs \ {r} : runs'[q] = runs[q]
    BY <1>1 DEF Admits, TypeOK
  <2> QED  BY <1>0, <2>1
<1>2. ASSUME NEW r \in Runs, Starts(r) PROVE \A q \in Runs : Good(runs'[q])
  <2>1. Len(runs[r].log) = 0 /\ runs[r].bytes = 0 /\ Envelope \in Nat
    BY <1>0, <1>2, SizesAreNat DEF Starts
  <2>2. /\ Len(runs'[r].log) = Len(runs[r].log) + 1 /\ runs'[r].bytes = runs[r].bytes + Envelope
        /\ runs'[r].state = "running" /\ \A q \in Runs \ {r} : runs'[q] = runs[q]
    BY <1>2 DEF Starts, Extends, Moves, TypeOK
  <2>3. Len(runs'[r].log) = 1 /\ runs'[r].bytes = Envelope
    BY <2>1, <2>2
  <2> QED  BY <1>0, <2>2, <2>3
<1>3. ASSUME NEW r \in Runs, Grows(r) PROVE \A q \in Runs : Good(runs'[q])
  <2>1. Len(runs[r].log) \in Nat /\ Len(runs[r].log) >= 1
    BY <1>0, <1>3, SizesAreNat DEF Grows
  <2>2. /\ Len(runs'[r].log) = Len(runs[r].log) + 1
        /\ runs'[r].state = "running" /\ \A q \in Runs \ {r} : runs'[q] = runs[q]
    BY <1>3 DEF Grows, GrowsByOne, Extends, Moves, TypeOK
  <2>3. Len(runs'[r].log) >= 1 /\ Len(runs'[r].log) # 1
    BY <2>1, <2>2
  <2> QED  BY <1>0, <2>2, <2>3
<1>4. ASSUME NEW r \in Runs, Answers(r) \/ Closes(r) PROVE \A q \in Runs : Good(runs'[q])
  <2>1. runs'[r].state \in EndStates /\ \A q \in Runs \ {r} : runs'[q] = runs[q]
    BY <1>4 DEF Answers, Closes, Ends, Moves, TypeOK, EndStates
  <2> QED  BY <1>0, <2>1 DEF EndStates
<1>5. ASSUME Keeps PROVE \A q \in Runs : Good(runs'[q])
  BY <1>0, <1>5 DEF Keeps
<1>6. ASSUME Purges PROVE \A q \in Runs : Good(runs'[q])
  BY <1>6, AbsentTyped DEF Purges
<1>7. CASE UNCHANGED vars
  <2>1. runs' = runs
    BY <1>7 DEF vars
  <2> QED  BY <1>0, <1>g, <2>1
<1> HIDE DEF Good
<1> QED  BY <1>g, <1>1, <1>2, <1>3, <1>4, <1>5, <1>6, <1>7, StepShape DEF vars

(* The bytes a step, a delta and an answer leave for the four events of an
   ending.                                                                   *)
LEMMA BytesLeft ==
    ASSUME NEW bytes \in Nat, NEW new \in Nat, NEW text \in Nat
    PROVE  /\ bytes + Envelope + new + ByteHeadroom <= MaxReplayBytes =>
                  bytes + (Envelope + new) + 4 * Envelope <= MaxReplayBytes
           /\ bytes + (Envelope + new) + (Envelope + text) + ByteHeadroom <= MaxReplayBytes =>
                  /\ bytes + (Envelope + new) + 4 * Envelope <= MaxReplayBytes
                  /\ bytes + (3 * Envelope + new + (Envelope + text)) <= MaxReplayBytes
<1>1. Envelope \in Nat /\ ByteHeadroom \in Nat /\ MaxReplayBytes \in Nat
      /\ ByteHeadroom >= 4 * Envelope
  BY LimitsAssumption
<1> QED  BY <1>1

LEMMA CeilingStep ==
    ASSUME TypeOK, LogStart, AllCeilings, [Wide]_vars
    PROVE  AllCeilings'
<1>a. /\ Envelope \in Nat /\ ByteHeadroom \in Nat /\ MaxReplayBytes \in Nat
      /\ MaxReplayEvents \in Nat /\ MaxReplayEvents >= 6
      /\ ByteHeadroom >= 4 * Envelope /\ MaxReplayBytes >= ByteHeadroom + 2 * Envelope
  BY LimitsAssumption DEF EventHeadroom
<1>r. Room("running") = 4 /\ Room("queued") = 4 /\ \A s \in EndStates : Room(s) = 0
  BY DEF Room, LiveStates, EndStates, EventHeadroom
<1>0. \A r \in Runs : /\ Ceiling(runs[r])
                      /\ Len(runs[r].log) \in Nat /\ runs[r].bytes \in Nat
  BY SizesAreNat DEF AllCeilings
<1>g. (\A r \in Runs : Ceiling(runs'[r])) => AllCeilings'
  BY DEF AllCeilings, Ceiling, Room
<1>1. ASSUME NEW r \in Runs, Admits(r) PROVE \A q \in Runs : Ceiling(runs'[q])
  <2>1. /\ runs'[r].state = "queued" /\ Len(runs'[r].log) = 0 /\ runs'[r].bytes = 0
        /\ \A q \in Runs \ {r} : runs'[q] = runs[q]
    BY <1>1 DEF Admits, TypeOK
  <2>2. Ceiling(runs'[r])
    BY <1>a, <1>r, <2>1 DEF Ceiling
  <2> QED  BY <1>0, <2>1, <2>2
<1>2. ASSUME NEW r \in Runs, Starts(r) PROVE \A q \in Runs : Ceiling(runs'[q])
  <2>1. Len(runs[r].log) = 0 /\ runs[r].bytes = 0
    BY <1>2 DEF Starts, LogStart
  <2>2. /\ Len(runs'[r].log) = Len(runs[r].log) + 1 /\ runs'[r].bytes = runs[r].bytes + Envelope
        /\ runs'[r].state = "running" /\ \A q \in Runs \ {r} : runs'[q] = runs[q]
    BY <1>2 DEF Starts, Extends, Moves, TypeOK
  <2>3. Ceiling(runs'[r])
    BY <1>a, <1>r, <2>1, <2>2 DEF Ceiling
  <2> QED  BY <1>0, <2>2, <2>3
<1>3. ASSUME NEW r \in Runs, Grows(r) PROVE \A q \in Runs : Ceiling(runs'[q])
  <2>1. runs'[r].state = "running" /\ \A q \in Runs \ {r} : runs'[q] = runs[q]
    BY <1>3 DEF Grows, GrowsByOne, Extends, Moves, TypeOK
  <2>2. CASE Len(runs[r].log) = 1 /\ Extends(r, "running", 1, Envelope)
    <3>1. runs[r].bytes = Envelope
      BY <1>3, <2>2 DEF Grows, LogStart
    <3>2. Len(runs'[r].log) = Len(runs[r].log) + 1 /\ runs'[r].bytes = runs[r].bytes + Envelope
      BY <2>2 DEF Extends, Moves
    <3>3. Ceiling(runs'[r])
      BY <1>a, <1>r, <2>1, <2>2, <3>1, <3>2 DEF Ceiling
    <3> QED  BY <1>0, <2>1, <3>3
  <2>3. CASE \E s \in StepSizes :
                /\ Extends(r, "running", 1, Envelope + s)
                /\ EventFits(runs[r])
                /\ runs[r].bytes + Envelope + s + ByteHeadroom <= MaxReplayBytes
    <3> PICK s \in StepSizes :
                /\ Extends(r, "running", 1, Envelope + s)
                /\ EventFits(runs[r])
                /\ runs[r].bytes + Envelope + s + ByteHeadroom <= MaxReplayBytes
      BY <2>3
    <3>1. s \in Nat
      BY SizesAreNat
    <3>2. /\ Len(runs'[r].log) = Len(runs[r].log) + 1
          /\ runs'[r].bytes = runs[r].bytes + (Envelope + s)
      BY DEF Extends, Moves
    <3>3. Len(runs[r].log) + 1 + 4 <= MaxReplayEvents
      BY DEF EventFits, EventHeadroom
    <3>4. /\ Len(runs'[r].log) + 4 <= MaxReplayEvents
          /\ runs'[r].bytes + 4 * Envelope <= MaxReplayBytes
      <4>1. runs[r].bytes \in Nat /\ Len(runs[r].log) \in Nat
        BY <1>0
      <4>2. runs[r].bytes + (Envelope + s) + 4 * Envelope <= MaxReplayBytes
        BY <3>1, <4>1, BytesLeft
      <4> QED  BY <3>1, <3>2, <3>3, <4>1, <4>2
    <3>5. Ceiling(runs'[r])
      BY <1>r, <2>1, <3>4 DEF Ceiling
    <3> QED  BY <1>0, <2>1, <3>5
  <2>4. CASE \E t \in Texts :
                Extends(r, "running", 1, TextSize(t.json)) /\ DeltaFits(runs[r], t)
    <3> PICK t \in Texts :
                Extends(r, "running", 1, TextSize(t.json)) /\ DeltaFits(runs[r], t)
      BY <2>4
    <3>1. t.json \in Nat /\ runs[r].buffer.json \in Nat
      BY SizesAreNat
    <3>2. /\ Len(runs'[r].log) = Len(runs[r].log) + 1
          /\ runs'[r].bytes = runs[r].bytes + (Envelope + t.json)
      BY DEF Extends, Moves, TextSize
    <3>3. /\ Len(runs[r].log) + 1 + 4 <= MaxReplayEvents
          /\ runs[r].bytes + (Envelope + t.json) + (Envelope + (runs[r].buffer.json + t.json))
                 + ByteHeadroom <= MaxReplayBytes
      BY DEF DeltaFits, EventFits, EventHeadroom, TextSize
    <3>4. /\ Len(runs'[r].log) + 4 <= MaxReplayEvents
          /\ runs'[r].bytes + 4 * Envelope <= MaxReplayBytes
      <4>1. runs[r].buffer.json + t.json \in Nat /\ runs[r].bytes \in Nat
        BY <1>0, <3>1
      <4>2. runs[r].bytes + (Envelope + t.json) + 4 * Envelope <= MaxReplayBytes
        BY <3>1, <3>3, <4>1, BytesLeft
      <4> QED  BY <1>0, <3>2, <3>3, <4>2
    <3>5. Ceiling(runs'[r])
      BY <1>r, <2>1, <3>4 DEF Ceiling
    <3> QED  BY <1>0, <2>1, <3>5
  <2> QED  BY <1>3, <2>2, <2>3, <2>4 DEF Grows, GrowsByOne
<1>4. ASSUME NEW r \in Runs, Answers(r) PROVE \A q \in Runs : Ceiling(runs'[q])
  <2> PICK s \in SourcesSizes :
         /\ runs[r].state = "running" /\ AnswerFits(runs[r], s)
         /\ Ends(r, "completed", 4, 3 * Envelope + s + TextSize(runs[r].buffer.json))
    BY <1>4 DEF Answers
  <2>1. /\ runs'[r].state = "completed" /\ \A q \in Runs \ {r} : runs'[q] = runs[q]
        /\ Len(runs'[r].log) = Len(runs[r].log) + 4
        /\ runs'[r].bytes = runs[r].bytes + (3 * Envelope + s + TextSize(runs[r].buffer.json))
    BY DEF Ends, Moves, TypeOK
  <2>2. Ceiling(runs[r]) /\ s \in Nat /\ runs[r].buffer.json \in Nat
    BY <1>0, SizesAreNat
  <2>3. /\ Len(runs'[r].log) + 0 <= MaxReplayEvents
        /\ runs'[r].bytes + 0 * Envelope <= MaxReplayBytes
    <3>1. /\ Len(runs[r].log) + 4 <= MaxReplayEvents
          /\ runs[r].bytes + (Envelope + s) + (Envelope + runs[r].buffer.json)
                 + ByteHeadroom <= MaxReplayBytes
      <4>1. runs[r].bytes + Envelope + s = runs[r].bytes + (Envelope + s)
        BY <1>0, <1>a, <2>2
      <4> QED  BY <4>1 DEF AnswerFits, TextSize
    <3>2. runs'[r].bytes = runs[r].bytes + (3 * Envelope + s + (Envelope + runs[r].buffer.json))
      BY <2>1 DEF TextSize
    <3>3. runs'[r].bytes <= MaxReplayBytes /\ runs'[r].bytes \in Nat
      <4>1. runs[r].bytes \in Nat
        BY <1>0
      <4>2. runs[r].bytes + (3 * Envelope + s + (Envelope + runs[r].buffer.json)) <= MaxReplayBytes
        BY <2>2, <3>1, <4>1, BytesLeft
      <4> QED  BY <1>a, <2>2, <3>2, <4>1, <4>2
    <3>4. Len(runs'[r].log) \in Nat /\ Len(runs'[r].log) <= MaxReplayEvents
      BY <1>0, <2>1, <3>1
    <3> QED  BY <1>a, <3>3, <3>4
  <2>4. Ceiling(runs'[r])
    BY <1>r, <2>1, <2>3 DEF Ceiling, EndStates
  <2> QED  BY <1>0, <2>1, <2>4
<1>5. ASSUME NEW r \in Runs, Closes(r) PROVE \A q \in Runs : Ceiling(runs'[q])
  <2>1. \E n \in {3, 4} :
           /\ runs[r].state \in LiveStates /\ runs'[r].state \in EndStates
           /\ Len(runs'[r].log) = Len(runs[r].log) + n
           /\ runs'[r].bytes = runs[r].bytes + n * Envelope
           /\ \A q \in Runs \ {r} : runs'[q] = runs[q]
    BY <1>5 DEF Closes, Ends, Moves, TypeOK
  <2>2. Room(runs[r].state) = 4 /\ Room(runs'[r].state) = 0
    BY <1>r, <2>1 DEF LiveStates
  <2>3. Ceiling(runs[r]) /\ Len(runs[r].log) \in Nat /\ runs[r].bytes \in Nat
    BY <1>0
  <2>4. Ceiling(runs'[r])
    BY <1>a, <2>1, <2>2, <2>3 DEF Ceiling
  <2> QED  BY <1>0, <2>1, <2>4
<1>6. ASSUME Keeps PROVE \A q \in Runs : Ceiling(runs'[q])
  BY <1>0, <1>6 DEF Keeps, Ceiling
<1>7. ASSUME Purges PROVE \A q \in Runs : Ceiling(runs'[q])
  <2>1. \A q \in Runs : runs'[q] = Absent
    BY <1>7 DEF Purges
  <2>2. Room("absent") = 0
    BY DEF Room, LiveStates
  <2> QED  BY <1>a, <2>1, <2>2, AbsentTyped DEF Ceiling
<1>8. CASE UNCHANGED vars
  <2>1. runs' = runs
    BY <1>8 DEF vars
  <2> QED  BY <1>0, <1>g, <2>1
<1> QED  BY <1>g, <1>1, <1>2, <1>3, <1>4, <1>5, <1>6, <1>7, <1>8, StepShape

(* Every Run can end inside the Replay ceilings, in events and in bytes,
   whenever the limits leave the headroom the settings model asks for.       *)
THEOREM EveryRunFits == Spec => []RunEndsInsideCeilings
<1>1. Init => LogStart /\ AllCeilings
  <2> SUFFICES ASSUME Init PROVE LogStart /\ AllCeilings
    OBVIOUS
  <2>1. \A q \in Runs : runs[q] = Absent
    BY DEF Init
  <2>2. Room("absent") = 0
    BY DEF Room, LiveStates
  <2>3. MaxReplayEvents \in Nat /\ MaxReplayBytes \in Nat /\ Envelope \in Nat
    BY LimitsAssumption
  <2>4. LogStart
    BY <2>1, AbsentTyped DEF LogStart
  <2>5. AllCeilings
    BY <2>1, <2>2, <2>3, AbsentTyped DEF AllCeilings, Ceiling
  <2> QED  BY <2>4, <2>5
<1>2. AllCeilings => RunEndsInsideCeilings
  BY Ceilings
<1> QED  BY <1>1, <1>2, StartStep, CeilingStep, TypeInit, TypeStep, NextIsWide, PTL DEF Spec

-----------------------------------------------------------------------------
(* The refinement: what a client sees of each shape.                         *)
Seen == [r \in Runs |-> IF resident THEN runs[r].state ELSE "gone"]

LEMMA SeenAfter ==
    ASSUME TypeOK, NEW r \in Runs, NEW s, NEW events, NEW size, Moves(r, s, events, size)
    PROVE  /\ Seen' = [Seen EXCEPT ![r] = s]
           /\ Seen[r] = runs[r].state /\ Seen[r] \in LiveStates
BY DEF Moves, Seen, TypeOK

LEMMA LifecycleStep ==
    ASSUME TypeOK, LiveRunIsActive, [Wide]_vars
    PROVE  [Lifecycle!Next]_Seen
<1>1. ASSUME NEW r \in Runs, Admits(r) PROVE Lifecycle!Accept(r)
  <2>1. Seen[r] = "absent" /\ \A q \in Runs : Seen[q] = runs[q].state
    BY <1>1 DEF Admits, Seen
  <2>2. \A q \in Runs : runs[q].state \notin LiveStates
    BY <1>1 DEF Admits, LiveRunIsActive, NoActiveRun
  <2>3. Seen' = [Seen EXCEPT ![r] = "queued"]
    BY <1>1 DEF Admits, Seen, TypeOK
  <2> QED  BY <2>1, <2>2, <2>3 DEF Lifecycle!Accept, Lifecycle!Live, Seen, LiveStates
<1>2. ASSUME NEW r \in Runs, Starts(r) PROVE Lifecycle!Start(r)
  <2>1. Seen' = [Seen EXCEPT ![r] = "running"] /\ Seen[r] = "queued"
    BY <1>2, SeenAfter DEF Starts, Extends
  <2> QED  BY <2>1 DEF Lifecycle!Start, Seen
<1>3. ASSUME NEW r \in Runs, Grows(r) PROVE UNCHANGED Seen
  <2>1. Seen' = [Seen EXCEPT ![r] = "running"] /\ Seen[r] = "running"
    BY <1>3, SeenAfter DEF Grows, GrowsByOne, Extends
  <2> QED  BY <2>1 DEF Seen
<1>4. ASSUME NEW r \in Runs, Answers(r) \/ Closes(r)
      PROVE  \E s \in {"completed", "failed", "timeout", "cancelled"} : Lifecycle!End(r, s)
  <2>1. PICK s \in {"completed", "failed", "timeout", "cancelled"} :
           /\ s = "completed" => runs[r].state = "running"
           /\ \E events, size : Moves(r, s, events, size)
    BY <1>4 DEF Answers, Closes, Ends
  <2>2. /\ Seen' = [Seen EXCEPT ![r] = s] /\ Seen[r] = runs[r].state
        /\ Seen[r] \in {"queued", "running"}
    BY <2>1, SeenAfter DEF LiveStates
  <2>3. Lifecycle!End(r, s)
    BY <2>1, <2>2 DEF Lifecycle!End, Lifecycle!Live, Seen
  <2> QED  BY <2>3
<1>5. ASSUME Keeps PROVE UNCHANGED Seen
  BY <1>5 DEF Keeps, Seen
<1>6. ASSUME Purges PROVE Lifecycle!Purge
  BY <1>6 DEF Purges, Lifecycle!Purge
<1>7. CASE UNCHANGED vars
  BY <1>7 DEF vars, Seen
<1> QED  BY <1>1, <1>2, <1>3, <1>4, <1>5, <1>6, <1>7, StepShape DEF Lifecycle!Next

(* The aggregate, with every caller it has, implements the life cycle of
   RunLifecycle: one live Run, one end each, an answer only from a running Run.*)
THEOREM AggregateImplementsLifecycle == Spec => ImplementsRunLifecycle
<1>1. Init => Lifecycle!Init
  BY AbsentTyped DEF Init, Lifecycle!Init
<1>2. TypeOK /\ LiveRunIsActive /\ [Wide]_vars =>
          [Lifecycle!Next]_([r \in Runs |-> IF resident THEN runs[r].state ELSE "gone"])
  BY LifecycleStep DEF Seen
<1> QED  BY <1>1, <1>2, TypeCorrect, OneLiveRun, NextIsWide, PTL
         DEF Spec, ImplementsRunLifecycle, Lifecycle!Spec
-----------------------------------------------------------------------------
(* What a step commits, event by event: a commit writes to the active Run alone,
   after what its log holds, and leaves its lineage as it was.               *)
Heritage(run) == <<run.question, run.attempt, run.retryOf, run.prepared>>
Writes(r, s, events) ==
    /\ resident /\ activeRun = r /\ runs[r].state \in LiveStates
    /\ runs' = [runs EXCEPT ![r] = runs'[r]]
    /\ runs'[r] \in RunType /\ runs'[r].state = s
    /\ runs'[r].log = runs[r].log \o events /\ events \in Seq(EventType)
    /\ Heritage(runs'[r]) = Heritage(runs[r])
    /\ UNCHANGED <<receipts, resident, selected>>

BodyEvent(e, run, steps) ==
    /\ e \in EventType /\ e.seq = NextSeq(run) /\ e.state = ""
    /\ \/ e.type = "context.truncated" /\ Len(run.log) = 1 /\ steps = run.steps
       \/ e.type = "agent.step" /\ e.index = run.steps + 1 /\ steps = run.steps + 1
       \/ e.type = "message.delta" /\ steps = run.steps
EndTail(s, n) ==
    CASE s = "completed" -> AnswerTail(n)
      [] s = "cancelled" -> CancelTail(n)
      [] OTHER -> FailureTail(n, s)

Begins(r) ==
    /\ runs[r].state = "queued" /\ Writes(r, "running", <<Status(1, "running")>>)
    /\ runs'[r].steps = runs[r].steps /\ UNCHANGED <<messages, activeRun>>
Adds(r) ==
    /\ runs[r].state = "running"
    /\ \E e : BodyEvent(e, runs[r], runs'[r].steps) /\ Writes(r, "running", <<e>>)
    /\ UNCHANGED <<messages, activeRun>>
Settles(r, s) ==
    /\ s = "completed" => runs[r].state = "running"
    /\ Writes(r, s, EndTail(s, NextSeq(runs[r])))
    /\ runs'[r].steps = runs[r].steps /\ activeRun' = None
    /\ messages' = IF s = "completed" THEN Append(messages, [role |-> "assistant", run |-> r])
                   ELSE messages
Ticks == UNCHANGED <<messages, runs, receipts, activeRun, resident, selected>>

LEMMA CommitWrites ==
    ASSUME TypeOK, NEW r \in Runs, NEW run \in RunType, NEW events \in Seq(EventType),
           NEW size \in Nat, NEW states \in SUBSET LiveStates,
           Fenced(r, states), Commit(r, Record(run, events, size)), UNCHANGED selected,
           run.log = runs[r].log, Heritage(run) = Heritage(runs[r])
    PROVE  Writes(r, run.state, events) /\ runs'[r].steps = run.steps
<1> DEFINE new == Record(run, events, size)
<1>1. runs'[r] = new /\ runs' = [runs EXCEPT ![r] = new]
  BY DEF Commit, TypeOK
<1>2. /\ new \in RunType /\ new.state = run.state /\ new.log = run.log \o events
      /\ Heritage(new) = Heritage(run) /\ new.steps = run.steps
  <2>1. /\ new.question = run.question /\ new.attempt = run.attempt /\ new.steps = run.steps
        /\ new.retryOf = run.retryOf /\ new.prepared = run.prepared
    BY DEF Record, RunType
  <2> HIDE DEF new
  <2>2. Heritage(new) = Heritage(run)
    BY <2>1 DEF Heritage
  <2> QED  BY <2>1, <2>2, RecordExtends DEF new
<1>3. /\ runs[r].state \in LiveStates /\ resident /\ activeRun = r
      /\ UNCHANGED <<receipts, resident, selected>>
  BY DEF Fenced, Commit
<1> HIDE DEF new
<1> QED  BY <1>1, <1>2, <1>3 DEF Writes

LEMMA MarkRunningBegins ==
    ASSUME TypeOK, NEW r \in Runs, MarkRunning(r)
    PROVE  Begins(r)
<1> DEFINE run == [runs[r] EXCEPT !.state = "running"]
           events == <<Status(1, "running")>>
<1>1. /\ run \in RunType /\ run.log = runs[r].log /\ run.state = "running"
      /\ run.steps = runs[r].steps /\ Heritage(run) = Heritage(runs[r])
  BY SizesAreNat DEF RunType, LiveStates, Heritage
<1>2. events \in Seq(EventType)
  <2>1. Status(1, "running") \in EventType
    BY StatusTyped DEF EventStates, LiveStates
  <2> QED  BY <2>1
<1>3. /\ Fenced(r, {"queued"}) /\ Commit(r, Record(run, events, Envelope))
      /\ UNCHANGED <<selected, messages, activeRun>>
  BY DEF MarkRunning, Extend
<1>4. Envelope \in Nat /\ {"queued"} \in SUBSET LiveStates
  BY SizesAreNat DEF LiveStates
<1>5. Writes(r, run.state, events) /\ runs'[r].steps = run.steps
  <2> HIDE DEF run, events
  <2> QED  BY <1>1, <1>2, <1>3, <1>4, CommitWrites
<1> QED  BY <1>1, <1>3, <1>5 DEF Begins, Fenced

(* Whatever extends a running Run by one event of its body.                  *)
LEMMA ExtendAdds ==
    ASSUME TypeOK, NEW r \in Runs, NEW run \in RunType, NEW e, NEW size \in Nat,
           Fenced(r, {"running"}), Extend(r, Record(run, <<e>>, size)),
           run.log = runs[r].log, run.state = runs[r].state, Heritage(run) = Heritage(runs[r]),
           BodyEvent(e, runs[r], run.steps)
    PROVE  Adds(r)
<1>1. <<e>> \in Seq(EventType) /\ {"running"} \in SUBSET LiveStates
  <2>1. e \in EventType
    BY DEF BodyEvent
  <2> QED  BY <2>1 DEF LiveStates
<1>2. /\ Commit(r, Record(run, <<e>>, size)) /\ UNCHANGED <<messages, activeRun, selected>>
      /\ runs[r].state = "running"
  BY DEF Extend, Fenced
<1>3. Writes(r, run.state, <<e>>) /\ runs'[r].steps = run.steps
  BY <1>1, <1>2, CommitWrites
<1> QED  BY <1>2, <1>3 DEF Adds

LEMMA TruncatedAdds ==
    ASSUME TypeOK, NEW r \in Runs, Fenced(r, {"running"}), Len(runs[r].log) = 1,
           Extend(r, Record(runs[r], <<Event(2, "context.truncated")>>, Envelope))
    PROVE  Adds(r)
<1>1. BodyEvent(Event(2, "context.truncated"), runs[r], runs[r].steps)
  <2>1. Event(2, "context.truncated") \in EventType
    BY EventTyped DEF EventNames
  <2>2. NextSeq(runs[r]) = 2
    BY DEF NextSeq
  <2> QED  BY <2>1, <2>2 DEF BodyEvent, Event
<1>2. runs[r] \in RunType /\ Envelope \in Nat
  BY SizesAreNat
<1> QED  BY <1>1, <1>2, ExtendAdds

LEMMA StepAdds ==
    ASSUME TypeOK, NEW r \in Runs, NEW s \in StepSizes, CommitStep(r, s)
    PROVE  Adds(r)
<1> DEFINE run == [runs[r] EXCEPT !.steps = @ + 1]
           e == [Event(NextSeq(runs[r]), "agent.step") EXCEPT !.index = runs[r].steps + 1]
<1>0. runs[r] \in RunType /\ NextSeq(runs[r]) \in Nat /\ runs[r].steps + 1 \in Nat
      /\ Envelope + s \in Nat
  BY SizesAreNat
<1>1. /\ run \in RunType /\ run.log = runs[r].log /\ run.state = runs[r].state
      /\ Heritage(run) = Heritage(runs[r]) /\ run.steps = runs[r].steps + 1
  BY <1>0 DEF RunType, Heritage
<1>2. BodyEvent(e, runs[r], runs[r].steps + 1)
  BY <1>0 DEF BodyEvent, Event, EventType, EventNames, EventStates
<1>3. Fenced(r, {"running"}) /\ Extend(r, Record(run, <<e>>, Envelope + s))
  BY DEF CommitStep
<1> HIDE DEF run, e
<1> QED  BY <1>0, <1>1, <1>2, <1>3, ExtendAdds

LEMMA DeltaAdds ==
    ASSUME TypeOK, NEW r \in Runs, NEW t \in Texts, CommitDelta(r, t)
    PROVE  Adds(r)
<1> DEFINE run == [runs[r] EXCEPT !.buffer = [raw |-> @.raw + t.raw, json |-> @.json + t.json]]
           e == Event(NextSeq(runs[r]), "message.delta")
<1>0. /\ runs[r] \in RunType /\ NextSeq(runs[r]) \in Nat /\ TextSize(t.json) \in Nat
      /\ runs[r].buffer.raw + t.raw \in Nat /\ runs[r].buffer.json + t.json \in Nat
  <2>1. /\ runs[r] \in RunType /\ NextSeq(runs[r]) \in Nat /\ Envelope \in Nat
        /\ t.raw \in Nat /\ t.json \in Nat
        /\ runs[r].buffer.raw \in Nat /\ runs[r].buffer.json \in Nat
    BY SizesAreNat
  <2> QED  BY <2>1 DEF TextSize
<1>1. /\ run \in RunType /\ run.log = runs[r].log /\ run.state = runs[r].state
      /\ Heritage(run) = Heritage(runs[r]) /\ run.steps = runs[r].steps
  BY <1>0 DEF RunType, Heritage
<1>2. BodyEvent(e, runs[r], runs[r].steps)
  BY <1>0 DEF BodyEvent, Event, EventType, EventNames, EventStates
<1>3. Fenced(r, {"running"}) /\ Extend(r, Record(run, <<e>>, TextSize(t.json)))
  BY DEF CommitDelta
<1> HIDE DEF run, e
<1> QED  BY <1>0, <1>1, <1>2, <1>3, ExtendAdds

(* Whatever ends a Run, with the tail that its end calls for.                *)
LEMMA FinishSettles ==
    ASSUME TypeOK, NEW r \in Runs, NEW run \in RunType, NEW s \in EndStates, NEW size \in Nat,
           NEW states \in SUBSET LiveStates, Fenced(r, states),
           s = "completed" => runs[r].state = "running",
           Finish(r, Record(run, EndTail(s, NextSeq(runs[r])), size)),
           run.log = runs[r].log, run.state = s, Heritage(run) = Heritage(runs[r]),
           run.steps = runs[r].steps,
           messages' = IF s = "completed" THEN Append(messages, [role |-> "assistant", run |-> r])
                       ELSE messages
    PROVE  Settles(r, s)
<1> DEFINE tail == EndTail(s, NextSeq(runs[r]))
<1>1. tail \in Seq(EventType)
  <2>1. NextSeq(runs[r]) \in Nat /\ s \in EventStates
    BY SizesAreNat DEF EventStates
  <2> QED  BY <2>1, TailsTyped DEF EndTail
<1>2. /\ Commit(r, Record(run, tail, size)) /\ UNCHANGED selected /\ activeRun' = None
  BY DEF Finish
<1> HIDE DEF tail
<1>3. Writes(r, run.state, tail) /\ runs'[r].steps = run.steps
  BY <1>1, <1>2, CommitWrites
<1> QED  BY <1>2, <1>3 DEF Settles, tail

LEMMA AnswerSettles ==
    ASSUME TypeOK, NEW r \in Runs, NEW s \in SourcesSizes, CommitStreamCompleted(r, s)
    PROVE  Settles(r, "completed")
<1> DEFINE run == [runs[r] EXCEPT !.state = "completed"]
           size == 3 * Envelope + s + TextSize(runs[r].buffer.json)
<1>0. runs[r] \in RunType /\ size \in Nat
  <2>1. /\ runs[r] \in RunType /\ Envelope \in Nat /\ s \in Nat
        /\ runs[r].buffer.json \in Nat
    BY SizesAreNat
  <2> QED  BY <2>1 DEF TextSize
<1>1. /\ run \in RunType /\ run.log = runs[r].log /\ run.state = "completed"
      /\ run.steps = runs[r].steps /\ Heritage(run) = Heritage(runs[r])
  BY <1>0 DEF RunType, EndStates, Heritage
<1>2. /\ Fenced(r, {"running"}) /\ runs[r].state = "running"
      /\ Finish(r, Record(run, AnswerTail(NextSeq(runs[r])), size))
      /\ messages' = Append(messages, [role |-> "assistant", run |-> r])
  BY DEF CommitStreamCompleted, Fenced
<1>3. /\ EndTail("completed", NextSeq(runs[r])) = AnswerTail(NextSeq(runs[r]))
      /\ "completed" \in EndStates /\ {"running"} \in SUBSET LiveStates
  BY DEF EndTail, EndStates, LiveStates
<1> HIDE DEF run, size
<1> QED  BY <1>0, <1>1, <1>2, <1>3, FinishSettles

LEMMA FailSettles ==
    ASSUME TypeOK, NEW r \in Runs, NEW s \in {"failed", "timeout"},
           NEW states \in SUBSET LiveStates, Fenced(r, states), Fail(r, s)
    PROVE  Settles(r, s)
<1> DEFINE run == [runs[r] EXCEPT !.state = s, !.buffer = Absent.buffer]
<1>0. runs[r] \in RunType /\ 4 * Envelope \in Nat
  BY SizesAreNat
<1>1. /\ run \in RunType /\ run.log = runs[r].log /\ run.state = s
      /\ run.steps = runs[r].steps /\ Heritage(run) = Heritage(runs[r])
  BY <1>0 DEF RunType, EndStates, Heritage, Absent
<1>2. /\ Finish(r, Record(run, FailureTail(NextSeq(runs[r]), s), 4 * Envelope))
      /\ UNCHANGED messages
  BY DEF Fail
<1>3. /\ EndTail(s, NextSeq(runs[r])) = FailureTail(NextSeq(runs[r]), s)
      /\ s \in EndStates /\ s # "completed"
  BY DEF EndTail, EndStates
<1> HIDE DEF run
<1> QED  BY <1>0, <1>1, <1>2, <1>3, FinishSettles

LEMMA CancelSettles ==
    ASSUME TypeOK, NEW r \in Runs, CommitCancelled(r)
    PROVE  Settles(r, "cancelled")
<1> DEFINE run == [runs[r] EXCEPT !.state = "cancelled", !.buffer = Absent.buffer]
<1>0. runs[r] \in RunType /\ 3 * Envelope \in Nat
  BY SizesAreNat
<1>1. /\ run \in RunType /\ run.log = runs[r].log /\ run.state = "cancelled"
      /\ run.steps = runs[r].steps /\ Heritage(run) = Heritage(runs[r])
  BY <1>0 DEF RunType, EndStates, Heritage, Absent
<1>2. /\ Fenced(r, LiveStates) /\ UNCHANGED messages
      /\ Finish(r, Record(run, CancelTail(NextSeq(runs[r])), 3 * Envelope))
  BY DEF CommitCancelled
<1>3. /\ EndTail("cancelled", NextSeq(runs[r])) = CancelTail(NextSeq(runs[r]))
      /\ "cancelled" \in EndStates /\ LiveStates \in SUBSET LiveStates
  BY DEF EndTail, EndStates
<1> HIDE DEF run
<1> QED  BY <1>0, <1>1, <1>2, <1>3, FinishSettles

LEMMA StepCommits ==
    ASSUME TypeOK, Wide
    PROVE  \/ \E k \in Keys, c \in Contents, r \in Runs : AcceptQuestion(k, c, r)
           \/ \E k \in Keys, t \in Runs, r \in Runs : AcceptRetry(k, t, r)
           \/ \E r \in Runs : Begins(r) \/ Adds(r) \/ \E s \in EndStates : Settles(r, s)
           \/ \E r \in Runs : \E cut \in 0..Len(messages) : SelectContext(r, cut)
           \/ \E r \in Runs : RecordPreparedRequest(r)
           \/ Ticks
           \/ Expire
<1>e. /\ {"running"} \in SUBSET LiveStates /\ LiveStates \in SUBSET LiveStates
      /\ EndStates = {"completed", "failed", "timeout", "cancelled"}
  BY DEF LiveStates, EndStates
<1>1. ASSUME NEW r \in Runs, MarkRunning(r) PROVE Begins(r)
  BY <1>1, MarkRunningBegins
<1>2. ASSUME NEW r \in Runs,
             \/ CommitContextTruncated(r) \/ Truncates(r)
             \/ \E s \in StepSizes : CommitStep(r, s)
             \/ \E t \in Texts : CommitDelta(r, t)
      PROVE  Adds(r)
  <2>1. CASE CommitContextTruncated(r) \/ Truncates(r)
    BY <2>1, TruncatedAdds DEF CommitContextTruncated, Truncates
  <2> QED  BY <1>2, <2>1, StepAdds, DeltaAdds
<1>3. ASSUME NEW r \in Runs,
             \/ \E s \in SourcesSizes : CommitStreamCompleted(r, s)
             \/ CommitCancelled(r)
      PROVE  \E s \in EndStates : Settles(r, s)
  BY <1>e, <1>3, AnswerSettles, CancelSettles
<1>4. ASSUME NEW r \in Runs,
             \/ CommitStreamMismatch(r) \/ CommitStreamFailed(r) \/ CommitFailed(r)
             \/ CommitTimeout(r)
      PROVE  \E s \in EndStates : Settles(r, s)
  <2>1. \E s \in {"failed", "timeout"} : \E states \in SUBSET LiveStates :
            Fenced(r, states) /\ Fail(r, s)
    BY <1>e, <1>4 DEF CommitStreamMismatch, CommitStreamFailed, CommitFailed, CommitTimeout
  <2> QED  BY <1>e, <2>1, FailSettles
<1>5. ASSUME (\E r \in Runs : DeadlinePasses(r)) \/ AbsoluteExpiry \/ ReapTombstone \/ Rings
      PROVE  Ticks
  BY <1>5 DEF DeadlinePasses, AbsoluteExpiry, ReapTombstone, Rings, Ticks
<1> QED  BY <1>1, <1>2, <1>3, <1>4, <1>5 DEF Wide, Next

-----------------------------------------------------------------------------
(* Until it is accepted, a Run holds nothing.                                *)
Blank == \A r \in Runs : runs[r].state = "absent" => runs[r] = Absent

LEMMA WritesOne ==
    ASSUME TypeOK, NEW r \in Runs, NEW s, NEW events, Writes(r, s, events)
    PROVE  /\ \A q \in Runs \ {r} : runs'[q] = runs[q]
           /\ runs[r].state \in LiveStates /\ runs[r].state \notin EndStates \cup {"absent"}
BY DEF Writes, TypeOK, LiveStates, EndStates

LEMMA AcceptsOne ==
    ASSUME TypeOK, LiveRunIsActive, NEW k \in Keys, NEW r \in Runs,
           \/ \E c \in Contents : AcceptQuestion(k, c, r)
           \/ \E t \in Runs : AcceptRetry(k, t, r)
    PROVE  /\ runs[r].state = "absent" /\ runs'[r].state = "queued" /\ receipts[k] = None
           /\ \A q \in Runs \ {r} : runs'[q] = runs[q] /\ runs[q].state \notin LiveStates
           /\ \A l \in Keys \ {k} : receipts'[l] = receipts[l]
           /\ resident /\ UNCHANGED <<resident, selected>>
<1>1. Admits(r)
  BY QuestionAdmits, RetryAdmits
<1>2. PICK run, digest : Admissible(k, r) /\ Install(k, digest, r, run)
  BY DEF AcceptQuestion, AcceptRetry
<1>3. /\ \A l \in Keys \ {k} : receipts'[l] = receipts[l]
      /\ receipts[k] = None /\ UNCHANGED <<resident, selected>>
  BY <1>2 DEF Admissible, Install, TypeOK
<1> QED  BY <1>1, <1>3 DEF Admits, NoActiveRun, LiveRunIsActive, TypeOK

(* The Run that records a request is the active one, and only that changes.  *)
LEMMA RecordsOne ==
    ASSUME TypeOK, LiveRunIsActive, NEW r \in Runs, RecordPreparedRequest(r)
    PROVE  /\ \A q \in Runs \ {r} : runs'[q] = runs[q]
           /\ \/ runs'[r] = runs[r] /\ ~(resident /\ activeRun = r)
              \/ /\ resident /\ activeRun = r /\ runs[r].state \in LiveStates
                 /\ runs'[r] = [runs[r] EXCEPT !.prepared = selected[r]]
           /\ \A q \in Runs : /\ runs'[q].state = runs[q].state /\ runs'[q].log = runs[q].log
                              /\ runs'[q].steps = runs[q].steps
                              /\ runs'[q].question = runs[q].question
                              /\ runs'[q].attempt = runs[q].attempt
                              /\ runs'[q].retryOf = runs[q].retryOf
           /\ selected[r] # None /\ selected' = [selected EXCEPT ![r] = None]
           /\ UNCHANGED <<messages, receipts, activeRun, resident>>
<1>1. /\ selected[r] # None /\ selected' = [selected EXCEPT ![r] = None]
      /\ UNCHANGED <<messages, receipts, activeRun, resident>>
  BY DEF RecordPreparedRequest
<1>2. CASE resident /\ activeRun = r
  <2> DEFINE run == [runs[r] EXCEPT !.prepared = selected[r]]
  <2>1. runs' = [runs EXCEPT ![r] = run]
    BY <1>2 DEF RecordPreparedRequest
  <2>2. /\ run.state = runs[r].state /\ run.log = runs[r].log /\ run.steps = runs[r].steps
        /\ run.question = runs[r].question /\ run.attempt = runs[r].attempt
        /\ run.retryOf = runs[r].retryOf
    BY SizesAreNat DEF RunType
  <2>3. runs[r].state \in LiveStates
    BY <1>2 DEF LiveRunIsActive
  <2>4. runs'[r] = run /\ \A q \in Runs \ {r} : runs'[q] = runs[q]
    <3> HIDE DEF run
    <3> QED  BY <2>1 DEF TypeOK
  <2>5. /\ runs'[r].state = runs[r].state /\ runs'[r].log = runs[r].log
        /\ runs'[r].steps = runs[r].steps /\ runs'[r].question = runs[r].question
        /\ runs'[r].attempt = runs[r].attempt /\ runs'[r].retryOf = runs[r].retryOf
    <3> HIDE DEF run
    <3> QED  BY <2>2, <2>4
  <2> QED  BY <1>1, <1>2, <2>3, <2>4, <2>5
<1>3. CASE ~(resident /\ activeRun = r)
  BY <1>1, <1>3 DEF RecordPreparedRequest
<1> QED  BY <1>2, <1>3

LEMMA BlankStep ==
    ASSUME TypeOK, LiveRunIsActive, Blank, [Wide]_vars
    PROVE  Blank'
<1>1. ASSUME NEW r \in Runs, NEW s \in LiveStates \cup EndStates, NEW events, Writes(r, s, events)
      PROVE  Blank'
  <2>1. runs'[r].state # "absent"
    BY <1>1 DEF Writes, LiveStates, EndStates
  <2> QED  BY <1>1, <2>1, WritesOne DEF Blank
<1>2. ASSUME NEW r \in Runs, Begins(r) \/ Adds(r) \/ \E s \in EndStates : Settles(r, s)
      PROVE  Blank'
  <2>1. "running" \in LiveStates
    BY DEF LiveStates
  <2> QED  BY <1>1, <1>2, <2>1 DEF Begins, Adds, Settles
<1>3. ASSUME NEW k \in Keys, NEW r \in Runs,
             \/ \E c \in Contents : AcceptQuestion(k, c, r)
             \/ \E t \in Runs : AcceptRetry(k, t, r)
      PROVE  Blank'
  BY <1>3, AcceptsOne DEF Blank
<1>4. ASSUME NEW r \in Runs, RecordPreparedRequest(r) PROVE Blank'
  <2>1. runs'[r] = runs[r] \/ runs'[r].state \in LiveStates
    BY <1>4, RecordsOne
  <2>2. \A q \in Runs \ {r} : runs'[q] = runs[q]
    BY <1>4, RecordsOne
  <2> QED  BY <2>1, <2>2 DEF Blank, LiveStates
<1>5. ASSUME Expire PROVE Blank'
  BY <1>5 DEF Expire, Blank
<1>6. ASSUME runs' = runs PROVE Blank'
  BY <1>6 DEF Blank
<1> QED
  BY <1>2, <1>3, <1>4, <1>5, <1>6, StepCommits DEF Ticks, SelectContext, vars

(* What every later invariant of a Conversation rests on.                    *)
CoreInv == TypeOK /\ LiveRunIsActive /\ Blank

LEMMA CoreInvariant == Spec => []CoreInv
<1>1. Init => Blank
  BY DEF Init, Blank
<1> QED  BY <1>1, TypeInit, TypeStep, LiveInit, LiveStep, BlankStep, NextIsWide, PTL
         DEF Spec, CoreInv

-----------------------------------------------------------------------------
(* What was committed stays.                                                 *)
Prefix(log, longer) ==
    Len(log) <= Len(longer) /\ SubSeq(longer, 1, Len(log)) = log

LEMMA ConcatPrefix ==
    ASSUME NEW S, NEW log \in Seq(S), NEW events \in Seq(S)
    PROVE  Prefix(log, log \o events) /\ Prefix(log, log)
BY DEF Prefix

(* Only the active Run, which has not ended, has its log written, and only at
   its end.                                                                  *)
LEMMA LogsGrow ==
    ASSUME CoreInv, [Wide]_vars, resident'
    PROVE  \A r \in Runs : /\ runs[r].state \in EndStates => runs'[r] = runs[r]
                           /\ Prefix(runs[r].log, runs'[r].log)
<1> USE DEF CoreInv
<1> DEFINE Good(r) == /\ runs[r].state \in EndStates => runs'[r] = runs[r]
                      /\ Prefix(runs[r].log, runs'[r].log)
<1>1. ASSUME NEW r \in Runs, runs'[r] = runs[r] PROVE Good(r)
  BY <1>1, SizesAreNat, ConcatPrefix
<1>2. ASSUME NEW r \in Runs, NEW s, NEW events, Writes(r, s, events)
      PROVE  \A q \in Runs : Good(q)
  <2>1. Prefix(runs[r].log, runs'[r].log)
    BY <1>2, SizesAreNat, ConcatPrefix DEF Writes
  <2> QED  BY <1>1, <1>2, <2>1, WritesOne
<1>3. ASSUME NEW k \in Keys, NEW r \in Runs,
             \/ \E c \in Contents : AcceptQuestion(k, c, r)
             \/ \E t \in Runs : AcceptRetry(k, t, r)
      PROVE  \A q \in Runs : Good(q)
  <2>1. runs[r].log = <<>> /\ runs[r].state \notin EndStates
    <3>1. runs[r] = Absent
      BY <1>3, AcceptsOne DEF Blank
    <3> QED  BY <3>1 DEF Absent, EndStates
  <2>2. runs'[r].log \in Seq(EventType)
    BY <1>3, QuestionAdmits, RetryAdmits DEF Admits, RunType
  <2>3. Prefix(runs[r].log, runs'[r].log)
    BY <2>1, <2>2 DEF Prefix
  <2> QED  BY <1>1, <1>3, <2>1, <2>3, AcceptsOne
<1>4. ASSUME NEW r \in Runs, RecordPreparedRequest(r)
      PROVE  \A q \in Runs : Good(q)
  <2>1. runs'[r] = runs[r] \/ runs[r].state \notin EndStates
    BY <1>4, RecordsOne DEF LiveStates, EndStates
  <2>2. Prefix(runs[r].log, runs'[r].log)
    BY <1>4, RecordsOne, SizesAreNat, ConcatPrefix
  <2>3. \A q \in Runs \ {r} : runs'[q] = runs[q]
    BY <1>4, RecordsOne
  <2> QED  BY <1>1, <2>1, <2>2, <2>3
<1>5. ~Expire
  BY DEF Expire
<1>6. ASSUME runs' = runs PROVE \A q \in Runs : Good(q)
  BY <1>1, <1>6
<1> HIDE DEF Good
<1>7. \A q \in Runs : Good(q)
  BY <1>2, <1>3, <1>4, <1>5, <1>6, StepCommits
     DEF Begins, Adds, Settles, Ticks, SelectContext, vars
<1> QED  BY <1>7 DEF Good

LEMMA ReceiptsStay ==
    ASSUME CoreInv, [Wide]_vars, resident'
    PROVE  \A k \in Keys : receipts[k] # None => receipts'[k] = receipts[k]
<1>1. ASSUME NEW k \in Keys, NEW r \in Runs,
             \/ \E c \in Contents : AcceptQuestion(k, c, r)
             \/ \E t \in Runs : AcceptRetry(k, t, r)
      PROVE  \A l \in Keys : receipts[l] # None => receipts'[l] = receipts[l]
  BY <1>1, AcceptsOne DEF CoreInv
<1>2. ~Expire
  BY DEF Expire
<1>3. CASE receipts' = receipts
  BY <1>3
<1> QED  BY <1>1, <1>2, <1>3, StepCommits
         DEF CoreInv, Begins, Adds, Settles, Writes, Ticks, SelectContext,
             RecordPreparedRequest, vars

(* Ended Runs, logs and receipts are final until the Purge.                  *)
THEOREM CommittedStays == Spec => CommittedIsStable
<1>1. CoreInv /\ [Wide]_vars =>
        [resident' =>
            /\ \A r \in Runs :
                  /\ runs[r].state \in EndStates => runs'[r] = runs[r]
                  /\ Len(runs[r].log) <= Len(runs'[r].log)
                  /\ SubSeq(runs'[r].log, 1, Len(runs[r].log)) = runs[r].log
            /\ \A k \in Keys : receipts[k] # None => receipts'[k] = receipts[k]]_vars
  BY LogsGrow, ReceiptsStay DEF Prefix
<1> QED  BY <1>1, CoreInvariant, NextIsWide, PTL DEF Spec, CommittedIsStable

LEMMA ExpiryTailFields ==
    ASSUME NEW n \in Nat
    PROVE  LET tail == ExpiryTail(n)
           IN  /\ tail[1].seq = n /\ tail[1].type = "conversation.expired"
               /\ tail[2].seq = n + 1 /\ tail[2].type = "stream.end"
               /\ tail[2].state = "expired" /\ tail[2].index = n + 1
BY DEF ExpiryTail, Event, StreamEnd

(* The Purge of a live Run leaves the two events that would follow its log.  *)
THEOREM ExpiryContinuesLog == Spec => ExpiryTailContinuesLog
<1> DEFINE Fits(r, tail) ==
        /\ [i \in 1..2 |-> tail[i].type] = <<"conversation.expired", "stream.end">>
        /\ \A i \in 1..2 : tail[i].seq = Len(runs[r].log) + i
        /\ tail[2].state = "expired"
        /\ tail[2].index = tail[2].seq
    Leaves ==
        IF \A r \in Runs : runs[r].state \notin LiveStates THEN tombstone' = None
        ELSE runs[tombstone'.run].state \in LiveStates /\ Fits(tombstone'.run, tombstone'.tail)
<1>1. ASSUME CoreInv, Expire PROVE Leaves
  <2>1. CASE activeRun = None
    <3>1. \A r \in Runs : runs[r].state \notin LiveStates
      BY <1>1, <2>1, InputsAssumption DEF CoreInv, LiveRunIsActive
    <3> QED  BY <1>1, <2>1, <3>1 DEF Expire
  <2>2. CASE activeRun # None
    <3>1. activeRun \in Runs /\ runs[activeRun].state \in LiveStates
      BY <1>1, <2>2 DEF CoreInv, LiveRunIsActive, TypeOK
    <3> DEFINE next == NextSeq(runs[activeRun])
    <3>2. next \in Nat /\ next = Len(runs[activeRun].log) + 1 /\ Len(runs[activeRun].log) \in Nat
      BY <1>1, <3>1, SizesAreNat DEF CoreInv, NextSeq
    <3> DEFINE tail == ExpiryTail(next)
    <3>3. tombstone' = [run |-> activeRun, tail |-> tail]
      BY <1>1, <2>2 DEF Expire
    <3> HIDE DEF next
    <3>5. /\ tail[1].seq = next /\ tail[1].type = "conversation.expired"
          /\ tail[2].seq = next + 1 /\ tail[2].type = "stream.end" /\ tail[2].state = "expired"
          /\ tail[2].index = next + 1
      BY <3>2, ExpiryTailFields
    <3> HIDE DEF tail
    <3>6. [i \in 1..2 |-> tail[i].type] = <<"conversation.expired", "stream.end">>
      BY <3>5
    <3>7. Fits(activeRun, tail)
      BY <3>2, <3>5, <3>6
    <3>8. tombstone'.run = activeRun /\ tombstone'.tail = tail
      BY <3>3
    <3> HIDE DEF Fits
    <3> QED  BY <3>1, <3>7, <3>8
  <2> QED  BY <2>1, <2>2
<1>2. ASSUME CoreInv, [Wide]_vars, resident, ~resident' PROVE Leaves
  <2>1. Expire
    BY <1>2, StepCommits, AcceptsOne
       DEF CoreInv, Begins, Adds, Settles, Writes, Ticks, SelectContext,
           RecordPreparedRequest, vars
  <2> QED  BY <1>1, <1>2, <2>1
<1>3. CoreInv /\ [Wide]_vars =>
        [resident /\ ~resident' =>
            IF \A r \in Runs : runs[r].state \notin LiveStates THEN tombstone' = None
            ELSE /\ runs[tombstone'.run].state \in LiveStates
                 /\ [i \in 1..2 |-> tombstone'.tail[i].type]
                        = <<"conversation.expired", "stream.end">>
                 /\ \A i \in 1..2 : tombstone'.tail[i].seq = Len(runs[tombstone'.run].log) + i
                 /\ tombstone'.tail[2].state = "expired"
                 /\ tombstone'.tail[2].index = tombstone'.tail[2].seq]_vars
  BY <1>2
<1> QED  BY <1>3, CoreInvariant, NextIsWide, PTL DEF Spec, ExpiryTailContinuesLog

-----------------------------------------------------------------------------
(* Lineages.  That each attempt follows the one before it holds because an
   acceptance looks at the whole lineage, so the invariant says more: the
   attempts of a lineage leave no gap, which makes counting them a bound, and a
   live Run is the last of its lineage.                                      *)
Attempts(r) == {runs[s].attempt : s \in Lineage(r)}
LineageInv ==
    /\ IsFiniteSet(Accepted)
    /\ \A r \in Accepted :
          /\ runs[r].question \in Accepted
          /\ runs[r].attempt >= 1
          /\ 1..runs[r].attempt \subseteq Attempts(r)
          /\ runs[r].state \in LiveStates =>
                 \A s \in Lineage(r) : runs[s].attempt <= runs[r].attempt

(* A Retry starts with what its target sent, so a request is sent from some
   attempt of the lineage on; a request selected is not recorded yet.        *)
SnapshotInv ==
    /\ \A r \in Accepted : \A s \in Lineage(r) :
          runs[s].attempt <= runs[r].attempt /\ runs[s].prepared # None =>
              runs[r].prepared = runs[s].prepared
    /\ \A r \in Runs : resident /\ selected[r] # None =>
          runs[r].state \notin {"absent", "queued"} /\ runs[r].prepared = None

HeritageInv == LineageInv /\ LineageIsChain /\ SnapshotInv

(* Steps that leave every lineage as it is, and let a Run only move on.      *)
SameHeritage ==
    /\ \A r \in Runs :
          /\ Heritage(runs'[r]) = Heritage(runs[r])
          /\ runs'[r].state = "absent" <=> runs[r].state = "absent"
          /\ runs'[r].state \in LiveStates => runs[r].state \in LiveStates
          /\ runs'[r].state = "queued" => runs[r].state = "queued"
          /\ runs[r].state \in RetryStates => runs'[r].state = runs[r].state
    /\ resident' = resident
    /\ selected' = selected

LEMMA HeritageParts ==
    ASSUME NEW a, NEW b, Heritage(a) = Heritage(b)
    PROVE  /\ a.question = b.question /\ a.attempt = b.attempt
           /\ a.retryOf = b.retryOf /\ a.prepared = b.prepared
BY DEF Heritage

LEMMA WritesKeepHeritage ==
    ASSUME CoreInv, NEW r \in Runs, Begins(r) \/ Adds(r) \/ \E s \in EndStates : Settles(r, s)
    PROVE  SameHeritage
<1>1. PICK s \in {"running"} \cup EndStates : \E events : Writes(r, s, events)
  BY DEF Begins, Adds, Settles
<1>2. /\ \A q \in Runs \ {r} : runs'[q] = runs[q]
      /\ runs[r].state \in LiveStates
  BY <1>1, WritesOne DEF CoreInv
<1>3. /\ Heritage(runs'[r]) = Heritage(runs[r]) /\ runs'[r].state \in {"running"} \cup EndStates
      /\ UNCHANGED <<resident, selected>>
  BY <1>1 DEF Writes
<1>4. /\ runs'[r].state \notin {"absent", "queued"} /\ runs[r].state # "absent"
      /\ runs[r].state \notin RetryStates
  BY <1>2, <1>3 DEF LiveStates, EndStates, RetryStates
<1> QED  BY <1>2, <1>3, <1>4 DEF SameHeritage

LEMMA SameHeritageStep ==
    ASSUME CoreInv, HeritageInv, SameHeritage
    PROVE  HeritageInv'
<1>1. \A r \in Runs : /\ runs'[r].question = runs[r].question
                      /\ runs'[r].attempt = runs[r].attempt
                      /\ runs'[r].retryOf = runs[r].retryOf
                      /\ runs'[r].prepared = runs[r].prepared
  BY HeritageParts DEF SameHeritage
<1>2. Accepted' = Accepted /\ Accepted \subseteq Runs
  BY DEF Accepted, SameHeritage
<1>3. \A r \in Runs : Lineage(r)' = Lineage(r) /\ Lineage(r) \subseteq Runs
  BY <1>1, <1>2 DEF Lineage
<1>4. \A r \in Runs : Attempts(r)' = Attempts(r)
  BY <1>1, <1>3 DEF Attempts
<1>5. LineageInv'
  BY <1>1, <1>2, <1>3, <1>4 DEF LineageInv, HeritageInv, SameHeritage
<1>6. LineageIsChain'
  <2> SUFFICES ASSUME NEW r \in Accepted
               PROVE  /\ runs'[r].attempt \in 1..MaxAttempts \/ runs'[r].attempt = 1
                      /\ \A s \in Lineage(r) \ {r} : runs'[s].attempt # runs'[r].attempt
                      /\ IF runs'[r].retryOf = None
                         THEN runs'[r].attempt = 1 /\ runs'[r].question = r
                         ELSE /\ runs'[r].retryOf \in Lineage(r)
                              /\ runs'[runs'[r].retryOf].attempt = runs'[r].attempt - 1
                              /\ runs'[runs'[r].retryOf].state \in RetryStates
    BY <1>2, <1>3 DEF LineageIsChain
  <2>1. /\ runs[r].attempt \in 1..MaxAttempts \/ runs[r].attempt = 1
        /\ \A s \in Lineage(r) \ {r} : runs[s].attempt # runs[r].attempt
    BY DEF LineageIsChain, HeritageInv
  <2>2. CASE runs[r].retryOf = None
    BY <1>1, <1>2, <1>3, <2>1, <2>2 DEF LineageIsChain, HeritageInv
  <2>3. CASE runs[r].retryOf # None
    <3> DEFINE t == runs[r].retryOf
    <3>1. t \in Lineage(r) /\ runs[t].attempt = runs[r].attempt - 1
          /\ runs[t].state \in RetryStates
      BY <2>3 DEF LineageIsChain, HeritageInv
    <3>2. runs'[t].state \in RetryStates
      BY <1>3, <3>1, <1>2 DEF SameHeritage
    <3> QED  BY <1>1, <1>2, <1>3, <2>1, <2>3, <3>1, <3>2
  <2> QED  BY <2>2, <2>3
<1>7. SnapshotInv'
  BY <1>1, <1>2, <1>3 DEF SnapshotInv, HeritageInv, SameHeritage
<1> QED  BY <1>5, <1>6, <1>7 DEF HeritageInv

LEMMA ExpireHeritage ==
    ASSUME Expire
    PROVE  HeritageInv'
<1>1. ~resident' /\ \A r \in Runs : runs'[r].state = "absent"
  BY AbsentTyped DEF Expire
<1>2. Accepted' = {}
  BY <1>1 DEF Accepted
<1>3. IsFiniteSet({})
  BY FS_EmptySet
<1> QED  BY <1>1, <1>2, <1>3 DEF HeritageInv, LineageInv, LineageIsChain, SnapshotInv

LEMMA SelectHeritage ==
    ASSUME CoreInv, HeritageInv, NEW r \in Runs, NEW cut, SelectContext(r, cut)
    PROVE  HeritageInv'
<1>1. /\ runs' = runs /\ resident' = resident
      /\ runs[r].state = "running" /\ runs[r].prepared = None
      /\ \A q \in Runs \ {r} : selected'[q] = selected[q]
  BY DEF SelectContext, CoreInv, TypeOK
<1>2. LineageInv' /\ LineageIsChain'
  BY <1>1 DEF HeritageInv, LineageInv, LineageIsChain, Lineage, Accepted, Attempts
<1>3. SnapshotInv'
  BY <1>1 DEF HeritageInv, SnapshotInv, Lineage, Accepted
<1> QED  BY <1>2, <1>3 DEF HeritageInv

LEMMA RecordHeritage ==
    ASSUME CoreInv, HeritageInv, NEW r \in Runs, RecordPreparedRequest(r)
    PROVE  HeritageInv'
<1>1. /\ \A q \in Runs : /\ runs'[q].state = runs[q].state
                         /\ runs'[q].question = runs[q].question
                         /\ runs'[q].attempt = runs[q].attempt
                         /\ runs'[q].retryOf = runs[q].retryOf
      /\ \A q \in Runs \ {r} : runs'[q] = runs[q]
      /\ selected[r] # None /\ resident' = resident
      /\ \/ runs'[r] = runs[r] /\ ~(resident /\ activeRun = r)
         \/ /\ resident /\ activeRun = r /\ runs[r].state \in LiveStates
            /\ runs'[r] = [runs[r] EXCEPT !.prepared = selected[r]]
  BY RecordsOne DEF CoreInv
<1>2. /\ Accepted' = Accepted /\ \A q \in Runs : Lineage(q)' = Lineage(q)
      /\ Accepted \subseteq Runs /\ \A q \in Runs : Lineage(q) \subseteq Runs
  <2>1. Accepted' = Accepted /\ Accepted \subseteq Runs
    BY <1>1 DEF Accepted
  <2> QED  BY <1>1, <2>1 DEF Lineage
<1>3. \A q \in Runs : Attempts(q)' = Attempts(q)
  BY <1>1, <1>2 DEF Attempts
<1>4. LineageInv'
  BY <1>1, <1>2, <1>3 DEF HeritageInv, LineageInv
<1>5. LineageIsChain'
  <2> SUFFICES ASSUME NEW q \in Accepted
               PROVE  /\ runs'[q].attempt \in 1..MaxAttempts \/ runs'[q].attempt = 1
                      /\ \A s \in Lineage(q) \ {q} : runs'[s].attempt # runs'[q].attempt
                      /\ IF runs'[q].retryOf = None
                         THEN runs'[q].attempt = 1 /\ runs'[q].question = q
                         ELSE /\ runs'[q].retryOf \in Lineage(q)
                              /\ runs'[runs'[q].retryOf].attempt = runs'[q].attempt - 1
                              /\ runs'[runs'[q].retryOf].state \in RetryStates
    BY <1>2 DEF LineageIsChain
  <2> QED  BY <1>1, <1>2 DEF HeritageInv, LineageIsChain
<1>6. SnapshotInv'
  <2>1. CASE ~(resident /\ activeRun = r)
    <3>1. runs'[r] = runs[r] /\ \A q \in Runs : runs'[q] = runs[q]
      BY <1>1, <2>1
    <3>2. \A q \in Runs : selected'[q] # None => selected[q] # None
      BY RecordsOne DEF CoreInv, TypeOK
    <3> QED  BY <1>1, <1>2, <3>1, <3>2 DEF HeritageInv, SnapshotInv
  <2>2. CASE resident /\ activeRun = r
    <3>1. runs[r].state \in LiveStates /\ r \in Accepted /\ runs[r].prepared = None
      BY <1>1, <2>2 DEF Accepted, LiveStates, HeritageInv, SnapshotInv
    <3>2. runs'[r].prepared = selected[r]
      BY <1>1, <2>2, SizesAreNat DEF CoreInv, RunType
    <3>3. \A s \in Lineage(r) : runs[s].attempt <= runs[r].attempt /\ runs[s].prepared = None
      BY <3>1, <1>2 DEF HeritageInv, LineageInv, SnapshotInv
    <3>4. ASSUME NEW q \in Accepted, NEW s \in Lineage(q),
                 runs[s].attempt <= runs[q].attempt, runs'[s].prepared # None
          PROVE  runs'[q].prepared = runs'[s].prepared
      <4>0. s \in Accepted /\ q \in Lineage(s)
        BY DEF Lineage
      <4>1. CASE s = r
        <5>1. runs[q].attempt <= runs[r].attempt /\ q \in Lineage(r)
          BY <4>0, <4>1, <3>3
        <5>2. /\ runs[q].attempt \in Nat /\ runs[r].attempt \in Nat
          BY <1>2, SizesAreNat DEF CoreInv, RunType
        <5>3. q = r
          BY <3>1, <3>4, <4>1, <5>1, <5>2 DEF HeritageInv, LineageIsChain
        <5> QED  BY <4>1, <5>3
      <4>2. CASE s # r
        <5>1. runs'[s] = runs[s]
          BY <1>1, <1>2, <4>0, <4>2
        <5>2. runs[q].prepared = runs[s].prepared
          BY <3>4, <5>1 DEF HeritageInv, SnapshotInv
        <5>3. q # r
          BY <3>1, <3>4, <5>1, <5>2
        <5> QED  BY <1>1, <1>2, <5>1, <5>2, <5>3
      <4> QED  BY <4>1, <4>2
    <3>5. \A q \in Runs : resident' /\ selected'[q] # None =>
              runs'[q].state \notin {"absent", "queued"} /\ runs'[q].prepared = None
      <4>1. selected' = [selected EXCEPT ![r] = None] /\ selected \in [Runs -> Request \cup {None}]
        BY RecordsOne DEF CoreInv, TypeOK
      <4>2. selected'[r] = None /\ \A q \in Runs \ {r} : selected'[q] = selected[q]
        BY <4>1
      <4> QED  BY <1>1, <4>2 DEF HeritageInv, SnapshotInv
    <3> QED  BY <1>1, <1>2, <3>4, <3>5 DEF SnapshotInv
  <2> QED  BY <2>1, <2>2
<1> QED  BY <1>4, <1>5, <1>6 DEF HeritageInv

(* An acceptance adds one Run, and its lineage grows by that Run.            *)
LEMMA AcceptGrowsOne ==
    ASSUME CoreInv, HeritageInv, NEW k \in Keys, NEW r \in Runs,
           \/ \E c \in Contents : AcceptQuestion(k, c, r)
           \/ \E t \in Runs : AcceptRetry(k, t, r)
    PROVE  /\ r \notin Accepted /\ Accepted' = Accepted \cup {r} /\ Accepted \subseteq Runs
           /\ \A q \in Accepted :
                 /\ runs'[q] = runs[q] /\ runs[q].state \notin LiveStates
                 /\ Lineage(q) \subseteq Accepted
                 /\ Lineage(q)' = IF runs[q].question = runs'[r].question
                                 THEN Lineage(q) \cup {r} ELSE Lineage(q)
           /\ Lineage(r)' = {s \in Accepted : runs[s].question = runs'[r].question} \cup {r}
           /\ IsFiniteSet(Accepted')
           /\ selected' = selected /\ resident' = resident /\ resident
<1>1. /\ runs[r].state = "absent" /\ runs'[r].state = "queued"
      /\ \A q \in Runs \ {r} : runs'[q] = runs[q] /\ runs[q].state \notin LiveStates
      /\ resident /\ UNCHANGED <<resident, selected>>
  BY AcceptsOne DEF CoreInv
<1>2. /\ r \notin Accepted /\ Accepted' = Accepted \cup {r} /\ Accepted \subseteq Runs
  BY <1>1 DEF Accepted
<1>3. IsFiniteSet(Accepted')
  <2>1. IsFiniteSet(Accepted)
    BY DEF HeritageInv, LineageInv
  <2> QED  BY <1>2, <2>1, FS_AddElement
<1>4. Lineage(r)' = {s \in Accepted : runs[s].question = runs'[r].question} \cup {r}
  BY <1>1, <1>2 DEF Lineage
<1>5. ASSUME NEW q \in Accepted
      PROVE  /\ runs'[q] = runs[q] /\ runs[q].state \notin LiveStates
             /\ Lineage(q) \subseteq Accepted
             /\ Lineage(q)' = IF runs[q].question = runs'[r].question
                             THEN Lineage(q) \cup {r} ELSE Lineage(q)
  BY <1>1, <1>2 DEF Lineage
<1> QED  BY <1>1, <1>2, <1>3, <1>4, <1>5

LEMMA QuestionHeritage ==
    ASSUME CoreInv, HeritageInv, NEW k \in Keys, NEW c \in Contents, NEW r \in Runs,
           AcceptQuestion(k, c, r)
    PROVE  HeritageInv'
<1>1. /\ runs'[r].state = "queued" /\ runs'[r].question = r /\ runs'[r].attempt = 1
      /\ runs'[r].retryOf = None /\ runs'[r].prepared = None
  <2> DEFINE run == [Absent EXCEPT !.state = "queued", !.question = r, !.attempt = 1]
  <2>1. /\ run.state = "queued" /\ run.question = r /\ run.attempt = 1
        /\ run.retryOf = None /\ run.prepared = None
    BY DEF Absent
  <2>2. Install(k, c, r, run)
    BY DEF AcceptQuestion
  <2> HIDE DEF run
  <2>3. runs'[r] = run
    BY <2>2 DEF Install, CoreInv, TypeOK
  <2> QED  BY <2>1, <2>3
<1>2. /\ r \notin Accepted /\ Accepted' = Accepted \cup {r} /\ Accepted \subseteq Runs
      /\ \A q \in Accepted : /\ runs'[q] = runs[q] /\ runs[q].state \notin LiveStates
                             /\ runs[q].question # r /\ Lineage(q) \subseteq Accepted
                             /\ Lineage(q)' = Lineage(q)
      /\ IsFiniteSet(Accepted') /\ selected' = selected /\ resident' = resident
      /\ Lineage(r)' = {r} /\ resident
  BY <1>1, AcceptGrowsOne DEF HeritageInv, LineageInv
<1>3. /\ Attempts(r)' = {1} /\ \A q \in Accepted : Attempts(q)' = Attempts(q)
  <2>1. Attempts(r)' = {1}
    BY <1>1, <1>2 DEF Attempts
  <2> QED  BY <1>2, <2>1 DEF Attempts
<1>4. LineageInv'
  BY <1>1, <1>2, <1>3 DEF HeritageInv, LineageInv
<1>5. LineageIsChain'
  <2>1. ASSUME NEW q \in Accepted
        PROVE  /\ runs'[q].attempt \in 1..MaxAttempts \/ runs'[q].attempt = 1
               /\ \A s \in Lineage(q) \ {q} : runs'[s].attempt # runs'[q].attempt
               /\ IF runs'[q].retryOf = None
                  THEN runs'[q].attempt = 1 /\ runs'[q].question = q
                  ELSE /\ runs'[q].retryOf \in Lineage(q)
                       /\ runs'[runs'[q].retryOf].attempt = runs'[q].attempt - 1
                       /\ runs'[runs'[q].retryOf].state \in RetryStates
    BY <1>2 DEF HeritageInv, LineageIsChain
  <2> QED  BY <1>1, <1>2, <2>1 DEF LineageIsChain
<1>6. SnapshotInv'
  <2>1. selected[r] = None
    BY <1>2, AcceptsOne DEF CoreInv, HeritageInv, SnapshotInv
  <2>2. \A q \in Runs : q # r => runs'[q] = runs[q]
    BY AcceptsOne DEF CoreInv
  <2> QED  BY <1>1, <1>2, <2>1, <2>2 DEF HeritageInv, SnapshotInv
<1> QED  BY <1>4, <1>5, <1>6 DEF HeritageInv

(* A lineage without gaps has as many Runs as its last attempt says.         *)
LEMMA LineageCounts ==
    ASSUME CoreInv, HeritageInv, NEW t \in Accepted
    PROVE  runs[t].attempt <= Cardinality(Lineage(t))
<1>1. IsFiniteSet(Lineage(t)) /\ t \in Runs
  <2>1. IsFiniteSet(Accepted) /\ Lineage(t) \in SUBSET Accepted
    BY DEF HeritageInv, LineageInv, Lineage
  <2> QED  BY <2>1, FS_Subset DEF Accepted
<1> DEFINE n == runs[t].attempt
           pick(i) == CHOOSE s \in Lineage(t) : runs[s].attempt = i
           at == [i \in 1..n |-> pick(i)]
<1>2. n \in Nat
  BY <1>1, SizesAreNat DEF CoreInv, RunType
<1>3. \A i \in 1..n : pick(i) \in Lineage(t) /\ runs[pick(i)].attempt = i
  <2> TAKE i \in 1..n
  <2>1. \E s \in Lineage(t) : runs[s].attempt = i
    BY DEF HeritageInv, LineageInv, Attempts
  <2> QED  BY <2>1
<1> HIDE DEF pick
<1>4. at \in [1..n -> Lineage(t)] /\ \A i \in 1..n : runs[at[i]].attempt = i
  BY <1>3
<1> HIDE DEF at, n
<1>5. IsFiniteSet(1..n) /\ Cardinality(1..n) = n
  <2>1. 1 \in Int /\ n \in Int /\ (1 > n => n = 0)
    BY <1>2
  <2>2. /\ IsFiniteSet(1..n)
        /\ Cardinality(1..n) = IF 1 > n THEN 0 ELSE n - 1 + 1
    BY <2>1, FS_Interval
  <2> QED  BY <1>2, <2>1, <2>2
<1>6. Cardinality(Lineage(t)) \in Nat
  BY <1>1, FS_CardinalityType
<1>7. ASSUME Cardinality(Lineage(t)) < n PROVE FALSE
  <2>1. \E x, y \in 1..n : x # y /\ at[x] = at[y]
    BY <1>1, <1>4, <1>5, <1>7, FS_PigeonHole
  <2> QED  BY <1>4, <2>1
<1>8. n <= Cardinality(Lineage(t))
  BY <1>2, <1>6, <1>7
<1> QED  BY <1>8 DEF n

LEMMA RetryHeritage ==
    ASSUME CoreInv, HeritageInv, NEW k \in Keys, NEW t \in Runs, NEW r \in Runs,
           AcceptRetry(k, t, r)
    PROVE  HeritageInv'
<1> DEFINE family == Lineage(t)
<1>0. /\ t \in Accepted /\ runs[t].state \in RetryStates
      /\ \A s \in family : runs[s].attempt <= runs[t].attempt
      /\ Cardinality(family) < MaxAttempts
  BY DEF AcceptRetry, Retryable
<1>1. /\ runs'[r].state = "queued" /\ runs'[r].question = runs[t].question
      /\ runs'[r].attempt = runs[t].attempt + 1
      /\ runs'[r].retryOf = t /\ runs'[r].prepared = runs[t].prepared
  <2> DEFINE run == [Absent EXCEPT !.state = "queued", !.question = runs[t].question,
                                   !.attempt = runs[t].attempt + 1, !.retryOf = t,
                                   !.prepared = runs[t].prepared]
  <2>1. /\ run.state = "queued" /\ run.question = runs[t].question
        /\ run.attempt = runs[t].attempt + 1
        /\ run.retryOf = t /\ run.prepared = runs[t].prepared
    BY DEF Absent
  <2>2. Install(k, t, r, run)
    BY DEF AcceptRetry
  <2> HIDE DEF run
  <2>3. runs'[r] = run
    BY <2>2 DEF Install, CoreInv, TypeOK
  <2> QED  BY <2>1, <2>3
<1>2. /\ r \notin Accepted /\ Accepted' = Accepted \cup {r} /\ Accepted \subseteq Runs
      /\ \A q \in Accepted :
            /\ runs'[q] = runs[q] /\ runs[q].state \notin LiveStates
            /\ Lineage(q) \subseteq Accepted
            /\ Lineage(q)' = IF q \in family THEN Lineage(q) \cup {r} ELSE Lineage(q)
            /\ q \in family => Lineage(q) = family
      /\ IsFiniteSet(Accepted') /\ selected' = selected /\ resident' = resident
      /\ Lineage(r)' = family \cup {r} /\ family \subseteq Accepted /\ t \in family /\ resident
  <2>1. \A q \in Accepted : q \in family <=> runs[q].question = runs'[r].question
    BY <1>1 DEF Lineage
  <2>2. family = {s \in Accepted : runs[s].question = runs'[r].question}
    BY <1>1 DEF Lineage
  <2>3. \A q \in family : Lineage(q) = family
    BY DEF Lineage
  <2>4. t \in family
    BY <1>0 DEF Lineage
  <2> HIDE DEF family
  <2> QED  BY <2>1, <2>2, <2>3, <2>4, AcceptGrowsOne
<1>3. \A q \in Accepted : runs[q].attempt \in Nat /\ runs[q].attempt >= 1
  BY <1>2, SizesAreNat DEF CoreInv, RunType, HeritageInv, LineageInv
<1>4. runs[t].attempt \in Nat /\ runs[t].attempt >= 1 /\ runs[t].attempt + 1 \in Nat
  BY <1>0, <1>3
<1> HIDE DEF family
<1>5. LineageInv'
  <2>1. ASSUME NEW q \in Accepted
        PROVE  /\ runs'[q].question \in Accepted'
               /\ runs'[q].attempt >= 1
               /\ 1..runs'[q].attempt \subseteq Attempts(q)'
               /\ runs'[q].state \notin LiveStates
    <3>1. Attempts(q) \subseteq Attempts(q)'
      BY <1>2 DEF Attempts
    <3> QED  BY <1>2, <3>1 DEF HeritageInv, LineageInv
  <2>2. 1..runs'[r].attempt \subseteq Attempts(r)'
    <3>1. 1..runs[t].attempt \subseteq Attempts(t)
      BY <1>0 DEF HeritageInv, LineageInv
    <3>2. Attempts(t) \subseteq Attempts(r)' /\ runs'[r].attempt \in Attempts(r)'
      BY <1>0, <1>2 DEF Attempts
    <3> QED  BY <1>1, <1>4, <3>1, <3>2
  <2>3. \A s \in Lineage(r)' : runs'[s].attempt <= runs'[r].attempt
    <3>1. \A s \in family : runs'[s].attempt <= runs[t].attempt /\ runs'[s].attempt \in Nat
      BY <1>0, <1>2, <1>3
    <3> QED  BY <1>1, <1>2, <1>4, <3>1
  <2>4. runs'[r].question \in Accepted' /\ runs'[r].attempt >= 1
    BY <1>0, <1>1, <1>2, <1>4 DEF HeritageInv, LineageInv
  <2> QED  BY <1>2, <2>1, <2>2, <2>3, <2>4 DEF LineageInv
<1>6. LineageIsChain'
  <2>1. ASSUME NEW q \in Accepted
        PROVE  /\ runs'[q].attempt \in 1..MaxAttempts \/ runs'[q].attempt = 1
               /\ \A s \in Lineage(q)' \ {q} : runs'[s].attempt # runs'[q].attempt
               /\ IF runs'[q].retryOf = None
                  THEN runs'[q].attempt = 1 /\ runs'[q].question = q
                  ELSE /\ runs'[q].retryOf \in Lineage(q)'
                       /\ runs'[runs'[q].retryOf].attempt = runs'[q].attempt - 1
                       /\ runs'[runs'[q].retryOf].state \in RetryStates
    <3>1. /\ runs[q].attempt \in 1..MaxAttempts \/ runs[q].attempt = 1
          /\ \A s \in Lineage(q) \ {q} : runs[s].attempt # runs[q].attempt
          /\ IF runs[q].retryOf = None
             THEN runs[q].attempt = 1 /\ runs[q].question = q
             ELSE /\ runs[q].retryOf \in Lineage(q)
                  /\ runs[runs[q].retryOf].attempt = runs[q].attempt - 1
                  /\ runs[runs[q].retryOf].state \in RetryStates
      BY DEF HeritageInv, LineageIsChain
    <3>2. runs'[q] = runs[q] /\ Lineage(q) \subseteq Lineage(q)' /\ Lineage(q) \subseteq Accepted
      BY <1>2
    <3>3. q \in family => runs'[r].attempt # runs'[q].attempt
      BY <1>0, <1>1, <1>3, <1>4, <3>2
    <3>4. \A s \in Lineage(q)' : s \in Lineage(q) \/ (s = r /\ q \in family)
      <4>1. Lineage(q)' = IF q \in family THEN Lineage(q) \cup {r} ELSE Lineage(q)
        BY <1>2
      <4> QED  BY <4>1
    <3>5. \A s \in Lineage(q)' \ {q} : runs'[s].attempt # runs'[q].attempt
      BY <1>2, <3>1, <3>2, <3>3, <3>4
    <3> QED  BY <1>2, <3>1, <3>2, <3>5
  <2>2. \A s \in Lineage(r)' \ {r} : runs'[s].attempt # runs'[r].attempt
    <3>1. \A s \in family : runs'[s].attempt <= runs[t].attempt /\ runs'[s].attempt \in Nat
      BY <1>0, <1>2, <1>3
    <3> QED  BY <1>1, <1>2, <1>4, <3>1
  <2>3. runs'[r].attempt \in 1..MaxAttempts
    <3>1. runs[t].attempt <= Cardinality(family) /\ Cardinality(family) \in Nat
      <4>1. IsFiniteSet(family)
        <5>1. IsFiniteSet(Accepted) /\ family \in SUBSET Accepted
          BY <1>2 DEF HeritageInv, LineageInv
        <5> QED  BY <5>1, FS_Subset
      <4> QED  BY <1>0, <4>1, LineageCounts, FS_CardinalityType DEF family
    <3>2. MaxAttempts \in Nat
      BY LimitsAssumption
    <3> QED  BY <1>0, <1>1, <1>4, <3>1, <3>2
  <2>4. /\ runs'[r].retryOf # None /\ runs'[r].retryOf \in Lineage(r)'
        /\ runs'[runs'[r].retryOf].attempt = runs'[r].attempt - 1
        /\ runs'[runs'[r].retryOf].state \in RetryStates
    <3>1. t # None
      BY InputsAssumption
    <3> QED  BY <1>0, <1>1, <1>2, <1>4, <3>1
  <2> QED  BY <1>2, <2>1, <2>2, <2>3, <2>4 DEF LineageIsChain
<1>7. SnapshotInv'
  <2>1. /\ selected[r] = None
    BY <1>2, AcceptsOne DEF CoreInv, HeritageInv, SnapshotInv
  <2>2. \A q \in Runs : resident' /\ selected'[q] # None =>
            runs'[q].state \notin {"absent", "queued"} /\ runs'[q].prepared = None
    <3>1. \A q \in Runs : q # r => runs'[q] = runs[q]
      BY AcceptsOne DEF CoreInv
    <3> QED  BY <1>2, <2>1, <3>1 DEF HeritageInv, SnapshotInv
  <2>3. ASSUME NEW q \in Accepted', NEW s \in Lineage(q)',
               runs'[s].attempt <= runs'[q].attempt, runs'[s].prepared # None
        PROVE  runs'[q].prepared = runs'[s].prepared
    <3>1. CASE q = r
      <4>1. CASE s = r
        BY <3>1, <4>1
      <4>2. CASE s \in family
        <5>1. runs[s].attempt <= runs[t].attempt /\ runs'[s] = runs[s] /\ s \in Lineage(t)
          BY <1>0, <1>2, <4>2 DEF family
        <5>2. runs[t].prepared = runs[s].prepared
          BY <1>0, <2>3, <5>1 DEF HeritageInv, SnapshotInv
        <5> QED  BY <1>1, <3>1, <5>1, <5>2
      <4> QED  BY <1>2, <2>3, <3>1, <4>1, <4>2
    <3>2. CASE q # r /\ s = r
      <4>1. q \in Accepted /\ q \in family
        BY <1>2, <2>3, <3>2
      <4>2. runs'[q].attempt <= runs[t].attempt /\ runs'[q].attempt \in Nat
        BY <1>0, <1>2, <1>3, <4>1
      <4> QED  BY <1>1, <1>4, <2>3, <3>2, <4>2
    <3>3. CASE q # r /\ s # r
      <4>1. q \in Accepted /\ s \in Lineage(q) /\ s \in Accepted
        BY <1>2, <2>3, <3>3
      <4>2. runs'[q] = runs[q] /\ runs'[s] = runs[s]
        BY <1>2, <4>1
      <4> QED  BY <2>3, <4>1, <4>2 DEF HeritageInv, SnapshotInv
    <3> QED  BY <3>1, <3>2, <3>3
  <2> QED  BY <2>2, <2>3 DEF SnapshotInv
<1> QED  BY <1>5, <1>6, <1>7 DEF HeritageInv

LEMMA HeritageStep ==
    ASSUME CoreInv, HeritageInv, [Wide]_vars
    PROVE  HeritageInv'
<1>1. ASSUME UNCHANGED <<runs, resident, selected>> PROVE SameHeritage
  BY <1>1 DEF SameHeritage
<1>2. CASE Ticks \/ UNCHANGED vars
  BY <1>1, <1>2, SameHeritageStep DEF Ticks, vars
<1>3. CASE \E r \in Runs : Begins(r) \/ Adds(r) \/ \E s \in EndStates : Settles(r, s)
  BY <1>3, WritesKeepHeritage, SameHeritageStep
<1> QED
  BY <1>2, <1>3, StepCommits, ExpireHeritage, SelectHeritage, RecordHeritage,
     QuestionHeritage, RetryHeritage DEF CoreInv

LEMMA HeritageInit == Init => HeritageInv
<1> SUFFICES ASSUME Init PROVE HeritageInv
  OBVIOUS
<1>1. Accepted = {} /\ \A r \in Runs : selected[r] = None
  BY AbsentTyped DEF Init, Accepted
<1>2. IsFiniteSet({})
  BY FS_EmptySet
<1> QED  BY <1>1, <1>2 DEF HeritageInv, LineageInv, LineageIsChain, SnapshotInv

LEMMA HeritageInvariant == Spec => []HeritageInv
BY HeritageInit, HeritageStep, CoreInvariant, NextIsWide, PTL DEF Spec

(* Each attempt follows the one before it and re-sends its request.          *)
THEOREM RetryFollowsTarget == Spec => []RetryContinuesLineage
<1>1. ASSUME CoreInv, HeritageInv PROVE RetryResendsSnapshot
  <2> SUFFICES ASSUME NEW r \in Accepted, NEW s \in Lineage(r),
                      runs[r].prepared # None, runs[s].prepared # None
               PROVE  runs[r].prepared = runs[s].prepared
    BY DEF RetryResendsSnapshot
  <2>1. /\ s \in Accepted /\ r \in Lineage(s)
        /\ runs[r].attempt \in Nat /\ runs[s].attempt \in Nat
    BY <1>1, SizesAreNat DEF Lineage, Accepted, CoreInv, RunType
  <2>2. runs[s].attempt <= runs[r].attempt \/ runs[r].attempt <= runs[s].attempt
    BY <2>1
  <2> QED  BY <1>1, <2>1, <2>2 DEF HeritageInv, SnapshotInv
<1>2. CoreInv /\ HeritageInv => RetryContinuesLineage
  BY <1>1 DEF RetryContinuesLineage, HeritageInv
<1> QED  BY <1>2, CoreInvariant, HeritageInvariant, PTL

-----------------------------------------------------------------------------
(* What was selected stays current: the History a Run would send changes only
   by an answer or a question, and neither comes while that Run is running.  *)
SelectedInv ==
    \A r \in Runs : resident /\ runs[r].state = "running" /\ selected[r] # None =>
        /\ \E cut \in 0..Len(messages) : selected[r].turns = TurnsAfter(cut)
        /\ selected[r].dropped <=> selected[r].turns # CompletedTurns

LEMMA SameTurns ==
    ASSUME messages' = messages,
           \A q \in Runs : /\ runs'[q].question = runs[q].question
                           /\ runs'[q].state = "completed" <=> runs[q].state = "completed"
    PROVE  CompletedTurns' = CompletedTurns /\ \A cut : TurnsAfter(cut)' = TurnsAfter(cut)
<1>1. CompletedTurns' = CompletedTurns
  BY DEF CompletedTurns, Questions
<1> QED  BY <1>1 DEF TurnsAfter

LEMMA SelectedStep ==
    ASSUME CoreInv, HeritageInv, SelectedInv, [Wide]_vars
    PROVE  SelectedInv'
<1> DEFINE Fresh(r) ==
        /\ \E cut \in 0..Len(messages) : selected[r].turns = TurnsAfter(cut)
        /\ selected[r].dropped <=> selected[r].turns # CompletedTurns
<1>0. \A q \in Runs : resident /\ runs[q].state = "running" /\ selected[q] # None => Fresh(q)
  BY DEF SelectedInv
<1>i. (\A q \in Runs : resident' /\ runs'[q].state = "running" /\ selected'[q] # None => Fresh(q)')
          => SelectedInv'
  BY DEF SelectedInv
<1>k. ASSUME messages' = messages,
             \A q \in Runs : /\ runs'[q].question = runs[q].question
                             /\ runs'[q].state = "completed" <=> runs[q].state = "completed"
      PROVE  \A q \in Runs : selected'[q] = selected[q] /\ Fresh(q) => Fresh(q)'
  <2>1. CompletedTurns' = CompletedTurns /\ \A cut : TurnsAfter(cut)' = TurnsAfter(cut)
    BY <1>k, SameTurns
  <2> QED  BY <1>k, <2>1
<1>w. ASSUME NEW r \in Runs, Begins(r) \/ Adds(r) PROVE SelectedInv'
  <2>1. SameHeritage /\ messages' = messages
    BY <1>w, WritesKeepHeritage DEF Begins, Adds
  <2>2. /\ \E events : Writes(r, "running", events)
        /\ runs'[r].state = "running" /\ runs[r].state \in LiveStates
        /\ selected' = selected /\ resident' = resident
    BY <1>w DEF Begins, Adds, Writes
  <2>3. \A q \in Runs \ {r} : runs'[q] = runs[q]
    BY <2>2, WritesOne DEF CoreInv
  <2>4. \A q \in Runs : /\ runs'[q].question = runs[q].question
                        /\ runs'[q].state = "completed" <=> runs[q].state = "completed"
    <3>1. runs'[r].question = runs[r].question
      BY <2>1, HeritageParts DEF SameHeritage
    <3> QED  BY <2>2, <2>3, <3>1 DEF LiveStates
  <2>5. \A q \in Runs : resident' /\ runs'[q].state = "running" /\ selected'[q] # None =>
            resident /\ runs[q].state = "running" /\ selected[q] # None
    BY <2>2, <2>3 DEF HeritageInv, SnapshotInv, LiveStates
  <2> HIDE DEF Fresh
  <2>6. \A q \in Runs : Fresh(q) => Fresh(q)'
    BY <1>k, <2>1, <2>2, <2>4
  <2> QED  BY <1>0, <1>i, <2>5, <2>6
<1>s. ASSUME NEW r \in Runs, NEW s \in EndStates, Settles(r, s) PROVE SelectedInv'
  <2>1. /\ activeRun = r /\ runs'[r].state \in EndStates
        /\ \A q \in Runs \ {r} : runs'[q] = runs[q]
    BY <1>s, WritesOne DEF Settles, Writes, CoreInv
  <2>2. \A q \in Runs : runs'[q].state # "running"
    BY <2>1 DEF CoreInv, LiveRunIsActive, LiveStates, EndStates
  <2> QED  BY <2>2 DEF SelectedInv
<1>a. ASSUME NEW k \in Keys, NEW r \in Runs,
             \/ \E c \in Contents : AcceptQuestion(k, c, r)
             \/ \E t \in Runs : AcceptRetry(k, t, r)
      PROVE  SelectedInv'
  <2>1. runs'[r].state = "queued" /\ \A q \in Runs \ {r} : runs'[q].state \notin LiveStates
    BY <1>a, AcceptsOne DEF CoreInv
  <2>2. \A q \in Runs : runs'[q].state # "running"
    BY <2>1 DEF LiveStates
  <2> QED  BY <2>2 DEF SelectedInv
<1>c. ASSUME NEW r \in Runs, NEW cut \in 0..Len(messages), SelectContext(r, cut)
      PROVE  SelectedInv'
  <2>1. /\ runs' = runs /\ messages' = messages /\ resident' = resident
        /\ \A q \in Runs \ {r} : selected'[q] = selected[q]
        /\ selected'[r] = [turns |-> TurnsAfter(cut), dropped |-> TurnsAfter(cut) # CompletedTurns]
    BY <1>c DEF SelectContext, CoreInv, TypeOK
  <2>2. CompletedTurns' = CompletedTurns /\ \A c : TurnsAfter(c)' = TurnsAfter(c)
    BY <2>1, SameTurns
  <2>3. Fresh(r)'
    <3>1. /\ selected'[r].turns = TurnsAfter(cut)
          /\ selected'[r].dropped <=> TurnsAfter(cut) # CompletedTurns
      <4> DEFINE turns == TurnsAfter(cut)
                 dropped == turns # CompletedTurns
      <4>1. selected'[r] = [turns |-> turns, dropped |-> dropped]
        BY <2>1
      <4> HIDE DEF turns, dropped
      <4>2. selected'[r].turns = turns /\ selected'[r].dropped = dropped
        BY <4>1
      <4> QED  BY <4>2 DEF turns, dropped
    <3>2. cut \in 0..Len(messages') /\ selected'[r].turns = TurnsAfter(cut)'
      BY <2>1, <2>2, <3>1
    <3>3. selected'[r].dropped <=> selected'[r].turns # CompletedTurns'
      BY <2>2, <3>1
    <3> QED  BY <3>2, <3>3
  <2> HIDE DEF Fresh
  <2>4. \A q \in Runs \ {r} : Fresh(q) => Fresh(q)'
    BY <1>k, <2>1
  <2> QED  BY <1>0, <1>i, <2>1, <2>3, <2>4
<1>r. ASSUME NEW r \in Runs, RecordPreparedRequest(r) PROVE SelectedInv'
  <2>1. /\ \A q \in Runs : runs'[q].state = runs[q].state /\ runs'[q].question = runs[q].question
        /\ messages' = messages /\ resident' = resident
        /\ selected' = [selected EXCEPT ![r] = None]
    BY <1>r, RecordsOne DEF CoreInv
  <2>2. selected'[r] = None /\ \A q \in Runs \ {r} : selected'[q] = selected[q]
    BY <2>1 DEF CoreInv, TypeOK
  <2> HIDE DEF Fresh
  <2>3. \A q \in Runs \ {r} : Fresh(q) => Fresh(q)'
    BY <1>k, <2>1, <2>2
  <2> QED  BY <1>0, <1>i, <2>1, <2>2, <2>3
<1>e. ASSUME Expire PROVE SelectedInv'
  BY <1>e DEF Expire, SelectedInv
<1>t. ASSUME Ticks \/ UNCHANGED vars PROVE SelectedInv'
  <2>1. UNCHANGED <<messages, runs, resident, selected>>
    BY <1>t DEF Ticks, vars
  <2> HIDE DEF Fresh
  <2>2. \A q \in Runs : Fresh(q) => Fresh(q)'
    BY <1>k, <2>1
  <2> QED  BY <1>0, <1>i, <2>1, <2>2
<1> QED
  BY <1>w, <1>s, <1>a, <1>c, <1>r, <1>e, <1>t, StepCommits DEF CoreInv

(* A Run records the History as it stands then, whatever came between the two
   calls that select it and record it.                                       *)
THEOREM RequestIsCurrent == Spec => PreparedIsCurrentHistory
<1>1. Init => SelectedInv
  BY AbsentTyped DEF Init, SelectedInv
<1>2. ASSUME CoreInv, HeritageInv, SelectedInv, [Wide]_vars, NEW r \in Runs,
             runs[r].state # "absent", runs'[r].state # "absent",
             runs'[r].prepared # runs[r].prepared
      PROVE  /\ \E cut \in 0..Len(messages) : runs'[r].prepared.turns = TurnsAfter(cut)
             /\ runs'[r].prepared.dropped <=> runs'[r].prepared.turns # CompletedTurns
  <2>1. ASSUME NEW q \in Runs, Begins(q) \/ Adds(q) \/ \E s \in EndStates : Settles(q, s)
        PROVE  FALSE
    BY <1>2, <2>1, WritesKeepHeritage, HeritageParts DEF SameHeritage
  <2>2. ASSUME NEW k \in Keys, NEW q \in Runs,
               \/ \E c \in Contents : AcceptQuestion(k, c, q)
               \/ \E t \in Runs : AcceptRetry(k, t, q)
        PROVE  FALSE
    BY <1>2, <2>2, AcceptsOne DEF CoreInv
  <2>3. ~Expire
    BY <1>2, AbsentTyped DEF Expire
  <2>4. runs' # runs
    BY <1>2
  <2>5. PICK q \in Runs : RecordPreparedRequest(q)
    BY <1>2, <2>1, <2>2, <2>3, <2>4, StepCommits DEF CoreInv, SelectContext, Ticks, vars
  <2>6. q = r /\ resident /\ runs[r].state \in LiveStates /\ selected[r] # None
        /\ runs'[r] = [runs[r] EXCEPT !.prepared = selected[r]]
    BY <1>2, <2>5, RecordsOne DEF CoreInv
  <2>7. runs[r].state = "running"
    BY <1>2, <2>6 DEF HeritageInv, SnapshotInv, LiveStates
  <2>8. runs'[r].prepared = selected[r]
    BY <1>2, <2>6, SizesAreNat DEF CoreInv, RunType
  <2> QED  BY <1>2, <2>6, <2>7, <2>8 DEF SelectedInv
<1>3. CoreInv /\ HeritageInv /\ SelectedInv /\ [Wide]_vars =>
        [\A r \in Runs :
            runs[r].state # "absent" /\ runs'[r].state # "absent"
            /\ runs'[r].prepared # runs[r].prepared =>
                LET request == runs'[r].prepared
                IN  /\ \E cut \in 0..Len(messages) : request.turns = TurnsAfter(cut)
                    /\ request.dropped <=> request.turns # CompletedTurns]_vars
  BY <1>2
<1> QED  BY <1>1, <1>3, SelectedStep, CoreInvariant, HeritageInvariant, NextIsWide, PTL
         DEF Spec, PreparedIsCurrentHistory

-----------------------------------------------------------------------------
(* The transcript.                                                           *)
Entry(role, r) == [role |-> role, run |-> r]
Places(role, r) == {i \in 1..Len(messages) : messages[i] = Entry(role, r)}

LEMMA PlacesFinite ==
    ASSUME TypeOK
    PROVE  /\ Len(messages) \in Nat
           /\ \A role, r : /\ IsFiniteSet(Places(role, r)) /\ Places(role, r) \subseteq 1..Len(messages)
                           /\ Cardinality(Places(role, r)) = 0 => Places(role, r) = {}
           /\ IsFiniteSet(Questions) /\ Cardinality(Questions) \in Nat
<1>1. Len(messages) \in Nat
  BY DEF TypeOK
<1>2. IsFiniteSet(1..Len(messages))
  BY <1>1, FS_Interval
<1>3. ASSUME NEW S \in SUBSET (1..Len(messages))
      PROVE  IsFiniteSet(S) /\ Cardinality(S) \in Nat /\ (Cardinality(S) = 0 => S = {})
  BY <1>2, FS_Subset, FS_CardinalityType, FS_EmptySet
<1>4. /\ \A role, r : Places(role, r) \in SUBSET (1..Len(messages))
      /\ Questions \in SUBSET (1..Len(messages))
  BY DEF Places, Questions
<1> QED  BY <1>1, <1>3, <1>4

LEMMA AppendPlaces ==
    ASSUME TypeOK, NEW role \in {"user", "assistant"}, NEW r \in Runs,
           messages' = Append(messages, Entry(role, r))
    PROVE  /\ \A other, q : Places(other, q)' = IF other = role /\ q = r
                                               THEN Places(other, q) \cup {Len(messages) + 1}
                                               ELSE Places(other, q)
           /\ Questions' = IF role = "user" THEN Questions \cup {Len(messages) + 1}
                           ELSE Questions
           /\ Len(messages) + 1 \notin Questions
<1> DEFINE n == Len(messages)
<1>1. /\ n \in Nat /\ Len(messages') = n + 1 /\ 1..(n + 1) = (1..n) \cup {n + 1}
      /\ messages'[n + 1] = Entry(role, r)
      /\ \A i \in 1..n : messages'[i] = messages[i]
  BY DEF TypeOK
<1>2. /\ Entry(role, r).role = role
      /\ \A other, q : Entry(role, r) = Entry(other, q) <=> other = role /\ q = r
  BY DEF Entry
<1> HIDE DEF n
<1>3. ASSUME NEW other, NEW q
      PROVE  {i \in 1..Len(messages') : messages'[i] = Entry(other, q)} =
                IF other = role /\ q = r
                THEN {i \in 1..n : messages[i] = Entry(other, q)} \cup {n + 1}
                ELSE {i \in 1..n : messages[i] = Entry(other, q)}
  BY <1>1, <1>2
<1>4. {i \in 1..Len(messages') : messages'[i].role = "user"} =
         IF role = "user"
         THEN {i \in 1..n : messages[i].role = "user"} \cup {n + 1}
         ELSE {i \in 1..n : messages[i].role = "user"}
  BY <1>1, <1>2
<1>5. n + 1 \notin 1..n
  BY <1>1
<1> QED  BY <1>3, <1>4, <1>5 DEF Places, Questions, n

(* What TranscriptMatchesRuns says of one Run.                               *)
Told(r) ==
    /\ Cardinality(Places("user", r)) = IF r \in Accepted /\ runs[r].question = r THEN 1 ELSE 0
    /\ Cardinality(Places("assistant", r)) = IF runs[r].state = "completed" THEN 1 ELSE 0
    /\ \A i \in Places("assistant", r), j \in Places("user", runs[r].question) : j < i
Transcript == Cardinality(Questions) <= MaxTurns /\ \A r \in Runs : Told(r)

LEMMA TranscriptIs == TranscriptMatchesRuns <=> Transcript
BY DEF TranscriptMatchesRuns, Transcript, Told, Places, Entry

LEMMA SameTranscript ==
    ASSUME Transcript, messages' = messages,
           \A q \in Runs : /\ runs'[q].question = runs[q].question
                           /\ runs'[q].state = "completed" <=> runs[q].state = "completed"
                           /\ runs'[q].state = "absent" <=> runs[q].state = "absent"
    PROVE  Transcript'
<1>1. Questions' = Questions /\ \A role, q : Places(role, q)' = Places(role, q)
  BY DEF Questions, Places
<1>2. Accepted' = Accepted
  BY DEF Accepted
<1> QED  BY <1>1, <1>2 DEF Transcript, Told

LEMMA AnswerTold ==
    ASSUME CoreInv, HeritageInv, Transcript, NEW r \in Runs, Settles(r, "completed")
    PROVE  Transcript'
<1>1. /\ messages' = Append(messages, Entry("assistant", r))
      /\ runs[r].state = "running" /\ runs'[r].state = "completed"
  BY DEF Settles, Writes, Entry
<1>2. /\ \A q \in Runs : runs'[q].question = runs[q].question
      /\ \A q \in Runs \ {r} : runs'[q] = runs[q]
      /\ Accepted' = Accepted
  <2>1. SameHeritage /\ \A q \in Runs \ {r} : runs'[q] = runs[q]
    BY WritesKeepHeritage, WritesOne DEF Settles, CoreInv, EndStates
  <2> QED  BY <2>1, HeritageParts DEF SameHeritage, Accepted
<1> DEFINE n == Len(messages)
<1>3. /\ n \in Nat
      /\ \A role, q : IsFiniteSet(Places(role, q)) /\ Places(role, q) \subseteq 1..n
  BY PlacesFinite DEF CoreInv
<1>4. /\ Questions' = Questions
      /\ \A q : Places("user", q)' = Places("user", q)
      /\ \A q : q # r => Places("assistant", q)' = Places("assistant", q)
      /\ Places("assistant", r)' = Places("assistant", r) \cup {n + 1}
  BY <1>1, AppendPlaces DEF CoreInv
<1>5. Places("assistant", r) = {}
  BY <1>1, PlacesFinite DEF Transcript, Told, CoreInv
<1> HIDE DEF n
<1>6. Told(r)'
  <2>1. Places("assistant", r)' = {n + 1} /\ Cardinality({n + 1}) = 1
    BY <1>4, <1>5, FS_Singleton
  <2>2. \A j \in Places("user", runs[r].question) : j < n + 1
    BY <1>3
  <2>3. /\ Cardinality(Places("user", r)') =
               IF r \in Accepted' /\ runs'[r].question = r THEN 1 ELSE 0
        /\ Cardinality(Places("assistant", r)') = 1
    <3>1. Cardinality(Places("user", r)) =
               IF r \in Accepted /\ runs[r].question = r THEN 1 ELSE 0
      BY DEF Told, Transcript
    <3>2. Places("user", r)' = Places("user", r)
      BY <1>4
    <3>3. runs'[r].question = runs[r].question /\ Accepted' = Accepted
      BY <1>2
    <3>4. Cardinality(Places("assistant", r)') = 1
      BY <2>1
    <3> QED  BY <3>1, <3>2, <3>3, <3>4
  <2>4. \A i \in Places("assistant", r)', j \in Places("user", runs[r].question)' : j < i
    <3>1. Places("user", runs[r].question)' = Places("user", runs[r].question)
      BY <1>2, <1>4
    <3>2. \A i \in Places("assistant", r)' : i = n + 1
      BY <2>1
    <3> QED  BY <2>2, <3>1, <3>2
  <2> QED  BY <1>1, <1>2, <2>3, <2>4 DEF Told
<1>7. ASSUME NEW q \in Runs \ {r} PROVE Told(q)'
  BY <1>2, <1>4 DEF Told, Transcript
<1> QED  BY <1>4, <1>6, <1>7 DEF Transcript

LEMMA QuestionTold ==
    ASSUME CoreInv, HeritageInv, Transcript, NEW k \in Keys, NEW c \in Contents, NEW r \in Runs,
           AcceptQuestion(k, c, r)
    PROVE  Transcript'
<1>1. /\ messages' = Append(messages, Entry("user", r)) /\ Cardinality(Questions) < MaxTurns
      /\ runs'[r].state = "queued" /\ runs'[r].question = r
  <2> DEFINE run == [Absent EXCEPT !.state = "queued", !.question = r, !.attempt = 1]
  <2>1. run.state = "queued" /\ run.question = r
    BY DEF Absent
  <2>2. Install(k, c, r, run)
    BY DEF AcceptQuestion
  <2> HIDE DEF run
  <2>3. runs'[r] = run
    BY <2>2 DEF Install, CoreInv, TypeOK
  <2> QED  BY <2>1, <2>3 DEF AcceptQuestion, Entry
<1>2. /\ r \notin Accepted /\ Accepted' = Accepted \cup {r}
      /\ \A q \in Runs \ {r} : runs'[q] = runs[q]
      /\ runs[r].state = "absent"
  BY AcceptGrowsOne, AcceptsOne DEF CoreInv
<1> DEFINE n == Len(messages)
<1>3. /\ n \in Nat /\ IsFiniteSet(Questions) /\ Cardinality(Questions) \in Nat
      /\ \A role, q : IsFiniteSet(Places(role, q)) /\ Places(role, q) \subseteq 1..n
  BY PlacesFinite DEF CoreInv
<1>4. /\ Questions' = Questions \cup {n + 1} /\ n + 1 \notin Questions
      /\ \A q : Places("assistant", q)' = Places("assistant", q)
      /\ \A q : q # r => Places("user", q)' = Places("user", q)
      /\ Places("user", r)' = Places("user", r) \cup {n + 1}
  BY <1>1, AppendPlaces DEF CoreInv
<1>5. Places("user", r) = {} /\ Places("assistant", r) = {}
  BY <1>2, PlacesFinite DEF Transcript, Told, CoreInv
<1> HIDE DEF n
<1>6. Cardinality(Questions') <= MaxTurns
  <2>1. Cardinality(Questions') = Cardinality(Questions) + 1
    BY <1>3, <1>4, FS_AddElement
  <2>2. MaxTurns \in Nat
    BY LimitsAssumption
  <2> QED  BY <1>1, <1>3, <2>1, <2>2
<1>7. Told(r)'
  <2>1. /\ Places("user", r)' = {n + 1} /\ Cardinality({n + 1}) = 1
        /\ Places("assistant", r)' = {} /\ Cardinality({}) = 0
    BY <1>4, <1>5, FS_Singleton, FS_EmptySet
  <2> QED  BY <1>1, <1>2, <2>1 DEF Told
<1>8. ASSUME NEW q \in Runs \ {r} PROVE Told(q)'
  <2>1. /\ Places("user", q)' = Places("user", q) /\ runs'[q] = runs[q]
        /\ Places("assistant", q)' = Places("assistant", q)
        /\ q \in Accepted' <=> q \in Accepted
    BY <1>2, <1>4
  <2>2. CASE q \in Accepted
    <3>1. runs[q].question # r
      BY <1>2, <2>2 DEF HeritageInv, LineageInv
    <3> QED  BY <1>4, <2>1, <3>1 DEF Told, Transcript
  <2>3. CASE q \notin Accepted
    <3>1. runs[q].state # "completed"
      BY <2>3 DEF Accepted
    <3>2. Places("assistant", q) = {}
      BY <3>1, PlacesFinite DEF Transcript, Told, CoreInv
    <3> QED  BY <2>1, <3>2 DEF Told, Transcript
  <2> QED  BY <2>2, <2>3
<1> QED  BY <1>6, <1>7, <1>8 DEF Transcript

LEMMA RetryTold ==
    ASSUME CoreInv, HeritageInv, Transcript, NEW k \in Keys, NEW t \in Runs, NEW r \in Runs,
           AcceptRetry(k, t, r)
    PROVE  Transcript'
<1>1. /\ messages' = messages /\ t \in Accepted
      /\ runs'[r].state = "queued" /\ runs'[r].question = runs[t].question
  <2> DEFINE run == [Absent EXCEPT !.state = "queued", !.question = runs[t].question,
                                   !.attempt = runs[t].attempt + 1, !.retryOf = t,
                                   !.prepared = runs[t].prepared]
  <2>1. run.state = "queued" /\ run.question = runs[t].question
    BY DEF Absent
  <2>2. Install(k, t, r, run)
    BY DEF AcceptRetry
  <2> HIDE DEF run
  <2>3. runs'[r] = run
    BY <2>2 DEF Install, CoreInv, TypeOK
  <2> QED  BY <2>1, <2>3 DEF AcceptRetry, Retryable
<1>2. /\ r \notin Accepted /\ Accepted' = Accepted \cup {r}
      /\ \A q \in Runs \ {r} : runs'[q] = runs[q]
      /\ runs[r].state = "absent"
  BY AcceptGrowsOne, AcceptsOne DEF CoreInv
<1>3. Questions' = Questions /\ \A role, q : Places(role, q)' = Places(role, q)
  BY <1>1 DEF Questions, Places
<1>4. runs'[r].question # r
  BY <1>1, <1>2 DEF HeritageInv, LineageInv
<1>5. Places("assistant", r) = {}
  BY <1>2, PlacesFinite DEF Transcript, Told, CoreInv
<1>6. Told(r)'
  BY <1>1, <1>2, <1>3, <1>4, <1>5 DEF Told, Transcript
<1>7. ASSUME NEW q \in Runs \ {r} PROVE Told(q)'
  BY <1>2, <1>3 DEF Told, Transcript
<1> QED  BY <1>3, <1>6, <1>7 DEF Transcript

LEMMA EmptyTold ==
    ASSUME messages = <<>>, \A r \in Runs : runs[r].state = "absent"
    PROVE  Transcript
<1>1. Questions = {} /\ Accepted = {} /\ \A role, r : Places(role, r) = {}
  BY DEF Questions, Accepted, Places
<1>2. Cardinality({}) = 0 /\ 0 <= MaxTurns
  BY FS_EmptySet, LimitsAssumption
<1> QED  BY <1>1, <1>2 DEF Transcript, Told

LEMMA TranscriptStep ==
    ASSUME CoreInv, HeritageInv, Transcript, [Wide]_vars
    PROVE  Transcript'
<1>1. ASSUME NEW r \in Runs,
             Begins(r) \/ Adds(r) \/ \E s \in EndStates \ {"completed"} : Settles(r, s)
      PROVE  Transcript'
  <2>1. SameHeritage /\ messages' = messages
    BY <1>1, WritesKeepHeritage DEF Begins, Adds, Settles
  <2>2. PICK s \in {"running"} \cup (EndStates \ {"completed"}) : \E events : Writes(r, s, events)
    BY <1>1 DEF Begins, Adds, Settles
  <2>3. /\ runs'[r].state # "completed" /\ runs[r].state # "completed"
        /\ \A q \in Runs \ {r} : runs'[q] = runs[q]
    BY <2>2, WritesOne DEF Writes, CoreInv, LiveStates
  <2>4. \A q \in Runs : /\ runs'[q].question = runs[q].question
                        /\ runs'[q].state = "completed" <=> runs[q].state = "completed"
                        /\ runs'[q].state = "absent" <=> runs[q].state = "absent"
    BY <2>1, <2>3, HeritageParts DEF SameHeritage
  <2> QED  BY <2>1, <2>4, SameTranscript
<1>2. ASSUME NEW r \in Runs, RecordPreparedRequest(r) PROVE Transcript'
  BY <1>2, RecordsOne, SameTranscript DEF CoreInv
<1>3. CASE runs' = runs /\ messages' = messages
  BY <1>3, SameTranscript
<1>4. ASSUME Expire PROVE Transcript'
  <2>1. messages' = <<>> /\ \A r \in Runs : runs'[r].state = "absent"
    BY <1>4, AbsentTyped DEF Expire
  <2>2. Questions' = {} /\ Accepted' = {} /\ \A role, r : Places(role, r)' = {}
    BY <2>1 DEF Questions, Accepted, Places
  <2>3. Cardinality({}) = 0 /\ 0 <= MaxTurns
    BY FS_EmptySet, LimitsAssumption
  <2> QED  BY <2>1, <2>2, <2>3 DEF Transcript, Told
<1>5. ASSUME NEW r \in Runs, NEW s \in EndStates, Settles(r, s) PROVE Transcript'
  BY <1>1, <1>5, AnswerTold
<1> QED
  BY <1>1, <1>2, <1>3, <1>4, <1>5, StepCommits, QuestionTold, RetryTold
     DEF CoreInv, Ticks, SelectContext, vars

(* The transcript holds each question once and its answer after it.          *)
THEOREM TranscriptIsTheRuns == Spec => []TranscriptMatchesRuns
<1>1. Init => Transcript
  BY EmptyTold, AbsentTyped DEF Init
<1>2. Transcript => TranscriptMatchesRuns
  BY TranscriptIs
<1> QED  BY <1>1, <1>2, TranscriptStep, CoreInvariant, HeritageInvariant, NextIsWide, PTL DEF Spec

-----------------------------------------------------------------------------
(* The order of a log.  An end writes the tail its state is documented with. *)
LEMMA FourSlots ==
    /\ \A j \in 1..4 : j = 1 \/ j = 2 \/ j = 3 \/ j = 4
    /\ \A j \in 1..3 : j = 1 \/ j = 2 \/ j = 3
OBVIOUS

LEMMA FailureTailIs ==
    ASSUME NEW n \in Nat, NEW s
    PROVE  LET tail == FailureTail(n, s)
           IN  /\ Len(tail) = 4
               /\ tail[1].type = "message.discarded" /\ tail[1].seq = n
               /\ tail[2].type = "run.error" /\ tail[2].seq = n + 1
               /\ tail[3].type = "run.status" /\ tail[3].seq = n + 2 /\ tail[3].state = s
               /\ tail[4].type = "stream.end" /\ tail[4].seq = n + 3 /\ tail[4].state = s
               /\ tail[4].index = n + 3
BY DEF FailureTail, Event, Status, StreamEnd

LEMMA CancelTailIs ==
    ASSUME NEW n \in Nat
    PROVE  LET tail == CancelTail(n)
           IN  /\ Len(tail) = 3
               /\ tail[1].type = "message.discarded" /\ tail[1].seq = n
               /\ tail[2].type = "run.status" /\ tail[2].seq = n + 1
               /\ tail[2].state = "cancelled"
               /\ tail[3].type = "stream.end" /\ tail[3].seq = n + 2
               /\ tail[3].state = "cancelled" /\ tail[3].index = n + 2
BY DEF CancelTail, Event, Status, StreamEnd

LEMMA AnswerTailIs ==
    ASSUME NEW n \in Nat
    PROVE  LET tail == AnswerTail(n)
           IN  /\ Len(tail) = 4
               /\ tail[1].type = "message.sources" /\ tail[1].seq = n
               /\ tail[2].type = "message.completed" /\ tail[2].seq = n + 1
               /\ tail[3].type = "run.status" /\ tail[3].seq = n + 2
               /\ tail[3].state = "completed"
               /\ tail[4].type = "stream.end" /\ tail[4].seq = n + 3
               /\ tail[4].state = "completed" /\ tail[4].index = n + 3
BY DEF AnswerTail, Event, Status, StreamEnd

(* Four events, or three, as the documents list them.                        *)
TailFits(tail, s, n) ==
    /\ Len(tail) = Len(DocumentedTail(s)) /\ Len(tail) \in {3, 4}
    /\ \A j \in 1..Len(tail) :
          /\ tail[j].seq = n + j - 1 /\ tail[j].type = DocumentedTail(s)[j]
          /\ tail[j].type \in {"run.status", "stream.end"} => tail[j].state = s
    /\ tail[Len(tail)].index = n + Len(tail) - 1

LEMMA EndTailFits ==
    ASSUME NEW s \in EndStates, NEW n \in Nat
    PROVE  TailFits(EndTail(s, n), s, n)
<1> DEFINE tail == EndTail(s, n)
<1>1. CASE s = "completed"
  <2>1. tail = AnswerTail(n) /\ DocumentedTail(s) =
            <<"message.sources", "message.completed", "run.status", "stream.end">>
    BY <1>1 DEF EndTail, DocumentedTail
  <2> HIDE DEF tail
  <2>2. /\ Len(tail) = 4 /\ Len(DocumentedTail(s)) = 4
        /\ \A j \in 1..4 : tail[j].seq = n + j - 1 /\ tail[j].type = DocumentedTail(s)[j]
        /\ tail[3].state = s /\ tail[4].state = s
        /\ tail[4].index = n + 4 - 1
    <3>1. /\ Len(tail) = 4 /\ Len(DocumentedTail(s)) = 4
          /\ tail[3].state = s /\ tail[4].state = s
          /\ tail[4].index = n + 4 - 1
      BY <1>1, <2>1, AnswerTailIs
    <3>2. ASSUME NEW j \in 1..4 PROVE tail[j].seq = n + j - 1 /\ tail[j].type = DocumentedTail(s)[j]
      <4>1. CASE j = 1
        <5>1. tail[1].seq = n + 1 - 1 /\ tail[1].type = DocumentedTail(s)[1]
          BY <1>1, <2>1, AnswerTailIs
        <5> QED  BY <4>1, <5>1
      <4>2. CASE j = 2
        <5>1. tail[2].seq = n + 2 - 1 /\ tail[2].type = DocumentedTail(s)[2]
          BY <1>1, <2>1, AnswerTailIs
        <5> QED  BY <4>2, <5>1
      <4>3. CASE j = 3
        <5>1. tail[3].seq = n + 3 - 1 /\ tail[3].type = DocumentedTail(s)[3]
          BY <1>1, <2>1, AnswerTailIs
        <5> QED  BY <4>3, <5>1
      <4>4. CASE j = 4
        <5>1. tail[4].seq = n + 4 - 1 /\ tail[4].type = DocumentedTail(s)[4]
          BY <1>1, <2>1, AnswerTailIs
        <5> QED  BY <4>4, <5>1
      <4> QED  BY <4>1, <4>2, <4>3, <4>4, FourSlots
    <3> QED  BY <3>1, <3>2
  <2>3. \A j \in 1..4 : tail[j].type \in {"run.status", "stream.end"} => tail[j].state = s
    <3>1. \A j \in 1..2 : DocumentedTail(s)[j] \notin {"run.status", "stream.end"}
      BY <2>1, FourSlots
    <3>2. \A j \in 1..4 : j \in 1..2 \/ j = 3 \/ j = 4
      OBVIOUS
    <3> QED  BY <2>2, <3>1, <3>2
  <2>4. TailFits(tail, s, n)
    BY <2>2, <2>3 DEF TailFits
  <2> QED  BY <2>4 DEF tail
<1>2. CASE s = "cancelled"
  <2>1. tail = CancelTail(n) /\ DocumentedTail(s) =
            <<"message.discarded", "run.status", "stream.end">>
    BY <1>2 DEF EndTail, DocumentedTail
  <2> HIDE DEF tail
  <2>2. /\ Len(tail) = 3 /\ Len(DocumentedTail(s)) = 3
        /\ \A j \in 1..3 : tail[j].seq = n + j - 1 /\ tail[j].type = DocumentedTail(s)[j]
        /\ tail[2].state = s /\ tail[3].state = s
        /\ tail[3].index = n + 3 - 1
    <3>1. /\ Len(tail) = 3 /\ Len(DocumentedTail(s)) = 3
          /\ tail[2].state = s /\ tail[3].state = s
          /\ tail[3].index = n + 3 - 1
      BY <1>2, <2>1, CancelTailIs
    <3>2. ASSUME NEW j \in 1..3 PROVE tail[j].seq = n + j - 1 /\ tail[j].type = DocumentedTail(s)[j]
      <4>1. CASE j = 1
        <5>1. tail[1].seq = n + 1 - 1 /\ tail[1].type = DocumentedTail(s)[1]
          BY <1>2, <2>1, CancelTailIs
        <5> QED  BY <4>1, <5>1
      <4>2. CASE j = 2
        <5>1. tail[2].seq = n + 2 - 1 /\ tail[2].type = DocumentedTail(s)[2]
          BY <1>2, <2>1, CancelTailIs
        <5> QED  BY <4>2, <5>1
      <4>3. CASE j = 3
        <5>1. tail[3].seq = n + 3 - 1 /\ tail[3].type = DocumentedTail(s)[3]
          BY <1>2, <2>1, CancelTailIs
        <5> QED  BY <4>3, <5>1
      <4> QED  BY <4>1, <4>2, <4>3, FourSlots
    <3> QED  BY <3>1, <3>2
  <2>3. \A j \in 1..3 : tail[j].type \in {"run.status", "stream.end"} => tail[j].state = s
    <3>1. \A j \in 1..1 : DocumentedTail(s)[j] \notin {"run.status", "stream.end"}
      BY <2>1, FourSlots
    <3>2. \A j \in 1..3 : j \in 1..1 \/ j = 2 \/ j = 3
      OBVIOUS
    <3> QED  BY <2>2, <3>1, <3>2
  <2>4. TailFits(tail, s, n)
    BY <2>2, <2>3 DEF TailFits
  <2> QED  BY <2>4 DEF tail
<1>3. CASE s \in {"failed", "timeout"}
  <2>1. tail = FailureTail(n, s) /\ DocumentedTail(s) =
            <<"message.discarded", "run.error", "run.status", "stream.end">>
    BY <1>3 DEF EndTail, DocumentedTail
  <2> HIDE DEF tail
  <2>2. /\ Len(tail) = 4 /\ Len(DocumentedTail(s)) = 4
        /\ \A j \in 1..4 : tail[j].seq = n + j - 1 /\ tail[j].type = DocumentedTail(s)[j]
        /\ tail[3].state = s /\ tail[4].state = s
        /\ tail[4].index = n + 4 - 1
    <3>1. /\ Len(tail) = 4 /\ Len(DocumentedTail(s)) = 4
          /\ tail[3].state = s /\ tail[4].state = s
          /\ tail[4].index = n + 4 - 1
      BY <2>1, FailureTailIs
    <3>2. ASSUME NEW j \in 1..4 PROVE tail[j].seq = n + j - 1 /\ tail[j].type = DocumentedTail(s)[j]
      <4>1. CASE j = 1
        <5>1. tail[1].seq = n + 1 - 1 /\ tail[1].type = DocumentedTail(s)[1]
          BY <2>1, FailureTailIs
        <5> QED  BY <4>1, <5>1
      <4>2. CASE j = 2
        <5>1. tail[2].seq = n + 2 - 1 /\ tail[2].type = DocumentedTail(s)[2]
          BY <2>1, FailureTailIs
        <5> QED  BY <4>2, <5>1
      <4>3. CASE j = 3
        <5>1. tail[3].seq = n + 3 - 1 /\ tail[3].type = DocumentedTail(s)[3]
          BY <2>1, FailureTailIs
        <5> QED  BY <4>3, <5>1
      <4>4. CASE j = 4
        <5>1. tail[4].seq = n + 4 - 1 /\ tail[4].type = DocumentedTail(s)[4]
          BY <2>1, FailureTailIs
        <5> QED  BY <4>4, <5>1
      <4> QED  BY <4>1, <4>2, <4>3, <4>4, FourSlots
    <3> QED  BY <3>1, <3>2
  <2>3. \A j \in 1..4 : tail[j].type \in {"run.status", "stream.end"} => tail[j].state = s
    <3>1. \A j \in 1..2 : DocumentedTail(s)[j] \notin {"run.status", "stream.end"}
      BY <2>1, FourSlots
    <3>2. \A j \in 1..4 : j \in 1..2 \/ j = 3 \/ j = 4
      OBVIOUS
    <3> QED  BY <2>2, <3>1, <3>2
  <2>4. TailFits(tail, s, n)
    BY <2>2, <2>3 DEF TailFits
  <2> QED  BY <2>4 DEF tail
<1> QED  BY <1>1, <1>2, <1>3 DEF EndStates

(* A log in order, one Run at a time: a body, then the tail of the end.      *)
StepsIn(log, n) == {i \in 1..n : log[i].type = "agent.step"}
BodyInOrder(log, body) ==
    /\ body > 0 => log[1] = Status(1, "running")
    /\ \A i \in 2..body :
          \/ log[i].type \in {"agent.step", "message.delta"}
          \/ i = 2 /\ log[i].type = "context.truncated"
Numbered(log) ==
    /\ \A i \in 1..Len(log) : log[i].seq = i
    /\ \A i \in StepsIn(log, Len(log)) : log[i].index = Cardinality(StepsIn(log, i))
InOrder(run) ==
    LET tail == DocumentedTail(run.state)
        body == Len(run.log) - Len(tail)
    IN  /\ body >= (IF run.state \in {"running", "completed"} THEN 1 ELSE 0)
        /\ run.state = "queued" => body = 0
        /\ BodyInOrder(run.log, body) /\ Numbered(run.log)
        /\ \A i \in 1..Len(tail) : run.log[body + i].type = tail[i]
        /\ \A i \in body + 1..Len(run.log) :
              run.log[i].type \in {"run.status", "stream.end"} => run.log[i].state = run.state
        /\ tail # <<>> => run.log[Len(run.log)].index = Len(run.log)
Ordered(run) ==
    /\ InOrder(run)
    /\ run.state \in LiveStates => run.steps = Cardinality(StepsIn(run.log, Len(run.log)))
OrderInv == \A r \in Accepted : Ordered(runs[r])

LEMMA OrderIs == OrderInv => LogInDocumentedOrder
BY DEF OrderInv, Ordered, InOrder, BodyInOrder, Numbered, StepsIn, LogInDocumentedOrder

LEMMA LiveOrder ==
    ASSUME NEW run, run.state \in LiveStates, Len(run.log) \in Nat
    PROVE  InOrder(run) <=>
             /\ Len(run.log) >= (IF run.state = "running" THEN 1 ELSE 0)
             /\ run.state = "queued" => Len(run.log) = 0
             /\ BodyInOrder(run.log, Len(run.log)) /\ Numbered(run.log)
<1>1. DocumentedTail(run.state) = <<>> /\ Len(<<>>) = 0
  BY DEF DocumentedTail, LiveStates
<1>2. run.state # "completed" /\ Len(run.log) - 0 = Len(run.log)
  BY DEF LiveStates
<1> QED  BY <1>1, <1>2 DEF InOrder

(* A log stays numbered when an event is added that carries its place and, if
   it is a step, the count of steps.                                         *)
LEMMA NumberedAppend ==
    ASSUME NEW log \in Seq(EventType), NEW e \in EventType, Numbered(log),
           e.seq = Len(log) + 1,
           e.type = "agent.step" => e.index = Cardinality(StepsIn(log, Len(log))) + 1
    PROVE  /\ Numbered(log \o <<e>>)
           /\ Cardinality(StepsIn(log \o <<e>>, Len(log) + 1)) =
                 IF e.type = "agent.step" THEN Cardinality(StepsIn(log, Len(log))) + 1
                 ELSE Cardinality(StepsIn(log, Len(log)))
<1> DEFINE new == log \o <<e>>
           n == Len(log)
<1>1. /\ n \in Nat /\ Len(new) = n + 1 /\ 1..(n + 1) = (1..n) \cup {n + 1}
      /\ new[n + 1] = e /\ \A i \in 1..n : new[i] = log[i]
  OBVIOUS
<1> HIDE DEF new
<1>2. \A m \in 0..n : StepsIn(new, m) = StepsIn(log, m)
  BY <1>1 DEF StepsIn
<1>3. StepsIn(new, n + 1) = IF e.type = "agent.step" THEN StepsIn(log, n) \cup {n + 1}
                            ELSE StepsIn(log, n)
  BY <1>1 DEF StepsIn
<1>4. n + 1 \notin StepsIn(log, n) /\ IsFiniteSet(StepsIn(log, n))
  <2>1. IsFiniteSet(1..n) /\ StepsIn(log, n) \in SUBSET (1..n)
    BY <1>1, FS_Interval DEF StepsIn
  <2> QED  BY <1>1, <2>1, FS_Subset
<1>5. Cardinality(StepsIn(new, n + 1)) =
         IF e.type = "agent.step" THEN Cardinality(StepsIn(log, n)) + 1
         ELSE Cardinality(StepsIn(log, n))
  BY <1>3, <1>4, FS_AddElement
<1>6. \A i \in 1..n + 1 : new[i].seq = i
  BY <1>1 DEF Numbered
<1>7. \A i \in StepsIn(new, n + 1) : new[i].index = Cardinality(StepsIn(new, i))
  <2> TAKE i \in StepsIn(new, n + 1)
  <2>1. CASE i = n + 1
    <3>1. e.type = "agent.step"
      BY <1>1, <2>1 DEF StepsIn
    <3> QED  BY <1>1, <1>5, <2>1, <3>1
  <2>2. CASE i # n + 1
    <3>1. i \in StepsIn(log, n) /\ i \in 1..n
      BY <1>1, <1>3, <2>2 DEF StepsIn
    <3>2. StepsIn(new, i) = StepsIn(log, i) /\ new[i] = log[i]
      BY <1>1, <1>2, <3>1
    <3> QED  BY <3>1, <3>2 DEF Numbered
  <2> QED  BY <2>1, <2>2
<1>8. Numbered(new)
  BY <1>1, <1>6, <1>7 DEF Numbered
<1> QED  BY <1>5, <1>8 DEF new

LEMMA QueuedOrdered ==
    ASSUME NEW run, run.state = "queued", run.log = <<>>, run.steps = 0
    PROVE  Ordered(run)
<1>1. Len(run.log) = 0 /\ run.state \in LiveStates /\ StepsIn(run.log, 0) = {}
  BY DEF LiveStates, StepsIn
<1>2. BodyInOrder(run.log, 0) /\ Numbered(run.log)
  BY <1>1 DEF BodyInOrder, Numbered
<1> QED  BY <1>1, <1>2, LiveOrder, FS_EmptySet DEF Ordered

LEMMA BeginsOrdered ==
    ASSUME TypeOK, NEW r \in Runs, Begins(r), Ordered(runs[r])
    PROVE  Ordered(runs'[r])
<1> DEFINE log == runs[r].log
           e == Status(1, "running")
           new == runs'[r].log
<1>1. /\ runs[r].state = "queued" /\ runs'[r].state = "running" /\ new = log \o <<e>>
      /\ runs'[r].steps = runs[r].steps
      /\ runs[r].state \in LiveStates /\ runs'[r].state \in LiveStates
  BY DEF Begins, Writes, LiveStates
<1>2. log \in Seq(EventType) /\ Len(log) = 0 /\ Numbered(log)
      /\ runs[r].steps = Cardinality(StepsIn(log, Len(log)))
  <2>1. log \in Seq(EventType)
    BY SizesAreNat
  <2> QED  BY <1>1, <2>1, LiveOrder DEF Ordered
<1>3. e \in EventType /\ e.seq = 1 /\ e.type = "run.status"
  BY StatusTyped DEF EventStates, LiveStates, Status, Event
<1>4. Len(new) = 1 /\ new[1] = e
  <2> HIDE DEF log, e, new
  <2> QED  BY <1>1, <1>2
<1>5. Numbered(new) /\ runs'[r].steps = Cardinality(StepsIn(new, Len(new)))
  <2> HIDE DEF log, e, new
  <2>1. e.seq = Len(log) + 1 /\ e.type # "agent.step"
    BY <1>2, <1>3
  <2>2. /\ Numbered(log \o <<e>>)
        /\ Cardinality(StepsIn(log \o <<e>>, Len(log) + 1)) = Cardinality(StepsIn(log, Len(log)))
    BY <1>2, <1>3, <2>1, NumberedAppend
  <2> QED  BY <1>1, <1>2, <1>4, <2>2
<1>6. BodyInOrder(new, Len(new))
  <2>1. new[1] = Status(1, "running")
    BY <1>4
  <2> HIDE DEF new
  <2> QED  BY <1>4, <2>1 DEF BodyInOrder
<1>7. InOrder(runs'[r])
  <2>1. Len(new) \in Nat /\ Len(new) >= 1 /\ runs'[r].state # "queued"
    BY <1>1, <1>4
  <2> QED  BY <1>1, <1>5, <1>6, <2>1, LiveOrder
<1> QED  BY <1>1, <1>5, <1>7 DEF Ordered

LEMMA AddsOrdered ==
    ASSUME TypeOK, NEW r \in Runs, Adds(r), Ordered(runs[r])
    PROVE  Ordered(runs'[r])
<1> DEFINE log == runs[r].log
           new == runs'[r].log
<1>1. PICK e : BodyEvent(e, runs[r], runs'[r].steps) /\ Writes(r, "running", <<e>>)
  BY DEF Adds
<1>2. /\ runs[r].state = "running" /\ runs'[r].state = "running" /\ new = log \o <<e>>
      /\ runs[r].state \in LiveStates /\ runs'[r].state \in LiveStates
  BY <1>1 DEF Adds, Writes, LiveStates
<1>3. /\ log \in Seq(EventType) /\ Len(log) \in Nat /\ Len(log) >= 1 /\ Numbered(log)
      /\ BodyInOrder(log, Len(log))
      /\ runs[r].steps = Cardinality(StepsIn(log, Len(log)))
  <2>1. log \in Seq(EventType) /\ Len(log) \in Nat
    BY SizesAreNat
  <2> QED  BY <1>2, <2>1, LiveOrder DEF Ordered
<1>4. /\ e \in EventType /\ e.seq = Len(log) + 1
      /\ \/ e.type = "context.truncated" /\ Len(log) = 1 /\ runs'[r].steps = runs[r].steps
         \/ /\ e.type = "agent.step" /\ e.index = runs[r].steps + 1
            /\ runs'[r].steps = runs[r].steps + 1
         \/ e.type = "message.delta" /\ runs'[r].steps = runs[r].steps
  BY <1>1 DEF BodyEvent, NextSeq
<1> HIDE DEF log, new
<1>5. Len(new) = Len(log) + 1 /\ new[Len(log) + 1] = e /\ \A i \in 1..Len(log) : new[i] = log[i]
  BY <1>2, <1>3, <1>4
<1>6. Numbered(new) /\ runs'[r].steps = Cardinality(StepsIn(new, Len(new)))
  BY <1>2, <1>3, <1>4, <1>5, NumberedAppend
<1>7. BodyInOrder(new, Len(new))
  <2>1. new[1] = Status(1, "running")
    BY <1>3, <1>5 DEF BodyInOrder
  <2>2. ASSUME NEW i \in 2..Len(new)
        PROVE  \/ new[i].type \in {"agent.step", "message.delta"}
               \/ i = 2 /\ new[i].type = "context.truncated"
    <3>1. CASE i = Len(log) + 1
      BY <1>4, <1>5, <3>1
    <3>2. CASE i # Len(log) + 1
      <4>1. i \in 2..Len(log) /\ new[i] = log[i]
        BY <1>3, <1>5, <3>2
      <4> QED  BY <1>3, <4>1 DEF BodyInOrder
    <3> QED  BY <3>1, <3>2
  <2> QED  BY <2>1, <2>2 DEF BodyInOrder
<1>8. Len(new) \in Nat /\ Len(new) >= 1
  BY <1>3, <1>5
<1> QED  BY <1>2, <1>6, <1>7, <1>8, LiveOrder DEF Ordered, new

(* What the documented tails hold, and where.                                *)
LEMMA TailTypes ==
    ASSUME NEW s \in EndStates
    PROVE  LET tail == DocumentedTail(s)
           IN  \A j \in 1..Len(tail) :
                 /\ tail[j] \notin {"agent.step", "message.delta", "context.truncated"}
                 /\ tail[j] = "stream.end" => j = Len(tail)
                 /\ tail[j] = "message.completed" => s = "completed"
                 /\ tail[j] = "run.error" => s \in {"failed", "timeout"}
<1>1. CASE s = "completed"
  <2>1. DocumentedTail(s) =
            <<"message.sources", "message.completed", "run.status", "stream.end">>
    BY <1>1 DEF DocumentedTail
  <2> DEFINE tail == DocumentedTail(s)
  <2>2. /\ Len(tail) = 4 /\ tail[1] = "message.sources" /\ tail[2] = "message.completed"
        /\ tail[3] = "run.status" /\ tail[4] = "stream.end"
    BY <2>1
  <2> HIDE DEF tail
  <2>3. \A j \in 1..Len(tail) :
          /\ tail[j] \notin {"agent.step", "message.delta", "context.truncated"}
          /\ tail[j] = "stream.end" => j = Len(tail)
          /\ tail[j] # "run.error"
    BY <2>2, FourSlots
  <2> QED  BY <1>1, <2>3 DEF tail
<1>2. CASE s = "cancelled"
  <2> DEFINE tail == DocumentedTail(s)
  <2>1. /\ Len(tail) = 3 /\ tail[1] = "message.discarded" /\ tail[2] = "run.status"
        /\ tail[3] = "stream.end"
    BY <1>2 DEF DocumentedTail
  <2> HIDE DEF tail
  <2>2. \A j \in 1..Len(tail) :
          /\ tail[j] \notin {"agent.step", "message.delta", "context.truncated"}
          /\ tail[j] = "stream.end" => j = Len(tail)
          /\ tail[j] # "message.completed" /\ tail[j] # "run.error"
    BY <2>1, FourSlots
  <2> QED  BY <2>2 DEF tail
<1>3. CASE s \in {"failed", "timeout"}
  <2>1. DocumentedTail(s) =
            <<"message.discarded", "run.error", "run.status", "stream.end">>
    BY <1>3 DEF DocumentedTail
  <2> DEFINE tail == DocumentedTail(s)
  <2>2. /\ Len(tail) = 4 /\ tail[1] = "message.discarded" /\ tail[2] = "run.error"
        /\ tail[3] = "run.status" /\ tail[4] = "stream.end"
    BY <2>1
  <2> HIDE DEF tail
  <2>3. \A j \in 1..Len(tail) :
          /\ tail[j] \notin {"agent.step", "message.delta", "context.truncated"}
          /\ tail[j] = "stream.end" => j = Len(tail)
          /\ tail[j] # "message.completed"
    BY <2>2, FourSlots
  <2> QED  BY <1>3, <2>3 DEF tail
<1> QED  BY <1>1, <1>2, <1>3 DEF EndStates

LEMMA SettlesOrdered ==
    ASSUME TypeOK, NEW r \in Runs, NEW s \in EndStates, Settles(r, s), Ordered(runs[r])
    PROVE  Ordered(runs'[r])
<1> DEFINE log == runs[r].log
           new == runs'[r].log
           n == Len(log)
           tail == EndTail(s, n + 1)
           k == Len(tail)
<1>1. /\ runs'[r].state = s /\ new = log \o tail /\ tail \in Seq(EventType)
      /\ runs[r].state \in LiveStates
      /\ s = "completed" => runs[r].state = "running"
  BY DEF Settles, Writes, NextSeq
<1>2. /\ log \in Seq(EventType) /\ n \in Nat /\ Numbered(log) /\ BodyInOrder(log, n)
      /\ n >= (IF s = "completed" THEN 1 ELSE 0)
  <2>1. log \in Seq(EventType) /\ n \in Nat
    BY SizesAreNat
  <2> QED  BY <1>1, <2>1, LiveOrder DEF Ordered
<1>3. /\ TailFits(tail, s, n + 1) /\ k \in {3, 4}
      /\ Len(DocumentedTail(s)) = k
      /\ \A j \in 1..k : /\ tail[j].seq = n + j /\ tail[j].type = DocumentedTail(s)[j]
                         /\ tail[j].type \in {"run.status", "stream.end"} => tail[j].state = s
                         /\ tail[j].type # "agent.step"
      /\ tail[k].index = n + k
  <2>1. TailFits(tail, s, n + 1)
    BY <1>2, EndTailFits
  <2> HIDE DEF tail, n
  <2> QED  BY <1>2, <2>1, TailTypes DEF TailFits
<1> HIDE DEF log, new, n, tail
<1>4. /\ Len(new) = n + k /\ \A i \in 1..n : new[i] = log[i]
      /\ \A j \in 1..k : new[n + j] = tail[j]
  BY <1>1, <1>2, <1>3 DEF n
<1> HIDE DEF k
<1>5. \A i \in n + 1..n + k : \E j \in 1..k : i = n + j
  <2>1. k \in Nat
    BY <1>3
  <2>2. ASSUME NEW i \in n + 1..n + k PROVE i - n \in 1..k /\ i = n + (i - n)
    BY <1>2, <2>1
  <2> QED  BY <2>2
<1>6. \A i \in n + 1..n + k :
         /\ new[i].seq = i /\ new[i].type # "agent.step"
         /\ new[i].type \in {"run.status", "stream.end"} => new[i].state = s
  BY <1>3, <1>4, <1>5
<1>7. k \in Nat /\ k > 0 /\ \A i \in 1..n + k : i \in 1..n \/ i \in n + 1..n + k
  BY <1>2, <1>3
<1>8. Numbered(new)
  <2>1. \A m \in 0..n : StepsIn(new, m) = StepsIn(log, m)
    BY <1>2, <1>4 DEF StepsIn
  <2>2. StepsIn(new, n + k) = StepsIn(log, n)
    BY <1>2, <1>4, <1>6, <1>7 DEF StepsIn
  <2>3. \A i \in 1..n + k : new[i].seq = i
    <3>1. \A i \in 1..n : new[i].seq = i
      BY <1>2, <1>4 DEF Numbered, n
    <3> QED  BY <1>6, <1>7, <3>1
  <2>4. ASSUME NEW i \in StepsIn(log, n)
        PROVE  new[i].index = Cardinality(StepsIn(new, i))
    <3>1. i \in 1..n /\ log[i].index = Cardinality(StepsIn(log, i))
      BY <1>2 DEF Numbered, StepsIn, n
    <3>2. StepsIn(new, i) = StepsIn(log, i) /\ new[i] = log[i]
      BY <1>2, <1>4, <2>1, <3>1
    <3> QED  BY <3>1, <3>2
  <2> QED  BY <1>4, <2>2, <2>3, <2>4 DEF Numbered
<1>9. BodyInOrder(new, n)
  BY <1>2, <1>4 DEF BodyInOrder
<1>10. InOrder(runs'[r])
  <2>1. Len(new) - k = n /\ Len(DocumentedTail(runs'[r].state)) = k
    BY <1>1, <1>2, <1>3, <1>4, <1>7
  <2>2. /\ n >= (IF s \in {"running", "completed"} THEN 1 ELSE 0) /\ s # "queued"
    BY <1>2 DEF EndStates
  <2>3. \A j \in 1..k : new[n + j].type = DocumentedTail(s)[j]
    BY <1>3, <1>4
  <2>4. new[Len(new)].index = Len(new)
    BY <1>3, <1>4, <1>7
  <2> QED  BY <1>1, <1>4, <1>6, <1>8, <1>9, <2>1, <2>2, <2>3, <2>4 DEF InOrder, new
<1> QED  BY <1>1, <1>10 DEF Ordered, LiveStates, EndStates

LEMMA OrderStep ==
    ASSUME CoreInv, OrderInv, [Wide]_vars
    PROVE  OrderInv'
<1> USE DEF CoreInv
<1>1. ASSUME NEW r \in Runs, Begins(r) \/ Adds(r) \/ \E s \in EndStates : Settles(r, s)
      PROVE  OrderInv'
  <2>1. \E s, events : Writes(r, s, events)
    BY <1>1 DEF Begins, Adds, Settles
  <2>2. runs[r].state # "absent" /\ \A q \in Runs \ {r} : runs'[q] = runs[q]
    BY <2>1, WritesOne
  <2>3. Ordered(runs[r])
    BY <2>2 DEF OrderInv, Accepted
  <2>4. Ordered(runs'[r])
    BY <1>1, <2>3, BeginsOrdered, AddsOrdered, SettlesOrdered
  <2> QED  BY <2>2, <2>4 DEF OrderInv, Accepted
<1>2. ASSUME NEW k \in Keys, NEW r \in Runs,
             \/ \E c \in Contents : AcceptQuestion(k, c, r)
             \/ \E t \in Runs : AcceptRetry(k, t, r)
      PROVE  OrderInv'
  <2>1. runs'[r].state = "queued" /\ runs'[r].log = <<>> /\ runs'[r].steps = 0
    <3>1. CASE \E c \in Contents : AcceptQuestion(k, c, r)
      <4> DEFINE run == [Absent EXCEPT !.state = "queued", !.question = r, !.attempt = 1]
      <4>1. run.state = "queued" /\ run.log = <<>> /\ run.steps = 0
        BY DEF Absent
      <4>2. \E c : Install(k, c, r, run)
        BY <3>1 DEF AcceptQuestion
      <4> HIDE DEF run
      <4>3. runs'[r] = run
        BY <4>2 DEF Install, TypeOK
      <4> QED  BY <4>1, <4>3
    <3>2. ASSUME NEW t \in Runs, AcceptRetry(k, t, r)
          PROVE  runs'[r].state = "queued" /\ runs'[r].log = <<>> /\ runs'[r].steps = 0
      <4> DEFINE run == [Absent EXCEPT !.state = "queued", !.question = runs[t].question,
                                       !.attempt = runs[t].attempt + 1, !.retryOf = t,
                                       !.prepared = runs[t].prepared]
      <4>1. run.state = "queued" /\ run.log = <<>> /\ run.steps = 0
        BY DEF Absent
      <4>2. Install(k, t, r, run)
        BY <3>2 DEF AcceptRetry
      <4> HIDE DEF run
      <4>3. runs'[r] = run
        BY <4>2 DEF Install, TypeOK
      <4> QED  BY <4>1, <4>3
    <3> QED  BY <1>2, <3>1, <3>2
  <2>2. \A q \in Runs \ {r} : runs'[q] = runs[q]
    BY <1>2, AcceptsOne
  <2>3. Ordered(runs'[r])
    BY <2>1, QueuedOrdered
  <2> QED  BY <2>2, <2>3 DEF OrderInv, Accepted
<1>3. ASSUME NEW r \in Runs, RecordPreparedRequest(r) PROVE OrderInv'
  <2>1. \A q \in Runs : /\ runs'[q].state = runs[q].state /\ runs'[q].log = runs[q].log
                        /\ runs'[q].steps = runs[q].steps
    BY <1>3, RecordsOne
  <2>2. \A q \in Runs : Ordered(runs[q]) => Ordered(runs'[q])
    BY <2>1 DEF Ordered, InOrder
  <2> QED  BY <2>1, <2>2 DEF OrderInv, Accepted
<1>4. ASSUME Expire PROVE OrderInv'
  BY <1>4, AbsentTyped DEF Expire, OrderInv, Accepted
<1>5. ASSUME runs' = runs PROVE OrderInv'
  BY <1>5 DEF OrderInv, Accepted
<1> QED
  BY <1>1, <1>2, <1>3, <1>4, <1>5, StepCommits DEF Ticks, SelectContext, vars

LEMMA OrderInvariant == Spec => []OrderInv
<1>1. Init => OrderInv
  BY AbsentTyped DEF Init, OrderInv, Accepted
<1> QED  BY <1>1, OrderStep, CoreInvariant, NextIsWide, PTL DEF Spec

-----------------------------------------------------------------------------
(* Where an event of a log in order can be: in the body or in the tail.      *)
LEMMA PlacesInLog ==
    ASSUME TypeOK, OrderInv, NEW r \in Accepted, NEW i \in 1..Len(runs[r].log)
    PROVE  \/ i = 1 /\ runs[r].log[i].type = "run.status" /\ runs[r].log[i].state = "running"
           \/ runs[r].log[i].type \in {"agent.step", "message.delta", "context.truncated"}
           \/ /\ runs[r].state \in EndStates
              /\ \E j \in 1..Len(DocumentedTail(runs[r].state)) :
                    /\ runs[r].log[i].type = DocumentedTail(runs[r].state)[j]
                    /\ i = Len(runs[r].log) - Len(DocumentedTail(runs[r].state)) + j
              /\ runs[r].log[i].type \in {"run.status", "stream.end"} =>
                    runs[r].log[i].state = runs[r].state
<1> DEFINE log == runs[r].log
           tail == DocumentedTail(runs[r].state)
           k == Len(tail)
           body == Len(log) - k
<1>1. /\ r \in Runs /\ runs[r].state \in LiveStates \cup EndStates /\ Len(log) \in Nat
  BY SizesAreNat DEF Accepted, RunType
<1>2. k \in Nat /\ (runs[r].state \notin EndStates => k = 0)
  BY <1>1 DEF DocumentedTail, LiveStates, EndStates
<1>3. /\ body >= 0 /\ BodyInOrder(log, body)
      /\ \A j \in 1..k : log[body + j].type = tail[j]
      /\ \A j \in body + 1..Len(log) :
            log[j].type \in {"run.status", "stream.end"} => log[j].state = runs[r].state
  <2>1. InOrder(runs[r])
    BY DEF OrderInv, Ordered
  <2>2. body >= (IF runs[r].state \in {"running", "completed"} THEN 1 ELSE 0)
    BY <2>1 DEF InOrder
  <2>3. body \in Int
    BY <1>1, <1>2
  <2>4. body >= 0
    BY <2>2, <2>3
  <2> QED  BY <2>1, <2>4 DEF InOrder
<1>i. i \in 1..Len(log) /\ body \in Int
  BY <1>1, <1>2
<1> HIDE DEF log, tail
<1>4. CASE i > body
  <2>1. i - body \in 1..k /\ i = body + (i - body) /\ i \in body + 1..Len(log)
    BY <1>1, <1>2, <1>3, <1>4, <1>i
  <2> HIDE DEF k, body
  <2>2. log[i].type = tail[i - body]
    BY <1>3, <2>1
  <2>3. runs[r].state \in EndStates
    BY <1>2, <2>1
  <2>4. log[i].type \in {"run.status", "stream.end"} => log[i].state = runs[r].state
    BY <1>3, <2>1
  <2> QED  BY <2>1, <2>2, <2>3, <2>4 DEF log, tail, k, body
<1>5. CASE i <= body
  <2>1. i = 1 \/ i \in 2..body
    BY <1>1, <1>2, <1>5 DEF log
  <2>2. CASE i = 1
    <3>1. log[i] = Status(1, "running")
      BY <1>3, <1>5, <2>2 DEF BodyInOrder
    <3> QED  BY <2>2, <3>1 DEF Status, Event, log
  <2>3. CASE i \in 2..body
    BY <1>3, <2>3 DEF BodyInOrder, log
  <2> QED  BY <2>1, <2>2, <2>3
<1> QED  BY <1>1, <1>2, <1>4, <1>5 DEF log

(* The end a Run came to can be read from its log.                           *)
LEMMA EndsReported ==
    ASSUME TypeOK, OrderInv, NEW r \in Accepted
    PROVE  /\ Reported(runs[r], "message.completed") <=> runs[r].state = "completed"
           /\ Reported(runs[r], "run.error") <=> runs[r].state \in {"failed", "timeout"}
<1> DEFINE log == runs[r].log
           tail == DocumentedTail(runs[r].state)
<1>1. ASSUME NEW i \in 1..Len(log)
      PROVE  /\ log[i].type = "message.completed" => runs[r].state = "completed"
             /\ log[i].type = "run.error" => runs[r].state \in {"failed", "timeout"}
  <2>1. \/ log[i].type \notin {"message.completed", "run.error"}
        \/ runs[r].state \in EndStates /\ \E j \in 1..Len(tail) : log[i].type = tail[j]
    BY PlacesInLog
  <2>2. runs[r].state \in EndStates =>
            \A j \in 1..Len(tail) :
                /\ tail[j] = "message.completed" => runs[r].state = "completed"
                /\ tail[j] = "run.error" => runs[r].state \in {"failed", "timeout"}
    BY TailTypes
  <2> HIDE DEF log, tail
  <2> QED  BY <2>1, <2>2
<1>2. ASSUME Len(tail) = 4
      PROVE  /\ Len(log) - 4 + 2 \in 1..Len(log) /\ log[Len(log) - 4 + 2].type = tail[2]
  <2>1. InOrder(runs[r]) /\ Len(log) \in Nat
    BY SizesAreNat DEF OrderInv, Ordered, Accepted
  <2>2. Len(log) - 4 >= (IF runs[r].state \in {"running", "completed"} THEN 1 ELSE 0)
    BY <1>2, <2>1 DEF InOrder
  <2>3. Len(log) >= 4
    BY <2>1, <2>2
  <2>4. \A j \in 1..4 : log[Len(log) - 4 + j].type = tail[j]
    BY <1>2, <2>1 DEF InOrder
  <2> HIDE DEF log, tail
  <2> QED  BY <2>1, <2>3, <2>4
<1>3. ASSUME runs[r].state = "completed" PROVE Reported(runs[r], "message.completed")
  <2>1. Len(tail) = 4 /\ tail[2] = "message.completed"
    BY <1>3 DEF DocumentedTail
  <2> QED  BY <1>2, <2>1 DEF Reported
<1>4. ASSUME runs[r].state \in {"failed", "timeout"} PROVE Reported(runs[r], "run.error")
  <2>1. Len(tail) = 4 /\ tail[2] = "run.error"
    BY <1>4 DEF DocumentedTail
  <2> QED  BY <1>2, <2>1 DEF Reported
<1> QED  BY <1>1, <1>3, <1>4 DEF Reported

LEMMA EventsAreValid ==
    ASSUME TypeOK, OrderInv, NEW r \in Accepted, NEW i \in 1..Len(runs[r].log)
    PROVE  ValidEvent(runs[r].log[i])
<1> DEFINE log == runs[r].log
           tail == DocumentedTail(runs[r].state)
<1>1. /\ log \in Seq(EventType) /\ Len(log) \in Nat /\ i \in 1..Len(log)
      /\ InOrder(runs[r]) /\ Numbered(log)
  BY SizesAreNat DEF Accepted, OrderInv, Ordered, InOrder
<1>2. log[i].seq = i /\ i >= 1
  BY <1>1 DEF Numbered
<1>3. log[i].type = "run.status" =>
          log[i].state \in {"running", "completed", "failed", "timeout", "cancelled"}
  BY PlacesInLog DEF EndStates
<1>4. ASSUME log[i].type = "agent.step" PROVE log[i].index >= 1
  <2>1. i \in StepsIn(log, i) /\ i \in StepsIn(log, Len(log)) /\ StepsIn(log, i) \subseteq 1..i
    BY <1>1, <1>4 DEF StepsIn
  <2>2. IsFiniteSet(StepsIn(log, i))
    <3>1. 1 \in Int /\ i \in Int
      BY <1>1
    <3>2. IsFiniteSet(1..i)
      BY <3>1, FS_Interval
    <3> QED  BY <2>1, <3>2, FS_Subset
  <2>3. Cardinality(StepsIn(log, i)) \in Nat /\ Cardinality(StepsIn(log, i)) # 0
    BY <2>1, <2>2, FS_CardinalityType, FS_EmptySet
  <2>4. log[i].index = Cardinality(StepsIn(log, i))
    BY <1>1, <2>1 DEF Numbered
  <2> QED  BY <2>3, <2>4
<1>5. ASSUME log[i].type = "stream.end"
      PROVE  /\ log[i].state \in {"completed", "failed", "timeout", "cancelled", "expired"}
             /\ log[i].index = log[i].seq
  <2>1. runs[r].state \in EndStates /\ log[i].state = runs[r].state
    BY <1>5, PlacesInLog
  <2>2. PICK j \in 1..Len(tail) : tail[j] = "stream.end" /\ i = Len(log) - Len(tail) + j
    <3>1. \E j \in 1..Len(tail) : log[i].type = tail[j] /\ i = Len(log) - Len(tail) + j
      BY <1>5, PlacesInLog
    <3> HIDE DEF log, tail
    <3> QED  BY <1>5, <3>1
  <2>3. j = Len(tail) /\ tail # <<>>
    BY <2>1, <2>2, TailTypes
  <2>4. i = Len(log)
    <3>1. Len(tail) \in Nat
      BY <2>1 DEF DocumentedTail, EndStates
    <3> HIDE DEF log, tail
    <3> QED  BY <1>1, <2>2, <2>3, <3>1
  <2>5. log[i].index = i
    BY <1>1, <2>3, <2>4 DEF InOrder
  <2> QED  BY <1>2, <2>1, <2>5 DEF EndStates
<1> QED  BY <1>2, <1>3, <1>4, <1>5 DEF ValidEvent

LEMMA ProjectionIsValid ==
    ASSUME TypeOK, OrderInv, Transcript, NEW r \in Accepted
    PROVE  ValidProjection(Projection(r))
<1>1. runs[r].state \in LiveStates \cup EndStates /\ r \in Runs
  BY SizesAreNat DEF Accepted, RunType
<1>2. ASSUME runs[r].state = "completed"
      PROVE  \E i \in 1..Len(messages) : messages[i] = [role |-> "assistant", run |-> r]
  <2>1. Cardinality(Places("assistant", r)) = 1
    BY <1>1, <1>2 DEF Transcript, Told
  <2>2. Places("assistant", r) # {}
    BY <2>1, FS_EmptySet
  <2> QED  BY <2>2 DEF Places, Entry
<1> DEFINE p == Projection(r)
<1>3. /\ p.state = runs[r].state
      /\ p.output <=> Reported(runs[r], "message.completed")
      /\ p.found <=> \E i \in 1..Len(messages) : messages[i] = [role |-> "assistant", run |-> r]
      /\ p.error <=> Reported(runs[r], "run.error")
  BY DEF Projection
<1> HIDE DEF p
<1>4. /\ p.output <=> p.state = "completed" /\ (p.output => p.found)
      /\ p.error <=> p.state \in {"failed", "timeout"}
  BY <1>2, <1>3, EndsReported
<1> QED  BY <1>1, <1>3, <1>4 DEF ValidProjection, p, LiveStates, EndStates

(* Every log is in the order the documents list and every event and projection
   passes the contract that builds it, after any sequence of calls.          *)
THEOREM WireFormIsDocumented == Spec => []WireFormHolds
<1>1. CoreInv /\ OrderInv /\ Transcript => WireFormHolds
  BY OrderIs, EventsAreValid, ProjectionIsValid DEF CoreInv, WireFormHolds, EverythingValidates
<1>2. Init => Transcript
  BY EmptyTold, AbsentTyped DEF Init
<1>3. Spec => []Transcript
  BY <1>2, TranscriptStep, CoreInvariant, HeritageInvariant, NextIsWide, PTL DEF Spec
<1> QED  BY <1>1, <1>3, OrderInvariant, CoreInvariant, PTL

=============================================================================
