---------------------------- MODULE Conversation ----------------------------
(***************************************************************************)
(* One Conversation of the in-memory store: ConversationAggregate and Run  *)
(* (src/aidd_chat/domain/__init__.py) behind the per-Conversation lock of  *)
(* InMemoryConversationStore.  Every operation runs whole inside that lock *)
(* and re-checks there that the aggregate is still the resident one, so    *)
(* each is one action; callers (request threads, the generation task, the  *)
(* Deadline alarm, the Sweeper) may call any of them at any time.  A call  *)
(* the code refuses leaves the state alone and is a stutter here.          *)
(*                                                                         *)
(* A question's Message is named by the Run that first asked it, a text by *)
(* its size in bytes and its size once JSON-escaped.                       *)
(***************************************************************************)
EXTENDS Integers, Sequences, FiniteSets, Contracts

CONSTANTS
    Runs,              \* run ids
    Keys,              \* idempotency keys
    Contents,          \* digests of question texts; a Retry's digest is its target
    None,
    MaxTurns,          \* limits.max_turns_per_conversation
    MaxAttempts,       \* max_attempts_per_lineage
    MaxReplayEvents,   \* limits.max_replay_events
    MaxReplayBytes,    \* limits.max_replay_bytes
    MaxOutputBytes,    \* limits.max_output_bytes
    Envelope,          \* EVENT_ENVELOPE_BYTES
    ByteHeadroom,      \* TERMINAL_EVENT_BYTE_HEADROOM
    Texts,             \* deltas, as [raw |-> bytes, json |-> escaped bytes]
    StepSizes,         \* serialized sizes of an AgentStepV1
    SourcesSizes       \* serialized sizes of the message.sources payload

EventHeadroom == 4     \* TERMINAL_EVENT_HEADROOM

(* The smallest limits under which a Run can start and still end inside them;
   the settings model asks for more (16 events, 4096 bytes).                 *)
ASSUME LimitsAssumption ==
    /\ {MaxTurns, MaxAttempts, MaxReplayEvents, MaxReplayBytes, MaxOutputBytes,
        Envelope, ByteHeadroom} \subseteq Nat
    /\ MaxReplayEvents >= EventHeadroom + 2
    /\ ByteHeadroom >= 4 * Envelope
    /\ MaxReplayBytes >= ByteHeadroom + 2 * Envelope
ASSUME InputsAssumption ==
    /\ Texts \subseteq [raw : Nat \ {0}, json : Nat]
    /\ StepSizes \subseteq Nat /\ SourcesSizes \subseteq Nat
    /\ None \notin Runs \cup Keys \cup Contents /\ Runs \cap Contents = {}

VARIABLES
    messages,   \* ConversationAggregate.messages, in order
    runs,       \* ConversationAggregate.runs
    receipts,   \* ConversationAggregate.receipts
    activeRun,  \* ConversationAggregate.active_run_id
    resident,   \* the aggregate is the one store.states holds
    expired,    \* is_expired(): the monotonic clock passed the Absolute Expiry
    overdue,    \* Runs whose deadline_monotonic has passed
    selected,   \* the request a generation selected and has not recorded yet
    tombstone   \* the store's _expired_runs entry: the live Run's expiry tail

vars == <<messages, runs, receipts, activeRun, resident, expired, overdue,
          selected, tombstone>>

LiveStates == {"queued", "running"}
EndStates  == {"completed", "failed", "timeout", "cancelled"}
RetryStates == {"failed", "timeout", "cancelled"}

Absent ==
    [state |-> "absent", question |-> None, attempt |-> 0, retryOf |-> None,
     prepared |-> None, log |-> <<>>, bytes |-> 0, buffer |-> [raw |-> 0, json |-> 0],
     steps |-> 0]

Accepted == {r \in Runs : runs[r].state # "absent"}
Lineage(r) == {s \in Accepted : runs[s].question = runs[r].question}
Questions == {i \in 1..Len(messages) : messages[i].role = "user"}

-----------------------------------------------------------------------------
(* Events.  `state` carries run.status.state and stream.end.final_state,
   `index` agent.step.step_index and stream.end.final_sequence.              *)
Event(n, type) == [seq |-> n, type |-> type, state |-> "", index |-> 0]
Status(n, s)   == [Event(n, "run.status") EXCEPT !.state = s]
StreamEnd(n, s) == [Event(n, "stream.end") EXCEPT !.state = s, !.index = n]

FailureTailFault_Order(n, s) ==      \* the error after the status it explains
    << Event(n, "message.discarded"), Status(n + 1, s),
       Event(n + 2, "run.error"), StreamEnd(n + 3, s) >>
FailureTail(n, s) ==      \* _commit_terminal
    << Event(n, "message.discarded"), Event(n + 1, "run.error"),
       Status(n + 2, s), StreamEnd(n + 3, s) >>
CancelTail(n) ==          \* commit_cancelled
    << Event(n, "message.discarded"), Status(n + 1, "cancelled"),
       StreamEnd(n + 2, "cancelled") >>
AnswerTail(n) ==          \* commit_completed
    << Event(n, "message.sources"), Event(n + 1, "message.completed"),
       Status(n + 2, "completed"), StreamEnd(n + 3, "completed") >>
ExpiryTail(n) ==          \* expiry_stream_tail
    << Event(n, "conversation.expired"), StreamEnd(n + 1, "expired") >>

(* _record: the only way into a log; replay_bytes moves with it.             *)
Record(run, events, size) ==
    [run EXCEPT !.log = @ \o events, !.bytes = @ + size]
NextSeq(run) == Len(run.log) + 1
TextSize(json) == Envelope + json

-----------------------------------------------------------------------------
Init ==
    /\ messages = <<>>
    /\ runs = [r \in Runs |-> Absent]
    /\ receipts = [k \in Keys |-> None]
    /\ activeRun = None
    /\ resident = TRUE
    /\ expired = FALSE
    /\ overdue = {}
    /\ selected = [r \in Runs |-> None]
    /\ tombstone = None

(* Operators named ...Fault_... are faulty variants, each a plausible slip in
   the definition that follows it; no action of the specification uses one.  *)
NoActiveRunFault_Queued == \A r \in Runs : activeRun = r => runs[r].state # "running"
NoActiveRun == \A r \in Runs : activeRun = r => runs[r].state \notin LiveStates

(* The gates accept_question and accept_retry share, up to the new receipt.  *)
Admissible(k, r) ==
    /\ resident /\ ~expired
    /\ receipts[k] = None
    /\ NoActiveRun
    /\ r \notin Accepted                      \* uuid4()

Install(k, digest, r, run) ==
    /\ runs' = [runs EXCEPT ![r] = run]
    /\ receipts' = [receipts EXCEPT ![k] = [digest |-> digest, run |-> r]]
    /\ activeRun' = r
    /\ UNCHANGED <<resident, expired, overdue, selected, tombstone>>

AcceptQuestionFault_Turns(k, content, r) ==    \* the last Turn is given twice
    /\ Admissible(k, r)
    /\ Cardinality(Questions) <= MaxTurns
    /\ messages' = Append(messages, [role |-> "user", run |-> r])
    /\ Install(k, content, r,
               [Absent EXCEPT !.state = "queued", !.question = r, !.attempt = 1])
AcceptQuestion(k, content, r) ==
    /\ Admissible(k, r)
    /\ Cardinality(Questions) < MaxTurns
    /\ messages' = Append(messages, [role |-> "user", run |-> r])
    /\ Install(k, content, r,
               [Absent EXCEPT !.state = "queued", !.question = r, !.attempt = 1])

RetryableFault_AnyAttempt(t) ==      \* any ended Run of the lineage will do
    /\ t \in Accepted
    /\ \E i \in 1..Len(messages) : messages[i] = [role |-> "user", run |-> runs[t].question]
    /\ runs[t].state \in RetryStates
(* retry_target: an ended Run that is the last of its lineage.               *)
Retryable(t) ==
    /\ t \in Accepted
    /\ \E i \in 1..Len(messages) : messages[i] = [role |-> "user", run |-> runs[t].question]
    /\ runs[t].state \in RetryStates
    /\ \A s \in Lineage(t) : runs[s].attempt <= runs[t].attempt

AcceptRetryFault_Reselect(k, t, r) ==    \* the Snapshot is not carried over
    /\ Admissible(k, r)
    /\ Retryable(t)
    /\ Cardinality(Lineage(t)) < MaxAttempts
    /\ Install(k, t, r,
               [Absent EXCEPT !.state = "queued", !.question = runs[t].question,
                              !.attempt = runs[t].attempt + 1, !.retryOf = t])
    /\ UNCHANGED messages
AcceptRetry(k, t, r) ==
    /\ Admissible(k, r)
    /\ Retryable(t)
    /\ Cardinality(Lineage(t)) < MaxAttempts
    /\ Install(k, t, r,
               [Absent EXCEPT !.state = "queued", !.question = runs[t].question,
                              !.attempt = runs[t].attempt + 1, !.retryOf = t,
                              !.prepared = runs[t].prepared])
    /\ UNCHANGED messages

-----------------------------------------------------------------------------
FencedFault_Late(r, states) ==       \* late callbacks are let through
    resident /\ ~expired /\ r \in Accepted
(* The CAS every commit checks: the aggregate is resident (_live), not past
   its Absolute Expiry, and r is the active Run in one of these states.      *)
Fenced(r, states) ==
    /\ resident /\ ~expired
    /\ activeRun = r
    /\ runs[r].state \in states

Commit(r, run) ==
    /\ runs' = [runs EXCEPT ![r] = run]
    /\ UNCHANGED <<receipts, resident, expired, overdue, tombstone>>

(* A commit that only extends the Run, and one that ends it.                 *)
Extend(r, run) ==
    Commit(r, run) /\ UNCHANGED <<messages, activeRun, selected>>
Finish(r, run) ==
    Commit(r, run) /\ activeRun' = None /\ UNCHANGED selected

MarkRunning(r) ==
    /\ Fenced(r, {"queued"})
    /\ r \notin overdue
    /\ Extend(r, Record([runs[r] EXCEPT !.state = "running"],
                        <<Status(1, "running")>>, Envelope))

(* completed_turns: one Turn per question with a completed Run, named by the
   question's place among the messages, which is also the Turn's.            *)
CompletedTurns ==
    {i \in Questions : \E r \in Runs : /\ runs[r].state = "completed"
                                      /\ runs[r].question = messages[i].run}

(* _select_context_request: the Turns after some cut that fit the Provider's
   window, the older ones dropped whole.  Read now, recorded by a later call;
   a Retry that carries a Snapshot does not select again.  (A generation whose
   Run has meanwhile ended selects too; nothing comes of it.)                *)
TurnsAfter(cut) == {i \in CompletedTurns : i > cut}

SelectContext(r, cut) ==
    /\ resident /\ ~expired
    /\ runs[r].state = "running" /\ runs[r].prepared = None /\ selected[r] = None
    /\ selected' = [selected EXCEPT ![r] =
           [turns |-> TurnsAfter(cut), dropped |-> TurnsAfter(cut) # CompletedTurns]]
    /\ UNCHANGED <<messages, runs, receipts, activeRun, resident, expired, overdue, tombstone>>

RecordPreparedRequestFault_NoFence(r) ==   \* recorded on a Run no longer active
    /\ selected[r] # None
    /\ selected' = [selected EXCEPT ![r] = None]
    /\ runs' = IF r \in Accepted THEN [runs EXCEPT ![r].prepared = selected[r]] ELSE runs
    /\ UNCHANGED <<messages, receipts, activeRun, resident, expired, overdue, tombstone>>
RecordPreparedRequest(r) ==
    /\ selected[r] # None
    /\ selected' = [selected EXCEPT ![r] = None]
    /\ runs' = IF resident /\ activeRun = r
               THEN [runs EXCEPT ![r].prepared = selected[r]]
               ELSE runs
    /\ UNCHANGED <<messages, receipts, activeRun, resident, expired, overdue, tombstone>>

(* Called by _generate once the request is prepared and before the Provider
   runs, so nothing but run.status precedes it.                              *)
CommitContextTruncated(r) ==
    /\ Fenced(r, {"running"})
    /\ runs[r].prepared # None /\ runs[r].prepared.dropped
    /\ Len(runs[r].log) = 1
    /\ Extend(r, Record(runs[r], <<Event(2, "context.truncated")>>, Envelope))

EventFitsFault_OffByOne(run) == Len(run.log) + EventHeadroom <= MaxReplayEvents
EventFits(run) == Len(run.log) + 1 + EventHeadroom <= MaxReplayEvents

CommitStep(r, size) ==
    /\ Fenced(r, {"running"})
    /\ EventFits(runs[r])
    /\ runs[r].bytes + Envelope + size + ByteHeadroom <= MaxReplayBytes
    /\ Extend(r, Record([runs[r] EXCEPT !.steps = @ + 1],
                        <<[Event(NextSeq(runs[r]), "agent.step")
                              EXCEPT !.index = runs[r].steps + 1]>>,
                        Envelope + size))

(* The delta, and the message.completed that will repeat the whole answer.   *)
DeltaFits(run, t) ==
    /\ run.buffer.raw + t.raw <= MaxOutputBytes
    /\ EventFits(run)
    /\ run.bytes + TextSize(t.json) + TextSize(run.buffer.json + t.json)
           + ByteHeadroom <= MaxReplayBytes

CommitDelta(r, t) ==
    /\ Fenced(r, {"running"})
    /\ DeltaFits(runs[r], t)
    /\ Extend(r, Record([runs[r] EXCEPT !.buffer = [raw |-> @.raw + t.raw,
                                                    json |-> @.json + t.json]],
                        <<Event(NextSeq(runs[r]), "message.delta")>>,
                        TextSize(t.json)))

AnswerFits(run, size) ==
    /\ run.buffer.raw <= MaxOutputBytes
    /\ Len(run.log) + 4 <= MaxReplayEvents
    /\ run.bytes + Envelope + size + TextSize(run.buffer.json)
           + ByteHeadroom <= MaxReplayBytes

(* commit_stream_completed with an answer that repeats the deltas, ...       *)
CommitStreamCompleted(r, size) ==
    /\ Fenced(r, {"running"})
    /\ runs[r].buffer.raw > 0
    /\ AnswerFits(runs[r], size)
    /\ messages' = Append(messages, [role |-> "assistant", run |-> r])
    /\ Finish(r, Record([runs[r] EXCEPT !.state = "completed"],
                        AnswerTail(NextSeq(runs[r])),
                        3 * Envelope + size + TextSize(runs[r].buffer.json)))

(* _commit_terminal: discard the partial output, report, close.              *)
Fail(r, s) ==
    /\ Finish(r, Record([runs[r] EXCEPT !.state = s, !.buffer = Absent.buffer],
                        FailureTail(NextSeq(runs[r]), s), 4 * Envelope))
    /\ UNCHANGED messages

(* ... with one that does not, ...                                           *)
CommitStreamMismatch(r) == Fenced(r, {"running"}) /\ Fail(r, "failed")
CommitStreamFailed(r)   == Fenced(r, {"running"}) /\ Fail(r, "failed")
CommitFailed(r)         == Fenced(r, LiveStates) /\ Fail(r, "failed")
CommitTimeout(r)        == Fenced(r, LiveStates) /\ Fail(r, "timeout")

CommitCancelled(r) ==
    /\ Fenced(r, LiveStates)
    /\ Finish(r, Record([runs[r] EXCEPT !.state = "cancelled", !.buffer = Absent.buffer],
                        CancelTail(NextSeq(runs[r])), 3 * Envelope))
    /\ UNCHANGED messages

-----------------------------------------------------------------------------
(* The clock, and the Purge of an expired Conversation: whoever sees it first
   (an access or the Sweeper) fences, empties and unindexes it in one section
   and leaves the live Run's tail behind for open streams.                   *)
DeadlinePasses(r) ==
    /\ runs[r].state = "queued" /\ r \notin overdue    \* read by mark_running only
    /\ overdue' = overdue \cup {r}
    /\ UNCHANGED <<messages, runs, receipts, activeRun, resident, expired, selected, tombstone>>

AbsoluteExpiry ==
    /\ ~expired
    /\ expired' = TRUE
    /\ UNCHANGED <<messages, runs, receipts, activeRun, resident, overdue, selected, tombstone>>

ExpireFault_AfterClear ==            \* the tail is built from the emptied log
    /\ resident /\ expired
    /\ tombstone' = IF activeRun = None THEN None ELSE [run |-> activeRun, tail |-> ExpiryTail(1)]
    /\ activeRun' = None /\ messages' = <<>>
    /\ runs' = [r \in Runs |-> Absent]
    /\ receipts' = [k \in Keys |-> None]
    /\ resident' = FALSE
    /\ UNCHANGED <<expired, overdue, selected>>
Expire ==
    /\ resident /\ expired
    /\ tombstone' = IF activeRun = None THEN None
                    ELSE [run |-> activeRun, tail |-> ExpiryTail(NextSeq(runs[activeRun]))]
    /\ activeRun' = None
    /\ messages' = <<>>
    /\ runs' = [r \in Runs |-> Absent]
    /\ receipts' = [k \in Keys |-> None]
    /\ resident' = FALSE
    /\ UNCHANGED <<expired, overdue, selected>>

ReapTombstone ==           \* sweep, EXPIRY_TOMBSTONE_SECONDS later
    /\ tombstone # None
    /\ tombstone' = None
    /\ UNCHANGED <<messages, runs, receipts, activeRun, resident, expired, overdue, selected>>

Next ==
    \/ \E k \in Keys, r \in Runs :
          \/ \E c \in Contents : AcceptQuestion(k, c, r)
          \/ \E t \in Runs : AcceptRetry(k, t, r)
    \/ \E r \in Runs :
          \/ MarkRunning(r)
          \/ \E cut \in 0..Len(messages) : SelectContext(r, cut)
          \/ RecordPreparedRequest(r)
          \/ CommitContextTruncated(r)
          \/ \E s \in StepSizes : CommitStep(r, s)
          \/ \E t \in Texts : CommitDelta(r, t)
          \/ \E s \in SourcesSizes : CommitStreamCompleted(r, s)
          \/ CommitStreamMismatch(r)
          \/ CommitStreamFailed(r)
          \/ CommitFailed(r)
          \/ CommitTimeout(r)
          \/ CommitCancelled(r)
          \/ DeadlinePasses(r)
    \/ AbsoluteExpiry
    \/ Expire
    \/ ReapTombstone

Spec == Init /\ [][Next]_vars

-----------------------------------------------------------------------------
EventNames ==
    {"run.status", "context.truncated", "agent.step", "message.delta", "message.sources",
     "message.completed", "message.discarded", "run.error", "stream.end", "conversation.expired"}
EventStates == {"", "expired"} \cup LiveStates \cup EndStates
EventType == [seq : Nat, type : EventNames, state : EventStates, index : Nat]
Request == [turns : SUBSET Nat, dropped : BOOLEAN]
RunType ==
    [state : {"absent"} \cup LiveStates \cup EndStates, question : Runs \cup {None},
     attempt : Nat, retryOf : Runs \cup {None}, prepared : Request \cup {None},
     log : Seq(EventType), bytes : Nat, buffer : [raw : Nat, json : Nat], steps : Nat]

TypeOK ==
    /\ messages \in Seq([role : {"user", "assistant"}, run : Runs])
    /\ runs \in [Runs -> RunType]
    /\ receipts \in [Keys -> [digest : Contents \cup Runs, run : Runs] \cup {None}]
    /\ activeRun \in Runs \cup {None}
    /\ resident \in BOOLEAN /\ expired \in BOOLEAN
    /\ overdue \subseteq Runs
    /\ selected \in [Runs -> Request \cup {None}]
    /\ tombstone \in [run : Runs, tail : Seq(EventType)] \cup {None}

(* A Run that has not ended is the active one, and the active Run has not
   ended: so at most one Run is ever live, and a refused Cancel really means
   "already terminal" (docstring of commit_cancelled).                       *)
LiveRunIsActive ==
    \A r \in Runs : runs[r].state \in LiveStates <=> activeRun = r

(* Whatever is admitted into a log leaves room to end it, and no log passes
   the Replay ceilings, in events or in bytes (TERMINAL_EVENT_HEADROOM).     *)
RunEndsInsideCeilings ==
    \A r \in Accepted :
        LET run == runs[r]
            room == IF run.state \in LiveStates THEN EventHeadroom ELSE 0
        IN  /\ Len(run.log) + room <= MaxReplayEvents
            /\ run.bytes + room * Envelope <= MaxReplayBytes

(* The orders docs/sse-contract.md lists, event by event: gap-free sequences,
   the body of a Run that started, the tail its end state calls for, and a
   final_state and final_sequence that agree with the Run and the log.       *)
DocumentedTail(s) ==
    CASE s = "completed" -> <<"message.sources", "message.completed", "run.status", "stream.end">>
      [] s \in {"failed", "timeout"} ->
             <<"message.discarded", "run.error", "run.status", "stream.end">>
      [] s = "cancelled" -> <<"message.discarded", "run.status", "stream.end">>
      [] OTHER -> <<>>

LogInDocumentedOrder ==
    \A r \in Accepted :
        LET run  == runs[r]
            tail == DocumentedTail(run.state)
            body == Len(run.log) - Len(tail)
            steps(n) == {i \in 1..n : run.log[i].type = "agent.step"}
        IN  /\ body >= (IF run.state \in {"running", "completed"} THEN 1 ELSE 0)
            /\ run.state = "queued" => body = 0
            /\ \A i \in 1..Len(run.log) : run.log[i].seq = i
            /\ body > 0 => run.log[1] = Status(1, "running")
            /\ \A i \in 2..body :
                   \/ run.log[i].type \in {"agent.step", "message.delta"}
                   \/ i = 2 /\ run.log[i].type = "context.truncated"
            /\ \A i \in 1..Len(tail) : run.log[body + i].type = tail[i]
            /\ \A i \in body + 1..Len(run.log) :
                   run.log[i].type \in {"run.status", "stream.end"} =>
                       run.log[i].state = run.state
            /\ tail # <<>> => run.log[Len(run.log)].index = Len(run.log)
            /\ \A i \in steps(Len(run.log)) : run.log[i].index = Cardinality(steps(i))

(* ConversationAggregate.projection, what every read of a Run answers: the
   answer is looked up among the messages, the error is the one reported.    *)
Reported(run, type) == \E i \in 1..Len(run.log) : run.log[i].type = type
Projection(r) ==
    [state  |-> runs[r].state,
     output |-> Reported(runs[r], "message.completed"),
     found  |-> \E i \in 1..Len(messages) : messages[i] = [role |-> "assistant", run |-> r],
     error  |-> Reported(runs[r], "run.error")]

(* Every event a log holds and the projection of every Run pass the contracts
   that build them, whatever the calls before: no read and no commit dies of a
   value of its own making.                                                  *)
EverythingValidates ==
    \A r \in Accepted :
        /\ ValidProjection(Projection(r))
        /\ \A i \in 1..Len(runs[r].log) : ValidEvent(runs[r].log[i])

(* What a client is sent of a Run, on either channel, is what the documents say. *)
WireFormHolds == LogInDocumentedOrder /\ EverythingValidates

(* The Runs of one question form a chain of attempts 1, 2, ... within the
   limit, each retrying an ended one, and nothing follows an answer: a question
   never gets two answers.                                                   *)
LineageIsChain ==
    \A r \in Accepted :
        LET run == runs[r]
        IN  /\ run.attempt \in 1..MaxAttempts \/ run.attempt = 1
            /\ \A s \in Lineage(r) \ {r} : runs[s].attempt # run.attempt
            /\ IF run.retryOf = None
               THEN run.attempt = 1 /\ run.question = r
               ELSE /\ run.retryOf \in Lineage(r)
                    /\ runs[run.retryOf].attempt = run.attempt - 1
                    /\ runs[run.retryOf].state \in RetryStates

(* Every attempt at one question sends the same request: a Retry re-sends what
   its target sent and never re-selects History under the same question.     *)
RetryResendsSnapshot ==
    \A r \in Accepted : \A s \in Lineage(r) :
        runs[r].prepared # None /\ runs[s].prepared # None =>
            runs[r].prepared = runs[s].prepared

(* A Retry goes on where its lineage stopped, and with the same request.      *)
RetryContinuesLineage == LineageIsChain /\ RetryResendsSnapshot

(* The transcript is the Runs': each question once and within the Turn limit,
   an answer exactly for each completed Run, and after its question.         *)
TranscriptMatchesRuns ==
    LET at(role, r) == {i \in 1..Len(messages) : messages[i] = [role |-> role, run |-> r]}
    IN  /\ Cardinality(Questions) <= MaxTurns
        /\ \A r \in Runs :
              /\ Cardinality(at("user", r)) =
                    IF r \in Accepted /\ runs[r].question = r THEN 1 ELSE 0
              /\ Cardinality(at("assistant", r)) = IF runs[r].state = "completed" THEN 1 ELSE 0
              /\ \A i \in at("assistant", r), j \in at("user", runs[r].question) : j < i

(* A Purged aggregate stays empty: no callback still in flight writes into it. *)
PurgedStaysEmpty ==
    ~resident => /\ messages = <<>> /\ Accepted = {} /\ activeRun = None
                 /\ \A k \in Keys : receipts[k] = None

(* An ended Run never changes again, a log only grows, and a key keeps naming
   the Run it created, until the Purge.                                      *)
CommittedIsStable ==
    [][resident' =>
        /\ \A r \in Runs :
              /\ runs[r].state \in EndStates => runs'[r] = runs[r]
              /\ Len(runs[r].log) <= Len(runs'[r].log)
              /\ SubSeq(runs'[r].log, 1, Len(runs[r].log)) = runs[r].log
        /\ \A k \in Keys : receipts[k] # None => receipts'[k] = receipts[k]]_vars

(* The request a Run records is a suffix of the History as it stands when it is
   recorded, although it was selected in an earlier call.                    *)
PreparedIsCurrentHistory ==
    [][\A r \in Runs :
        runs[r].state # "absent" /\ runs'[r].state # "absent"
        /\ runs'[r].prepared # runs[r].prepared =>
            LET request == runs'[r].prepared
            IN  /\ \E cut \in 0..Len(messages) : request.turns = TurnsAfter(cut)
                /\ request.dropped <=> request.turns # CompletedTurns]_vars

(* A Purge leaves a tail exactly when a Run was live, and the tail continues
   that Run's own log (docs/sse-contract.md, the expiry tail).               *)
ExpiryTailContinuesLog ==
    [][resident /\ ~resident' =>
        IF \A r \in Runs : runs[r].state \notin LiveStates THEN tombstone' = None
        ELSE /\ runs[tombstone'.run].state \in LiveStates
             /\ [i \in 1..2 |-> tombstone'.tail[i].type] = <<"conversation.expired", "stream.end">>
             /\ \A i \in 1..2 : tombstone'.tail[i].seq = Len(runs[tombstone'.run].log) + i
             /\ tombstone'.tail[2].state = "expired"
             /\ tombstone'.tail[2].index = tombstone'.tail[2].seq]_vars

(* What a client may rely on of a Run's life.                                *)
Lifecycle == INSTANCE RunLifecycle WITH
    state <- [r \in Runs |-> IF resident THEN runs[r].state ELSE "gone"]
ImplementsRunLifecycle == Lifecycle!Spec

=============================================================================
