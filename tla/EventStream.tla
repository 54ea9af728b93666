----------------------------- MODULE EventStream -----------------------------
(***************************************************************************)
(* Reading a Run: GET /runs/{id} (a poll) and GET /runs/{id}/events (the   *)
(* SSE stream) of src/aidd_chat/main.py, through ChatApplication._observed *)
(* into the store.  A request takes the store's locks one read at a time,  *)
(* so each locked section is an action, and the Conversation moves between *)
(* any two of them: the generation commits, users cancel, the Deadline and *)
(* the Absolute Expiry pass, the Sweeper or another request Purges.        *)
(***************************************************************************)
EXTENDS Conversation

CONSTANTS
    Requests,     \* HTTP requests in flight, one at a time under each name
    Cursors,      \* what the client of each request may send as Last-Event-ID
    MaxStreams    \* limits.max_sse_connections

ASSUME StreamAssumption == MaxStreams \in Nat /\ Cursors \in [Requests -> SUBSET Nat]

VARIABLES
    request,      \* every request: where it is, and what it has read and written
    sse           \* _sse_connections

streamVars == <<vars, request, sse>>

Nothing == [state |-> "absent", events |-> <<>>, latest |-> 0, content |-> 0]
(* `sent` is what went out on the connection, `up` that the client still
   listens, `slot` that the request's SSE slot has not been released.        *)
Away ==
    [at |-> "away", kind |-> "none", run |-> None, cursor |-> 0, view |-> Nothing,
     sent |-> <<>>, slot |-> FALSE, up |-> FALSE, reply |-> "none"]

StreamInit == Init /\ request = [q \in Requests |-> Away] /\ sse = 0

Deltas(events) == Cardinality({i \in 1..Len(events) : events[i].type = "message.delta"})

(* What one locked read returns: the projection, and for an open stream the
   events after its cursor.                                                  *)
Slice(q) ==
    LET log == runs[request[q].run].log
    IN  [state   |-> runs[request[q].run].state,
         events  |-> IF request[q].slot THEN SubSeq(log, request[q].cursor + 1, Len(log))
                     ELSE <<>>,
         latest  |-> Len(log),
         content |-> Deltas(log)]

Connect(q, kind, r, c) ==
    /\ request[q] = Away
    /\ r \in Accepted \/ ~resident
    /\ request' = [request EXCEPT ![q] = [Away EXCEPT !.at = "look", !.kind = kind,
                                                       !.run = r, !.cursor = c]]
    /\ UNCHANGED <<vars, sse>>

Reply(q, reply) ==
    request' = [request EXCEPT ![q].at = "closed", ![q].reply = reply, ![q].view = Nothing]

(* get_run_slice: a read, or the discovery that the Conversation is gone.  The
   reader that Purges it is told 410, every other one 404; a stream that is
   already open turns to the tail instead.                                   *)
Lose(q, reply) ==
    IF request[q].slot
    THEN request' = [request EXCEPT ![q].at = "tail", ![q].view = Nothing]
    ELSE Reply(q, reply)

Observe(q, next) ==
    \/ /\ resident /\ ~expired
       /\ request' = [request EXCEPT ![q].view = Slice(q), ![q].at = next]
       /\ UNCHANGED <<vars, sse>>
    \/ Expire /\ Lose(q, "expired") /\ UNCHANGED sse
    \/ ~resident /\ Lose(q, "not_found") /\ UNCHANGED <<vars, sse>>

(* _observed: read; if the Run looked live, enforce its Deadline and read again. *)
AfterRead(q) == IF request[q].slot THEN "write" ELSE "decide"

Look(q) ==
    /\ request[q].at = "look"
    /\ Observe(q, IF runs[request[q].run].state \in LiveStates THEN "enforce" ELSE AfterRead(q))

Enforce(q) ==
    /\ request[q].at = "enforce"
    /\ request' = [request EXCEPT ![q].at = "reread"]
    /\ IF request[q].run \in overdue /\ Fenced(request[q].run, LiveStates)
       THEN CommitTimeout(request[q].run)
       ELSE UNCHANGED vars
    /\ UNCHANGED sse

Reread(q) == request[q].at = "reread" /\ Observe(q, AfterRead(q))

-----------------------------------------------------------------------------
(* Over a rate: the address's before anything is read (ip_gate), the session's
   after the read that authorized it.                                        *)
RefuseRate(q) ==
    /\ request[q].at \in {"look", "decide"} /\ ~request[q].slot
    /\ Reply(q, "rate_limited")
    /\ UNCHANGED <<vars, sse>>

(* The answer to a request that read its Run.                                *)
Deciding(q, kind) == request[q].at = "decide" /\ request[q].kind = kind

AnswerPoll(q) ==
    /\ Deciding(q, "poll")
    /\ request' = [request EXCEPT ![q].at = "closed", ![q].reply = "ok"]
    /\ UNCHANGED <<vars, sse>>

(* On a terminal Run a cursor past its last Sequence is refused, and one at it
   has nothing left to read.                                                 *)
CursorReply(q) ==
    LET view == request[q].view
    IN  CASE view.state \in LiveStates \/ request[q].cursor < view.latest -> "stream"
          [] request[q].cursor = view.latest -> "no_content"
          [] OTHER -> "invalid_event_cursor"

RefuseStream(q) ==
    /\ Deciding(q, "stream")
    /\ \/ CursorReply(q) # "stream" /\ Reply(q, CursorReply(q))
       \/ CursorReply(q) = "stream" /\ sse >= MaxStreams /\ Reply(q, "stream_capacity_exceeded")
    /\ UNCHANGED <<vars, sse>>

OpenStream(q) ==
    /\ Deciding(q, "stream")
    /\ CursorReply(q) = "stream"
    /\ sse < MaxStreams
    /\ sse' = sse + 1
    /\ request' = [request EXCEPT ![q].at = "open", ![q].reply = "stream", ![q].slot = TRUE,
                                  ![q].up = TRUE, ![q].view = Nothing]
    /\ UNCHANGED vars

-----------------------------------------------------------------------------
(* event_source: frames go out one await at a time; the loop ends with the Run,
   with its Deadline, with the Conversation or with the connection.          *)
Proceed(q, at) ==
    /\ request' = [request EXCEPT ![q].at = at]
    /\ UNCHANGED <<vars, sse>>

Begin(q) == request[q].at = "open" /\ request[q].up /\ Proceed(q, "look")

WriteFault_SameCursor(q) ==          \* next_sequence is not advanced
    /\ request[q].at = "write" /\ request[q].up
    /\ request[q].view.events # <<>>
    /\ request' = [request EXCEPT ![q].sent = Append(@, Head(request[q].view.events)),
                                  ![q].view.events = Tail(@)]
    /\ UNCHANGED <<vars, sse>>
Write(q) ==
    /\ request[q].at = "write" /\ request[q].up
    /\ request[q].view.events # <<>>
    /\ request' = [request EXCEPT ![q].sent = Append(@, Head(request[q].view.events)),
                                  ![q].cursor = Head(request[q].view.events).seq,
                                  ![q].view.events = Tail(@)]
    /\ UNCHANGED <<vars, sse>>

Written(q) == request[q].at = "write" /\ request[q].view.events = <<>>

ReturnFault_Reread(q) ==             \* decided on a newer state than the events written
    /\ Written(q)
    /\ runs[request[q].run].state \notin LiveStates \/ request[q].run \in overdue
    /\ Proceed(q, "closing")
Return(q) ==
    /\ Written(q)
    /\ request[q].view.state \notin LiveStates \/ request[q].run \in overdue
    /\ Proceed(q, "closing")

SleepAndLoop(q) ==
    /\ Written(q) /\ request[q].up
    /\ request[q].view.state \in LiveStates /\ request[q].run \notin overdue
    /\ Proceed(q, "look")

(* expired_stream_tail: the pair the Purge left, from the cursor on.         *)
After(e, cursor) == IF e.seq > cursor THEN <<e>> ELSE <<>>
PairAfter(pair, cursor) == After(pair[1], cursor) \o After(pair[2], cursor)

WriteTailFault_Wait(q) ==            \* without a tombstone, look again
    /\ request[q].at = "tail"
    /\ LET left == tombstone # None /\ tombstone.run = request[q].run
       IN  request' = [request EXCEPT
               ![q].at = IF left THEN "write" ELSE "look",
               ![q].view.events =
                    IF left THEN PairAfter(tombstone.tail, request[q].cursor) ELSE <<>>]
    /\ UNCHANGED <<vars, sse>>
WriteTail(q) ==
    /\ request[q].at = "tail"
    /\ LET left == tombstone # None /\ tombstone.run = request[q].run
       IN  request' = [request EXCEPT
               ![q].at = "write",
               ![q].view.events =
                    IF left THEN PairAfter(tombstone.tail, request[q].cursor) ELSE <<>>]
    /\ UNCHANGED <<vars, sse>>

(* The client goes away.  The generator notices at its next await; a response
   dropped before its first frame never runs the generator at all.           *)
Hangup(q) ==
    /\ request[q].slot /\ request[q].up
    /\ request' = [request EXCEPT ![q].up = FALSE, ![q].sent = <<>>]
    /\ UNCHANGED <<vars, sse>>

Cut(q) == request[q].at = "write" /\ ~request[q].up /\ Proceed(q, "closing")
Discard(q) == request[q].at = "open" /\ ~request[q].up /\ Proceed(q, "ended")

ReleaseStreamOnceFault_Twice(q, at) ==   \* no released flag
    /\ request' = [request EXCEPT ![q].at = at, ![q].slot = FALSE, ![q].view = Nothing]
    /\ sse' = IF sse > 0 THEN sse - 1 ELSE 0
    /\ UNCHANGED vars
(* release_stream_once, from the generator's finally and from the response's
   BackgroundTask.                                                           *)
ReleaseStreamOnce(q, at) ==
    /\ request' = [request EXCEPT ![q].at = at, ![q].slot = FALSE, ![q].view = Nothing]
    /\ sse' = IF request[q].slot /\ sse > 0 THEN sse - 1 ELSE sse
    /\ UNCHANGED vars

Finally(q)    == request[q].at = "closing" /\ ReleaseStreamOnce(q, "ended")
Background(q) == request[q].at = "ended" /\ ReleaseStreamOnce(q, "closed")

Serve(q) ==
    \/ Look(q) \/ Enforce(q) \/ Reread(q)
    \/ RefuseRate(q) \/ AnswerPoll(q) \/ RefuseStream(q) \/ OpenStream(q)
    \/ Begin(q) \/ Write(q) \/ Return(q) \/ SleepAndLoop(q) \/ WriteTail(q)
    \/ Cut(q) \/ Discard(q) \/ Finally(q) \/ Background(q)

-----------------------------------------------------------------------------
(* Everyone else.  The History a Run sends is left to Conversation: here its
   one trace in the log, context.truncated, may be committed or not.         *)
TruncateContext(r) ==
    /\ Fenced(r, {"running"})
    /\ Len(runs[r].log) = 1
    /\ Extend(r, Record(runs[r], <<Event(2, "context.truncated")>>, Envelope))

ReachDeadline(r) ==
    /\ runs[r].state \in LiveStates /\ r \notin overdue
    /\ overdue' = overdue \cup {r}
    /\ UNCHANGED <<messages, runs, receipts, activeRun, resident, expired, selected, tombstone>>

StoreMoves ==
    \/ \E k \in Keys, c \in Contents, r \in Runs : AcceptQuestion(k, c, r)
    \/ \E r \in Runs :
          \/ MarkRunning(r)
          \/ TruncateContext(r)
          \/ \E s \in StepSizes : CommitStep(r, s)
          \/ \E t \in Texts : CommitDelta(r, t)
          \/ \E s \in SourcesSizes : CommitStreamCompleted(r, s)
          \/ CommitFailed(r)
          \/ CommitCancelled(r)
          \/ r \in overdue /\ CommitTimeout(r)
          \/ ReachDeadline(r)
    \/ AbsoluteExpiry
    \/ Expire
    \/ ReapTombstone

StoreStep == StoreMoves /\ UNCHANGED <<request, sse>>

StreamNext ==
    \/ StoreStep
    \/ \E q \in Requests :
          \/ \E r \in Runs : Connect(q, "poll", r, 0)
          \/ \E r \in Runs, c \in Cursors[q] : Connect(q, "stream", r, c)
          \/ Serve(q)
          \/ Hangup(q)

(* The loop and the thread pool serve every request, and the clock moves on.
   Writing counts as served: a client that stops reading has its connection
   broken sooner or later.  Nothing is assumed of Providers or of users.     *)
StreamSpec ==
    /\ StreamInit /\ [][StreamNext]_streamVars
    /\ \A q \in Requests : WF_streamVars(Serve(q))
    /\ \A r \in Runs : WF_streamVars(ReachDeadline(r) /\ UNCHANGED <<request, sse>>)

-----------------------------------------------------------------------------
Steps == {"away", "look", "enforce", "reread", "decide", "open", "write", "tail",
          "closing", "ended", "closed"}
Replies == {"none", "ok", "stream", "no_content", "invalid_event_cursor", "rate_limited",
            "stream_capacity_exceeded", "expired", "not_found"}
View == [state : {"absent"} \cup LiveStates \cup EndStates, events : Seq(EventType),
         latest : Nat, content : Nat]

(* Every variable keeps its type.                                            *)
StreamTypeOK ==
    /\ request \in [Requests ->
           [at : Steps, kind : {"none", "poll", "stream"}, run : Runs \cup {None},
            cursor : Nat, view : View, sent : Seq(EventType), slot : BOOLEAN, up : BOOLEAN,
            reply : Replies]]
    /\ sse \in 0..MaxStreams

(* The counter that admits streams is the number of streams that hold a slot,
   never more than the ceiling, though a slot is given back from two places and
   one may run first, last or alone.                                         *)
SlotsAreHeld ==
    /\ sse = Cardinality({q \in Requests : request[q].slot})
    /\ sse <= MaxStreams

(* A stream writes the committed log from its cursor on: no frame skipped, none
   written twice, whatever was committed between its reads.                  *)
FramesFollowTheLog ==
    \A q \in Requests :
        resident /\ request[q].sent # <<>> =>
            LET log == runs[request[q].run].log
                n   == Len(request[q].sent)
            IN  /\ n <= request[q].cursor /\ request[q].cursor <= Len(log)
                /\ request[q].sent = SubSeq(log, request[q].cursor - n + 1, request[q].cursor)

(* docs/sse-contract.md, Terminal Close: a stream the server closes has written
   stream.end, unless the Run's Deadline passed or the Conversation went.  (A
   cursor beyond a live Run's log is not refused; its stream may end short.) *)
ServerCloseIsComplete ==
    \A q \in Requests :
        LET r    == request[q].run
            sent == request[q].sent
        IN  /\ request[q].at \in {"closing", "ended", "closed"}
            /\ request[q].reply = "stream" /\ request[q].up
            /\ resident /\ r \notin overdue
            => /\ runs[r].state \in EndStates
               /\ request[q].cursor >= Len(runs[r].log)
               /\ sent # <<>> => sent[Len(sent)].type = "stream.end"

(* An expiry is announced only for a Run that had not ended, numbered after
   everything the stream wrote before, and as a whole pair if the client stays. *)
ExpiryEndsStream ==
    \A q \in Requests :
        LET sent == request[q].sent
        IN  \A i \in 1..Len(sent) :
              /\ sent[i].type = "conversation.expired" =>
                    /\ ~resident
                    /\ \A j \in 1..i - 1 : sent[j].seq < sent[i].seq /\ sent[j].type # "stream.end"
                    /\ request[q].at # "write" /\ request[q].up =>
                          i = Len(sent) - 1 /\ sent[Len(sent)].state = "expired"
              /\ sent[i].state = "expired" /\ i > 1 => sent[i - 1].type = "conversation.expired"

(* Every stream gives its slot back: a Run that never ends, a Conversation that
   vanishes and a client that leaves early hold none for good.               *)
EverySlotComesBack == \A q \in Requests : request[q].slot ~> ~request[q].slot

=============================================================================
