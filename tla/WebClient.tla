------------------------------ MODULE WebClient ------------------------------
(***************************************************************************)
(* A browser tab following one Run (src/aidd_chat/web/app.js): it reads    *)
(* the Run's SSE stream from the start and checks every frame against what *)
(* it saw before; when the stream ends, breaks or makes no sense it polls  *)
(* the Run until the projection settles it.  The server is EventStream,    *)
(* whole: what the tab sees is what those requests answered.               *)
(*                                                                         *)
(* A text is its number of deltas, so `buffer` is how much of the answer   *)
(* the tab holds.  Message ids, sources and failures are those of the one  *)
(* Run and never differ between its stream and its projection.             *)
(***************************************************************************)
EXTENDS EventStream

CONSTANTS
    Stream, Poll,      \* the tab's two requests
    TheRun,            \* the Run it submitted
    MaxPollRetries,    \* MAX_POLL_RETRIES
    MaxUpsets,         \* bound: pages hidden and stops left unanswered
    MaxInFlight,       \* bound: frames written and not delivered yet
    HiddenPageRuns     \* the browser runs the callbacks of a hidden page

ASSUME ClientAssumption ==
    /\ {Stream, Poll} \subseteq Requests /\ Stream # Poll /\ 0 \in Cursors[Stream]
    /\ TheRun \in Runs /\ {MaxPollRetries, MaxUpsets, MaxInFlight} \subseteq Nat
    /\ HiddenPageRuns \in BOOLEAN

VARIABLES tab, upsets    \* app.js's `run` and its page flags; how many of MaxUpsets happened

clientVars == <<vars, request, sse, tab, upsets>>

(* `source` is an open EventSource and `taken` the frames it has delivered;
   `wait` is where pollRun is, `afterEnd` is run.pollAfterEnd, `ending` the
   zero timeout that stream.end leaves, `stoppable` that the tab saw the Run
   live, so a stop may have been sent, `notice` what a conversation closed on
   screen tells the user.                                          *)
NoRun ==
    [state |-> "absent", cursor |-> 0, taken |-> 0, buffer |-> 0, sawRunning |-> FALSE,
     message |-> "none", error |-> FALSE, status |-> "none", end |-> FALSE,
     expired |-> FALSE, steps |-> 0, sources |-> FALSE, truncated |-> FALSE,
     latest |-> 0, source |-> FALSE, ending |-> FALSE,
     polling |-> FALSE, wait |-> "none", afterEnd |-> FALSE, retries |-> 0,
     stoppable |-> FALSE, reconciled |-> FALSE, notice |-> "none", hidden |-> FALSE]

ClientInit == StreamInit /\ tab = NoRun /\ upsets = 0

-----------------------------------------------------------------------------
(* disposeRun, failClosedRun, expireConversation, startPolling.              *)
CloseSource(t) == [t EXCEPT !.source = FALSE, !.taken = 0]

Dispose(t) ==
    [CloseSource(t) EXCEPT !.polling = FALSE, !.wait = "none", !.retries = 0, !.afterEnd = FALSE]

FailClosed(t) ==
    [Dispose(t) EXCEPT !.buffer = 0, !.reconciled = FALSE, !.notice = "unsafe"]

ExpireTab(t) ==
    [Dispose(t) EXCEPT !.buffer = 0, !.reconciled = TRUE, !.notice = "expired"]

StartPolling(t, afterEnd) ==
    IF t.polling THEN t
    ELSE [CloseSource(t) EXCEPT !.polling = TRUE, !.wait = "due",
                                !.afterEnd = afterEnd, !.retries = 0]

-----------------------------------------------------------------------------
(* applyEvent: which frames make sense now, and what each does.              *)
Open(t) == t.message = "none" /\ t.status = "none" /\ ~t.end

Accepts(t, e) ==
    CASE e.type = "run.status" /\ e.state = "running" -> ~t.sawRunning /\ t.message = "none"
      [] e.type = "run.status" /\ e.state # "running" ->
             /\ e.state \in EndStates
             /\ t.message # "none" /\ t.status = "none"
             /\ e.state = "completed" <=> t.message = "completed"
             /\ e.state \in {"failed", "timeout"} <=> t.error
      [] e.type = "context.truncated" ->
             Open(t) /\ t.sawRunning /\ ~t.truncated /\ t.buffer = 0
      [] e.type = "conversation.expired" -> t.status = "none" /\ ~t.expired /\ ~t.end
      [] e.type = "run.error" -> t.message = "discarded" /\ ~t.error /\ t.status = "none"
      [] e.type = "stream.end" ->
             /\ ~t.end /\ e.index = e.seq
             /\ IF e.state = "expired" THEN t.expired /\ t.status = "none"
                ELSE /\ t.status # "none" /\ e.state = t.status
                     /\ e.state \in {"failed", "timeout"} <=> t.error
      [] e.type = "agent.step" -> Open(t) /\ t.sawRunning /\ e.index = t.steps + 1
      [] e.type = "message.delta" -> Open(t) /\ t.sawRunning
      [] e.type = "message.sources" -> Open(t) /\ t.sawRunning /\ ~t.sources
      [] e.type = "message.completed" -> Open(t) /\ t.sawRunning /\ t.sources
      [] e.type = "message.discarded" ->
             Open(t) /\ (t.sawRunning \/ (e.seq = 1 /\ t.state = "queued"))

Apply(t, e) ==
    CASE e.type = "run.status" /\ e.state = "running" ->
             [t EXCEPT !.sawRunning = TRUE, !.state = "running"]
      [] e.type = "run.status" /\ e.state # "running" ->
             [t EXCEPT !.status = e.state, !.state = e.state]
      [] e.type = "context.truncated" -> [t EXCEPT !.truncated = TRUE]
      [] e.type = "conversation.expired" -> [t EXCEPT !.expired = TRUE]
      [] e.type = "run.error" -> [t EXCEPT !.error = TRUE]
      [] e.type = "stream.end" ->
             IF e.state = "expired" THEN ExpireTab([t EXCEPT !.end = TRUE])
             ELSE [CloseSource(t) EXCEPT !.end = TRUE, !.ending = TRUE]
      [] e.type = "agent.step" -> [t EXCEPT !.steps = @ + 1]
      [] e.type = "message.delta" -> [t EXCEPT !.buffer = @ + 1]
      [] e.type = "message.sources" -> [t EXCEPT !.sources = TRUE]
      [] e.type = "message.completed" -> [t EXCEPT !.message = "completed"]
      [] e.type = "message.discarded" -> [t EXCEPT !.message = "discarded", !.buffer = 0]

-----------------------------------------------------------------------------
(* reconcileProjection.                                                      *)
Follows(state) == IF state = "queued" THEN LiveStates \cup EndStates
                  ELSE IF state = "running" THEN {"running"} \cup EndStates
                  ELSE {state}

ReconcilesFault_Newer(t, v) ==       \* a projection with nothing new is stale
    v.latest > t.latest /\ v.latest >= t.cursor /\ v.state \in Follows(t.state)
Reconciles(t, v) ==
    /\ v.latest >= t.latest /\ v.latest >= t.cursor
    /\ v.state \in Follows(t.state)
    /\ v.state \in EndStates =>
         /\ t.afterEnd => v.latest = t.cursor /\ t.end /\ t.status = v.state
         /\ IF v.state = "completed"
            THEN /\ t.buffer \in {0, v.content}
                 /\ t.afterEnd => t.message = "completed"
            ELSE /\ t.message # "completed"
                 /\ t.afterEnd => t.message = "discarded"
                 /\ t.afterEnd /\ v.state # "cancelled" => t.error

SettleFault_KeepsBuffer(t, v) ==     \* the streamed text is left on screen
    [Dispose(t) EXCEPT !.state = v.state, !.latest = v.latest, !.reconciled = TRUE,
        !.buffer = IF v.state = "completed" THEN @ ELSE 0,
        !.sources = v.state = "completed" \/ @,
        !.error = v.state \in {"failed", "timeout"} \/ @]
Settle(t, v) ==
    [Dispose(t) EXCEPT !.state = v.state, !.latest = v.latest, !.reconciled = TRUE,
        !.buffer = IF v.state = "completed" THEN v.content ELSE 0,
        !.sources = v.state = "completed" \/ @,
        !.error = v.state \in {"failed", "timeout"} \/ @]

-----------------------------------------------------------------------------
(* Closing the EventSource drops the connection.  What the server then does of
   its own, down to giving the slot back, is EventStream's to show; here the
   stream is gone at once.                                                   *)
Become(t) ==
    /\ tab' = t
    /\ IF tab.source /\ ~t.source
       THEN /\ request' = [request EXCEPT ![Stream] = Away]
            /\ sse' = IF request[Stream].slot THEN sse - 1 ELSE sse
       ELSE UNCHANGED <<request, sse>>
    /\ UNCHANGED vars

OnlyTab(t) == Become(t) /\ UNCHANGED upsets

(* startRun, with the projection the POST was answered with: a replayed POST
   may find the Run already over.                                            *)
StartRun ==
    /\ tab = NoRun
    /\ resident /\ TheRun \in Accepted
    /\ LET v == [state |-> runs[TheRun].state, latest |-> Len(runs[TheRun].log),
                 content |-> Deltas(runs[TheRun].log)]
       IN  IF v.state \in LiveStates
           THEN /\ tab' = [tab EXCEPT !.state = v.state, !.latest = v.latest, !.source = TRUE,
                                     !.stoppable = TRUE]
                /\ Connect(Stream, "stream", TheRun, 0)
           ELSE tab' = Settle(tab, v) /\ UNCHANGED <<vars, request, sse>>
    /\ UNCHANGED upsets

(* receiveEvent.  A frame that is malformed, or out of sequence, ends the
   stream for this tab.                                                      *)
NextFrame == request[Stream].sent[tab.taken + 1]

Receive ==
    /\ tab.source /\ tab.taken < Len(request[Stream].sent)
    /\ LET t == [tab EXCEPT !.taken = @ + 1]
       IN  \/ NextFrame.seq <= tab.cursor /\ OnlyTab(t)
           \/ /\ NextFrame.seq = tab.cursor + 1 /\ Accepts(tab, NextFrame)
              /\ OnlyTab([Apply(t, NextFrame) EXCEPT !.cursor = NextFrame.seq])
           \/ /\ \/ NextFrame.seq > tab.cursor + 1
                 \/ NextFrame.seq = tab.cursor + 1 /\ ~Accepts(tab, NextFrame)
              /\ OnlyTab(StartPolling(t, FALSE))

(* source.onerror: the connection broke, with frames in it perhaps, or it is
   over: closed by the server, or answered with something else than a stream. *)
SourceBreaks == tab.source /\ OnlyTab(StartPolling(tab, FALSE))

SourceEndsFault_Ignored ==           \* the browser is left to reconnect
    /\ tab.source /\ request[Stream].at = "closed"
    /\ tab.taken = Len(request[Stream].sent)
    /\ OnlyTab([tab EXCEPT !.source = FALSE])
SourceEnds ==
    /\ tab.source /\ request[Stream].at = "closed"
    /\ tab.taken = Len(request[Stream].sent)
    /\ OnlyTab(StartPolling(tab, FALSE))

PollAfterEnd == tab.ending /\ OnlyTab(StartPolling([tab EXCEPT !.ending = FALSE], TRUE))

(* pollRun: the request goes out, ...                                        *)
SendPoll ==
    /\ tab.wait = "due"
    /\ Connect(Poll, "poll", TheRun, 0)
    /\ tab' = [tab EXCEPT !.wait = "asked"]
    /\ UNCHANGED upsets

(* ... fails, a few times over, until the tab gives up on the conversation; but
   if it fails while the page is hidden, pollRun just ends: no timer is left, and
   run.polling stays true, ...                                                *)
Retry(t) ==
    IF t.hidden THEN [t EXCEPT !.wait = "none"]
    ELSE IF t.retries + 1 > MaxPollRetries THEN FailClosed(t)
    ELSE [t EXCEPT !.retries = @ + 1, !.wait = "due"]

FinishPoll(t) ==
    /\ tab' = t
    /\ request' = [request EXCEPT ![Poll] = Away]
    /\ UNCHANGED <<vars, sse, upsets>>

PollFails == tab.wait = "asked" /\ FinishPoll(Retry(tab))

(* ... is answered with a status, ...                                        *)
Answered(reply) == request[Poll].at = "closed" /\ request[Poll].reply = reply

PollRefused ==
    /\ tab.wait = "asked"
    /\ \/ Answered("rate_limited") /\ FinishPoll(Retry(tab))
       \/ Answered("not_found") /\ FinishPoll(FailClosed(tab))

PollHeaders ==
    /\ tab.wait = "asked"
    /\ Answered("ok") \/ Answered("expired")
    /\ OnlyTab([tab EXCEPT !.wait = "reading"])

(* ... and its body is read, or breaks off, which is taken for a wrong answer. *)
PollBody ==
    /\ tab.wait = "reading"
    /\ LET v == request[Poll].view
       IN  \/ Answered("expired") /\ FinishPoll(ExpireTab(tab))
           \/ /\ Answered("ok") /\ Reconciles(tab, v) /\ v.state \in LiveStates
              /\ FinishPoll([tab EXCEPT !.state = v.state, !.latest = v.latest,
                                        !.retries = 0, !.wait = "due"])
           \/ /\ Answered("ok") /\ Reconciles(tab, v) /\ v.state \in EndStates
              /\ FinishPoll(Settle(tab, v))
           \/ Answered("ok") /\ ~Reconciles(tab, v) /\ FinishPoll(FailClosed(tab))

PollBodyBreaks == tab.wait = "reading" /\ FinishPoll(FailClosed(tab))

-----------------------------------------------------------------------------
(* cancelRun: the stop itself is the server's CommitCancelled; the tab falls
   back to polling when the POST, or the end it promised, stays away, however
   late that is.                                                             *)
StopUnanswered ==
    /\ tab.stoppable /\ upsets < MaxUpsets
    /\ upsets' = upsets + 1
    /\ Become(StartPolling(tab, tab.end))

(* pagehide drops both channels.  The poll it aborts ends by Retry's first
   branch, or fails if its body was being read.  The page that comes back polls
   unless the Run was settled.                                               *)
HidePage ==
    /\ ~tab.hidden /\ upsets < MaxUpsets
    /\ upsets' = upsets + 1
    /\ tab' = [(IF tab.wait = "reading" THEN FailClosed(tab) ELSE Dispose(tab))
                  EXCEPT !.hidden = TRUE]
    /\ request' = [q \in Requests |-> IF q \in {Stream, Poll} THEN Away ELSE request[q]]
    /\ sse' = IF request[Stream].slot THEN sse - 1 ELSE sse
    /\ UNCHANGED vars

ShowPage ==
    /\ tab.hidden
    /\ OnlyTab(IF tab.state # "absent" /\ ~tab.reconciled
               THEN StartPolling([tab EXCEPT !.hidden = FALSE], tab.end)
               ELSE [tab EXCEPT !.hidden = FALSE])

(* A hidden page is one the browser has put away: no task of its event loop runs
   before it is shown again, timers and answers alike (the HTML standard's "fully
   active").  No line of app.js says so, hence the constant.                 *)
PageRuns == tab.hidden => HiddenPageRuns

(* What the browser does by itself, and what users and the network may do.   *)
Progress ==
    \/ ShowPage
    \/ /\ PageRuns
       /\ \/ Receive \/ SourceEnds \/ PollAfterEnd
          \/ SendPoll \/ PollRefused \/ PollHeaders \/ PollBody
Disturbance ==
    \/ StartRun \/ HidePage
    \/ PageRuns /\ (SourceBreaks \/ PollFails \/ PollBodyBreaks \/ StopUnanswered)

ServeStep ==
    /\ \E q \in Requests : Serve(q)
    /\ Len(request'[Stream].sent) <= tab.taken + MaxInFlight
    /\ UNCHANGED <<tab, upsets>>

ClientNext == Progress \/ Disturbance \/ ServeStep \/ (StoreStep /\ UNCHANGED <<tab, upsets>>)

(* The browser delivers what arrives and runs its timers, a hidden page comes
   back, the server serves its requests and the Deadline passes.             *)
ClientSpec ==
    /\ ClientInit /\ [][ClientNext]_clientVars
    /\ WF_clientVars(Progress)
    /\ WF_clientVars(ServeStep)
    /\ WF_clientVars(ReachDeadline(TheRun) /\ UNCHANGED <<request, sse, tab, upsets>>)

-----------------------------------------------------------------------------
(* What the tab shows as the Run's end is how the Run ended, and a settled
   answer is the committed one, whole.                                       *)
ShowsCommittedOutcome ==
    resident /\ tab.state \in EndStates =>
        /\ runs[TheRun].state = tab.state
        /\ tab.state = "completed" /\ tab.reconciled /\ tab.notice = "none" =>
               tab.buffer = Deltas(runs[TheRun].log)

(* The tab and the server agree on the grammar: no frame in sequence is ever
   refused, wherever the Run was ended and whatever ended it.                *)
NoFrameRefused ==
    tab.source /\ tab.taken < Len(request[Stream].sent) /\ NextFrame.seq = tab.cursor + 1 =>
        Accepts(tab, NextFrame)

(* docs/sse-contract.md: a reader of the stream sees the same state as a poll.
   The tab takes a projection for a contradiction of what it streamed in one
   case only: the stream broke within the answer and the Run went on to
   complete, so that what was streamed is only the answer's beginning.       *)
PollContradictsOnlyCutAnswers ==
    tab.wait = "reading" /\ Answered("ok") /\ ~Reconciles(tab, request[Poll].view) =>
        /\ request[Poll].view.state = "completed"
        /\ tab.buffer \in 1..request[Poll].view.content - 1
        /\ tab.message = "none"

(* Whatever breaks, the tab reaches a verdict: the Run is settled on screen, or
   the conversation is closed there.  It holds if a hidden page runs nothing.  A
   poll that failed there would leave run.polling true without a timer, and the
   startPolling of the page's return, which does nothing while run.polling is
   true, would not poll again.                                               *)
TabSettles == tab.state # "absent" ~> (tab.reconciled \/ tab.notice # "none")

=============================================================================
