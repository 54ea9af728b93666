---------------------------- MODULE AgentRuntime ----------------------------
(***************************************************************************)
(* The production AgentRuntimePort (src/aidd_chat/adapters/pi_sidecar.py)  *)
(* and the Node child it owns (agent/sidecar.mjs).  One child serves many  *)
(* Runs over two pipes of JSON lines; it may die at any moment, is replaced *)
(* at most once per interval, and is told by one frame to stop a Run.      *)
(* The adapter lives on one event loop, so a step here runs from one await *)
(* to the next.  Waiting for the write lock and for the pipe to drain is   *)
(* part of how long a frame stays in the pipe.                             *)
(***************************************************************************)
EXTENDS Naturals, Sequences

CONSTANTS
    Runs,         \* Runs handed to run(), each once
    Probes,       \* readiness probes
    Closer,       \* the one call of aclose()
    MaxSpawns,    \* bound: children ever created
    MaxFrames     \* bound: steps and deltas one Run reports

ASSUME RuntimeAssumption ==
    /\ Runs \cap Probes = {} /\ Closer \notin Runs \cup Probes
    /\ MaxSpawns \in Nat \ {0} /\ MaxFrames \in Nat     \* start() makes the first

VARIABLES
    call,       \* every run(), probe() and aclose(): where it is and what has reached it
    child,      \* every child: its two pipes and the Runs it works on
    process,    \* _process: the child to reap, 0 for None
    live,       \* _live: the child whose stdout is open, 0 for None
    rested,     \* RESPAWN_INTERVAL_SECONDS have passed since _last_change
    emitted     \* how many of MaxFrames each Run has reported

vars == <<call, child, process, live, rested, emitted>>

Children == 1..MaxSpawns
Callers  == Runs \cup Probes

(* A frame is its type and the Run or probe it names.                        *)
Frame(type, c) == [type |-> type, id |-> c]
Terminal == {"final", "error", "aborted"}

(* `reaps` is the child a call waits to see gone, `to` the one its frame went
   to, `queue` the channel's, and `stop` what abort() came to: "early" when
   the Run had no channel yet, so that nothing was sent.                     *)
Idle == [at |-> "idle", reaps |-> 0, to |-> 0, queue |-> <<>>, abortSent |-> FALSE,
         stop |-> "no", end |-> "none"]

NoChild  == [state |-> "none", stdin |-> <<>>, out |-> <<>>, work |-> [r \in Runs |-> "none"]]
NewChild == [NoChild EXCEPT !.state = "up"]

(* start(): the first child, or none if it could not be spawned.             *)
Init ==
    /\ call = [c \in Callers \cup {Closer} |-> Idle]
    /\ live \in {0, 1}
    /\ process = live
    /\ child = [k \in Children |-> IF k = live THEN NewChild ELSE NoChild]
    /\ rested = FALSE
    /\ emitted = [r \in Runs |-> 0]

Closed        == call[Closer].at # "idle"
Registered(c) == call[c].at \in {"waiting", "draining"}
Starting(c)   == call[c].at \in {"reaping", "spawning"}
Reaped(k)     == \E c \in Callers \cup {Closer} : call[c].at = "reaping" /\ call[c].reaps = k
Over(rec, end) == [rec EXCEPT !.at = "over", !.end = end]

(* _fail_inflight: every Run's channel and every probe's waiter hears of it. *)
FailInflight(calls) ==
    [c \in DOMAIN calls |->
        IF ~Registered(c) THEN calls[c]
        ELSE IF c \in Runs THEN [calls[c] EXCEPT !.queue = Append(@, "exit")]
        ELSE Over(calls[c], "failed")]

(* What is written to a child that is gone is lost.                          *)
Put(children, k, frame) ==
    IF k # 0 /\ children[k].state = "up"
    THEN [children EXCEPT ![k].stdin = Append(@, frame)]
    ELSE children

-----------------------------------------------------------------------------
(* run() and probe(): with a live child the call registers and sends in one
   step; a child that just died may refuse the write.                        *)
Submit(calls, children, c, k) ==
    \/ /\ call'  = [calls EXCEPT ![c].at = "waiting", ![c].to = k]
       /\ child' = Put(children, k, Frame(IF c \in Runs THEN "run" ELSE "probe", c))
    \/ /\ children[k].state # "up"
       /\ call'  = [calls EXCEPT ![c] = Over(@, "failed")]
       /\ child' = children

Refuse(c) ==
    /\ call' = [call EXCEPT ![c] = Over(@, "failed")]
    /\ UNCHANGED <<child, process, live, rested, emitted>>

(* _ensure_alive up to its first await: one caller an interval starts over.  *)
BeginFault_NoInterval(c) ==          \* every caller that finds no child starts one
    /\ call[c].at = "idle"
    /\ \/ /\ live # 0
          /\ Submit(call, child, c, live)
          /\ UNCHANGED <<process, live, rested, emitted>>
       \/ live = 0 /\ Closed /\ Refuse(c)
       \/ /\ live = 0 /\ ~Closed
          /\ rested' = FALSE
          /\ process' = 0
          /\ call' = [call EXCEPT ![c].at = IF process = 0 THEN "spawning" ELSE "reaping",
                                  ![c].reaps = process]
          /\ UNCHANGED <<child, live, emitted>>
Begin(c) ==
    /\ call[c].at = "idle"
    /\ \/ /\ live # 0
          /\ Submit(call, child, c, live)
          /\ UNCHANGED <<process, live, rested, emitted>>
       \/ live = 0 /\ (Closed \/ ~rested) /\ Refuse(c)
       \/ /\ live = 0 /\ ~Closed /\ rested
          /\ rested' = FALSE
          /\ process' = 0
          /\ call' = [call EXCEPT ![c].at = IF process = 0 THEN "spawning" ELSE "reaping",
                                  ![c].reaps = process]
          /\ UNCHANGED <<child, live, emitted>>

(* The end of _reap: the child and its reader are gone, everyone still
   registered is told, and a caller that wants a child spawns one.           *)
ReapDone(c) ==
    /\ call[c].at = "reaping"
    /\ call[c].reaps # 0 => child[call[c].reaps].state = "gone"
    /\ call' = [FailInflight(call) EXCEPT
                   ![c].at = IF c = Closer THEN "over" ELSE "spawning", ![c].reaps = 0]
    /\ rested' = IF c = Closer THEN rested ELSE FALSE
    /\ UNCHANGED <<child, process, live, emitted>>

(* _spawn returns: a child that arrives after aclose() is killed, never kept. *)
Spawned(c) ==
    /\ call[c].at = "spawning"
    /\ \E k \in Children :
          /\ child[k].state = "none" /\ \A j \in 1..k - 1 : child[j].state # "none"
          /\ IF Closed
             THEN /\ child' = [child EXCEPT ![k].state = "gone"]
                  /\ call' = [call EXCEPT ![c] = Over(@, "failed")]
                  /\ UNCHANGED <<process, live>>
             ELSE /\ process' = k /\ live' = k
                  /\ Submit(call, [child EXCEPT ![k] = NewChild], c, k)
    /\ UNCHANGED <<rested, emitted>>

SpawnFails(c) == call[c].at = "spawning" /\ Refuse(c)

(* The clock.  A reap and a spawn are each shorter than the interval.        *)
Rest ==
    /\ ~rested /\ live = 0 /\ \A c \in Callers : ~Starting(c)
    /\ rested' = TRUE
    /\ UNCHANGED <<call, child, process, live, emitted>>

(* aclose() *)
Close ==
    /\ ~Closed
    /\ process' = 0 /\ live' = 0
    /\ call' = [call EXCEPT ![Closer].at = "reaping", ![Closer].reaps = process]
    /\ UNCHANGED <<child, rested, emitted>>

-----------------------------------------------------------------------------
(* _read and _dispatch: a frame for a call that is gone is dropped, ...      *)
Deliver(k) ==
    /\ child[k].state \in {"up", "dead"} /\ child[k].out # <<>>
    /\ LET frame == Head(child[k].out)
       IN  call' = IF ~Registered(frame.id) THEN call
                   ELSE IF frame.id \in Runs
                        THEN [call EXCEPT ![frame.id].queue = Append(@, frame.type)]
                        ELSE [call EXCEPT ![frame.id] = Over(@, "ok")]
    /\ child' = [child EXCEPT ![k].out = Tail(@)]
    /\ UNCHANGED <<process, live, rested, emitted>>

(* ... and the end of stdout fails whatever the live child left unanswered.  *)
EofFault_Silent(k) ==                \* the Runs in flight are not told
    /\ child[k].state = "dead" /\ child[k].out = <<>>
    /\ child' = [child EXCEPT ![k].state = "gone"]
    /\ IF live = k THEN live' = 0 /\ rested' = FALSE ELSE UNCHANGED <<live, rested>>
    /\ UNCHANGED <<call, process, emitted>>
Eof(k) ==
    /\ child[k].state = "dead" /\ child[k].out = <<>>
    /\ child' = [child EXCEPT ![k].state = "gone"]
    /\ IF live = k THEN live' = 0 /\ rested' = FALSE /\ call' = FailInflight(call)
                   ELSE UNCHANGED <<live, rested, call>>
    /\ UNCHANGED <<process, emitted>>

-----------------------------------------------------------------------------
(* _abort_channel: told once, then the channel is drained until the child
   confirms or the Close Grace is up.  The frame goes to the child that is
   live now, whichever the Run was sent to.                                  *)
StartDrainFault_NoAbort(r) ==        \* the child is not told
    /\ call' = [call EXCEPT ![r].queue = Tail(@), ![r].at = "draining", ![r].abortSent = TRUE]
    /\ UNCHANGED child
StartDrain(r) ==
    /\ call' = [call EXCEPT ![r].queue = Tail(@), ![r].at = "draining", ![r].abortSent = TRUE]
    /\ child' = IF call[r].abortSent THEN child ELSE Put(child, live, Frame("abort", r))

Finish(r, end) ==
    /\ call' = [call EXCEPT ![r] = [Over(@, end) EXCEPT !.queue = <<>>]]
    /\ UNCHANGED child

(* _consume.  A callback raises once the Run is fenced, and may raise before;
   a result or a step may fail validation.                                   *)
Consume(r) ==
    /\ call[r].at = "waiting" /\ call[r].queue # <<>>
    /\ LET type == Head(call[r].queue)
       IN  \/ type \in {"exit", "aborted", "error"} /\ Finish(r, "failed")
           \/ type = "final" /\ Finish(r, "ok")
           \/ /\ type = "step" /\ call[r].stop = "no"
              /\ call' = [call EXCEPT ![r].queue = Tail(@)] /\ UNCHANGED child
           \/ type \in {"step", "final"} /\ StartDrain(r)
    /\ UNCHANGED <<process, live, rested, emitted>>

Drain(r) ==
    /\ call[r].at = "draining"
    /\ \/ /\ call[r].queue # <<>>
          /\ IF Head(call[r].queue) \in Terminal \cup {"exit"} THEN Finish(r, "failed")
             ELSE call' = [call EXCEPT ![r].queue = Tail(@)] /\ UNCHANGED child
       \/ Finish(r, "failed")
    /\ UNCHANGED <<process, live, rested, emitted>>

ProbeTimeout(p) == call[p].at = "waiting" /\ Refuse(p)

(* The application's stop(): abort(), and the Close Grace that cancels the
   task if it is still there; a cancelled task only leaves the registry.     *)
Abort(r) ==
    /\ call[r].stop = "no"
    /\ call' = [call EXCEPT ![r].abortSent = @ \/ Registered(r),
                            ![r].stop = IF call[r].at = "idle" \/ Starting(r) THEN "early"
                                        ELSE "told"]
    /\ child' = IF Registered(r) /\ ~call[r].abortSent
                THEN Put(child, live, Frame("abort", r)) ELSE child
    /\ UNCHANGED <<process, live, rested, emitted>>

CancelTask(r) ==
    /\ call[r].stop # "no" /\ call[r].at # "over"
    /\ Finish(r, "cancelled")
    /\ UNCHANGED <<process, live, rested, emitted>>

-----------------------------------------------------------------------------
(* agent/sidecar.mjs.                                                        *)
Say(k, type, c) == [child EXCEPT ![k].out = Append(@, Frame(type, c))]

HandleLine(k) ==
    /\ child[k].state = "up" /\ child[k].stdin # <<>>
    /\ LET frame == Head(child[k].stdin)
           c     == frame.id
           left  == [child EXCEPT ![k].stdin = Tail(@)]
       IN  child' = CASE frame.type = "run" /\ child[k].work[c] = "none" ->
                             [left EXCEPT ![k].work[c] = "busy"]
                      [] frame.type = "abort" /\ child[k].work[c] = "busy" ->
                             [left EXCEPT ![k].work[c] = "stopping"]
                      [] frame.type = "probe" ->
                             [left EXCEPT ![k].out = Append(@, Frame("probe_ok", c))]
                      [] OTHER -> left
    /\ UNCHANGED <<call, process, live, rested, emitted>>

Emit(k, r) ==
    /\ child[k].state = "up" /\ child[k].work[r] = "busy" /\ emitted[r] < MaxFrames
    /\ emitted' = [emitted EXCEPT ![r] = @ + 1]
    /\ child' = Say(k, "step", r)
    /\ UNCHANGED <<call, process, live, rested>>

EndRun(k, r) ==
    /\ child[k].state = "up" /\ child[k].work[r] \in {"busy", "stopping"}
    /\ \E type \in IF child[k].work[r] = "busy" THEN {"final", "error"} ELSE {"aborted"} :
          child' = [Say(k, type, r) EXCEPT ![k].work[r] = "none"]
    /\ UNCHANGED <<call, process, live, rested, emitted>>

(* A child dies, or ends because its stdin was closed or it was killed.      *)
Die(k) ==
    /\ child[k].state = "up"
    /\ child' = [child EXCEPT ![k] = [NoChild EXCEPT !.state = "dead", !.out = child[k].out]]
    /\ UNCHANGED <<call, process, live, rested, emitted>>

Terminate(k) == Reaped(k) /\ Die(k)

-----------------------------------------------------------------------------
Next ==
    \/ Close \/ Rest \/ ReapDone(Closer)
    \/ \E c \in Callers : Begin(c) \/ ReapDone(c) \/ Spawned(c) \/ SpawnFails(c)
    \/ \E p \in Probes : ProbeTimeout(p)
    \/ \E r \in Runs : Consume(r) \/ Drain(r) \/ Abort(r) \/ CancelTask(r)
    \/ \E k \in Children :
          \/ Deliver(k) \/ Eof(k) \/ HandleLine(k) \/ Die(k)
          \/ \E r \in Runs : Emit(k, r) \/ EndRun(k, r)

Spec == Init /\ [][Next]_vars

(* The loop runs what is ready, and a reaped child is killed in the end.
   Nothing is assumed of what the child does by itself.                      *)
FairSpec ==
    /\ Spec
    /\ \A k \in Children : WF_vars(Deliver(k) \/ Eof(k)) /\ WF_vars(Terminate(k))
    /\ \A r \in Runs : WF_vars(Consume(r) \/ Drain(r))
    /\ \A c \in Callers \cup {Closer} : WF_vars(ReapDone(c))
    /\ \A c \in Callers : WF_vars(Spawned(c) \/ SpawnFails(c))

-----------------------------------------------------------------------------
(* Every variable keeps its type, and only a call that reaps names a child to
   wait for.                                                                 *)
FrameType == [type : {"run", "abort", "probe", "step", "probe_ok"} \cup Terminal, id : Callers]

TypeOK ==
    /\ call \in [Callers \cup {Closer} ->
           [at : {"idle", "reaping", "spawning", "waiting", "draining", "over"},
            reaps : Children \cup {0}, to : Children \cup {0},
            queue : Seq({"step", "exit"} \cup Terminal), abortSent : BOOLEAN,
            stop : {"no", "early", "told"}, end : {"none", "ok", "failed", "cancelled"}]]
    /\ \A c \in Callers : call[c].at = "reaping" => call[c].reaps \in Children
    /\ child \in [Children ->
           [state : {"none", "up", "dead", "gone"}, stdin : Seq(FrameType),
            out : Seq(FrameType), work : [Runs -> {"none", "busy", "stopping"}]]]
    /\ process \in Children \cup {0} /\ live \in Children \cup {0}
    /\ rested \in BOOLEAN /\ emitted \in [Runs -> 0..MaxFrames]

(* The module promises one child: however many calls find it dead at once, a
   child that runs is the adapter's own or one that somebody waits to bury,
   and after aclose() none is left, nor will one that was being spawned stay. *)
OneChild ==
    /\ live # 0 => live = process
    /\ \A k \in Children : child[k].state = "up" => k = process \/ Reaped(k)
ClosedLeavesNothing ==
    call[Closer].at = "over" => \A k \in Children : child[k].state # "up"
EveryChildIsOwned == OneChild /\ ClosedLeavesNothing

(* A child works on a Run nobody waits for only until the abort on its way
   arrives.  The exception is a stop that came before the Run had a channel:
   then nothing is sent, and if the Run says nothing before the Close Grace
   cancels its task, the child works on alone.                               *)
WorkIsWanted ==
    \A k \in Children, r \in Runs :
        child[k].state = "up" /\ child[k].work[r] = "busy" /\ call[r].at = "over" =>
            \/ \E i \in 1..Len(child[k].stdin) : child[k].stdin[i] = Frame("abort", r)
            \/ call[r].stop = "early"
            \/ Reaped(k)

(* When the child a Run was sent to dies, the Run ends, whatever else the
   adapter is doing: no task hangs until its Deadline for a dead process.    *)
CrashEndsItsCalls ==
    \A k \in Children, r \in Runs :
        call[r].to = k /\ child[k].state \in {"dead", "gone"} ~> call[r].at = "over"

=============================================================================
