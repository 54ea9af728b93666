----------------------------- MODULE Generation -----------------------------
(***************************************************************************)
(* ChatApplication around one Conversation                                 *)
(* (src/aidd_chat/application/__init__.py): the request threads that       *)
(* submit, poll and cancel, the generation tasks, Deadline alarms, stops   *)
(* and Close Graces of the one agent loop, and the Purge.                  *)
(*                                                                         *)
(* A step is one store call or one `_generation_lock` section; the loop    *)
(* runs one callback at a time but other threads run between its steps.    *)
(* The store is taken by what it promises: Conversation implements         *)
(* RunLifecycle, CapacityLedger implements RunSlots.  The Provider may     *)
(* answer, raise or hang, and may ignore an abort; it does unwind when its *)
(* task is cancelled.  Run r is the one the POST request r would create.   *)
(***************************************************************************)
EXTENDS Integers, FiniteSets

CONSTANTS
    Runs,
    Keys,              \* idempotency keys
    Clients,           \* request threads that poll and cancel
    Loop,              \* the agent loop's thread
    None,
    MaxGlobal, MaxSession, MaxQueued, MaxProvider      \* the Run ceilings

ASSUME GenerationAssumption ==
    /\ None \notin Runs /\ Loop \notin Clients
    /\ {MaxGlobal, MaxSession, MaxQueued, MaxProvider} \subseteq Nat

VARIABLES
    state,     \* the store's Runs, as RunLifecycle has them
    expired,   \* the Absolute Expiry has passed
    due,       \* Runs whose Deadline has passed
    waiting, slotted,  \* leases reserved, and started, as RunSlots has them
    key,       \* key[r]: the idempotency key request r carries
    keys,      \* idempotency keys with a receipt
    request,   \* request[r]: where the POST request stands
    entry,     \* entry[r]: the _Generation object and its place in the table
    task,      \* task[r]: where _generate stands
    timer,     \* Runs with an armed Deadline alarm
    stop,      \* stop[r]: the stop() coroutine and its Close Grace
    thread,    \* thread[t]: where a poll, a Cancel or a loop callback stands
    orphan     \* live Run of a Purge whose Provider is still to be told

vars == <<state, expired, due, waiting, slotted, key, keys, request, entry,
          task, timer, stop, thread, orphan>>

Threads == Clients \cup {Loop}
Conv == [r \in Runs |-> "this"]
Life  == INSTANCE RunLifecycle
Slots == INSTANCE RunSlots WITH Leases <- Runs, running <- slotted

Live(r) == Life!Live(r)
Writable(r) == Live(r) /\ ~expired       \* a terminal commit of r would win
Idle == [at |-> "idle", run |-> None, was |-> None, goal |-> "none"]
NoEntry == [registered |-> FALSE, cancelled |-> FALSE, timedOut |-> FALSE, abort |-> FALSE]

store == <<state, expired, due, key, keys, orphan>>
slots == <<waiting, slotted>>
loops == <<timer, stop>>

Init ==
    /\ state = [r \in Runs |-> "absent"]
    /\ expired = FALSE /\ due = {} /\ orphan = None
    /\ waiting = {} /\ slotted = {}
    /\ key \in [Runs -> Keys] /\ keys = {}
    /\ request = [r \in Runs |-> "idle"]
    /\ entry = [r \in Runs |-> NoEntry]
    /\ task = [r \in Runs |-> "none"]
    /\ timer = {} /\ stop = [r \in Runs |-> "none"]
    /\ thread = [t \in Threads |-> Idle]

-----------------------------------------------------------------------------
(* submit_question and retry_run.                                            *)
Asking(r, from, to) == request[r] = from /\ request' = [request EXCEPT ![r] = to]

Submit(r) ==
    /\ Asking(r, "idle", "await")
    /\ UNCHANGED <<store, slots, entry, task, loops, thread>>

(* _await_previous_generation: cancelled entries that did not time out; the
   wait gives up after two seconds.                                          *)
Draining == {s \in Runs : entry[s].registered /\ entry[s].cancelled /\ ~entry[s].timedOut}

AwaitPrevious(r) ==
    /\ IF Draining = {} THEN Asking(r, "await", "replay") ELSE Asking(r, "await", "refused")
    /\ UNCHANGED <<store, slots, entry, task, loops, thread>>

Replay(r) ==
    /\ \/ expired /\ Asking(r, "replay", "refused")
       \/ ~expired /\ key[r] \in keys /\ Asking(r, "replay", "done")
       \/ ~expired /\ key[r] \notin keys /\ Asking(r, "replay", "reserve")
    /\ UNCHANGED <<store, slots, entry, task, loops, thread>>

(* A rate limit, a refused retry target, the spend breaker or a ceiling that
   other Conversations fill may refuse at any time.                          *)
Reserve(r) ==
    /\ \/ Asking(r, "reserve", "accept") /\ Slots!Admit(r)
       \/ Asking(r, "reserve", "refused") /\ UNCHANGED slots
    /\ UNCHANGED <<store, entry, task, loops, thread>>

AcceptFault_TrustsReplay(r) ==       \* the receipt is not looked up again
    /\ Asking(r, "accept", "start")
    /\ ~expired
    /\ Life!Accept(r)
    /\ keys' = keys \cup {key[r]}
    /\ UNCHANGED <<expired, due, key, orphan, slots, entry, task, loops, thread>>
Accept(r) ==
    /\ Asking(r, "accept", "start")
    /\ ~expired /\ key[r] \notin keys
    /\ Life!Accept(r)
    /\ keys' = keys \cup {key[r]}
    /\ UNCHANGED <<expired, due, key, orphan, slots, entry, task, loops, thread>>

(* accept raised, or answered with a replay: the request's own except or
   early return gives the lease back.                                        *)
AcceptRefused(r) ==
    /\ Asking(r, "accept", "release")
    /\ UNCHANGED <<store, slots, entry, task, loops, thread>>
ReleaseFault_Kept(r) ==              \* the early return keeps the lease
    /\ Asking(r, "release", "refused")
    /\ UNCHANGED <<store, slots, entry, task, loops, thread>>
Release(r) ==
    /\ Asking(r, "release", "refused")
    /\ Slots!End(r)
    /\ UNCHANGED <<store, entry, task, loops, thread>>

(* _start_generation: submit and register in one critical section, ...       *)
StartGeneration(r) ==
    /\ Asking(r, "start", "done")
    /\ entry' = [entry EXCEPT ![r].registered = TRUE]
    /\ task' = [task EXCEPT ![r] = "ready"]
    /\ UNCHANGED <<store, slots, loops, thread>>

(* ... or undo: the loop did not take the task.                              *)
StartFails(r) ==
    /\ Asking(r, "start", "undo")
    /\ Slots!End(r)
    /\ UNCHANGED <<store, entry, task, loops, thread>>
UndoStart(r) ==
    /\ Asking(r, "undo", "done")
    /\ IF Writable(r) THEN Life!End(r, "failed") ELSE UNCHANGED state
    /\ UNCHANGED <<expired, due, key, keys, orphan, slots, entry, task, loops, thread>>

RequestStep(r) ==
    \/ AwaitPrevious(r) \/ Replay(r) \/ Reserve(r) \/ Accept(r) \/ AcceptRefused(r)
    \/ Release(r) \/ StartGeneration(r) \/ StartFails(r) \/ UndoStart(r)

-----------------------------------------------------------------------------
(* _request_provider_cancel: flags under the lock, and one stop() per Run.   *)
RequestCancel(r, timed) ==
    /\ entry' = IF entry[r].registered
                THEN [entry EXCEPT ![r].cancelled = TRUE, ![r].timedOut = @ \/ timed,
                                   ![r].abort = TRUE]
                ELSE entry
    /\ stop' = IF entry[r].registered /\ ~entry[r].abort
               THEN [stop EXCEPT ![r] = "queued"] ELSE stop

(* _commit_timeout, called by a poll, a Cancel, the task or the alarm.       *)
At(t, where) == thread[t].at = where
Goto(t, where) == thread' = [thread EXCEPT ![t].at = where]
Return(t) ==
    thread' = [thread EXCEPT ![t] =
        CASE thread[t].goal = "poll"   -> [@ EXCEPT !.at = "reply", !.was = None]
          [] thread[t].goal = "cancel" -> [@ EXCEPT !.at = "cancel", !.was = None]
          [] thread[t].goal = "task"   -> [@ EXCEPT !.at = "task", !.was = None]
          [] thread[t].goal = "alarm"  -> Idle]

(* due_only: a Run that is gone is not due.  A poll that was early answers
   with the Run it re-reads, whatever its state.                             *)
CheckDue(t) ==
    /\ At(t, "due")
    /\ \/ thread[t].run \in due /\ state[thread[t].run] # "gone" /\ Goto(t, "flag")
       \/ /\ thread[t].run \notin due \/ state[thread[t].run] = "gone"
          /\ IF thread[t].goal = "poll" THEN thread' = [thread EXCEPT ![t] = Idle]
             ELSE Return(t)
    /\ UNCHANGED <<store, slots, request, entry, task, loops>>

RaiseFlag(t) ==
    LET r == thread[t].run IN
    /\ At(t, "flag")
    /\ thread' = [thread EXCEPT ![t].at = "commit",
                      ![t].was = IF entry[r].registered THEN entry[r].timedOut ELSE None]
    /\ entry' = IF entry[r].registered THEN [entry EXCEPT ![r].timedOut = TRUE] ELSE entry
    /\ UNCHANGED <<store, slots, request, task, loops>>

CommitTimeout(t) ==
    LET r == thread[t].run IN
    /\ At(t, "commit")
    /\ IF Writable(r) THEN Life!End(r, "timeout") /\ Goto(t, "won")
       ELSE UNCHANGED state /\ Goto(t, "lost")
    /\ UNCHANGED <<expired, due, key, keys, orphan, slots, request, entry, task, loops>>

StopTimedOut(t) ==
    /\ At(t, "won")
    /\ RequestCancel(thread[t].run, TRUE)
    /\ Return(t)
    /\ UNCHANGED <<store, slots, request, task, timer>>

(* The object flagged is the one captured, so an entry popped since is left
   alone (its flags are read through the table only).                        *)
RestoreFlag(t) ==
    LET r == thread[t].run IN
    /\ At(t, "lost")
    /\ entry' = IF thread[t].was = None \/ ~entry[r].registered THEN entry
                ELSE [entry EXCEPT ![r].timedOut = thread[t].was]
    /\ Return(t)
    /\ UNCHANGED <<store, slots, request, task, loops>>

-----------------------------------------------------------------------------
(* _observed and cancel_run: the read that authorizes them comes first, and a
   Conversation past its expiry answers 410 or 404 instead.                  *)
BeginPoll(t, r) ==
    /\ At(t, "idle") /\ Writable(r)
    /\ thread' = [thread EXCEPT ![t] = [at |-> "due", run |-> r, was |-> None, goal |-> "poll"]]
    /\ UNCHANGED <<store, slots, request, entry, task, loops>>

BeginCancel(t, r) ==
    /\ At(t, "idle") /\ ~expired /\ state[r] # "absent"
    /\ thread' = [thread EXCEPT ![t] = [at |-> "due", run |-> r, was |-> None, goal |-> "cancel"]]
    /\ UNCHANGED <<store, slots, request, entry, task, loops>>

CommitCancelledFault_StopFirst(t) == \* the Provider is told before the commit
    LET r == thread[t].run IN
    /\ At(t, "cancel")
    /\ IF expired THEN thread' = [thread EXCEPT ![t] = Idle] /\ UNCHANGED <<entry, stop>>
       ELSE IF Live(r) THEN Goto(t, "cancelled") /\ RequestCancel(r, FALSE)
       ELSE Goto(t, "reply") /\ UNCHANGED <<entry, stop>>
    /\ UNCHANGED <<store, slots, request, task, timer>>
CommitCancelledFault_RunningOnly(t) ==   \* a queued Run answers already_terminal
    LET r == thread[t].run IN
    /\ At(t, "cancel")
    /\ \/ expired /\ UNCHANGED state /\ thread' = [thread EXCEPT ![t] = Idle]
       \/ Writable(r) /\ state[r] = "running" /\ Life!End(r, "cancelled") /\ Goto(t, "cancelled")
       \/ ~expired /\ state[r] # "running" /\ UNCHANGED state /\ Goto(t, "reply")
    /\ UNCHANGED <<expired, due, key, keys, orphan, slots, request, entry, task, loops>>
CommitCancelled(t) ==
    LET r == thread[t].run IN
    /\ At(t, "cancel")
    /\ \/ expired /\ UNCHANGED state /\ thread' = [thread EXCEPT ![t] = Idle]
       \/ Writable(r) /\ Life!End(r, "cancelled") /\ Goto(t, "cancelled")
       \/ ~expired /\ ~Live(r) /\ UNCHANGED state /\ Goto(t, "reply")
    /\ UNCHANGED <<expired, due, key, keys, orphan, slots, request, entry, task, loops>>

StopCancelled(t) ==
    /\ At(t, "cancelled")
    /\ RequestCancel(thread[t].run, FALSE)
    /\ Goto(t, "reply")
    /\ UNCHANGED <<store, slots, request, task, timer>>

Reply(t) ==            \* the last read, and the answer made of it
    /\ At(t, "reply")
    /\ thread' = [thread EXCEPT ![t] = Idle]
    /\ UNCHANGED <<store, slots, request, entry, task, loops>>

ThreadStep(t) ==
    \/ CheckDue(t) \/ RaiseFlag(t) \/ CommitTimeout(t) \/ StopTimedOut(t) \/ RestoreFlag(t)
    \/ CommitCancelled(t) \/ StopCancelled(t) \/ Reply(t)

-----------------------------------------------------------------------------
(* _generate on the agent loop.                                              *)
LoopIdle == At(Loop, "idle")
OnLoop(r, where) == At(Loop, "task") /\ thread[Loop].run = r /\ task[r] = where
Task(r, where) == task' = [task EXCEPT ![r] = where]
Resume(r) == thread' = [thread EXCEPT ![Loop] =
                 [at |-> "task", run |-> r, was |-> None, goal |-> "task"]]
Stay(r, from, to) == OnLoop(r, from) /\ Task(r, to) /\ UNCHANGED thread
(* Into _commit_timeout, after which only the finally is left.               *)
TimeOut(r, where) == Task(r, "finally") /\ Goto(Loop, where)

FirstStep(r) ==
    /\ LoopIdle /\ task[r] = "ready"
    /\ Task(r, "mark") /\ Resume(r)
    /\ UNCHANGED <<store, slots, request, entry, loops>>

MarkRunning(r) ==
    /\ OnLoop(r, "mark")
    /\ IF Writable(r) /\ r \notin due
       THEN Life!Start(r) /\ Task(r, "slot") /\ UNCHANGED thread
       ELSE UNCHANGED state /\ TimeOut(r, "due")
    /\ UNCHANGED <<expired, due, key, keys, orphan, slots, request, entry, loops>>

(* mark_running raised (binding_digest of a Provider that has none).         *)
MarkRunningRaises(r) ==
    /\ Stay(r, "mark", "failCommit")
    /\ UNCHANGED <<store, slots, request, entry, loops>>

StartRunFault_NoAlarm(r) ==          \* the Deadline alarm is not armed
    /\ Stay(r, "slot", "prepare")
    /\ Slots!Begin(r)
    /\ UNCHANGED <<store, request, entry, loops>>
StartRun(r) ==                       \* start_run, then _arm_deadline
    /\ Stay(r, "slot", "prepare")
    /\ Slots!Begin(r)
    /\ timer' = timer \cup {r}
    /\ UNCHANGED <<store, request, entry, stop>>

(* Either a Retry's Snapshot, which asks the store nothing, or a History
   selected and recorded on the active Run; selecting may also raise.        *)
Prepare(r) ==
    /\ \/ Stay(r, "prepare", "deadline")
       \/ Stay(r, "prepare", "fail")
    /\ UNCHANGED <<store, slots, request, entry, loops>>

CheckDeadline(r) ==
    /\ \/ r \notin due /\ Stay(r, "deadline", "truncate")
       \/ r \in due /\ OnLoop(r, "deadline") /\ TimeOut(r, "flag")
    /\ UNCHANGED <<store, slots, request, entry, loops>>

(* commit_context_truncated refuses when Turns were dropped and the Run is no
   longer the active one; then provider.run awaits, and the loop is free.    *)
CallProvider(r) ==
    /\ OnLoop(r, "truncate")
    /\ \/ Task(r, "call") /\ thread' = [thread EXCEPT ![Loop] = Idle]
       \/ ~(Writable(r) /\ state[r] = "running") /\ Task(r, "fail") /\ UNCHANGED thread
    /\ UNCHANGED <<store, slots, request, entry, loops>>

(* The Provider returned a result, or it, a refused on_step or on_delta or a
   bad result raised.                                                        *)
ProviderEnds(r) ==
    /\ LoopIdle /\ task[r] = "call"
    /\ \E how \in {"answered", "fail"} : Task(r, how)
    /\ Resume(r)
    /\ UNCHANGED <<store, slots, request, entry, loops>>

TimedOut(r) == entry[r].timedOut \/ r \in due      \* timed_out()

CheckAnswer(r) ==
    /\ IF TimedOut(r) THEN OnLoop(r, "answered") /\ TimeOut(r, "flag")
       ELSE Stay(r, "answered", "complete")
    /\ UNCHANGED <<store, slots, request, entry, loops>>

CommitAnswer(r) ==                   \* commit_stream_completed
    /\ \/ /\ Writable(r) /\ Life!End(r, "completed")
          /\ Stay(r, "complete", "finally")
       \/ /\ IF Writable(r) THEN Life!End(r, "failed") ELSE UNCHANGED state
          /\ Stay(r, "complete", "fail")
    /\ UNCHANGED <<expired, due, key, keys, orphan, slots, request, entry, loops>>

Fail(r) ==                           \* fail(kind)
    /\ IF TimedOut(r) THEN OnLoop(r, "fail") /\ TimeOut(r, "flag")
       ELSE Stay(r, "fail", "failCommit")
    /\ UNCHANGED <<store, slots, request, entry, loops>>
CommitFailed(r) ==
    /\ Stay(r, "failCommit", "finally")
    /\ IF Writable(r) THEN Life!End(r, "failed") ELSE UNCHANGED state
    /\ UNCHANGED <<expired, due, key, keys, orphan, slots, request, entry, loops>>

PopEntry(r) ==                       \* the finally: the table, the timers, ...
    /\ Stay(r, "finally", "release")
    /\ entry' = [entry EXCEPT ![r].registered = FALSE]
    /\ timer' = timer \ {r}
    /\ UNCHANGED <<store, slots, request, stop>>
EndTask(r) ==                        \* ... and the lease
    /\ OnLoop(r, "release")
    /\ Task(r, "done") /\ thread' = [thread EXCEPT ![Loop] = Idle]
    /\ Slots!End(r)
    /\ UNCHANGED <<store, request, entry, loops>>

TaskStep(r) ==
    \/ FirstStep(r) \/ MarkRunning(r) \/ MarkRunningRaises(r) \/ StartRun(r) \/ Prepare(r)
    \/ CheckDeadline(r) \/ CallProvider(r) \/ CheckAnswer(r) \/ CommitAnswer(r)
    \/ Fail(r) \/ CommitFailed(r) \/ PopEntry(r) \/ EndTask(r)

-----------------------------------------------------------------------------
(* The other callbacks of the loop.  An alarm that asyncio runs early re-arms
   itself, so it acts once the Deadline has passed.                          *)
Alarm(r) ==                          \* _deadline_commit
    /\ LoopIdle /\ r \in timer /\ r \in due
    /\ timer' = timer \ {r}
    /\ thread' = [thread EXCEPT ![Loop] =
           [at |-> "due", run |-> r, was |-> None, goal |-> "alarm"]]
    /\ UNCHANGED <<store, slots, request, entry, task, stop>>

(* stop(): call_later(grace) and provider.abort.  Scheduled after the task,
   so it does not run before the task's first step.                          *)
Stop(r) ==
    /\ LoopIdle /\ stop[r] = "queued" /\ task[r] # "ready"
    /\ stop' = [stop EXCEPT ![r] = "grace"]
    /\ UNCHANGED <<store, slots, request, entry, task, timer, thread>>

CloseGraceFault_NoCancel(r) ==       \* the stuck task is left to itself
    /\ LoopIdle /\ stop[r] = "grace"
    /\ stop' = [stop EXCEPT ![r] = "over"]
    /\ UNCHANGED <<store, slots, request, entry, task, timer, thread>>
CloseGrace(r) ==                     \* _cancel_stuck_generation
    /\ LoopIdle /\ stop[r] = "grace"
    /\ stop' = [stop EXCEPT ![r] = "over"]
    /\ IF entry[r].registered THEN Task(r, "fail") /\ Resume(r)
       ELSE UNCHANGED <<task, thread>>
    /\ UNCHANGED <<store, slots, request, entry, timer>>

-----------------------------------------------------------------------------
(* The clocks, and the Purge, by the Sweeper or any access.                  *)
DeadlinePasses(r) ==
    /\ r \notin due
    /\ request[r] \in {"accept", "start"} \/ Live(r) \/ task[r] \notin {"none", "done"}
    /\ due' = due \cup {r}
    /\ UNCHANGED <<state, expired, key, keys, orphan, slots, request, entry, task, loops, thread>>

AbsoluteExpiry ==
    /\ ~expired /\ expired' = TRUE
    /\ UNCHANGED <<state, due, key, keys, orphan, slots, request, entry, task, loops, thread>>

Purge ==                             \* expire: fence and empty, ...
    /\ expired /\ \A r \in Runs : state[r] # "gone"
    /\ orphan' = IF \E r \in Runs : Live(r) THEN CHOOSE r \in Runs : Live(r) ELSE None
    /\ Life!Purge
    /\ UNCHANGED <<expired, due, key, keys, slots, request, entry, task, loops, thread>>

StopOrphan ==                        \* ... then, outside the lock, _cancel_run
    /\ orphan # None
    /\ RequestCancel(orphan, FALSE)
    /\ orphan' = None
    /\ UNCHANGED <<state, expired, due, key, keys, slots, request, task, timer, thread>>

Next ==
    \/ \E r \in Runs :
          \/ Submit(r) \/ RequestStep(r) \/ TaskStep(r) \/ ProviderEnds(r)
          \/ Alarm(r) \/ Stop(r) \/ CloseGrace(r) \/ DeadlinePasses(r)
          \/ \E t \in Clients : BeginPoll(t, r) \/ BeginCancel(t, r)
    \/ \E t \in Threads : ThreadStep(t)
    \/ AbsoluteExpiry \/ Purge \/ StopOrphan

(* What the threads, the loop, the clock and the Sweeper do by themselves; no
   client need come back and the Provider need never answer.                 *)
Fairness ==
    /\ \A r \in Runs :
          /\ WF_vars(RequestStep(r)) /\ WF_vars(TaskStep(r)) /\ WF_vars(Alarm(r))
          /\ WF_vars(Stop(r)) /\ WF_vars(CloseGrace(r)) /\ WF_vars(DeadlinePasses(r))
    /\ \A t \in Threads : WF_vars(ThreadStep(t))
    /\ WF_vars(Purge) /\ WF_vars(StopOrphan)

Spec == Init /\ [][Next]_vars
FairSpec == Spec /\ Fairness

-----------------------------------------------------------------------------
(* Every variable keeps its type: where each thread, task and stop may stand. *)
TypeOK ==
    /\ state \in [Runs -> {"absent", "queued", "running", "completed", "failed",
                           "timeout", "cancelled", "gone"}]
    /\ expired \in BOOLEAN /\ due \subseteq Runs /\ orphan \in Runs \cup {None}
    /\ waiting \subseteq Runs /\ slotted \subseteq Runs /\ keys \subseteq Keys
    /\ key \in [Runs -> Keys]
    /\ request \in [Runs -> {"idle", "await", "replay", "reserve", "accept", "release",
                             "start", "undo", "refused", "done"}]
    /\ entry \in [Runs -> [registered : BOOLEAN, cancelled : BOOLEAN,
                           timedOut : BOOLEAN, abort : BOOLEAN]]
    /\ task \in [Runs -> {"none", "ready", "mark", "slot", "prepare", "deadline", "truncate",
                          "call", "answered", "complete", "fail", "failCommit", "finally",
                          "release", "done"}]
    /\ timer \subseteq Runs
    /\ stop \in [Runs -> {"none", "queued", "grace", "over"}]
    /\ thread \in [Threads ->
          [at : {"idle", "due", "flag", "commit", "won", "lost", "cancel", "cancelled",
                 "reply", "task"},
           run : Runs \cup {None}, was : BOOLEAN \cup {None},
           goal : {"none", "poll", "cancel", "task", "alarm"}]]

(* AD-6 and cancel_run's "The order is the contract": whoever asks the Provider
   to stop, the Run's terminal is already committed, or its Conversation gone. *)
AbortOnlyAfterFence ==
    \A r \in Runs : entry[r].abort => state[r] \in {"timeout", "cancelled", "gone"}

(* A lease is held exactly as long as somebody will give it back, the request
   until its generation is registered and the task after that, and every call
   in flight at the Provider holds a started one.                            *)
SlotHeldWhileOwned ==
    \A r \in Runs :
        /\ r \in waiting \cup slotted <=>
              \/ request[r] \in {"accept", "release", "start"}
              \/ task[r] \notin {"none", "done"}
        /\ task[r] = "call" => r \in slotted
        /\ waiting \cap slotted = {}

(* A Cancel's answer, and a poll's that found the Run due, show an ended Run:
   `already_terminal` or `running` beside it would leave the client waiting.  *)
ReplyIsSettled ==
    \A t \in Clients : At(t, "reply") => expired \/ ~Live(thread[t].run)

(* One command, one Run: two POSTs with one key may both pass the replay check
   and both reserve, but only one of them creates a Run.                     *)
OneRunPerKey ==
    \A r, s \in Runs : r # s /\ key[r] = key[s] /\ state[r] # "gone" =>
        "absent" \in {state[r], state[s]}

(* The Deadline holds with no client attached: every accepted Run ends, or
   goes with its Conversation, whatever the Provider does.                   *)
EveryRunEnds == \A r \in Runs : Live(r) ~> ~Live(r)

(* Every reserved slot comes back, even from an agent that ignores its abort. *)
EverySlotComesBack ==
    \A r \in Runs : r \in waiting \cup slotted ~> r \notin waiting \cup slotted

(* _await_previous_generation: "A Deadline expiry is deliberately not waited
   on", and a Cancel's drain is: once no `_commit_timeout` is under way, the
   flag tells the two apart.                                                 *)
FlagTellsTimeoutFromCancel ==
    \A r \in Runs :
        entry[r].registered /\ entry[r].cancelled
        /\ (\A t \in Threads : thread[t].run = r => thread[t].at \notin {"commit", "lost", "won"})
            => (entry[r].timedOut <=> state[r] = "timeout") \/ state[r] = "gone"

=============================================================================
