-------------------------- MODULE Generation_proofs --------------------------
(***************************************************************************)
(* Generation for every set of Runs, keys and request threads and every    *)
(* ceiling: nobody is told to stop before the end is committed, no lease   *)
(* is lost or freed under its owner, one key makes one Run, and no answer  *)
(* shows a live Run where an ended one was promised.                       *)
(***************************************************************************)
EXTENDS Generation, TLAPS

Request == {"idle", "await", "replay", "reserve", "accept", "release",
            "start", "undo", "refused", "done"}
Ended == {"completed", "failed", "timeout", "cancelled", "gone"}
Fenced == {"timeout", "cancelled", "gone"}
Places == {"idle", "due", "flag", "commit", "won", "lost", "cancel", "cancelled",
           "reply", "task"}
Position == [at : Places, run : Runs \cup {None}, was : BOOLEAN \cup {None},
             goal : {"none", "poll", "cancel", "task", "alarm"}]
Flags == [registered : BOOLEAN, cancelled : BOOLEAN, timedOut : BOOLEAN, abort : BOOLEAN]
TaskPlaces == {"none", "ready", "mark", "slot", "prepare", "deadline", "truncate",
               "call", "answered", "complete", "fail", "failCommit", "finally",
               "release", "done"}

(* The store: one receipt per accepted Run, and a Purge takes every Run.      *)
ReceiptInv ==
    /\ \A r \in Runs : state[r] \notin {"absent", "gone"} => key[r] \in keys
    /\ \A r, s \in Runs : state[r] = "gone" => state[s] = "gone"
    /\ orphan # None => state[orphan] = "gone"

(* One request, then one task: the task begins where the request ends, both
   about a Run that exists, and the table lists it until the task's finally.  *)
OwnerInv ==
    \A r \in Runs :
        /\ task[r] # "none" => request[r] = "done"
        /\ entry[r].registered => task[r] \notin {"none", "release", "done"}
        /\ request[r] \in {"start", "undo"} \/ task[r] # "none" \/ r \in timer
              => state[r] # "absent"

(* Which half of the ledger a lease is in while somebody can still use it.      *)
LeaseInv ==
    /\ SlotHeldWhileOwned
    /\ \A r \in Runs :
          /\ request[r] \in {"accept", "release", "start"} \/ task[r] \in {"ready", "mark", "slot"}
                => r \in waiting
          /\ task[r] \in {"prepare", "deadline", "truncate", "call"} => r \in slotted

(* What a thread or a callback may rely on from where it stands: who won a
   commit found the Run ended so, who lost one found it ended or expired.     *)
Reached(where, st, ex) ==
    /\ st # "absent"
    /\ where = "won" => st \in {"timeout", "gone"}
    /\ where = "cancelled" => st \in {"cancelled", "gone"}
    /\ where \in {"lost", "reply"} => ex \/ st \notin {"queued", "running"}
Standing(p, runs, ex) ==
    p.at # "idle" => p.run \in Runs /\ p.goal # "none" /\ Reached(p.at, runs[p.run], ex)
ThreadInv == \A t \in Threads : Standing(thread[t], state, expired)

IInv == TypeOK /\ ReceiptInv /\ OwnerInv /\ LeaseInv /\ ThreadInv
        /\ AbortOnlyAfterFence /\ OneRunPerKey

-----------------------------------------------------------------------------
LEMMA GenerationInit == Init => IInv
<1> SUFFICES ASSUME Init PROVE IInv
  OBVIOUS
<1>1. TypeOK
  BY GenerationAssumption DEF Init, TypeOK, NoEntry, Idle, Threads
<1>2. ReceiptInv /\ OwnerInv /\ AbortOnlyAfterFence /\ OneRunPerKey
  BY DEF Init, NoEntry, ReceiptInv, OwnerInv, AbortOnlyAfterFence, OneRunPerKey
<1>3. LeaseInv /\ ThreadInv
  BY DEF Init, Idle, LeaseInv, SlotHeldWhileOwned, ThreadInv, Standing
<1> QED  BY <1>1, <1>2, <1>3 DEF IInv

-----------------------------------------------------------------------------
(* What a step does to the store: one Run is accepted, one live Run moves on,
   all are Purged, or no Run moves.                                          *)
Accepted(r) ==
    /\ state[r] = "absent" /\ key[r] \notin keys /\ request[r] = "accept"
    /\ state' = [state EXCEPT ![r] = "queued"] /\ keys' = keys \cup {key[r]}
    /\ UNCHANGED <<expired, key, orphan>>

Written(r) ==
    /\ Live(r)
    /\ \E s \in {"running", "completed", "failed", "timeout", "cancelled"} :
          state' = [state EXCEPT ![r] = s]
    /\ UNCHANGED <<expired, key, keys, orphan>>

Purged ==
    /\ expired /\ state' = [r \in Runs |-> "gone"]
    /\ orphan' \in Runs \cup {None}
    /\ UNCHANGED <<expired, key, keys>>

Still ==
    /\ expired' \in BOOLEAN
    /\ expired => expired'
    /\ orphan' \in {orphan, None}
    /\ UNCHANGED <<state, key, keys>>

StoreMoves == Still \/ Purged \/ \E r \in Runs : Accepted(r) \/ Written(r)

LEMMA StoreShape ==
    ASSUME IInv, Next
    PROVE  StoreMoves
<1> USE DEF IInv, TypeOK
<1>1. ASSUME NEW r \in Runs,
             \/ Submit(r) \/ AwaitPrevious(r) \/ Replay(r) \/ Reserve(r) \/ AcceptRefused(r)
             \/ Release(r) \/ StartGeneration(r) \/ StartFails(r)
             \/ FirstStep(r) \/ MarkRunningRaises(r) \/ StartRun(r) \/ Prepare(r)
             \/ CheckDeadline(r) \/ CallProvider(r) \/ CheckAnswer(r) \/ Fail(r)
             \/ PopEntry(r) \/ EndTask(r) \/ ProviderEnds(r)
             \/ Alarm(r) \/ Stop(r) \/ CloseGrace(r) \/ DeadlinePasses(r)
             \/ \E t \in Clients : BeginPoll(t, r) \/ BeginCancel(t, r)
      PROVE  Still
  BY <1>1 DEF Submit, AwaitPrevious, Replay, Reserve, AcceptRefused, Release, StartGeneration,
              StartFails, FirstStep, MarkRunningRaises, StartRun, Prepare, CheckDeadline,
              CallProvider, CheckAnswer, Fail, PopEntry, EndTask, ProviderEnds, Alarm, Stop,
              CloseGrace, DeadlinePasses, BeginPoll, BeginCancel, store, Still
<1>2. ASSUME NEW t \in Threads,
             CheckDue(t) \/ RaiseFlag(t) \/ StopTimedOut(t) \/ RestoreFlag(t)
             \/ StopCancelled(t) \/ Reply(t)
      PROVE  Still
  BY <1>2 DEF CheckDue, RaiseFlag, StopTimedOut, RestoreFlag, StopCancelled, Reply, store, Still
<1>3. CASE AbsoluteExpiry \/ StopOrphan
  BY <1>3 DEF AbsoluteExpiry, StopOrphan, Still, StoreMoves
<1>4. CASE Purge
  <2>1. orphan' \in Runs \cup {None}
    BY <1>4 DEF Purge
  <2> QED  BY <1>4, <2>1 DEF Purge, Life!Purge, Purged, StoreMoves
<1>5. ASSUME NEW r \in Runs, Accept(r)
      PROVE  Accepted(r)
  BY <1>5 DEF Accept, Asking, Life!Accept, Accepted
<1>6. ASSUME NEW r \in Runs,
             \/ UndoStart(r) \/ MarkRunning(r) \/ CommitAnswer(r) \/ CommitFailed(r)
      PROVE  Still \/ Written(r)
  BY <1>6 DEF UndoStart, MarkRunning, CommitAnswer, CommitFailed, Life!Start, Life!End, Writable,
              Live, Life!Live, Still, Written
<1>7. ASSUME NEW t \in Threads, CommitTimeout(t) \/ CommitCancelled(t)
      PROVE  Still \/ (Written(thread[t].run) /\ thread[t].run \in Runs)
  <2>1. thread[t].run \in Runs
    BY <1>7 DEF CommitTimeout, CommitCancelled, At, ThreadInv, Standing
  <2> QED  BY <1>7, <2>1 DEF CommitTimeout, CommitCancelled, Life!End, Writable,
                             Live, Life!Live, Still, Written
<1> QED
  BY <1>1, <1>2, <1>3, <1>4, <1>5, <1>6, <1>7
     DEF Next, RequestStep, TaskStep, ThreadStep, StoreMoves

(* Once a Run exists it stays, an ended one changes only by the Purge, and the
   Absolute Expiry is not taken back.                                        *)
StateAdvances ==
    /\ expired => expired'
    /\ \A r \in Runs :
          /\ state[r] # "absent" => state'[r] # "absent"
          /\ state[r] # "absent" /\ ~Live(r) => state'[r] \in {state[r], "gone"}
          /\ state'[r] \notin {"absent", "gone"} => key[r] \in keys'

LEMMA StoreStep ==
    ASSUME IInv, StoreMoves
    PROVE  /\ ReceiptInv' /\ OneRunPerKey' /\ StateAdvances
           /\ state' \in [Runs -> {"absent", "queued", "running"} \cup Ended]
           /\ expired' \in BOOLEAN /\ orphan' \in Runs \cup {None}
           /\ keys' \subseteq Keys /\ key' = key
<1> USE DEF IInv, TypeOK, ReceiptInv, OneRunPerKey, StateAdvances, Live, Life!Live, Ended
<1>1. CASE Still
  BY <1>1 DEF Still
<1>2. CASE Purged
  BY <1>2 DEF Purged
<1>3. ASSUME NEW r \in Runs, Accepted(r)
      PROVE  /\ ReceiptInv' /\ OneRunPerKey' /\ StateAdvances
             /\ state' \in [Runs -> {"absent", "queued", "running"} \cup Ended]
             /\ keys' \subseteq Keys /\ UNCHANGED <<expired, key, orphan>>
  BY <1>3 DEF Accepted
<1>4. ASSUME NEW r \in Runs, Written(r)
      PROVE  /\ ReceiptInv' /\ OneRunPerKey' /\ StateAdvances
             /\ state' \in [Runs -> {"absent", "queued", "running"} \cup Ended]
             /\ UNCHANGED <<expired, key, keys, orphan>>
  <2>1. /\ state[r] \in {"queued", "running"} /\ key[r] \in keys
        /\ \A s \in Runs : state[s] # "gone"
    BY <1>4 DEF Written
  <2>2. /\ state'[r] \notin {"absent", "gone"}
        /\ \A s \in Runs : s # r => state'[s] = state[s]
        /\ state' \in [Runs -> {"absent", "queued", "running"} \cup Ended]
    BY <1>4 DEF Written
  <2>3. UNCHANGED <<expired, key, keys, orphan>>
    BY <1>4 DEF Written
  <2>4. ReceiptInv'
    <3>1. orphan = None
      BY <2>1
    <3> QED  BY <2>1, <2>2, <2>3, <3>1
  <2>6. OneRunPerKey'
    BY <2>1, <2>2, <2>3
  <2>5. StateAdvances
    BY <2>1, <2>2, <2>3
  <2> QED  BY <2>2, <2>3, <2>4, <2>5, <2>6
<1> QED  BY <1>1, <1>2, <1>3, <1>4 DEF StoreMoves

-----------------------------------------------------------------------------
(* The threads.  Where one stands stays true while the store moves on, ...    *)
LEMMA StandingLasts ==
    ASSUME StateAdvances, NEW p, Standing(p, state, expired)
    PROVE  Standing(p, state', expired')
BY DEF Standing, Reached, StateAdvances, Live, Life!Live

LEMMA NoThreadMoves ==
    ASSUME IInv, StateAdvances, UNCHANGED thread
    PROVE  ThreadInv' /\ thread' \in [Threads -> Position]
<1>1. thread' \in [Threads -> Position]
  BY DEF IInv, TypeOK, Position, Places
<1>2. \A u \in Threads : Standing(thread[u], state', expired')
  BY StandingLasts DEF IInv, ThreadInv
<1> QED  BY <1>1, <1>2 DEF ThreadInv

(* ... so only the thread that moves needs a new footing.                     *)
LEMMA OneThreadMoves ==
    ASSUME IInv, StateAdvances, NEW t \in Threads, NEW p \in Position,
           Standing(p, state', expired'), thread' = [thread EXCEPT ![t] = p]
    PROVE  ThreadInv' /\ thread' \in [Threads -> Position]
<1>1. thread \in [Threads -> Position]
  BY DEF IInv, TypeOK, Position, Places
<1>2. ASSUME NEW u \in Threads
      PROVE  Standing(thread'[u], state', expired')
  <2>1. CASE u = t
    BY <1>1, <2>1
  <2>2. CASE u # t
    <3>1. thread'[u] = thread[u]
      BY <1>1, <2>2
    <3>2. Standing(thread[u], state, expired)
      BY DEF IInv, ThreadInv
    <3> QED  BY <3>1, <3>2, StandingLasts
  <2> QED  BY <2>1, <2>2
<1> QED  BY <1>1, <1>2 DEF ThreadInv

(* A thread under way stands on a Run that exists.                            *)
LEMMA UnderWay ==
    ASSUME IInv, NEW t \in Threads, thread[t].at # "idle"
    PROVE  /\ thread[t] \in Position /\ thread[t].run \in Runs /\ thread[t].goal # "none"
           /\ Reached(thread[t].at, state[thread[t].run], expired)
BY DEF IInv, TypeOK, ThreadInv, Standing, Position, Places

LEMMA GotoStands ==
    ASSUME IInv, StateAdvances, NEW t \in Threads, thread[t].at # "idle",
           NEW where \in Places, Goto(t, where),
           Reached(where, state'[thread[t].run], expired')
    PROVE  ThreadInv' /\ thread' \in [Threads -> Position]
<1> DEFINE p == [thread[t] EXCEPT !.at = where]
<1>1. p \in Position
  BY UnderWay DEF Position
<1>2. Standing(p, state', expired')
  BY UnderWay DEF Position, Standing
<1>3. thread' = [thread EXCEPT ![t] = p]
  BY DEF Goto
<1> QED  BY <1>1, <1>2, <1>3, OneThreadMoves

LEMMA ReturnStands ==
    ASSUME IInv, StateAdvances, NEW t \in Threads, thread[t].at # "idle", Return(t),
           thread[t].goal = "poll" => Reached("reply", state'[thread[t].run], expired')
    PROVE  ThreadInv' /\ thread' \in [Threads -> Position]
<1>1. /\ thread[t] \in Position /\ thread[t].run \in Runs
      /\ thread[t].goal \in {"poll", "cancel", "task", "alarm"}
      /\ state'[thread[t].run] # "absent"
  BY UnderWay DEF Position, StateAdvances, Reached
<1> DEFINE After(where) == [[thread[t] EXCEPT !.at = where] EXCEPT !.was = None]
<1>2. ASSUME NEW where \in {"reply", "cancel", "task"},
             where = "reply" => thread[t].goal = "poll",
             thread' = [thread EXCEPT ![t] = After(where)]
      PROVE  ThreadInv' /\ thread' \in [Threads -> Position]
  <2>1. After(where) \in Position
    BY <1>1 DEF Position, Places
  <2>2. Standing(After(where), state', expired')
    BY <1>1, <1>2 DEF Standing, Reached, Position
  <2> QED  BY <1>2, <2>1, <2>2, OneThreadMoves
<1>3. CASE thread[t].goal = "poll"
  <2>1. thread' = [thread EXCEPT ![t] = After("reply")]
    BY <1>3 DEF Return
  <2> QED  BY <1>2, <1>3, <2>1
<1>4. CASE thread[t].goal = "cancel"
  <2>1. thread' = [thread EXCEPT ![t] = After("cancel")]
    BY <1>4 DEF Return
  <2> QED  BY <1>2, <2>1
<1>5. CASE thread[t].goal = "task"
  <2>1. thread' = [thread EXCEPT ![t] = After("task")]
    BY <1>5 DEF Return
  <2> QED  BY <1>2, <2>1
<1>6. CASE thread[t].goal = "alarm"
  <2>1. thread' = [thread EXCEPT ![t] = Idle]
    BY <1>6 DEF Return
  <2>2. Idle \in Position /\ Standing(Idle, state', expired')
    BY DEF Idle, Position, Places, Standing
  <2> QED  BY <2>1, <2>2, OneThreadMoves
<1> QED  BY <1>1, <1>3, <1>4, <1>5, <1>6

LEMMA ThreadsStand ==
    ASSUME IInv, StateAdvances, Next
    PROVE  ThreadInv' /\ thread' \in [Threads -> Position]
<1> DEFINE Goal == ThreadInv' /\ thread' \in [Threads -> Position]
<1>1. ASSUME UNCHANGED thread
      PROVE  Goal
  BY <1>1, NoThreadMoves
<1>2. ASSUME NEW p \in Position, Standing(p, state', expired'), NEW t \in Threads,
             thread' = [thread EXCEPT ![t] = p]
      PROVE  Goal
  BY <1>2, OneThreadMoves
<1>3. Loop \in Threads /\ Idle \in Position /\ Standing(Idle, state', expired')
  BY DEF Threads, Idle, Position, Places, Standing
<1>4. ASSUME NEW r \in Runs,
             \/ Submit(r) \/ RequestStep(r) \/ MarkRunningRaises(r) \/ StartRun(r) \/ Prepare(r)
             \/ CommitAnswer(r) \/ CommitFailed(r) \/ PopEntry(r)
             \/ Stop(r) \/ DeadlinePasses(r)
      PROVE  Goal
  BY <1>1, <1>4 DEF Submit, RequestStep, AwaitPrevious, Replay, Reserve, Accept, AcceptRefused,
         Release, StartGeneration, StartFails, UndoStart, MarkRunningRaises, StartRun, Prepare,
         CommitAnswer, CommitFailed, PopEntry, Stop, DeadlinePasses, Stay
<1>5. CASE AbsoluteExpiry \/ Purge \/ StopOrphan
  BY <1>1, <1>5 DEF AbsoluteExpiry, Purge, StopOrphan
<1>6. ASSUME NEW r \in Runs, NEW t \in Clients, BeginPoll(t, r) \/ BeginCancel(t, r)
      PROVE  Goal
  <2>1. t \in Threads /\ state'[r] # "absent"
    BY <1>6 DEF Threads, BeginPoll, BeginCancel, Writable, Live, Life!Live, StateAdvances
  <2>2. PICK g \in {"poll", "cancel"} :
            thread' = [thread EXCEPT ![t] = [at |-> "due", run |-> r, was |-> None, goal |-> g]]
    BY <1>6 DEF BeginPoll, BeginCancel
  <2>3. /\ [at |-> "due", run |-> r, was |-> None, goal |-> g] \in Position
        /\ Standing([at |-> "due", run |-> r, was |-> None, goal |-> g], state', expired')
    BY <2>1 DEF Position, Places, Standing, Reached
  <2> QED  BY <1>2, <2>1, <2>2, <2>3
<1>7. ASSUME NEW r \in Runs, task[r] # "none" \/ r \in timer,
             NEW g \in {"task", "alarm"}, NEW at \in {"task", "due"},
             thread' = [thread EXCEPT ![Loop] = [at |-> at, run |-> r, was |-> None, goal |-> g]]
      PROVE  Goal
  <2>1. state'[r] # "absent"
    BY <1>7 DEF IInv, OwnerInv, StateAdvances
  <2>2. /\ [at |-> at, run |-> r, was |-> None, goal |-> g] \in Position
        /\ Standing([at |-> at, run |-> r, was |-> None, goal |-> g], state', expired')
    BY <2>1 DEF Position, Places, Standing, Reached
  <2> QED  BY <1>2, <1>3, <1>7, <2>2
<1>8. ASSUME NEW r \in Runs,
             FirstStep(r) \/ ProviderEnds(r) \/ CloseGrace(r) \/ Alarm(r)
      PROVE  Goal
  <2>1. entry[r].registered => task[r] # "none"
    BY DEF IInv, OwnerInv
  <2> QED  BY <1>1, <1>7, <1>8, <2>1 DEF FirstStep, ProviderEnds, CloseGrace, Alarm, Resume
<1>9. ASSUME NEW r \in Runs,
             \/ MarkRunning(r) \/ CheckDeadline(r) \/ CallProvider(r) \/ CheckAnswer(r)
             \/ Fail(r) \/ EndTask(r)
      PROVE  Goal
  <2>1. thread[Loop].at # "idle"
    BY <1>9 DEF MarkRunning, CheckDeadline, CallProvider, CheckAnswer, Fail, EndTask,
                OnLoop, Stay, At
  <2>2. \A where \in {"due", "flag"} : Goto(Loop, where) => Goal
    <3> SUFFICES ASSUME NEW where \in {"due", "flag"}, Goto(Loop, where) PROVE Goal
      OBVIOUS
    <3>1. where \in Places /\ Reached(where, state'[thread[Loop].run], expired')
      BY <1>3, <2>1, UnderWay DEF Places, Reached, StateAdvances
    <3> QED  BY <1>3, <2>1, <3>1, GotoStands
  <2>3. \/ UNCHANGED thread
        \/ thread' = [thread EXCEPT ![Loop] = Idle]
        \/ \E where \in {"due", "flag"} : Goto(Loop, where)
    BY <1>9 DEF MarkRunning, CheckDeadline, CallProvider, CheckAnswer, Fail, EndTask,
                Stay, TimeOut
  <2> QED  BY <1>1, <1>2, <1>3, <2>2, <2>3
<1>10. ASSUME NEW t \in Threads, ThreadStep(t)
       PROVE  Goal
  <2>1. /\ thread[t].at # "idle" /\ thread[t].run \in Runs
        /\ Reached(thread[t].at, state[thread[t].run], expired)
        /\ Reached(thread[t].at, state'[thread[t].run], expired')
    <3>1. thread[t].at # "idle"
      BY <1>10 DEF ThreadStep, CheckDue, RaiseFlag, CommitTimeout, StopTimedOut, RestoreFlag,
                   CommitCancelled, StopCancelled, Reply, At
    <3> QED  BY <3>1, UnderWay DEF Reached, StateAdvances, Live, Life!Live
  <2>2. thread' = [thread EXCEPT ![t] = Idle] => Goal
    BY <1>2, <1>3
  <2>3. \A where \in Places :
            Goto(t, where) /\ Reached(where, state'[thread[t].run], expired') => Goal
    BY <2>1, GotoStands
  <2>4. Return(t) /\ (thread[t].goal = "poll" => Reached("reply", state'[thread[t].run], expired'))
            => Goal
    BY <2>1, ReturnStands
  <2>5. CASE CheckDue(t)
    <3>1. CASE Goto(t, "flag")
      BY <2>1, <2>3, <3>1 DEF Places, Reached
    <3>2. CASE IF thread[t].goal = "poll" THEN thread' = [thread EXCEPT ![t] = Idle] ELSE Return(t)
      BY <2>2, <2>4, <3>2
    <3> QED  BY <2>5, <3>1, <3>2 DEF CheckDue
  <2>6. CASE RaiseFlag(t)
    <3> DEFINE was == IF entry[thread[t].run].registered THEN entry[thread[t].run].timedOut
                      ELSE None
               p   == [[thread[t] EXCEPT !.at = "commit"] EXCEPT !.was = was]
    <3>1. thread' = [thread EXCEPT ![t] = p]
      BY <2>6 DEF RaiseFlag
    <3>2. was \in BOOLEAN \cup {None}
      BY <2>1 DEF IInv, TypeOK
    <3>3. p \in Position
      BY <2>1, <3>2, UnderWay DEF Position, Places
    <3>4. Standing(p, state', expired')
      BY <2>1, UnderWay DEF Standing, Reached, Position
    <3> QED  BY <1>2, <3>1, <3>3, <3>4
  <2>7. CASE CommitTimeout(t)
    <3>1. CASE Life!End(thread[t].run, "timeout") /\ Goto(t, "won")
      BY <2>1, <2>3, <3>1 DEF Life!End, IInv, TypeOK, Places, Reached
    <3>2. CASE ~Writable(thread[t].run) /\ UNCHANGED <<state, expired>> /\ Goto(t, "lost")
      BY <2>1, <2>3, <3>2 DEF Writable, Live, Life!Live, Places, Reached
    <3> QED  BY <2>7, <3>1, <3>2 DEF CommitTimeout
  <2>8. CASE StopTimedOut(t)
    <3>1. Reached("reply", state'[thread[t].run], expired')
      BY <2>1, <2>8 DEF StopTimedOut, At, Reached
    <3> QED  BY <2>4, <2>8, <3>1 DEF StopTimedOut
  <2>9. CASE RestoreFlag(t)
    <3>1. Reached("reply", state'[thread[t].run], expired')
      BY <2>1, <2>9 DEF RestoreFlag, At, Reached
    <3> QED  BY <2>4, <2>9, <3>1 DEF RestoreFlag
  <2>10. CASE CommitCancelled(t)
    <3>1. CASE Life!End(thread[t].run, "cancelled") /\ Goto(t, "cancelled")
      BY <2>1, <2>3, <3>1 DEF Life!End, IInv, TypeOK, Places, Reached
    <3>2. CASE ~Live(thread[t].run) /\ UNCHANGED state /\ Goto(t, "reply")
      BY <2>1, <2>3, <3>2 DEF Live, Life!Live, Places, Reached
    <3> QED  BY <2>2, <2>10, <3>1, <3>2 DEF CommitCancelled
  <2>11. CASE StopCancelled(t)
    <3>1. Reached("reply", state'[thread[t].run], expired')
      BY <2>1, <2>11 DEF StopCancelled, At, Reached
    <3> QED  BY <2>3, <2>11, <3>1 DEF StopCancelled, Places
  <2>12. CASE Reply(t)
    BY <2>2, <2>12 DEF Reply
  <2> QED
    BY <1>10, <2>5, <2>6, <2>7, <2>8, <2>9, <2>10, <2>11, <2>12 DEF ThreadStep
<1> QED
  BY <1>4, <1>5, <1>6, <1>8, <1>9, <1>10 DEF Next, TaskStep

-----------------------------------------------------------------------------
(* The table.  A step lists an entry, pops one, or writes flags; `abort` only
   on a Run whose end is committed.                                          *)
EntriesKept ==
    /\ entry' \in [Runs -> Flags]
    /\ \A r \in Runs :
          /\ entry'[r].registered = entry[r].registered
          /\ entry'[r].abort => entry[r].abort \/ state[r] \in Fenced

LEMMA RequestCancelKeeps ==
    ASSUME IInv, NEW r \in Runs, state[r] \in Fenced, NEW timed \in BOOLEAN,
           RequestCancel(r, timed)
    PROVE  EntriesKept /\ stop' \in [Runs -> {"none", "queued", "grace", "over"}]
<1>1. entry \in [Runs -> Flags]
  BY DEF IInv, TypeOK, Flags
<1>2. CASE entry[r].registered
  <2> DEFINE out == entry[r].timedOut \/ timed
             f   == [entry[r] EXCEPT !.cancelled = TRUE, !.timedOut = out, !.abort = TRUE]
  <2>1. out \in BOOLEAN
    OBVIOUS
  <2> HIDE DEF out
  <2>2. f \in Flags /\ f.registered = entry[r].registered
    BY <1>1, <2>1 DEF Flags
  <2>3. entry' = [entry EXCEPT ![r] = f]
    BY <1>1, <1>2 DEF RequestCancel, out
  <2>4. EntriesKept
    BY <1>1, <2>2, <2>3 DEF EntriesKept
  <2> QED  BY <2>4 DEF RequestCancel, IInv, TypeOK
<1>3. CASE ~entry[r].registered
  BY <1>1, <1>3 DEF RequestCancel, EntriesKept, IInv, TypeOK
<1> QED  BY <1>2, <1>3

LEMMA EntriesAfterThread ==
    ASSUME IInv, NEW t \in Threads, ThreadStep(t)
    PROVE  /\ EntriesKept /\ stop' \in [Runs -> {"none", "queued", "grace", "over"}]
           /\ UNCHANGED <<due, slots, request, task, timer>>
<1>1. /\ thread[t].run \in Runs
      /\ Reached(thread[t].at, state[thread[t].run], expired)
      /\ thread[t].was \in BOOLEAN \cup {None}
  <2>1. thread[t].at # "idle"
    BY DEF ThreadStep, CheckDue, RaiseFlag, CommitTimeout, StopTimedOut, RestoreFlag,
           CommitCancelled, StopCancelled, Reply, At
  <2> QED  BY <2>1, UnderWay DEF Position
<1>2. entry \in [Runs -> Flags] /\ stop \in [Runs -> {"none", "queued", "grace", "over"}]
  BY DEF IInv, TypeOK, Flags
<1>3. UNCHANGED <<due, slots, request, task, timer>>
  BY DEF ThreadStep, CheckDue, RaiseFlag, CommitTimeout, StopTimedOut, RestoreFlag,
         CommitCancelled, StopCancelled, Reply, store, loops, slots
<1>4. CASE CheckDue(t) \/ CommitTimeout(t) \/ CommitCancelled(t) \/ Reply(t)
  BY <1>2, <1>3, <1>4 DEF CheckDue, CommitTimeout, CommitCancelled, Reply, loops, EntriesKept
<1>5. CASE RaiseFlag(t)
  BY <1>1, <1>2, <1>3, <1>5 DEF RaiseFlag, loops, EntriesKept, Flags
<1>6. CASE RestoreFlag(t)
  BY <1>1, <1>2, <1>3, <1>6 DEF RestoreFlag, loops, EntriesKept, Flags
<1>7. CASE StopTimedOut(t)
  BY <1>1, <1>3, <1>7, RequestCancelKeeps DEF StopTimedOut, At, Reached, Fenced
<1>8. CASE StopCancelled(t)
  BY <1>1, <1>3, <1>8, RequestCancelKeeps DEF StopCancelled, At, Reached, Fenced
<1> QED  BY <1>3, <1>4, <1>5, <1>6, <1>7, <1>8 DEF ThreadStep

LEMMA FenceLasts ==
    ASSUME StateAdvances, NEW r \in Runs, state[r] \in Fenced
    PROVE  state'[r] \in Fenced
BY DEF StateAdvances, Fenced, Live, Life!Live

(* Owners and leases when neither a request nor a task moves, and when one task
   moves within its life.                                                    *)
Owned == OwnerInv' /\ LeaseInv' /\ AbortOnlyAfterFence'

LEMMA NothingOwnedMoves ==
    ASSUME IInv, StateAdvances, EntriesKept, timer' \subseteq timer,
           UNCHANGED <<slots, request, task>>
    PROVE  Owned
<1>1. OwnerInv' /\ LeaseInv'
  BY DEF IInv, OwnerInv, LeaseInv, SlotHeldWhileOwned, EntriesKept, StateAdvances, slots
<1>2. AbortOnlyAfterFence'
  BY DEF IInv, AbortOnlyAfterFence, EntriesKept, StateAdvances, Live, Life!Live, Fenced
<1> QED  BY <1>1, <1>2 DEF Owned

LEMMA TaskMoves ==
    ASSUME IInv, StateAdvances, EntriesKept, NEW r \in Runs,
           NEW where \in TaskPlaces \ {"none", "release", "done"}, Task(r, where),
           task[r] \notin {"none", "done"},
           where \in {"ready", "mark", "slot"} => r \in waiting,
           where \in {"prepare", "deadline", "truncate", "call"} => r \in slotted,
           timer' \subseteq timer, UNCHANGED <<slots, request>>
    PROVE  Owned /\ task' \in [Runs -> TaskPlaces]
<1>1. task' \in [Runs -> TaskPlaces]
  BY DEF IInv, TypeOK, Task, TaskPlaces
<1>2. /\ task'[r] = where
      /\ \A s \in Runs : s # r => task'[s] = task[s]
  BY DEF IInv, TypeOK, Task
<1>3. OwnerInv'
  BY <1>2 DEF IInv, OwnerInv, EntriesKept, StateAdvances
<1>4. LeaseInv'
  BY <1>2 DEF IInv, LeaseInv, SlotHeldWhileOwned, slots
<1>5. AbortOnlyAfterFence'
  BY DEF IInv, AbortOnlyAfterFence, EntriesKept, StateAdvances, Live, Life!Live, Fenced
<1> QED  BY <1>1, <1>3, <1>4, <1>5 DEF Owned

(* A request that moves before its task exists takes, keeps or gives back the
   lease of its own Run only.                                                *)
LEMMA RequestMoves ==
    ASSUME IInv, StateAdvances, NEW r \in Runs, NEW from \in Request \ {"done"}, NEW to \in Request,
           Asking(r, from, to), UNCHANGED <<entry, task, timer>>,
           waiting' \cup slotted' \subseteq Runs, waiting' \cap slotted' = {},
           \A s \in Runs \ {r} : (s \in waiting' <=> s \in waiting) /\ (s \in slotted' <=> s \in slotted),
           r \notin slotted', r \in waiting' <=> to \in {"accept", "release", "start"},
           to \in {"start", "undo"} => state'[r] # "absent"
    PROVE  Owned /\ request' \in [Runs -> Request]
<1>1. /\ request' \in [Runs -> Request] /\ request[r] = from /\ request'[r] = to
      /\ \A s \in Runs : s # r => request'[s] = request[s]
  BY DEF IInv, TypeOK, Asking, Request
<1>2. task[r] = "none"
  BY <1>1 DEF IInv, OwnerInv
<1>3. OwnerInv'
  BY <1>1, <1>2 DEF IInv, OwnerInv, StateAdvances
<1>4. LeaseInv'
  BY <1>1, <1>2 DEF IInv, LeaseInv, SlotHeldWhileOwned
<1>5. AbortOnlyAfterFence'
  BY DEF IInv, AbortOnlyAfterFence, StateAdvances, Live, Life!Live
<1> QED  BY <1>1, <1>3, <1>4, <1>5 DEF Owned

OthersTyped ==
    /\ due' \subseteq Runs /\ waiting' \subseteq Runs /\ slotted' \subseteq Runs
    /\ request' \in [Runs -> Request] /\ entry' \in [Runs -> Flags]
    /\ task' \in [Runs -> TaskPlaces] /\ timer' \subseteq Runs
    /\ stop' \in [Runs -> {"none", "queued", "grace", "over"}]

LEMMA OwnersAfterRequest ==
    ASSUME IInv, StateAdvances, NEW r \in Runs, Submit(r) \/ RequestStep(r)
    PROVE  Owned /\ OthersTyped
<1>t. /\ due \subseteq Runs /\ waiting \subseteq Runs /\ slotted \subseteq Runs
      /\ request \in [Runs -> Request] /\ entry \in [Runs -> Flags]
      /\ task \in [Runs -> TaskPlaces] /\ timer \subseteq Runs
      /\ stop \in [Runs -> {"none", "queued", "grace", "over"}]
      /\ waiting \cap slotted = {}
  BY DEF IInv, TypeOK, LeaseInv, SlotHeldWhileOwned, Request, Flags, TaskPlaces
<1>l. request[r] # "done" =>
          r \notin slotted /\ (r \in waiting <=> request[r] \in {"accept", "release", "start"})
  BY DEF IInv, OwnerInv, LeaseInv, SlotHeldWhileOwned
<1>a. request[r] \in {"start", "undo"} => state'[r] # "absent"
  BY DEF IInv, OwnerInv, StateAdvances
<1>1. CASE StartGeneration(r)
  <2>1. /\ request[r] = "start" /\ request' = [request EXCEPT ![r] = "done"]
        /\ task' = [task EXCEPT ![r] = "ready"] /\ UNCHANGED <<due, waiting, slotted, timer, stop>>
        /\ entry' \in [Runs -> Flags]
        /\ \A s \in Runs : /\ entry'[s].abort = entry[s].abort
                           /\ s # r => entry'[s] = entry[s]
    BY <1>1, <1>t DEF StartGeneration, Asking, store, slots, loops, Flags
  <2>2. /\ request' \in [Runs -> Request] /\ task' \in [Runs -> TaskPlaces]
        /\ request'[r] = "done" /\ task'[r] = "ready"
        /\ \A s \in Runs : s # r => request'[s] = request[s] /\ task'[s] = task[s]
    BY <1>t, <2>1 DEF Request, TaskPlaces
  <2>3. r \in waiting
    BY <2>1 DEF IInv, LeaseInv
  <2>a. /\ \A s \in Runs : /\ entry'[s].abort = entry[s].abort
                           /\ s # r => entry'[s] = entry[s]
        /\ UNCHANGED <<waiting, slotted, timer>>
    BY <2>1
  <2>4. OwnerInv'
    <3>1. ASSUME NEW s \in Runs
          PROVE  /\ task'[s] # "none" => request'[s] = "done"
                 /\ entry'[s].registered => task'[s] \notin {"none", "release", "done"}
                 /\ request'[s] \in {"start", "undo"} \/ task'[s] # "none" \/ s \in timer'
                       => state'[s] # "absent"
      <4>1. CASE s = r
        BY <1>a, <2>1, <2>2, <4>1
      <4>2. CASE s # r
        BY <2>2, <2>a, <4>2 DEF IInv, OwnerInv, StateAdvances
      <4> QED  BY <4>1, <4>2
    <3> QED  BY <3>1 DEF OwnerInv
  <2>5. LeaseInv'
    BY <2>a, <2>2, <2>3 DEF IInv, LeaseInv, SlotHeldWhileOwned
  <2>6. AbortOnlyAfterFence'
    BY <2>a, FenceLasts DEF IInv, AbortOnlyAfterFence, Fenced
  <2> QED  BY <1>t, <2>1, <2>2, <2>4, <2>5, <2>6 DEF Owned, OthersTyped
<1>2. ASSUME NEW from \in Request \ {"done"}, NEW to \in Request, Asking(r, from, to),
             UNCHANGED <<due, waiting, slotted, entry, task, timer, stop>>,
             from \in {"accept", "release", "start"} <=> to \in {"accept", "release", "start"},
             to \in {"start", "undo"} => state'[r] # "absent"
      PROVE  Owned /\ OthersTyped
  <2>1. request[r] = from
    BY <1>2 DEF Asking
  <2>2. Owned /\ request' \in [Runs -> Request]
    BY <1>2, <1>l, <1>t, <2>1, RequestMoves
  <2> QED  BY <1>2, <1>t, <2>2 DEF OthersTyped
<1>3. CASE Submit(r)
  <2>1. UNCHANGED <<due, waiting, slotted, entry, task, timer, stop>>
    BY <1>3 DEF Submit, store, slots, loops
  <2> QED  BY <1>3, <1>2, <2>1 DEF Submit, Request
<1>4. CASE AwaitPrevious(r)
  <2>1. UNCHANGED <<due, waiting, slotted, entry, task, timer, stop>>
    BY <1>4 DEF AwaitPrevious, store, slots, loops
  <2> QED  BY <1>4, <1>2, <2>1 DEF AwaitPrevious, Request
<1>5. CASE Replay(r)
  <2>1. UNCHANGED <<due, waiting, slotted, entry, task, timer, stop>>
    BY <1>5 DEF Replay, store, slots, loops
  <2> QED  BY <1>5, <1>2, <2>1 DEF Replay, Request
<1>6. CASE Reserve(r)
  <2>1. UNCHANGED <<due, entry, task, timer, stop>>
    BY <1>6 DEF Reserve, store, loops
  <2>2. CASE Asking(r, "reserve", "accept") /\ Slots!Admit(r)
    <3>1. waiting' = waiting \cup {r} /\ slotted' = slotted /\ request[r] = "reserve"
      BY <2>2 DEF Slots!Admit, Asking
    <3>2. Owned /\ request' \in [Runs -> Request]
      BY <1>l, <1>t, <2>1, <2>2, <3>1, RequestMoves DEF Request
    <3> QED  BY <1>t, <2>1, <3>1, <3>2 DEF OthersTyped
  <2>3. CASE Asking(r, "reserve", "refused") /\ UNCHANGED slots
    BY <1>2, <2>1, <2>3 DEF slots, Request
  <2> QED  BY <1>6, <2>2, <2>3 DEF Reserve
<1>7. CASE Accept(r)
  <2>1. /\ UNCHANGED <<due, waiting, slotted, entry, task, timer, stop>>
        /\ state'[r] # "absent"
    BY <1>7 DEF Accept, slots, loops, Life!Accept, IInv, TypeOK
  <2> QED  BY <1>7, <1>2, <2>1 DEF Accept, Request
<1>8. CASE AcceptRefused(r)
  <2>1. UNCHANGED <<due, waiting, slotted, entry, task, timer, stop>>
    BY <1>8 DEF AcceptRefused, store, slots, loops
  <2> QED  BY <1>8, <1>2, <2>1 DEF AcceptRefused, Request
<1>9. ASSUME NEW from \in {"release", "start"}, NEW to \in {"refused", "undo"},
             Asking(r, from, to), Slots!End(r), UNCHANGED <<due, entry, task, timer, stop>>,
             to = "undo" => from = "start"
      PROVE  Owned /\ OthersTyped
  <2>1. waiting' = waiting \ {r} /\ slotted' = slotted \ {r} /\ request[r] = from
    BY <1>9 DEF Slots!End, Asking
  <2>2. Owned /\ request' \in [Runs -> Request]
    BY <1>a, <1>t, <1>9, <2>1, RequestMoves DEF Request
  <2> QED  BY <1>t, <1>9, <2>1, <2>2 DEF OthersTyped
<1>10. CASE Release(r) \/ StartFails(r)
  BY <1>9, <1>10 DEF Release, StartFails, store, loops
<1>11. CASE UndoStart(r)
  <2>1. UNCHANGED <<due, waiting, slotted, entry, task, timer, stop>>
    BY <1>11 DEF UndoStart, slots, loops
  <2> QED  BY <1>11, <1>2, <2>1 DEF UndoStart, Request
<1> QED
  BY <1>1, <1>3, <1>4, <1>5, <1>6, <1>7, <1>8, <1>10, <1>11 DEF RequestStep

LEMMA TypesNow ==
    ASSUME IInv
    PROVE  /\ due \subseteq Runs /\ waiting \subseteq Runs /\ slotted \subseteq Runs
           /\ request \in [Runs -> Request] /\ entry \in [Runs -> Flags]
           /\ task \in [Runs -> TaskPlaces] /\ timer \subseteq Runs
           /\ stop \in [Runs -> {"none", "queued", "grace", "over"}]
BY DEF IInv, TypeOK, Request, Flags, TaskPlaces

LEMMA OwnersAfterTask ==
    ASSUME IInv, StateAdvances, NEW r \in Runs,
           TaskStep(r) \/ ProviderEnds(r) \/ CloseGrace(r)
    PROVE  Owned /\ OthersTyped
<1>k. entry' = entry => EntriesKept
  BY TypesNow DEF EntriesKept
<1>1. ASSUME NEW where \in TaskPlaces \ {"none", "release", "done"}, Task(r, where),
             task[r] \notin {"none", "done"},
             where \in {"ready", "mark", "slot"} => r \in waiting,
             where \in {"prepare", "deadline", "truncate", "call"} => r \in slotted,
             UNCHANGED <<due, waiting, slotted, request, entry, timer>>,
             stop' \in [Runs -> {"none", "queued", "grace", "over"}]
      PROVE  Owned /\ OthersTyped
  <2>1. Owned /\ task' \in [Runs -> TaskPlaces]
    BY <1>1, <1>k, TaskMoves DEF slots
  <2> QED  BY <1>1, <2>1, TypesNow DEF OthersTyped
<1>2. /\ task[r] \in {"ready", "mark", "slot"} => r \in waiting
      /\ task[r] \in {"prepare", "deadline", "truncate", "call"} => r \in slotted
      /\ entry[r].registered => task[r] \notin {"none", "release", "done"}
  BY DEF IInv, LeaseInv, OwnerInv
<1>3. CASE \/ FirstStep(r) \/ MarkRunning(r) \/ MarkRunningRaises(r) \/ Prepare(r)
           \/ CheckDeadline(r) \/ CallProvider(r) \/ CheckAnswer(r) \/ CommitAnswer(r)
           \/ Fail(r) \/ CommitFailed(r) \/ ProviderEnds(r)
  <2>1. /\ UNCHANGED <<due, waiting, slotted, request, entry, timer, stop>>
        /\ task[r] \notin {"none", "done"}
    BY <1>3 DEF FirstStep, MarkRunning, MarkRunningRaises, Prepare, CheckDeadline, CallProvider,
                CheckAnswer, CommitAnswer, Fail, CommitFailed, ProviderEnds, Stay, OnLoop,
                store, slots, loops
  <2>2. \E where \in TaskPlaces \ {"none", "release", "done"} :
            /\ Task(r, where)
            /\ where \in {"ready", "mark", "slot"} => task[r] \in {"ready", "mark", "slot"}
            /\ where \in {"prepare", "deadline", "truncate", "call"} =>
                  task[r] \in {"prepare", "deadline", "truncate", "call"}
    BY <1>3 DEF FirstStep, MarkRunning, MarkRunningRaises, Prepare, CheckDeadline, CallProvider,
                CheckAnswer, CommitAnswer, Fail, CommitFailed, ProviderEnds, Stay, OnLoop,
                TimeOut, TaskPlaces
  <2> QED  BY <1>1, <1>2, <2>1, <2>2, TypesNow
<1>4. CASE CloseGrace(r)
  <2>1. /\ UNCHANGED <<due, waiting, slotted, request, entry, timer>>
        /\ stop' \in [Runs -> {"none", "queued", "grace", "over"}]
    BY <1>4, TypesNow DEF CloseGrace, store, slots
  <2>2. CASE entry[r].registered
    BY <1>1, <1>2, <1>4, <2>1, <2>2 DEF CloseGrace, TaskPlaces
  <2>3. CASE ~entry[r].registered
    <3>1. UNCHANGED task
      BY <1>4, <2>3 DEF CloseGrace
    <3>2. Owned
      BY <1>k, <2>1, <3>1, NothingOwnedMoves DEF slots
    <3> QED  BY <2>1, <3>1, <3>2, TypesNow DEF OthersTyped
  <2> QED  BY <2>2, <2>3
<1>5. CASE StartRun(r)
  <2>1. /\ task[r] = "slot" /\ task' = [task EXCEPT ![r] = "prepare"]
        /\ r \in waiting /\ waiting' = waiting \ {r} /\ slotted' = slotted \cup {r}
        /\ timer' = timer \cup {r} /\ UNCHANGED <<due, request, entry, stop>>
    BY <1>5 DEF StartRun, Stay, OnLoop, Task, Slots!Begin, store
  <2>2. /\ task' \in [Runs -> TaskPlaces] /\ task'[r] = "prepare"
        /\ \A s \in Runs : s # r => task'[s] = task[s]
    BY <2>1, TypesNow DEF TaskPlaces
  <2>3. OwnerInv'
    BY <2>1, <2>2 DEF IInv, OwnerInv, StateAdvances
  <2>4. LeaseInv'
    BY <2>1, <2>2 DEF IInv, OwnerInv, LeaseInv, SlotHeldWhileOwned
  <2>5. AbortOnlyAfterFence'
    BY <2>1, FenceLasts DEF IInv, AbortOnlyAfterFence, Fenced
  <2> QED  BY <2>1, <2>2, <2>3, <2>4, <2>5, TypesNow DEF Owned, OthersTyped
<1>6. CASE PopEntry(r)
  <2>1. /\ task[r] = "finally" /\ task' = [task EXCEPT ![r] = "release"]
        /\ timer' = timer \ {r} /\ UNCHANGED <<due, waiting, slotted, request, stop>>
        /\ entry' = [entry EXCEPT ![r].registered = FALSE]
    BY <1>6 DEF PopEntry, Stay, OnLoop, Task, store, slots
  <2>2. /\ task' \in [Runs -> TaskPlaces] /\ task'[r] = "release"
        /\ \A s \in Runs : s # r => task'[s] = task[s]
    BY <2>1, TypesNow DEF TaskPlaces
  <2>3. /\ entry' \in [Runs -> Flags] /\ ~entry'[r].registered
        /\ \A s \in Runs : /\ entry'[s].abort = entry[s].abort
                           /\ s # r => entry'[s] = entry[s]
    BY <2>1, TypesNow DEF Flags
  <2>4. OwnerInv'
    BY <2>1, <2>2, <2>3 DEF IInv, OwnerInv, StateAdvances
  <2>5. LeaseInv'
    BY <2>1, <2>2 DEF IInv, OwnerInv, LeaseInv, SlotHeldWhileOwned
  <2>6. AbortOnlyAfterFence'
    BY <2>3, FenceLasts DEF IInv, AbortOnlyAfterFence, Fenced
  <2> QED  BY <2>1, <2>2, <2>3, <2>4, <2>5, <2>6, TypesNow DEF Owned, OthersTyped
<1>7. CASE EndTask(r)
  <2>1. /\ task[r] = "release" /\ task' = [task EXCEPT ![r] = "done"]
        /\ waiting' = waiting \ {r} /\ slotted' = slotted \ {r}
        /\ UNCHANGED <<due, request, entry, timer, stop>>
    BY <1>7 DEF EndTask, OnLoop, Task, Slots!End, store, loops
  <2>2. /\ task' \in [Runs -> TaskPlaces] /\ task'[r] = "done"
        /\ \A s \in Runs : s # r => task'[s] = task[s]
    BY <2>1, TypesNow DEF TaskPlaces
  <2>3. OwnerInv'
    BY <2>1, <2>2 DEF IInv, OwnerInv, StateAdvances
  <2>4. LeaseInv'
    BY <2>1, <2>2 DEF IInv, OwnerInv, LeaseInv, SlotHeldWhileOwned
  <2>5. AbortOnlyAfterFence'
    BY <2>1, FenceLasts DEF IInv, AbortOnlyAfterFence, Fenced
  <2> QED  BY <2>1, <2>2, <2>3, <2>4, <2>5, TypesNow DEF Owned, OthersTyped
<1> QED  BY <1>3, <1>4, <1>5, <1>6, <1>7 DEF TaskStep

LEMMA OwnersHold ==
    ASSUME IInv, StateAdvances, Next
    PROVE  Owned /\ OthersTyped
<1>1. ASSUME EntriesKept, timer' \subseteq timer, UNCHANGED <<waiting, slotted, request, task>>,
             due' \subseteq Runs, stop' \in [Runs -> {"none", "queued", "grace", "over"}]
      PROVE  Owned /\ OthersTyped
  <2>1. Owned
    BY <1>1, NothingOwnedMoves DEF slots
  <2> QED  BY <1>1, <2>1, TypesNow DEF OthersTyped, EntriesKept
<1>k. entry' = entry => EntriesKept
  BY TypesNow DEF EntriesKept
<1>2. ASSUME NEW r \in Runs,
             \/ Alarm(r) \/ Stop(r) \/ DeadlinePasses(r)
             \/ \E t \in Clients : BeginPoll(t, r) \/ BeginCancel(t, r)
      PROVE  Owned /\ OthersTyped
  BY <1>1, <1>2, <1>k, TypesNow
     DEF Alarm, Stop, DeadlinePasses, BeginPoll, BeginCancel, store, slots, loops
<1>3. ASSUME NEW t \in Threads, ThreadStep(t)
      PROVE  Owned /\ OthersTyped
  BY <1>1, <1>3, EntriesAfterThread, TypesNow DEF slots
<1>4. CASE AbsoluteExpiry \/ Purge
  BY <1>1, <1>4, <1>k, TypesNow DEF AbsoluteExpiry, Purge, slots, loops
<1>5. CASE StopOrphan
  <2>1. orphan \in Runs /\ state[orphan] \in Fenced
    BY <1>5 DEF StopOrphan, IInv, TypeOK, ReceiptInv, Fenced
  <2>2. EntriesKept /\ stop' \in [Runs -> {"none", "queued", "grace", "over"}]
    BY <1>5, <2>1, RequestCancelKeeps DEF StopOrphan
  <2> QED  BY <1>1, <1>5, <2>2, TypesNow DEF StopOrphan, slots
<1> QED
  BY <1>2, <1>3, <1>4, <1>5, OwnersAfterRequest, OwnersAfterTask DEF Next

-----------------------------------------------------------------------------
LEMMA StepKeepsIInv == IInv /\ [Next]_vars => IInv'
<1>1. ASSUME IInv, Next PROVE IInv'
  <2>1. StoreMoves
    BY <1>1, StoreShape
  <2>2. /\ ReceiptInv' /\ OneRunPerKey' /\ StateAdvances
        /\ state' \in [Runs -> {"absent", "queued", "running"} \cup Ended]
        /\ expired' \in BOOLEAN /\ orphan' \in Runs \cup {None}
        /\ keys' \subseteq Keys /\ key' = key
    BY <1>1, <2>1, StoreStep
  <2>3. ThreadInv' /\ thread' \in [Threads -> Position]
    BY <1>1, <2>2, ThreadsStand
  <2>4. Owned /\ OthersTyped
    BY <1>1, <2>2, OwnersHold
  <2>5. key' \in [Runs -> Keys]
    BY <1>1, <2>2 DEF IInv, TypeOK
  <2>6. TypeOK'
    BY <2>2, <2>3, <2>4, <2>5
       DEF TypeOK, OthersTyped, Ended, Position, Places, Request, Flags, TaskPlaces
  <2> QED  BY <2>2, <2>3, <2>4, <2>6 DEF IInv, Owned
<1>2. ASSUME IInv, UNCHANGED vars PROVE IInv'
  BY <1>2 DEF vars, IInv, TypeOK, ReceiptInv, OwnerInv, LeaseInv, SlotHeldWhileOwned, ThreadInv,
              Standing, Reached, AbortOnlyAfterFence, OneRunPerKey
<1> QED  BY <1>1, <1>2

LEMMA GenerationInvariant == Spec => []IInv
BY GenerationInit, StepKeepsIInv, PTL DEF Spec

(* Every variable keeps its type, and the program positions are the listed ones. *)
THEOREM TypeCorrect == Spec => []TypeOK
<1>1. IInv => TypeOK
  BY DEF IInv
<1> QED  BY <1>1, GenerationInvariant, PTL

(* AD-6: whoever stops the Provider, the end of its Run is already committed.  *)
THEOREM FenceBeforeAbort == Spec => []AbortOnlyAfterFence
<1>1. IInv => AbortOnlyAfterFence
  BY DEF IInv
<1> QED  BY <1>1, GenerationInvariant, PTL

(* A lease is held exactly while somebody will release it, whatever fails, is
   cancelled or is purged in between.                                        *)
THEOREM LeasesFollowOwners == Spec => []SlotHeldWhileOwned
<1>1. IInv => SlotHeldWhileOwned
  BY DEF IInv, LeaseInv
<1> QED  BY <1>1, GenerationInvariant, PTL

(* However many POSTs with one key pass the replay check together, one Run.    *)
THEOREM KeyMakesOneRun == Spec => []OneRunPerKey
<1>1. IInv => OneRunPerKey
  BY DEF IInv
<1> QED  BY <1>1, GenerationInvariant, PTL

(* A poll that enforced a Deadline and a Cancel answer with an ended Run.      *)
THEOREM RepliesAreSettled == Spec => []ReplyIsSettled
<1>1. IInv => ReplyIsSettled
  <2> SUFFICES ASSUME IInv, NEW t \in Clients, At(t, "reply"), ~expired
               PROVE  ~Live(thread[t].run)
    BY DEF ReplyIsSettled
  <2>1. t \in Threads /\ thread[t].at = "reply"
    BY DEF Threads, At
  <2> QED  BY <2>1, UnderWay DEF Reached, Live, Life!Live
<1> QED  BY <1>1, GenerationInvariant, PTL
=============================================================================
