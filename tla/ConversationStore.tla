-------------------------- MODULE ConversationStore --------------------------
(***************************************************************************)
(* The registry of InMemoryConversationStore                               *)
(* (src/aidd_chat/adapters/memory.py): which Conversations are resident,   *)
(* the reverse index from a Run to its Conversation, the tombstones a      *)
(* Purge leaves, the Sweeper thread, and the rate table, of which creation *)
(* is the user modelled.                                                   *)
(*                                                                         *)
(* A section under the index lock, or under a Conversation's lock, is one  *)
(* step; what a thread read before it took the lock may be stale by then,  *)
(* so every access is two steps.  An aggregate is here only whether it     *)
(* holds a live Run, an ended one or none (Conversation models the rest),  *)
(* and _locks has the keys of states.                                      *)
(***************************************************************************)
EXTENDS Naturals, Sequences, FiniteSets

CONSTANTS
    Ids,            \* conversation ids, uuid4: none is made twice
    Threads,        \* request threads, each of a client IP of its own
    Sweepers,       \* threads _start_sweeper_locked can make
    None,
    MaxResident,    \* limits.max_resident_conversations
    CreateRate,     \* limits.create_rate_per_minute
    MaxRateKeys,    \* MAX_RATE_KEYS
    EvictionBatch   \* RATE_EVICTION_BATCH

ASSUME StoreAssumption ==
    /\ {MaxResident, CreateRate, MaxRateKeys} \subseteq Nat \ {0}
    /\ EvictionBatch \in 1..MaxRateKeys
    /\ None \notin Ids \cup Threads \cup Sweepers /\ Threads \cap Sweepers = {}

VARIABLES
    created,      \* ids handed out
    states,       \* ids in store.states
    expired,      \* ids past their Absolute Expiry on the monotonic clock
    run,          \* "none", "live" or "ended": the last Run of each aggregate
    indexed,      \* ids some entry of _run_conversations leads to
    tombstone,    \* the _expired_runs entry of a Purge: "none", "kept" or "due"
    detections,   \* how often expire() answered True
    rates,        \* _rates in insertion order: subject, count, window over
    agent,        \* where each thread is and what it has read
    sweeper,      \* store._sweeper
    stopped       \* store._stop

vars == <<created, states, expired, run, indexed, tombstone, detections,
          rates, agent, sweeper, stopped>>
conversations == <<created, states, expired, run, indexed, tombstone, detections>>
registry == <<conversations, rates>>

Agents == Threads \cup Sweepers
Resting == [at |-> "idle", conv |-> None, due |-> {}]
Unborn  == [Resting EXCEPT !.at = "unborn"]
At(a, place) == agent[a].at = place
Go(a, place, c) == agent' = [agent EXCEPT ![a].at = place, ![a].conv = c]
Return(a) == Go(a, IF agent[a].due = {} THEN "idle" ELSE "sweep", None)

Init ==
    /\ created = {} /\ states = {} /\ expired = {} /\ indexed = {}
    /\ run = [c \in Ids |-> "none"]
    /\ tombstone = [c \in Ids |-> "none"]
    /\ detections = [c \in Ids |-> 0] /\ rates = <<>>
    /\ agent = [a \in Agents |-> IF a \in Threads THEN Resting ELSE Unborn]
    /\ sweeper = None /\ stopped = FALSE

-----------------------------------------------------------------------------
(* _start_sweeper_locked, inside t's create, makes the thread s, or none: the
   Store has one already, or is closed, or the thread fails to start, and then
   the next create tries again.                                              *)
Started(t, s) ==
    agent' = [a \in Agents |-> IF a = t \/ a = s THEN Resting ELSE agent[a]]
StartSweeperFault_FieldFirst(t, s) ==      \* the field is set although the start failed
    \/ s = None /\ (sweeper # None \/ stopped) /\ sweeper' = sweeper /\ Started(t, s)
    \/ s # None /\ sweeper = None /\ ~stopped /\ At(s, "unborn")
          /\ sweeper' = s /\ (Started(t, s) \/ Started(t, None))
StartSweeper(t, s) ==
    \/ s = None /\ sweeper' = sweeper /\ Started(t, s)
    \/ /\ s # None /\ sweeper = None /\ ~stopped /\ At(s, "unborn")
       /\ sweeper' = s /\ Started(t, s)

(* check_rate: a full table gives up its oldest entries, never the newcomer;
   a window that is over starts again.  Both endings leave an entry behind.  *)
Known(t) == \E i \in 1..Len(rates) : rates[i].subject = t
Charged(t) ==
    IF Known(t)
    THEN [i \in 1..Len(rates) |->
             IF rates[i].subject # t THEN rates[i]
             ELSE IF rates[i].over THEN [rates[i] EXCEPT !.count = 1, !.over = FALSE]
             ELSE IF rates[i].count < CreateRate THEN [rates[i] EXCEPT !.count = @ + 1]
             ELSE rates[i]]
    ELSE Append(IF Len(rates) < MaxRateKeys THEN rates
                ELSE SubSeq(rates, EvictionBatch + 1, Len(rates)),
                [subject |-> t, count |-> 1, over |-> FALSE])
WithinRate(t) ==
    \A i \in 1..Len(rates) :
        rates[i].subject = t => rates[i].over \/ rates[i].count < CreateRate

(* create_conversation, at the boundary: the creation rate, ...              *)
AllowCreation(t) ==
    /\ At(t, "idle")
    /\ rates' = Charged(t)
    /\ Go(t, IF WithinRate(t) THEN "create" ELSE "idle", None)
    /\ UNCHANGED <<conversations, sweeper, stopped>>

(* ... and create: counted and admitted in one section, or refused.          *)
Create(t) ==
    /\ At(t, "create")
    /\ Cardinality(states) < MaxResident
    /\ \E c \in Ids \ created :
          created' = created \cup {c} /\ states' = states \cup {c}
    /\ \E s \in Sweepers \cup {None} : StartSweeper(t, s)
    /\ UNCHANGED <<expired, run, indexed, tombstone, detections, rates, stopped>>

CreateRefused(t) ==
    /\ At(t, "create") /\ Cardinality(states) >= MaxResident
    /\ Return(t)
    /\ UNCHANGED <<registry, sweeper, stopped>>

(* close: _stop for good.                                                    *)
Close ==
    /\ ~stopped
    /\ stopped' = TRUE /\ sweeper' = None
    /\ UNCHANGED <<registry, agent>>

-----------------------------------------------------------------------------
(* _conversation up to the lock, by id or by way of the reverse index: an id
   that is not there any more is a 404 and changes nothing.                  *)
Access(t, c) ==
    /\ At(t, "idle") /\ c \in states
    /\ Go(t, IF c \in expired THEN "expire" ELSE "lock", c)
    /\ UNCHANGED <<registry, sweeper, stopped>>

AccessByRun(t, c) ==
    /\ At(t, "idle") /\ c \in indexed
    /\ Go(t, "byRun", c)
    /\ UNCHANGED <<registry, sweeper, stopped>>

AuthorizeByRun(t) ==
    /\ At(t, "byRun")
    /\ LET c == agent[t].conv
       IN  Go(t, IF c \notin states THEN "idle" ELSE IF c \in expired THEN "expire" ELSE "lock",
              IF c \notin states THEN None ELSE c)
    /\ UNCHANGED <<registry, sweeper, stopped>>

(* The section under the Conversation's lock.  The thread that waited for it
   looks again whether the aggregate is the resident one; then it asks (a
   question or a Retry, indexed before the lock is left), cancels, or only
   reads.  The aggregate itself refuses what comes after its expiry, with the
   410 of a first detector although nothing is purged.                       *)
Locked(t, c) == agent[t].conv = c /\ At(t, "lock") /\ c \in states

Refused(t) ==
    /\ At(t, "lock") /\ Return(t)
    /\ UNCHANGED <<registry, sweeper, stopped>>

Ask(t, c) ==
    /\ Locked(t, c) /\ c \notin expired /\ run[c] # "live"
    /\ run' = [run EXCEPT ![c] = "live"]
    /\ indexed' = indexed \cup {c}
    /\ Return(t)
    /\ UNCHANGED <<created, states, expired, tombstone, detections, rates, sweeper,
                   stopped>>

Cancel(t, c) ==
    /\ Locked(t, c) /\ c \notin expired /\ run[c] = "live"
    /\ run' = [run EXCEPT ![c] = "ended"]
    /\ Return(t)
    /\ UNCHANGED <<created, states, expired, indexed, tombstone, detections, rates, sweeper,
                   stopped>>

(* _live: a terminal commit from the loop finds the aggregate or nothing.    *)
RunEnds(c) ==
    /\ c \in states \ expired /\ run[c] = "live"
    /\ run' = [run EXCEPT ![c] = "ended"]
    /\ UNCHANGED <<created, states, expired, indexed, tombstone, detections, rates, agent,
                   sweeper, stopped>>

-----------------------------------------------------------------------------
(* expire: under the lock and only if the aggregate found before is still the
   resident one, everything of the Conversation goes, its live Run leaves a
   tombstone, and the caller that did it stops that Run's Provider afterwards,
   outside the lock.                                                         *)
DueFault_Captured(c) == c \in expired        \* the aggregate read before the lock will do
Due(c) == c \in states /\ c \in expired

UnindexedFault_LiveOnly(c) ==                \* only the Run that was still live
    IF run[c] = "live" THEN indexed \ {c} ELSE indexed
Unindexed(c) == indexed \ {c}

Purge(a, c) ==
    /\ Due(c)
    /\ states' = states \ {c} /\ indexed' = Unindexed(c)
    /\ run' = [run EXCEPT ![c] = "none"]
    /\ tombstone' = [tombstone EXCEPT ![c] = IF run[c] = "live" THEN "kept" ELSE @]
    /\ detections' = [detections EXCEPT ![c] = @ + 1]
    /\ agent' = [agent EXCEPT ![a].due = @ \ {c},
                              ![a].conv = IF run[c] = "live" THEN c ELSE None,
                              ![a].at = IF run[c] = "live" THEN "stop"
                                        ELSE IF agent[a].due \ {c} = {} THEN "idle"
                                        ELSE "sweep"]
    /\ UNCHANGED <<created, expired, rates, sweeper, stopped>>

ExpireRequest(t) ==
    /\ At(t, "expire")
    /\ \/ Purge(t, agent[t].conv)
       \/ ~Due(agent[t].conv) /\ Return(t) /\ UNCHANGED <<registry, sweeper, stopped>>

(* _cancel_run of the Application, told by whoever purged.                   *)
StopRun(a) ==
    /\ At(a, "stop")
    /\ Return(a)
    /\ UNCHANGED <<registry, sweeper, stopped>>

-----------------------------------------------------------------------------
(* _sweep_loop: the wait times out, or _stop ends the thread.                *)
Wake(s) ==
    /\ s \in Sweepers /\ At(s, "idle")
    /\ Go(s, IF stopped THEN "over" ELSE "awake", None)
    /\ UNCHANGED <<registry, sweeper, stopped>>

(* sweep: what is due is noted, and old tombstones and windows dropped, in one
   section of the index lock; the windows left keep their order, and the due
   Conversations are expired afterwards.                                     *)
Sweep(s) ==
    /\ At(s, "awake")
    /\ LET due == states \cap expired
       IN  agent' = [agent EXCEPT ![s].due = due,
                                  ![s].at = IF due = {} THEN "idle" ELSE "sweep"]
    /\ tombstone' = [c \in Ids |-> IF tombstone[c] = "due" THEN "none" ELSE tombstone[c]]
    /\ \E n \in 0..Len(rates) : \E kept \in [1..n -> 1..Len(rates)] :
          /\ {kept[j] : j \in 1..n} = {i \in 1..Len(rates) : ~rates[i].over}
          /\ \A j, k \in 1..n : j < k => kept[j] < kept[k]
          /\ rates' = [j \in 1..n |-> rates[kept[j]]]
    /\ UNCHANGED <<created, states, expired, run, indexed, detections, sweeper, stopped>>

ExpireDue(s, c) ==
    /\ At(s, "sweep") /\ c \in agent[s].due
    /\ \/ Purge(s, c)
       \/ /\ ~Due(c)
          /\ agent' = [agent EXCEPT ![s].due = @ \ {c},
                                    ![s].at = IF agent[s].due = {c} THEN "idle" ELSE "sweep"]
          /\ UNCHANGED <<registry, sweeper, stopped>>

-----------------------------------------------------------------------------
(* The clock.                                                                *)
AbsoluteExpiry(c) ==
    /\ c \in created \ expired
    /\ expired' = expired \cup {c}
    /\ UNCHANGED <<created, states, run, indexed, tombstone, detections, rates, agent,
                   sweeper, stopped>>

TombstoneAges(c) ==
    /\ tombstone[c] = "kept"
    /\ tombstone' = [tombstone EXCEPT ![c] = "due"]
    /\ UNCHANGED <<created, states, expired, run, indexed, detections, rates, agent,
                   sweeper, stopped>>

WindowPasses(t) ==
    /\ \E i \in 1..Len(rates) : rates[i].subject = t /\ ~rates[i].over
    /\ rates' = [i \in 1..Len(rates) |->
                    IF rates[i].subject = t THEN [rates[i] EXCEPT !.over = TRUE] ELSE rates[i]]
    /\ UNCHANGED <<conversations, agent, sweeper, stopped>>

Next ==
    \/ Close
    \/ \E t \in Threads :
          \/ AllowCreation(t) \/ Create(t) \/ CreateRefused(t) \/ WindowPasses(t)
          \/ AuthorizeByRun(t) \/ Refused(t) \/ ExpireRequest(t)
          \/ \E c \in Ids :
                Access(t, c) \/ AccessByRun(t, c) \/ Ask(t, c) \/ Cancel(t, c)
    \/ \E a \in Agents : StopRun(a)
    \/ \E s \in Sweepers : Wake(s) \/ Sweep(s) \/ \E c \in Ids : ExpireDue(s, c)
    \/ \E c \in Ids : RunEnds(c) \/ AbsoluteExpiry(c) \/ TombstoneAges(c)

Spec == Init /\ [][Next]_vars

(* The Sweeper's wait is thirty seconds and its sections are short; a request
   thread that has begun is scheduled on.                                    *)
FairSpec ==
    /\ Spec
    /\ \A s \in Sweepers : WF_vars(Wake(s) \/ Sweep(s) \/ \E c \in Ids : ExpireDue(s, c))
    /\ \A a \in Agents : WF_vars(StopRun(a))

-----------------------------------------------------------------------------
(* expire: "True only for the caller that actually performed the Purge", so of
   the requests and the Sweeper that race for one Conversation a single one is
   its first detector.                                                       *)
FirstDetectorIsUnique == \A c \in Ids : detections[c] <= 1

(* What the Sweeper never looks at must not outlive the Conversation: an index
   entry or a Run made after the Purge would stay for the life of the process.
   A tombstone belongs to a Conversation that went.                          *)
NothingOutlivesItsConversation ==
    /\ indexed = {c \in states : run[c] # "none"}
    /\ \A c \in Ids :
          /\ run[c] # "none" => c \in states
          /\ tombstone[c] # "none" => c \in created \ states

(* "One Sweeper per Store", and none that begins after close.                *)
OneSweeper ==
    /\ stopped => sweeper = None
    /\ \A s \in Sweepers :
          agent[s].at \notin {"unborn", "over"} => stopped \/ s = sweeper

(* The table never outgrows MAX_RATE_KEYS, counts a subject once and nobody
   beyond the limit.                                                         *)
RateTableHolds ==
    /\ Len(rates) <= MaxRateKeys
    /\ \A i \in 1..Len(rates) : rates[i].count \in 1..CreateRate
    /\ \A i, j \in 1..Len(rates) : rates[i].subject = rates[j].subject => i = j

StoreIsConsistent == NothingOutlivesItsConversation /\ OneSweeper /\ RateTableHolds

(* A Conversation nobody opens again is reclaimed, and the Provider of a Run it
   still held is told to stop, as long as the Store has a Sweeper.           *)
ExpiredIsReclaimed ==
    \A c \in Ids :
        c \in states /\ c \in expired ~>
            \/ c \notin states /\ \A a \in Agents : ~(At(a, "stop") /\ agent[a].conv = c)
            \/ stopped \/ sweeper = None
=============================================================================
