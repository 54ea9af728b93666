----------------------- MODULE ConversationStore_proofs -----------------------
(***************************************************************************)
(* The registry for every number of Conversations, threads and possible    *)
(* Sweepers: its Purge has one first detector, nothing survives it, one     *)
(* Sweeper runs, and the rate table keeps within its bounds.               *)
(***************************************************************************)
EXTENDS ConversationStore, TLAPS

Places == {"idle", "create", "byRun", "lock", "expire", "stop", "unborn", "awake",
           "sweep", "over"}
AgentType == [at : Places, conv : Ids \cup {None}, due : SUBSET Ids]

(* Every variable but the rate table, which no other variable follows, keeps
   its type; and a thread that names a Conversation has one.                 *)
StoreTypeOK ==
    /\ created \subseteq Ids /\ states \subseteq created /\ expired \subseteq created
    /\ run \in [Ids -> {"none", "live", "ended"}]
    /\ indexed \subseteq Ids
    /\ tombstone \in [Ids -> {"none", "kept", "due"}]
    /\ detections \in [Ids -> Nat]
    /\ agent \in [Agents -> AgentType]
    /\ \A a \in Agents : agent[a].at \in {"byRun", "lock", "expire"} => agent[a].conv \in Ids
    /\ sweeper \in Sweepers \cup {None} /\ stopped \in BOOLEAN

(* Who is resident has not been detected yet, and nobody comes back: an id is
   made once, so a Conversation that was Purged stays away.                  *)
DetectionInv ==
    \A c \in Ids : detections[c] <= 1 /\ (c \in states \/ c \notin created => detections[c] = 0)

StoreInv == StoreTypeOK /\ DetectionInv /\ NothingOutlivesItsConversation /\ OneSweeper

LEMMA StoreInit == Init => StoreInv
<1> SUFFICES ASSUME Init PROVE StoreInv
  OBVIOUS
<1>1. StoreTypeOK
  BY DEF Init, StoreTypeOK, AgentType, Places, Resting, Unborn
<1>2. DetectionInv
  BY DEF Init, DetectionInv
<1>3. NothingOutlivesItsConversation
  BY DEF Init, NothingOutlivesItsConversation
<1>4. OneSweeper
  BY StoreAssumption DEF Init, OneSweeper, Unborn, Agents, Resting
<1> QED  BY <1>1, <1>2, <1>3, <1>4 DEF StoreInv

-----------------------------------------------------------------------------
(* What a step does to the Conversations: one is made, gets a Run, sees it end
   or is Purged, or the clock and the Sweeper's cleaning pass over them.     *)
Made(c) ==
    /\ c \in Ids \ created
    /\ created' = created \cup {c} /\ states' = states \cup {c}
    /\ UNCHANGED <<expired, run, indexed, tombstone, detections>>

Asked(c) ==
    /\ c \in states
    /\ run' = [run EXCEPT ![c] = "live"] /\ indexed' = indexed \cup {c}
    /\ UNCHANGED <<created, states, expired, tombstone, detections>>

Ended(c) ==
    /\ c \in states /\ run[c] = "live"
    /\ run' = [run EXCEPT ![c] = "ended"]
    /\ UNCHANGED <<created, states, expired, indexed, tombstone, detections>>

Purged(c) ==
    /\ c \in states
    /\ states' = states \ {c} /\ indexed' = indexed \ {c}
    /\ run' = [run EXCEPT ![c] = "none"]
    /\ tombstone' = [tombstone EXCEPT ![c] = IF run[c] = "live" THEN "kept" ELSE @]
    /\ detections' = [detections EXCEPT ![c] = @ + 1]
    /\ UNCHANGED <<created, expired>>

Aged ==
    /\ expired' \subseteq created
    /\ tombstone' \in [Ids -> {"none", "kept", "due"}]
    /\ \A c \in Ids : tombstone'[c] # "none" => tombstone[c] # "none"
    /\ UNCHANGED <<created, states, run, indexed, detections>>

LEMMA PurgeShape ==
    ASSUME StoreTypeOK, NEW a \in Agents, NEW c \in Ids, Purge(a, c)
    PROVE  Purged(c)
BY DEF Purge, Purged, Due, Unindexed

LEMMA StillAged ==
    ASSUME StoreTypeOK, UNCHANGED conversations
    PROVE  Aged
BY DEF StoreTypeOK, Aged, conversations

LEMMA StoreShape ==
    ASSUME StoreTypeOK, Next
    PROVE  Aged \/ \E c \in Ids : Made(c) \/ Asked(c) \/ Ended(c) \/ Purged(c)
<1>1. CASE Close
  BY <1>1, StillAged DEF Close, registry
<1>2. ASSUME NEW t \in Threads,
             \/ AllowCreation(t) \/ CreateRefused(t) \/ WindowPasses(t)
             \/ AuthorizeByRun(t) \/ Refused(t)
             \/ \E c \in Ids : Access(t, c) \/ AccessByRun(t, c)
      PROVE  Aged
  <2>1. UNCHANGED conversations
    BY <1>2 DEF AllowCreation, CreateRefused, WindowPasses, AuthorizeByRun, Refused, Access,
                AccessByRun, registry
  <2> QED  BY <2>1, StillAged
<1>3. ASSUME NEW t \in Threads, Create(t)
      PROVE  \E c \in Ids : Made(c)
  BY <1>3 DEF Create, Made
<1>4. ASSUME NEW t \in Threads, NEW c \in Ids, Ask(t, c) \/ Cancel(t, c)
      PROVE  Asked(c) \/ Ended(c)
  BY <1>4 DEF Ask, Cancel, Locked, Asked, Ended
<1>5. ASSUME NEW t \in Threads, ExpireRequest(t)
      PROVE  Aged \/ \E c \in Ids : Purged(c)
  <2>1. t \in Agents /\ agent[t].conv \in Ids
    BY <1>5 DEF ExpireRequest, StoreTypeOK, At, Agents
  <2>2. CASE Purge(t, agent[t].conv)
    BY <2>1, <2>2, PurgeShape
  <2>3. CASE UNCHANGED registry
    BY <2>3, StillAged DEF registry
  <2> QED  BY <1>5, <2>2, <2>3 DEF ExpireRequest
<1>6. ASSUME NEW a \in Agents, StopRun(a)
      PROVE  Aged
  BY <1>6, StillAged DEF StopRun, registry
<1>7. ASSUME NEW s \in Sweepers, Wake(s)
      PROVE  Aged
  BY <1>7, StillAged DEF Wake, registry
<1>8. ASSUME NEW s \in Sweepers, Sweep(s)
      PROVE  Aged
  BY <1>8 DEF Sweep, Aged, StoreTypeOK
<1>9. ASSUME NEW s \in Sweepers, NEW c \in Ids, ExpireDue(s, c)
      PROVE  Aged \/ Purged(c)
  <2>1. CASE Purge(s, c)
    BY <2>1, PurgeShape DEF Agents
  <2>2. CASE UNCHANGED registry
    BY <2>2, StillAged DEF registry
  <2> QED  BY <1>9, <2>1, <2>2 DEF ExpireDue
<1>10. ASSUME NEW c \in Ids, RunEnds(c)
       PROVE  Ended(c)
  BY <1>10 DEF RunEnds, Ended
<1>11. ASSUME NEW c \in Ids, AbsoluteExpiry(c) \/ TombstoneAges(c)
       PROVE  Aged
  BY <1>11 DEF AbsoluteExpiry, TombstoneAges, Aged, StoreTypeOK
<1> QED
  BY <1>1, <1>2, <1>3, <1>4, <1>5, <1>6, <1>7, <1>8, <1>9, <1>10, <1>11 DEF Next

(* No shape of a step counts a second detection or leaves a Run behind.       *)
LEMMA ConversationStep ==
    ASSUME StoreTypeOK, DetectionInv, NothingOutlivesItsConversation,
           Aged \/ \E c \in Ids : Made(c) \/ Asked(c) \/ Ended(c) \/ Purged(c)
    PROVE  /\ created' \subseteq Ids /\ states' \subseteq created' /\ expired' \subseteq created'
           /\ run' \in [Ids -> {"none", "live", "ended"}]
           /\ indexed' \subseteq Ids
           /\ tombstone' \in [Ids -> {"none", "kept", "due"}]
           /\ detections' \in [Ids -> Nat]
           /\ DetectionInv' /\ NothingOutlivesItsConversation'
<1> USE DEF StoreTypeOK
<1>1. CASE Aged
  BY <1>1 DEF Aged, DetectionInv, NothingOutlivesItsConversation
<1>2. ASSUME NEW c \in Ids, Made(c)
      PROVE  /\ created' \subseteq Ids /\ states' \subseteq created' /\ expired' \subseteq created'
             /\ DetectionInv' /\ NothingOutlivesItsConversation'
             /\ UNCHANGED <<run, indexed, tombstone, detections>>
  BY <1>2 DEF Made, DetectionInv, NothingOutlivesItsConversation
<1>3. ASSUME NEW c \in Ids, Asked(c)
      PROVE  /\ run' \in [Ids -> {"none", "live", "ended"}] /\ indexed' \subseteq Ids
             /\ DetectionInv' /\ NothingOutlivesItsConversation'
             /\ UNCHANGED <<created, states, expired, tombstone, detections>>
  BY <1>3 DEF Asked, DetectionInv, NothingOutlivesItsConversation
<1>4. ASSUME NEW c \in Ids, Ended(c)
      PROVE  /\ run' \in [Ids -> {"none", "live", "ended"}]
             /\ DetectionInv' /\ NothingOutlivesItsConversation'
             /\ UNCHANGED <<created, states, expired, indexed, tombstone, detections>>
  BY <1>4 DEF Ended, DetectionInv, NothingOutlivesItsConversation
<1>5. ASSUME NEW c \in Ids, Purged(c)
      PROVE  /\ states' \subseteq states /\ indexed' \subseteq Ids
             /\ run' \in [Ids -> {"none", "live", "ended"}]
             /\ tombstone' \in [Ids -> {"none", "kept", "due"}]
             /\ detections' \in [Ids -> Nat]
             /\ DetectionInv' /\ NothingOutlivesItsConversation'
             /\ UNCHANGED <<created, expired>>
  BY <1>5 DEF Purged, DetectionInv, NothingOutlivesItsConversation
<1> QED  BY <1>1, <1>2, <1>3, <1>4, <1>5

-----------------------------------------------------------------------------
(* What a step does to the threads: they stand somewhere, with a Conversation
   where they need one, and no Sweeper comes to life but the one in the field. *)
Awake(s) == agent[s].at \notin {"unborn", "over"}

Advances ==
    /\ agent' \in [Agents -> AgentType]
    /\ \A a \in Agents : agent'[a].at \in {"byRun", "lock", "expire"} => agent'[a].conv \in Ids
    /\ \A s \in Sweepers : Awake(s)' => Awake(s)

(* Where a single thread may go without breaking that.                       *)
Fits(a, record) ==
    /\ record \in AgentType
    /\ record.at \in {"byRun", "lock", "expire"} => record.conv \in Ids
    /\ a \in Sweepers /\ record.at \notin {"unborn", "over"} => Awake(a)

LEMMA OneAdvances ==
    ASSUME StoreTypeOK, NEW a \in Agents, NEW record, Fits(a, record),
           agent' = [agent EXCEPT ![a] = record]
    PROVE  Advances
BY DEF StoreTypeOK, Fits, Advances, Awake, Agents

LEMMA GoAdvances ==
    ASSUME StoreTypeOK, NEW a \in Agents, NEW place \in Places, NEW c \in Ids \cup {None},
           Go(a, place, c), place \in {"byRun", "lock", "expire"} => c \in Ids,
           a \in Sweepers /\ place \notin {"unborn", "over"} => Awake(a)
    PROVE  Advances
<1> DEFINE record == [agent[a] EXCEPT !.at = place, !.conv = c]
<1>1. agent' = [agent EXCEPT ![a] = record]
  BY DEF Go, StoreTypeOK
<1>2. agent[a] \in AgentType
  BY DEF StoreTypeOK
<1>3. record \in AgentType /\ record.at = place /\ record.conv = c
  BY <1>2 DEF AgentType
<1> HIDE DEF record
<1>4. Fits(a, record)
  BY <1>3 DEF Fits
<1> QED  BY <1>1, <1>4, OneAdvances

LEMMA ReturnAdvances ==
    ASSUME StoreTypeOK, NEW a \in Agents, Return(a), a \in Sweepers => Awake(a)
    PROVE  Advances
<1>1. PICK place \in {"idle", "sweep"} : Go(a, place, None)
  BY DEF Return
<1> QED  BY <1>1, GoAdvances DEF Places

LEMMA PurgeAdvances ==
    ASSUME StoreTypeOK, NEW a \in Agents, NEW c \in Ids, Purge(a, c), a \in Sweepers => Awake(a)
    PROVE  Advances
<1> DEFINE due    == agent[a].due \ {c}
           place  == IF run[c] = "live" THEN "stop" ELSE IF due = {} THEN "idle" ELSE "sweep"
           conv   == IF run[c] = "live" THEN c ELSE None
           record == [agent[a] EXCEPT !.due = due, !.conv = conv, !.at = place]
<1>1. agent' = [agent EXCEPT ![a] = record]
  BY DEF Purge, StoreTypeOK
<1>2. agent[a] \in AgentType
  BY DEF StoreTypeOK
<1>3. due \subseteq Ids /\ place \in {"stop", "idle", "sweep"} /\ conv \in Ids \cup {None}
  BY <1>2 DEF AgentType
<1> HIDE DEF due, place, conv
<1>4. record \in AgentType /\ record.at = place
  BY <1>2, <1>3 DEF AgentType, Places
<1> HIDE DEF record
<1>5. Fits(a, record)
  BY <1>3, <1>4 DEF Fits
<1> QED  BY <1>1, <1>5, OneAdvances

(* Every step but the two that set the Sweeper's field.                       *)
LEMMA OtherStepsAdvance ==
    ASSUME StoreTypeOK, Next
    PROVE  \/ Advances /\ UNCHANGED <<sweeper, stopped>>
           \/ Close \/ \E t \in Threads : Create(t)
<1> USE DEF At
<1>1. ASSUME NEW t \in Threads,
             \/ AllowCreation(t) \/ AuthorizeByRun(t)
             \/ \E c \in Ids : Access(t, c) \/ AccessByRun(t, c)
      PROVE  Advances /\ UNCHANGED <<sweeper, stopped>>
  <2>1. t \in Agents /\ t \notin Sweepers
    BY StoreAssumption DEF Agents
  <2>2. \E place \in Places, c \in Ids \cup {None} :
           Go(t, place, c) /\ (place \in {"byRun", "lock", "expire"} => c \in Ids)
    BY <1>1 DEF AllowCreation, AuthorizeByRun, Access, AccessByRun, StoreTypeOK, Places, Agents
  <2>3. Advances
    BY <2>1, <2>2, GoAdvances
  <2> QED  BY <1>1, <2>3 DEF AllowCreation, AuthorizeByRun, Access, AccessByRun
<1>2. ASSUME NEW t \in Threads,
             \/ CreateRefused(t) \/ Refused(t)
             \/ \E c \in Ids : Ask(t, c) \/ Cancel(t, c)
      PROVE  Advances /\ UNCHANGED <<sweeper, stopped>>
  <2>1. t \in Agents /\ t \notin Sweepers
    BY StoreAssumption DEF Agents
  <2>2. Return(t) /\ UNCHANGED <<sweeper, stopped>>
    BY <1>2 DEF CreateRefused, Refused, Ask, Cancel
  <2> QED  BY <2>1, <2>2, ReturnAdvances
<1>3. ASSUME NEW t \in Threads, ExpireRequest(t)
      PROVE  Advances /\ UNCHANGED <<sweeper, stopped>>
  <2>1. t \in Agents /\ t \notin Sweepers /\ agent[t].conv \in Ids
    BY <1>3, StoreAssumption DEF ExpireRequest, StoreTypeOK, Agents
  <2>2. CASE Purge(t, agent[t].conv)
    BY <2>1, <2>2, PurgeAdvances DEF Purge
  <2>3. CASE Return(t) /\ UNCHANGED <<registry, sweeper, stopped>>
    BY <2>1, <2>3, ReturnAdvances
  <2> QED  BY <1>3, <2>2, <2>3 DEF ExpireRequest
<1>4. ASSUME NEW a \in Agents, StopRun(a)
      PROVE  Advances /\ UNCHANGED <<sweeper, stopped>>
  BY <1>4, ReturnAdvances DEF StopRun, Awake
<1>5. ASSUME NEW s \in Sweepers, Wake(s)
      PROVE  Advances /\ UNCHANGED <<sweeper, stopped>>
  <2>1. s \in Agents /\ Awake(s)
    BY <1>5 DEF Wake, Awake, Agents
  <2>2. \E place \in {"over", "awake"} : Go(s, place, None)
    BY <1>5 DEF Wake
  <2> QED  BY <1>5, <2>1, <2>2, GoAdvances DEF Wake, Places
<1>6. ASSUME NEW s \in Sweepers, Sweep(s)
      PROVE  Advances /\ UNCHANGED <<sweeper, stopped>>
  <2> DEFINE due    == states \cap expired
             place  == IF due = {} THEN "idle" ELSE "sweep"
             record == [agent[s] EXCEPT !.due = due, !.at = place]
  <2>1. s \in Agents /\ agent[s] \in AgentType /\ Awake(s)
    BY <1>6 DEF Sweep, Awake, Agents, StoreTypeOK
  <2>2. agent' = [agent EXCEPT ![s] = record]
    BY <1>6 DEF Sweep, StoreTypeOK
  <2>3. due \subseteq Ids /\ place \in {"idle", "sweep"}
    BY DEF StoreTypeOK
  <2> HIDE DEF due, place
  <2>4. record \in AgentType /\ record.at = place
    BY <2>1, <2>3 DEF AgentType, Places
  <2> HIDE DEF record
  <2>5. Fits(s, record)
    BY <2>1, <2>3, <2>4 DEF Fits
  <2> QED  BY <1>6, <2>1, <2>2, <2>5, OneAdvances DEF Sweep
<1>7. ASSUME NEW s \in Sweepers, NEW c \in Ids, ExpireDue(s, c)
      PROVE  Advances /\ UNCHANGED <<sweeper, stopped>>
  <2> DEFINE due    == agent[s].due \ {c}
             place  == IF agent[s].due = {c} THEN "idle" ELSE "sweep"
             record == [agent[s] EXCEPT !.due = due, !.at = place]
  <2>1. s \in Agents /\ agent[s] \in AgentType /\ Awake(s)
    BY <1>7 DEF ExpireDue, Awake, Agents, StoreTypeOK
  <2>2. CASE Purge(s, c)
    BY <2>1, <2>2, PurgeAdvances DEF Purge
  <2>3. CASE ~Purge(s, c)
    <3>1. agent' = [agent EXCEPT ![s] = record] /\ UNCHANGED <<sweeper, stopped>>
      BY <1>7, <2>3 DEF ExpireDue, StoreTypeOK
    <3>2. due \subseteq Ids /\ place \in {"idle", "sweep"}
      BY <2>1 DEF AgentType
    <3> HIDE DEF due, place
    <3>3. record \in AgentType /\ record.at = place
      BY <2>1, <3>2 DEF AgentType, Places
    <3> HIDE DEF record
    <3>4. Fits(s, record)
      BY <2>1, <3>2, <3>3 DEF Fits
    <3> QED  BY <2>1, <3>1, <3>4, OneAdvances
  <2> QED  BY <2>2, <2>3
<1>8. ASSUME \/ \E t \in Threads : WindowPasses(t)
             \/ \E c \in Ids : RunEnds(c) \/ AbsoluteExpiry(c) \/ TombstoneAges(c)
      PROVE  Advances /\ UNCHANGED <<sweeper, stopped>>
  BY <1>8 DEF WindowPasses, RunEnds, AbsoluteExpiry, TombstoneAges, StoreTypeOK, Advances, Awake
<1> QED  BY <1>1, <1>2, <1>3, <1>4, <1>5, <1>6, <1>7, <1>8 DEF Next

(* create: a Sweeper that starts finds the field empty and none awake.        *)
LEMMA CreateStarts ==
    ASSUME StoreInv, NEW t \in Threads, Create(t)
    PROVE  /\ agent' \in [Agents -> AgentType]
           /\ \A a \in Agents :
                 agent'[a].at \in {"byRun", "lock", "expire"} => agent'[a].conv \in Ids
           /\ sweeper' \in Sweepers \cup {None} /\ UNCHANGED stopped
           /\ OneSweeper'
<1>1. PICK s \in Sweepers \cup {None} : StartSweeper(t, s)
  BY DEF Create
<1>2. agent' = [a \in Agents |-> IF a = t \/ a = s THEN Resting ELSE agent[a]]
  BY <1>1 DEF StartSweeper, Started
<1>3. Resting \in AgentType /\ Resting.at = "idle"
  BY DEF Resting, AgentType, Places
<1>4. UNCHANGED stopped
  BY DEF Create
<1>5. OneSweeper'
  <2>1. t \notin Sweepers /\ None \notin Sweepers /\ Sweepers \subseteq Agents
    BY StoreAssumption DEF Agents
  <2>2. CASE s = None
    BY <1>1, <1>2, <1>4, <2>1, <2>2 DEF StartSweeper, StoreInv, OneSweeper
  <2>3. CASE s # None
    <3>1. sweeper = None /\ ~stopped /\ sweeper' = s
      BY <1>1, <2>3 DEF StartSweeper
    <3> QED  BY <1>2, <1>4, <2>1, <3>1 DEF StoreInv, OneSweeper
  <2> QED  BY <2>2, <2>3
<1>6. sweeper' \in Sweepers \cup {None}
  BY <1>1 DEF StartSweeper, StoreInv, StoreTypeOK
<1> QED  BY <1>2, <1>3, <1>4, <1>5, <1>6 DEF StoreInv, StoreTypeOK

LEMMA StoreStep == StoreInv /\ [Next]_vars => StoreInv'
<1> SUFFICES ASSUME StoreInv, [Next]_vars PROVE StoreInv'
  OBVIOUS
<1>1. CASE Next
  <2>1. Aged \/ \E c \in Ids : Made(c) \/ Asked(c) \/ Ended(c) \/ Purged(c)
    BY <1>1, StoreShape DEF StoreInv
  <2>2. /\ created' \subseteq Ids /\ states' \subseteq created' /\ expired' \subseteq created'
        /\ run' \in [Ids -> {"none", "live", "ended"}]
        /\ indexed' \subseteq Ids
        /\ tombstone' \in [Ids -> {"none", "kept", "due"}]
        /\ detections' \in [Ids -> Nat]
        /\ DetectionInv' /\ NothingOutlivesItsConversation'
    BY <2>1, ConversationStep DEF StoreInv
  <2>3. CASE Advances /\ UNCHANGED <<sweeper, stopped>>
    <3>1. OneSweeper'
      BY <2>3 DEF Advances, Awake, OneSweeper, StoreInv
    <3> QED  BY <2>2, <2>3, <3>1 DEF StoreInv, StoreTypeOK, Advances
  <2>4. CASE Close
    BY <2>2, <2>4 DEF Close, StoreInv, StoreTypeOK, OneSweeper
  <2>5. ASSUME NEW t \in Threads, Create(t)
        PROVE  StoreInv'
    BY <2>2, <2>5, CreateStarts DEF StoreInv, StoreTypeOK
  <2> QED  BY <1>1, <2>3, <2>4, <2>5, OtherStepsAdvance DEF StoreInv
<1>2. CASE UNCHANGED vars
  BY <1>2 DEF vars, StoreInv, StoreTypeOK, DetectionInv, NothingOutlivesItsConversation,
              OneSweeper
<1> QED  BY <1>1, <1>2

LEMMA StoreAlways == Spec => []StoreInv
BY StoreInit, StoreStep, PTL DEF Spec

(* However many requests and Sweepers find one Conversation expired, expire
   answers True to one of them.                                              *)
THEOREM OneFirstDetector == Spec => []FirstDetectorIsUnique
<1>1. StoreInv => FirstDetectorIsUnique
  BY DEF StoreInv, DetectionInv, FirstDetectorIsUnique
<1> QED  BY <1>1, StoreAlways, PTL

(* Nothing made late, by a caller that authorized before the Purge or by a
   commit that comes after it, stays behind for the life of the process.     *)
THEOREM PurgeLeavesNothing == Spec => []NothingOutlivesItsConversation
<1>1. StoreInv => NothingOutlivesItsConversation
  BY DEF StoreInv
<1> QED  BY <1>1, StoreAlways, PTL

(* Creations that race each other and close() start one Sweeper at most, and
   after close() none.                                                       *)
THEOREM OneSweeperRuns == Spec => []OneSweeper
<1>1. StoreInv => OneSweeper
  BY DEF StoreInv
<1> QED  BY <1>1, StoreAlways, PTL

-----------------------------------------------------------------------------
(* The rate table, which no other variable follows.                          *)
Entry == [subject : Threads, count : Nat, over : BOOLEAN]
RateInv == rates \in Seq(Entry) /\ RateTableHolds

(* Entries that a table chooses from another, each once, keep it in bounds.  *)
LEMMA ChosenHolds ==
    ASSUME RateInv, NEW n \in 0..Len(rates), NEW kept \in [1..n -> 1..Len(rates)],
           \A j, k \in 1..n : j < k => kept[j] < kept[k],
           rates' = [j \in 1..n |-> rates[kept[j]]]
    PROVE  RateInv'
<1>1. rates \in Seq(Entry) /\ Len(rates) \in Nat /\ n \in Nat /\ MaxRateKeys \in Nat
  BY StoreAssumption DEF RateInv
<1>2. \A j \in 1..n : kept[j] \in 1..Len(rates) /\ rates'[j] = rates[kept[j]]
  OBVIOUS
<1>3. \A i \in 1..Len(rates) : rates[i] \in Entry
  BY <1>1
<1>4. \A j \in 1..n : rates[kept[j]] \in Entry
  BY <1>2, <1>3
<1>5. rates' \in Seq(Entry) /\ Len(rates') = n
  BY <1>1, <1>4
<1>6. ASSUME NEW j \in 1..n, NEW k \in 1..n, rates'[j].subject = rates'[k].subject
      PROVE  j = k
  <2>1. kept[j] = kept[k]
    BY <1>2, <1>6 DEF RateInv, RateTableHolds
  <2>2. kept[j] \in Nat /\ kept[k] \in Nat
    BY <1>2
  <2> QED  BY <2>1, <2>2, <1>1
<1>7. \A j \in 1..n : rates'[j].count \in 1..CreateRate
  BY <1>2 DEF RateInv, RateTableHolds
<1>8. Len(rates') <= MaxRateKeys
  BY <1>1, <1>5 DEF RateInv, RateTableHolds
<1> QED  BY <1>5, <1>6, <1>7, <1>8 DEF RateInv, RateTableHolds

(* check_rate: the table had room for the newcomer, or made some.            *)
LEMMA ChargeHolds ==
    ASSUME RateInv, NEW t \in Threads, rates' = Charged(t)
    PROVE  RateInv'
<1>0. /\ rates \in Seq(Entry) /\ Len(rates) \in Nat /\ Len(rates) <= MaxRateKeys
      /\ MaxRateKeys \in Nat \ {0} /\ CreateRate \in Nat \ {0} /\ EvictionBatch \in 1..MaxRateKeys
      /\ \A i \in 1..Len(rates) : rates[i] \in Entry /\ rates[i].count \in 1..CreateRate
  BY StoreAssumption DEF RateInv, RateTableHolds
<1>1. CASE Known(t)
  <2> DEFINE entry(i) ==
               IF rates[i].subject # t THEN rates[i]
               ELSE IF rates[i].over THEN [rates[i] EXCEPT !.count = 1, !.over = FALSE]
               ELSE IF rates[i].count < CreateRate THEN [rates[i] EXCEPT !.count = @ + 1]
               ELSE rates[i]
  <2>1. rates' = [i \in 1..Len(rates) |-> entry(i)]
    BY <1>1 DEF Charged
  <2>2. ASSUME NEW i \in 1..Len(rates)
        PROVE  /\ entry(i) \in Entry /\ entry(i).subject = rates[i].subject
               /\ entry(i).count \in 1..CreateRate
    <3> DEFINE e == rates[i]
    <3>1. e \in Entry /\ e.count \in 1..CreateRate
      BY <1>0
    <3> HIDE DEF e
    <3> DEFINE first == [e EXCEPT !.count = 1, !.over = FALSE]
               next  == [e EXCEPT !.count = @ + 1]
    <3>2. first \in Entry /\ first.subject = e.subject /\ first.count = 1
      BY <3>1 DEF Entry
    <3>3. next \in Entry /\ next.subject = e.subject /\ next.count = e.count + 1
      BY <3>1 DEF Entry
    <3> HIDE DEF first, next
    <3>4. 1 \in 1..CreateRate /\ (e.count < CreateRate => e.count + 1 \in 1..CreateRate)
      BY <1>0, <3>1
    <3>5. entry(i) = e \/ entry(i) = first \/ (entry(i) = next /\ e.count < CreateRate)
      BY DEF e, first, next
    <3> QED  BY <3>1, <3>2, <3>3, <3>4, <3>5 DEF e
  <2>3. \A i \in 1..Len(rates) : entry(i) \in Entry
    BY <2>2
  <2>4. \A i \in 1..Len(rates) : entry(i).subject = rates[i].subject
                                  /\ entry(i).count \in 1..CreateRate
    BY <2>2
  <2> HIDE DEF entry
  <2>5. /\ rates' \in Seq(Entry) /\ Len(rates') = Len(rates)
        /\ \A i \in 1..Len(rates) : rates'[i] = entry(i)
    BY <1>0, <2>1, <2>3
  <2> QED  BY <2>4, <2>5 DEF RateInv, RateTableHolds
<1>2. CASE ~Known(t)
  <2> DEFINE first == IF Len(rates) < MaxRateKeys THEN 0 ELSE EvictionBatch
             left == IF Len(rates) < MaxRateKeys THEN rates
                     ELSE SubSeq(rates, EvictionBatch + 1, Len(rates))
             new == [subject |-> t, count |-> 1, over |-> FALSE]
  <2>1. new \in Entry /\ new.subject = t /\ new.count \in 1..CreateRate
    BY <1>0 DEF Entry
  <2>2. /\ left \in Seq(Entry) /\ Len(left) \in Nat /\ Len(left) < MaxRateKeys
        /\ first \in Nat
        /\ \A i \in 1..Len(left) : i + first \in 1..Len(rates) /\ left[i] = rates[i + first]
    <3>1. CASE Len(rates) < MaxRateKeys
      BY <1>0, <3>1
    <3>2. CASE ~(Len(rates) < MaxRateKeys)
      <4>1. Len(rates) = MaxRateKeys /\ EvictionBatch \in Nat /\ EvictionBatch <= Len(rates)
        BY <1>0, <3>2
      <4>2. /\ SubSeq(rates, EvictionBatch + 1, Len(rates)) \in Seq(Entry)
            /\ Len(SubSeq(rates, EvictionBatch + 1, Len(rates))) = Len(rates) - EvictionBatch
            /\ \A i \in 1..(Len(rates) - EvictionBatch) :
                  SubSeq(rates, EvictionBatch + 1, Len(rates))[i] = rates[i + EvictionBatch]
        BY <1>0, <4>1
      <4> QED  BY <1>0, <3>2, <4>1, <4>2
    <3> QED  BY <3>1, <3>2
  <2>3. rates' = Append(left, new)
    BY <1>2 DEF Charged
  <2> HIDE DEF left, new, first
  <2>4. /\ rates' \in Seq(Entry) /\ Len(rates') = Len(left) + 1
        /\ \A i \in 1..Len(left) : rates'[i] = left[i]
        /\ rates'[Len(left) + 1] = new
    BY <2>1, <2>2, <2>3
  <2>5. \A i \in 1..Len(left) : left[i].subject # t /\ left[i].count \in 1..CreateRate
    BY <1>0, <1>2, <2>2 DEF Known
  <2>6. \A i, j \in 1..Len(left) : left[i].subject = left[j].subject => i = j
    <3> SUFFICES ASSUME NEW i \in 1..Len(left), NEW j \in 1..Len(left),
                        left[i].subject = left[j].subject
                 PROVE  i = j
      OBVIOUS
    <3>1. i + first = j + first
      BY <2>2 DEF RateInv, RateTableHolds
    <3> QED  BY <2>2, <3>1
  <2>7. \A i \in 1..Len(rates') : i \in 1..Len(left) \/ i = Len(left) + 1
    BY <2>2, <2>4
  <2>8. Len(rates') <= MaxRateKeys
    BY <1>0, <2>2, <2>4
  <2>9. \A i \in 1..Len(rates') : rates'[i].count \in 1..CreateRate
    BY <2>1, <2>4, <2>5, <2>7
  <2>10. ASSUME NEW i \in 1..Len(rates'), NEW j \in 1..Len(rates'),
                rates'[i].subject = rates'[j].subject
         PROVE  i = j
    BY <2>1, <2>4, <2>5, <2>6, <2>7, <2>10
  <2> QED  BY <2>4, <2>8, <2>9, <2>10 DEF RateInv, RateTableHolds
<1> QED  BY <1>1, <1>2

LEMMA PassHolds ==
    ASSUME RateInv, NEW t \in Threads, WindowPasses(t)
    PROVE  RateInv'
<1> DEFINE entry(i) == IF rates[i].subject = t THEN [rates[i] EXCEPT !.over = TRUE] ELSE rates[i]
<1>1. rates' = [i \in 1..Len(rates) |-> entry(i)]
  BY DEF WindowPasses
<1>2. Len(rates) \in Nat /\ \A i \in 1..Len(rates) : rates[i] \in Entry
  BY DEF RateInv
<1>3. \A i \in 1..Len(rates) : entry(i) \in Entry
  BY <1>2 DEF Entry
<1>4. \A i \in 1..Len(rates) : entry(i).subject = rates[i].subject
                                /\ entry(i).count = rates[i].count
  BY <1>2 DEF Entry
<1> HIDE DEF entry
<1>5. /\ rates' \in Seq(Entry) /\ Len(rates') = Len(rates)
      /\ \A i \in 1..Len(rates) : rates'[i] = entry(i)
  BY <1>1, <1>2, <1>3
<1> QED  BY <1>4, <1>5 DEF RateInv, RateTableHolds

LEMMA RateStep == RateInv /\ [Next]_vars => RateInv'
<1> SUFFICES ASSUME RateInv, [Next]_vars PROVE RateInv'
  OBVIOUS
<1>1. ASSUME NEW t \in Threads, AllowCreation(t) PROVE RateInv'
  BY <1>1, ChargeHolds DEF AllowCreation
<1>2. ASSUME NEW t \in Threads, WindowPasses(t) PROVE RateInv'
  BY <1>2, PassHolds
<1>3. ASSUME NEW s \in Sweepers, Sweep(s) PROVE RateInv'
  BY <1>3, ChosenHolds DEF Sweep
<1>4. CASE UNCHANGED rates
  BY <1>4 DEF RateInv, RateTableHolds
<1>5. \/ UNCHANGED rates
      \/ \E t \in Threads : AllowCreation(t) \/ WindowPasses(t)
      \/ \E s \in Sweepers : Sweep(s)
  <2>1. CASE Next
    BY <2>1 DEF Next, Close, Create, CreateRefused, AuthorizeByRun, Refused, ExpireRequest,
           Access, AccessByRun, Ask, Cancel, StopRun, Wake, ExpireDue, Purge, RunEnds,
           AbsoluteExpiry, TombstoneAges, registry
  <2> QED  BY <2>1 DEF vars
<1> QED  BY <1>1, <1>2, <1>3, <1>4, <1>5

(* The registry, the Sweeper and the rate table at once, for every number of
   Conversations, threads, subjects and every size of the table and of the
   batch it gives up.                                                        *)
THEOREM StoreStaysConsistent == Spec => []StoreIsConsistent
<1>1. Init => RateInv
  BY StoreAssumption DEF Init, RateInv, RateTableHolds
<1>2. Spec => []RateInv
  BY <1>1, RateStep, PTL DEF Spec
<1>3. StoreInv /\ RateInv => StoreIsConsistent
  BY DEF StoreInv, RateInv, StoreIsConsistent
<1> QED  BY <1>2, <1>3, StoreAlways, PTL
=============================================================================
