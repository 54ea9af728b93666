-------------------------- MODULE EventStream_proofs --------------------------
(***************************************************************************)
(* Two components, for every number of requests, Runs and slots, and every *)
(* cursor a client may send.  The streams (StreamSpec): the SSE counter is *)
(* the number of streams that hold a slot; a stream writes the log from    *)
(* its cursor on; one the server closes before the Deadline has written    *)
(* stream.end; an expiry is announced only to end the stream of a Run that *)
(* had not ended.  And the tab that follows one Run of them (ClientSpec),  *)
(* from "The tab" on: no frame is ever refused, a projection contradicts   *)
(* only an answer that was cut short, and what is shown as the end is how  *)
(* the Run ended.  What is proved of StreamSpec cites nothing of the tab.  *)
(***************************************************************************)
EXTENDS WebClient, Conversation_proofs, SequenceTheorems

-----------------------------------------------------------------------------
(* What a step may do to the store is a step of the Conversation.            *)
LEMMA ObserveIsWide ==
    ASSUME NEW q \in Requests, NEW next, Observe(q, next)
    PROVE  [Wide]_vars
BY DEF Observe, Wide, Next

LEMMA StreamIsWide ==
    ASSUME TypeOK, [StreamNext]_streamVars
    PROVE  [Wide]_vars
<1>1. ASSUME StoreStep PROVE Wide
  <2>1. ASSUME NEW r \in Runs, ReachDeadline(r) PROVE Rings
    <3>1. overdue \subseteq overdue' /\ overdue' \subseteq Runs
      BY <2>1 DEF ReachDeadline, TypeOK
    <3> QED  BY <2>1, <3>1 DEF ReachDeadline, Rings
  <2>2. ASSUME NEW r \in Runs, TruncateContext(r) PROVE Truncates(r)
    BY <2>2 DEF TruncateContext, Truncates
  <2> QED  BY <1>1, <2>1, <2>2 DEF StoreStep, StoreMoves, Wide, Next
<1>2. ASSUME NEW q \in Requests, Enforce(q) PROVE [Wide]_vars
  <2> DEFINE r == request[q].run
  <2>1. UNCHANGED vars \/ (r \in Runs /\ CommitTimeout(r))
    BY <1>2 DEF Enforce, TypeOK
  <2> HIDE DEF r
  <2>2. r \in Runs /\ CommitTimeout(r) => Next
    BY DEF Next
  <2> QED  BY <2>1, <2>2 DEF Wide
<1>3. ASSUME NEW q \in Requests, Look(q) \/ Reread(q) PROVE [Wide]_vars
  BY <1>3, ObserveIsWide DEF Look, Reread
<1>4. ASSUME NEW q \in Requests, Serve(q) PROVE [Wide]_vars
  <2>1. Look(q) \/ Reread(q) \/ Enforce(q) \/ UNCHANGED vars
    BY <1>4 DEF Serve, RefuseRate, AnswerPoll, RefuseStream, OpenStream, Begin, Write, Return,
                SleepAndLoop, WriteTail, Cut, Discard, Finally, Background, Proceed,
                ReleaseStreamOnce
  <2> QED  BY <1>2, <1>3, <2>1
<1>5. ASSUME NEW q \in Requests,
             \/ \E kind, r, c : Connect(q, kind, r, c)
             \/ Hangup(q)
      PROVE  UNCHANGED vars
  BY <1>5 DEF Connect, Hangup
<1> QED  BY <1>1, <1>4, <1>5 DEF StreamNext, streamVars

(* What such a step leaves of a log, a Run that ended, and a tombstone.      *)
LEMMA StoreStays ==
    ASSUME CoreInv, [Wide]_vars
    PROVE  /\ resident' => resident
           /\ resident /\ ~resident' => Purges
           /\ ~resident \/ resident' => tombstone' \in {tombstone, None}
           /\ overdue \subseteq overdue'
<1>1. ASSUME NEW r \in Runs, Admits(r) \/ Starts(r) \/ Grows(r) \/ Answers(r) \/ Closes(r)
      PROVE  UNCHANGED <<resident, tombstone, overdue>>
  BY <1>1 DEF Admits, Starts, Grows, GrowsByOne, Answers, Closes, Extends, Ends, Moves
<1>2. ASSUME Keeps
      PROVE  resident' = resident /\ tombstone' \in {tombstone, None} /\ overdue \subseteq overdue'
  BY <1>2 DEF Keeps
<1>3. ASSUME Purges PROVE resident /\ ~resident' /\ overdue' = overdue
  BY <1>3 DEF Purges
<1>4. CASE UNCHANGED vars
  BY <1>4 DEF vars
<1> QED  BY <1>1, <1>2, <1>3, <1>4, StepShape DEF CoreInv

LEMMA AcceptedStay ==
    ASSUME CoreInv, [Wide]_vars, resident', NEW r \in Runs, runs[r].state # "absent"
    PROVE  runs'[r].state # "absent"
<1>1. ASSUME NEW q \in Runs, Admits(q) PROVE runs'[r].state # "absent"
  BY <1>1 DEF Admits, CoreInv, TypeOK
<1>2. ASSUME NEW q \in Runs, Starts(q) \/ Grows(q) \/ Answers(q) \/ Closes(q)
      PROVE  runs'[r].state # "absent"
  <2>1. \E s \in {"running"} \cup EndStates : runs'[q].state = s
    BY <1>2 DEF Starts, Grows, GrowsByOne, Answers, Closes, Extends, Ends, Moves, EndStates
  <2>2. r # q => runs'[r] = runs[r]
    BY <1>2 DEF Starts, Grows, GrowsByOne, Answers, Closes, Extends, Ends, Moves, CoreInv, TypeOK
  <2> QED  BY <2>1, <2>2 DEF EndStates
<1>3. CASE Keeps
  BY <1>3 DEF Keeps
<1>4. CASE UNCHANGED vars
  BY <1>4 DEF vars
<1> QED  BY <1>1, <1>2, <1>3, <1>4, StepShape DEF CoreInv, Purges

LEMMA LogsStay ==
    ASSUME CoreInv, [Wide]_vars, resident', NEW r \in Accepted
    PROVE  /\ r \in Accepted'
           /\ runs[r].state \in EndStates => runs'[r] = runs[r]
           /\ Len(runs[r].log) <= Len(runs'[r].log)
           /\ \A i \in 1..Len(runs[r].log) : runs'[r].log[i] = runs[r].log[i]
<1>1. r \in Runs /\ runs[r].log \in Seq(EventType) /\ runs[r].state # "absent"
  BY SizesAreNat DEF Accepted, CoreInv
<1>2. /\ runs[r].state \in EndStates => runs'[r] = runs[r]
      /\ Prefix(runs[r].log, runs'[r].log)
  BY <1>1, LogsGrow
<1>3. runs'[r].log \in Seq(EventType)
  <2>1. TypeOK'
    BY TypeStep DEF CoreInv
  <2> QED  BY <1>1, <2>1 DEF TypeOK, RunType
<1>4. \A i \in 1..Len(runs[r].log) : runs'[r].log[i] = runs[r].log[i]
  BY <1>1, <1>2, <1>3 DEF Prefix
<1>5. runs'[r].state # "absent"
  BY <1>1, AcceptedStay
<1> QED  BY <1>1, <1>2, <1>4, <1>5 DEF Accepted, Prefix

-----------------------------------------------------------------------------
(* The slots.                                                                *)
Held == {q \in Requests : request[q].slot}
SlotInv ==
    /\ IsFiniteSet(Held) /\ sse = Cardinality(Held) /\ sse <= MaxStreams

(* Where a request stands tells what it holds: it has no slot and no client
   that follows it before it is answered, and drops what it read when it ends. *)
Stands(q) ==
    LET req == request[q]
    IN  /\ req.at \in {"away", "decide"} => ~req.slot
        /\ req.up => req.slot \/ req.at \in {"closing", "ended", "closed"}
        /\ req.at \in {"away", "open", "tail"} => req.view = Nothing
        /\ req.at \in {"closing", "ended", "closed"} => ~req.up \/ req.view.events = <<>>
        /\ req.at = "away" => req.sent = <<>>
        /\ req.at # "away" => req.run \in Runs
        /\ ~req.up => req.sent = <<>>

-----------------------------------------------------------------------------
(* The frames.  What was written and what was read and is to be written next
   are stretches of the log that meet at the cursor, while there is a log; who
   turned to the tail found none.                                             *)
Stretch(events, log, from) ==
    /\ from + Len(events) <= Len(log)
    /\ \A i \in 1..Len(events) : events[i] = log[from + i]
Framed(q) ==
    LET req == request[q]
        log == runs[req.run].log
    IN  resident /\ req.at # "away" =>
        /\ req.run \in Accepted /\ req.at # "tail"
        /\ req.sent # <<>> =>
              /\ Len(req.sent) <= req.cursor
              /\ Stretch(req.sent, log, req.cursor - Len(req.sent))
        /\ req.view.events # <<>> => Stretch(req.view.events, log, req.cursor)

(* The end.  What a stream read of an ended Run is all there is.             *)
Closed(q) ==
    LET req == request[q]
        run == runs[req.run]
    IN  resident /\ req.at # "away" =>
        /\ req.at = "write" =>
              /\ req.view.state \in LiveStates \cup EndStates
              /\ req.view.state \in EndStates =>
                    /\ run.state = req.view.state
                    /\ req.cursor + Len(req.view.events) >= Len(run.log)
        /\ /\ req.at \in {"closing", "ended", "closed"}
           /\ req.reply = "stream" /\ req.up /\ req.run \notin overdue
           => run.state \in EndStates /\ req.cursor >= Len(run.log)

-----------------------------------------------------------------------------
(* The expiry.  A log knows nothing of it, and the pair a Purge leaves follows
   the log of a Run that had not ended.                                      *)
Plain(e) == e.type # "conversation.expired" /\ e.state # "expired"
LogsArePlain == \A r \in Runs : \A i \in 1..Len(runs[r].log) : Plain(runs[r].log[i])
PairInv == tombstone # None => \E n \in Nat : tombstone.tail = ExpiryTail(n)

(* An event is old when it can only precede the pair.                        *)
Old(e, r) ==
    /\ Plain(e)
    /\ ~resident /\ tombstone # None /\ tombstone.run = r =>
          e.seq < tombstone.tail[1].seq /\ e.type # "stream.end"
Out(q) == request[q].sent \o request[q].view.events
BeforeTail(q) ==
    \/ request[q].at \notin {"write", "closing", "ended", "closed"}
    \/ request[q].at = "write" /\ request[q].view.state # "absent"
EndsOnce(out) ==
    \A i \in 1..Len(out) :
        /\ out[i].type = "conversation.expired" =>
              /\ i = Len(out) - 1 /\ out[Len(out)].state = "expired"
              /\ \A j \in 1..i - 1 : out[j].seq < out[i].seq /\ out[j].type # "stream.end"
        /\ out[i].state = "expired" /\ i > 1 => out[i - 1].type = "conversation.expired"
Announced(q) ==
    /\ EndsOnce(Out(q))
    /\ BeforeTail(q) => \A i \in 1..Len(Out(q)) : Old(Out(q)[i], request[q].run)
    /\ resident => \A i \in 1..Len(Out(q)) : Plain(Out(q)[i])
    /\ request[q].sent # <<>> =>
          request[q].cursor = request[q].sent[Len(request[q].sent)].seq

-----------------------------------------------------------------------------
(* The steps of one request, told by the fields they change.  Most set where it
   stands, what it answered and what it has read; the rest of it stays.       *)
ReqType ==
    [at : Steps, kind : {"none", "poll", "stream"}, run : Runs \cup {None},
     cursor : Nat, view : View, sent : Seq(EventType), slot : BOOLEAN, up : BOOLEAN,
     reply : Replies]

LEMMA ReqIs ==
    StreamTypeOK <=> request \in [Requests -> ReqType] /\ sse \in 0..MaxStreams
BY DEF StreamTypeOK, ReqType

Turns(q) ==
    /\ request' = [request EXCEPT ![q] = request'[q]]
    /\ request'[q] \in ReqType /\ request'[q].run = request[q].run
    /\ request'[q].kind = request[q].kind
Sets(q, at, reply, view) ==
    /\ Turns(q)
    /\ request'[q].at = at /\ request'[q].reply = reply /\ request'[q].view = view
    /\ request'[q].cursor = request[q].cursor /\ request'[q].sent = request[q].sent
    /\ request'[q].slot = request[q].slot /\ request'[q].up = request[q].up

LEMMA SetsFields ==
    ASSUME StreamTypeOK, NEW q \in Requests, NEW at \in Steps, NEW reply \in Replies,
           NEW view \in View,
           request' = [request EXCEPT ![q] = [request[q] EXCEPT !.at = at, !.reply = reply,
                                                                !.view = view]]
    PROVE  Sets(q, at, reply, view)
<1> DEFINE new == [request[q] EXCEPT !.at = at, !.reply = reply, !.view = view]
<1>1. request[q] \in ReqType
  BY ReqIs
<1>2. /\ new \in ReqType /\ new.at = at /\ new.reply = reply /\ new.view = view
      /\ new.run = request[q].run /\ new.kind = request[q].kind
      /\ new.cursor = request[q].cursor
      /\ new.sent = request[q].sent /\ new.slot = request[q].slot /\ new.up = request[q].up
  BY <1>1 DEF ReqType
<1>3. request'[q] = new /\ request' = [request EXCEPT ![q] = new]
  BY ReqIs
<1> HIDE DEF new
<1> QED  BY <1>2, <1>3 DEF Sets, Turns

LEMMA NothingTyped ==
    /\ Nothing \in View /\ Nothing.events = <<>> /\ Nothing.state = "absent"
    /\ Away \in ReqType /\ Away.at = "away" /\ Away.slot = FALSE /\ Away.up = FALSE
    /\ Away.sent = <<>> /\ Away.view = Nothing
BY DEF Nothing, View, Away, ReqType, Steps, Replies

LEMMA SliceTyped ==
    ASSUME TypeOK, StreamTypeOK, NEW q \in Requests, request[q].run \in Runs
    PROVE  LET log == runs[request[q].run].log
           IN  /\ Slice(q) \in View /\ Slice(q).state = runs[request[q].run].state
               /\ Slice(q).events = IF request[q].slot
                                    THEN SubSeq(log, request[q].cursor + 1, Len(log))
                                    ELSE <<>>
<1> DEFINE log == runs[request[q].run].log
           events == IF request[q].slot THEN SubSeq(log, request[q].cursor + 1, Len(log))
                     ELSE <<>>
<1>1. log \in Seq(EventType) /\ Len(log) \in Nat /\ runs[request[q].run] \in RunType
  BY SizesAreNat
<1>2. request[q].cursor \in Nat
  BY ReqIs DEF ReqType
<1>3. events \in Seq(EventType)
  BY <1>1, <1>2
<1>4. Deltas(log) \in Nat
  <2>1. IsFiniteSet(1..Len(log))
    BY <1>1, FS_Interval
  <2>2. {i \in 1..Len(log) : log[i].type = "message.delta"} \in SUBSET (1..Len(log))
    OBVIOUS
  <2> QED  BY <2>1, <2>2, FS_Subset, FS_CardinalityType DEF Deltas
<1>5. runs[request[q].run].state \in {"absent"} \cup LiveStates \cup EndStates
  BY <1>1 DEF RunType
<1>6. Slice(q) = [state |-> runs[request[q].run].state, events |-> events,
                  latest |-> Len(log), content |-> Deltas(log)]
  BY DEF Slice
<1> HIDE DEF events, log
<1>7. Slice(q) \in View /\ Slice(q).state = runs[request[q].run].state /\ Slice(q).events = events
  BY <1>1, <1>3, <1>4, <1>5, <1>6 DEF View
<1> QED  BY <1>7 DEF events, log

Reads(q) ==
    /\ request[q].at \in {"look", "reread"} /\ resident /\ UNCHANGED <<vars, sse>>
    /\ \E at \in {"enforce", AfterRead(q)} : Sets(q, at, request[q].reply, Slice(q))
Loses(q) ==
    /\ request[q].at \in {"look", "reread"} /\ ~resident' /\ UNCHANGED sse
    /\ \/ request[q].slot /\ Sets(q, "tail", request[q].reply, Nothing)
       \/ /\ ~request[q].slot
          /\ \E reply \in {"expired", "not_found"} : Sets(q, "closed", reply, Nothing)
Enforces(q) ==
    /\ request[q].at = "enforce" /\ UNCHANGED sse
    /\ Sets(q, "reread", request[q].reply, request[q].view)
Refuses(q) ==
    /\ request[q].at \in {"look", "decide"}
    /\ request[q].at = "look" => ~request[q].slot
    /\ UNCHANGED <<vars, sse>>
    /\ \E reply \in Replies \ {"stream"}, view \in {Nothing, request[q].view} :
          /\ Sets(q, "closed", reply, view)
          /\ reply = "ok" => request[q].at = "decide" /\ view = request[q].view
Opens(q) ==
    /\ request[q].at = "decide" /\ request[q].kind = "stream"
    /\ sse < MaxStreams /\ sse' = sse + 1 /\ UNCHANGED vars
    /\ Turns(q) /\ request'[q].at = "open" /\ request'[q].reply = "stream"
    /\ request'[q].view = Nothing /\ request'[q].slot = TRUE /\ request'[q].up = TRUE
    /\ request'[q].cursor = request[q].cursor /\ request'[q].sent = request[q].sent
Goes(q) ==
    /\ UNCHANGED <<vars, sse>>
    /\ \E at \in Steps :
          /\ Sets(q, at, request[q].reply, request[q].view)
          /\ \/ request[q].at = "open" /\ at = "look"
             \/ /\ request[q].at = "write" /\ request[q].view.events = <<>>
                /\ request[q].view.state \in LiveStates /\ at = "look"
             \/ /\ request[q].at = "write" /\ request[q].view.events = <<>>
                /\ request[q].view.state \notin LiveStates \/ request[q].run \in overdue
                /\ at = "closing"
             \/ request[q].at = "write" /\ ~request[q].up /\ at = "closing"
             \/ request[q].at = "open" /\ ~request[q].up /\ at = "ended"
Sends(q) ==
    LET events == request[q].view.events
    IN  /\ request[q].at = "write" /\ request[q].up /\ events # <<>> /\ UNCHANGED <<vars, sse>>
        /\ Turns(q) /\ request'[q].at = "write" /\ request'[q].reply = request[q].reply
        /\ request'[q].view.events = Tail(events)
        /\ request'[q].view.state = request[q].view.state
        /\ request'[q].sent = Append(request[q].sent, Head(events))
        /\ request'[q].cursor = Head(events).seq
        /\ request'[q].slot = request[q].slot /\ request'[q].up = request[q].up
Tells(q) ==
    /\ request[q].at = "tail" /\ UNCHANGED <<vars, sse>>
    /\ \E view \in View :
          /\ Sets(q, "write", request[q].reply, view)
          /\ view.state = request[q].view.state
          /\ view.events = IF tombstone # None /\ tombstone.run = request[q].run
                           THEN PairAfter(tombstone.tail, request[q].cursor) ELSE <<>>
Hangs(q) ==
    /\ request[q].slot /\ request[q].up /\ UNCHANGED <<vars, sse>>
    /\ Turns(q) /\ request'[q].at = request[q].at /\ request'[q].reply = request[q].reply
    /\ request'[q].view = request[q].view /\ request'[q].slot = request[q].slot
    /\ request'[q].up = FALSE
    /\ request'[q].cursor = request[q].cursor /\ request'[q].sent = <<>>
Frees(q) ==
    /\ request[q].at \in {"closing", "ended"} /\ UNCHANGED vars
    /\ sse' = IF request[q].slot /\ sse > 0 THEN sse - 1 ELSE sse
    /\ Turns(q) /\ request'[q].at \in {"ended", "closed"}
    /\ request'[q].reply = request[q].reply /\ request'[q].view = Nothing
    /\ request'[q].slot = FALSE /\ request'[q].up = request[q].up
    /\ request'[q].cursor = request[q].cursor /\ request'[q].sent = request[q].sent
Connects(q) ==
    /\ request[q].at = "away" /\ ~request[q].slot /\ UNCHANGED <<vars, sse>>
    /\ request' = [request EXCEPT ![q] = request'[q]] /\ request'[q] \in ReqType
    /\ request'[q].run \in Runs /\ (request'[q].run \in Accepted \/ ~resident)
    /\ request'[q].at = "look" /\ request'[q].slot = FALSE /\ request'[q].up = FALSE
    /\ request'[q].sent = <<>> /\ request'[q].view = Nothing

LEMMA ObserveShape ==
    ASSUME TypeOK, StreamTypeOK, NEW q \in Requests, NEW next \in {"enforce", AfterRead(q)},
           request[q].at \in {"look", "reread"}, request[q].run \in Runs, Observe(q, next)
    PROVE  Reads(q) \/ Loses(q)
<1>t. request[q] \in ReqType /\ request[q].reply \in Replies /\ next \in Steps
  BY ReqIs DEF ReqType, Steps, AfterRead
<1>1. CASE resident /\ ~expired /\ UNCHANGED <<vars, sse>>
           /\ request' = [request EXCEPT ![q].view = Slice(q), ![q].at = next]
  <2>1. Slice(q) \in View
    BY SliceTyped
  <2>2. request' = [request EXCEPT ![q] = [request[q] EXCEPT !.at = next,
                        !.reply = request[q].reply, !.view = Slice(q)]]
    BY <1>t, <1>1, ReqIs DEF ReqType
  <2>3. Sets(q, next, request[q].reply, Slice(q))
    BY <1>t, <2>1, <2>2, SetsFields
  <2> QED  BY <1>1, <2>3 DEF Reads
<1>2. ASSUME NEW reply \in {"expired", "not_found"}, Lose(q, reply), ~resident', UNCHANGED sse
      PROVE  Loses(q)
  <2>1. CASE request[q].slot
    <3>1. request' = [request EXCEPT ![q] = [request[q] EXCEPT !.at = "tail",
                          !.reply = request[q].reply, !.view = Nothing]]
      BY <1>t, <1>2, <2>1, ReqIs DEF ReqType, Lose
    <3>2. Sets(q, "tail", request[q].reply, Nothing)
      BY <1>t, <3>1, SetsFields, NothingTyped DEF Steps
    <3> QED  BY <1>2, <2>1, <3>2 DEF Loses
  <2>2. CASE ~request[q].slot
    <3>1. request' = [request EXCEPT ![q] = [request[q] EXCEPT !.at = "closed",
                          !.reply = reply, !.view = Nothing]]
      BY <1>t, <1>2, <2>2, ReqIs DEF ReqType, Lose, Reply
    <3>2. Sets(q, "closed", reply, Nothing)
      BY <1>t, <3>1, SetsFields, NothingTyped DEF Steps, Replies
    <3> QED  BY <1>2, <2>2, <3>2 DEF Loses
  <2> QED  BY <2>1, <2>2
<1>3. Expire => ~resident'
  BY DEF Expire
<1>4. UNCHANGED vars => resident' = resident
  BY DEF vars
<1> QED  BY <1>1, <1>2, <1>3, <1>4 DEF Observe

(* Setting only where a request stands.                                      *)
LEMMA ProceedSets ==
    ASSUME StreamTypeOK, NEW q \in Requests, NEW at \in Steps,
           request' = [request EXCEPT ![q].at = at]
    PROVE  Sets(q, at, request[q].reply, request[q].view)
<1>1. request[q] \in ReqType /\ request[q].reply \in Replies /\ request[q].view \in View
  BY ReqIs DEF ReqType
<1>2. request' = [request EXCEPT ![q] = [request[q] EXCEPT !.at = at,
                      !.reply = request[q].reply, !.view = request[q].view]]
  BY <1>1, ReqIs DEF ReqType
<1> QED  BY <1>1, <1>2, SetsFields

LEMMA ReplySets ==
    ASSUME StreamTypeOK, NEW q \in Requests, NEW reply \in Replies, Reply(q, reply)
    PROVE  Sets(q, "closed", reply, Nothing)
<1>1. request' = [request EXCEPT ![q] = [request[q] EXCEPT !.at = "closed",
                      !.reply = reply, !.view = Nothing]]
  BY ReqIs DEF ReqType, Reply
<1> QED  BY <1>1, SetsFields, NothingTyped DEF Steps

LEMMA RefuseShape ==
    ASSUME TypeOK, StreamTypeOK, NEW q \in Requests,
           RefuseRate(q) \/ AnswerPoll(q) \/ RefuseStream(q)
    PROVE  Refuses(q)
<1>1. CASE RefuseRate(q)
  <2>1. Sets(q, "closed", "rate_limited", Nothing)
    BY <1>1, ReplySets DEF RefuseRate, Replies
  <2> QED  BY <1>1, <2>1 DEF RefuseRate, Refuses, Replies
<1>2. CASE AnswerPoll(q)
  <2>1. request[q] \in ReqType /\ request[q].view \in View
    BY ReqIs DEF ReqType
  <2>2. request' = [request EXCEPT ![q] = [request[q] EXCEPT !.at = "closed",
                        !.reply = "ok", !.view = request[q].view]]
    BY <1>2, <2>1, ReqIs DEF ReqType, AnswerPoll
  <2>3. Sets(q, "closed", "ok", request[q].view)
    BY <2>1, <2>2, SetsFields DEF Steps, Replies
  <2> QED  BY <1>2, <2>3 DEF AnswerPoll, Deciding, Refuses, Replies
<1>3. CASE RefuseStream(q)
  <2>1. \E reply \in Replies \ {"stream", "ok"} : Reply(q, reply)
    BY <1>3 DEF RefuseStream, CursorReply, Replies
  <2>2. \E reply \in Replies \ {"stream", "ok"} : Sets(q, "closed", reply, Nothing)
    BY <2>1, ReplySets
  <2> QED  BY <1>3, <2>2 DEF RefuseStream, Deciding, Refuses
<1> QED  BY <1>1, <1>2, <1>3

LEMMA OpenShape ==
    ASSUME TypeOK, StreamTypeOK, NEW q \in Requests, OpenStream(q)
    PROVE  Opens(q)
<1> DEFINE new == [request[q] EXCEPT !.at = "open", !.reply = "stream", !.slot = TRUE,
                                     !.up = TRUE, !.view = Nothing]
<1>1. request[q] \in ReqType
  BY ReqIs
<1>2. /\ new \in ReqType /\ new.at = "open" /\ new.reply = "stream" /\ new.view = Nothing
      /\ new.run = request[q].run /\ new.kind = request[q].kind
      /\ new.cursor = request[q].cursor
      /\ new.sent = request[q].sent /\ new.slot = TRUE /\ new.up = TRUE
  BY <1>1, NothingTyped DEF ReqType, Steps, Replies
<1>3. request'[q] = new /\ request' = [request EXCEPT ![q] = new]
  BY <1>1, ReqIs DEF OpenStream, ReqType
<1>4. /\ request[q].at = "decide" /\ request[q].kind = "stream"
      /\ sse < MaxStreams /\ sse' = sse + 1 /\ UNCHANGED vars
  BY DEF OpenStream, Deciding
<1> HIDE DEF new
<1> QED  BY <1>2, <1>3, <1>4 DEF Opens, Turns

LEMMA GoShape ==
    ASSUME TypeOK, StreamTypeOK, NEW q \in Requests,
           Begin(q) \/ Return(q) \/ SleepAndLoop(q) \/ Cut(q) \/ Discard(q)
    PROVE  Goes(q)
<1>1. ASSUME NEW at \in {"look", "closing", "ended"}, Proceed(q, at)
      PROVE  at \in Steps /\ Sets(q, at, request[q].reply, request[q].view)
  BY <1>1, ProceedSets DEF Proceed, Steps
<1>2. CASE Begin(q)
  BY <1>1, <1>2 DEF Begin, Goes, Proceed
<1>3. CASE Return(q)
  BY <1>1, <1>3 DEF Return, Written, Goes, Proceed
<1>4. CASE SleepAndLoop(q)
  BY <1>1, <1>4 DEF SleepAndLoop, Written, Goes, Proceed
<1>5. CASE Cut(q)
  BY <1>1, <1>5 DEF Cut, Goes, Proceed
<1>6. CASE Discard(q)
  BY <1>1, <1>6 DEF Discard, Goes, Proceed
<1> QED  BY <1>2, <1>3, <1>4, <1>5, <1>6

LEMMA WriteShape ==
    ASSUME TypeOK, StreamTypeOK, NEW q \in Requests, Write(q)
    PROVE  Sends(q)
<1> DEFINE events == request[q].view.events
           view == [request[q].view EXCEPT !.events = Tail(events)]
           new == [request[q] EXCEPT !.sent = Append(@, Head(events)), !.cursor = Head(events).seq,
                                     !.view = view]
<1>1. /\ request[q] \in ReqType /\ request[q].view \in View /\ events \in Seq(EventType)
      /\ request[q].sent \in Seq(EventType) /\ events # <<>>
  BY ReqIs DEF ReqType, View, Write
<1>2. Head(events) \in EventType /\ Tail(events) \in Seq(EventType)
  <2> HIDE DEF events
  <2> QED  BY <1>1
<1>3. /\ Head(events).seq \in Nat /\ Append(request[q].sent, Head(events)) \in Seq(EventType)
  <2>1. Head(events).seq \in Nat
    BY <1>2 DEF EventType
  <2> HIDE DEF events
  <2> QED  BY <1>1, <1>2, <2>1
<1>4. view \in View /\ view.events = Tail(events) /\ view.state = request[q].view.state
  BY <1>1, <1>2 DEF View
<1>5. /\ new \in ReqType /\ new.at = request[q].at /\ new.reply = request[q].reply
      /\ new.view = view /\ new.cursor = Head(events).seq
      /\ new.sent = Append(request[q].sent, Head(events))
      /\ new.run = request[q].run /\ new.kind = request[q].kind
      /\ new.slot = request[q].slot /\ new.up = request[q].up
  <2> HIDE DEF view
  <2> QED  BY <1>1, <1>3, <1>4 DEF ReqType
<1>6. request'[q] = new /\ request' = [request EXCEPT ![q] = new]
  BY <1>1, ReqIs DEF Write, ReqType, View
<1>7. request[q].at = "write" /\ request[q].up /\ UNCHANGED <<vars, sse>>
  BY DEF Write
<1> HIDE DEF new, view, events
<1> QED  BY <1>1, <1>4, <1>5, <1>6, <1>7 DEF Sends, Turns, events

LEMMA TailShape ==
    ASSUME TypeOK, StreamTypeOK, PairInv, NEW q \in Requests, WriteTail(q)
    PROVE  Tells(q)
<1> DEFINE left == tombstone # None /\ tombstone.run = request[q].run
           events == IF left THEN PairAfter(tombstone.tail, request[q].cursor) ELSE <<>>
           view == [request[q].view EXCEPT !.events = events]
<1>1. /\ request[q] \in ReqType /\ request[q].view \in View /\ request[q].reply \in Replies
      /\ request[q].cursor \in Nat
  BY ReqIs DEF ReqType
<1>2. events \in Seq(EventType)
  <2>1. CASE left
    <3>1. tombstone.tail \in Seq(EventType) /\ Len(tombstone.tail) = 2
      BY <2>1, TailsTyped DEF PairInv, TypeOK, EventStates
    <3>2. tombstone.tail[1] \in EventType /\ tombstone.tail[2] \in EventType
      BY <3>1
    <3>3. ASSUME NEW e \in EventType PROVE After(e, request[q].cursor) \in Seq(EventType)
      BY DEF After
    <3>4. PairAfter(tombstone.tail, request[q].cursor) \in Seq(EventType)
      BY <3>2, <3>3 DEF PairAfter
    <3> QED  BY <2>1, <3>4
  <2> QED  BY <2>1
<1>3. view \in View /\ view.events = events /\ view.state = request[q].view.state
  <2> HIDE DEF events
  <2> QED  BY <1>1, <1>2 DEF View
<1>4. request' = [request EXCEPT ![q] = [request[q] EXCEPT !.at = "write",
                      !.reply = request[q].reply, !.view = view]]
  <2>1. request' = [request EXCEPT ![q].at = "write", ![q].view.events = events]
    BY DEF WriteTail
  <2> HIDE DEF events
  <2> QED  BY <1>1, <2>1, ReqIs DEF ReqType, View
<1>5. Sets(q, "write", request[q].reply, view)
  <2> HIDE DEF view
  <2> QED  BY <1>1, <1>3, <1>4, SetsFields DEF Steps
<1> HIDE DEF view
<1> QED  BY <1>3, <1>5 DEF Tells, WriteTail

LEMMA HangShape ==
    ASSUME TypeOK, StreamTypeOK, NEW q \in Requests, Hangup(q)
    PROVE  Hangs(q)
<1> DEFINE new == [request[q] EXCEPT !.up = FALSE, !.sent = <<>>]
<1>1. request[q] \in ReqType /\ <<>> \in Seq(EventType)
  BY ReqIs
<1>2. /\ new \in ReqType /\ new.at = request[q].at /\ new.reply = request[q].reply
      /\ new.view = request[q].view /\ new.run = request[q].run /\ new.up = FALSE
      /\ new.kind = request[q].kind
      /\ new.cursor = request[q].cursor /\ new.sent = <<>> /\ new.slot = request[q].slot
  BY <1>1 DEF ReqType
<1>3. request'[q] = new /\ request' = [request EXCEPT ![q] = new]
  BY <1>1, ReqIs DEF Hangup, ReqType
<1>4. request[q].slot /\ request[q].up /\ UNCHANGED <<vars, sse>>
  BY DEF Hangup
<1> HIDE DEF new
<1> QED  BY <1>2, <1>3, <1>4 DEF Hangs, Turns

LEMMA FreeShape ==
    ASSUME TypeOK, StreamTypeOK, NEW q \in Requests, Finally(q) \/ Background(q)
    PROVE  Frees(q)
<1>1. PICK at \in {"ended", "closed"} : ReleaseStreamOnce(q, at)
  BY DEF Finally, Background
<1> DEFINE new == [request[q] EXCEPT !.at = at, !.slot = FALSE, !.view = Nothing]
<1>2. request[q] \in ReqType
  BY ReqIs
<1>3. /\ new \in ReqType /\ new.at = at /\ new.reply = request[q].reply
      /\ new.view = Nothing /\ new.run = request[q].run /\ new.slot = FALSE
      /\ new.kind = request[q].kind
      /\ new.cursor = request[q].cursor /\ new.sent = request[q].sent /\ new.up = request[q].up
  BY <1>2, NothingTyped DEF ReqType, Steps
<1>4. request'[q] = new /\ request' = [request EXCEPT ![q] = new]
  BY <1>1, <1>2, ReqIs DEF ReleaseStreamOnce, ReqType
<1>5. /\ request[q].at \in {"closing", "ended"} /\ UNCHANGED vars
      /\ sse' = IF request[q].slot /\ sse > 0 THEN sse - 1 ELSE sse
  BY <1>1 DEF Finally, Background, ReleaseStreamOnce
<1> HIDE DEF new
<1> QED  BY <1>3, <1>4, <1>5 DEF Frees, Turns

LEMMA ConnectShape ==
    ASSUME TypeOK, StreamTypeOK, NEW q \in Requests, NEW kind \in {"poll", "stream"},
           NEW r \in Runs, NEW c \in Nat, Connect(q, kind, r, c)
    PROVE  Connects(q)
<1> DEFINE new == [Away EXCEPT !.at = "look", !.kind = kind, !.run = r, !.cursor = c]
<1>1. /\ new \in ReqType /\ new.at = "look" /\ new.run = r /\ new.slot = FALSE
      /\ new.up = FALSE /\ new.sent = <<>> /\ new.view = Nothing
  BY NothingTyped DEF Away, ReqType, Steps, Replies
<1>2. /\ request' = [request EXCEPT ![q] = new] /\ request'[q] = new
      /\ request[q] = Away /\ (r \in Accepted \/ ~resident) /\ UNCHANGED <<vars, sse>>
  BY ReqIs DEF Connect
<1>3. request[q].at = "away" /\ ~request[q].slot
  BY <1>2, NothingTyped
<1> HIDE DEF new
<1> QED  BY <1>1, <1>2, <1>3 DEF Connects

Acts(q) ==
    \/ Reads(q) \/ Loses(q) \/ Enforces(q) \/ Refuses(q) \/ Opens(q) \/ Goes(q)
    \/ Sends(q) \/ Tells(q) \/ Hangs(q) \/ Frees(q) \/ Connects(q)

Serves(q) ==
    \/ Reads(q) \/ Loses(q) \/ Enforces(q) \/ Refuses(q) \/ Opens(q) \/ Goes(q)
    \/ Sends(q) \/ Tells(q) \/ Frees(q)

LEMMA ServeShape ==
    ASSUME TypeOK, StreamTypeOK, PairInv, NEW q \in Requests, Stands(q), Serve(q)
    PROVE  Serves(q)
<1>1. CASE Look(q) \/ Reread(q)
  <2>1. request[q].run \in Runs
    BY <1>1 DEF Look, Reread, Stands
  <2>2. \E next \in {"enforce", AfterRead(q)} :
            Observe(q, next) /\ request[q].at \in {"look", "reread"}
    BY <1>1 DEF Look, Reread
  <2> QED  BY <2>1, <2>2, ObserveShape DEF Serves
<1>2. CASE Enforce(q)
  <2>1. Sets(q, "reread", request[q].reply, request[q].view)
    BY <1>2, ProceedSets DEF Enforce, Steps
  <2> QED  BY <1>2, <2>1 DEF Enforce, Enforces, Serves
<1> QED  BY <1>1, <1>2, RefuseShape, OpenShape, GoShape, WriteShape, TailShape, FreeShape
            DEF Serve, Serves

LEMMA StreamShape ==
    ASSUME TypeOK, StreamTypeOK, PairInv, \A q \in Requests : Stands(q),
           [StreamNext]_streamVars
    PROVE  \/ UNCHANGED <<request, sse>>
           \/ \E q \in Requests : Acts(q)
<1>1. ASSUME NEW q \in Requests, Serve(q) PROVE Acts(q)
  BY <1>1, ServeShape DEF Serves, Acts
<1>2. ASSUME NEW q \in Requests,
             \/ \E r \in Runs : Connect(q, "poll", r, 0)
             \/ \E r \in Runs, c \in Cursors[q] : Connect(q, "stream", r, c)
             \/ Hangup(q)
      PROVE  Acts(q)
  <2>1. \A c \in Cursors[q] : c \in Nat
    BY StreamAssumption
  <2> QED  BY <1>2, <2>1, ConnectShape, HangShape DEF Acts
<1> QED  BY <1>1, <1>2 DEF StreamNext, StoreStep, streamVars

(* What every one of them does to the type and to the other requests.        *)
LEMMA ActsTurn ==
    ASSUME StreamTypeOK, NEW q \in Requests, Acts(q)
    PROVE  /\ request' \in [Requests -> ReqType]
           /\ \A p \in Requests \ {q} : request'[p] = request[p]
<1>1. request' = [request EXCEPT ![q] = request'[q]] /\ request'[q] \in ReqType
  BY DEF Acts, Reads, Loses, Enforces, Refuses, Opens, Goes, Sends, Tells, Hangs, Frees,
         Connects, Sets, Turns
<1> QED  BY <1>1, ReqIs

LEMMA CountStays ==
    ASSUME StreamTypeOK, NEW q \in Requests, Acts(q)
    PROVE  sse' \in 0..MaxStreams
<1>1. sse \in 0..MaxStreams /\ MaxStreams \in Nat
  BY StreamAssumption, ReqIs
<1>2. \/ sse' = sse \/ (sse < MaxStreams /\ sse' = sse + 1) \/ (sse > 0 /\ sse' = sse - 1)
  BY DEF Acts, Reads, Loses, Enforces, Refuses, Opens, Goes, Sends, Tells, Hangs, Frees, Connects
<1> QED  BY <1>1, <1>2

LEMMA StreamTypeStep ==
    ASSUME TypeOK, StreamTypeOK, PairInv, \A q \in Requests : Stands(q),
           [StreamNext]_streamVars
    PROVE  StreamTypeOK'
<1>1. StreamTypeOK' <=> request' \in [Requests -> ReqType] /\ sse' \in 0..MaxStreams
  BY DEF StreamTypeOK, ReqType
<1>2. CASE UNCHANGED <<request, sse>>
  BY <1>1, <1>2, ReqIs
<1>3. ASSUME NEW q \in Requests, Acts(q) PROVE StreamTypeOK'
  BY <1>1, <1>3, ActsTurn, CountStays
<1> QED  BY <1>2, <1>3, StreamShape

(* Where a request stands, step by step.                                     *)
LEMMA StandsStep ==
    ASSUME TypeOK, StreamTypeOK, PairInv, \A q \in Requests : Stands(q),
           [StreamNext]_streamVars
    PROVE  \A q \in Requests : Stands(q)'
<1>1. ASSUME NEW q \in Requests, request'[q] = request[q] PROVE Stands(q)'
  BY <1>1 DEF Stands
<1>2. ASSUME NEW q \in Requests, Acts(q) PROVE Stands(q)'
  <2>t. request[q] \in ReqType /\ Nothing.events = <<>> /\ Stands(q)
    BY ReqIs, NothingTyped
  <2>1. CASE Reads(q)
    BY <2>t, <2>1 DEF Reads, Sets, Turns, Stands, AfterRead
  <2>2. CASE Loses(q)
    BY <2>t, <2>2 DEF Loses, Sets, Turns, Stands
  <2>3. CASE Enforces(q)
    BY <2>t, <2>3 DEF Enforces, Sets, Turns, Stands
  <2>4. CASE Refuses(q)
    BY <2>t, <2>4 DEF Refuses, Sets, Turns, Stands
  <2>5. CASE Opens(q)
    BY <2>t, <2>5 DEF Opens, Turns, Stands
  <2>6. CASE Goes(q)
    BY <2>t, <2>6 DEF Goes, Sets, Turns, Stands
  <2>7. CASE Sends(q)
    BY <2>t, <2>7 DEF Sends, Turns, Stands
  <2>8. CASE Tells(q)
    BY <2>t, <2>8 DEF Tells, Sets, Turns, Stands
  <2>9. CASE Hangs(q)
    BY <2>t, <2>9 DEF Hangs, Turns, Stands
  <2>10. CASE Frees(q)
    BY <2>t, <2>10 DEF Frees, Turns, Stands
  <2>11. CASE Connects(q)
    BY <2>t, <2>11 DEF Connects, Stands
  <2> QED  BY <1>2, <2>1, <2>2, <2>3, <2>4, <2>5, <2>6, <2>7, <2>8, <2>9, <2>10, <2>11 DEF Acts
<1>3. CASE UNCHANGED <<request, sse>>
  BY <1>1, <1>3
<1>4. ASSUME NEW q \in Requests, Acts(q) PROVE \A p \in Requests : Stands(p)'
  BY <1>1, <1>2, <1>4, ActsTurn
<1> QED  BY <1>3, <1>4, StreamShape

(* The counter and the slots move together, and a slot is taken once.        *)
LEMMA SlotStep ==
    ASSUME TypeOK, StreamTypeOK, PairInv, \A q \in Requests : Stands(q), SlotInv,
           [StreamNext]_streamVars
    PROVE  SlotInv'
<1>1. ASSUME NEW q \in Requests, Acts(q) PROVE SlotInv'
  <2>1. \A p \in Requests \ {q} : request'[p] = request[p]
    BY <1>1, ActsTurn
  <2>2. sse \in Nat /\ MaxStreams \in Nat /\ IsFiniteSet(Held) /\ sse = Cardinality(Held)
    BY ReqIs, StreamAssumption DEF SlotInv
  <2>3. CASE Opens(q)
    <3>1. ~request[q].slot /\ request'[q].slot
      BY <2>3 DEF Opens, Stands
    <3>2. Held' = Held \cup {q} /\ q \notin Held
      BY <2>1, <3>1 DEF Held
    <3>3. IsFiniteSet(Held') /\ Cardinality(Held') = Cardinality(Held) + 1
      BY <2>2, <3>2, FS_AddElement
    <3>4. sse' = sse + 1 /\ sse < MaxStreams
      BY <2>3 DEF Opens
    <3> QED  BY <2>2, <3>3, <3>4 DEF SlotInv
  <2>4. CASE Frees(q) /\ request[q].slot
    <3>1. ~request'[q].slot
      BY <2>4 DEF Frees
    <3>2. Held' = Held \ {q} /\ q \in Held
      BY <2>1, <2>4, <3>1 DEF Held
    <3>3. IsFiniteSet(Held') /\ Cardinality(Held') = Cardinality(Held) - 1
      BY <2>2, <3>2, FS_RemoveElement
    <3>4. Cardinality(Held) # 0
      BY <2>2, <3>2, FS_EmptySet
    <3>5. sse' = sse - 1
      BY <2>2, <2>4, <3>4 DEF Frees
    <3> QED  BY <2>2, <3>3, <3>5 DEF SlotInv
  <2>5. CASE ~Opens(q) /\ ~(Frees(q) /\ request[q].slot)
    <3>1. sse' = sse
      BY <1>1, <2>5 DEF Acts, Reads, Loses, Enforces, Refuses, Goes, Sends, Tells, Hangs,
                        Frees, Connects
    <3>2. request'[q].slot <=> request[q].slot
      BY <1>1, <2>5 DEF Acts, Reads, Loses, Enforces, Refuses, Goes, Sends, Tells, Hangs,
                        Frees, Connects, Sets
    <3>3. Held' = Held
      BY <2>1, <3>2 DEF Held
    <3> QED  BY <3>1, <3>3 DEF SlotInv
  <2> QED  BY <2>3, <2>4, <2>5
<1>2. CASE UNCHANGED <<request, sse>>
  BY <1>2 DEF SlotInv, Held
<1> QED  BY <1>1, <1>2, StreamShape

-----------------------------------------------------------------------------
(* The pair of a tombstone, and logs that know nothing of an expiry.         *)
LEMMA PairStep ==
    ASSUME CoreInv, PairInv, [Wide]_vars
    PROVE  PairInv'
<1>1. CASE tombstone' \in {tombstone, None}
  BY <1>1 DEF PairInv
<1>2. CASE Purges
  <2>1. CASE activeRun = None
    BY <1>2, <2>1 DEF Purges, PairInv
  <2>2. CASE activeRun # None
    <3>1. activeRun \in Runs
      BY <2>2 DEF CoreInv, TypeOK
    <3> DEFINE n == NextSeq(runs[activeRun])
    <3>2. n \in Nat
      BY <3>1, SizesAreNat DEF CoreInv, NextSeq
    <3>3. tombstone' = [run |-> activeRun, tail |-> ExpiryTail(n)]
      BY <1>2, <2>2 DEF Purges
    <3> HIDE DEF n
    <3>4. tombstone'.tail = ExpiryTail(n)
      BY <3>3
    <3> QED  BY <3>2, <3>4 DEF PairInv
  <2> QED  BY <2>1, <2>2
<1> QED  BY <1>1, <1>2, StoreStays DEF CoreInv, TypeOK

LEMMA EndTailPlain ==
    ASSUME NEW s \in EndStates, NEW n \in Nat, NEW i \in 1..Len(EndTail(s, n))
    PROVE  Plain(EndTail(s, n)[i])
<1>e. s # "expired" /\ (s = "completed" \/ s = "cancelled" \/ s \in {"failed", "timeout"})
  BY DEF EndStates
<1>1. CASE s = "completed"
  <2> DEFINE tail == AnswerTail(n)
  <2>1. Len(tail) = 4 /\ Plain(tail[1]) /\ Plain(tail[2]) /\ Plain(tail[3]) /\ Plain(tail[4])
    BY DEF AnswerTail, Event, Status, StreamEnd, Plain
  <2>2. EndTail(s, n) = tail
    BY <1>1 DEF EndTail
  <2> HIDE DEF tail
  <2> QED  BY <2>1, <2>2, FourSlots
<1>2. CASE s = "cancelled"
  <2> DEFINE tail == CancelTail(n)
  <2>1. Len(tail) = 3 /\ Plain(tail[1]) /\ Plain(tail[2]) /\ Plain(tail[3])
    BY DEF CancelTail, Event, Status, StreamEnd, Plain
  <2>2. EndTail(s, n) = tail
    BY <1>2 DEF EndTail
  <2> HIDE DEF tail
  <2> QED  BY <2>1, <2>2, FourSlots
<1>3. CASE s \in {"failed", "timeout"}
  <2> DEFINE tail == FailureTail(n, s)
  <2>1. Len(tail) = 4 /\ Plain(tail[1]) /\ Plain(tail[2]) /\ Plain(tail[3]) /\ Plain(tail[4])
    BY <1>e DEF FailureTail, Event, Status, StreamEnd, Plain
  <2>2. EndTail(s, n) = tail
    BY <1>3 DEF EndTail
  <2> HIDE DEF tail
  <2> QED  BY <2>1, <2>2, FourSlots
<1> QED  BY <1>e, <1>1, <1>2, <1>3

LEMMA PlainStep ==
    ASSUME CoreInv, LogsArePlain, [Wide]_vars
    PROVE  LogsArePlain'
<1> USE DEF CoreInv
<1> DEFINE AllPlain(log) == \A i \in 1..Len(log) : Plain(log[i])
<1>1. ASSUME NEW r \in Runs, NEW s, NEW events, Writes(r, s, events), AllPlain(events)
      PROVE  LogsArePlain'
  <2>1. /\ runs[r].log \in Seq(EventType) /\ events \in Seq(EventType)
        /\ runs'[r].log = runs[r].log \o events /\ AllPlain(runs[r].log)
    BY <1>1, SizesAreNat DEF Writes, LogsArePlain
  <2>2. AllPlain(runs'[r].log)
    <3> DEFINE log == runs[r].log
    <3> SUFFICES ASSUME NEW i \in 1..Len(log \o events) PROVE Plain((log \o events)[i])
      BY <2>1
    <3>1. AllPlain(log) /\ AllPlain(events) /\ log \in Seq(EventType) /\ events \in Seq(EventType)
      BY <1>1, <2>1
    <3> HIDE DEF log
    <3>2. \/ i \in 1..Len(log) /\ (log \o events)[i] = log[i]
          \/ i - Len(log) \in 1..Len(events) /\ (log \o events)[i] = events[i - Len(log)]
      BY <3>1
    <3> QED  BY <3>1, <3>2
  <2>3. \A q \in Runs \ {r} : runs'[q] = runs[q]
    BY <1>1, WritesOne
  <2> QED  BY <2>2, <2>3 DEF LogsArePlain
<1>2. ASSUME NEW r \in Runs, Begins(r) PROVE LogsArePlain'
  <2> DEFINE e == Status(1, "running")
  <2>e. Plain(e)
    BY DEF Status, Event, Plain
  <2> HIDE DEF e
  <2>1. AllPlain(<<e>>)
    BY <2>e
  <2> QED  BY <1>1, <1>2, <2>1 DEF Begins, e
<1>3. ASSUME NEW r \in Runs, Adds(r) PROVE LogsArePlain'
  <2>1. PICK e : BodyEvent(e, runs[r], runs'[r].steps) /\ Writes(r, "running", <<e>>)
    BY <1>3 DEF Adds
  <2>2. Plain(e)
    BY <2>1 DEF BodyEvent, Plain
  <2>3. AllPlain(<<e>>)
    BY <2>2
  <2> QED  BY <1>1, <2>1, <2>3
<1>4. ASSUME NEW r \in Runs, NEW s \in EndStates, Settles(r, s) PROVE LogsArePlain'
  <2>1. NextSeq(runs[r]) \in Nat
    BY SizesAreNat DEF NextSeq
  <2>2. AllPlain(EndTail(s, NextSeq(runs[r])))
    BY <2>1, EndTailPlain
  <2> QED  BY <1>1, <1>4, <2>2 DEF Settles
<1>5. ASSUME NEW k \in Keys, NEW r \in Runs,
             \/ \E c \in Contents : AcceptQuestion(k, c, r)
             \/ \E t \in Runs : AcceptRetry(k, t, r)
      PROVE  LogsArePlain'
  <2>1. Len(runs'[r].log) = 0
    BY <1>5, QuestionAdmits, RetryAdmits DEF Admits
  <2>2. \A q \in Runs \ {r} : runs'[q] = runs[q]
    BY <1>5, AcceptsOne
  <2> QED  BY <2>1, <2>2 DEF LogsArePlain
<1>6. ASSUME NEW r \in Runs, RecordPreparedRequest(r) PROVE LogsArePlain'
  <2>1. \A q \in Runs : runs'[q].log = runs[q].log
    BY <1>6, RecordsOne
  <2> QED  BY <2>1 DEF LogsArePlain
<1>7. ASSUME Expire PROVE LogsArePlain'
  BY <1>7, AbsentTyped DEF Expire, LogsArePlain
<1>8. ASSUME runs' = runs PROVE LogsArePlain'
  BY <1>8 DEF LogsArePlain
<1> QED  BY <1>2, <1>3, <1>4, <1>5, <1>6, <1>7, <1>8, StepCommits
         DEF Ticks, SelectContext, vars

-----------------------------------------------------------------------------
(* Nobody is connected at first, and the store is a Conversation's.          *)
LEMMA StreamBegins ==
    ASSUME StreamInit
    PROVE  /\ CoreInv /\ OrderInv /\ PairInv /\ LogsArePlain /\ StreamTypeOK
           /\ \A q \in Requests : Stands(q) /\ Framed(q) /\ Closed(q) /\ Announced(q)
           /\ SlotInv
<1>i. Init
  BY DEF StreamInit
<1>1. CoreInv /\ OrderInv
  <2>1. Blank /\ Accepted = {}
    BY <1>i, AbsentTyped DEF Init, Blank, Accepted
  <2> QED  BY <1>i, <2>1, TypeInit, LiveInit DEF CoreInv, OrderInv
<1>2. PairInv /\ LogsArePlain
  BY <1>i, AbsentTyped DEF Init, PairInv, LogsArePlain
<1>3. \A q \in Requests : request[q] = Away
  BY DEF StreamInit
<1>4. StreamTypeOK
  <2>1. 0 \in 0..MaxStreams
    BY StreamAssumption
  <2> QED  BY <2>1, NothingTyped, ReqIs DEF StreamInit
<1>5. ASSUME NEW q \in Requests PROVE Stands(q) /\ Framed(q) /\ Closed(q) /\ Announced(q)
  <2>1. /\ request[q].at = "away" /\ ~request[q].slot /\ ~request[q].up
        /\ request[q].sent = <<>> /\ request[q].view.events = <<>>
    BY <1>3, NothingTyped
  <2>2. Out(q) = <<>>
    BY <2>1 DEF Out
  <2>3. Len(<<>>) = 0
    OBVIOUS
  <2>4. Stands(q) /\ Framed(q) /\ Closed(q)
    BY <1>3, <2>1, NothingTyped DEF Stands, Framed, Closed
  <2>5. Announced(q)
    BY <2>1, <2>2, <2>3 DEF Announced, EndsOnce
  <2> QED  BY <2>4, <2>5
<1>6. SlotInv
  <2>1. Held = {}
    BY <1>3, NothingTyped DEF Held
  <2> QED  BY <2>1, StreamAssumption, FS_EmptySet DEF StreamInit, SlotInv
<1> QED  BY <1>1, <1>2, <1>4, <1>5, <1>6

(* What the rest of this module assumes of every state.                      *)
StreamCore ==
    /\ CoreInv /\ OrderInv /\ PairInv /\ LogsArePlain /\ StreamTypeOK
    /\ \A q \in Requests : Stands(q)

LEMMA StreamCoreStep ==
    ASSUME StreamCore, [StreamNext]_streamVars
    PROVE  StreamCore' /\ [Wide]_vars
<1>1. [Wide]_vars
  BY StreamIsWide DEF StreamCore, CoreInv
<1>2. CoreInv'
  BY <1>1, TypeStep, LiveStep, BlankStep DEF StreamCore, CoreInv
<1>3. OrderInv' /\ PairInv' /\ LogsArePlain'
  BY <1>1, OrderStep, PairStep, PlainStep DEF StreamCore
<1>4. StreamTypeOK' /\ \A q \in Requests : Stands(q)'
  BY StreamTypeStep, StandsStep DEF StreamCore, CoreInv
<1> QED  BY <1>1, <1>2, <1>3, <1>4 DEF StreamCore

LEMMA StreamCoreInvariant == StreamSpec => []StreamCore
<1>1. StreamInit => StreamCore
  BY StreamBegins DEF StreamCore
<1>2. StreamCore /\ [StreamNext]_streamVars => StreamCore'
  BY StreamCoreStep
<1> QED  BY <1>1, <1>2, PTL DEF StreamSpec

(* Requests and the counter keep their types.                                *)
THEOREM StreamTypeCorrect == StreamSpec => [](TypeOK /\ StreamTypeOK)
<1>1. StreamCore => TypeOK /\ StreamTypeOK
  BY DEF StreamCore, CoreInv
<1> QED  BY <1>1, StreamCoreInvariant, PTL

(* sse_connections is the number of streams that hold a slot, and never more
   than max_sse_connections, whichever of the two callbacks gives it back.    *)
THEOREM SlotCount == StreamSpec => []SlotsAreHeld
<1>1. StreamInit => SlotInv
  BY StreamBegins
<1>2. StreamCore /\ SlotInv /\ [StreamNext]_streamVars => SlotInv'
  BY SlotStep DEF StreamCore, CoreInv
<1>3. SlotInv => SlotsAreHeld
  BY DEF SlotInv, Held, SlotsAreHeld
<1> QED  BY <1>1, <1>2, <1>3, StreamCoreInvariant, PTL DEF StreamSpec

-----------------------------------------------------------------------------
(* The frames, step by step.  A log that grows keeps its stretches.          *)
LEMMA StretchStays ==
    ASSUME CoreInv, [Wide]_vars, resident', NEW r \in Accepted, NEW from \in Nat,
           NEW events \in Seq(EventType), Stretch(events, runs[r].log, from)
    PROVE  Stretch(events, runs'[r].log, from)
<1>1. /\ Len(runs[r].log) <= Len(runs'[r].log)
      /\ \A i \in 1..Len(runs[r].log) : runs'[r].log[i] = runs[r].log[i]
  BY LogsStay
<1>2. Len(runs[r].log) \in Nat /\ Len(runs'[r].log) \in Nat /\ Len(events) \in Nat
  <2>1. TypeOK'
    BY TypeStep DEF CoreInv
  <2>2. r \in Runs /\ Len(runs[r].log) \in Nat
    BY SizesAreNat DEF CoreInv, Accepted
  <2>3. runs'[r].log \in Seq(EventType)
    BY <2>1, <2>2 DEF TypeOK, RunType
  <2> QED  BY <2>2, <2>3
<1> DEFINE old == runs[r].log
           new == runs'[r].log
<1>3. /\ Len(old) <= Len(new) /\ \A i \in 1..Len(old) : new[i] = old[i]
      /\ Len(old) \in Nat /\ Len(new) \in Nat /\ Len(events) \in Nat
  BY <1>1, <1>2
<1>4. from + Len(events) <= Len(old) /\ \A i \in 1..Len(events) : events[i] = old[from + i]
  BY DEF Stretch
<1> HIDE DEF old, new
<1>5. \A i \in 1..Len(events) : events[i] = new[from + i]
  <2> TAKE i \in 1..Len(events)
  <2>1. from + i \in 1..Len(old)
    BY <1>3, <1>4
  <2> QED  BY <1>3, <1>4, <2>1
<1>6. from + Len(events) <= Len(new)
  BY <1>3, <1>4
<1>7. Stretch(events, new, from)
  BY <1>5, <1>6 DEF Stretch
<1> QED  BY <1>7 DEF new

(* What most steps keep: the Run, the cursor and the frames.                 *)
LEMMA FramesRest ==
    ASSUME StreamCore, [Wide]_vars, NEW q \in Requests, Framed(q),
           request' \in [Requests -> ReqType],
           request'[q].at # "away" => request[q].at # "away",
           resident' => request'[q].at # "tail" \/ request[q].at = "tail",
           request'[q].run = request[q].run, request'[q].cursor = request[q].cursor,
           request'[q].sent \in {request[q].sent, <<>>},
           request'[q].view.events \in {request[q].view.events, <<>>}
    PROVE  Framed(q)'
<1> DEFINE req == request[q]
           new == request'[q]
           r == request[q].run
<1> SUFFICES ASSUME resident', new.at # "away" PROVE Framed(q)'
  BY DEF Framed
<1>1. resident /\ req.at # "away"
  BY StoreStays DEF StreamCore
<1>2. /\ req.cursor \in Nat /\ req.sent \in Seq(EventType) /\ Len(req.sent) \in Nat
      /\ req.view.events \in Seq(EventType)
  BY ReqIs DEF StreamCore, ReqType, View
<1>3. r \in Accepted /\ req.at # "tail"
  BY <1>1 DEF Framed
<1>4. r \in Accepted'
  BY <1>3, LogsStay DEF StreamCore
<1>5. new.sent # <<>> => /\ Len(new.sent) <= new.cursor
                         /\ Stretch(new.sent, runs'[r].log, new.cursor - Len(new.sent))
  <2> SUFFICES ASSUME new.sent # <<>>
               PROVE  /\ Len(new.sent) <= new.cursor
                      /\ Stretch(new.sent, runs'[r].log, new.cursor - Len(new.sent))
    OBVIOUS
  <2>1. new.sent = req.sent
    OBVIOUS
  <2>2. Len(req.sent) <= req.cursor /\ Stretch(req.sent, runs[r].log, req.cursor - Len(req.sent))
    BY <1>1, <2>1 DEF Framed
  <2>3. req.cursor - Len(req.sent) \in Nat
    BY <1>2, <2>2
  <2>4. Stretch(req.sent, runs'[r].log, req.cursor - Len(req.sent))
    BY <1>2, <1>3, <2>2, <2>3, StretchStays DEF StreamCore
  <2> QED  BY <2>1, <2>2, <2>4
<1>6. new.view.events # <<>> => Stretch(new.view.events, runs'[r].log, new.cursor)
  BY <1>1, <1>2, <1>3, StretchStays DEF StreamCore, Framed
<1> QED  BY <1>3, <1>4, <1>5, <1>6 DEF Framed

LEMMA ReadsFrames ==
    ASSUME StreamCore, NEW q \in Requests, Framed(q), Reads(q)
    PROVE  Framed(q)'
<1> DEFINE r == request[q].run
           log == runs[r].log
           events == IF request[q].slot THEN SubSeq(log, request[q].cursor + 1, Len(log))
                     ELSE <<>>
<1>1. /\ resident /\ request[q].at # "away" /\ UNCHANGED vars /\ r \in Runs
      /\ request'[q].run = r /\ request'[q].cursor = request[q].cursor
      /\ request'[q].sent = request[q].sent /\ request'[q].view = Slice(q)
      /\ request'[q].at \in {"enforce", "write", "decide"}
  BY DEF Reads, Sets, Turns, AfterRead, StreamCore, Stands
<1>2. request'[q].view.events = events
  BY <1>1, SliceTyped DEF StreamCore, CoreInv
<1>3. log \in Seq(EventType) /\ Len(log) \in Nat /\ request[q].cursor \in Nat
  BY <1>1, SizesAreNat, ReqIs DEF StreamCore, CoreInv, ReqType
<1>4. events # <<>> => Stretch(events, log, request[q].cursor)
  <2> DEFINE cursor == request[q].cursor
             read == SubSeq(log, cursor + 1, Len(log))
  <2> SUFFICES ASSUME read # <<>> PROVE Stretch(read, log, cursor)
    OBVIOUS
  <2>1. log \in Seq(EventType) /\ Len(log) \in Nat /\ cursor \in Nat
    BY <1>3
  <2> HIDE DEF log, cursor
  <2>2. cursor + 1 <= Len(log)
    BY <2>1
  <2>3. Len(read) = Len(log) - cursor /\ \A i \in 1..Len(read) : read[i] = log[cursor + i]
    BY <2>1, <2>2
  <2> QED  BY <2>1, <2>3 DEF Stretch
<1>5. runs' = runs /\ resident' = resident /\ Accepted' = Accepted
  BY <1>1 DEF vars, Accepted
<1>6. /\ r \in Accepted
      /\ request[q].sent # <<>> =>
            /\ Len(request[q].sent) <= request[q].cursor
            /\ Stretch(request[q].sent, log, request[q].cursor - Len(request[q].sent))
  BY <1>1 DEF Framed
<1> HIDE DEF events
<1> QED  BY <1>1, <1>2, <1>4, <1>5, <1>6 DEF Framed

LEMMA SendsFrames ==
    ASSUME StreamCore, NEW q \in Requests, Framed(q), Sends(q)
    PROVE  Framed(q)'
<1> DEFINE r == request[q].run
           log == runs[r].log
           events == request[q].view.events
           sent == request[q].sent
           cursor == request[q].cursor
<1>1. /\ UNCHANGED vars /\ request[q].at = "write" /\ request'[q].at = "write" /\ r \in Runs
      /\ events # <<>> /\ request'[q].run = r /\ request'[q].cursor = Head(events).seq
      /\ request'[q].sent = Append(sent, Head(events))
      /\ request'[q].view.events = Tail(events)
  BY DEF Sends, Turns, StreamCore, Stands
<1>2. /\ log \in Seq(EventType) /\ Len(log) \in Nat /\ cursor \in Nat
      /\ events \in Seq(EventType) /\ sent \in Seq(EventType)
  BY <1>1, SizesAreNat, ReqIs DEF StreamCore, CoreInv, ReqType, View
<1>3. runs' = runs /\ resident' = resident /\ Accepted' = Accepted
  BY <1>1 DEF vars, Accepted
<1> SUFFICES ASSUME resident PROVE Framed(q)'
  BY <1>3 DEF Framed
<1>4. /\ r \in Accepted /\ Stretch(events, log, cursor)
      /\ sent # <<>> => Len(sent) <= cursor /\ Stretch(sent, log, cursor - Len(sent))
  BY <1>1 DEF Framed
<1>5. \A i \in 1..Len(log) : log[i].seq = i
  BY <1>4 DEF StreamCore, OrderInv, Ordered, InOrder, Numbered
<1> HIDE DEF log, events, sent, cursor
<1>6. /\ Len(events) \in Nat /\ Len(events) >= 1 /\ Head(events) = events[1]
      /\ Len(Tail(events)) = Len(events) - 1
      /\ \A i \in 1..Len(Tail(events)) : Tail(events)[i] = events[i + 1]
  BY <1>1, <1>2
<1>7. /\ cursor + Len(events) <= Len(log) /\ Head(events) = log[cursor + 1]
      /\ cursor + 1 \in 1..Len(log)
  BY <1>2, <1>4, <1>6 DEF Stretch
<1>8. Head(events).seq = cursor + 1
  BY <1>5, <1>7
<1>9. Stretch(Tail(events), log, cursor + 1)
  <2> DEFINE rest == Tail(events)
  <2>1. /\ Len(rest) = Len(events) - 1 /\ Len(events) \in Nat
        /\ \A i \in 1..Len(rest) : rest[i] = events[i + 1]
    BY <1>6
  <2> HIDE DEF rest
  <2>2. cursor + Len(events) <= Len(log) /\ \A i \in 1..Len(events) : events[i] = log[cursor + i]
    BY <1>4 DEF Stretch
  <2>3. \A i \in 1..Len(rest) : rest[i] = log[cursor + 1 + i]
    <3> TAKE i \in 1..Len(rest)
    <3>1. i + 1 \in 1..Len(events) /\ cursor + (i + 1) = cursor + 1 + i
      BY <1>2, <2>1
    <3> QED  BY <2>1, <2>2, <3>1
  <2>4. cursor + 1 + Len(rest) <= Len(log)
    BY <1>2, <2>1, <2>2
  <2>5. Stretch(rest, log, cursor + 1)
    BY <2>3, <2>4 DEF Stretch
  <2> QED  BY <2>5 DEF rest
<1>10. /\ Len(sent) \in Nat /\ Len(sent) <= cursor
       /\ Len(Append(sent, Head(events))) = Len(sent) + 1
       /\ \A i \in 1..Len(sent) : Append(sent, Head(events))[i] = sent[i]
       /\ Append(sent, Head(events))[Len(sent) + 1] = Head(events)
  BY <1>2, <1>4
<1>11. \A i \in 1..Len(sent) : sent[i] = log[cursor - Len(sent) + i]
  BY <1>4, <1>10 DEF Stretch
<1> DEFINE more == Append(sent, Head(events))
           rest == Tail(events)
           new == request'[q]
<1>12. PICK from \in Nat : from + Len(sent) = cursor
  BY <1>2, <1>10
<1>13. Stretch(more, log, from)
  <2>1. \A i \in 1..Len(sent) : more[i] = log[from + i]
    <3>1. cursor - Len(sent) = from
      BY <1>2, <1>10, <1>12
    <3> QED  BY <1>10, <1>11, <3>1
  <2>2. more[Len(sent) + 1] = log[from + (Len(sent) + 1)]
    <3>1. from + (Len(sent) + 1) = cursor + 1
      BY <1>2, <1>10, <1>12
    <3> QED  BY <1>7, <1>10, <3>1
  <2>3. Len(more) = Len(sent) + 1
    BY <1>10
  <2> HIDE DEF more
  <2>4. \A i \in 1..Len(more) : more[i] = log[from + i]
    BY <1>10, <2>1, <2>2, <2>3
  <2>5. from + Len(more) <= Len(log)
    BY <1>2, <1>7, <1>10, <1>12, <2>3
  <2> QED  BY <2>4, <2>5 DEF Stretch
<1>14. /\ new.run = r /\ new.at = "write" /\ new.cursor = cursor + 1
       /\ new.sent = more /\ new.view.events = rest /\ Len(more) = Len(sent) + 1
  BY <1>1, <1>8, <1>10
<1>15. r \in Accepted' /\ runs'[r].log = log
  BY <1>3, <1>4 DEF log
<1> HIDE DEF more, rest, new, r
<1>16. /\ new.run \in Accepted' /\ new.at # "tail" /\ runs'[new.run].log = log
  BY <1>14, <1>15
<1>17. from = new.cursor - Len(new.sent) /\ Len(new.sent) <= new.cursor
  BY <1>2, <1>10, <1>12, <1>14
<1>18. Stretch(new.sent, log, from) /\ Stretch(new.view.events, log, new.cursor)
  BY <1>9, <1>13, <1>14 DEF rest
<1> QED  BY <1>16, <1>17, <1>18 DEF Framed, new

LEMMA FramedStep ==
    ASSUME StreamCore, \A q \in Requests : Framed(q), [StreamNext]_streamVars
    PROVE  \A q \in Requests : Framed(q)'
<1>w. [Wide]_vars /\ request \in [Requests -> ReqType]
  BY StreamCoreStep, ReqIs DEF StreamCore
<1>1. ASSUME request' \in [Requests -> ReqType], NEW q \in Requests, request'[q] = request[q]
      PROVE  Framed(q)'
  BY <1>w, <1>1, FramesRest
<1>2. ASSUME NEW q \in Requests, Acts(q) PROVE Framed(q)'
  <2>t. request' \in [Requests -> ReqType] /\ Stands(q) /\ Nothing.events = <<>>
    BY <1>2, ActsTurn, NothingTyped DEF StreamCore
  <2>1. CASE Reads(q)
    BY <2>1, ReadsFrames
  <2>2. CASE Loses(q)
    BY <2>2 DEF Loses, Framed
  <2>3. CASE Sends(q)
    BY <2>3, SendsFrames
  <2>4. CASE Tells(q)
    BY <2>4 DEF Tells, Framed, vars
  <2>5. CASE Connects(q)
    <3>1. /\ request'[q].sent = <<>> /\ request'[q].view.events = <<>>
          /\ request'[q].at = "look" /\ (request'[q].run \in Accepted \/ ~resident)
      BY <2>t, <2>5 DEF Connects
    <3>2. Accepted' = Accepted /\ resident' = resident
      BY <2>5 DEF Connects, vars, Accepted
    <3> QED  BY <3>1, <3>2 DEF Framed
  <2>6. CASE Enforces(q) \/ Refuses(q) \/ Opens(q) \/ Goes(q) \/ Hangs(q) \/ Frees(q)
    <3>1. /\ request'[q].run = request[q].run /\ request'[q].cursor = request[q].cursor
          /\ request'[q].sent \in {request[q].sent, <<>>}
          /\ request'[q].view.events \in {request[q].view.events, <<>>}
      BY <2>t, <2>6 DEF Enforces, Refuses, Opens, Goes, Hangs, Frees, Sets, Turns
    <3>2. /\ request[q].at # "away"
          /\ request'[q].at # "tail" \/ request[q].at = "tail"
      BY <2>t, <2>6 DEF Enforces, Refuses, Opens, Goes, Hangs, Frees, Sets, Turns, Stands
    <3> QED  BY <1>w, <2>t, <3>1, <3>2, FramesRest
  <2> QED  BY <1>2, <2>1, <2>2, <2>3, <2>4, <2>5, <2>6 DEF Acts
<1>3. CASE UNCHANGED <<request, sse>>
  BY <1>w, <1>1, <1>3
<1>4. ASSUME NEW q \in Requests, Acts(q) PROVE \A p \in Requests : Framed(p)'
  BY <1>1, <1>2, <1>4, ActsTurn DEF StreamCore
<1> QED  BY <1>3, <1>4, StreamShape DEF StreamCore, CoreInv

LEMMA FramesInvariant == StreamSpec => []\A q \in Requests : Framed(q)
<1>1. StreamInit => \A q \in Requests : Framed(q)
  BY StreamBegins
<1>2. StreamCore /\ (\A q \in Requests : Framed(q)) /\ [StreamNext]_streamVars
      => (\A q \in Requests : Framed(q))'
  BY FramedStep
<1> QED  BY <1>1, <1>2, StreamCoreInvariant, PTL DEF StreamSpec

(* A stream writes the log from its cursor on, every event once and in order. *)
THEOREM FramesAreTheLog == StreamSpec => []FramesFollowTheLog
<1>1. ASSUME StreamCore, \A q \in Requests : Framed(q) PROVE FramesFollowTheLog
  <2> SUFFICES ASSUME NEW q \in Requests, resident, request[q].sent # <<>>
               PROVE  LET log == runs[request[q].run].log
                          n   == Len(request[q].sent)
                      IN  /\ n <= request[q].cursor /\ request[q].cursor <= Len(log)
                          /\ request[q].sent =
                                SubSeq(log, request[q].cursor - n + 1, request[q].cursor)
    BY DEF FramesFollowTheLog
  <2> DEFINE log == runs[request[q].run].log
             sent == request[q].sent
             cursor == request[q].cursor
  <2>1. request[q].at # "away" /\ request[q].run \in Runs
    BY <1>1 DEF StreamCore, Stands
  <2>2. /\ log \in Seq(EventType) /\ Len(log) \in Nat /\ cursor \in Nat
        /\ sent \in Seq(EventType) /\ Len(sent) \in Nat
    BY <1>1, <2>1, SizesAreNat, ReqIs DEF StreamCore, CoreInv, ReqType
  <2>3. Len(sent) <= cursor /\ Stretch(sent, log, cursor - Len(sent))
    BY <1>1, <2>1 DEF Framed
  <2> HIDE DEF log, sent, cursor
  <2>4. cursor <= Len(log) /\ \A i \in 1..Len(sent) : sent[i] = log[cursor - Len(sent) + i]
    BY <2>2, <2>3 DEF Stretch
  <2> DEFINE part == SubSeq(log, cursor - Len(sent) + 1, cursor)
  <2>5. part \in Seq(EventType) /\ Len(part) = Len(sent)
    BY <2>2, <2>3, <2>4
  <2>6. \A i \in 1..Len(sent) : part[i] = log[cursor - Len(sent) + i]
    BY <2>2, <2>3, <2>4
  <2> HIDE DEF part
  <2>7. sent = part
    BY <2>2, <2>4, <2>5, <2>6, SeqEqual
  <2> QED  BY <2>3, <2>4, <2>7 DEF part, log, sent, cursor
<1> QED  BY <1>1, StreamCoreInvariant, FramesInvariant, PTL

-----------------------------------------------------------------------------
(* The end, step by step.  A Run that ended stays as the stream read it.     *)
LEMMA ClosesRest ==
    ASSUME StreamCore, [Wide]_vars, NEW q \in Requests, Framed(q), Closed(q),
           request'[q].at = "write" => request[q].at = "write",
           request'[q].at \in {"closing", "ended", "closed"} =>
               /\ request[q].at \in {"closing", "ended", "closed"}
               /\ request'[q].reply = request[q].reply
               /\ request'[q].up => request[q].up,
           request'[q].at # "away" => request[q].at # "away",
           request'[q].run = request[q].run, request'[q].cursor = request[q].cursor,
           request'[q].at = "write" => request'[q].view = request[q].view
    PROVE  Closed(q)'
<1> DEFINE req == request[q]
           new == request'[q]
           r == request[q].run
<1> SUFFICES ASSUME resident', new.at # "away" PROVE Closed(q)'
  BY DEF Closed
<1>1. resident /\ req.at # "away" /\ overdue \subseteq overdue'
  BY StoreStays DEF StreamCore
<1>2. r \in Accepted
  BY <1>1 DEF Framed
<1>3. runs[r].state \in EndStates => runs'[r] = runs[r]
  BY <1>2, LogsStay DEF StreamCore
<1>4. new.at = "write" =>
          /\ new.view.state \in LiveStates \cup EndStates
          /\ new.view.state \in EndStates =>
                /\ runs'[r].state = new.view.state
                /\ new.cursor + Len(new.view.events) >= Len(runs'[r].log)
  BY <1>1, <1>3 DEF Closed
<1>5. /\ new.at \in {"closing", "ended", "closed"}
      /\ new.reply = "stream" /\ new.up /\ r \notin overdue'
      => runs'[r].state \in EndStates /\ new.cursor >= Len(runs'[r].log)
  BY <1>1, <1>3 DEF Closed
<1> QED  BY <1>4, <1>5 DEF Closed

LEMMA ReadsClosed ==
    ASSUME StreamCore, NEW q \in Requests, Framed(q), Reads(q)
    PROVE  Closed(q)'
<1> DEFINE r == request[q].run
           log == runs[r].log
           new == request'[q]
<1>1. /\ resident /\ request[q].at # "away" /\ UNCHANGED vars /\ r \in Runs
      /\ new.run = r /\ new.cursor = request[q].cursor /\ new.view = Slice(q)
      /\ new.at \in {"enforce", AfterRead(q)}
  BY DEF Reads, Sets, Turns, StreamCore, Stands
<1>2. /\ log \in Seq(EventType) /\ Len(log) \in Nat /\ new.cursor \in Nat
      /\ runs[r].state \in LiveStates \cup EndStates
  <2>1. r \in Accepted
    BY <1>1 DEF Framed
  <2> QED  BY <1>1, <2>1, SizesAreNat, ReqIs DEF StreamCore, CoreInv, ReqType, RunType, Accepted
<1>3. runs' = runs /\ new.at \notin {"closing", "ended", "closed"}
  BY <1>1 DEF vars, AfterRead
<1>4. CASE new.at = "write"
  <2>1. request[q].slot
    BY <1>1, <1>4 DEF AfterRead
  <2>2. new.view.state = runs[r].state /\ new.view.events = SubSeq(log, new.cursor + 1, Len(log))
    BY <1>1, <2>1, SliceTyped DEF StreamCore, CoreInv
  <2> DEFINE cursor == new.cursor
  <2>3. log \in Seq(EventType) /\ Len(log) \in Nat /\ cursor \in Nat
    BY <1>2
  <2> HIDE DEF log, cursor
  <2>4. cursor + Len(SubSeq(log, cursor + 1, Len(log))) >= Len(log)
    BY <2>3
  <2> QED  BY <1>1, <1>2, <1>3, <2>2, <2>4 DEF Closed, cursor, log
<1>5. CASE new.at # "write"
  BY <1>3, <1>5 DEF Closed
<1> QED  BY <1>4, <1>5

(* The frame a stream writes is the one after its cursor.                    *)
LEMMA SendsNext ==
    ASSUME StreamCore, NEW q \in Requests, Framed(q), Sends(q), resident
    PROVE  /\ request'[q].cursor = request[q].cursor + 1
           /\ Len(request'[q].view.events) = Len(request[q].view.events) - 1
           /\ Len(request[q].view.events) \in Nat
<1> DEFINE r == request[q].run
           log == runs[r].log
           events == request[q].view.events
           cursor == request[q].cursor
<1>1. /\ request[q].at = "write" /\ events # <<>> /\ request'[q].cursor = Head(events).seq
      /\ request'[q].view.events = Tail(events)
  BY DEF Sends
<1>2. events \in Seq(EventType) /\ cursor \in Nat
  BY ReqIs DEF StreamCore, ReqType, View
<1>3. r \in Accepted /\ Stretch(events, log, cursor)
  BY <1>1 DEF Framed
<1>4. \A i \in 1..Len(log) : log[i].seq = i
  BY <1>3 DEF StreamCore, OrderInv, Ordered, InOrder, Numbered
<1>5. Len(log) \in Nat
  BY <1>3, SizesAreNat DEF StreamCore, CoreInv, Accepted
<1> HIDE DEF log, events, cursor
<1>6. /\ Len(events) \in Nat /\ Len(events) >= 1 /\ Head(events) = events[1]
      /\ Len(Tail(events)) = Len(events) - 1
  BY <1>1, <1>2
<1>7. Head(events) = log[cursor + 1] /\ cursor + 1 \in 1..Len(log)
  BY <1>2, <1>3, <1>5, <1>6 DEF Stretch
<1>8. Head(events).seq = cursor + 1
  BY <1>4, <1>7
<1> QED  BY <1>1, <1>6, <1>8 DEF events, cursor

LEMMA SendsClosed ==
    ASSUME StreamCore, NEW q \in Requests, Framed(q), Closed(q), Sends(q)
    PROVE  Closed(q)'
<1> DEFINE r == request[q].run
           new == request'[q]
<1>1. /\ UNCHANGED vars /\ request[q].at = "write" /\ new.at = "write" /\ new.run = r
      /\ new.view.state = request[q].view.state
  BY DEF Sends, Turns
<1>2. runs' = runs /\ resident' = resident
  BY <1>1 DEF vars
<1> SUFFICES ASSUME resident PROVE Closed(q)'
  BY <1>2 DEF Closed
<1>3. request[q].cursor \in Nat
  BY ReqIs DEF StreamCore, ReqType
<1>4. new.cursor + Len(new.view.events) = request[q].cursor + Len(request[q].view.events)
  <2> DEFINE c == request[q].cursor
             n == Len(request[q].view.events)
  <2>1. new.cursor = c + 1 /\ Len(new.view.events) = n - 1 /\ n \in Nat /\ c \in Nat
    BY <1>3, SendsNext
  <2> HIDE DEF c, n
  <2>2. c + 1 + (n - 1) = c + n
    BY <2>1
  <2>3. new.cursor + Len(new.view.events) = c + n
    BY <2>1, <2>2
  <2> QED  BY <2>3 DEF c, n
<1>5. /\ new.view.state \in LiveStates \cup EndStates
      /\ new.view.state \in EndStates =>
            /\ runs[r].state = new.view.state
            /\ new.cursor + Len(new.view.events) >= Len(runs[r].log)
  BY <1>1, <1>4 DEF Closed
<1> QED  BY <1>1, <1>2, <1>5 DEF Closed

LEMMA GoesClosed ==
    ASSUME StreamCore, NEW q \in Requests, Framed(q), Closed(q), Goes(q)
    PROVE  Closed(q)'
<1> DEFINE r == request[q].run
           new == request'[q]
<1>1. /\ UNCHANGED vars /\ new.run = r /\ new.cursor = request[q].cursor
      /\ new.up = request[q].up /\ new.reply = request[q].reply
  BY DEF Goes, Sets, Turns
<1>2. runs' = runs /\ resident' = resident /\ overdue' = overdue
  BY <1>1 DEF vars
<1>3. \/ new.at = "look" \/ (new.at \in {"closing", "ended"} /\ ~new.up)
      \/ /\ new.at = "closing" /\ request[q].at = "write" /\ request[q].view.events = <<>>
         /\ request[q].view.state \notin LiveStates \/ r \in overdue
  BY DEF Goes, Sets
<1>4. CASE new.at = "look" \/ (new.at \in {"closing", "ended"} /\ ~new.up)
  BY <1>4 DEF Closed
<1>5. CASE /\ new.at = "closing" /\ request[q].at = "write" /\ request[q].view.events = <<>>
           /\ request[q].view.state \notin LiveStates \/ r \in overdue
  <2>1. request[q].cursor + Len(request[q].view.events) = request[q].cursor
    <3>1. request[q].cursor \in Nat /\ Len(<<>>) = 0
      BY ReqIs DEF StreamCore, ReqType
    <3> QED  BY <1>5, <3>1
  <2>2. resident /\ r \notin overdue =>
            runs[r].state \in EndStates /\ request[q].cursor >= Len(runs[r].log)
    BY <1>5, <2>1 DEF Closed
  <2> QED  BY <1>1, <1>2, <1>5, <2>2 DEF Closed
<1> QED  BY <1>3, <1>4, <1>5

LEMMA ClosedStep ==
    ASSUME StreamCore, \A q \in Requests : Framed(q) /\ Closed(q), [StreamNext]_streamVars
    PROVE  \A q \in Requests : Closed(q)'
<1>w. [Wide]_vars
  BY StreamCoreStep
<1>1. ASSUME NEW q \in Requests, request'[q] = request[q] PROVE Closed(q)'
  BY <1>w, <1>1, ClosesRest
<1>2. ASSUME NEW q \in Requests, Acts(q) PROVE Closed(q)'
  <2>t. Stands(q)
    BY DEF StreamCore
  <2>1. CASE Reads(q)
    BY <2>1, ReadsClosed
  <2>2. CASE Loses(q)
    BY <2>2 DEF Loses, Closed
  <2>3. CASE Sends(q)
    BY <2>3, SendsClosed
  <2>4. CASE Goes(q)
    BY <2>4, GoesClosed
  <2>5. CASE Tells(q)
    BY <2>5 DEF Tells, Framed, Closed, vars
  <2>6. CASE Connects(q)
    BY <2>6 DEF Connects, Closed
  <2>7. CASE Refuses(q)
    BY <2>7 DEF Refuses, Sets, Closed
  <2>8. CASE Enforces(q) \/ Opens(q)
    BY <2>8 DEF Enforces, Opens, Sets, Closed
  <2>9. CASE Hangs(q)
    <3>1. /\ request'[q].run = request[q].run /\ request'[q].at = request[q].at
          /\ request'[q].cursor = request[q].cursor /\ request'[q].view = request[q].view
          /\ request'[q].reply = request[q].reply /\ request'[q].up = FALSE
      BY <2>9 DEF Hangs, Turns
    <3> QED  BY <1>w, <3>1, ClosesRest
  <2>10. CASE Frees(q)
    <3>1. /\ request'[q].run = request[q].run /\ request'[q].cursor = request[q].cursor
          /\ request'[q].reply = request[q].reply /\ request'[q].up = request[q].up
          /\ request[q].at \in {"closing", "ended"} /\ request'[q].at \in {"ended", "closed"}
      BY <2>10 DEF Frees, Turns
    <3> QED  BY <1>w, <3>1, ClosesRest
  <2> QED  BY <1>2, <2>1, <2>2, <2>3, <2>4, <2>5, <2>6, <2>7, <2>8, <2>9, <2>10 DEF Acts
<1>3. CASE UNCHANGED <<request, sse>>
  BY <1>1, <1>3
<1>4. ASSUME NEW q \in Requests, Acts(q) PROVE \A p \in Requests : Closed(p)'
  BY <1>1, <1>2, <1>4, ActsTurn DEF StreamCore
<1> QED  BY <1>3, <1>4, StreamShape DEF StreamCore, CoreInv

LEMMA ClosedInvariant == StreamSpec => []\A q \in Requests : Closed(q)
<1>1. StreamInit => \A q \in Requests : Closed(q)
  BY StreamBegins
<1>2. /\ StreamCore /\ (\A q \in Requests : Framed(q)) /\ (\A q \in Requests : Closed(q))
      /\ [StreamNext]_streamVars
      => (\A q \in Requests : Closed(q))'
  BY ClosedStep
<1> QED  BY <1>1, <1>2, StreamCoreInvariant, FramesInvariant, PTL DEF StreamSpec

LEMMA EndsWithStreamEnd ==
    ASSUME StreamCore, NEW r \in Accepted, runs[r].state \in EndStates
    PROVE  Len(runs[r].log) \in Nat \ {0} /\ runs[r].log[Len(runs[r].log)].type = "stream.end"
<1> DEFINE log == runs[r].log
           tail == DocumentedTail(runs[r].state)
<1>1. Len(tail) \in {3, 4} /\ tail[Len(tail)] = "stream.end"
  BY DEF DocumentedTail, EndStates
<1>2. Len(log) \in Nat
  BY SizesAreNat DEF StreamCore, CoreInv, Accepted
<1>3. /\ Len(log) - Len(tail) >= (IF runs[r].state \in {"running", "completed"} THEN 1 ELSE 0)
      /\ \A i \in 1..Len(tail) : log[Len(log) - Len(tail) + i].type = tail[i]
  BY DEF StreamCore, OrderInv, Ordered, InOrder
<1> HIDE DEF log, tail
<1>4. Len(log) - Len(tail) >= 0
  <2>1. Len(log) - Len(tail) \in Int
    BY <1>1, <1>2
  <2> QED  BY <1>3, <2>1
<1>k. PICK k \in {3, 4} : k = Len(tail)
  BY <1>1
<1>5. log[Len(log)].type = "stream.end"
  <2>1. Len(log) - k + k = Len(log) /\ k \in 1..k
    BY <1>2, <1>k
  <2>2. log[Len(log) - k + k].type = tail[k]
    BY <1>3, <1>k, <2>1
  <2> QED  BY <1>1, <1>k, <2>1, <2>2
<1> QED  BY <1>1, <1>2, <1>4, <1>5 DEF log

(* A stream the server closes has written its Run's log to stream.end, unless
   the Deadline passed or the Conversation went (docs/sse-contract.md).       *)
THEOREM CloseIsTheEnd == StreamSpec => []ServerCloseIsComplete
<1>1. ASSUME StreamCore, \A q \in Requests : Framed(q), \A q \in Requests : Closed(q)
      PROVE  ServerCloseIsComplete
  <2> SUFFICES ASSUME NEW q \in Requests,
                      request[q].at \in {"closing", "ended", "closed"},
                      request[q].reply = "stream", request[q].up,
                      resident, request[q].run \notin overdue
               PROVE  /\ runs[request[q].run].state \in EndStates
                      /\ request[q].cursor >= Len(runs[request[q].run].log)
                      /\ request[q].sent # <<>> =>
                            request[q].sent[Len(request[q].sent)].type = "stream.end"
    BY DEF ServerCloseIsComplete
  <2> DEFINE r == request[q].run
             log == runs[r].log
             sent == request[q].sent
             cursor == request[q].cursor
  <2>1. runs[r].state \in EndStates /\ cursor >= Len(log) /\ r \in Accepted
    BY <1>1 DEF Closed, Framed
  <2>2. /\ log[Len(log)].type = "stream.end" /\ Len(log) \in Nat
        /\ cursor \in Nat /\ sent \in Seq(EventType)
    BY <1>1, <2>1, EndsWithStreamEnd, ReqIs DEF StreamCore, ReqType
  <2>3. ASSUME sent # <<>> PROVE sent[Len(sent)].type = "stream.end"
    <3>1. Len(sent) <= cursor /\ Stretch(sent, log, cursor - Len(sent))
      BY <1>1, <2>3 DEF Framed
    <3> HIDE DEF log, sent, cursor
    <3>2. Len(sent) \in Nat /\ Len(sent) >= 1
      BY <2>2, <2>3
    <3>3. /\ cursor - Len(sent) + Len(sent) <= Len(log)
          /\ sent[Len(sent)] = log[cursor - Len(sent) + Len(sent)]
      BY <3>1, <3>2 DEF Stretch
    <3>4. cursor - Len(sent) + Len(sent) = cursor /\ cursor = Len(log)
      BY <2>1, <2>2, <3>2, <3>3
    <3> QED  BY <2>2, <3>3, <3>4
  <2> QED  BY <2>1, <2>3
<1> QED  BY <1>1, StreamCoreInvariant, FramesInvariant, ClosedInvariant, PTL

-----------------------------------------------------------------------------
(* The expiry, step by step.  While there is a log, what a request wrote and
   read is part of it, so there is nothing to show; what matters is the Purge,
   what follows it, and the pair.                                             *)
LEMMA OutTyped ==
    ASSUME StreamCore, NEW q \in Requests
    PROVE  /\ request[q].sent \in Seq(EventType) /\ request[q].view.events \in Seq(EventType)
           /\ Out(q) \in Seq(EventType)
           /\ Len(Out(q)) = Len(request[q].sent) + Len(request[q].view.events)
           /\ \A i \in 1..Len(request[q].sent) :
                 i \in 1..Len(Out(q)) /\ Out(q)[i] = request[q].sent[i]
           /\ \A i \in 1..Len(request[q].view.events) :
                 /\ Len(request[q].sent) + i \in 1..Len(Out(q))
                 /\ Out(q)[Len(request[q].sent) + i] = request[q].view.events[i]
<1> DEFINE sent == request[q].sent
           events == request[q].view.events
<1>1. sent \in Seq(EventType) /\ events \in Seq(EventType)
  BY ReqIs DEF StreamCore, ReqType, View
<1> HIDE DEF sent, events
<1>2. /\ sent \o events \in Seq(EventType) /\ Len(sent \o events) = Len(sent) + Len(events)
      /\ \A i \in 1..Len(sent) : i \in 1..Len(sent \o events) /\ (sent \o events)[i] = sent[i]
      /\ \A i \in 1..Len(events) : /\ Len(sent) + i \in 1..Len(sent \o events)
                                   /\ (sent \o events)[Len(sent) + i] = events[i]
  BY <1>1
<1> QED  BY <1>1, <1>2 DEF Out, sent, events

LEMMA OutInLog ==
    ASSUME StreamCore, NEW q \in Requests, Framed(q), resident, NEW i \in 1..Len(Out(q))
    PROVE  /\ request[q].run \in Accepted
           /\ \E k \in 1..Len(runs[request[q].run].log) : Out(q)[i] = runs[request[q].run].log[k]
<1> DEFINE log == runs[request[q].run].log
           sent == request[q].sent
           events == request[q].view.events
           cursor == request[q].cursor
           out == Out(q)
<1>1. /\ sent \in Seq(EventType) /\ events \in Seq(EventType) /\ cursor \in Nat
      /\ out = sent \o events /\ i \in 1..Len(out)
  BY OutTyped, ReqIs DEF StreamCore, ReqType, Out
<1>2. request[q].at # "away"
  <2>1. request[q].at = "away" => sent = <<>> /\ events = <<>>
    BY NothingTyped DEF StreamCore, Stands
  <2>2. Len(<<>>) = 0 /\ Len(sent) + Len(events) = Len(out)
    BY OutTyped
  <2> HIDE DEF sent, events, out
  <2>3. sent = <<>> /\ events = <<>> => Len(out) = 0
    BY <2>2
  <2> QED  BY <1>1, <2>1, <2>3
<1>3. /\ request[q].run \in Accepted
      /\ sent # <<>> => Len(sent) <= cursor /\ Stretch(sent, log, cursor - Len(sent))
      /\ events # <<>> => Stretch(events, log, cursor)
  BY <1>2 DEF Framed
<1>4. Len(log) \in Nat
  BY <1>3, SizesAreNat DEF StreamCore, CoreInv, Accepted
<1> HIDE DEF log, sent, events, cursor, out
<1>5. CASE i \in 1..Len(sent)
  <2>1. out[i] = sent[i] /\ sent # <<>> /\ Len(sent) \in Nat
    BY <1>1, <1>5
  <2>2. cursor <= Len(log) /\ sent[i] = log[cursor - Len(sent) + i]
    <3>1. cursor - Len(sent) + Len(sent) <= Len(log)
      BY <1>3, <2>1 DEF Stretch
    <3> QED  BY <1>1, <1>3, <1>4, <1>5, <2>1, <3>1 DEF Stretch
  <2>3. cursor - Len(sent) + i \in 1..Len(log)
    BY <1>1, <1>3, <1>4, <1>5, <2>1, <2>2
  <2> QED  BY <1>3, <2>1, <2>2, <2>3 DEF log, out
<1>6. CASE i \notin 1..Len(sent)
  <2>1. PICK j \in 1..Len(events) : out[i] = events[j]
    <3>1. i - Len(sent) \in 1..Len(events) /\ out[i] = events[i - Len(sent)]
      BY <1>1, <1>6
    <3> QED  BY <3>1
  <2>2. events # <<>> /\ Len(events) \in Nat
    BY <1>1, <2>1
  <2>3. cursor + Len(events) <= Len(log) /\ events[j] = log[cursor + j]
    BY <1>3, <2>2 DEF Stretch
  <2>4. cursor + j \in 1..Len(log)
    BY <1>1, <1>4, <2>2, <2>3
  <2> QED  BY <1>3, <2>1, <2>3, <2>4 DEF log, out
<1> QED  BY <1>5, <1>6

LEMMA PlainEndsOnce ==
    ASSUME NEW out, \A i \in 1..Len(out) : Plain(out[i])
    PROVE  EndsOnce(out)
BY DEF EndsOnce, Plain

LEMMA AnnouncedWhileResident ==
    ASSUME StreamCore, \A q \in Requests : Framed(q), resident
    PROVE  \A q \in Requests : Announced(q)
<1> SUFFICES ASSUME NEW q \in Requests PROVE Announced(q)
  OBVIOUS
<1>1. \A i \in 1..Len(Out(q)) : Plain(Out(q)[i])
  BY OutInLog DEF StreamCore, LogsArePlain, Accepted
<1>2. \A i \in 1..Len(Out(q)) : Old(Out(q)[i], request[q].run)
  BY <1>1 DEF Old
<1>3. ASSUME request[q].sent # <<>>
      PROVE  request[q].cursor = request[q].sent[Len(request[q].sent)].seq
  <2> DEFINE log == runs[request[q].run].log
             sent == request[q].sent
             cursor == request[q].cursor
  <2>1. request[q].at # "away" /\ cursor \in Nat /\ sent \in Seq(EventType)
    BY <1>3, OutTyped, ReqIs DEF StreamCore, Stands, ReqType
  <2>2. /\ request[q].run \in Accepted /\ Len(sent) <= cursor
        /\ Stretch(sent, log, cursor - Len(sent))
    BY <1>3, <2>1 DEF Framed
  <2>3. \A i \in 1..Len(log) : log[i].seq = i
    BY <2>2 DEF StreamCore, OrderInv, Ordered, InOrder, Numbered
  <2>4. Len(log) \in Nat
    BY <2>2, SizesAreNat DEF StreamCore, CoreInv, Accepted
  <2>5. sent # <<>>
    BY <1>3
  <2> HIDE DEF log, sent, cursor
  <2>6. Len(sent) \in Nat /\ Len(sent) >= 1
    BY <2>1, <2>5
  <2>7. /\ cursor - Len(sent) + Len(sent) = cursor
        /\ cursor - Len(sent) + Len(sent) <= Len(log)
        /\ sent[Len(sent)] = log[cursor - Len(sent) + Len(sent)]
    BY <2>1, <2>2, <2>6 DEF Stretch
  <2>8. sent[Len(sent)] = log[cursor] /\ cursor \in 1..Len(log)
    BY <2>1, <2>2, <2>4, <2>6, <2>7
  <2>9. sent[Len(sent)].seq = cursor
    BY <2>3, <2>8
  <2> QED  BY <2>9 DEF sent, cursor
<1> QED  BY <1>1, <1>2, <1>3, PlainEndsOnce DEF Announced

(* The Purge numbers its pair after the log of a Run that has not ended.     *)
LEMMA OldAtPurge ==
    ASSUME StreamCore, Purges, tombstone' # None, NEW r \in Accepted, tombstone'.run = r,
           NEW k \in 1..Len(runs[r].log)
    PROVE  /\ runs[r].log[k].seq < tombstone'.tail[1].seq
           /\ runs[r].log[k].type # "stream.end"
<1>1. /\ activeRun = r /\ activeRun # None
      /\ tombstone' = [run |-> activeRun, tail |-> ExpiryTail(NextSeq(runs[activeRun]))]
  BY DEF Purges
<1>2. r \in Runs /\ runs[r].state \in LiveStates /\ Len(runs[r].log) \in Nat
  BY <1>1, SizesAreNat DEF StreamCore, CoreInv, LiveRunIsActive, Accepted
<1> DEFINE n == NextSeq(runs[r])
<1>3. n = Len(runs[r].log) + 1
  BY DEF NextSeq
<1>4. tombstone'.tail = ExpiryTail(n)
  BY <1>1
<1> HIDE DEF n
<1>5. tombstone'.tail[1].seq = n
  <2>1. n \in Nat
    BY <1>2, <1>3
  <2>2. ExpiryTail(n)[1].seq = n
    BY <2>1, ExpiryTailFields
  <2> QED  BY <1>4, <2>2
<1>6. runs[r].log[k].seq = k
  BY DEF StreamCore, OrderInv, Ordered, InOrder, Numbered
<1>7. runs[r].log[k].type # "stream.end"
  BY <1>2, PlacesInLog DEF StreamCore, CoreInv, LiveStates, EndStates
<1> QED  BY <1>2, <1>3, <1>5, <1>6, <1>7

(* So what was old stays old, through the Purge and after it.                *)
StillOld(e, r) ==
    /\ Plain(e)
    /\ ~resident' /\ tombstone' # None /\ tombstone'.run = r =>
          e.seq < tombstone'.tail[1].seq /\ e.type # "stream.end"

LEMMA OldOut ==
    ASSUME StreamCore, [Wide]_vars, ~resident', NEW q \in Requests, Framed(q), Announced(q),
           BeforeTail(q), NEW i \in 1..Len(Out(q))
    PROVE  StillOld(Out(q)[i], request[q].run)
<1>1. Old(Out(q)[i], request[q].run)
  BY DEF Announced
<1>2. CASE ~resident
  BY <1>1, <1>2, StoreStays DEF StreamCore, Old, StillOld
<1>3. CASE resident
  <2>1. Purges
    BY <1>3, StoreStays DEF StreamCore
  <2>2. /\ request[q].run \in Accepted
        /\ \E k \in 1..Len(runs[request[q].run].log) :
              Out(q)[i] = runs[request[q].run].log[k]
    BY <1>3, OutInLog
  <2> QED  BY <1>1, <2>1, <2>2, OldAtPurge DEF Old, StillOld
<1>4. resident \in BOOLEAN
  BY DEF StreamCore, CoreInv, TypeOK
<1> QED  BY <1>2, <1>3, <1>4

LEMMA AllOld ==
    ASSUME StreamCore, NEW q \in Requests, ~resident', request'[q].run = request[q].run,
           \A i \in 1..Len(request'[q].sent \o request'[q].view.events) :
               StillOld((request'[q].sent \o request'[q].view.events)[i], request[q].run),
           request'[q].sent # <<>> =>
               request'[q].cursor = request'[q].sent[Len(request'[q].sent)].seq
    PROVE  Announced(q)'
<1> DEFINE out == request'[q].sent \o request'[q].view.events
<1>1. \A i \in 1..Len(out) : Plain(out[i])
  BY DEF StillOld
<1>2. EndsOnce(out)
  <2> HIDE DEF out
  <2> QED  BY <1>1, PlainEndsOnce
<1>3. Out(q)' = out
  BY DEF Out
<1>4. EndsOnce(Out(q))' /\ \A i \in 1..Len(Out(q)') : Old(Out(q)[i], request[q].run)'
  <2>1. \A i \in 1..Len(out) : StillOld(out[i], request'[q].run)
    OBVIOUS
  <2>2. EndsOnce(Out(q)')
    BY <1>2, <1>3
  <2>3. \A i \in 1..Len(Out(q)') : StillOld(Out(q)'[i], request'[q].run)
    <3> HIDE DEF out
    <3> QED  BY <1>3, <2>1
  <2>4. EndsOnce(Out(q))'
    BY <2>2 DEF EndsOnce
  <2> QED  BY <2>3, <2>4 DEF StillOld, Old, Plain
<1> QED  BY <1>4 DEF Announced

LEMMA SameOut ==
    ASSUME StreamCore, [Wide]_vars, ~resident', NEW q \in Requests, Framed(q), Announced(q),
           request'[q].run = request[q].run,
           request'[q].sent \o request'[q].view.events = Out(q),
           BeforeTail(q)' => BeforeTail(q),
           request'[q].sent # <<>> =>
               request'[q].cursor = request'[q].sent[Len(request'[q].sent)].seq
    PROVE  Announced(q)'
<1> DEFINE out == Out(q)
<1>1. Out(q)' = out /\ EndsOnce(out)
  BY DEF Out, Announced
<1>2. BeforeTail(q) => \A i \in 1..Len(out) : StillOld(out[i], request[q].run)
  BY OldOut
<1> HIDE DEF out
<1>3. EndsOnce(Out(q))'
  <2>1. EndsOnce(Out(q)')
    BY <1>1
  <2> QED  BY <2>1 DEF EndsOnce
<1>4. BeforeTail(q)' => \A i \in 1..Len(Out(q)') : Old(Out(q)[i], request[q].run)'
  <2>1. BeforeTail(q)' => \A i \in 1..Len(Out(q)') : StillOld(Out(q)'[i], request'[q].run)
    BY <1>1, <1>2
  <2> QED  BY <2>1 DEF StillOld, Old, Plain
<1> QED  BY <1>3, <1>4 DEF Announced

(* A client that hangs up takes with it what was written.                    *)
LEMMA SuffixEndsOnce ==
    ASSUME NEW a \in Seq(EventType), NEW b \in Seq(EventType), EndsOnce(a \o b)
    PROVE  EndsOnce(b)
<1> DEFINE out == a \o b
           n == Len(a)
<1>1. /\ Len(out) = n + Len(b) /\ n \in Nat /\ Len(b) \in Nat
      /\ \A i \in 1..Len(b) : n + i \in 1..Len(out) /\ out[n + i] = b[i]
  OBVIOUS
<1>2. EndsOnce(out)
  OBVIOUS
<1> HIDE DEF out, n
<1>3. ASSUME NEW i \in 1..Len(b), b[i].type = "conversation.expired"
      PROVE  /\ i = Len(b) - 1 /\ b[Len(b)].state = "expired"
             /\ \A j \in 1..i - 1 : b[j].seq < b[i].seq /\ b[j].type # "stream.end"
  <2>1. n + i \in 1..Len(out) /\ out[n + i].type = "conversation.expired"
    BY <1>1, <1>3
  <2>2. /\ n + i = Len(out) - 1 /\ out[Len(out)].state = "expired"
        /\ \A j \in 1..(n + i) - 1 :
              out[j].seq < out[n + i].seq /\ out[j].type # "stream.end"
    BY <1>2, <2>1 DEF EndsOnce
  <2>3. i = Len(b) - 1 /\ Len(b) \in 1..Len(b)
    BY <1>1, <1>3, <2>2
  <2>4. b[Len(b)].state = "expired"
    BY <1>1, <2>2, <2>3
  <2>5. ASSUME NEW j \in 1..i - 1 PROVE b[j].seq < b[i].seq /\ b[j].type # "stream.end"
    <3>1. n + j \in 1..(n + i) - 1 /\ j \in 1..Len(b)
      BY <1>1, <1>3, <2>3
    <3> QED  BY <1>1, <2>2, <3>1
  <2> QED  BY <2>3, <2>4, <2>5
<1>4. ASSUME NEW i \in 1..Len(b), b[i].state = "expired", i > 1
      PROVE  b[i - 1].type = "conversation.expired"
  <2>1. n + i \in 1..Len(out) /\ out[n + i].state = "expired" /\ n + i > 1
    BY <1>1, <1>4
  <2>2. out[(n + i) - 1].type = "conversation.expired"
    BY <1>2, <2>1 DEF EndsOnce
  <2>3. i - 1 \in 1..Len(b) /\ (n + i) - 1 = n + (i - 1)
    BY <1>1, <1>4
  <2> QED  BY <1>1, <2>2, <2>3
<1> QED  BY <1>3, <1>4 DEF EndsOnce

LEMMA HangsAnnounced ==
    ASSUME StreamCore, [Wide]_vars, ~resident', NEW q \in Requests, Framed(q), Announced(q),
           Hangs(q)
    PROVE  Announced(q)'
<1> DEFINE sent == request[q].sent
           events == request[q].view.events
           r == request[q].run
<1>1. /\ request'[q].run = r /\ request'[q].at = request[q].at
      /\ request'[q].view = request[q].view /\ request'[q].sent = <<>>
  BY DEF Hangs, Turns
<1>2. sent \in Seq(EventType) /\ events \in Seq(EventType) /\ EndsOnce(sent \o events)
  BY OutTyped DEF Announced, Out
<1>3. EndsOnce(events)
  <2> HIDE DEF sent, events
  <2> QED  BY <1>2, SuffixEndsOnce
<1>4. Out(q)' = events
  <2>1. Out(q)' = <<>> \o events
    BY <1>1 DEF Out
  <2> HIDE DEF events
  <2> QED  BY <1>2, <2>1
<1>5. BeforeTail(q)' => \A i \in 1..Len(events) : StillOld(events[i], r)
  <2>1. BeforeTail(q)' <=> BeforeTail(q)
    BY <1>1 DEF BeforeTail
  <2> QED  BY <2>1, OldOut, OutTyped
<1> HIDE DEF events
<1>6. EndsOnce(Out(q))'
  <2>1. EndsOnce(Out(q)')
    BY <1>3, <1>4
  <2> QED  BY <2>1 DEF EndsOnce
<1>7. BeforeTail(q)' => \A i \in 1..Len(Out(q)') : Old(Out(q)[i], request[q].run)'
  <2>1. BeforeTail(q)' => \A i \in 1..Len(Out(q)') : StillOld(Out(q)'[i], request'[q].run)
    BY <1>1, <1>4, <1>5
  <2> QED  BY <2>1 DEF StillOld, Old, Plain
<1> QED  BY <1>1, <1>6, <1>7 DEF Announced

(* The pair, after what was written.                                         *)
LEMMA PairIs ==
    ASSUME NEW n \in Nat
    PROVE  LET e1 == ExpiryTail(n)[1]
               e2 == ExpiryTail(n)[2]
           IN  /\ e1.seq = n /\ e1.type = "conversation.expired" /\ e1.state # "expired"
               /\ e2.seq = n + 1 /\ e2.type = "stream.end" /\ e2.state = "expired"
               /\ e1 \in EventType /\ e2 \in EventType
<1>1. /\ ExpiryTail(n)[1] = Event(n, "conversation.expired")
      /\ ExpiryTail(n)[2] = StreamEnd(n + 1, "expired")
  BY DEF ExpiryTail
<1>2. /\ Event(n, "conversation.expired") \in EventType
      /\ StreamEnd(n + 1, "expired") \in EventType
  <2>1. "conversation.expired" \in EventNames /\ "expired" \in EventStates /\ n + 1 \in Nat
    BY DEF EventNames, EventStates
  <2> QED  BY <2>1, EventTyped, StreamEndTyped
<1>3. /\ Event(n, "conversation.expired").seq = n
      /\ Event(n, "conversation.expired").type = "conversation.expired"
      /\ Event(n, "conversation.expired").state # "expired"
      /\ StreamEnd(n + 1, "expired").seq = n + 1
      /\ StreamEnd(n + 1, "expired").type = "stream.end"
      /\ StreamEnd(n + 1, "expired").state = "expired"
  BY DEF Event, StreamEnd
<1> QED  BY <1>1, <1>2, <1>3

LEMMA PairEndsOnce ==
    ASSUME NEW n \in Nat, NEW sent \in Seq(EventType), NEW c \in Nat,
           \A i \in 1..Len(sent) :
               Plain(sent[i]) /\ sent[i].seq < n /\ sent[i].type # "stream.end",
           sent # <<>> => c = sent[Len(sent)].seq
    PROVE  EndsOnce(sent \o PairAfter(ExpiryTail(n), c))
<1> DEFINE e1 == ExpiryTail(n)[1]
           e2 == ExpiryTail(n)[2]
           pair == PairAfter(ExpiryTail(n), c)
<1>1. /\ e1.seq = n /\ e1.type = "conversation.expired" /\ e1.state # "expired"
      /\ e2.seq = n + 1 /\ e2.type = "stream.end" /\ e2.state = "expired"
      /\ e1 \in EventType /\ e2 \in EventType
  BY PairIs
<1>2. pair = After(e1, c) \o After(e2, c)
  BY DEF PairAfter
<1> HIDE DEF e1, e2, pair
<1>3. CASE c < n
  <2>1. pair = <<e1, e2>>
    <3>1. e1.seq > c /\ e2.seq > c
      BY <1>1, <1>3
    <3>2. After(e1, c) = <<e1>> /\ After(e2, c) = <<e2>>
      BY <3>1 DEF After
    <3>3. <<e1>> \o <<e2>> = <<e1, e2>>
      <4> DEFINE both == <<e1>> \o <<e2>>
      <4>1. /\ both \in Seq(EventType) /\ <<e1, e2>> \in Seq(EventType)
            /\ Len(both) = 2 /\ Len(<<e1, e2>>) = 2
            /\ both[1] = e1 /\ both[2] = e2 /\ <<e1, e2>>[1] = e1 /\ <<e1, e2>>[2] = e2
        BY <1>1
      <4> HIDE DEF both
      <4>2. \A i \in 1..2 : i = 1 \/ i = 2
        OBVIOUS
      <4>3. \A i \in 1..2 : both[i] = <<e1, e2>>[i]
        BY <4>1, <4>2
      <4>4. both = <<e1, e2>>
        BY <4>1, <4>3, SeqEqual
      <4> QED  BY <4>4 DEF both
    <3> QED  BY <1>2, <3>2, <3>3
  <2> DEFINE out == sent \o <<e1, e2>>
             m == Len(sent)
  <2>2. /\ Len(out) = m + 2 /\ m \in Nat /\ out[m + 1] = e1 /\ out[m + 2] = e2
        /\ \A i \in 1..m : out[i] = sent[i]
    BY <1>1
  <2>3. \A i \in 1..m : Plain(sent[i]) /\ sent[i].seq < n /\ sent[i].type # "stream.end"
    OBVIOUS
  <2> HIDE DEF out, m
  <2>4. \A i \in 1..Len(out) : i \in 1..m \/ i = m + 1 \/ i = m + 2
    BY <2>2
  <2>5. ASSUME NEW i \in 1..Len(out), out[i].type = "conversation.expired"
        PROVE  /\ i = Len(out) - 1 /\ out[Len(out)].state = "expired"
               /\ \A j \in 1..i - 1 : out[j].seq < out[i].seq /\ out[j].type # "stream.end"
    <3>1. i = m + 1
      BY <1>1, <2>2, <2>3, <2>4, <2>5 DEF Plain
    <3>2. i = Len(out) - 1 /\ out[Len(out)] = e2 /\ out[i] = e1 /\ i - 1 = m
      BY <2>2, <3>1
    <3> QED  BY <1>1, <2>2, <2>3, <3>2
  <2>6. ASSUME NEW i \in 1..Len(out), out[i].state = "expired", i > 1
        PROVE  out[i - 1].type = "conversation.expired"
    <3>1. i = m + 2
      BY <1>1, <2>2, <2>3, <2>4, <2>6 DEF Plain
    <3>2. i - 1 = m + 1
      BY <2>2, <3>1
    <3> QED  BY <1>1, <2>2, <3>2
  <2>7. EndsOnce(out)
    BY <2>5, <2>6 DEF EndsOnce
  <2> QED  BY <2>1, <2>7 DEF out, pair
<1>4. CASE ~(c < n)
  <2>1. sent = <<>>
    <3> SUFFICES ASSUME sent # <<>> PROVE FALSE
      OBVIOUS
    <3>1. Len(sent) \in 1..Len(sent)
      OBVIOUS
    <3> QED  BY <1>4, <3>1
  <2>2. pair = <<e2>> \/ pair = <<>>
    BY <1>1, <1>2, <1>4 DEF After
  <2>3. sent \o pair = pair
    BY <1>1, <2>1, <2>2
  <2>4. CASE pair = <<e2>>
    <3>1. Len(pair) = 1 /\ pair[1] = e2
      BY <2>4
    <3>2. \A i \in 1..Len(pair) : i = 1
      BY <3>1
    <3>3. EndsOnce(pair)
      BY <1>1, <3>1, <3>2 DEF EndsOnce
    <3> QED  BY <2>3, <3>3 DEF pair
  <2>5. CASE pair = <<>>
    <3>1. Len(pair) = 0
      BY <2>5
    <3>2. EndsOnce(pair)
      BY <3>1 DEF EndsOnce
    <3> QED  BY <2>3, <3>2 DEF pair
  <2> QED  BY <2>2, <2>4, <2>5
<1> QED  BY <1>3, <1>4

LEMMA TellsAnnounced ==
    ASSUME StreamCore, [Wide]_vars, ~resident', NEW q \in Requests, Framed(q), Announced(q),
           Tells(q)
    PROVE  Announced(q)'
<1> DEFINE sent == request[q].sent
           r == request[q].run
           cursor == request[q].cursor
           new == request'[q]
<1>1. /\ UNCHANGED vars /\ new.run = r /\ new.sent = sent /\ new.cursor = cursor
      /\ new.at = "write" /\ new.view.state = request[q].view.state
      /\ new.view.events = IF tombstone # None /\ tombstone.run = r
                           THEN PairAfter(tombstone.tail, cursor) ELSE <<>>
  BY DEF Tells, Sets, Turns
<1>2. /\ request[q].view.state = "absent" /\ request[q].view.events = <<>> /\ BeforeTail(q)
  BY NothingTyped DEF StreamCore, Stands, Tells, BeforeTail
<1>3. sent \in Seq(EventType) /\ cursor \in Nat /\ Out(q) = sent
  <2>1. sent \in Seq(EventType) /\ cursor \in Nat
    BY OutTyped, ReqIs DEF StreamCore, ReqType
  <2>2. Out(q) = sent \o <<>>
    BY <1>2 DEF Out
  <2> HIDE DEF sent, cursor
  <2> QED  BY <2>1, <2>2
<1>4. \A i \in 1..Len(sent) : Old(sent[i], r)
  BY <1>2, <1>3 DEF Announced
<1>5. sent # <<>> => cursor = sent[Len(sent)].seq
  BY DEF Announced
<1>6. BeforeTail(q)' = FALSE
  BY <1>1, <1>2 DEF BeforeTail
<1>7. EndsOnce(new.sent \o new.view.events)
  <2>1. CASE tombstone # None /\ tombstone.run = r
    <3>1. PICK n \in Nat : tombstone.tail = ExpiryTail(n)
      BY <2>1 DEF StreamCore, PairInv
    <3>2. tombstone.tail[1].seq = n
      BY <3>1, PairIs
    <3>3. ~resident
      BY <1>1 DEF vars
    <3>4. \A i \in 1..Len(sent) :
              Plain(sent[i]) /\ sent[i].seq < n /\ sent[i].type # "stream.end"
      BY <1>4, <2>1, <3>2, <3>3 DEF Old
    <3>5. new.view.events = PairAfter(ExpiryTail(n), cursor)
      BY <1>1, <2>1, <3>1
    <3> HIDE DEF sent, cursor, new
    <3>6. EndsOnce(sent \o PairAfter(ExpiryTail(n), cursor))
      BY <1>3, <1>5, <3>4, PairEndsOnce
    <3> QED  BY <1>1, <3>5, <3>6
  <2>2. CASE ~(tombstone # None /\ tombstone.run = r)
    <3>1. new.sent \o new.view.events = sent
      <4>1. new.view.events = <<>> /\ new.sent = sent
        BY <1>1, <2>2
      <4> HIDE DEF sent, new
      <4> QED  BY <1>3, <4>1
    <3>2. EndsOnce(sent)
      BY <1>4, PlainEndsOnce DEF Old
    <3> QED  BY <3>1, <3>2
  <2> QED  BY <2>1, <2>2
<1>8. EndsOnce(Out(q))'
  <2>1. EndsOnce(Out(q)')
    BY <1>7 DEF Out
  <2> QED  BY <2>1 DEF EndsOnce
<1> QED  BY <1>1, <1>5, <1>6, <1>8 DEF Announced

LEMMA SendsAnnounced ==
    ASSUME StreamCore, [Wide]_vars, ~resident', NEW q \in Requests, Framed(q), Announced(q),
           Sends(q)
    PROVE  Announced(q)'
<1> DEFINE sent == request[q].sent
           events == request[q].view.events
           new == request'[q]
<1>1. /\ new.run = request[q].run /\ new.at = request[q].at /\ events # <<>>
      /\ new.view.state = request[q].view.state /\ new.view.events = Tail(events)
      /\ new.sent = Append(sent, Head(events)) /\ new.cursor = Head(events).seq
  BY DEF Sends, Turns
<1>2. sent \in Seq(EventType) /\ events \in Seq(EventType)
  BY OutTyped
<1>3. /\ Append(sent, Head(events)) \o Tail(events) = sent \o events
      /\ Append(sent, Head(events))[Len(Append(sent, Head(events)))] = Head(events)
  <2> DEFINE more == Append(sent, Head(events))
             rest == Tail(events)
  <2> HIDE DEF sent, events
  <2>1. /\ more \in Seq(EventType) /\ Len(more) = Len(sent) + 1 /\ more[Len(sent) + 1] = Head(events)
        /\ \A i \in 1..Len(sent) : more[i] = sent[i]
        /\ rest \in Seq(EventType) /\ Len(rest) = Len(events) - 1 /\ Head(events) = events[1]
        /\ \A i \in 1..Len(rest) : rest[i] = events[i + 1]
        /\ Len(sent) \in Nat /\ Len(events) \in Nat /\ Len(events) >= 1
    BY <1>1, <1>2
  <2> HIDE DEF more, rest
  <2>2. /\ more \o rest \in Seq(EventType) /\ sent \o events \in Seq(EventType)
        /\ Len(more \o rest) = Len(sent \o events)
    <3>0. more \in Seq(EventType) /\ rest \in Seq(EventType)
      BY <2>1
    <3>1. /\ more \o rest \in Seq(EventType) /\ Len(more \o rest) = Len(more) + Len(rest)
      BY <3>0
    <3>2. /\ sent \o events \in Seq(EventType)
          /\ Len(sent \o events) = Len(sent) + Len(events)
      BY <1>2
    <3>3. Len(more) + Len(rest) = Len(sent) + Len(events)
      <4>1. \A a, b \in Nat : a + 1 + (b - 1) = a + b
        OBVIOUS
      <4>2. Len(more) = Len(sent) + 1 /\ Len(rest) = Len(events) - 1
        BY <2>1
      <4>3. Len(sent) \in Nat /\ Len(events) \in Nat
        BY <2>1
      <4> QED  BY <4>1, <4>2, <4>3
    <3> QED  BY <3>1, <3>2, <3>3
  <2>3. ASSUME NEW i \in 1..Len(more \o rest) PROVE (more \o rest)[i] = (sent \o events)[i]
    <3>1. CASE i <= Len(sent)
      <4>1. (more \o rest)[i] = more[i] /\ (sent \o events)[i] = sent[i]
        BY <1>2, <2>1, <3>1
      <4> QED  BY <2>1, <3>1, <4>1
    <3>2. CASE i = Len(sent) + 1
      <4>1. (more \o rest)[i] = more[i] /\ (sent \o events)[i] = events[1]
        BY <1>2, <2>1, <3>2
      <4> QED  BY <2>1, <3>2, <4>1
    <3>3. CASE i > Len(sent) + 1
      <4>1. /\ i - (Len(sent) + 1) \in 1..Len(rest)
            /\ i - Len(sent) = i - (Len(sent) + 1) + 1
        BY <1>2, <2>1, <3>3
      <4>2. /\ (more \o rest)[i] = rest[i - (Len(sent) + 1)]
            /\ (sent \o events)[i] = events[i - Len(sent)]
        BY <1>2, <2>1, <3>3, <4>1
      <4> QED  BY <2>1, <4>1, <4>2
    <3> QED  BY <2>1, <3>1, <3>2, <3>3
  <2>4. more \o rest = sent \o events
    BY <2>2, <2>3, SeqEqual
  <2> QED  BY <2>1, <2>4 DEF more, rest
<1>4. BeforeTail(q)' => BeforeTail(q)
  BY <1>1 DEF BeforeTail
<1>5. new.sent \o new.view.events = Out(q) /\ new.cursor = new.sent[Len(new.sent)].seq
  BY <1>1, <1>3 DEF Out
<1> QED  BY <1>1, <1>4, <1>5, SameOut

(* Losing the Conversation, refusing a request and giving a slot back drop what
   was read and not written.                                                 *)
LEMMA DropsAnnounced ==
    ASSUME StreamCore, [Wide]_vars, ~resident', NEW q \in Requests, Framed(q), Announced(q),
           Loses(q) \/ Refuses(q) \/ Frees(q) \/ Connects(q)
    PROVE  Announced(q)'
<1> DEFINE sent == request[q].sent
           new == request'[q]
<1>1. CASE Connects(q)
  <2>1. new.sent = <<>> /\ new.view.events = <<>> /\ new.at = "look"
    BY <1>1, NothingTyped DEF Connects
  <2>2. Len(Out(q)') = 0
    <3>1. Out(q)' = <<>> \o <<>>
      BY <2>1 DEF Out
    <3> QED  BY <3>1
  <2>3. EndsOnce(Out(q))'
    <3>1. EndsOnce(Out(q)')
      BY <2>2 DEF EndsOnce
    <3> QED  BY <3>1 DEF EndsOnce
  <2>4. \A i \in 1..Len(Out(q)') : FALSE
    BY <2>2
  <2> QED  BY <2>1, <2>3, <2>4 DEF Announced
<1>2. CASE Frees(q)
  <2>1. /\ new.run = request[q].run /\ new.sent = sent /\ new.view.events = <<>>
        /\ new.cursor = request[q].cursor /\ new.at \in {"ended", "closed"}
        /\ request[q].at \in {"closing", "ended"}
    BY <1>2, NothingTyped DEF Frees, Turns
  <2>2. sent = <<>> \/ request[q].view.events = <<>>
    BY <2>1 DEF StreamCore, Stands
  <2>3. CASE request[q].view.events = <<>>
    <3>1. new.sent \o new.view.events = Out(q)
      BY <2>1, <2>3 DEF Out
    <3>2. BeforeTail(q)' => BeforeTail(q)
      BY <2>1 DEF BeforeTail
    <3>3. new.sent # <<>> => new.cursor = new.sent[Len(new.sent)].seq
      BY <2>1 DEF Announced
    <3> QED  BY <2>1, <3>1, <3>2, <3>3, SameOut
  <2>4. CASE sent = <<>>
    <3>1. Len(new.sent \o new.view.events) = 0
      <4>1. new.sent \o new.view.events = <<>> \o <<>>
        BY <2>1, <2>4
      <4> QED  BY <4>1
    <3> DEFINE out == new.sent \o new.view.events
    <3>2. \A i \in 1..Len(out) : StillOld(out[i], request[q].run)
      <4> HIDE DEF out
      <4>1. Len(out) = 0
        BY <3>1 DEF out
      <4> QED  BY <4>1
    <3> QED  BY <2>1, <2>4, <3>2, AllOld
  <2> QED  BY <2>2, <2>3, <2>4
<1>3. CASE Loses(q) \/ Refuses(q)
  <2>1. /\ new.run = request[q].run /\ new.sent = sent /\ new.cursor = request[q].cursor
        /\ new.view = Nothing \/ new.view = request[q].view
        /\ BeforeTail(q)
    BY <1>3 DEF Loses, Refuses, Sets, Turns, BeforeTail
  <2>2. new.view.events = <<>> \/ new.view.events = request[q].view.events
    BY <2>1, NothingTyped
  <2>3. \A i \in 1..Len(Out(q)) : StillOld(Out(q)[i], request[q].run)
    BY <2>1, OldOut
  <2> DEFINE out == new.sent \o new.view.events
  <2>4. \A i \in 1..Len(out) : StillOld(out[i], request[q].run)
    <3>1. CASE new.view.events = request[q].view.events
      <4>1. out = Out(q)
        BY <2>1, <3>1 DEF Out
      <4> HIDE DEF out
      <4> QED  BY <2>3, <4>1
    <3>2. CASE new.view.events = <<>>
      <4>1. out = sent
        <5>1. sent \in Seq(EventType)
          BY OutTyped
        <5>2. out = sent \o <<>>
          BY <2>1, <3>2
        <5> HIDE DEF sent, out
        <5> QED  BY <5>1, <5>2
      <4>2. \A i \in 1..Len(sent) : StillOld(sent[i], request[q].run)
        BY <2>3, OutTyped
      <4> HIDE DEF sent, out
      <4> QED  BY <4>1, <4>2
    <3> QED  BY <2>2, <3>1, <3>2
  <2>5. new.sent # <<>> => new.cursor = new.sent[Len(new.sent)].seq
    BY <2>1 DEF Announced
  <2> QED  BY <2>1, <2>4, <2>5, AllOld
<1> QED  BY <1>1, <1>2, <1>3

LEMMA AnnouncedStep ==
    ASSUME StreamCore, \A q \in Requests : Framed(q) /\ Announced(q),
           [StreamNext]_streamVars, ~resident'
    PROVE  \A q \in Requests : Announced(q)'
<1>w. [Wide]_vars
  BY StreamCoreStep
<1>1. ASSUME NEW q \in Requests,
             request'[q].run = request[q].run, request'[q].cursor = request[q].cursor,
             request'[q].sent = request[q].sent,
             request'[q].view.events = request[q].view.events,
             BeforeTail(q)' => BeforeTail(q)
      PROVE  Announced(q)'
  <2>1. request'[q].sent \o request'[q].view.events = Out(q)
    BY <1>1 DEF Out
  <2>2. request'[q].sent # <<>> =>
            request'[q].cursor = request'[q].sent[Len(request'[q].sent)].seq
    BY <1>1 DEF Announced
  <2> QED  BY <1>w, <1>1, <2>1, <2>2, SameOut
<1>2. ASSUME NEW q \in Requests, request'[q] = request[q] PROVE Announced(q)'
  <2>1. BeforeTail(q)' => BeforeTail(q)
    BY <1>2 DEF BeforeTail
  <2> QED  BY <1>1, <1>2, <2>1
<1>3. ASSUME NEW q \in Requests, Acts(q) PROVE Announced(q)'
  <2>1. CASE Reads(q)
    BY <2>1 DEF Reads, vars
  <2>2. CASE Loses(q) \/ Refuses(q) \/ Frees(q) \/ Connects(q)
    BY <1>w, <2>2, DropsAnnounced
  <2>3. CASE Sends(q)
    BY <1>w, <2>3, SendsAnnounced
  <2>4. CASE Tells(q)
    BY <1>w, <2>4, TellsAnnounced
  <2>5. CASE Hangs(q)
    BY <1>w, <2>5, HangsAnnounced
  <2>6. CASE Opens(q)
    <3>1. /\ request'[q].run = request[q].run /\ request'[q].cursor = request[q].cursor
          /\ request'[q].sent = request[q].sent /\ request'[q].view.events = <<>>
          /\ BeforeTail(q)
      BY <2>6, NothingTyped DEF Opens, Turns, BeforeTail
    <3> DEFINE out == request'[q].sent \o request'[q].view.events
    <3>2. out = request[q].sent
      <4>1. request[q].sent \in Seq(EventType)
        BY OutTyped
      <4>2. out = request[q].sent \o <<>>
        BY <3>1
      <4> QED  BY <4>1, <4>2
    <3>3. \A i \in 1..Len(request[q].sent) : StillOld(request[q].sent[i], request[q].run)
      BY <1>w, <3>1, OldOut, OutTyped
    <3>4. \A i \in 1..Len(out) : StillOld(out[i], request[q].run)
      <4> HIDE DEF out
      <4> QED  BY <3>2, <3>3
    <3>5. request'[q].sent # <<>> =>
              request'[q].cursor = request'[q].sent[Len(request'[q].sent)].seq
      BY <3>1 DEF Announced
    <3> QED  BY <3>1, <3>4, <3>5, AllOld
  <2>7. CASE Enforces(q) \/ Goes(q)
    <3>1. /\ request'[q].run = request[q].run /\ request'[q].cursor = request[q].cursor
          /\ request'[q].sent = request[q].sent /\ request'[q].view = request[q].view
      BY <2>7 DEF Enforces, Goes, Sets, Turns
    <3>2. \/ request[q].at \in {"enforce", "open"}
          \/ request'[q].at \in {"closing", "ended"}
          \/ request[q].at = "write" /\ request[q].view.state \in LiveStates
      BY <2>7 DEF Enforces, Goes, Sets
    <3>3. BeforeTail(q)' => BeforeTail(q)
      BY <3>1, <3>2 DEF BeforeTail, LiveStates
    <3> QED  BY <1>1, <3>1, <3>3
  <2> QED  BY <1>3, <2>1, <2>2, <2>3, <2>4, <2>5, <2>6, <2>7 DEF Acts
<1>4. CASE UNCHANGED <<request, sse>>
  BY <1>2, <1>4
<1>5. ASSUME NEW q \in Requests, Acts(q) PROVE \A p \in Requests : Announced(p)'
  BY <1>2, <1>3, <1>5, ActsTurn DEF StreamCore
<1> QED  BY <1>4, <1>5, StreamShape DEF StreamCore, CoreInv

LEMMA AnnouncedInvariant == StreamSpec => []\A q \in Requests : Announced(q)
<1>1. StreamInit => \A q \in Requests : Announced(q)
  BY StreamBegins
<1>2. StreamCore /\ (\A q \in Requests : Framed(q)) /\ resident
      => \A q \in Requests : Announced(q)
  BY AnnouncedWhileResident
<1>3. /\ StreamCore /\ (\A q \in Requests : Framed(q)) /\ (\A q \in Requests : Announced(q))
      /\ [StreamNext]_streamVars /\ ~resident'
      => (\A q \in Requests : Announced(q))'
  BY AnnouncedStep
<1> QED  BY <1>1, <1>2, <1>3, StreamCoreInvariant, FramesInvariant, PTL DEF StreamSpec

(* An expiry is announced only after the Conversation went, for a Run that had
   not ended, numbered after all the stream wrote, and to the end of the pair
   if the client stays.                                                      *)
THEOREM ExpiryEndsTheStream == StreamSpec => []ExpiryEndsStream
<1>1. ASSUME StreamCore, \A q \in Requests : Announced(q) PROVE ExpiryEndsStream
  <2> SUFFICES ASSUME NEW q \in Requests, NEW i \in 1..Len(request[q].sent)
               PROVE  LET sent == request[q].sent
                      IN  /\ sent[i].type = "conversation.expired" =>
                                /\ ~resident
                                /\ \A j \in 1..i - 1 :
                                      sent[j].seq < sent[i].seq /\ sent[j].type # "stream.end"
                                /\ request[q].at # "write" /\ request[q].up =>
                                      i = Len(sent) - 1 /\ sent[Len(sent)].state = "expired"
                          /\ sent[i].state = "expired" /\ i > 1 =>
                                sent[i - 1].type = "conversation.expired"
    BY DEF ExpiryEndsStream
  <2> DEFINE sent == request[q].sent
             out == Out(q)
  <2>1. /\ \A j \in 1..Len(sent) : j \in 1..Len(out) /\ out[j] = sent[j]
        /\ sent \in Seq(EventType)
    BY <1>1, OutTyped
  <2>2. EndsOnce(out)
    BY <1>1 DEF Announced
  <2>3. /\ resident => Plain(sent[i])
        /\ BeforeTail(q) => Plain(sent[i])
    BY <1>1, <2>1 DEF Announced, Old
  <2>4. request[q].at # "write" /\ request[q].up /\ ~BeforeTail(q) => out = sent
    <3> SUFFICES ASSUME request[q].at # "write", request[q].up, ~BeforeTail(q) PROVE out = sent
      OBVIOUS
    <3>1. request[q].view.events = <<>>
      BY <1>1 DEF BeforeTail, StreamCore, Stands
    <3>2. out = sent \o <<>>
      BY <3>1 DEF Out
    <3> HIDE DEF sent, out
    <3> QED  BY <2>1, <3>2
  <2>5. i \in 1..Len(sent)
    OBVIOUS
  <2> HIDE DEF sent, out
  <2>6. \A j \in 1..i - 1 : j \in 1..Len(sent)
    BY <2>1, <2>5
  <2>7. ASSUME sent[i].type = "conversation.expired"
        PROVE  /\ ~resident
               /\ \A j \in 1..i - 1 : sent[j].seq < sent[i].seq /\ sent[j].type # "stream.end"
               /\ request[q].at # "write" /\ request[q].up =>
                     i = Len(sent) - 1 /\ sent[Len(sent)].state = "expired"
    <3>1. ~resident /\ ~BeforeTail(q)
      BY <2>3, <2>7 DEF Plain
    <3>2. /\ i \in 1..Len(out) /\ i = Len(out) - 1 /\ out[Len(out)].state = "expired"
          /\ \A j \in 1..i - 1 : out[j].seq < out[i].seq /\ out[j].type # "stream.end"
      BY <2>1, <2>2, <2>5, <2>7 DEF EndsOnce
    <3>3. \A j \in 1..i - 1 : sent[j].seq < sent[i].seq /\ sent[j].type # "stream.end"
      BY <2>1, <2>5, <2>6, <3>2
    <3>4. request[q].at # "write" /\ request[q].up =>
              i = Len(sent) - 1 /\ sent[Len(sent)].state = "expired"
      BY <2>4, <3>1, <3>2
    <3> QED  BY <3>1, <3>3, <3>4
  <2>8. ASSUME sent[i].state = "expired", i > 1
        PROVE  sent[i - 1].type = "conversation.expired"
    <3>1. i \in 1..Len(out) /\ out[i].state = "expired"
      BY <2>1, <2>5, <2>8
    <3>2. out[i - 1].type = "conversation.expired"
      BY <2>2, <2>8, <3>1 DEF EndsOnce
    <3>3. i - 1 \in 1..Len(sent)
      BY <2>1, <2>5, <2>8
    <3> QED  BY <2>1, <3>2, <3>3
  <2> QED  BY <2>7, <2>8 DEF sent
<1> QED  BY <1>1, StreamCoreInvariant, AnnouncedInvariant, PTL

-----------------------------------------------------------------------------
(* The tab.                                                                  *)
TabType ==
    [state : {"absent"} \cup LiveStates \cup EndStates, cursor : Nat, taken : Nat,
     buffer : Nat, sawRunning : BOOLEAN, message : {"none", "completed", "discarded"},
     error : BOOLEAN, status : {"none"} \cup EndStates, end : BOOLEAN, expired : BOOLEAN,
     steps : Nat, sources : BOOLEAN, truncated : BOOLEAN, latest : Nat, source : BOOLEAN,
     ending : BOOLEAN, polling : BOOLEAN, wait : {"none", "due", "asked", "reading"},
     afterEnd : BOOLEAN, retries : Nat, stoppable : BOOLEAN, reconciled : BOOLEAN,
     notice : {"none", "unsafe", "expired"}, hidden : BOOLEAN]

(* One channel at a time: an open source is the stream's request and nothing was
   polled or settled before, a poll on its way is the other.                  *)
Awaits(t) == t.wait \in {"asked", "reading"}
Modes(t) ==
    /\ t.source => /\ t.state # "absent" /\ ~t.end /\ ~t.polling /\ ~t.reconciled
                   /\ t.notice = "none"
    /\ t.wait # "none" => t.polling
    /\ t.polling \/ t.stoppable => t.state # "absent"
    /\ t.ending \/ t.afterEnd => t.end
    /\ t.end => t.state # "absent"
PollReq(req) ==
    /\ req.kind = "poll" /\ req.run = TheRun /\ ~req.slot
    /\ req.at \in {"look", "enforce", "reread", "decide", "closed"}
    /\ req.at = "decide" \/ req.reply = "ok" => req.view.state # "absent"
Channels ==
    /\ IF tab.source THEN request[Stream].at # "away" /\ request[Stream].run = TheRun
       ELSE request[Stream] = Away
    /\ IF Awaits(tab) THEN PollReq(request[Poll]) ELSE request[Poll] = Away

(* What a tab shows that has taken the first n events of a Run's log.        *)
Of(type, log, n) == {k \in 1..n : log[k].type = type}
Body(run) == Len(run.log) - Len(DocumentedTail(run.state))
Shows(t, run, n) ==
    /\ t.sawRunning <=> n >= 1 /\ Body(run) >= 1
    /\ t.truncated <=> n >= 2 /\ Body(run) >= 2 /\ run.log[2].type = "context.truncated"
    /\ t.steps = Cardinality(Of("agent.step", run.log, n))
    /\ t.sources <=> run.state = "completed" /\ n > Body(run)
    /\ t.message = IF run.state \in RetryStates /\ n > Body(run) THEN "discarded"
                   ELSE IF run.state = "completed" /\ n > Body(run) + 1 THEN "completed"
                   ELSE "none"
    /\ t.error <=> run.state \in {"failed", "timeout"} /\ n > Body(run) + 1
    /\ t.status = IF run.state \in EndStates /\ n > Len(run.log) - 2 THEN run.state ELSE "none"
    /\ t.end <=> run.state \in EndStates /\ n = Len(run.log)
    /\ t.buffer = IF t.message = "discarded" THEN 0
                  ELSE Cardinality(Of("message.delta", run.log, n))
    /\ t.state \in IF t.status # "none" THEN {t.status}
                   ELSE IF Body(run) >= 1 THEN LiveStates ELSE {"queued"}

(* The Run as its stream tells it: the resident one, or what it was when it was
   Purged, to which the expiry may be added.                                 *)
Past(run) ==
    /\ run \in RunType /\ run.state # "absent" /\ InOrder(run)
    /\ resident => run = runs[TheRun]
    /\ ~resident /\ tombstone # None /\ tombstone.run = TheRun =>
          run.state \in LiveStates /\ tombstone.tail = ExpiryTail(NextSeq(run))
TellsOf(e, run) ==
    \/ e.seq \in 1..Len(run.log) /\ e = run.log[e.seq]
    \/ /\ ~resident /\ run.state \in LiveStates
       /\ e \in {ExpiryTail(NextSeq(run))[1], ExpiryTail(NextSeq(run))[2]}
AllTold(run) ==
    LET req == request[Stream]
    IN  /\ \A i \in 1..Len(req.sent) : TellsOf(req.sent[i], run)
        /\ \A i \in 1..Len(req.view.events) : TellsOf(req.view.events[i], run)
Taken(t, run) ==
    \/ t.cursor <= Len(run.log) /\ ~t.expired /\ Shows(t, run, t.cursor)
    \/ /\ ~resident /\ run.state \in LiveStates /\ t.cursor = NextSeq(run)
       /\ t.expired /\ Shows(t, run, Len(run.log))
FollowInv == tab.source => \E run : Past(run) /\ AllTold(run) /\ Taken(tab, run)

(* What a tab knows of a Run that is there, however it came to know it.      *)
Knows(t, run) ==
    /\ t.cursor <= Len(run.log) /\ t.latest <= Len(run.log)
    /\ run.state \in Follows(t.state)
    /\ t.message = "completed" => run.state = "completed" /\ t.buffer \in {0, Deltas(run.log)}
    /\ t.message = "discarded" => run.state \in RetryStates
    /\ t.buffer <= Deltas(run.log)
    /\ t.end => /\ run.state \in EndStates /\ t.cursor = Len(run.log) /\ t.status = run.state
                /\ t.message = IF run.state = "completed" THEN "completed" ELSE "discarded"
                /\ run.state \in {"failed", "timeout"} => t.error
    /\ t.state = "completed" /\ t.reconciled /\ t.notice = "none" =>
          t.buffer = Deltas(run.log)
KnowInv == resident /\ tab.state # "absent" => TheRun \in Accepted /\ Knows(tab, runs[TheRun])

(* A projection that was read is of the Run as it was, and what the tab knew
   when it was read bears it out, or was cut short.                          *)
Pictures(v, run) ==
    /\ v.latest <= Len(run.log) /\ run.state \in Follows(v.state)
    /\ v.state \in EndStates => v.latest = Len(run.log) /\ v.content = Deltas(run.log)
Agrees(t, v) ==
    \/ Reconciles(t, v)
    \/ v.state = "completed" /\ t.buffer \in 1..v.content - 1 /\ t.message = "none"
PollInv ==
    Awaits(tab) /\ request[Poll].view.state # "absent" =>
        /\ Agrees(tab, request[Poll].view)
        /\ resident => Pictures(request[Poll].view, runs[TheRun])

BaseInv == StreamCore /\ SlotInv /\ \A q \in Requests : Framed(q)
TabInv == tab \in TabType /\ Modes(tab) /\ Channels
ClientInv == BaseInv /\ TabInv /\ FollowInv /\ KnowInv /\ PollInv

-----------------------------------------------------------------------------
(* Counting the events of one type.                                          *)
LEMMA OfCounts ==
    ASSUME NEW type, NEW log, NEW n \in Nat
    PROVE  /\ IsFiniteSet(Of(type, log, n)) /\ Cardinality(Of(type, log, n)) \in Nat
           /\ n = 0 => Cardinality(Of(type, log, n)) = 0
<1>1. IsFiniteSet(1..n)
  BY FS_Interval
<1>2. Of(type, log, n) \in SUBSET (1..n)
  BY DEF Of
<1>3. n = 0 => Of(type, log, n) = {}
  BY <1>2
<1> QED  BY <1>1, <1>2, <1>3, FS_Subset, FS_CardinalityType, FS_EmptySet

LEMMA OfNext ==
    ASSUME NEW type, NEW log, NEW n \in Nat
    PROVE  Cardinality(Of(type, log, n + 1)) =
               IF log[n + 1].type = type THEN Cardinality(Of(type, log, n)) + 1
               ELSE Cardinality(Of(type, log, n))
<1>1. CASE log[n + 1].type = type
  <2>1. Of(type, log, n + 1) = Of(type, log, n) \cup {n + 1} /\ n + 1 \notin Of(type, log, n)
    BY <1>1 DEF Of
  <2> QED  BY <1>1, <2>1, OfCounts, FS_AddElement
<1>2. CASE log[n + 1].type # type
  <2>1. Of(type, log, n + 1) = Of(type, log, n)
    BY <1>2 DEF Of
  <2> QED  BY <1>2, <2>1
<1> QED  BY <1>1, <1>2

LEMMA OfMore ==
    ASSUME NEW type, NEW log, NEW n \in Nat, NEW m \in Nat, n <= m
    PROVE  Cardinality(Of(type, log, n)) <= Cardinality(Of(type, log, m))
<1>1. Of(type, log, n) \subseteq Of(type, log, m)
  BY DEF Of
<1> QED  BY <1>1, OfCounts, FS_Subset

LEMMA OfSame ==
    ASSUME NEW type, NEW log, NEW longer, NEW n \in Nat,
           \A k \in 1..n : longer[k] = log[k]
    PROVE  Of(type, longer, n) = Of(type, log, n)
BY DEF Of

(* The body and the tail of a log in order.                                  *)
LEMMA BodyIs ==
    ASSUME NEW run \in RunType, run.state # "absent", InOrder(run)
    PROVE  /\ Len(run.log) \in Nat /\ Body(run) \in Nat /\ run.log \in Seq(EventType)
           /\ run.state \in LiveStates \cup EndStates
           /\ run.state \in LiveStates => Body(run) = Len(run.log)
           /\ run.state \in {"completed", "failed", "timeout"} => Body(run) + 4 = Len(run.log)
           /\ run.state = "cancelled" => Body(run) + 3 = Len(run.log)
           /\ run.state \in {"running", "completed"} => Body(run) >= 1
           /\ run.state = "queued" => Body(run) = 0
<1>1. run.log \in Seq(EventType) /\ run.state \in LiveStates \cup EndStates
  BY DEF RunType
<1>2. Len(DocumentedTail(run.state)) = IF run.state \in LiveStates THEN 0
                                       ELSE IF run.state = "cancelled" THEN 3 ELSE 4
  BY <1>1 DEF DocumentedTail, LiveStates, EndStates
<1>3. Len(run.log) \in Nat
  BY <1>1
<1>4. /\ Body(run) >= (IF run.state \in {"running", "completed"} THEN 1 ELSE 0)
      /\ run.state = "queued" => Body(run) = 0
  BY DEF InOrder, Body
<1> DEFINE n == Len(run.log)
           b == Body(run)
           t == Len(DocumentedTail(run.state))
           s == run.state
<1>5. b = n - t /\ n \in Nat /\ b >= 0
  <2>1. b = n - t /\ t \in {0, 3, 4}
    BY <1>2 DEF Body
  <2> HIDE DEF b, n, t
  <2> QED  BY <1>3, <1>4, <2>1 DEF b, n
<1>6. /\ s \in LiveStates \cup EndStates /\ n \in Nat
      /\ b >= (IF s \in {"running", "completed"} THEN 1 ELSE 0)
      /\ s = "queued" => b = 0
      /\ t = IF s \in LiveStates THEN 0 ELSE IF s = "cancelled" THEN 3 ELSE 4
  BY <1>1, <1>2, <1>3, <1>4
<1> HIDE DEF b, n, t, s
<1>7. /\ b \in Nat
      /\ s \in LiveStates => b = n
      /\ s \in {"completed", "failed", "timeout"} => b + 4 = n
      /\ s = "cancelled" => b + 3 = n
      /\ s \in {"running", "completed"} => b >= 1
  BY <1>5, <1>6 DEF LiveStates
<1> QED  BY <1>1, <1>3, <1>6, <1>7 DEF b, n, s

(* The event at each place.                                                  *)
LEMMA FrameKinds ==
    ASSUME NEW run \in RunType, run.state # "absent", InOrder(run),
           NEW i \in 1..Len(run.log)
    PROVE  LET e == run.log[i]
               b == Body(run)
           IN  /\ e.seq = i /\ e \in EventType
               /\ i = 1 /\ b >= 1 => e.type = "run.status" /\ e.state = "running"
               /\ i > 1 /\ i <= b =>
                     \/ e.type = "message.delta"
                     \/ e.type = "agent.step" /\ e.index = Cardinality(Of("agent.step", run.log, i))
                     \/ e.type = "context.truncated" /\ i = 2
               /\ i = b + 1 => e.type = IF run.state = "completed" THEN "message.sources"
                                        ELSE "message.discarded"
               /\ i = b + 2 => IF run.state = "completed" THEN e.type = "message.completed"
                               ELSE IF run.state = "cancelled"
                                    THEN e.type = "run.status" /\ e.state = run.state
                                    ELSE e.type = "run.error"
               /\ i = b + 3 => IF run.state = "cancelled"
                               THEN e.type = "stream.end" /\ e.state = run.state /\ e.index = i
                               ELSE e.type = "run.status" /\ e.state = run.state
               /\ i = b + 4 => e.type = "stream.end" /\ e.state = run.state /\ e.index = i
               /\ i > b => run.state \in EndStates
<1> DEFINE log == run.log
           tail == DocumentedTail(run.state)
           b == Body(run)
<1>1. /\ Len(log) \in Nat /\ b \in Nat /\ log \in Seq(EventType) /\ log[i] \in EventType
      /\ run.state \in LiveStates \cup EndStates /\ i \in 1..Len(log) /\ b <= Len(log)
      /\ run.state \in LiveStates => b = Len(log)
  <2>1. /\ Len(log) \in Nat /\ b \in Nat /\ log \in Seq(EventType)
        /\ run.state \in LiveStates \cup EndStates /\ i \in 1..Len(log)
        /\ run.state \in LiveStates => b = Len(log)
        /\ run.state \in {"completed", "failed", "timeout"} => b + 4 = Len(log)
        /\ run.state = "cancelled" => b + 3 = Len(log)
    BY BodyIs
  <2> DEFINE st == run.state
  <2>2. st \in LiveStates \/ st = "cancelled" \/ st \in {"completed", "failed", "timeout"}
    BY <2>1 DEF EndStates
  <2> HIDE DEF log, b, st
  <2>3. b <= Len(log) /\ log[i] \in EventType
    BY <2>1, <2>2 DEF st
  <2> QED  BY <2>1, <2>3
<1>2. /\ BodyInOrder(log, b) /\ Numbered(log)
      /\ \A j \in 1..Len(tail) : log[b + j].type = tail[j]
      /\ \A j \in b + 1..Len(log) : log[j].type \in {"run.status", "stream.end"} =>
                                       log[j].state = run.state
      /\ tail # <<>> => log[Len(log)].index = Len(log)
  BY DEF InOrder, Body
<1>3. log[i].seq = i
  BY <1>1, <1>2 DEF Numbered
<1>4. ASSUME i = 1, b >= 1 PROVE log[i].type = "run.status" /\ log[i].state = "running"
  <2>1. b > 0
    BY <1>1, <1>4
  <2>2. log[1] = Status(1, "running")
    <3> HIDE DEF b, log
    <3> QED  BY <1>2, <2>1 DEF BodyInOrder
  <2>3. log[1].type = "run.status" /\ log[1].state = "running"
    BY <2>2 DEF Status, Event
  <2> QED  BY <1>4, <2>3
<1>5. ASSUME i > 1, i <= b
      PROVE  \/ log[i].type = "message.delta"
             \/ log[i].type = "agent.step" /\ log[i].index = Cardinality(Of("agent.step", log, i))
             \/ log[i].type = "context.truncated" /\ i = 2
  <2>1. i \in 2..b
    BY <1>1, <1>5
  <2>2. log[i].type = "agent.step" => i \in StepsIn(log, Len(log))
    BY <1>1 DEF StepsIn
  <2>3. StepsIn(log, i) = Of("agent.step", log, i)
    BY DEF StepsIn, Of
  <2> HIDE DEF log, b
  <2> QED  BY <1>2, <2>1, <2>2, <2>3 DEF BodyInOrder, Numbered
<1>6. ASSUME i > b PROVE run.state \in EndStates
  BY <1>1, <1>6
<1>7. /\ run.state \in {"completed", "failed", "timeout"} => b + 4 = Len(log)
      /\ run.state = "cancelled" => b + 3 = Len(log)
  BY BodyIs
<1>8. ASSUME i > b
      PROVE  /\ i - b \in 1..Len(tail) /\ log[i].type = tail[i - b]
             /\ log[i].type \in {"run.status", "stream.end"} => log[i].state = run.state
             /\ i = Len(log) => log[i].index = i
  <2>1. Len(tail) = Len(log) - b
    BY <1>1 DEF Body, DocumentedTail
  <2>2. i - b \in 1..Len(tail) /\ i \in b + 1..Len(log) /\ b + (i - b) = i
    BY <1>1, <1>8, <2>1
  <2>3. tail # <<>>
    BY <2>2
  <2> HIDE DEF log, b, tail
  <2> QED  BY <1>2, <2>2, <2>3
<1>9. /\ run.state = "completed" => tail = <<"message.sources", "message.completed", "run.status", "stream.end">>
      /\ run.state \in {"failed", "timeout"} => tail = <<"message.discarded", "run.error", "run.status", "stream.end">>
      /\ run.state = "cancelled" => tail = <<"message.discarded", "run.status", "stream.end">>
  BY DEF DocumentedTail
<1>10. run.state \in EndStates => run.state \in {"completed", "failed", "timeout", "cancelled"}
  BY DEF EndStates
<1> HIDE DEF log, tail, b
<1>11. ASSUME i = b + 1 PROVE log[i].type = IF run.state = "completed" THEN "message.sources"
                                            ELSE "message.discarded"
  BY <1>1, <1>6, <1>8, <1>9, <1>10, <1>11
<1>12. ASSUME i = b + 2
       PROVE  IF run.state = "completed" THEN log[i].type = "message.completed"
              ELSE IF run.state = "cancelled"
                   THEN log[i].type = "run.status" /\ log[i].state = run.state
                   ELSE log[i].type = "run.error"
  BY <1>1, <1>6, <1>8, <1>9, <1>10, <1>12
<1>13. ASSUME i = b + 3
       PROVE  IF run.state = "cancelled"
              THEN log[i].type = "stream.end" /\ log[i].state = run.state /\ log[i].index = i
              ELSE log[i].type = "run.status" /\ log[i].state = run.state
  BY <1>1, <1>6, <1>7, <1>8, <1>9, <1>10, <1>13
<1>14. ASSUME i = b + 4
       PROVE  log[i].type = "stream.end" /\ log[i].state = run.state /\ log[i].index = i
  BY <1>1, <1>6, <1>7, <1>8, <1>9, <1>10, <1>14
<1> QED  BY <1>1, <1>3, <1>4, <1>5, <1>6, <1>11, <1>12, <1>13, <1>14 DEF log, b

-----------------------------------------------------------------------------
(* The next frame of a log in order is accepted, and the tab then shows one
   event more.                                                               *)
SameFields(t, u) ==
    /\ u.latest = t.latest /\ u.polling = t.polling /\ u.wait = t.wait
    /\ u.afterEnd = t.afterEnd /\ u.retries = t.retries /\ u.stoppable = t.stoppable
    /\ u.reconciled = t.reconciled /\ u.notice = t.notice /\ u.hidden = t.hidden
Advanced(t, e) == [Apply(t, e) EXCEPT !.cursor = e.seq]
Fits(t, run, n, e) ==
    LET u == Advanced(t, e)
    IN  /\ Accepts(t, e)
        /\ u \in TabType /\ SameFields(t, u) /\ u.cursor = n + 1 /\ u.expired = t.expired
        /\ Shows(u, run, n + 1)
        /\ \/ u.source = t.source /\ u.ending = t.ending /\ ~u.end
           \/ ~u.source /\ u.end

LEMMA RunningFits ==
    ASSUME NEW run \in RunType, run.state # "absent", InOrder(run), NEW t \in TabType,
           Shows(t, run, 0), 0 < Len(run.log), Body(run) >= 1
    PROVE  Fits(t, run, 0, run.log[1])
<1> DEFINE e == run.log[1]
           b == Body(run)
           u == Advanced(t, e)
           steps(n) == Cardinality(Of("agent.step", run.log, n))
           deltas(n) == Cardinality(Of("message.delta", run.log, n))
<1>1. /\ b \in Nat /\ Len(run.log) \in Nat /\ b >= 1
      /\ run.state \in EndStates => b + 2 < Len(run.log)
  BY BodyIs DEF EndStates
<1>2. 1 \in 1..Len(run.log) /\ e.seq = 1 /\ e.type = "run.status" /\ e.state = "running"
  <2>1. 1 \in 1..Len(run.log)
    BY <1>1
  <2> QED  BY <1>1, <2>1, FrameKinds
<1>3. steps(0) = 0 /\ deltas(0) = 0 /\ steps(1) = 0 /\ deltas(1) = 0
  <2>1. steps(0 + 1) = steps(0) /\ deltas(0 + 1) = deltas(0)
    BY <1>2, OfNext
  <2> QED  BY <2>1, OfCounts
<1>4. /\ ~t.sawRunning /\ t.message = "none" /\ ~t.truncated /\ t.steps = 0 /\ ~t.sources
      /\ ~t.error /\ t.status = "none" /\ ~t.end /\ t.buffer = 0
  <2> HIDE DEF b, e, steps, deltas
  <2> QED  BY <1>1, <1>3 DEF Shows, b, steps, deltas
<1>5. Accepts(t, e)
  BY <1>2, <1>4 DEF Accepts
<1>6. u = [t EXCEPT !.sawRunning = TRUE, !.state = "running", !.cursor = 1]
  <2>1. Apply(t, e) = [t EXCEPT !.sawRunning = TRUE, !.state = "running"]
    BY <1>2 DEF Apply
  <2> QED  BY <1>2, <2>1 DEF Advanced, TabType
<1>7. /\ u \in TabType /\ SameFields(t, u) /\ u.cursor = 1 /\ u.expired = t.expired
      /\ u.source = t.source /\ u.ending = t.ending /\ ~u.end
      /\ u.sawRunning /\ u.message = "none" /\ ~u.truncated /\ u.steps = 0 /\ ~u.sources
      /\ ~u.error /\ u.status = "none" /\ u.buffer = 0 /\ u.state = "running"
  <2> HIDE DEF u
  <2> QED  BY <1>4, <1>6 DEF TabType, SameFields, LiveStates
<1>8. Shows(u, run, 1)
  <2> HIDE DEF u, e
  <2>1. "running" \in LiveStates
    BY DEF LiveStates
  <2>2. /\ ~(1 > b) /\ ~(1 > b + 1) /\ ~(1 >= 2) /\ 1 >= 1
        /\ run.state \in EndStates => ~(1 > Len(run.log) - 2) /\ 1 # Len(run.log)
    <3> HIDE DEF b
    <3> QED  BY <1>1, SMTT(30)
  <2> QED  BY <1>1, <1>3, <1>7, <2>1, <2>2 DEF Shows
<1> QED  BY <1>5, <1>7, <1>8 DEF Fits

LEMMA BodyFrameFits ==
    ASSUME NEW run \in RunType, run.state # "absent", InOrder(run), NEW t \in TabType,
           NEW n \in Nat, Shows(t, run, n), n >= 1, n + 1 <= Body(run)
    PROVE  Fits(t, run, n, run.log[n + 1])
<1> DEFINE e == run.log[n + 1]
           b == Body(run)
           u == Advanced(t, e)
           steps(k) == Cardinality(Of("agent.step", run.log, k))
           deltas(k) == Cardinality(Of("message.delta", run.log, k))
<1>1. /\ b \in Nat /\ Len(run.log) \in Nat /\ b >= 1 /\ b <= Len(run.log)
      /\ run.state \in EndStates => b + 2 < Len(run.log)
  <2>1. /\ b \in Nat /\ Len(run.log) \in Nat
        /\ run.state \in LiveStates \/ run.state = "cancelled"
           \/ run.state \in {"completed", "failed", "timeout"}
        /\ run.state \in LiveStates => b = Len(run.log) /\ run.state \notin EndStates
        /\ run.state = "cancelled" => b + 3 = Len(run.log)
        /\ run.state \in {"completed", "failed", "timeout"} => b + 4 = Len(run.log)
    BY BodyIs DEF EndStates, LiveStates
  <2> HIDE DEF b
  <2>2. b >= 1
    BY <2>1 DEF b
  <2> QED  BY <2>1, <2>2
<1>2. /\ n + 1 \in 1..Len(run.log) /\ n + 1 > 1 /\ n + 1 <= b
      /\ b >= 2 /\ ~(n > b) /\ ~(n > b + 1) /\ ~(n + 1 > b) /\ ~(n + 1 > b + 1)
      /\ n + 1 >= 1 /\ n + 1 >= 2
      /\ run.state \in EndStates =>
            /\ ~(n > Len(run.log) - 2) /\ n # Len(run.log)
            /\ ~(n + 1 > Len(run.log) - 2) /\ n + 1 # Len(run.log)
  <2>1. n + 1 <= b
    OBVIOUS
  <2> HIDE DEF b
  <2> QED  BY <1>1, <2>1
<1>3. /\ e.seq = n + 1
      /\ \/ e.type = "message.delta"
         \/ e.type = "agent.step" /\ e.index = steps(n + 1)
         \/ e.type = "context.truncated" /\ n + 1 = 2
  BY <1>2, FrameKinds
<1>4. /\ t.sawRunning /\ t.message = "none" /\ t.steps = steps(n) /\ ~t.sources
      /\ ~t.error /\ t.status = "none" /\ ~t.end /\ t.buffer = deltas(n) /\ t.state \in LiveStates
      /\ t.truncated <=> n >= 2 /\ run.log[2].type = "context.truncated"
  <2> HIDE DEF b, e, steps, deltas
  <2> QED  BY <1>1, <1>2 DEF Shows, b, steps, deltas
<1>5. /\ steps(n + 1) = IF e.type = "agent.step" THEN steps(n) + 1 ELSE steps(n)
      /\ deltas(n + 1) = IF e.type = "message.delta" THEN deltas(n) + 1 ELSE deltas(n)
      /\ steps(n) \in Nat /\ deltas(n) \in Nat
  BY OfNext, OfCounts
<1>6. ASSUME u \in TabType, u.sawRunning, u.message = "none", u.steps = steps(n + 1), ~u.sources,
             ~u.error, u.status = "none", ~u.end, u.buffer = deltas(n + 1),
             u.state \in LiveStates,
             u.truncated <=> n + 1 >= 2 /\ run.log[2].type = "context.truncated"
      PROVE  Shows(u, run, n + 1)
  <2> HIDE DEF u, e
  <2> QED  BY <1>1, <1>2, <1>6 DEF Shows
<1>7. CASE e.type = "message.delta"
  <2>1. Accepts(t, e)
    BY <1>4, <1>7 DEF Accepts, Open
  <2>2. u = [t EXCEPT !.buffer = t.buffer + 1, !.cursor = n + 1]
    <3>1. Apply(t, e) = [t EXCEPT !.buffer = t.buffer + 1]
      BY <1>7 DEF Apply
    <3> QED  BY <1>3, <3>1 DEF Advanced, TabType
  <2>3. /\ u \in TabType /\ SameFields(t, u) /\ u.cursor = n + 1 /\ u.expired = t.expired
        /\ u.source = t.source /\ u.ending = t.ending /\ ~u.end
        /\ u.sawRunning /\ u.message = "none" /\ u.truncated = t.truncated /\ u.steps = t.steps
        /\ ~u.sources /\ ~u.error /\ u.status = "none" /\ u.buffer = t.buffer + 1
        /\ u.state = t.state
    <3> HIDE DEF u
    <3> DEFINE m == n + 1
               more == t.buffer + 1
    <3>m. m \in Nat /\ more \in Nat /\ u = [t EXCEPT !.buffer = more, !.cursor = m]
      BY <2>2 DEF TabType
    <3>1. u \in TabType /\ SameFields(t, u)
      <4> HIDE DEF m, more
      <4> QED  BY <3>m DEF TabType, SameFields
    <3>2. /\ u.cursor = n + 1 /\ u.expired = t.expired
          /\ u.source = t.source /\ u.ending = t.ending /\ u.end = t.end
          /\ u.sawRunning = t.sawRunning /\ u.message = t.message /\ u.truncated = t.truncated
          /\ u.sources = t.sources /\ u.error = t.error /\ u.status = t.status
          /\ u.buffer = t.buffer + 1 /\ u.steps = t.steps /\ u.state = t.state
      BY <2>2 DEF TabType
    <3> QED  BY <1>4, <3>1, <3>2
  <2>4. n + 1 >= 2 /\ run.log[2].type = "context.truncated"
        <=> n >= 2 /\ run.log[2].type = "context.truncated"
    BY <1>7
  <2>5. Shows(u, run, n + 1)
    <3> HIDE DEF u, steps, deltas
    <3> QED  BY <1>4, <1>5, <1>6, <1>7, <2>3, <2>4
  <2> QED  BY <2>1, <2>3, <2>5 DEF Fits
<1>8. CASE e.type = "agent.step"
  <2>1. Accepts(t, e)
    <3>1. e.index = t.steps + 1
      <4> HIDE DEF steps, e
      <4> QED  BY <1>3, <1>4, <1>5, <1>8
    <3> QED  BY <1>4, <1>8, <3>1 DEF Accepts, Open
  <2>2. u = [t EXCEPT !.steps = t.steps + 1, !.cursor = n + 1]
    <3>1. Apply(t, e) = [t EXCEPT !.steps = t.steps + 1]
      BY <1>8 DEF Apply
    <3> QED  BY <1>3, <3>1 DEF Advanced, TabType
  <2>3. /\ u \in TabType /\ SameFields(t, u) /\ u.cursor = n + 1 /\ u.expired = t.expired
        /\ u.source = t.source /\ u.ending = t.ending /\ ~u.end
        /\ u.sawRunning /\ u.message = "none" /\ u.truncated = t.truncated
        /\ u.steps = t.steps + 1
        /\ ~u.sources /\ ~u.error /\ u.status = "none" /\ u.buffer = t.buffer
        /\ u.state = t.state
    <3> HIDE DEF u
    <3> DEFINE m == n + 1
               more == t.steps + 1
    <3>m. m \in Nat /\ more \in Nat /\ u = [t EXCEPT !.steps = more, !.cursor = m]
      BY <2>2 DEF TabType
    <3>1. u \in TabType /\ SameFields(t, u)
      <4> HIDE DEF m, more
      <4> QED  BY <3>m DEF TabType, SameFields
    <3>2. /\ u.cursor = n + 1 /\ u.expired = t.expired
          /\ u.source = t.source /\ u.ending = t.ending /\ u.end = t.end
          /\ u.sawRunning = t.sawRunning /\ u.message = t.message /\ u.truncated = t.truncated
          /\ u.sources = t.sources /\ u.error = t.error /\ u.status = t.status
          /\ u.buffer = t.buffer /\ u.steps = t.steps + 1 /\ u.state = t.state
      BY <2>2 DEF TabType
    <3> QED  BY <1>4, <3>1, <3>2
  <2>4. n + 1 >= 2 /\ run.log[2].type = "context.truncated"
        <=> n >= 2 /\ run.log[2].type = "context.truncated"
    BY <1>8
  <2>5. Shows(u, run, n + 1)
    <3> HIDE DEF u, steps, deltas
    <3> QED  BY <1>4, <1>5, <1>6, <1>8, <2>3, <2>4
  <2> QED  BY <2>1, <2>3, <2>5 DEF Fits
<1>9. CASE e.type = "context.truncated"
  <2>0. n = 1 /\ deltas(n) = 0
    <3>1. n = 1 /\ n = 0 + 1
      BY <1>3, <1>9
    <3>2. run.log[1].type = "run.status"
      BY <1>1, FrameKinds
    <3>3. deltas(0 + 1) = deltas(0) /\ deltas(0) = 0
      BY <3>2, OfNext, OfCounts
    <3> QED  BY <3>1, <3>3
  <2>1. Accepts(t, e)
    <3>1. ~t.truncated /\ t.buffer = 0
      BY <1>4, <2>0
    <3> QED  BY <1>4, <1>9, <3>1 DEF Accepts, Open
  <2>2. u = [t EXCEPT !.truncated = TRUE, !.cursor = n + 1]
    <3>1. Apply(t, e) = [t EXCEPT !.truncated = TRUE]
      BY <1>9 DEF Apply
    <3> QED  BY <1>3, <3>1 DEF Advanced, TabType
  <2>3. /\ u \in TabType /\ SameFields(t, u) /\ u.cursor = n + 1 /\ u.expired = t.expired
        /\ u.source = t.source /\ u.ending = t.ending /\ ~u.end
        /\ u.sawRunning /\ u.message = "none" /\ u.truncated = TRUE /\ u.steps = t.steps
        /\ ~u.sources /\ ~u.error /\ u.status = "none" /\ u.buffer = t.buffer
        /\ u.state = t.state
    <3> HIDE DEF u
    <3> DEFINE m == n + 1
    <3>m. m \in Nat /\ u = [t EXCEPT !.truncated = TRUE, !.cursor = m]
      BY <2>2
    <3>1. u \in TabType /\ SameFields(t, u)
      <4> HIDE DEF m
      <4> QED  BY <3>m DEF TabType, SameFields
    <3>2. /\ u.cursor = n + 1 /\ u.expired = t.expired
          /\ u.source = t.source /\ u.ending = t.ending /\ u.end = t.end
          /\ u.sawRunning = t.sawRunning /\ u.message = t.message /\ u.truncated = TRUE
          /\ u.sources = t.sources /\ u.error = t.error /\ u.status = t.status
          /\ u.buffer = t.buffer /\ u.steps = t.steps /\ u.state = t.state
      BY <2>2 DEF TabType
    <3> QED  BY <1>4, <3>1, <3>2
  <2>4. n + 1 >= 2 /\ run.log[2].type = "context.truncated"
    BY <1>9, <2>0
  <2>5. Shows(u, run, n + 1)
    <3> HIDE DEF u, steps, deltas
    <3> QED  BY <1>4, <1>5, <1>6, <1>9, <2>3, <2>4
  <2> QED  BY <2>1, <2>3, <2>5 DEF Fits
<1> QED  BY <1>3, <1>7, <1>8, <1>9

(* The event after the body, or a later one of the tail.                     *)
TailFrame(run, n, e) ==
    LET b == Body(run)
        l == Len(run.log)
    IN  \/ e.type = "message.sources" /\ run.state = "completed" /\ n = b /\ l = b + 4
        \/ e.type = "message.completed" /\ run.state = "completed" /\ n = b + 1 /\ l = b + 4
        \/ /\ e.type = "message.discarded" /\ n = b /\ run.state \in RetryStates
           /\ l \in {b + 3, b + 4}
        \/ /\ e.type = "run.error" /\ n = b + 1 /\ run.state \in {"failed", "timeout"}
           /\ l = b + 4
        \/ /\ e.type = "run.status" /\ e.state = run.state /\ n = l - 2
           /\ l = IF run.state = "cancelled" THEN b + 3 ELSE b + 4
        \/ /\ e.type = "stream.end" /\ e.state = run.state /\ e.index = n + 1 /\ n = l - 1
           /\ l = IF run.state = "cancelled" THEN b + 3 ELSE b + 4

LEMMA TailFrames ==
    ASSUME NEW run \in RunType, run.state # "absent", InOrder(run),
           NEW n \in Nat, n >= Body(run), n < Len(run.log)
    PROVE  /\ TailFrame(run, n, run.log[n + 1]) /\ run.log[n + 1].seq = n + 1
           /\ run.state \in EndStates
<1> DEFINE e == run.log[n + 1]
           b == Body(run)
           l == Len(run.log)
           st == run.state
           m == n + 1
<1>1. /\ b \in Nat /\ l \in Nat
      /\ st \in {"completed", "failed", "timeout"} => b + 4 = l
      /\ st = "cancelled" => b + 3 = l
  BY BodyIs
<1>2. m \in 1..l /\ m > b
  <2>1. n >= b /\ n < l
    OBVIOUS
  <2> HIDE DEF b, l
  <2> QED  BY <1>1, <2>1
<1>3. /\ e.seq = m /\ st \in EndStates
      /\ m = b + 1 => e.type = IF st = "completed" THEN "message.sources" ELSE "message.discarded"
      /\ m = b + 2 => IF st = "completed" THEN e.type = "message.completed"
                      ELSE IF st = "cancelled" THEN e.type = "run.status" /\ e.state = st
                      ELSE e.type = "run.error"
      /\ m = b + 3 => IF st = "cancelled" THEN e.type = "stream.end" /\ e.state = st /\ e.index = m
                      ELSE e.type = "run.status" /\ e.state = st
      /\ m = b + 4 => e.type = "stream.end" /\ e.state = st /\ e.index = m
  BY <1>2, FrameKinds
<1>4. m \in {b + 1, b + 2, b + 3, b + 4} /\ (st = "cancelled" => m # b + 4)
  <2>1. st = "cancelled" \/ st \in {"completed", "failed", "timeout"}
    BY <1>3 DEF EndStates
  <2> HIDE DEF b, l, m, st
  <2> QED  BY <1>1, <1>2, <2>1
<1>5. st \in {"completed", "cancelled", "failed", "timeout"}
      /\ (st # "completed" => st \in RetryStates)
  BY <1>3 DEF EndStates, RetryStates
<1>6. \/ e.type = "message.sources" /\ st = "completed" /\ n = b /\ l = b + 4
      \/ e.type = "message.completed" /\ st = "completed" /\ n = b + 1 /\ l = b + 4
      \/ e.type = "message.discarded" /\ n = b /\ st \in RetryStates /\ l \in {b + 3, b + 4}
      \/ e.type = "run.error" /\ n = b + 1 /\ st \in {"failed", "timeout"} /\ l = b + 4
      \/ /\ e.type = "run.status" /\ e.state = st /\ n = l - 2
         /\ l = IF st = "cancelled" THEN b + 3 ELSE b + 4
      \/ /\ e.type = "stream.end" /\ e.state = st /\ e.index = m /\ n = l - 1
         /\ l = IF st = "cancelled" THEN b + 3 ELSE b + 4
  <2>1. n = m - 1
    OBVIOUS
  <2> HIDE DEF b, l, m, st, e
  <2>2. CASE m = b + 1
    BY <1>1, <1>3, <1>5, <2>1, <2>2
  <2>3. CASE m = b + 2
    BY <1>1, <1>3, <1>5, <2>1, <2>3
  <2>4. CASE m = b + 3
    BY <1>1, <1>3, <1>5, <2>1, <2>4
  <2>5. CASE m = b + 4
    BY <1>1, <1>3, <1>4, <1>5, <2>1, <2>5
  <2> QED  BY <1>4, <2>2, <2>3, <2>4, <2>5
<1> QED  BY <1>3, <1>6 DEF TailFrame

LEMMA TailFrameFits ==
    ASSUME NEW run \in RunType, run.state # "absent", InOrder(run), NEW t \in TabType,
           NEW n \in Nat, Shows(t, run, n), n >= Body(run), n < Len(run.log)
    PROVE  Fits(t, run, n, run.log[n + 1])
<1> DEFINE e == run.log[n + 1]
           b == Body(run)
           l == Len(run.log)
           st == run.state
           m == n + 1
           u == Advanced(t, e)
           steps(k) == Cardinality(Of("agent.step", run.log, k))
           deltas(k) == Cardinality(Of("message.delta", run.log, k))
<1>1. /\ b \in Nat /\ l \in Nat /\ n >= b /\ n < l /\ m \in Nat
      /\ st \in EndStates /\ TailFrame(run, n, e) /\ e.seq = m
      /\ st = "completed" => b >= 1
  BY TailFrames, BodyIs
<1>2. /\ e.type \notin {"agent.step", "message.delta"}
      /\ st \notin LiveStates /\ st # "expired" /\ st # "none"
      /\ st \in RetryStates <=> st # "completed"
      /\ st \in {"completed", "failed", "timeout", "cancelled"}
  BY <1>1 DEF TailFrame, EndStates, LiveStates, RetryStates
<1>3. /\ steps(m) = steps(n) /\ deltas(m) = deltas(n) /\ steps(n) \in Nat /\ deltas(n) \in Nat
  BY <1>2, OfNext, OfCounts
<1>4. /\ t.sawRunning <=> b >= 1
      /\ t.truncated <=> b >= 2 /\ run.log[2].type = "context.truncated"
      /\ t.steps = steps(n)
      /\ t.sources <=> st = "completed" /\ n > b
      /\ t.message = IF st # "completed" /\ n > b THEN "discarded"
                     ELSE IF st = "completed" /\ n > b + 1 THEN "completed" ELSE "none"
      /\ t.error <=> st \in {"failed", "timeout"} /\ n > b + 1
      /\ t.status = IF n > l - 2 THEN st ELSE "none"
      /\ ~t.end
      /\ t.buffer = IF t.message = "discarded" THEN 0 ELSE deltas(n)
      /\ t.state \in IF t.status # "none" THEN {t.status}
                     ELSE IF b >= 1 THEN LiveStates ELSE {"queued"}
  <2>1. (n >= 1 /\ b >= 1 <=> b >= 1) /\ (n >= 2 /\ b >= 2 <=> b >= 2) /\ n # l
    <3> HIDE DEF b, l
    <3> QED  BY <1>1
  <2> HIDE DEF steps, deltas
  <2> QED  BY <1>1, <1>2, <2>1 DEF Shows, b, l, st, steps, deltas
<1>5. ASSUME u.sawRunning <=> b >= 1,
             u.truncated <=> b >= 2 /\ run.log[2].type = "context.truncated",
             u.steps = steps(m),
             u.sources <=> st = "completed" /\ m > b,
             u.message = IF st # "completed" /\ m > b THEN "discarded"
                         ELSE IF st = "completed" /\ m > b + 1 THEN "completed" ELSE "none",
             u.error <=> st \in {"failed", "timeout"} /\ m > b + 1,
             u.status = IF m > l - 2 THEN st ELSE "none",
             u.end <=> m = l,
             u.buffer = IF u.message = "discarded" THEN 0 ELSE deltas(m),
             u.state \in IF u.status # "none" THEN {u.status}
                         ELSE IF b >= 1 THEN LiveStates ELSE {"queued"}
      PROVE  Shows(u, run, m)
  <2>1. (m >= 1 /\ b >= 1 <=> b >= 1) /\ (m >= 2 /\ b >= 2 <=> b >= 2)
    <3> HIDE DEF b, l
    <3> QED  BY <1>1
  <2> HIDE DEF u, steps, deltas, m
  <2> QED  BY <1>1, <1>2, <1>5, <2>1 DEF Shows, b, l, st, steps, deltas
<1>6. CASE e.type = "message.sources" /\ st = "completed" /\ n = b /\ l = b + 4
  <2>n. /\ ~(n > b) /\ ~(n > b + 1) /\ ~(n > l - 2) /\ m > b /\ ~(m > b + 1)
        /\ ~(m > l - 2) /\ m # l
    <3>1. m = n + 1
      OBVIOUS
    <3> HIDE DEF b, l, m, st, e
    <3> QED  BY <1>1, <1>6, <3>1
  <2>0. t.message = "none" /\ t.status = "none" /\ ~t.end /\ t.sawRunning /\ ~t.sources
    <3> HIDE DEF b, l, m, st, e, deltas, steps
    <3> QED  BY <1>1, <1>2, <1>4, <1>6, <2>n
  <2>1. Accepts(t, e)
    <3> HIDE DEF b, l, m, st, deltas, steps
    <3> QED  BY <1>1, <1>2, <1>6, <2>0 DEF Accepts, Open
  <2>2. u = [t EXCEPT !.sources = TRUE, !.cursor = m]
    <3>1. Apply(t, e) = [t EXCEPT !.sources = TRUE]
      <4> HIDE DEF st
      <4> QED  BY <1>2, <1>6 DEF Apply
    <3> QED  BY <1>1, <3>1 DEF Advanced, TabType
  <2>3. u \in TabType /\ SameFields(t, u)
    <3> HIDE DEF m, u, st
    <3> QED  BY <1>1, <2>2, ZenonT(60) DEF TabType, SameFields
  <2>4. /\ u.cursor = m /\ u.expired = t.expired /\ u.source = t.source /\ u.ending = t.ending
        /\ u.sawRunning = t.sawRunning /\ u.truncated = t.truncated /\ u.steps = t.steps
        /\ u.sources = TRUE /\ u.message = t.message /\ u.error = t.error
        /\ u.status = t.status /\ u.buffer = t.buffer /\ u.state = t.state /\ u.end = t.end
    <3> HIDE DEF m, u, st
    <3> QED  BY <1>1, <2>2 DEF TabType
  <2>5. Shows(u, run, m)
    <3> HIDE DEF b, l, m, st, e, u, deltas, steps
    <3> QED  BY <1>2, <1>3, <1>4, <1>5, <1>6, <2>n, <2>0, <2>4
  <2>6. ~u.end
    BY <1>4, <2>4
  <2> QED  BY <2>1, <2>3, <2>4, <2>5, <2>6 DEF Fits
<1>7. CASE e.type = "message.completed" /\ st = "completed" /\ n = b + 1 /\ l = b + 4
  <2>n. /\ n > b /\ ~(n > b + 1) /\ ~(n > l - 2) /\ m > b /\ m > b + 1
        /\ ~(m > l - 2) /\ m # l
    <3>1. m = n + 1
      OBVIOUS
    <3> HIDE DEF b, l, m, st, e
    <3> QED  BY <1>1, <1>7, <3>1
  <2>0. t.message = "none" /\ t.status = "none" /\ ~t.end /\ t.sawRunning /\ t.sources
    <3> HIDE DEF b, l, m, st, e, deltas, steps
    <3> QED  BY <1>1, <1>2, <1>4, <1>7, <2>n
  <2>1. Accepts(t, e)
    <3> HIDE DEF b, l, m, st, deltas, steps
    <3> QED  BY <1>1, <1>2, <1>7, <2>0 DEF Accepts, Open
  <2>2. u = [t EXCEPT !.message = "completed", !.cursor = m]
    <3>1. Apply(t, e) = [t EXCEPT !.message = "completed"]
      <4> HIDE DEF st
      <4> QED  BY <1>2, <1>7 DEF Apply
    <3> QED  BY <1>1, <3>1 DEF Advanced, TabType
  <2>3. u \in TabType /\ SameFields(t, u)
    <3> HIDE DEF m, u, st
    <3> QED  BY <1>1, <2>2, ZenonT(60) DEF TabType, SameFields
  <2>4. /\ u.cursor = m /\ u.expired = t.expired /\ u.source = t.source /\ u.ending = t.ending
        /\ u.sawRunning = t.sawRunning /\ u.truncated = t.truncated /\ u.steps = t.steps
        /\ u.sources = t.sources /\ u.message = "completed" /\ u.error = t.error
        /\ u.status = t.status /\ u.buffer = t.buffer /\ u.state = t.state /\ u.end = t.end
    <3> HIDE DEF m, u, st
    <3> QED  BY <1>1, <2>2 DEF TabType
  <2>5. Shows(u, run, m)
    <3> HIDE DEF b, l, m, st, e, u, deltas, steps
    <3> QED  BY <1>2, <1>3, <1>4, <1>5, <1>7, <2>n, <2>0, <2>4
  <2>6. ~u.end
    BY <1>4, <2>4
  <2> QED  BY <2>1, <2>3, <2>4, <2>5, <2>6 DEF Fits
<1>8. CASE e.type = "message.discarded" /\ n = b /\ st \in RetryStates /\ l \in {b + 3, b + 4}
  <2>n. /\ ~(n > b) /\ ~(n > b + 1) /\ ~(n > l - 2) /\ m > b /\ ~(m > b + 1)
        /\ ~(m > l - 2) /\ m # l /\ (~(b >= 1) => m = 1)
    <3>1. m = n + 1
      OBVIOUS
    <3> HIDE DEF b, l, m, st, e
    <3> QED  BY <1>1, <1>8, <3>1
  <2>a. t.message = "none" /\ t.status = "none" /\ ~t.end /\ e.seq = m
    <3> HIDE DEF b, l, m, st, e, deltas, steps
    <3> QED  BY <1>1, <1>2, <1>4, <1>8, <2>n
  <2>b. ASSUME ~t.sawRunning PROVE e.seq = 1 /\ t.state = "queued"
    <3>1. ~(b >= 1)
      BY <1>4, <2>b
    <3>2. m = 1
      <4> HIDE DEF b, m
      <4> QED  BY <2>n, <3>1
    <3>3. t.state \in {"queued"}
      <4> HIDE DEF b, l, m, st, e, deltas, steps
      <4> QED  BY <1>4, <2>a, <3>1
    <3> QED  BY <2>a, <3>2, <3>3
  <2>0. /\ t.message = "none" /\ t.status = "none" /\ ~t.end
        /\ t.sawRunning \/ (e.seq = 1 /\ t.state = "queued")
    <3> HIDE DEF e
    <3> QED  BY <2>a, <2>b
  <2>1. Accepts(t, e)
    <3> HIDE DEF b, l, m, st, deltas, steps
    <3> QED  BY <1>1, <1>2, <1>8, <2>0 DEF Accepts, Open
  <2>2. u = [t EXCEPT !.message = "discarded", !.buffer = 0, !.cursor = m]
    <3>1. Apply(t, e) = [t EXCEPT !.message = "discarded", !.buffer = 0]
      <4> HIDE DEF st
      <4> QED  BY <1>2, <1>8 DEF Apply
    <3> QED  BY <1>1, <3>1 DEF Advanced, TabType
  <2>3. u \in TabType /\ SameFields(t, u)
    <3> HIDE DEF m, u, st
    <3> QED  BY <1>1, <2>2, ZenonT(60) DEF TabType, SameFields
  <2>4. /\ u.cursor = m /\ u.expired = t.expired /\ u.source = t.source /\ u.ending = t.ending
        /\ u.sawRunning = t.sawRunning /\ u.truncated = t.truncated /\ u.steps = t.steps
        /\ u.sources = t.sources /\ u.message = "discarded" /\ u.error = t.error
        /\ u.status = t.status /\ u.buffer = 0 /\ u.state = t.state /\ u.end = t.end
    <3> HIDE DEF m, u, st
    <3> QED  BY <1>1, <2>2 DEF TabType
  <2>5. Shows(u, run, m)
    <3> HIDE DEF b, l, m, st, e, u, deltas, steps
    <3> QED  BY <1>2, <1>3, <1>4, <1>5, <1>8, <2>n, <2>0, <2>4
  <2>6. ~u.end
    BY <1>4, <2>4
  <2> QED  BY <2>1, <2>3, <2>4, <2>5, <2>6 DEF Fits
<1>9. CASE e.type = "run.error" /\ n = b + 1 /\ st \in {"failed", "timeout"} /\ l = b + 4
  <2>n. /\ n > b /\ ~(n > b + 1) /\ ~(n > l - 2) /\ m > b /\ m > b + 1
        /\ ~(m > l - 2) /\ m # l
    <3>1. m = n + 1
      OBVIOUS
    <3> HIDE DEF b, l, m, st, e
    <3> QED  BY <1>1, <1>9, <3>1
  <2>0. t.message = "discarded" /\ ~t.error /\ t.status = "none"
    <3> HIDE DEF b, l, m, st, e, deltas, steps
    <3> QED  BY <1>1, <1>2, <1>4, <1>9, <2>n
  <2>1. Accepts(t, e)
    <3> HIDE DEF b, l, m, st, deltas, steps
    <3> QED  BY <1>1, <1>2, <1>9, <2>0 DEF Accepts, Open
  <2>2. u = [t EXCEPT !.error = TRUE, !.cursor = m]
    <3>1. Apply(t, e) = [t EXCEPT !.error = TRUE]
      <4> HIDE DEF st
      <4> QED  BY <1>2, <1>9 DEF Apply
    <3> QED  BY <1>1, <3>1 DEF Advanced, TabType
  <2>3. u \in TabType /\ SameFields(t, u)
    <3> HIDE DEF m, u, st
    <3> QED  BY <1>1, <2>2, ZenonT(60) DEF TabType, SameFields
  <2>4. /\ u.cursor = m /\ u.expired = t.expired /\ u.source = t.source /\ u.ending = t.ending
        /\ u.sawRunning = t.sawRunning /\ u.truncated = t.truncated /\ u.steps = t.steps
        /\ u.sources = t.sources /\ u.message = t.message /\ u.error = TRUE
        /\ u.status = t.status /\ u.buffer = t.buffer /\ u.state = t.state /\ u.end = t.end
    <3> HIDE DEF m, u, st
    <3> QED  BY <1>1, <2>2 DEF TabType
  <2>5. Shows(u, run, m)
    <3> HIDE DEF b, l, m, st, e, u, deltas, steps
    <3> QED  BY <1>2, <1>3, <1>4, <1>5, <1>9, <2>n, <2>0, <2>4
  <2>6. ~u.end
    BY <1>4, <2>4
  <2> QED  BY <2>1, <2>3, <2>4, <2>5, <2>6 DEF Fits
<1>10. CASE /\ e.type = "run.status" /\ e.state = st /\ n = l - 2
           /\ l = IF st = "cancelled" THEN b + 3 ELSE b + 4
  <2>n. /\ n > b /\ ~(n > l - 2) /\ m > b /\ m > l - 2 /\ m # l
        /\ st # "cancelled" => n > b + 1 /\ m > b + 1
    <3>1. m = n + 1
      OBVIOUS
    <3> HIDE DEF b, l, m, st, e
    <3> QED  BY <1>1, <1>10, <3>1
  <2>0. /\ e.state # "running" /\ e.state \in EndStates /\ t.message # "none" /\ t.status = "none"
        /\ e.state = "completed" <=> t.message = "completed"
        /\ e.state \in {"failed", "timeout"} <=> t.error
    <3> HIDE DEF b, l, m, st, e, deltas, steps
    <3> QED  BY <1>1, <1>2, <1>4, <1>10, <2>n
  <2>1. Accepts(t, e)
    <3> HIDE DEF b, l, m, st, deltas, steps
    <3> QED  BY <1>1, <1>2, <1>10, <2>0 DEF Accepts, Open
  <2>2. u = [t EXCEPT !.status = st, !.state = st, !.cursor = m]
    <3>1. Apply(t, e) = [t EXCEPT !.status = st, !.state = st]
      <4> HIDE DEF st
      <4> QED  BY <1>2, <1>10 DEF Apply
    <3> QED  BY <1>1, <3>1 DEF Advanced, TabType
  <2>3. u \in TabType /\ SameFields(t, u)
    <3> HIDE DEF m, u, st
    <3> QED  BY <1>1, <2>2, ZenonT(60) DEF TabType, SameFields
  <2>4. /\ u.cursor = m /\ u.expired = t.expired /\ u.source = t.source /\ u.ending = t.ending
        /\ u.sawRunning = t.sawRunning /\ u.truncated = t.truncated /\ u.steps = t.steps
        /\ u.sources = t.sources /\ u.message = t.message /\ u.error = t.error
        /\ u.status = st /\ u.buffer = t.buffer /\ u.state = st /\ u.end = t.end
    <3> HIDE DEF m, u, st
    <3> QED  BY <1>1, <2>2 DEF TabType
  <2>5. Shows(u, run, m)
    <3> HIDE DEF b, l, m, st, e, u, deltas, steps
    <3> QED  BY <1>2, <1>3, <1>4, <1>5, <1>10, <2>n, <2>0, <2>4
  <2>6. ~u.end
    BY <1>4, <2>4
  <2> QED  BY <2>1, <2>3, <2>4, <2>5, <2>6 DEF Fits
<1>11. CASE /\ e.type = "stream.end" /\ e.state = st /\ e.index = m /\ n = l - 1
           /\ l = IF st = "cancelled" THEN b + 3 ELSE b + 4
  <2>n. /\ n > b /\ n > l - 2 /\ m > b /\ m > l - 2 /\ m = l
        /\ st # "cancelled" => n > b + 1 /\ m > b + 1
    <3>1. m = n + 1
      OBVIOUS
    <3> HIDE DEF b, l, m, st, e
    <3> QED  BY <1>1, <1>11, <3>1
  <2>0. /\ ~t.end /\ e.index = e.seq /\ e.state # "expired" /\ t.status # "none"
        /\ e.state = t.status /\ (e.state \in {"failed", "timeout"} <=> t.error)
    <3> HIDE DEF b, l, m, st, e, deltas, steps
    <3> QED  BY <1>1, <1>2, <1>4, <1>11, <2>n
  <2>1. Accepts(t, e)
    <3> HIDE DEF b, l, m, st, deltas, steps
    <3> QED  BY <1>1, <1>2, <1>11, <2>0 DEF Accepts, Open
  <2>2. u = [t EXCEPT !.source = FALSE, !.taken = 0, !.end = TRUE, !.ending = TRUE, !.cursor = m]
    <3>1. Apply(t, e) = [CloseSource(t) EXCEPT !.end = TRUE, !.ending = TRUE]
      <4> HIDE DEF st
      <4> QED  BY <1>2, <1>11 DEF Apply
    <3> QED  BY <1>1, <3>1 DEF Advanced, TabType, CloseSource
  <2>3. u \in TabType /\ SameFields(t, u)
    <3> HIDE DEF m, u, st
    <3> QED  BY <1>1, <2>2, ZenonT(60) DEF TabType, SameFields
  <2>4. /\ u.cursor = m /\ u.expired = t.expired /\ u.source = FALSE
        /\ u.sawRunning = t.sawRunning /\ u.truncated = t.truncated /\ u.steps = t.steps
        /\ u.sources = t.sources /\ u.message = t.message /\ u.error = t.error
        /\ u.status = t.status /\ u.buffer = t.buffer /\ u.state = t.state /\ u.end = TRUE
    <3> HIDE DEF m, u, st
    <3> QED  BY <1>1, <2>2 DEF TabType
  <2>5. Shows(u, run, m)
    <3> HIDE DEF b, l, m, st, e, u, deltas, steps
    <3> QED  BY <1>2, <1>3, <1>4, <1>5, <1>11, <2>n, <2>0, <2>4
  <2>6. u.end
    BY <1>4, <2>4
  <2> QED  BY <2>1, <2>3, <2>4, <2>5, <2>6 DEF Fits
<1> QED  BY <1>1, <1>6, <1>7, <1>8, <1>9, <1>10, <1>11 DEF TailFrame

(* Whatever the stream tells next is accepted: an event of the log, or the pair
   that announces the expiry, which ends the tab's business with the Run.     *)
LEMMA LogFrameFits ==
    ASSUME NEW run \in RunType, run.state # "absent", InOrder(run), NEW t \in TabType,
           NEW n \in Nat, Shows(t, run, n), n < Len(run.log)
    PROVE  Fits(t, run, n, run.log[n + 1])
<1>1. Body(run) \in Nat /\ Len(run.log) \in Nat
  BY BodyIs
<1>2. CASE n >= Body(run)
  BY <1>2, TailFrameFits
<1>3. CASE n = 0 /\ Body(run) >= 1
  BY <1>1, <1>3, RunningFits
<1>4. CASE n >= 1 /\ n < Body(run)
  <2>1. n + 1 <= Body(run)
    BY <1>1, <1>4
  <2> QED  BY <1>4, <2>1, BodyFrameFits
<1> QED  BY <1>1, <1>2, <1>3, <1>4

SameShown(t, u) ==
    /\ u.sawRunning = t.sawRunning /\ u.truncated = t.truncated /\ u.steps = t.steps
    /\ u.sources = t.sources /\ u.message = t.message /\ u.error = t.error
    /\ u.status = t.status /\ u.end = t.end /\ u.buffer = t.buffer /\ u.state = t.state

LEMMA ShownSame ==
    ASSUME NEW t, NEW u, SameShown(t, u), NEW run, NEW n, Shows(t, run, n)
    PROVE  Shows(u, run, n)
BY DEF Shows, SameShown

LEMMA LiveShows ==
    ASSUME NEW run \in RunType, run.state \in LiveStates, NEW t \in TabType,
           NEW n, Shows(t, run, n)
    PROVE  t.status = "none" /\ ~t.end /\ t.message = "none" /\ ~t.error /\ t.state \in LiveStates
<1>1. run.state \notin EndStates /\ run.state \notin RetryStates /\ run.state # "completed"
      /\ run.state \notin {"failed", "timeout"}
  BY DEF LiveStates, EndStates, RetryStates
<1>2. t.status = "none" /\ ~t.end /\ t.message = "none" /\ ~t.error
  BY <1>1 DEF Shows, TabType
<1>3. t.state \in LiveStates \/ t.state \in {"queued"}
  BY <1>2 DEF Shows
<1> QED  BY <1>2, <1>3 DEF LiveStates

LEMMA ExpiryFits ==
    ASSUME NEW run \in RunType, run.state \in LiveStates, InOrder(run), NEW t \in TabType,
           Shows(t, run, Len(run.log)), ~t.expired
    PROVE  LET e == ExpiryTail(NextSeq(run))[1]
               u == Advanced(t, e)
           IN  /\ Accepts(t, e) /\ u \in TabType /\ SameFields(t, u) /\ SameShown(t, u)
               /\ u.cursor = NextSeq(run) /\ u.expired
               /\ u.source = t.source /\ u.ending = t.ending
<1> DEFINE n == NextSeq(run)
           e == ExpiryTail(n)[1]
           u == Advanced(t, e)
<1>1. n \in Nat
  <2>1. Len(run.log) \in Nat
    BY DEF RunType
  <2> QED  BY <2>1 DEF NextSeq
<1> HIDE DEF n
<1>2. e.type = "conversation.expired" /\ e.seq = n
  BY <1>1, PairIs
<1>3. t.status = "none" /\ ~t.end
  BY LiveShows
<1>4. Accepts(t, e)
  <2> HIDE DEF e
  <2> QED  BY <1>2, <1>3 DEF Accepts
<1>5. u = [t EXCEPT !.expired = TRUE, !.cursor = n]
  <2> HIDE DEF e
  <2>1. Apply(t, e) = [t EXCEPT !.expired = TRUE]
    BY <1>2 DEF Apply
  <2> QED  BY <1>2, <2>1 DEF Advanced, TabType
<1>6. u \in TabType /\ SameFields(t, u)
  <2> HIDE DEF u
  <2> QED  BY <1>1, <1>5 DEF TabType, SameFields
<1>7. u.cursor = n /\ u.expired /\ u.source = t.source /\ u.ending = t.ending /\ SameShown(t, u)
  <2> HIDE DEF u
  <2> QED  BY <1>1, <1>5 DEF TabType, SameShown
<1> QED  BY <1>4, <1>6, <1>7 DEF n

LEMMA ExpiryEndFits ==
    ASSUME NEW run \in RunType, run.state \in LiveStates, InOrder(run), NEW t \in TabType,
           Shows(t, run, Len(run.log)), t.expired
    PROVE  LET e == ExpiryTail(NextSeq(run))[2]
           IN  /\ Accepts(t, e) /\ e.seq = NextSeq(run) + 1
               /\ Advanced(t, e) = [ExpireTab(t) EXCEPT !.end = TRUE, !.cursor = e.seq]
<1> DEFINE n == NextSeq(run)
           e == ExpiryTail(n)[2]
<1>1. n \in Nat
  <2>1. Len(run.log) \in Nat
    BY DEF RunType
  <2> QED  BY <2>1 DEF NextSeq
<1> HIDE DEF n
<1>2. e.type = "stream.end" /\ e.state = "expired" /\ e.seq = n + 1 /\ e.index = e.seq
  <2>1. e = StreamEnd(n + 1, "expired")
    BY <1>1 DEF ExpiryTail
  <2>2. e.index = n + 1
    BY <2>1 DEF StreamEnd, Event
  <2> QED  BY <1>1, <2>2, PairIs
<1>3. t.status = "none" /\ ~t.end
  BY LiveShows
<1>4. Accepts(t, e)
  <2> HIDE DEF e
  <2> QED  BY <1>2, <1>3 DEF Accepts
<1>5. Advanced(t, e) = [ExpireTab(t) EXCEPT !.end = TRUE, !.cursor = e.seq]
  <2> HIDE DEF e
  <2>1. Apply(t, e) = ExpireTab([t EXCEPT !.end = TRUE])
    BY <1>2 DEF Apply
  <2> QED  BY <1>2, <2>1, ZenonT(60) DEF Advanced, TabType, ExpireTab, Dispose, CloseSource
<1> QED  BY <1>2, <1>4, <1>5 DEF n

Onwards(t, u, run) ==
    \/ u.source = t.source /\ u.ending = t.ending /\ ~u.end /\ SameFields(t, u) /\ Taken(u, run)
    \/ /\ ~u.source /\ u.end /\ SameFields(t, u)
       /\ u.cursor <= Len(run.log) /\ Shows(u, run, u.cursor)

LEMMA FrameTaken ==
    ASSUME NEW t \in TabType, NEW run, Past(run), Taken(t, run),
           NEW e, TellsOf(e, run), e.seq = t.cursor + 1
    PROVE  /\ Accepts(t, e) /\ Advanced(t, e) \in TabType
           /\ \/ Onwards(t, Advanced(t, e), run)
              \/ ~resident /\ Advanced(t, e) = [ExpireTab(t) EXCEPT !.end = TRUE, !.cursor = e.seq]
<1> DEFINE l == Len(run.log)
           u == Advanced(t, e)
<1>1. run \in RunType /\ run.state # "absent" /\ InOrder(run)
  BY DEF Past
<1>2. l \in Nat /\ t.cursor \in Nat /\ NextSeq(run) = l + 1
  BY <1>1 DEF RunType, TabType, NextSeq
<1>3. CASE e.seq \in 1..l /\ e = run.log[e.seq]
  <2>1. t.cursor < l /\ e = run.log[t.cursor + 1]
    BY <1>2, <1>3
  <2>2. ~t.expired /\ Shows(t, run, t.cursor)
    BY <1>2, <2>1 DEF Taken
  <2>3. Fits(t, run, t.cursor, e)
    BY <1>1, <1>2, <2>1, <2>2, LogFrameFits
  <2>4. /\ Accepts(t, e) /\ u \in TabType /\ SameFields(t, u) /\ u.cursor = t.cursor + 1
        /\ u.expired = t.expired /\ Shows(u, run, u.cursor)
        /\ \/ u.source = t.source /\ u.ending = t.ending /\ ~u.end
           \/ ~u.source /\ u.end
    BY <2>3 DEF Fits
  <2>5. u.cursor <= l
    BY <1>2, <2>1, <2>4
  <2>6. Taken(u, run)
    <3> HIDE DEF u
    <3> QED  BY <2>2, <2>4, <2>5 DEF Taken
  <2> HIDE DEF u
  <2> QED  BY <2>4, <2>5, <2>6 DEF Onwards, u
<1>4. CASE ~resident /\ run.state \in LiveStates /\ e \in {ExpiryTail(NextSeq(run))[1], ExpiryTail(NextSeq(run))[2]}
  <2>1. ExpiryTail(NextSeq(run))[1].seq = l + 1 /\ ExpiryTail(NextSeq(run))[2].seq = l + 2
    <3>1. NextSeq(run) \in Nat
      BY <1>2
    <3> DEFINE n == NextSeq(run)
    <3> HIDE DEF n
    <3>2. ExpiryTail(n)[1].seq = n /\ ExpiryTail(n)[2].seq = n + 1
      BY <3>1, PairIs DEF n
    <3> QED  BY <1>2, <3>2 DEF n
  <2>2. CASE e = ExpiryTail(NextSeq(run))[1]
    <3>1. t.cursor = l
      BY <1>2, <2>1, <2>2
    <3>2. ~t.expired /\ Shows(t, run, l)
      BY <1>2, <3>1 DEF Taken
    <3>3. /\ Accepts(t, e) /\ u \in TabType /\ SameFields(t, u) /\ SameShown(t, u)
          /\ u.cursor = NextSeq(run) /\ u.expired
          /\ u.source = t.source /\ u.ending = t.ending
      BY <1>1, <1>4, <2>2, <3>2, ExpiryFits
    <3>4. ~u.end /\ Shows(u, run, l)
      <4> HIDE DEF u
      <4> QED  BY <1>1, <1>4, <3>2, <3>3, LiveShows, ShownSame DEF SameShown
    <3>5. Taken(u, run)
      <4> HIDE DEF u
      <4> QED  BY <1>4, <3>3, <3>4 DEF Taken
    <3> HIDE DEF u
    <3> QED  BY <3>3, <3>4, <3>5 DEF Onwards, u
  <2>3. CASE e = ExpiryTail(NextSeq(run))[2]
    <3>1. t.cursor = l + 1
      BY <1>2, <2>1, <2>3
    <3>2. t.expired /\ Shows(t, run, l)
      BY <1>2, <3>1 DEF Taken
    <3>3. Accepts(t, e) /\ u = [ExpireTab(t) EXCEPT !.end = TRUE, !.cursor = e.seq]
      BY <1>1, <1>4, <2>3, <3>2, ExpiryEndFits
    <3>4. u \in TabType
      <4>1. e.seq \in Nat
        BY <1>2
      <4> DEFINE n == e.seq
                 w == ExpireTab(t)
      <4>2. w \in TabType
        BY ZenonT(60) DEF TabType, ExpireTab, Dispose, CloseSource
      <4> HIDE DEF n, w, u
      <4>3. u = [w EXCEPT !.end = TRUE, !.cursor = n] /\ n \in Nat
        BY <3>3, <4>1 DEF n, w
      <4> QED  BY <4>2, <4>3 DEF TabType
    <3> HIDE DEF u
    <3> QED  BY <1>4, <3>3, <3>4 DEF u
  <2> QED  BY <1>4, <2>2, <2>3
<1> QED  BY <1>3, <1>4 DEF TellsOf

-----------------------------------------------------------------------------
(* A Run moves on: its log gets longer, its state follows, and once it has ended
   it stays as it is.  What was shown of it and what is known of it stay true. *)
Moved(old, new) ==
    /\ new \in RunType /\ new.state # "absent" /\ InOrder(new)
    /\ new.state \in Follows(old.state)
    /\ old.state \in EndStates => new = old
    /\ Len(old.log) <= Len(new.log)
    /\ \A i \in 1..Len(old.log) : new.log[i] = old.log[i]

LEMMA FollowsIs ==
    ASSUME NEW s \in LiveStates \cup EndStates
    PROVE  /\ s \in Follows(s)
           /\ \A r \in Follows(s) : r \in LiveStates \cup EndStates /\ Follows(r) \subseteq Follows(s)
           /\ s \in EndStates => Follows(s) = {s}
BY DEF Follows, LiveStates, EndStates

LEMMA RunMoves ==
    ASSUME CoreInv, OrderInv, CoreInv', OrderInv', [Wide]_vars, resident', NEW r \in Accepted
    PROVE  r \in Accepted' /\ Moved(runs[r], runs'[r])
<1> DEFINE old == runs[r]
           new == runs'[r]
<1>1. /\ r \in Accepted' /\ r \in Runs
      /\ old.state \in EndStates => new = old
      /\ Len(old.log) <= Len(new.log)
      /\ \A i \in 1..Len(old.log) : new.log[i] = old.log[i]
  BY LogsStay DEF Accepted
<1>2. /\ old \in RunType /\ old.state # "absent" /\ InOrder(old)
      /\ new \in RunType /\ new.state # "absent" /\ InOrder(new)
  <2>1. old \in RunType /\ new \in RunType
    BY <1>1 DEF CoreInv, TypeOK
  <2>2. old.state # "absent" /\ new.state # "absent"
    BY <1>1 DEF Accepted
  <2>3. InOrder(old) /\ InOrder(new)
    BY <1>1 DEF OrderInv, Ordered
  <2> QED  BY <2>1, <2>2, <2>3
<1>3. old.state \in LiveStates \cup EndStates /\ new.state \in LiveStates \cup EndStates
  BY <1>2 DEF RunType
<1>4. new.state \in Follows(old.state)
  <2>1. CASE old.state \in EndStates
    BY <1>1, <1>3, <2>1, FollowsIs
  <2>2. CASE old.state = "queued"
    BY <1>3, <2>2 DEF Follows
  <2>3. CASE old.state = "running"
    <3>1. Len(old.log) >= 1
      <4>1. /\ Len(old.log) \in Nat /\ Body(old) \in Nat /\ Body(old) >= 1
            /\ Body(old) = Len(old.log)
        BY <1>2, <2>3, BodyIs DEF LiveStates
      <4> QED  BY <4>1
    <3>2. new.state # "queued"
      <4> SUFFICES ASSUME new.state = "queued" PROVE FALSE
        OBVIOUS
      <4>1. Body(new) = 0 /\ Body(new) = Len(new.log)
        BY <1>2, BodyIs DEF LiveStates
      <4>2. Len(old.log) \in Nat
        BY <1>2, BodyIs
      <4> QED  BY <1>1, <3>1, <4>1, <4>2
    <3> QED  BY <1>3, <2>3, <3>2 DEF Follows, LiveStates
  <2> QED  BY <1>3, <2>1, <2>2, <2>3 DEF LiveStates
<1> QED  BY <1>1, <1>2, <1>4 DEF Moved

LEMMA DeltasIs ==
    ASSUME NEW log
    PROVE  Deltas(log) = Cardinality(Of("message.delta", log, Len(log)))
BY DEF Deltas, Of

LEMMA DeltasGrow ==
    ASSUME NEW old \in RunType, NEW new, Moved(old, new)
    PROVE  Deltas(old.log) <= Deltas(new.log) /\ Deltas(old.log) \in Nat /\ Deltas(new.log) \in Nat
<1>1. /\ Len(old.log) \in Nat /\ Len(new.log) \in Nat /\ Len(old.log) <= Len(new.log)
      /\ \A i \in 1..Len(old.log) : new.log[i] = old.log[i]
  BY DEF Moved, RunType
<1>2. Of("message.delta", new.log, Len(old.log)) = Of("message.delta", old.log, Len(old.log))
  BY <1>1, OfSame
<1> QED  BY <1>1, <1>2, DeltasIs, OfMore, OfCounts

LEMMA KnowsMove ==
    ASSUME NEW old \in RunType, old.state # "absent", NEW new, Moved(old, new),
           NEW t \in TabType, Knows(t, old)
    PROVE  Knows(t, new)
<1>1. old.state \in LiveStates \cup EndStates
  BY DEF RunType
<1>2. CASE old.state \in EndStates
  BY <1>2 DEF Moved
<1>3. CASE old.state \in LiveStates
  <2>1. old.state \notin EndStates /\ old.state \notin RetryStates /\ old.state # "completed"
    BY <1>3 DEF LiveStates, EndStates, RetryStates
  <2>2. t.message = "none" /\ ~t.end
    BY <2>1 DEF Knows, TabType
  <2>3. t.state # "completed"
    BY <2>1 DEF Knows, Follows
  <2>4. t.state \in LiveStates \cup EndStates
    BY <2>1 DEF Knows, TabType, Follows, LiveStates, EndStates
  <2>5. new.state \in Follows(t.state)
    BY <2>4, FollowsIs DEF Moved, Knows
  <2>6. t.cursor <= Len(new.log) /\ t.latest <= Len(new.log) /\ t.buffer <= Deltas(new.log)
    <3>1. /\ Len(old.log) \in Nat /\ Len(new.log) \in Nat /\ Len(old.log) <= Len(new.log)
          /\ t.cursor \in Nat /\ t.latest \in Nat /\ t.buffer \in Nat
          /\ t.cursor <= Len(old.log) /\ t.latest <= Len(old.log) /\ t.buffer <= Deltas(old.log)
      BY SMTT(30) DEF Moved, RunType, TabType, Knows
    <3> QED  BY <3>1, DeltasGrow
  <2> QED  BY <2>2, <2>3, <2>5, <2>6 DEF Knows
<1> QED  BY <1>1, <1>2, <1>3

LEMMA PicturesMove ==
    ASSUME NEW old \in RunType, old.state # "absent", NEW new, Moved(old, new),
           NEW v \in View, v.state # "absent", Pictures(v, old)
    PROVE  Pictures(v, new)
<1>1. v.latest <= Len(new.log)
  <2>1. /\ Len(old.log) \in Nat /\ Len(new.log) \in Nat /\ Len(old.log) <= Len(new.log)
        /\ v.latest \in Nat /\ v.latest <= Len(old.log)
    BY DEF Moved, RunType, View, Pictures
  <2> QED  BY <2>1
<1>2. v.state \in LiveStates \cup EndStates
  BY DEF View
<1>3. new.state \in Follows(v.state)
  BY <1>2, FollowsIs DEF Moved, Pictures
<1>4. v.state \in EndStates => v.latest = Len(new.log) /\ v.content = Deltas(new.log)
  <2> SUFFICES ASSUME v.state \in EndStates PROVE v.latest = Len(new.log) /\ v.content = Deltas(new.log)
    OBVIOUS
  <2>1. old.state = v.state
    BY <1>2, FollowsIs DEF Pictures
  <2>2. new = old
    BY <2>1 DEF Moved
  <2> QED  BY <2>2 DEF Pictures
<1> QED  BY <1>1, <1>3, <1>4 DEF Pictures

(* An event of the body is none of the tail's: what was the log of a live Run is
   in the body of the Run that ended.                                        *)
LEMMA BodyHolds ==
    ASSUME NEW old \in RunType, old.state \in LiveStates, InOrder(old), NEW new, Moved(old, new)
    PROVE  Len(old.log) <= Body(new)
<1>1. /\ Len(old.log) \in Nat /\ Body(old) = Len(old.log) /\ old.state # "absent"
      /\ Len(new.log) \in Nat /\ Body(new) \in Nat /\ Len(old.log) <= Len(new.log)
  <2>1. old.state # "absent"
    BY DEF LiveStates
  <2> QED  BY <2>1, BodyIs DEF Moved
<1> SUFFICES ASSUME Len(old.log) > Body(new) PROVE FALSE
  BY <1>1
<1> DEFINE i == Body(new) + 1
<1>2. i \in 1..Len(old.log) /\ i \in 1..Len(new.log) /\ i = Body(new) + 1 /\ i <= Body(old)
  BY <1>1
<1> HIDE DEF i
<1>3. new.log[i].type \in {"message.sources", "message.discarded"}
  BY <1>2, FrameKinds DEF Moved
<1>4. old.log[i].type \in {"run.status", "message.delta", "agent.step", "context.truncated"}
  BY <1>1, <1>2, FrameKinds
<1>5. new.log[i] = old.log[i]
  BY <1>2 DEF Moved
<1> QED  BY <1>3, <1>4, <1>5

LEMMA ShowsMoves ==
    ASSUME NEW old \in RunType, old.state # "absent", InOrder(old), NEW new, Moved(old, new),
           NEW t \in TabType, NEW n \in Nat, n <= Len(old.log), Shows(t, old, n)
    PROVE  Shows(t, new, n)
<1>1. old.state \in LiveStates \cup EndStates
  BY DEF RunType
<1>2. CASE old.state \in EndStates
  BY <1>2 DEF Moved
<1>3. CASE old.state \in LiveStates
  <2> DEFINE bo == Body(old)
             bn == Body(new)
             ln == Len(new.log)
             same == n >= 2 /\ old.log[2].type = "context.truncated"
             steps == Cardinality(Of("agent.step", old.log, n))
             deltas == Cardinality(Of("message.delta", old.log, n))
  <2>1. /\ bo \in Nat /\ bn \in Nat /\ ln \in Nat /\ n <= bo /\ bo <= bn
        /\ new.state \in LiveStates \cup EndStates
        /\ new.state \in EndStates => bn + 3 <= ln
    <3>1. /\ bo \in Nat /\ bo = Len(old.log) /\ bn \in Nat /\ ln \in Nat
          /\ new.state \in LiveStates \cup EndStates
          /\ new.state \in {"completed", "failed", "timeout"} => bn + 4 = ln
          /\ new.state = "cancelled" => bn + 3 = ln
      BY <1>3, BodyIs DEF Moved
    <3>2. bo <= bn
      BY <1>3, <3>1, BodyHolds
    <3>3. n <= bo
      BY <3>1
    <3>4. new.state \in EndStates => bn + 3 <= ln
      <4>1. new.state \in EndStates => new.state \in {"completed", "failed", "timeout"} \/ new.state = "cancelled"
        BY DEF EndStates
      <4> HIDE DEF bn, ln
      <4> QED  BY <3>1, <4>1
    <3> QED  BY <3>1, <3>2, <3>3, <3>4
  <2>2. /\ (n >= 1 /\ bo >= 1) <=> (n >= 1 /\ bn >= 1)
        /\ (n >= 2 /\ bo >= 2) <=> (n >= 2 /\ bn >= 2)
        /\ ~(n > bn) /\ ~(n > bn + 1) /\ ~(n > bo) /\ ~(n > bo + 1)
        /\ new.state \in EndStates => ~(n > ln - 2) /\ n # ln
        /\ bo >= 1 => bn >= 1
    <3> HIDE DEF bo, bn, ln
    <3> QED  BY <2>1
  <2>3. /\ n >= 2 => new.log[2] = old.log[2]
        /\ Of("agent.step", new.log, n) = Of("agent.step", old.log, n)
        /\ Of("message.delta", new.log, n) = Of("message.delta", old.log, n)
    <3>1. \A k \in 1..n : new.log[k] = old.log[k]
      <4>1. Len(old.log) \in Nat /\ \A i \in 1..Len(old.log) : new.log[i] = old.log[i]
        BY DEF Moved, RunType
      <4> QED  BY <4>1
    <3>2. n >= 2 => 2 \in 1..n
      OBVIOUS
    <3> QED  BY <3>1, <3>2, OfSame
  <2>4. old.state \notin EndStates /\ old.state \notin RetryStates /\ old.state # "completed"
    BY <1>3 DEF LiveStates, EndStates, RetryStates
  <2>5. /\ t.sawRunning <=> n >= 1 /\ bo >= 1
        /\ t.truncated <=> n >= 2 /\ bo >= 2 /\ old.log[2].type = "context.truncated"
        /\ t.steps = steps /\ ~t.sources /\ t.message = "none" /\ ~t.error
        /\ t.status = "none" /\ ~t.end /\ t.buffer = deltas
        /\ t.state \in IF bo >= 1 THEN LiveStates ELSE {"queued"}
    <3>1. old.state \notin {"failed", "timeout"}
      BY <1>3 DEF LiveStates
    <3> HIDE DEF bo, bn, ln, steps, deltas
    <3> QED  BY <2>4, <3>1 DEF Shows, bo, steps, deltas
  <2>6. /\ t.sawRunning <=> n >= 1 /\ bn >= 1
        /\ t.truncated <=> n >= 2 /\ bn >= 2 /\ new.log[2].type = "context.truncated"
        /\ t.state \in IF bn >= 1 THEN LiveStates ELSE {"queued"}
    <3> HIDE DEF bo, bn, ln, steps, deltas
    <3>1. "queued" \in LiveStates
      BY DEF LiveStates
    <3> QED  BY <2>2, <2>3, <2>5, <3>1
  <2>7. /\ t.steps = Cardinality(Of("agent.step", new.log, n))
        /\ t.buffer = Cardinality(Of("message.delta", new.log, n))
    BY <2>3, <2>5
  <2>8. new.state \in EndStates => ~(n > Len(new.log) - 2) /\ n # Len(new.log)
    BY <2>2
  <2>9. ~(n > Body(new)) /\ ~(n > Body(new) + 1)
    BY <2>2
  <2>10. /\ t.sawRunning <=> n >= 1 /\ Body(new) >= 1
         /\ t.truncated <=> n >= 2 /\ Body(new) >= 2 /\ new.log[2].type = "context.truncated"
         /\ t.state \in IF Body(new) >= 1 THEN LiveStates ELSE {"queued"}
    BY <2>6
  <2>11. ~t.sources /\ t.message = "none" /\ ~t.error /\ t.status = "none" /\ ~t.end
    BY <2>5
  <2> HIDE DEF bo, bn, ln, steps, deltas
  <2> QED  BY <2>7, <2>8, <2>9, <2>10, <2>11 DEF Shows
<1> QED  BY <1>1, <1>2, <1>3

(* What a tab that follows the stream knows.                                 *)
LEMMA ShowsKnows ==
    ASSUME NEW run \in RunType, run.state # "absent", InOrder(run), NEW t \in TabType,
           t.cursor <= Len(run.log), t.latest <= Len(run.log), ~t.reconciled,
           Shows(t, run, t.cursor)
    PROVE  Knows(t, run)
<1> DEFINE n == t.cursor
           b == Body(run)
           l == Len(run.log)
           deltas(k) == Cardinality(Of("message.delta", run.log, k))
<1>1. /\ n \in Nat /\ b \in Nat /\ l \in Nat /\ n <= l
      /\ run.state \in LiveStates \cup EndStates
      /\ run.state \in {"completed", "failed", "timeout"} => b + 4 = l
      /\ run.state = "cancelled" => b + 3 = l
      /\ run.state = "queued" => b = 0
  BY BodyIs DEF TabType
<1>2. /\ deltas(n) <= deltas(l) /\ Deltas(run.log) = deltas(l)
      /\ deltas(n) \in Nat /\ deltas(l) \in Nat
  BY <1>1, OfMore, OfCounts, DeltasIs
<1>3. t.buffer <= Deltas(run.log)
  <2> HIDE DEF deltas
  <2>1. t.buffer = 0 \/ t.buffer = deltas(n)
    BY DEF Shows, deltas
  <2> QED  BY <1>2, <2>1
<1>4. run.state \in Follows(t.state)
  <2>1. CASE t.status # "none"
    <3>1. t.status = run.state /\ t.state = run.state
      BY <2>1 DEF Shows
    <3> QED  BY <1>1, <3>1, FollowsIs
  <2>2. CASE t.status = "none" /\ b >= 1
    <3>1. t.state \in LiveStates
      BY <2>2 DEF Shows
    <3>2. run.state # "queued"
      <4> HIDE DEF b
      <4> QED  BY <1>1, <2>2
    <3> QED  BY <1>1, <3>1, <3>2 DEF Follows, LiveStates
  <2>3. CASE t.status = "none" /\ ~(b >= 1)
    <3>1. t.state = "queued"
      BY <2>3 DEF Shows
    <3> QED  BY <1>1, <3>1 DEF Follows
  <2> QED  BY <2>1, <2>2, <2>3
<1>5. ASSUME t.message = "completed"
      PROVE  run.state = "completed" /\ t.buffer \in {0, Deltas(run.log)}
  <2>1. run.state = "completed" /\ n > b + 1
    BY <1>5 DEF Shows
  <2>2. Of("message.delta", run.log, n) = Of("message.delta", run.log, l)
    <3>1. b + 4 = l
      BY <1>1, <2>1
    <3>2. ASSUME NEW k \in 1..l, ~(k <= n) PROVE run.log[k].type # "message.delta"
      <4>1. k = b + 3 \/ k = b + 4
        <5>1. ~(k <= n) /\ k \in 1..l
          BY <3>2
        <5> HIDE DEF n, b, l
        <5> QED  BY <1>1, <2>1, <3>1, <5>1
      <4> QED  BY <2>1, <4>1, FrameKinds
    <3>3. \A k \in 1..n : k \in 1..l
      <4> HIDE DEF n, l
      <4> QED  BY <1>1
    <3>4. \A k \in 1..l : k <= n => k \in 1..n
      <4> HIDE DEF n, l
      <4> QED  BY <1>1
    <3> QED  BY <3>2, <3>3, <3>4 DEF Of
  <2>3. t.buffer = deltas(n)
    BY <1>5 DEF Shows
  <2> QED  BY <1>2, <2>1, <2>2, <2>3
<1>6. t.message = "discarded" => run.state \in RetryStates
  BY DEF Shows
<1>7. ASSUME t.end
      PROVE  /\ run.state \in EndStates /\ t.cursor = Len(run.log) /\ t.status = run.state
             /\ t.message = IF run.state = "completed" THEN "completed" ELSE "discarded"
             /\ run.state \in {"failed", "timeout"} => t.error
  <2>1. run.state \in EndStates /\ n = l
    BY <1>7 DEF Shows
  <2>2. /\ l > b + 1 /\ l > b /\ l > l - 2
    <3>1. run.state \in {"completed", "failed", "timeout"} \/ run.state = "cancelled"
      BY <2>1 DEF EndStates
    <3> HIDE DEF n, b, l
    <3> QED  BY <1>1, <3>1
  <2>3. run.state # "completed" => run.state \in RetryStates
    BY <2>1 DEF EndStates, RetryStates
  <2>4. run.state = "completed" => run.state \notin RetryStates
    BY DEF RetryStates
  <2>5. Shows(t, run, l)
    BY <2>1
  <2>6. /\ t.status = run.state
        /\ t.message = IF run.state = "completed" THEN "completed" ELSE "discarded"
        /\ run.state \in {"failed", "timeout"} => t.error
    <3> HIDE DEF n, b, l, deltas
    <3> QED  BY <2>1, <2>2, <2>3, <2>4, <2>5 DEF Shows, b, l
  <2> QED  BY <2>1, <2>6
<1> QED  BY <1>3, <1>4, <1>5, <1>6, <1>7 DEF Knows

(* What the server reads now agrees with what the tab knows.                 *)
LEMMA KnowsAgrees ==
    ASSUME NEW run \in RunType, run.state # "absent", NEW t \in TabType, Modes(t), Knows(t, run),
           NEW v \in View, v.state = run.state, v.latest = Len(run.log),
           v.content = Deltas(run.log)
    PROVE  Agrees(t, v) /\ Pictures(v, run)
<1>1. run.state \in LiveStates \cup EndStates /\ v.content \in Nat /\ t.buffer \in Nat
      /\ v.latest \in Nat /\ t.cursor \in Nat /\ t.latest \in Nat
  BY DEF RunType, View, TabType
<1>2. Pictures(v, run)
  BY <1>1, FollowsIs DEF Pictures
<1>3. v.latest >= t.latest /\ v.latest >= t.cursor /\ v.state \in Follows(t.state)
      /\ t.buffer <= v.content
  BY <1>1 DEF Knows
<1>4. t.afterEnd => t.end
  BY DEF Modes
<1>5. ASSUME v.state \in EndStates, t.afterEnd
      PROVE  /\ v.latest = t.cursor /\ t.end /\ t.status = v.state
             /\ t.message = IF v.state = "completed" THEN "completed" ELSE "discarded"
             /\ v.state # "cancelled" /\ v.state # "completed" => t.error
  <2>1. v.state \in {"completed", "cancelled", "failed", "timeout"}
    BY <1>5 DEF EndStates
  <2> QED  BY <1>4, <1>5, <2>1 DEF Knows
<1>6. v.state # "completed" => t.message # "completed"
  BY DEF Knows
<1>7. CASE v.state \notin EndStates
  BY <1>2, <1>3, <1>7 DEF Agrees, Reconciles
<1>8. CASE v.state \in EndStates /\ v.state # "completed"
  <2>1. v.state # "cancelled" /\ t.afterEnd => t.error
    BY <1>5, <1>8
  <2>2. t.message # "completed" /\ (t.afterEnd => t.message = "discarded")
    BY <1>5, <1>6, <1>8
  <2>3. t.afterEnd => v.latest = t.cursor /\ t.end /\ t.status = v.state
    BY <1>5, <1>8
  <2> QED  BY <1>2, <1>3, <1>8, <2>1, <2>2, <2>3 DEF Agrees, Reconciles
<1>9. CASE v.state = "completed"
  <2>1. v.state \in EndStates
    BY <1>9 DEF EndStates
  <2>2. t.afterEnd => v.latest = t.cursor /\ t.end /\ t.status = v.state /\ t.message = "completed"
    BY <1>5, <1>9, <2>1
  <2>3. CASE t.buffer \in {0, v.content}
    BY <1>2, <1>3, <1>9, <2>1, <2>2, <2>3 DEF Agrees, Reconciles
  <2>4. CASE t.buffer \notin {0, v.content}
    <3>1. t.buffer \in 1..v.content - 1
      BY <1>1, <1>3, <2>4
    <3>2. t.message = "none"
      <4>1. t.message # "completed"
        BY <2>4 DEF Knows
      <4>2. t.message # "discarded"
        BY <1>9 DEF Knows, RetryStates
      <4> QED  BY <4>1, <4>2 DEF TabType
    <3> QED  BY <1>2, <1>9, <3>1, <3>2 DEF Agrees
  <2> QED  BY <2>3, <2>4
<1> QED  BY <1>2, <1>7, <1>8, <1>9

(* The browser drops connections: those requests are gone, and with the stream
   the slot it may have held.                                                *)
Clears(S) ==
    /\ UNCHANGED vars
    /\ request' = [q \in Requests |-> IF q \in S THEN Away ELSE request[q]]
    /\ sse' = IF \E q \in S : request[q].slot THEN sse - 1 ELSE sse

LEMMA ClearsSlots ==
    ASSUME StreamTypeOK, SlotInv, NEW S \in SUBSET Requests, Clears(S),
           \A p, q \in S : request[p].slot /\ request[q].slot => p = q
    PROVE  SlotInv' /\ sse' \in 0..MaxStreams
<1>1. /\ sse \in Nat /\ sse <= MaxStreams /\ MaxStreams \in Nat
      /\ IsFiniteSet(Held) /\ sse = Cardinality(Held)
  BY ReqIs, StreamAssumption DEF SlotInv
<1>2. \A q \in Requests : request'[q].slot <=> q \notin S /\ request[q].slot
  <2> SUFFICES ASSUME NEW q \in Requests PROVE request'[q].slot <=> q \notin S /\ request[q].slot
    OBVIOUS
  <2>1. request'[q] = IF q \in S THEN Away ELSE request[q]
    BY DEF Clears
  <2> QED  BY <2>1, NothingTyped
<1>3. CASE \A q \in S : ~request[q].slot
  <2>1. Held' = Held
    BY <1>2, <1>3 DEF Held
  <2>2. sse' = sse
    BY <1>3 DEF Clears
  <2> QED  BY <1>1, <2>1, <2>2 DEF SlotInv
<1>4. ASSUME NEW q \in S, request[q].slot PROVE SlotInv' /\ sse' \in 0..MaxStreams
  <2>1. Held' = Held \ {q} /\ q \in Held
    BY <1>2, <1>4 DEF Held
  <2>2. sse' = sse - 1
    BY <1>4 DEF Clears
  <2>3. IsFiniteSet(Held') /\ Cardinality(Held') = Cardinality(Held) - 1
    BY <1>1, <2>1, FS_RemoveElement
  <2>4. Cardinality(Held') \in Nat
    BY <2>3, FS_CardinalityType
  <2> QED  BY <1>1, <2>2, <2>3, <2>4 DEF SlotInv
<1> QED  BY <1>3, <1>4

LEMMA ClearsBase ==
    ASSUME BaseInv, NEW S \in SUBSET Requests, Clears(S),
           \A p, q \in S : request[p].slot /\ request[q].slot => p = q
    PROVE  BaseInv' /\ [Wide]_vars
<1>1. [Wide]_vars /\ StreamCore /\ SlotInv
  BY DEF Clears, BaseInv
<1>2. CoreInv'
  BY <1>1, TypeStep, LiveStep, BlankStep DEF StreamCore, CoreInv
<1>3. OrderInv' /\ PairInv' /\ LogsArePlain'
  BY <1>1, OrderStep, PairStep, PlainStep DEF StreamCore
<1>4. \A q \in Requests : request'[q] = Away \/ request'[q] = request[q]
  BY DEF Clears
<1>5. SlotInv' /\ sse' \in 0..MaxStreams
  BY <1>1, ClearsSlots DEF StreamCore
<1>6. StreamTypeOK'
  <2>1. StreamTypeOK' <=> request' \in [Requests -> ReqType] /\ sse' \in 0..MaxStreams
    BY DEF StreamTypeOK, ReqType
  <2>2. request \in [Requests -> ReqType]
    BY <1>1, ReqIs DEF StreamCore
  <2>3. request' \in [Requests -> ReqType]
    BY <2>2, NothingTyped DEF Clears
  <2> QED  BY <1>5, <2>1, <2>3
<1>7. ASSUME NEW q \in Requests PROVE Stands(q)' /\ Framed(q)'
  <2>1. CASE request'[q] = Away
    BY <2>1, NothingTyped DEF Stands, Framed
  <2>2. CASE request'[q] = request[q]
    <3>1. Stands(q)'
      BY <1>1, <2>2 DEF StreamCore, Stands
    <3>2. UNCHANGED <<runs, resident>> /\ Accepted' = Accepted
      BY DEF Clears, vars, Accepted
    <3>3. Framed(q)'
      BY <2>2, <3>2 DEF BaseInv, Framed
    <3> QED  BY <3>1, <3>3
  <2> QED  BY <1>4, <2>1, <2>2
<1> QED  BY <1>1, <1>2, <1>3, <1>5, <1>6, <1>7 DEF BaseInv, StreamCore

LEMMA ClientShape ==
    ASSUME BaseInv, TabInv, [ClientNext]_clientVars
    PROVE  \/ [StreamNext]_streamVars
           \/ \E S \in SUBSET Requests :
                 Clears(S) /\ \A p, q \in S : request[p].slot /\ request[q].slot => p = q
<1> DEFINE Shape == \/ [StreamNext]_streamVars
                    \/ \E S \in SUBSET Requests :
                          Clears(S) /\ \A p, q \in S : request[p].slot /\ request[q].slot => p = q
<1>1. Stream \in Requests /\ Poll \in Requests /\ Stream # Poll /\ TheRun \in Runs
      /\ 0 \in Cursors[Stream]
  BY ClientAssumption
<1>2. ~request[Poll].slot
  BY NothingTyped DEF TabInv, Channels, PollReq
<1>3. request \in [Requests -> ReqType]
  BY ReqIs DEF BaseInv, StreamCore
<1>4. ASSUME NEW t, Become(t) PROVE Shape
  <2>1. CASE tab.source /\ ~t.source
    <3>1. Clears({Stream})
      BY <1>1, <1>3, <1>4, <2>1 DEF Become, Clears
    <3> QED  BY <1>1, <3>1
  <2>2. CASE ~(tab.source /\ ~t.source)
    BY <1>4, <2>2 DEF Become, streamVars
  <2> QED  BY <2>1, <2>2
<1>5. ASSUME NEW t, FinishPoll(t) PROVE Shape
  <2>1. Clears({Poll})
    BY <1>1, <1>2, <1>3, <1>5 DEF FinishPoll, Clears
  <2> QED  BY <1>1, <2>1
<1>6. ASSUME HidePage PROVE Shape
  <2>1. Clears({Stream, Poll})
    BY <1>1, <1>2, <1>6 DEF HidePage, Clears
  <2>2. \A p, q \in {Stream, Poll} : request[p].slot /\ request[q].slot => p = q
    BY <1>2
  <2> QED  BY <1>1, <2>1, <2>2
<1>7. ASSUME NEW r, Connect(Stream, "stream", TheRun, 0) \/ Connect(Poll, "poll", TheRun, 0)
      PROVE  Shape
  BY <1>1, <1>7 DEF StreamNext
<1>8. ASSUME StartRun PROVE Shape
  <2>1. Connect(Stream, "stream", TheRun, 0) \/ UNCHANGED <<vars, request, sse>>
    BY <1>8 DEF StartRun
  <2> QED  BY <1>7, <2>1 DEF streamVars
<1>9. ASSUME NEW q \in Requests, Serve(q) PROVE Shape
  BY <1>9 DEF StreamNext
<1>10. ASSUME StoreStep PROVE Shape
  BY <1>10 DEF StreamNext
<1>11. ASSUME Progress PROVE Shape
  <2> HIDE DEF Shape
  <2> QED  BY <1>4, <1>5, <1>7, <1>11
           DEF Progress, Receive, SourceEnds, PollAfterEnd, ShowPage, SendPoll, PollRefused,
               PollHeaders, PollBody, OnlyTab
<1>12. ASSUME Disturbance PROVE Shape
  <2> HIDE DEF Shape
  <2> QED  BY <1>4, <1>5, <1>6, <1>8, <1>12
           DEF Disturbance, SourceBreaks, PollFails, PollBodyBreaks, StopUnanswered, OnlyTab
<1>13. ASSUME UNCHANGED clientVars PROVE Shape
  BY <1>13 DEF clientVars, streamVars
<1> HIDE DEF Shape
<1>14. ASSUME ServeStep PROVE Shape
  BY <1>9, <1>14 DEF ServeStep
<1>15. Progress \/ Disturbance \/ ServeStep \/ StoreStep \/ UNCHANGED clientVars
  BY DEF ClientNext
<1>16. Shape
  BY <1>10, <1>11, <1>12, <1>13, <1>14, <1>15
<1> QED  BY <1>16 DEF Shape

(* So what EventStream's proofs assume of every state holds under the tab too. *)
LEMMA BaseStep ==
    ASSUME BaseInv, TabInv, [ClientNext]_clientVars
    PROVE  BaseInv' /\ [Wide]_vars
<1>1. CASE [StreamNext]_streamVars
  <2>1. StreamCore' /\ [Wide]_vars
    BY <1>1, StreamCoreStep DEF BaseInv
  <2>2. SlotInv'
    BY <1>1, SlotStep DEF BaseInv, StreamCore, CoreInv
  <2>3. \A q \in Requests : Framed(q)'
    BY <1>1, FramedStep DEF BaseInv
  <2> QED  BY <2>1, <2>2, <2>3 DEF BaseInv
<1>2. ASSUME NEW S \in SUBSET Requests, Clears(S),
             \A p, q \in S : request[p].slot /\ request[q].slot => p = q
      PROVE  BaseInv' /\ [Wide]_vars
  BY <1>2, ClearsBase
<1> QED  BY <1>1, <1>2, ClientShape

-----------------------------------------------------------------------------
(* What the tab's own operations leave of it.                                *)
SameFacts(t, u) ==
    /\ u.state = t.state /\ u.cursor = t.cursor /\ u.latest = t.latest
    /\ u.message = t.message /\ u.buffer = t.buffer /\ u.status = t.status /\ u.end = t.end
    /\ u.error = t.error /\ u.reconciled = t.reconciled /\ u.notice = t.notice
SamePoll(t, u) == SameFacts(t, u) /\ u.afterEnd = t.afterEnd
KeepsKnown(t, u) == u.state # "absent" => t.state # "absent" /\ \A run \in RunType : Knows(t, run) => Knows(u, run)
Idle(t) == ~t.source /\ ~Awaits(t)

LEMMA FactsKept ==
    ASSUME NEW t, NEW u, SameFacts(t, u)
    PROVE  KeepsKnown(t, u)
BY DEF SameFacts, KeepsKnown, Knows

LEMMA SamePollAgrees ==
    ASSUME NEW t, NEW u, SamePoll(t, u), NEW v, Agrees(t, v)
    PROVE  Agrees(u, v)
BY DEF SamePoll, SameFacts, Agrees, Reconciles

(* A tab that loses what it streamed, and says why, knows nothing wrong.     *)
LEMMA ClosedKnows ==
    ASSUME NEW t \in TabType, NEW u, u.state = t.state, u.cursor = t.cursor, u.latest = t.latest,
           u.message = t.message, u.buffer = 0, u.status = t.status, u.end = t.end,
           u.error = t.error, u.notice # "none"
    PROVE  KeepsKnown(t, u)
<1> SUFFICES ASSUME NEW run \in RunType, Knows(t, run) PROVE Knows(u, run)
  BY DEF KeepsKnown
<1>1. Deltas(run.log) \in Nat
  <2>1. Len(run.log) \in Nat
    BY DEF RunType
  <2> QED  BY <2>1, DeltasIs, OfCounts
<1> QED  BY <1>1 DEF Knows

LEMMA StartPollingKeeps ==
    ASSUME NEW t \in TabType, Modes(t), t.state # "absent", NEW x \in BOOLEAN, x => t.end
    PROVE  LET u == StartPolling(t, x)
           IN  /\ u \in TabType /\ Modes(u) /\ ~u.source /\ SameFacts(t, u)
               /\ \/ u = t /\ t.polling
                  \/ ~t.polling /\ Idle(u)
<1> DEFINE u == StartPolling(t, x)
<1>1. CASE t.polling
  BY <1>1 DEF StartPolling, Modes, SameFacts, TabType
<1>2. CASE ~t.polling
  <2>1. u = [t EXCEPT !.source = FALSE, !.taken = 0, !.polling = TRUE, !.wait = "due",
                      !.afterEnd = x, !.retries = 0]
    BY <1>2 DEF StartPolling, CloseSource, TabType
  <2> HIDE DEF u
  <2>2. u \in TabType
    <3>1. CASE x = TRUE
      BY <2>1, <3>1, ZenonT(60) DEF TabType
    <3>2. CASE x = FALSE
      BY <2>1, <3>2, ZenonT(60) DEF TabType
    <3> QED  BY <3>1, <3>2
  <2>3. /\ u.source = FALSE /\ u.polling = TRUE /\ u.wait = "due" /\ u.afterEnd = x
        /\ u.ending = t.ending /\ u.stoppable = t.stoppable /\ SameFacts(t, u)
    BY <2>1 DEF TabType, SameFacts
  <2>4. Modes(u) /\ Idle(u)
    BY <2>3 DEF Modes, SameFacts, Idle, Awaits
  <2> QED  BY <1>2, <2>2, <2>3, <2>4 DEF u, Idle
<1> QED  BY <1>1, <1>2 DEF TabType

LEMMA DisposeKeeps ==
    ASSUME NEW t \in TabType, Modes(t)
    PROVE  LET u == Dispose(t)
           IN  u \in TabType /\ Modes(u) /\ Idle(u) /\ SameFacts(t, u)
<1> DEFINE u == Dispose(t)
<1>1. u = [t EXCEPT !.source = FALSE, !.taken = 0, !.polling = FALSE, !.wait = "none",
                    !.retries = 0, !.afterEnd = FALSE]
  BY DEF Dispose, CloseSource, TabType
<1> HIDE DEF u
<1>2. u \in TabType
  BY <1>1, ZenonT(60) DEF TabType
<1>3. /\ u.source = FALSE /\ u.polling = FALSE /\ u.wait = "none" /\ u.afterEnd = FALSE
      /\ u.ending = t.ending /\ u.stoppable = t.stoppable /\ SameFacts(t, u)
  BY <1>1 DEF TabType, SameFacts
<1>4. Modes(u) /\ Idle(u)
  BY <1>3 DEF Modes, SameFacts, Idle, Awaits
<1> QED  BY <1>2, <1>3, <1>4 DEF u

LEMMA FailClosedKeeps ==
    ASSUME NEW t \in TabType, Modes(t)
    PROVE  LET u == FailClosed(t)
           IN  u \in TabType /\ Modes(u) /\ Idle(u) /\ KeepsKnown(t, u)
<1> DEFINE u == FailClosed(t)
<1>1. u = [t EXCEPT !.source = FALSE, !.taken = 0, !.polling = FALSE, !.wait = "none",
                    !.retries = 0, !.afterEnd = FALSE, !.buffer = 0, !.reconciled = FALSE,
                    !.notice = "unsafe"]
  BY DEF FailClosed, Dispose, CloseSource, TabType
<1> HIDE DEF u
<1>2. u \in TabType
  BY <1>1, ZenonT(60) DEF TabType
<1>3. /\ u.source = FALSE /\ u.polling = FALSE /\ u.wait = "none" /\ u.afterEnd = FALSE
      /\ u.ending = t.ending /\ u.stoppable = t.stoppable
      /\ u.state = t.state /\ u.cursor = t.cursor /\ u.latest = t.latest
      /\ u.message = t.message /\ u.buffer = 0 /\ u.status = t.status /\ u.end = t.end
      /\ u.error = t.error /\ u.notice = "unsafe"
  BY <1>1 DEF TabType
<1>4. Modes(u) /\ Idle(u)
  BY <1>3 DEF Modes, Idle, Awaits
<1>5. KeepsKnown(t, u)
  BY <1>3, ClosedKnows
<1> QED  BY <1>2, <1>4, <1>5 DEF u

LEMMA ExpireTabKeeps ==
    ASSUME NEW t \in TabType, Modes(t)
    PROVE  LET u == ExpireTab(t)
           IN  u \in TabType /\ Modes(u) /\ Idle(u) /\ KeepsKnown(t, u)
<1> DEFINE u == ExpireTab(t)
<1>1. u = [t EXCEPT !.source = FALSE, !.taken = 0, !.polling = FALSE, !.wait = "none",
                    !.retries = 0, !.afterEnd = FALSE, !.buffer = 0, !.reconciled = TRUE,
                    !.notice = "expired"]
  BY DEF ExpireTab, Dispose, CloseSource, TabType
<1> HIDE DEF u
<1>2. u \in TabType
  BY <1>1, ZenonT(60) DEF TabType
<1>3. /\ u.source = FALSE /\ u.polling = FALSE /\ u.wait = "none" /\ u.afterEnd = FALSE
      /\ u.ending = t.ending /\ u.stoppable = t.stoppable
      /\ u.state = t.state /\ u.cursor = t.cursor /\ u.latest = t.latest
      /\ u.message = t.message /\ u.buffer = 0 /\ u.status = t.status /\ u.end = t.end
      /\ u.error = t.error /\ u.notice = "expired"
  BY <1>1 DEF TabType
<1>4. Modes(u) /\ Idle(u)
  BY <1>3 DEF Modes, Idle, Awaits
<1>5. KeepsKnown(t, u)
  BY <1>3, ClosedKnows
<1> QED  BY <1>2, <1>4, <1>5 DEF u

LEMMA RetryKeeps ==
    ASSUME NEW t \in TabType, Modes(t), Awaits(t)
    PROVE  LET u == Retry(t)
           IN  u \in TabType /\ Modes(u) /\ Idle(u) /\ KeepsKnown(t, u)
<1> DEFINE more == t.retries + 1
           u == [t EXCEPT !.retries = more, !.wait = "due"]
           w == [t EXCEPT !.wait = "none"]
<1>1. more \in Nat
  BY DEF TabType
<1>2. Retry(t) = FailClosed(t) \/ Retry(t) = u \/ Retry(t) = w
  BY DEF Retry, TabType
<1> HIDE DEF more
<1>3. u \in TabType
  BY <1>1 DEF TabType
<1>4. /\ u.source = t.source /\ u.polling = t.polling /\ u.wait = "due" /\ u.afterEnd = t.afterEnd
      /\ u.ending = t.ending /\ u.stoppable = t.stoppable /\ SameFacts(t, u)
  BY <1>1 DEF TabType, SameFacts
<1>5. t.polling /\ ~t.source
  BY DEF Modes, Awaits
<1> HIDE DEF u
<1>6. Modes(u) /\ Idle(u)
  BY <1>4, <1>5 DEF Modes, Idle, Awaits, SameFacts
<1>7. KeepsKnown(t, u)
  BY <1>4, FactsKept
<1>8. w \in TabType /\ Modes(w) /\ Idle(w) /\ KeepsKnown(t, w)
  <2>1. w \in TabType
    BY DEF TabType
  <2>2. /\ w.source = t.source /\ w.polling = t.polling /\ w.wait = "none"
        /\ w.afterEnd = t.afterEnd /\ w.ending = t.ending /\ w.stoppable = t.stoppable
        /\ SameFacts(t, w)
    BY DEF TabType, SameFacts
  <2> HIDE DEF w
  <2>3. Modes(w) /\ Idle(w)
    BY <1>5, <2>2 DEF Modes, Idle, Awaits, SameFacts
  <2> QED  BY <2>1, <2>2, <2>3, FactsKept
<1> QED  BY <1>2, <1>3, <1>6, <1>7, <1>8, FailClosedKeeps

(* A projection of the Run as it ended settles it, ...                       *)
LEMMA SettleKeeps ==
    ASSUME NEW t \in TabType, Modes(t), NEW v, v.state \in EndStates, v.latest \in Nat,
           v.content \in Nat
    PROVE  LET u == Settle(t, v)
           IN  /\ u \in TabType /\ Modes(u) /\ Idle(u)
               /\ u.state = v.state /\ u.latest = v.latest /\ u.cursor = t.cursor
               /\ u.buffer = (IF v.state = "completed" THEN v.content ELSE 0)
               /\ u.message = t.message /\ u.end = t.end /\ u.status = t.status
               /\ t.error => u.error
<1> DEFINE u == Settle(t, v)
           s == v.state
           latest == v.latest
           buffer == IF v.state = "completed" THEN v.content ELSE 0
           d == Dispose(t)
           sources == v.state = "completed" \/ d.sources
           error == v.state \in {"failed", "timeout"} \/ d.error
<1>0. /\ d \in TabType /\ Modes(d) /\ Idle(d) /\ SameFacts(t, d)
      /\ d.polling = FALSE /\ d.wait = "none" /\ d.afterEnd = FALSE /\ d.ending = t.ending
      /\ d.stoppable = t.stoppable
  <2>1. d.polling = FALSE /\ d.wait = "none" /\ d.afterEnd = FALSE /\ d.ending = t.ending
        /\ d.stoppable = t.stoppable
    BY DEF Dispose, CloseSource, TabType
  <2> QED  BY <2>1, DisposeKeeps
<1>2. s \in EndStates /\ latest \in Nat /\ buffer \in Nat /\ sources \in BOOLEAN /\ error \in BOOLEAN
  OBVIOUS
<1>e. t.error => error
  BY <1>0 DEF SameFacts
<1> HIDE DEF d
<1>1. u = [d EXCEPT !.state = s, !.latest = latest, !.reconciled = TRUE, !.buffer = buffer,
                    !.sources = sources, !.error = error]
  BY <1>0 DEF Settle, TabType, d
<1> HIDE DEF u, s, latest, buffer, sources, error
<1>3. u \in TabType
  <2> DEFINE w(a, b) == [d EXCEPT !.state = s, !.latest = latest, !.reconciled = TRUE,
                                  !.buffer = buffer, !.sources = a, !.error = b]
  <2>1. w(TRUE, TRUE) \in TabType
    BY <1>0, <1>2 DEF TabType
  <2>2. w(TRUE, FALSE) \in TabType
    BY <1>0, <1>2, ZenonT(60) DEF TabType
  <2>3. w(FALSE, TRUE) \in TabType
    BY <1>0, <1>2, ZenonT(60) DEF TabType
  <2>4. w(FALSE, FALSE) \in TabType
    BY <1>0, <1>2, ZenonT(60) DEF TabType
  <2>5. u = w(sources, error)
    BY <1>1
  <2> HIDE DEF w
  <2> QED  BY <1>2, <2>1, <2>2, <2>3, <2>4, <2>5
<1>4. /\ u.source = FALSE /\ u.polling = FALSE /\ u.wait = "none" /\ u.afterEnd = FALSE
      /\ u.ending = t.ending /\ u.stoppable = t.stoppable /\ u.state = s /\ u.latest = latest
      /\ u.cursor = t.cursor /\ u.buffer = buffer /\ u.message = t.message /\ u.end = t.end
      /\ u.status = t.status /\ u.error = error
  <2>1. /\ u.source = d.source /\ u.polling = d.polling /\ u.wait = d.wait
        /\ u.afterEnd = d.afterEnd /\ u.ending = d.ending /\ u.stoppable = d.stoppable
        /\ u.state = s /\ u.latest = latest /\ u.cursor = d.cursor /\ u.buffer = buffer
        /\ u.message = d.message /\ u.end = d.end /\ u.status = d.status /\ u.error = error
    BY <1>0, <1>1 DEF TabType
  <2>2. d.source = FALSE
    BY <1>0 DEF Idle, TabType
  <2> QED  BY <1>0, <2>1, <2>2 DEF SameFacts
<1>5. s # "absent"
  BY <1>2 DEF EndStates
<1>6. Modes(u) /\ Idle(u)
  BY <1>4, <1>5 DEF Modes, Idle, Awaits
<1> QED  BY <1>2, <1>3, <1>4, <1>6, <1>e DEF u, s, latest, buffer

LEMMA SettleKnows ==
    ASSUME NEW t \in TabType, Modes(t), NEW run \in RunType, NEW v, v.state \in EndStates,
           v.state = run.state, v.latest = Len(run.log), v.content = Deltas(run.log),
           t.cursor <= Len(run.log), t.message = "completed" => run.state = "completed",
           t.message = "discarded" => run.state \in RetryStates,
           t.end => /\ t.cursor = Len(run.log) /\ t.status = run.state
                    /\ t.message = IF run.state = "completed" THEN "completed" ELSE "discarded"
                    /\ run.state \in {"failed", "timeout"} => t.error
    PROVE  Knows(Settle(t, v), run)
<1> DEFINE u == Settle(t, v)
<1>1. Len(run.log) \in Nat /\ Deltas(run.log) \in Nat
  <2>1. Len(run.log) \in Nat
    BY DEF RunType
  <2> QED  BY <2>1, DeltasIs, OfCounts
<1>2. /\ u.state = v.state /\ u.latest = v.latest /\ u.cursor = t.cursor
      /\ u.buffer = (IF v.state = "completed" THEN v.content ELSE 0)
      /\ u.message = t.message /\ u.end = t.end /\ u.status = t.status
      /\ t.error => u.error
  BY <1>1, SettleKeeps
<1>3. run.state \in Follows(u.state)
  BY <1>2, FollowsIs
<1> HIDE DEF u
<1>4. u.buffer \in {0, Deltas(run.log)} /\ u.buffer <= Deltas(run.log)
      /\ (u.state = "completed" => u.buffer = Deltas(run.log))
  BY <1>1, <1>2
<1>5. Knows(u, run)
  BY <1>1, <1>2, <1>3, <1>4 DEF Knows
<1> QED  BY <1>5 DEF u

(* ... one of a live Run is taken over, and the next poll is due.            *)
LEMMA UpdateKeeps ==
    ASSUME NEW t \in TabType, Modes(t), Awaits(t), NEW s \in LiveStates, NEW latest \in Nat
    PROVE  LET u == [t EXCEPT !.state = s, !.latest = latest, !.retries = 0, !.wait = "due"]
           IN  /\ u \in TabType /\ Modes(u) /\ Idle(u)
               /\ \A run \in RunType : Knows(t, run) /\ latest <= Len(run.log) /\ run.state \in Follows(s)
                                           => Knows(u, run)
<1> DEFINE u == [t EXCEPT !.state = s, !.latest = latest, !.retries = 0, !.wait = "due"]
<1>1. u \in TabType
  BY DEF TabType
<1>2. /\ u.source = t.source /\ u.polling = t.polling /\ u.wait = "due" /\ u.afterEnd = t.afterEnd
      /\ u.ending = t.ending /\ u.stoppable = t.stoppable /\ u.state = s /\ u.latest = latest
      /\ u.cursor = t.cursor /\ u.buffer = t.buffer /\ u.message = t.message /\ u.end = t.end
      /\ u.status = t.status /\ u.error = t.error
  BY DEF TabType
<1>3. t.polling /\ ~t.source /\ s # "absent" /\ s # "completed"
  BY DEF Modes, Awaits, LiveStates
<1> HIDE DEF u
<1>4. Modes(u) /\ Idle(u)
  BY <1>2, <1>3 DEF Modes, Idle, Awaits
<1>5. \A run \in RunType : Knows(t, run) /\ latest <= Len(run.log) /\ run.state \in Follows(s)
                               => Knows(u, run)
  BY <1>2, <1>3 DEF Knows
<1> QED  BY <1>1, <1>4, <1>5 DEF u

(* A step of the tab alone: it keeps a connection or drops it, the server does
   nothing, and what the tab shows and knows afterwards is accounted for.     *)
Local ==
    /\ UNCHANGED vars /\ tab' \in TabType /\ Modes(tab')
    /\ IF tab'.source THEN tab.source /\ request'[Stream] = request[Stream]
       ELSE request'[Stream] = Away
    /\ IF Awaits(tab') THEN Awaits(tab) /\ request'[Poll] = request[Poll] /\ SamePoll(tab, tab')
       ELSE request'[Poll] = Away
    /\ tab'.source =>
          \A run : Past(run) /\ AllTold(run) /\ Taken(tab, run) => Taken(tab', run)
    /\ resident /\ tab'.state # "absent" => TheRun \in Accepted /\ Knows(tab', runs[TheRun])

(* Such a step keeps the invariant.                                          *)
LEMMA LocalStep ==
    ASSUME ClientInv, BaseInv', Local
    PROVE  ClientInv'
<1>1. UNCHANGED vars /\ UNCHANGED <<runs, resident, tombstone>> /\ Accepted' = Accepted
  BY DEF Local, vars, Accepted
<1>2. TabInv'
  <2>1. Channels'
    <3>1. CASE tab'.source
      BY <3>1 DEF Local, ClientInv, TabInv, Channels, PollReq
    <3>2. CASE ~tab'.source
      BY <3>2 DEF Local, ClientInv, TabInv, Channels, PollReq
    <3> QED  BY <3>1, <3>2
  <2> QED  BY <2>1 DEF Local, TabInv
<1>3. FollowInv'
  <2> SUFFICES ASSUME tab'.source PROVE \E run : (Past(run) /\ AllTold(run) /\ Taken(tab, run))'
    BY DEF FollowInv
  <2>1. PICK run : Past(run) /\ AllTold(run) /\ Taken(tab, run)
    BY DEF ClientInv, FollowInv, Local
  <2>2. Taken(tab', run)
    BY <2>1 DEF Local
  <2>3. Past(run)'
    BY <1>1, <2>1 DEF Past
  <2>4. AllTold(run)'
    BY <1>1, <2>1 DEF AllTold, TellsOf, Local
  <2>5. Taken(tab, run)'
    BY <1>1, <2>2 DEF Taken
  <2> QED  BY <2>3, <2>4, <2>5
<1>4. KnowInv'
  BY <1>1 DEF KnowInv, Local
<1>5. PollInv'
  <2> SUFFICES ASSUME Awaits(tab'), request'[Poll].view.state # "absent"
               PROVE  /\ Agrees(tab', request'[Poll].view)
                      /\ resident' => Pictures(request'[Poll].view, runs'[TheRun])
    BY DEF PollInv
  <2>1. request'[Poll] = request[Poll] /\ SamePoll(tab, tab') /\ Awaits(tab)
    BY DEF Local
  <2>2. /\ Agrees(tab, request[Poll].view)
        /\ resident => Pictures(request[Poll].view, runs[TheRun])
    BY <2>1 DEF ClientInv, PollInv
  <2> QED  BY <1>1, <2>1, <2>2, SamePollAgrees
<1> QED  BY <1>2, <1>3, <1>4, <1>5 DEF ClientInv

LEMMA KnownKept ==
    ASSUME BaseInv, KnowInv, NEW u, KeepsKnown(tab, u), resident, u.state # "absent"
    PROVE  TheRun \in Accepted /\ Knows(u, runs[TheRun])
<1>1. runs[TheRun] \in RunType
  BY ClientAssumption DEF BaseInv, StreamCore, CoreInv, TypeOK
<1> QED  BY <1>1 DEF KnowInv, KeepsKnown

LEMMA BecomeRequests ==
    ASSUME ClientInv, NEW t, Become(t)
    PROVE  /\ tab' = t /\ UNCHANGED vars /\ request'[Poll] = request[Poll]
           /\ ~t.source => request'[Stream] = Away
           /\ t.source => request'[Stream] = request[Stream]
<1>1. request \in [Requests -> ReqType]
  BY ReqIs DEF ClientInv, BaseInv, StreamCore
<1> QED  BY <1>1, ClientAssumption DEF Become, ClientInv, TabInv, Channels

LEMMA ModesFacts ==
    ASSUME NEW t, Modes(t)
    PROVE  /\ t.source => ~Awaits(t)
           /\ Awaits(t) => t.polling /\ ~t.source /\ t.state # "absent"
           /\ ~t.polling => ~Awaits(t)
BY DEF Modes, Awaits

LEMMA PollingStep ==
    ASSUME ClientInv, NEW t \in TabType, Modes(t), t.state # "absent", NEW x \in BOOLEAN,
           x => t.end, SamePoll(tab, t), t.polling = tab.polling, t.wait = tab.wait,
           Become(StartPolling(t, x))
    PROVE  Local
<1> DEFINE u == StartPolling(t, x)
<1>1. /\ u \in TabType /\ Modes(u) /\ ~u.source /\ SameFacts(t, u)
      /\ (u = t /\ t.polling) \/ (~t.polling /\ Idle(u))
  BY StartPollingKeeps
<1>2. /\ tab' = u /\ UNCHANGED vars /\ request'[Poll] = request[Poll]
      /\ request'[Stream] = Away
  BY <1>1, BecomeRequests
<1> HIDE DEF u
<1>3. SameFacts(tab, u)
  BY <1>1 DEF SamePoll, SameFacts
<1>4. resident /\ u.state # "absent" => TheRun \in Accepted /\ Knows(u, runs[TheRun])
  BY <1>3, FactsKept, KnownKept DEF ClientInv
<1>5. IF Awaits(u) THEN Awaits(tab) /\ request'[Poll] = request[Poll] /\ SamePoll(tab, u)
      ELSE request'[Poll] = Away
  <2>1. CASE u = t
    BY <1>2, <2>1 DEF Awaits, ClientInv, TabInv, Channels
  <2>2. CASE ~t.polling /\ Idle(u)
    BY <1>2, <2>2, ModesFacts DEF Idle, ClientInv, TabInv, Channels
  <2> QED  BY <1>1, <2>1, <2>2
<1> QED  BY <1>1, <1>2, <1>4, <1>5 DEF Local

LEMMA FinishStep ==
    ASSUME ClientInv, Awaits(tab), NEW u \in TabType, Modes(u), Idle(u), FinishPoll(u),
           resident /\ u.state # "absent" => Knows(u, runs[TheRun])
    PROVE  Local
<1>1. request \in [Requests -> ReqType] /\ Poll \in Requests /\ Stream # Poll
  BY ReqIs, ClientAssumption DEF ClientInv, BaseInv, StreamCore
<1>2. ~tab.source /\ tab.state # "absent"
  BY ModesFacts DEF ClientInv, TabInv
<1>3. request'[Poll] = Away /\ request'[Stream] = Away /\ tab' = u /\ UNCHANGED vars
  BY <1>1, <1>2 DEF FinishPoll, ClientInv, TabInv, Channels
<1>4. resident => TheRun \in Accepted
  BY <1>2 DEF ClientInv, KnowInv
<1> QED  BY <1>3, <1>4 DEF Local, Idle

-----------------------------------------------------------------------------
(* The actions of the tab, one by one.                                       *)
LEMMA TakenSame ==
    ASSUME NEW t, NEW u, SameShown(t, u), u.cursor = t.cursor, u.expired = t.expired,
           NEW run, Taken(t, run)
    PROVE  Taken(u, run)
BY ShownSame DEF Taken

LEMMA ShowsPresent ==
    ASSUME NEW t \in TabType, NEW run, NEW n, Shows(t, run, n)
    PROVE  t.state # "absent"
<1>1. \/ t.status # "none" /\ t.state = t.status
      \/ t.state \in LiveStates \/ t.state = "queued"
  BY DEF Shows
<1>2. t.status \in {"none"} \cup EndStates
  BY DEF TabType
<1> QED  BY <1>1, <1>2 DEF LiveStates, EndStates

LEMMA TakenPresent ==
    ASSUME NEW t \in TabType, NEW run, Taken(t, run)
    PROVE  t.state # "absent"
BY ShowsPresent DEF Taken

LEMMA ReceiveStep ==
    ASSUME ClientInv, Receive
    PROVE  Local
<1> DEFINE e == NextFrame
           m == tab.taken + 1
           t == [tab EXCEPT !.taken = m]
           n == tab.cursor + 1
<1>1. /\ tab.source /\ tab.taken < Len(request[Stream].sent)
      /\ \/ e.seq <= tab.cursor /\ OnlyTab(t)
         \/ /\ e.seq = n /\ Accepts(tab, e)
            /\ OnlyTab([Apply(t, e) EXCEPT !.cursor = e.seq])
         \/ OnlyTab(StartPolling(t, FALSE))
  BY DEF Receive
<1>2. tab \in TabType /\ Modes(tab) /\ tab.source
  BY <1>1 DEF ClientInv, TabInv
<1>3. m \in Nat /\ m \in 1..Len(request[Stream].sent)
  <2>1. request[Stream].sent \in Seq(EventType)
    BY ReqIs, ClientAssumption DEF ClientInv, BaseInv, StreamCore, ReqType
  <2>2. tab.taken \in Nat
    BY <1>2 DEF TabType
  <2> QED  BY <1>1, <2>1, <2>2
<1>e. e = request[Stream].sent[m]
  BY DEF NextFrame
<1> HIDE DEF e, m
<1>4. t \in TabType
  BY <1>2, <1>3 DEF TabType
<1>5. /\ t.source /\ t.cursor = tab.cursor /\ t.expired = tab.expired /\ SameShown(tab, t)
      /\ SamePoll(tab, t) /\ t.polling = tab.polling /\ t.wait = tab.wait
      /\ t.ending = tab.ending /\ t.stoppable = tab.stoppable /\ t.latest = tab.latest
      /\ t.reconciled = tab.reconciled /\ t.notice = tab.notice /\ t.afterEnd = tab.afterEnd
  BY <1>2 DEF TabType, SameShown, SamePoll, SameFacts
<1> HIDE DEF t
<1>6. Modes(t) /\ t.state # "absent" /\ ~Awaits(t) /\ ~Awaits(tab) /\ request[Poll] = Away
      /\ ~t.reconciled /\ t.notice = "none" /\ ~t.polling
  <2>1. Modes(t) /\ ~Awaits(t) /\ ~Awaits(tab) /\ t.state # "absent"
    BY <1>2, <1>5 DEF Modes, SameShown, Awaits
  <2> QED  BY <1>2, <1>5, <2>1 DEF ClientInv, TabInv, Channels, Modes
<1>7. CASE OnlyTab(t)
  <2>1. /\ tab' = t /\ UNCHANGED vars /\ request'[Poll] = Away
        /\ request'[Stream] = request[Stream]
    BY <1>5, <1>6, <1>7, BecomeRequests DEF OnlyTab
  <2>2. resident => TheRun \in Accepted /\ Knows(t, runs[TheRun])
    BY <1>5, <1>6, FactsKept, KnownKept DEF ClientInv, SamePoll
  <2>3. \A run : Taken(tab, run) => Taken(t, run)
    BY <1>5, TakenSame
  <2> QED  BY <1>2, <1>4, <1>5, <1>6, <2>1, <2>2, <2>3 DEF Local
<1>8. CASE e.seq = n /\ OnlyTab([Apply(t, e) EXCEPT !.cursor = e.seq])
  <2> DEFINE u == Advanced(t, e)
             Heard(run) == Past(run) /\ AllTold(run) /\ Taken(tab, run)
  <2>1. Become(u) /\ e.seq = t.cursor + 1
    BY <1>5, <1>8 DEF OnlyTab, Advanced
  <2>2. /\ tab' = u /\ UNCHANGED vars /\ request'[Poll] = Away
        /\ ~u.source => request'[Stream] = Away
        /\ u.source => request'[Stream] = request[Stream]
    BY <1>6, <2>1, BecomeRequests
  <2>3. ASSUME NEW run, Heard(run)
        PROVE  /\ u \in TabType
               /\ \/ Onwards(t, u, run)
                  \/ ~resident /\ u = [ExpireTab(t) EXCEPT !.end = TRUE, !.cursor = e.seq]
    <3>1. TellsOf(e, run)
      BY <1>3, <1>e, <2>3 DEF AllTold
    <3>2. Taken(t, run)
      BY <1>5, <2>3, TakenSame
    <3> QED  BY <1>4, <2>1, <2>3, <3>1, <3>2, FrameTaken
  <2>4. PICK run : Heard(run)
    BY <1>2 DEF ClientInv, FollowInv
  <2>r. run \in RunType /\ run.state # "absent" /\ InOrder(run) /\ (resident => run = runs[TheRun])
    BY <2>4 DEF Past
  <2>k. resident => TheRun \in Accepted /\ tab.latest <= Len(run.log)
    <3>1. tab.state # "absent"
      BY <1>5, <1>6 DEF SameShown
    <3> QED  BY <2>r, <3>1 DEF ClientInv, KnowInv, Knows
  <2> HIDE DEF u
  <2>5. CASE u.source = t.source /\ u.ending = t.ending /\ ~u.end /\ SameFields(t, u) /\ Taken(u, run)
    <3>1. u \in TabType
      BY <2>3, <2>4
    <3>2. Modes(u) /\ ~Awaits(u)
      BY <1>5, <1>6, <2>5, <3>1, TakenPresent DEF Modes, SameFields, Awaits
    <3>3. resident => Knows(u, runs[TheRun])
      <4> SUFFICES ASSUME resident PROVE Knows(u, run)
        BY <2>r
      <4>1. u.cursor <= Len(run.log) /\ Shows(u, run, u.cursor)
        BY <2>5 DEF Taken
      <4>2. u.latest <= Len(run.log) /\ ~u.reconciled
        BY <1>5, <1>6, <2>5, <2>k DEF SameFields
      <4> QED  BY <2>r, <3>1, <4>1, <4>2, ShowsKnows
    <3>4. \A r : Heard(r) => Taken(u, r)
      <4> SUFFICES ASSUME NEW r, Heard(r) PROVE Taken(u, r)
        OBVIOUS
      <4>1. u.source
        BY <1>5, <2>5
      <4>2. u # [ExpireTab(t) EXCEPT !.end = TRUE, !.cursor = e.seq]
        <5> DEFINE c == e.seq
                   w == [ExpireTab(t) EXCEPT !.end = TRUE, !.cursor = c]
        <5> HIDE DEF c
        <5>1. ~w.source
          BY <1>4 DEF ExpireTab, Dispose, CloseSource, TabType
        <5> QED  BY <4>1, <5>1 DEF c
      <4>3. Onwards(t, u, r)
        BY <2>3, <4>2
      <4> QED  BY <4>1, <4>3 DEF Onwards
    <3> HIDE DEF Heard
    <3>5. resident => TheRun \in Accepted /\ Knows(u, runs[TheRun])
      BY <2>k, <3>3
    <3> QED  BY <1>2, <1>5, <2>2, <2>5, <3>1, <3>2, <3>4, <3>5 DEF Local, Heard
  <2>6. CASE ~u.source /\ u.end /\ SameFields(t, u) /\ u.cursor <= Len(run.log) /\ Shows(u, run, u.cursor)
    <3>1. u \in TabType
      BY <2>3, <2>4
    <3>2. Modes(u) /\ ~Awaits(u)
      BY <1>6, <2>6, <3>1, ShowsPresent DEF Modes, SameFields, Awaits
    <3>3. resident => TheRun \in Accepted /\ Knows(u, runs[TheRun])
      <4> SUFFICES ASSUME resident PROVE Knows(u, run)
        BY <2>k, <2>r
      <4>1. u.latest <= Len(run.log) /\ ~u.reconciled
        BY <1>5, <1>6, <2>6, <2>k DEF SameFields
      <4> QED  BY <2>r, <2>6, <3>1, <4>1, ShowsKnows
    <3> QED  BY <2>2, <2>6, <3>1, <3>2, <3>3 DEF Local
  <2>7. CASE ~resident /\ u = [ExpireTab(t) EXCEPT !.end = TRUE, !.cursor = e.seq]
    <3>1. u \in TabType
      BY <2>3, <2>4
    <3>2. /\ ~u.source /\ u.polling = FALSE /\ u.wait = "none" /\ u.afterEnd = FALSE
          /\ u.end = TRUE /\ u.state = t.state
      <4> DEFINE c == e.seq
      <4> HIDE DEF c
      <4>1. u = [ExpireTab(t) EXCEPT !.end = TRUE, !.cursor = c]
        BY <2>7 DEF c
      <4> QED  BY <1>4, <4>1 DEF ExpireTab, Dispose, CloseSource, TabType
    <3>3. Modes(u) /\ ~Awaits(u)
      BY <1>6, <3>2 DEF Modes, Awaits
    <3> QED  BY <2>2, <2>7, <3>1, <3>2, <3>3 DEF Local
  <2> QED  BY <2>3, <2>4, <2>5, <2>6, <2>7 DEF Onwards
<1>9. CASE OnlyTab(StartPolling(t, FALSE))
  BY <1>4, <1>5, <1>6, <1>9, PollingStep DEF OnlyTab
<1> QED  BY <1>1, <1>7, <1>8, <1>9

LEMMA SourceStep ==
    ASSUME ClientInv, SourceBreaks \/ SourceEnds
    PROVE  Local
<1>1. tab.source /\ Become(StartPolling(tab, FALSE))
  BY DEF SourceBreaks, SourceEnds, OnlyTab
<1>2. tab \in TabType /\ Modes(tab) /\ tab.state # "absent"
  BY <1>1 DEF ClientInv, TabInv, Modes
<1>3. SamePoll(tab, tab)
  BY DEF SamePoll, SameFacts
<1> QED  BY <1>1, <1>2, <1>3, PollingStep

LEMMA PollAfterEndStep ==
    ASSUME ClientInv, PollAfterEnd
    PROVE  Local
<1> DEFINE t == [tab EXCEPT !.ending = FALSE]
<1>1. tab.ending /\ Become(StartPolling(t, TRUE))
  BY DEF PollAfterEnd, OnlyTab
<1>2. tab \in TabType /\ Modes(tab) /\ tab.end /\ tab.state # "absent"
  BY <1>1 DEF ClientInv, TabInv, Modes
<1>3. t \in TabType
  BY <1>2 DEF TabType
<1>4. /\ SamePoll(tab, t) /\ t.source = tab.source /\ t.polling = tab.polling /\ t.wait = tab.wait
      /\ t.ending = FALSE /\ t.stoppable = tab.stoppable
  BY <1>2 DEF TabType, SamePoll, SameFacts
<1> HIDE DEF t
<1>5. Modes(t) /\ t.state # "absent" /\ t.end
  BY <1>2, <1>4 DEF Modes, SamePoll, SameFacts
<1> QED  BY <1>1, <1>3, <1>4, <1>5, PollingStep

LEMMA StopStep ==
    ASSUME ClientInv, StopUnanswered
    PROVE  Local
<1>1. tab.stoppable /\ Become(StartPolling(tab, tab.end))
  BY DEF StopUnanswered
<1>2. tab \in TabType /\ Modes(tab) /\ tab.state # "absent" /\ tab.end \in BOOLEAN
  BY <1>1 DEF ClientInv, TabInv, Modes, TabType
<1>3. SamePoll(tab, tab)
  BY DEF SamePoll, SameFacts
<1> QED  BY <1>1, <1>2, <1>3, PollingStep

LEMMA ShowPageStep ==
    ASSUME ClientInv, ShowPage
    PROVE  Local
<1> DEFINE t == [tab EXCEPT !.hidden = FALSE]
<1>1. tab \in TabType /\ Modes(tab)
  BY DEF ClientInv, TabInv
<1>2. t \in TabType
  BY <1>1 DEF TabType
<1>3. /\ SamePoll(tab, t) /\ t.source = tab.source /\ t.polling = tab.polling /\ t.wait = tab.wait
      /\ t.ending = tab.ending /\ t.stoppable = tab.stoppable /\ SameShown(tab, t)
      /\ t.expired = tab.expired
  BY <1>1 DEF TabType, SamePoll, SameFacts, SameShown
<1>4. \/ tab.state # "absent" /\ Become(StartPolling(t, tab.end))
      \/ Become(t)
  BY DEF ShowPage, OnlyTab
<1> HIDE DEF t
<1>5. Modes(t)
  BY <1>1, <1>3 DEF Modes, SamePoll, SameFacts
<1>6. CASE tab.state # "absent" /\ Become(StartPolling(t, tab.end))
  <2>1. tab.end \in BOOLEAN /\ t.end = tab.end /\ t.state = tab.state
    BY <1>1, <1>3 DEF TabType, SamePoll, SameFacts
  <2> QED  BY <1>2, <1>3, <1>5, <1>6, <2>1, PollingStep
<1>7. CASE Become(t)
  <2>1. /\ tab' = t /\ UNCHANGED vars /\ request'[Poll] = request[Poll]
        /\ ~t.source => request'[Stream] = Away
        /\ t.source => request'[Stream] = request[Stream]
    BY <1>7, BecomeRequests
  <2>2. resident /\ t.state # "absent" => TheRun \in Accepted /\ Knows(t, runs[TheRun])
    BY <1>3, FactsKept, KnownKept DEF ClientInv, SamePoll
  <2>3. \A run : Taken(tab, run) => Taken(t, run)
    BY <1>3, TakenSame DEF SamePoll, SameFacts
  <2>4. IF Awaits(t) THEN Awaits(tab) /\ request'[Poll] = request[Poll] /\ SamePoll(tab, t)
        ELSE request'[Poll] = Away
    BY <1>3, <2>1 DEF Awaits, ClientInv, TabInv, Channels
  <2> QED  BY <1>2, <1>3, <1>5, <2>1, <2>2, <2>3, <2>4 DEF Local
<1> QED  BY <1>4, <1>6, <1>7

LEMMA PollFailsStep ==
    ASSUME ClientInv, PollFails \/ PollRefused \/ PollBodyBreaks
    PROVE  Local
<1>1. tab \in TabType /\ Modes(tab) /\ Awaits(tab)
  BY DEF ClientInv, TabInv, PollFails, PollRefused, PollBodyBreaks, Awaits
<1>2. FinishPoll(Retry(tab)) \/ FinishPoll(FailClosed(tab))
  BY DEF PollFails, PollRefused, PollBodyBreaks
<1>3. ASSUME NEW u \in TabType, Modes(u), Idle(u), KeepsKnown(tab, u), FinishPoll(u) PROVE Local
  <2>1. resident /\ u.state # "absent" => Knows(u, runs[TheRun])
    BY <1>3, KnownKept DEF ClientInv
  <2> QED  BY <1>1, <1>3, <2>1, FinishStep
<1> QED  BY <1>1, <1>2, <1>3, RetryKeeps, FailClosedKeeps

LEMMA PollHeadersStep ==
    ASSUME ClientInv, PollHeaders
    PROVE  Local
<1> DEFINE t == [tab EXCEPT !.wait = "reading"]
<1>1. tab \in TabType /\ Modes(tab) /\ Awaits(tab) /\ Become(t)
  BY DEF ClientInv, TabInv, PollHeaders, Awaits, OnlyTab
<1>2. t \in TabType
  BY <1>1 DEF TabType
<1>3. /\ SamePoll(tab, t) /\ t.source = tab.source /\ t.polling = tab.polling /\ t.wait = "reading"
      /\ t.ending = tab.ending /\ t.stoppable = tab.stoppable
  BY <1>1 DEF TabType, SamePoll, SameFacts
<1> HIDE DEF t
<1>4. tab.polling /\ ~t.source /\ Modes(t) /\ Awaits(t)
  BY <1>1, <1>3 DEF Modes, SamePoll, SameFacts, Awaits
<1>5. tab' = t /\ UNCHANGED vars /\ request'[Poll] = request[Poll] /\ request'[Stream] = Away
  BY <1>1, <1>4, BecomeRequests
<1>6. resident /\ t.state # "absent" => TheRun \in Accepted /\ Knows(t, runs[TheRun])
  BY <1>3, FactsKept, KnownKept DEF ClientInv, SamePoll
<1> QED  BY <1>1, <1>2, <1>3, <1>4, <1>5, <1>6 DEF Local

LEMMA PollBodyStep ==
    ASSUME ClientInv, PollBody
    PROVE  Local
<1> DEFINE v == request[Poll].view
           run == runs[TheRun]
<1>1. tab \in TabType /\ Modes(tab) /\ Awaits(tab)
  BY DEF ClientInv, TabInv, PollBody, Awaits
<1>2. v \in View /\ v.latest \in Nat /\ v.content \in Nat /\ run \in RunType
  BY ReqIs, ClientAssumption DEF ClientInv, BaseInv, StreamCore, CoreInv, TypeOK, ReqType, View
<1>3. /\ \/ FinishPoll(ExpireTab(tab))
         \/ /\ Answered("ok") /\ v.state \in LiveStates
            /\ FinishPoll([tab EXCEPT !.state = v.state, !.latest = v.latest,
                                      !.retries = 0, !.wait = "due"])
         \/ Answered("ok") /\ v.state \in EndStates /\ FinishPoll(Settle(tab, v))
         \/ FinishPoll(FailClosed(tab))
  BY DEF PollBody
<1>4. ASSUME Answered("ok"), resident
      PROVE  /\ v.latest <= Len(run.log) /\ run.state \in Follows(v.state)
             /\ v.state \in EndStates => v.latest = Len(run.log) /\ v.content = Deltas(run.log)
             /\ Knows(tab, run)
  <2>1. v.state # "absent"
    BY <1>1, <1>4 DEF ClientInv, TabInv, Channels, PollReq, Answered
  <2>2. tab.state # "absent"
    BY <1>1, ModesFacts
  <2> QED  BY <1>1, <1>4, <2>1, <2>2 DEF ClientInv, PollInv, KnowInv, Pictures
<1>5. ASSUME NEW u \in TabType, Modes(u), Idle(u), KeepsKnown(tab, u), FinishPoll(u) PROVE Local
  <2>1. resident /\ u.state # "absent" => Knows(u, runs[TheRun])
    BY <1>5, KnownKept DEF ClientInv
  <2> QED  BY <1>1, <1>5, <2>1, FinishStep
<1>6. CASE FinishPoll(ExpireTab(tab)) \/ FinishPoll(FailClosed(tab))
  BY <1>1, <1>5, <1>6, ExpireTabKeeps, FailClosedKeeps
<1>7. CASE /\ Answered("ok") /\ v.state \in LiveStates
           /\ FinishPoll([tab EXCEPT !.state = v.state, !.latest = v.latest,
                                     !.retries = 0, !.wait = "due"])
  <2> DEFINE s == v.state
             latest == v.latest
             u == [tab EXCEPT !.state = s, !.latest = latest, !.retries = 0, !.wait = "due"]
  <2>1. s \in LiveStates /\ latest \in Nat
    BY <1>2, <1>7
  <2>2. /\ u \in TabType /\ Modes(u) /\ Idle(u)
        /\ \A r \in RunType : Knows(tab, r) /\ latest <= Len(r.log) /\ r.state \in Follows(s)
                                    => Knows(u, r)
    <3> HIDE DEF s, latest
    <3> QED  BY <1>1, <2>1, UpdateKeeps
  <2>3. FinishPoll(u)
    BY <1>7
  <2> HIDE DEF u
  <2>4. resident => Knows(u, run)
    BY <1>2, <1>4, <1>7, <2>2
  <2> QED  BY <1>1, <2>2, <2>3, <2>4, FinishStep
<1>8. CASE Answered("ok") /\ v.state \in EndStates /\ FinishPoll(Settle(tab, v))
  <2> HIDE DEF v
  <2>1. Settle(tab, v) \in TabType /\ Modes(Settle(tab, v)) /\ Idle(Settle(tab, v))
    BY <1>1, <1>2, <1>8, SettleKeeps
  <2>2. ASSUME resident PROVE Knows(Settle(tab, v), run)
    <3>1. /\ v.latest = Len(run.log) /\ v.content = Deltas(run.log) /\ Knows(tab, run)
          /\ run.state \in Follows(v.state)
      BY <1>4, <1>8, <2>2
    <3>2. run.state = v.state /\ v.state \in EndStates
      BY <1>8, <3>1, FollowsIs
    <3>3. /\ tab.cursor <= Len(run.log)
          /\ tab.message = "completed" => run.state = "completed"
          /\ tab.message = "discarded" => run.state \in RetryStates
          /\ tab.end => /\ tab.cursor = Len(run.log)
                        /\ tab.status = run.state
                        /\ tab.message = IF run.state = "completed" THEN "completed" ELSE "discarded"
                        /\ run.state \in {"failed", "timeout"} => tab.error
      <4> HIDE DEF run
      <4> QED  BY <3>1 DEF Knows
    <3> HIDE DEF run
    <3> QED  BY <1>1, <1>2, <3>1, <3>2, <3>3, SettleKnows
  <2>3. resident => Knows(Settle(tab, v), runs[TheRun])
    BY <2>2
  <2> QED  BY <1>1, <1>8, <2>1, <2>3, FinishStep
<1> QED  BY <1>3, <1>6, <1>7, <1>8

LEMMA HidePageStep ==
    ASSUME ClientInv, HidePage
    PROVE  Local
<1>1. tab \in TabType /\ Modes(tab)
  BY DEF ClientInv, TabInv
<1> DEFINE t == IF tab.wait = "reading" THEN FailClosed(tab) ELSE Dispose(tab)
           u == [t EXCEPT !.hidden = TRUE]
<1>2. t \in TabType /\ Modes(t) /\ Idle(t) /\ KeepsKnown(tab, t)
  <2>1. KeepsKnown(tab, Dispose(tab))
    BY <1>1, DisposeKeeps, FactsKept
  <2> QED  BY <1>1, <2>1, DisposeKeeps, FailClosedKeeps
<1>3. tab' = u /\ UNCHANGED vars
  BY DEF HidePage
<1> HIDE DEF t
<1>4. u \in TabType
  BY <1>2 DEF TabType
<1>5. /\ SameFacts(t, u) /\ u.source = t.source /\ u.wait = t.wait /\ u.polling = t.polling
      /\ u.afterEnd = t.afterEnd /\ u.ending = t.ending /\ u.stoppable = t.stoppable
  BY <1>2 DEF TabType, SameFacts
<1> HIDE DEF u
<1>6. Modes(u) /\ Idle(u)
  BY <1>2, <1>5 DEF Modes, Idle, SameFacts, Awaits
<1>7. KeepsKnown(tab, u)
  BY <1>2, <1>5, FactsKept DEF KeepsKnown
<1>8. resident /\ u.state # "absent" => TheRun \in Accepted /\ Knows(u, runs[TheRun])
  BY <1>7, KnownKept DEF ClientInv
<1>9. request'[Stream] = Away /\ request'[Poll] = Away
  BY ClientAssumption DEF HidePage
<1> QED  BY <1>3, <1>4, <1>6, <1>8, <1>9 DEF Local, Idle

-----------------------------------------------------------------------------
(* The tab's two requests go out.                                            *)
LEMMA NoRunIs ==
    /\ NoRun \in TabType /\ Modes(NoRun) /\ Idle(NoRun) /\ NoRun.state = "absent"
    /\ NoRun.cursor = 0 /\ NoRun.message = "none" /\ ~NoRun.end /\ ~NoRun.expired
    /\ ~NoRun.sawRunning /\ ~NoRun.truncated /\ NoRun.steps = 0 /\ ~NoRun.sources
    /\ ~NoRun.error /\ NoRun.status = "none" /\ NoRun.buffer = 0 /\ ~NoRun.reconciled
    /\ NoRun.notice = "none" /\ NoRun.wait = "none" /\ ~NoRun.polling /\ ~NoRun.afterEnd
    /\ ~NoRun.ending
<1>1. NoRun \in TabType
  BY DEF NoRun, TabType
<1>2. /\ NoRun.state = "absent" /\ NoRun.source = FALSE /\ NoRun.stoppable = FALSE
      /\ NoRun.cursor = 0 /\ NoRun.message = "none" /\ NoRun.end = FALSE /\ NoRun.expired = FALSE
      /\ NoRun.sawRunning = FALSE /\ NoRun.truncated = FALSE /\ NoRun.steps = 0
      /\ NoRun.sources = FALSE /\ NoRun.error = FALSE /\ NoRun.status = "none"
      /\ NoRun.buffer = 0 /\ NoRun.reconciled = FALSE /\ NoRun.notice = "none"
      /\ NoRun.wait = "none" /\ NoRun.polling = FALSE /\ NoRun.afterEnd = FALSE
      /\ NoRun.ending = FALSE
  BY DEF NoRun
<1> HIDE DEF NoRun
<1> QED  BY <1>1, <1>2 DEF Modes, Idle, Awaits

LEMMA ReplayStep ==
    ASSUME ClientInv, StartRun, runs[TheRun].state \notin LiveStates
    PROVE  Local
<1> DEFINE run == runs[TheRun]
           v == [state |-> run.state, latest |-> Len(run.log), content |-> Deltas(run.log)]
           u == Settle(tab, v)
<1>1. tab = NoRun /\ resident /\ TheRun \in Accepted /\ tab' = u /\ UNCHANGED <<vars, request, sse>>
  BY DEF StartRun
<1>2. run \in RunType /\ run.state \in EndStates /\ Len(run.log) \in Nat /\ Deltas(run.log) \in Nat
  <2>1. run \in RunType /\ run.state # "absent"
    BY <1>1 DEF Accepted, ClientInv, BaseInv, StreamCore, CoreInv, TypeOK
  <2>2. Len(run.log) \in Nat /\ run.state \in EndStates
    BY <2>1 DEF RunType
  <2> QED  BY <2>1, <2>2, DeltasIs, OfCounts
<1>3. v.state = run.state /\ v.latest = Len(run.log) /\ v.content = Deltas(run.log)
  OBVIOUS
<1> HIDE DEF v
<1>4. u \in TabType /\ Modes(u) /\ Idle(u)
  BY <1>1, <1>2, <1>3, NoRunIs, SettleKeeps
<1>5. Knows(u, run)
  BY <1>1, <1>2, <1>3, NoRunIs, SettleKnows
<1>6. request[Stream] = Away /\ request[Poll] = Away
  BY <1>1, NoRunIs DEF Idle, ClientInv, TabInv, Channels
<1> HIDE DEF u
<1> QED  BY <1>1, <1>4, <1>5, <1>6 DEF Local, Idle

LEMMA ConnectIs ==
    ASSUME request \in [Requests -> ReqType], NEW q \in Requests, NEW kind \in {"poll", "stream"},
           Connect(q, kind, TheRun, 0)
    PROVE  /\ UNCHANGED vars /\ request[q] = Away
           /\ \A p \in Requests \ {q} : request'[p] = request[p]
           /\ request'[q].at = "look" /\ request'[q].kind = kind /\ request'[q].run = TheRun
           /\ request'[q].sent = <<>> /\ request'[q].view = Nothing
           /\ request'[q].slot = FALSE /\ request'[q].reply = "none"
<1>1. request'[q] = [Away EXCEPT !.at = "look", !.kind = kind, !.run = TheRun, !.cursor = 0]
  BY DEF Connect
<1>2. /\ request'[q].at = "look" /\ request'[q].kind = kind /\ request'[q].run = TheRun
      /\ request'[q].sent = <<>> /\ request'[q].view = Nothing
      /\ request'[q].slot = FALSE /\ request'[q].reply = "none"
  BY <1>1 DEF Away
<1>3. UNCHANGED vars /\ request[q] = Away /\ \A p \in Requests \ {q} : request'[p] = request[p]
  BY DEF Connect
<1> QED  BY <1>2, <1>3

LEMMA SendPollStep ==
    ASSUME ClientInv, BaseInv', SendPoll
    PROVE  ClientInv'
<1> DEFINE u == [tab EXCEPT !.wait = "asked"]
<1>1. /\ tab \in TabType /\ Modes(tab) /\ tab.wait = "due" /\ tab' = u
      /\ request \in [Requests -> ReqType] /\ Stream \in Requests /\ Poll \in Requests
      /\ Stream # Poll
  BY ReqIs, ClientAssumption DEF ClientInv, TabInv, SendPoll, BaseInv, StreamCore
<1>2. /\ UNCHANGED vars /\ request'[Stream] = request[Stream]
      /\ request'[Poll].at = "look" /\ request'[Poll].kind = "poll" /\ request'[Poll].run = TheRun
      /\ request'[Poll].view = Nothing /\ request'[Poll].slot = FALSE
      /\ request'[Poll].reply = "none"
  BY <1>1, ConnectIs DEF SendPoll
<1>3. u \in TabType
  BY <1>1 DEF TabType
<1>4. /\ SamePoll(tab, u) /\ u.source = tab.source /\ u.polling = tab.polling /\ u.wait = "asked"
      /\ u.ending = tab.ending /\ u.stoppable = tab.stoppable
  BY <1>1 DEF TabType, SamePoll, SameFacts
<1> HIDE DEF u
<1>5. ~u.source /\ ~tab.source /\ Modes(u) /\ Awaits(u)
  BY <1>1, <1>4 DEF Modes, SamePoll, SameFacts, Awaits
<1>6. TabInv'
  <2>1. PollReq(request'[Poll])
    BY <1>2 DEF PollReq
  <2>2. request'[Stream] = Away
    BY <1>2, <1>5 DEF ClientInv, TabInv, Channels
  <2> QED  BY <1>1, <1>3, <1>5, <2>1, <2>2 DEF TabInv, Channels, PollReq
<1>7. KnowInv'
  <2>1. resident /\ u.state # "absent" => TheRun \in Accepted /\ Knows(u, runs[TheRun])
    BY <1>4, FactsKept, KnownKept DEF ClientInv, SamePoll
  <2>2. UNCHANGED <<runs, resident>> /\ Accepted' = Accepted
    BY <1>2 DEF vars, Accepted
  <2> QED  BY <1>1, <2>1, <2>2 DEF KnowInv
<1>8. FollowInv'
  BY <1>1, <1>5 DEF FollowInv
<1>9. PollInv'
  BY <1>2, NothingTyped DEF PollInv
<1> QED  BY <1>6, <1>7, <1>8, <1>9 DEF ClientInv

LEMMA FollowBegins ==
    ASSUME NEW run \in RunType, run.state \in LiveStates, InOrder(run), NEW t \in TabType,
           t.state = run.state, t.cursor = 0, t.message = "none", ~t.end,
           ~t.sawRunning, ~t.truncated, t.steps = 0, ~t.sources, ~t.error,
           t.status = "none", t.buffer = 0
    PROVE  Shows(t, run, 0)
<1> DEFINE b == Body(run)
           l == Len(run.log)
<1>1. /\ b \in Nat /\ l \in Nat
      /\ run.state = "running" => b >= 1
      /\ run.state = "queued" => b = 0
      /\ run.state \notin EndStates /\ run.state \notin RetryStates
      /\ run.state \notin {"failed", "timeout"} /\ run.state # "completed"
  BY BodyIs DEF LiveStates, EndStates, RetryStates
<1>2. /\ t.steps = Cardinality(Of("agent.step", run.log, 0))
      /\ t.buffer = Cardinality(Of("message.delta", run.log, 0))
  BY OfCounts
<1>3. ~(0 > b) /\ ~(0 >= 1) /\ ~(0 >= 2) /\ (b >= 1 \/ b = 0)
  <2> HIDE DEF b
  <2> QED  BY <1>1
<1>4. t.state \in IF b >= 1 THEN LiveStates ELSE {"queued"}
  BY <1>1, <1>3 DEF LiveStates
<1>5. t.state \in IF t.status # "none" THEN {t.status}
                    ELSE IF b >= 1 THEN LiveStates ELSE {"queued"}
  BY <1>4
<1>6. /\ t.message = IF run.state \in RetryStates /\ 0 > b THEN "discarded"
                     ELSE IF run.state = "completed" /\ 0 > b + 1 THEN "completed" ELSE "none"
      /\ t.status = IF run.state \in EndStates /\ 0 > l - 2 THEN run.state ELSE "none"
      /\ t.buffer = IF t.message = "discarded" THEN 0
                    ELSE Cardinality(Of("message.delta", run.log, 0))
  BY <1>1, <1>2
<1> HIDE DEF b, l
<1>7. /\ t.sawRunning <=> 0 >= 1 /\ b >= 1
      /\ t.truncated <=> 0 >= 2 /\ b >= 2 /\ run.log[2].type = "context.truncated"
      /\ t.sources <=> run.state = "completed" /\ 0 > b
      /\ t.error <=> run.state \in {"failed", "timeout"} /\ 0 > b + 1
      /\ t.end <=> run.state \in EndStates /\ 0 = l
  BY <1>1, <1>3
<1> QED  BY <1>2, <1>5, <1>6, <1>7 DEF Shows, b, l

LEMMA FollowStep ==
    ASSUME ClientInv, BaseInv', StartRun, runs[TheRun].state \in LiveStates
    PROVE  ClientInv'
<1> DEFINE run == runs[TheRun]
           s == run.state
           n == Len(run.log)
           u == [NoRun EXCEPT !.state = s, !.latest = n, !.source = TRUE, !.stoppable = TRUE]
<1>1. /\ request \in [Requests -> ReqType] /\ Stream \in Requests /\ Poll \in Requests
      /\ Stream # Poll /\ run \in RunType
  BY ReqIs, ClientAssumption DEF ClientInv, BaseInv, StreamCore, CoreInv, TypeOK
<1>2. /\ tab = NoRun /\ resident /\ TheRun \in Accepted /\ tab' = u
      /\ Connect(Stream, "stream", TheRun, 0)
  BY DEF StartRun
<1>3. /\ UNCHANGED vars /\ request'[Poll] = request[Poll]
      /\ request'[Stream].at = "look" /\ request'[Stream].run = TheRun
      /\ request'[Stream].sent = <<>> /\ request'[Stream].view = Nothing
  BY <1>1, <1>2, ConnectIs
<1>4. s \in LiveStates /\ n \in Nat
  BY <1>1 DEF RunType
<1>5. InOrder(run)
  BY <1>2 DEF ClientInv, BaseInv, StreamCore, OrderInv, Ordered, Accepted
<1>6. NoRun \in TabType
  BY NoRunIs
<1>7. u \in TabType
  <2> HIDE DEF s, n
  <2> QED  BY <1>4, <1>6 DEF TabType
<1>8. /\ u.state = s /\ u.latest = n /\ u.source = TRUE /\ u.stoppable = TRUE
      /\ u.cursor = 0 /\ u.message = "none" /\ ~u.end /\ ~u.expired
      /\ ~u.sawRunning /\ ~u.truncated /\ u.steps = 0 /\ ~u.sources
      /\ ~u.error /\ u.status = "none" /\ u.buffer = 0 /\ ~u.reconciled
      /\ u.notice = "none" /\ u.wait = "none" /\ ~u.polling /\ ~u.afterEnd /\ ~u.ending
  <2> HIDE DEF s, n
  <2>1. /\ u.state = s /\ u.latest = n /\ u.source = TRUE /\ u.stoppable = TRUE
        /\ u.cursor = NoRun.cursor /\ u.message = NoRun.message /\ u.end = NoRun.end
        /\ u.expired = NoRun.expired /\ u.sawRunning = NoRun.sawRunning
        /\ u.truncated = NoRun.truncated /\ u.steps = NoRun.steps /\ u.sources = NoRun.sources
        /\ u.error = NoRun.error /\ u.status = NoRun.status /\ u.buffer = NoRun.buffer
        /\ u.reconciled = NoRun.reconciled /\ u.notice = NoRun.notice /\ u.wait = NoRun.wait
        /\ u.polling = NoRun.polling /\ u.afterEnd = NoRun.afterEnd /\ u.ending = NoRun.ending
    BY <1>6 DEF TabType
  <2> HIDE DEF u
  <2> QED  BY <2>1, NoRunIs
<1>9. Nothing.state = "absent" /\ Nothing.events = <<>>
  BY NothingTyped
<1> HIDE DEF u
<1>10. s # "absent" /\ Modes(u) /\ ~Awaits(u)
  BY <1>4, <1>8 DEF Modes, Awaits, LiveStates
<1>11. Shows(u, run, u.cursor)
  BY <1>1, <1>4, <1>5, <1>7, <1>8, FollowBegins
<1>12. Knows(u, run)
  <2>1. u.cursor <= Len(run.log) /\ u.latest <= Len(run.log)
    BY <1>4, <1>8
  <2> HIDE DEF run
  <2> QED  BY <1>1, <1>5, <1>7, <1>8, <1>10, <1>11, <2>1, ShowsKnows DEF s
<1>13. UNCHANGED <<runs, resident, tombstone>> /\ Accepted' = Accepted
  BY <1>3 DEF vars, Accepted
<1>14. TabInv'
  <2>1. request'[Poll] = Away
    BY <1>2, <1>3, NoRunIs DEF Idle, ClientInv, TabInv, Channels
  <2> QED  BY <1>2, <1>3, <1>7, <1>8, <1>10, <2>1 DEF TabInv, Channels, PollReq
<1>15. FollowInv'
  <2>1. PICK old : old = run
    OBVIOUS
  <2>2. Past(old)'
    BY <1>1, <1>2, <1>5, <1>10, <1>13, <2>1 DEF Past
  <2>3. AllTold(old)'
    BY <1>3, <1>9 DEF AllTold
  <2>4. tab'.cursor <= Len(old.log) /\ ~tab'.expired /\ Shows(tab', old, tab'.cursor)
    BY <1>2, <1>4, <1>8, <1>11, <2>1
  <2>5. Taken(tab, old)'
    BY <2>4 DEF Taken
  <2> QED  BY <2>2, <2>3, <2>5 DEF FollowInv
<1>16. KnowInv'
  BY <1>2, <1>12, <1>13 DEF KnowInv
<1>17. PollInv'
  BY <1>2, <1>10 DEF PollInv
<1> QED  BY <1>14, <1>15, <1>16, <1>17 DEF ClientInv

(* What a request has read or written when it is served: what it had, what it
   just read, or the pair a Purge left.                                       *)
In(e, s) == \E i \in 1..Len(s) : s[i] = e
Holds(req, e) == In(e, req.sent) \/ In(e, req.view.events)

LEMMA InParts ==
    ASSUME NEW S, NEW s \in Seq(S), s # <<>>
    PROVE  /\ In(Head(s), s)
           /\ \A e : In(e, Tail(s)) => In(e, s)
<1>1. Len(s) \in Nat /\ Len(s) >= 1 /\ Head(s) = s[1]
  BY EmptySeq, HeadTailProperties
<1>2. Len(Tail(s)) = Len(s) - 1 /\ \A i \in 1..Len(Tail(s)) : Tail(s)[i] = s[i + 1]
  BY HeadTailProperties
<1>3. ASSUME NEW i \in 1..Len(Tail(s)) PROVE i + 1 \in 1..Len(s)
  BY <1>1, <1>2
<1> QED  BY <1>1, <1>2, <1>3 DEF In

LEMMA InAppend ==
    ASSUME NEW S, NEW s \in Seq(S), NEW x \in S, NEW e, In(e, Append(s, x))
    PROVE  In(e, s) \/ e = x
<1>1. /\ Len(s) \in Nat /\ Len(Append(s, x)) = Len(s) + 1
      /\ \A i \in 1..Len(s) : Append(s, x)[i] = s[i]
      /\ Append(s, x)[Len(s) + 1] = x
  BY AppendProperties
<1>2. PICK i \in 1..Len(Append(s, x)) : Append(s, x)[i] = e
  BY DEF In
<1>3. i \in 1..Len(s) \/ i = Len(s) + 1
  BY <1>1
<1> QED  BY <1>1, <1>2, <1>3 DEF In

LEMMA InPair ==
    ASSUME NEW pair, NEW c, NEW e, In(e, PairAfter(pair, c))
    PROVE  e \in {pair[1], pair[2]}
<1> DEFINE S == {pair[1], pair[2]}
           s == After(pair[1], c)
           t == After(pair[2], c)
<1>1. s \in Seq(S) /\ t \in Seq(S)
  <2>1. ASSUME NEW x \in S PROVE After(x, c) \in Seq(S)
    <3> HIDE DEF S
    <3>1. <<>> \in Seq(S) /\ <<x>> \in Seq(S)
      OBVIOUS
    <3> QED  BY <3>1 DEF After
  <2> QED  BY <2>1
<1>2. PICK i \in 1..Len(s \o t) : (s \o t)[i] = e
  BY DEF In, PairAfter, s, t
<1> HIDE DEF S, s, t
<1>3. Len(s \o t) = Len(s) + Len(t) /\ Len(s) \in Nat /\ Len(t) \in Nat
      /\ (s \o t)[i] = IF i <= Len(s) THEN s[i] ELSE t[i - Len(s)]
  BY <1>1, <1>2, ConcatProperties
<1>4. CASE i <= Len(s)
  <2>1. i \in 1..Len(s)
    BY <1>2, <1>3, <1>4
  <2> QED  BY <1>1, <1>2, <1>3, <1>4, <2>1 DEF S
<1>5. CASE i > Len(s)
  <2>1. i - Len(s) \in 1..Len(t)
    BY <1>2, <1>3, <1>5
  <2>2. t[i - Len(s)] \in S
    BY <1>1, <2>1
  <2> QED  BY <1>2, <1>3, <1>5, <2>2 DEF S
<1> QED  BY <1>2, <1>3, <1>4, <1>5

LEMMA Heard ==
    ASSUME StreamTypeOK, NEW q \in Requests, Serves(q), NEW e, Holds(request'[q], e)
    PROVE  \/ Reads(q)
           \/ Holds(request[q], e)
           \/ /\ Tells(q) /\ tombstone # None /\ tombstone.run = request[q].run
              /\ e \in {tombstone.tail[1], tombstone.tail[2]}
<1>1. /\ request[q].sent \in Seq(EventType) /\ request[q].view.events \in Seq(EventType)
  BY ReqIs DEF ReqType, View
<1>2. ASSUME request'[q].sent = request[q].sent, request'[q].view \in {request[q].view, Nothing}
      PROVE  Holds(request[q], e)
  <2>1. Nothing.events = <<>>
    BY NothingTyped
  <2> QED  BY <1>2, <2>1 DEF Holds, In
<1>3. CASE Loses(q) \/ Enforces(q) \/ Refuses(q) \/ Opens(q) \/ Goes(q) \/ Frees(q)
  <2>1. request'[q].sent = request[q].sent /\ request'[q].view \in {request[q].view, Nothing}
    BY <1>3 DEF Loses, Enforces, Refuses, Opens, Goes, Frees, Sets
  <2> QED  BY <1>2, <2>1
<1>4. CASE Sends(q)
  <2> DEFINE events == request[q].view.events
  <2>1. /\ events # <<>> /\ request'[q].view.events = Tail(events)
        /\ request'[q].sent = Append(request[q].sent, Head(events))
    BY <1>4 DEF Sends
  <2>2. Head(events) \in EventType
    BY <1>1, <2>1, HeadTailProperties
  <2> HIDE DEF events
  <2>3. CASE In(e, request'[q].view.events)
    BY <1>1, <2>1, <2>3, InParts DEF Holds, events
  <2>4. CASE In(e, request'[q].sent)
    <3>1. In(e, request[q].sent) \/ e = Head(events)
      BY <1>1, <2>1, <2>2, <2>4, InAppend
    <3>2. In(Head(events), events)
      BY <1>1, <2>1, InParts DEF events
    <3> QED  BY <3>1, <3>2 DEF Holds, events
  <2> QED  BY <2>3, <2>4 DEF Holds
<1>5. CASE Tells(q)
  <2>1. /\ request'[q].sent = request[q].sent
        /\ request'[q].view.events = IF tombstone # None /\ tombstone.run = request[q].run
                                     THEN PairAfter(tombstone.tail, request[q].cursor) ELSE <<>>
    BY <1>5 DEF Tells, Sets
  <2>2. CASE In(e, request'[q].sent)
    BY <2>1, <2>2 DEF Holds
  <2>3. CASE In(e, request'[q].view.events)
    <3>1. tombstone # None /\ tombstone.run = request[q].run
      BY <2>1, <2>3 DEF In
    <3> QED  BY <1>5, <2>1, <2>3, <3>1, InPair
  <2> QED  BY <2>2, <2>3 DEF Holds
<1> QED  BY <1>3, <1>4, <1>5 DEF Serves

(* Only a request that is there is served, and of a poll little is left to be
   answered wrongly.                                                          *)
LEMMA ServesTurns ==
    ASSUME NEW q \in Requests, Serves(q)
    PROVE  Turns(q) /\ request[q].at # "away" /\ request'[q].at # "away"
BY DEF Serves, Reads, Loses, Enforces, Refuses, Opens, Goes, Sends, Tells, Frees, Sets, AfterRead

LEMMA ServesPoll ==
    ASSUME BaseInv, NEW q \in Requests, PollReq(request[q]), Serves(q)
    PROVE  /\ PollReq(request'[q])
           /\ \/ request'[q].view \in {request[q].view, Nothing}
              \/ resident /\ TheRun \in Accepted /\ UNCHANGED vars /\ request'[q].view = Slice(q)
<1>1. /\ request'[q].kind = request[q].kind /\ request'[q].run = request[q].run
  BY ServesTurns DEF Turns
<1>2. ~request[q].slot /\ request[q].kind = "poll" /\ request[q].run = TheRun
  BY DEF PollReq
<1>3. CASE Reads(q)
  <2>1. /\ resident /\ UNCHANGED vars /\ request'[q].view = Slice(q)
        /\ request'[q].slot = request[q].slot /\ request'[q].at \in {"enforce", "decide"}
        /\ request[q].at # "away"
    BY <1>2, <1>3 DEF Reads, Sets, AfterRead
  <2>2. TheRun \in Accepted
    BY <1>2, <2>1 DEF BaseInv, Framed
  <2>3. Slice(q).state # "absent"
    BY <1>2, <2>2 DEF Slice, Accepted
  <2> QED  BY <1>1, <1>2, <2>1, <2>2, <2>3 DEF PollReq
<1>4. CASE Loses(q)
  <2>1. /\ request'[q].view = Nothing /\ request'[q].slot = request[q].slot
        /\ request'[q].at = "closed" /\ request'[q].reply # "ok"
    BY <1>2, <1>4 DEF Loses, Sets
  <2> QED  BY <1>1, <1>2, <2>1 DEF PollReq
<1>5. CASE Enforces(q)
  BY <1>1, <1>2, <1>5 DEF Enforces, Sets, PollReq
<1>6. CASE Refuses(q)
  BY <1>1, <1>2, <1>6 DEF Refuses, Sets, PollReq
<1>7. ~Opens(q) /\ ~Goes(q) /\ ~Sends(q) /\ ~Tells(q) /\ ~Frees(q)
  BY <1>2 DEF PollReq, Opens, Goes, Sends, Tells, Frees
<1> QED  BY <1>3, <1>4, <1>5, <1>6, <1>7 DEF Serves

(* A step of the server, or of the store it reads.                           *)
Server ==
    /\ UNCHANGED tab /\ BaseInv' /\ [Wide]_vars
    /\ UNCHANGED request \/ \E q \in Requests : Serves(q)

LEMMA ServedOrNot ==
    ASSUME BaseInv, Server, NEW p \in Requests
    PROVE  request'[p] = request[p] \/ Serves(p)
<1>1. CASE UNCHANGED request
  BY <1>1
<1>2. ASSUME NEW q \in Requests, Serves(q) PROVE request'[p] = request[p] \/ Serves(p)
  <2>1. request' = [request EXCEPT ![q] = request'[q]] /\ request \in [Requests -> ReqType]
    BY <1>2, ServesTurns, ReqIs DEF Turns, BaseInv, StreamCore
  <2> QED  BY <1>2, <2>1
<1> QED  BY <1>1, <1>2 DEF Server

LEMMA ServerChannels ==
    ASSUME ClientInv, Server
    PROVE  TabInv'
<1>1. /\ Stream \in Requests /\ Poll \in Requests /\ Away.at = "away"
  BY ClientAssumption, NothingTyped
<1>2. ASSUME NEW p \in Requests, request[p] = Away PROVE request'[p] = Away
  BY <1>1, <1>2, ServedOrNot, ServesTurns DEF ClientInv
<1>3. IF tab.source THEN request'[Stream].at # "away" /\ request'[Stream].run = TheRun
      ELSE request'[Stream] = Away
  <2>1. CASE tab.source
    <3>1. request[Stream].at # "away" /\ request[Stream].run = TheRun
      BY <2>1 DEF ClientInv, TabInv, Channels
    <3>2. request'[Stream] = request[Stream] \/ Serves(Stream)
      BY <1>1, ServedOrNot DEF ClientInv
    <3> QED  BY <1>1, <2>1, <3>1, <3>2, ServesTurns DEF Turns
  <2>2. CASE ~tab.source
    BY <1>1, <1>2, <2>2 DEF ClientInv, TabInv, Channels
  <2> QED  BY <2>1, <2>2
<1>4. IF Awaits(tab) THEN PollReq(request'[Poll]) ELSE request'[Poll] = Away
  <2>1. CASE Awaits(tab)
    <3>1. PollReq(request[Poll])
      BY <2>1 DEF ClientInv, TabInv, Channels
    <3>2. request'[Poll] = request[Poll] \/ Serves(Poll)
      BY <1>1, ServedOrNot DEF ClientInv
    <3> QED  BY <1>1, <2>1, <3>1, <3>2, ServesPoll DEF ClientInv
  <2>2. CASE ~Awaits(tab)
    BY <1>1, <1>2, <2>2 DEF ClientInv, TabInv, Channels
  <2> QED  BY <2>1, <2>2
<1>5. tab' = tab /\ tab \in TabType /\ Modes(tab)
  BY DEF Server, ClientInv, TabInv
<1>6. Channels'
  BY <1>3, <1>4, <1>5 DEF Channels, PollReq
<1> QED  BY <1>5, <1>6 DEF TabInv

LEMMA ServerMoves ==
    ASSUME ClientInv, Server, resident', TheRun \in Accepted
    PROVE  /\ resident /\ TheRun \in Accepted' /\ runs[TheRun] \in RunType
           /\ runs[TheRun].state # "absent" /\ Moved(runs[TheRun], runs'[TheRun])
<1>1. /\ CoreInv /\ OrderInv /\ CoreInv' /\ OrderInv' /\ [Wide]_vars
  BY DEF ClientInv, BaseInv, StreamCore, Server
<1>2. TheRun \in Accepted' /\ Moved(runs[TheRun], runs'[TheRun])
  BY <1>1, RunMoves
<1>3. resident
  BY <1>1, StoreStays
<1>4. runs[TheRun] \in RunType /\ runs[TheRun].state # "absent"
  BY <1>1 DEF CoreInv, TypeOK, Accepted
<1> QED  BY <1>2, <1>3, <1>4

LEMMA ServerKnows ==
    ASSUME ClientInv, Server
    PROVE  KnowInv'
<1> SUFFICES ASSUME resident', tab.state # "absent"
             PROVE  TheRun \in Accepted' /\ Knows(tab, runs'[TheRun])
  BY DEF KnowInv, Server
<1>1. resident
  BY StoreStays DEF ClientInv, BaseInv, StreamCore, Server
<1>2. TheRun \in Accepted /\ Knows(tab, runs[TheRun]) /\ tab \in TabType
  BY <1>1 DEF ClientInv, KnowInv, TabInv
<1>3. /\ TheRun \in Accepted' /\ runs[TheRun] \in RunType
      /\ runs[TheRun].state # "absent" /\ Moved(runs[TheRun], runs'[TheRun])
  BY <1>2, ServerMoves
<1>4. Knows(tab, runs'[TheRun])
  BY <1>2, <1>3, KnowsMove
<1> QED  BY <1>3, <1>4

LEMMA ServerPolls ==
    ASSUME ClientInv, Server
    PROVE  PollInv'
<1> DEFINE v == request[Poll].view
           new == request'[Poll].view
<1> SUFFICES ASSUME Awaits(tab), new.state # "absent"
             PROVE  Agrees(tab, new) /\ (resident' => Pictures(new, runs'[TheRun]))
  BY DEF PollInv, Server
<1>1. /\ Poll \in Requests /\ tab \in TabType /\ Modes(tab) /\ PollReq(request[Poll])
      /\ Nothing.state = "absent" /\ tab.state # "absent" /\ v \in View
  BY ClientAssumption, NothingTyped, ModesFacts, ReqIs
     DEF ClientInv, TabInv, Channels, BaseInv, StreamCore, ReqType
<1>2. request'[Poll] = request[Poll] \/ Serves(Poll)
  BY <1>1, ServedOrNot DEF ClientInv
<1>3. \/ new = v
      \/ resident /\ TheRun \in Accepted /\ UNCHANGED vars /\ new = Slice(Poll)
  BY <1>1, <1>2, ServesPoll DEF ClientInv
<1>4. ASSUME new = v PROVE Agrees(tab, new) /\ (resident' => Pictures(new, runs'[TheRun]))
  <2>1. Agrees(tab, v) /\ (resident => Pictures(v, runs[TheRun])) /\ v.state # "absent"
    BY <1>4 DEF ClientInv, PollInv
  <2>2. ASSUME resident' PROVE Pictures(v, runs'[TheRun])
    <3>1. resident
      BY <2>2, StoreStays DEF ClientInv, BaseInv, StreamCore, Server
    <3>2. TheRun \in Accepted
      BY <1>1, <3>1 DEF ClientInv, KnowInv
    <3>3. /\ runs[TheRun] \in RunType
          /\ runs[TheRun].state # "absent" /\ Moved(runs[TheRun], runs'[TheRun])
      BY <2>2, <3>2, ServerMoves
    <3> HIDE DEF v
    <3> QED  BY <1>1, <2>1, <3>1, <3>3, PicturesMove
  <2> QED  BY <1>4, <2>1, <2>2
<1>5. ASSUME resident, TheRun \in Accepted, UNCHANGED vars, new = Slice(Poll)
      PROVE  Agrees(tab, new) /\ (resident' => Pictures(new, runs'[TheRun]))
  <2>1. request[Poll].run = TheRun /\ TheRun \in Runs
    BY <1>1, <1>5 DEF PollReq, Accepted
  <2>2. /\ runs[TheRun] \in RunType /\ runs[TheRun].state # "absent" /\ Knows(tab, runs[TheRun])
        /\ UNCHANGED runs
    BY <1>1, <1>5 DEF ClientInv, KnowInv, BaseInv, StreamCore, CoreInv, TypeOK, Accepted, vars
  <2>3. Slice(Poll) \in View
    BY <1>1, <2>1, SliceTyped DEF ClientInv, BaseInv, StreamCore, CoreInv
  <2>4. /\ Slice(Poll).state = runs[TheRun].state /\ Slice(Poll).latest = Len(runs[TheRun].log)
        /\ Slice(Poll).content = Deltas(runs[TheRun].log)
    BY <2>1 DEF Slice
  <2>5. Agrees(tab, Slice(Poll)) /\ Pictures(Slice(Poll), runs[TheRun])
    BY <1>1, <2>2, <2>3, <2>4, KnowsAgrees
  <2> QED  BY <1>5, <2>2, <2>5
<1> QED  BY <1>3, <1>4, <1>5

(* What is written while there is a log is part of it.                       *)
LEMMA LogTold == BaseInv /\ TabInv /\ resident /\ tab.source => AllTold(runs[TheRun])
<1> SUFFICES ASSUME BaseInv, TabInv, resident, tab.source PROVE AllTold(runs[TheRun])
  OBVIOUS
<1> DEFINE req == request[Stream]
           run == runs[TheRun]
<1>1. /\ Stream \in Requests /\ req \in ReqType /\ req.at # "away" /\ req.run = TheRun
  BY ClientAssumption, ReqIs DEF BaseInv, StreamCore, TabInv, Channels
<1>2. /\ TheRun \in Accepted
      /\ req.sent # <<>> => /\ Len(req.sent) <= req.cursor
                            /\ Stretch(req.sent, run.log, req.cursor - Len(req.sent))
      /\ req.view.events # <<>> => Stretch(req.view.events, run.log, req.cursor)
  BY <1>1 DEF BaseInv, Framed
<1>3. /\ run \in RunType /\ run.state # "absent" /\ InOrder(run) /\ Len(run.log) \in Nat
  <2>1. run \in RunType /\ run.state # "absent" /\ InOrder(run)
    BY <1>2 DEF BaseInv, StreamCore, CoreInv, TypeOK, Accepted, OrderInv, Ordered
  <2> QED  BY <2>1 DEF RunType
<1>4. /\ req.cursor \in Nat /\ Len(req.sent) \in Nat /\ Len(req.view.events) \in Nat
  BY <1>1 DEF ReqType, View
<1>5. ASSUME NEW events, Len(events) \in Nat, NEW from \in Nat, Stretch(events, run.log, from),
             NEW i \in 1..Len(events)
      PROVE  TellsOf(events[i], run)
  <2>1. from + i \in 1..Len(run.log) /\ events[i] = run.log[from + i]
    <3> HIDE DEF run
    <3> QED  BY <1>3, <1>5 DEF Stretch
  <2>2. run.log[from + i].seq = from + i
    BY <1>3, <2>1, FrameKinds
  <2> QED  BY <2>1, <2>2 DEF TellsOf
<1>6. ASSUME NEW i \in 1..Len(req.sent) PROVE TellsOf(req.sent[i], run)
  <2>1. req.sent # <<>>
    BY <1>4, <1>6
  <2>2. req.cursor - Len(req.sent) \in Nat
    BY <1>2, <1>4, <2>1
  <2> QED  BY <1>2, <1>4, <1>5, <1>6, <2>1, <2>2
<1>7. ASSUME NEW i \in 1..Len(req.view.events) PROVE TellsOf(req.view.events[i], run)
  <2>1. req.view.events # <<>>
    BY <1>4, <1>7
  <2> QED  BY <1>2, <1>4, <1>5, <1>7, <2>1
<1> QED  BY <1>6, <1>7 DEF AllTold

LEMMA HoldsTells ==
    ASSUME NEW run
    PROVE  AllTold(run) <=> \A e : Holds(request[Stream], e) => TellsOf(e, run)
BY DEF AllTold, Holds, In

(* While the Conversation is there, the tab follows the Run as it is now.    *)
LEMMA ServerFollowsHere ==
    ASSUME ClientInv, Server, TabInv', resident', tab.source
    PROVE  FollowInv'
<1>1. PICK run : Past(run) /\ AllTold(run) /\ Taken(tab, run)
  BY DEF ClientInv, FollowInv
<1>2. resident /\ run = runs[TheRun] /\ TheRun \in Accepted
  <2>1. resident
    BY StoreStays DEF ClientInv, BaseInv, StreamCore, Server
  <2>2. run = runs[TheRun] /\ run.state # "absent" /\ TheRun \in Runs
    BY <1>1, <2>1, ClientAssumption DEF Past
  <2> QED  BY <2>1, <2>2 DEF Accepted
<1>3. PICK new : new = runs'[TheRun]
  OBVIOUS
<1>4. Moved(run, new) /\ run \in RunType /\ run.state # "absent" /\ InOrder(run)
  BY <1>1, <1>2, <1>3, ServerMoves DEF Past
<1>5. Past(new)'
  BY <1>3, <1>4 DEF Past, Moved
<1>6. AllTold(new)'
  <2>1. (BaseInv /\ TabInv /\ resident /\ tab.source)'
    BY DEF Server
  <2>2. AllTold(runs[TheRun])'
    BY <2>1, LogTold, PTL
  <2> QED  BY <1>3, <2>2 DEF AllTold, TellsOf
<1>7. /\ tab \in TabType /\ tab.cursor \in Nat /\ tab.cursor <= Len(run.log)
      /\ ~tab.expired /\ Shows(tab, run, tab.cursor)
  BY <1>1, <1>2 DEF Taken, ClientInv, TabInv, TabType
<1>8. Shows(tab, new, tab.cursor) /\ tab.cursor <= Len(new.log)
  <2>1. Len(run.log) \in Nat /\ Len(new.log) \in Nat /\ Len(run.log) <= Len(new.log)
    BY <1>4 DEF Moved, RunType
  <2> QED  BY <1>4, <1>7, <2>1, ShowsMoves
<1>9. tab' = tab
  BY DEF Server
<1>10. Taken(tab, new)'
  BY <1>7, <1>8, <1>9 DEF Taken
<1> QED  BY <1>5, <1>6, <1>10 DEF FollowInv

(* A Purge, and everything after it, leaves the Run as it was.               *)
LEMMA ServerFollowsGone ==
    ASSUME ClientInv, Server, ~resident', tab.source
    PROVE  FollowInv'
<1>1. PICK run : Past(run) /\ AllTold(run) /\ Taken(tab, run)
  BY DEF ClientInv, FollowInv
<1>2. /\ CoreInv /\ [Wide]_vars /\ StreamTypeOK /\ Stream \in Requests
      /\ request[Stream].run = TheRun
  BY ClientAssumption
     DEF ClientInv, BaseInv, StreamCore, Server, TabInv, Channels
<1>3. ASSUME tombstone' # None, tombstone'.run = TheRun
      PROVE  run.state \in LiveStates /\ tombstone'.tail = ExpiryTail(NextSeq(run))
  <2>1. CASE resident
    <3>1. Purges /\ run = runs[TheRun]
      BY <1>1, <1>2, <2>1, StoreStays DEF Past
    <3>2. /\ activeRun = TheRun /\ activeRun # None
          /\ tombstone' = [run |-> activeRun, tail |-> ExpiryTail(NextSeq(runs[activeRun]))]
      BY <1>3, <3>1 DEF Purges
    <3>3. runs[TheRun].state \in LiveStates
      BY <1>1, <1>2, <3>1, <3>2, ClientAssumption DEF CoreInv, LiveRunIsActive, Accepted, Past
    <3>4. tombstone'.tail = ExpiryTail(NextSeq(runs[TheRun]))
      BY <3>2
    <3> QED  BY <3>1, <3>3, <3>4
  <2>2. CASE ~resident
    <3>1. tombstone' = tombstone
      BY <1>2, <1>3, <2>2, StoreStays
    <3> QED  BY <1>1, <1>3, <2>2, <3>1 DEF Past
  <2> QED  BY <2>1, <2>2
<1>4. Past(run)'
  BY <1>1, <1>3 DEF Past
<1>5. ASSUME NEW e, Holds(request'[Stream], e)
      PROVE  \/ e.seq \in 1..Len(run.log) /\ e = run.log[e.seq]
             \/ /\ run.state \in LiveStates
                /\ e \in {ExpiryTail(NextSeq(run))[1], ExpiryTail(NextSeq(run))[2]}
  <2>1. CASE Holds(request[Stream], e)
    BY <1>1, <2>1, HoldsTells DEF TellsOf
  <2>2. CASE ~Holds(request[Stream], e)
    <3>1. Serves(Stream)
      BY <1>2, <1>5, <2>2, ServedOrNot DEF ClientInv
    <3>2. ~Reads(Stream)
      BY DEF Reads, vars
    <3>3. /\ Tells(Stream) /\ tombstone # None /\ tombstone.run = TheRun
          /\ e \in {tombstone.tail[1], tombstone.tail[2]}
      BY <1>2, <1>5, <2>2, <3>1, <3>2, Heard
    <3>4. tombstone' = tombstone
      BY <3>3 DEF Tells, vars
    <3> QED  BY <1>3, <3>3, <3>4
  <2> QED  BY <2>1, <2>2
<1>6. AllTold(run)'
  <2>1. \A e : Holds(request'[Stream], e) => TellsOf(e, run)'
    BY <1>5 DEF TellsOf
  <2> QED  BY <2>1 DEF AllTold, Holds, In
<1>7. tab' = tab
  BY DEF Server
<1>8. Taken(tab, run)'
  BY <1>1, <1>7 DEF Taken
<1> QED  BY <1>4, <1>6, <1>8 DEF FollowInv

LEMMA ServerStep ==
    ASSUME ClientInv, Server
    PROVE  ClientInv'
<1>1. TabInv' /\ KnowInv' /\ PollInv' /\ BaseInv'
  BY ServerChannels, ServerKnows, ServerPolls DEF Server
<1>2. CASE ~tab.source
  BY <1>1, <1>2 DEF ClientInv, FollowInv, Server
<1>3. CASE tab.source
  BY <1>1, <1>3, ServerFollowsHere, ServerFollowsGone DEF ClientInv
<1> QED  BY <1>2, <1>3

-----------------------------------------------------------------------------
(* All steps together: the invariant holds at first, and every step keeps it. *)
LEMMA ClientBegins ==
    ASSUME ClientInit
    PROVE  ClientInv
<1>1. StreamInit /\ tab = NoRun
  BY DEF ClientInit
<1>2. BaseInv
  BY <1>1, StreamBegins DEF BaseInv, StreamCore
<1>3. request[Stream] = Away /\ request[Poll] = Away
  BY <1>1, ClientAssumption DEF StreamInit
<1>4. TabInv
  <2>1. tab \in TabType /\ Modes(tab) /\ Idle(tab)
    BY <1>1, NoRunIs
  <2> QED  BY <1>3, <2>1 DEF TabInv, Channels, Idle
<1>5. FollowInv /\ KnowInv /\ PollInv
  BY <1>1, NoRunIs DEF FollowInv, KnowInv, PollInv, Idle
<1> QED  BY <1>2, <1>4, <1>5 DEF ClientInv

LEMMA TabStep ==
    ASSUME ClientInv, BaseInv', Progress \/ Disturbance
    PROVE  ClientInv'
<1>1. CASE SendPoll
  BY <1>1, SendPollStep
<1>2. CASE StartRun
  BY <1>2, FollowStep, ReplayStep, LocalStep
<1>3. CASE ~SendPoll /\ ~StartRun
  <2>1. Local
    BY <1>3, ReceiveStep, SourceStep, PollAfterEndStep, StopStep, ShowPageStep, PollFailsStep,
       PollHeadersStep, PollBodyStep, HidePageStep
       DEF Progress, Disturbance
  <2> QED  BY <2>1, LocalStep
<1> QED  BY <1>1, <1>2, <1>3

LEMMA ClientStep ==
    ASSUME ClientInv, [ClientNext]_clientVars
    PROVE  ClientInv'
<1>1. BaseInv' /\ [Wide]_vars
  BY BaseStep DEF ClientInv
<1>2. CASE Progress \/ Disturbance
  BY <1>1, <1>2, TabStep
<1>3. CASE ServeStep
  <2>1. PICK q \in Requests : Serve(q)
    BY <1>3 DEF ServeStep
  <2>2. Serves(q)
    BY <2>1, ServeShape DEF ClientInv, BaseInv, StreamCore, CoreInv
  <2>3. Server
    BY <1>1, <1>3, <2>2 DEF ServeStep, Server
  <2> QED  BY <2>3, ServerStep
<1>4. CASE StoreStep /\ UNCHANGED <<tab, upsets>>
  <2>1. Server
    BY <1>1, <1>4 DEF StoreStep, Server
  <2> QED  BY <2>1, ServerStep
<1>5. CASE UNCHANGED clientVars
  <2>1. Server
    BY <1>1, <1>5 DEF clientVars, Server
  <2> QED  BY <2>1, ServerStep
<1> QED  BY <1>2, <1>3, <1>4, <1>5 DEF ClientNext

LEMMA ClientInvariant == ClientSpec => []ClientInv
<1>1. ClientInit => ClientInv
  BY ClientBegins
<1>2. ClientInv /\ [ClientNext]_clientVars => ClientInv'
  BY ClientStep
<1> QED  BY <1>1, <1>2, PTL DEF ClientSpec

(* What the tab shows as the Run's end is how the Run ended, and a settled
   answer is the committed one (app.js, reconcileProjection and applyEvent).  *)
THEOREM CommittedOutcomeShown == ClientSpec => []ShowsCommittedOutcome
<1>1. ClientInv => ShowsCommittedOutcome
  <2> SUFFICES ASSUME ClientInv, resident, tab.state \in EndStates
               PROVE  /\ runs[TheRun].state = tab.state
                      /\ tab.state = "completed" /\ tab.reconciled /\ tab.notice = "none" =>
                             tab.buffer = Deltas(runs[TheRun].log)
    BY DEF ShowsCommittedOutcome
  <2>1. tab.state # "absent"
    BY DEF EndStates
  <2>2. Knows(tab, runs[TheRun])
    BY <2>1 DEF ClientInv, KnowInv
  <2>3. runs[TheRun].state \in Follows(tab.state) /\ Follows(tab.state) = {tab.state}
    BY <2>2, FollowsIs DEF Knows
  <2> QED  BY <2>2, <2>3 DEF Knows
<1> QED  BY <1>1, ClientInvariant, PTL

(* No frame in sequence is ever refused: what the server may write next is what
   the tab accepts, wherever and however the Run ended (app.js, receiveEvent).  *)
THEOREM FramesAreAccepted == ClientSpec => []NoFrameRefused
<1>1. ClientInv => NoFrameRefused
  <2> SUFFICES ASSUME ClientInv, tab.source, tab.taken < Len(request[Stream].sent),
                      NextFrame.seq = tab.cursor + 1
               PROVE  Accepts(tab, NextFrame)
    BY DEF NoFrameRefused
  <2>1. PICK run : Past(run) /\ AllTold(run) /\ Taken(tab, run)
    BY DEF ClientInv, FollowInv
  <2>2. tab.taken + 1 \in 1..Len(request[Stream].sent) /\ tab \in TabType
    <3>1. tab \in TabType /\ Stream \in Requests /\ StreamTypeOK
      BY ClientAssumption DEF ClientInv, TabInv, BaseInv, StreamCore
    <3>2. tab.taken \in Nat /\ Len(request[Stream].sent) \in Nat
      BY <3>1, ReqIs DEF TabType, ReqType
    <3> QED  BY <3>1, <3>2
  <2>3. TellsOf(NextFrame, run)
    BY <2>1, <2>2 DEF AllTold, NextFrame
  <2> HIDE DEF NextFrame
  <2> QED  BY <2>1, <2>2, <2>3, FrameTaken
<1> QED  BY <1>1, ClientInvariant, PTL

(* A projection contradicts what was streamed in one case only: the stream was
   cut within an answer that then completed (app.js, reconcileProjection).    *)
THEOREM ContradictionIsACutAnswer == ClientSpec => []PollContradictsOnlyCutAnswers
<1>1. ClientInv => PollContradictsOnlyCutAnswers
  <2> SUFFICES ASSUME ClientInv, tab.wait = "reading", Answered("ok"),
                      ~Reconciles(tab, request[Poll].view)
               PROVE  /\ request[Poll].view.state = "completed"
                      /\ tab.buffer \in 1..request[Poll].view.content - 1
                      /\ tab.message = "none"
    BY DEF PollContradictsOnlyCutAnswers
  <2>1. Awaits(tab) /\ PollReq(request[Poll])
    BY DEF Awaits, ClientInv, TabInv, Channels
  <2>2. request[Poll].view.state # "absent"
    BY <2>1 DEF PollReq, Answered
  <2>3. Agrees(tab, request[Poll].view)
    BY <2>1, <2>2 DEF ClientInv, PollInv
  <2> QED  BY <2>3 DEF Agrees
<1> QED  BY <1>1, ClientInvariant, PTL

=============================================================================
