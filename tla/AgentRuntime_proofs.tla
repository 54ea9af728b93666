------------------------ MODULE AgentRuntime_proofs -------------------------
(***************************************************************************)
(* AgentRuntime for every set of Runs and probes and any number of         *)
(* children: one child at a time, none after aclose(), and none that works *)
(* on a Run nobody waits for unless told, or about to be told, to stop.    *)
(***************************************************************************)
EXTENDS AgentRuntime, SequenceTheorems, TLAPS

Places == {"idle", "reaping", "spawning", "waiting", "draining", "over"}
Events == {"step", "exit"} \cup Terminal
CallType == [at : Places, reaps : Children \cup {0}, to : Children \cup {0},
             queue : Seq(Events), abortSent : BOOLEAN,
             stop : {"no", "early", "told"}, end : {"none", "ok", "failed", "cancelled"}]
Works == [Runs -> {"none", "busy", "stopping"}]

(* Each pipe carries only what its writer writes, so that whatever reads a
   frame finds the call it names.                                            *)
Asks == [type : {"run", "abort"}, id : Runs] \cup [type : {"probe"}, id : Probes]
Says == [type : {"step"} \cup Terminal, id : Runs] \cup [type : {"probe_ok"}, id : Probes]
ChildType == [state : {"none", "up", "dead", "gone"}, stdin : Seq(Asks),
              out : Seq(Says), work : Works]

TypeInv ==
    /\ call \in [Callers \cup {Closer} -> CallType]
    /\ \A c \in Callers : call[c].at = "reaping" => call[c].reaps \in Children
    /\ child \in [Children -> ChildType]
    /\ process \in Children \cup {0} /\ live \in Children \cup {0}
    /\ rested \in BOOLEAN /\ emitted \in [Runs -> 0..MaxFrames]

(* Only aclose() waits for a child that still runs: a child found dead is
   reaped after the end of its stdout, and while a call replaces it nothing
   else is kept.                                                             *)
Burying(k) == call[Closer].at = "reaping" /\ call[Closer].reaps = k
OwnerInv ==
    /\ live # 0 => live = process
    /\ live = 0 /\ process # 0 => child[process].state = "gone"
    /\ \A k \in Children : child[k].state = "up" => k = process \/ Burying(k)
    /\ call[Closer].at \in {"idle", "reaping", "over"}
    /\ Closed => live = 0 /\ process = 0
    /\ \A c \in Callers : Starting(c) => live = 0 /\ process = 0 /\ ~rested
    /\ \A c, d \in Callers : Starting(c) /\ Starting(d) => c = d
    /\ ClosedLeavesNothing

(* What is in a pipe, and what of it is about one Run: the question comes
   first, and only once.                                                     *)
Holds(s, f)  == \E i \in DOMAIN s : s[i] = f
About(r)     == {f \in FrameType : f.id = r}
First(s, r)  == \A i, j \in DOMAIN s : s[i] = Frame("run", r) /\ j < i => s[j].id # r

(* A running child knows a Run once it is asked; it has it to do until it
   ends it or is told to stop.                                               *)
Knows(k, r) == child[k].state = "up"
               /\ (child[k].work[r] # "none" \/ Holds(child[k].stdin, Frame("run", r)))
Has(k, r)   == child[k].state = "up"
               /\ (child[k].work[r] = "busy" \/ Holds(child[k].stdin, Frame("run", r)))

(* Before its frame is written nobody has heard of a Run.                     *)
Fresh(r) == call[r].at \in {"idle", "reaping", "spawning"}
FreshInv(r) ==
    Fresh(r) => /\ call[r].queue = <<>> /\ ~call[r].abortSent
                /\ \A k \in Children :
                      /\ child[k].work[r] = "none"
                      /\ \A f \in About(r) : ~Holds(child[k].stdin, f) /\ ~Holds(child[k].out, f)

(* One child is asked, once, and before it is told to stop.                  *)
AskedInv(r) ==
    \A k \in Children :
        /\ Knows(k, r) => call[r].to = k
        /\ First(child[k].stdin, r)
        /\ child[k].work[r] # "none" => ~Holds(child[k].stdin, Frame("run", r))

(* Whoever gives up a Run has told its child, and what was told is on the way. *)
ToldInv(r) ==
    /\ call[r].at = "draining" => call[r].abortSent
    /\ call[r].stop = "told" /\ call[r].at # "over" => call[r].abortSent
    /\ \A k \in Children : Has(k, r) =>
          /\ call[r].at = "over" => call[r].abortSent \/ call[r].stop = "early" \/ Burying(k)
          /\ call[r].abortSent => Holds(child[k].stdin, Frame("abort", r)) \/ Burying(k)

(* What ends a Run comes when its child has nothing more to do for it.        *)
Ending(r) == \E type \in Terminal :
                \/ Holds(call[r].queue, type)
                \/ \E k \in Children : Holds(child[k].out, Frame(type, r))
EndInv(r) ==
    \A k \in Children : Has(k, r) =>
        /\ ~Ending(r)
        /\ Holds(call[r].queue, "exit") => Burying(k)

RunInv(r) == FreshInv(r) /\ AskedInv(r) /\ ToldInv(r) /\ EndInv(r)
CoreInv   == TypeInv /\ OwnerInv

-----------------------------------------------------------------------------
(* Pipes and queues, a frame at a time.                                      *)
LEMMA HoldsAppend ==
    ASSUME NEW T, NEW s \in Seq(T), NEW e \in T, NEW f
    PROVE  Holds(Append(s, e), f) <=> Holds(s, f) \/ e = f
<1>1. DOMAIN s = 1..Len(s) /\ DOMAIN Append(s, e) = 1..Len(s) + 1 /\ Len(s) \in Nat
  OBVIOUS
<1>2. Append(s, e)[Len(s) + 1] = e /\ \A i \in 1..Len(s) : Append(s, e)[i] = s[i]
  OBVIOUS
<1>3. \A i \in 1..Len(s) + 1 : i \in 1..Len(s) \/ i = Len(s) + 1
  BY <1>1
<1>4. Len(s) + 1 \in 1..Len(s) + 1 /\ 1..Len(s) \subseteq 1..Len(s) + 1
  BY <1>1
<1> QED  BY <1>1, <1>2, <1>3, <1>4 DEF Holds

LEMMA HoldsTail ==
    ASSUME NEW T, NEW s \in Seq(T), s # <<>>, NEW f
    PROVE  Holds(s, f) <=> Head(s) = f \/ Holds(Tail(s), f)
<1>1. DOMAIN s = 1..Len(s) /\ DOMAIN Tail(s) = 1..Len(s) - 1 /\ Len(s) \in Nat /\ Len(s) > 0
  OBVIOUS
<1>2. Head(s) = s[1] /\ \A i \in 1..Len(s) - 1 : Tail(s)[i] = s[i + 1]
  OBVIOUS
<1>3. \A i \in 1..Len(s) : i = 1 \/ (i - 1 \in 1..Len(s) - 1 /\ (i - 1) + 1 = i)
  BY <1>1
<1>4. 1 \in 1..Len(s) /\ \A i \in 1..Len(s) - 1 : i + 1 \in 1..Len(s)
  BY <1>1
<1>5. ASSUME NEW i \in 1..Len(s), s[i] = f, i # 1 PROVE Tail(s)[i - 1] = f /\ i - 1 \in 1..Len(s) - 1
  BY <1>2, <1>3, <1>5
<1>6. Holds(s, f) => Head(s) = f \/ Holds(Tail(s), f)
  BY <1>1, <1>2, <1>5 DEF Holds
<1>7. Head(s) = f \/ Holds(Tail(s), f) => Holds(s, f)
  BY <1>1, <1>2, <1>4 DEF Holds
<1> QED  BY <1>6, <1>7

LEMMA FirstAppend ==
    ASSUME NEW s \in Seq(FrameType), NEW e \in FrameType, NEW r, First(s, r),
           e = Frame("run", r) => \A f \in About(r) : ~Holds(s, f)
    PROVE  First(Append(s, e), r)
<1>1. DOMAIN s = 1..Len(s) /\ DOMAIN Append(s, e) = 1..Len(s) + 1 /\ Len(s) \in Nat
  OBVIOUS
<1>2. Append(s, e)[Len(s) + 1] = e /\ \A i \in 1..Len(s) : Append(s, e)[i] = s[i] /\ s[i] \in FrameType
  OBVIOUS
<1> SUFFICES ASSUME NEW i \in 1..Len(s) + 1, NEW j \in 1..Len(s) + 1, j < i,
                    Append(s, e)[i] = Frame("run", r)
             PROVE  Append(s, e)[j].id # r
  BY <1>1 DEF First
<1>3. j \in 1..Len(s) /\ (i \in 1..Len(s) \/ i = Len(s) + 1)
  BY <1>1
<1>4. CASE i \in 1..Len(s)
  BY <1>1, <1>2, <1>3, <1>4 DEF First
<1>5. CASE i = Len(s) + 1
  BY <1>1, <1>2, <1>3, <1>5 DEF About, Holds
<1> QED  BY <1>3, <1>4, <1>5

LEMMA FirstTail ==
    ASSUME NEW s \in Seq(FrameType), s # <<>>, NEW r, First(s, r)
    PROVE  First(Tail(s), r) /\ (Head(s).id = r => ~Holds(Tail(s), Frame("run", r)))
<1>1. DOMAIN s = 1..Len(s) /\ DOMAIN Tail(s) = 1..Len(s) - 1 /\ Len(s) \in Nat /\ Len(s) > 0
  OBVIOUS
<1>2. Head(s) = s[1] /\ \A i \in 1..Len(s) - 1 : Tail(s)[i] = s[i + 1]
  OBVIOUS
<1>3. 1 \in 1..Len(s)
      /\ \A i \in 1..Len(s) - 1 : i + 1 \in 1..Len(s) /\ 1 < i + 1
                                  /\ \A j \in 1..Len(s) - 1 : j < i => j + 1 < i + 1
  BY <1>1
<1> QED  BY <1>1, <1>2, <1>3 DEF First, Holds

-----------------------------------------------------------------------------
(* Types.                                                                    *)
LEMMA FramesHaveTypes == Asks \subseteq FrameType /\ Says \subseteq FrameType
  BY DEF Asks, Says, FrameType, Callers

LEMMA TypesAreTypes == TypeInv => TypeOK
<1> SUFFICES ASSUME TypeInv PROVE TypeOK
  OBVIOUS
<1>1. \A s : (s \in Seq(Asks) => s \in Seq(FrameType)) /\ (s \in Seq(Says) => s \in Seq(FrameType))
  BY FramesHaveTypes
<1>2. child \in [Children -> [state : {"none", "up", "dead", "gone"}, stdin : Seq(FrameType),
                             out : Seq(FrameType), work : [Runs -> {"none", "busy", "stopping"}]]]
  BY <1>1 DEF TypeInv, ChildType, Works
<1>3. call \in [Callers \cup {Closer} ->
           [at : {"idle", "reaping", "spawning", "waiting", "draining", "over"},
            reaps : Children \cup {0}, to : Children \cup {0},
            queue : Seq({"step", "exit"} \cup Terminal), abortSent : BOOLEAN,
            stop : {"no", "early", "told"}, end : {"none", "ok", "failed", "cancelled"}]]
  BY DEF TypeInv, CallType, Places, Events
<1> QED  BY <1>2, <1>3 DEF TypeInv, TypeOK

LEMMA ChildFields ==
    ASSUME NEW d \in ChildType
    PROVE  /\ d.stdin \in Seq(Asks) /\ d.out \in Seq(Says) /\ d.work \in Works
           /\ d.stdin \in Seq(FrameType) /\ d.out \in Seq(FrameType)
  BY FramesHaveTypes DEF ChildType

LEMMA StdinUpdate ==
    ASSUME NEW children \in [Children -> ChildType], NEW k \in Children, NEW s \in Seq(Asks)
    PROVE  [children EXCEPT ![k].stdin = s] \in [Children -> ChildType]
<1>1. [children[k] EXCEPT !.stdin = s] \in ChildType
  BY DEF ChildType
<1> QED  BY <1>1

LEMMA OutUpdate ==
    ASSUME NEW children \in [Children -> ChildType], NEW k \in Children, NEW s \in Seq(Says)
    PROVE  [children EXCEPT ![k].out = s] \in [Children -> ChildType]
<1>1. [children[k] EXCEPT !.out = s] \in ChildType
  BY DEF ChildType
<1> QED  BY <1>1

LEMMA PutTyped ==
    ASSUME NEW children \in [Children -> ChildType], NEW k \in Children \cup {0}, NEW f \in Asks
    PROVE  Put(children, k, f) \in [Children -> ChildType]
<1>1. CASE k # 0 /\ children[k].state = "up"
  <2>1. k \in Children /\ Append(children[k].stdin, f) \in Seq(Asks)
    BY <1>1, ChildFields
  <2> QED  BY <1>1, <2>1, StdinUpdate DEF Put
<1> QED  BY <1>1 DEF Put

LEMMA PutLeaves ==
    ASSUME NEW children \in [Children -> ChildType], NEW k \in Children \cup {0}, NEW f \in Asks,
           NEW j \in Children
    PROVE  LET left == Put(children, k, f)[j]
           IN  /\ left.state = children[j].state /\ left.work = children[j].work
               /\ left.out = children[j].out
               /\ left.stdin = IF j = k /\ children[j].state = "up"
                               THEN Append(children[j].stdin, f) ELSE children[j].stdin
<1>1. CASE k # 0 /\ children[k].state = "up"
  <2>1. Put(children, k, f) = [children EXCEPT ![k].stdin = Append(children[k].stdin, f)]
    BY <1>1 DEF Put
  <2>2. CASE j = k
    <3>1. Put(children, k, f)[j] = [children[j] EXCEPT !.stdin = Append(children[j].stdin, f)]
      BY <2>1, <2>2
    <3>2. children[j] \in ChildType /\ children[j].state = "up"
      BY <1>1, <2>2
    <3> QED  BY <2>2, <3>1, <3>2 DEF ChildType
  <2>3. CASE j # k
    BY <1>1, <2>1, <2>3
  <2> QED  BY <2>2, <2>3
<1>2. CASE ~(k # 0 /\ children[k].state = "up")
  <2>1. Put(children, k, f) = children /\ (j = k => children[j].state # "up")
    BY <1>2 DEF Put, Children
  <2> QED  BY <2>1
<1> QED  BY <1>1, <1>2

LEMMA TailTyped ==
    ASSUME NEW T, NEW s \in Seq(T), s # <<>>
    PROVE  Head(s) \in T /\ Tail(s) \in Seq(T)
  OBVIOUS

LEMMA CallFields ==
    ASSUME NEW rec \in CallType
    PROVE  /\ rec.at \in Places /\ rec.reaps \in Children \cup {0} /\ rec.to \in Children \cup {0}
           /\ rec.queue \in Seq(Events) /\ rec.abortSent \in BOOLEAN
           /\ rec.stop \in {"no", "early", "told"}
           /\ rec.end \in {"none", "ok", "failed", "cancelled"}
  BY DEF CallType

LEMMA QueueUpdate ==
    ASSUME NEW rec \in CallType, NEW q \in Seq(Events)
    PROVE  [rec EXCEPT !.queue = q] \in CallType
  BY DEF CallType

LEMMA OverTyped ==
    ASSUME NEW rec \in CallType, NEW end \in {"none", "ok", "failed", "cancelled"}
    PROVE  /\ Over(rec, end) \in CallType /\ [Over(rec, end) EXCEPT !.queue = <<>>] \in CallType
           /\ Over(rec, end).at = "over" /\ [Over(rec, end) EXCEPT !.queue = <<>>].at = "over"
<1>1. Over(rec, end) \in CallType
  BY DEF CallType, Over, Places
<1>2. <<>> \in Seq(Events)
  OBVIOUS
<1>3. Over(rec, end).at = "over" /\ [Over(rec, end) EXCEPT !.queue = <<>>].at = "over"
  BY DEF CallType, Over
<1> QED  BY <1>1, <1>2, <1>3, QueueUpdate

LEMMA FailInflightTyped == TypeInv => FailInflight(call) \in [Callers \cup {Closer} -> CallType]
<1> SUFFICES ASSUME TypeInv, NEW c \in Callers \cup {Closer}
             PROVE  FailInflight(call)[c] \in CallType /\ DOMAIN call = Callers \cup {Closer}
  BY DEF FailInflight, TypeInv
<1>1. call[c] \in CallType /\ DOMAIN call = Callers \cup {Closer}
  BY DEF TypeInv
<1>2. "exit" \in Events /\ Append(call[c].queue, "exit") \in Seq(Events)
  BY <1>1, CallFields DEF Events
<1>3. [call[c] EXCEPT !.queue = Append(call[c].queue, "exit")] \in CallType
  BY <1>1, <1>2, QueueUpdate
<1>4. Over(call[c], "failed") \in CallType
  BY <1>1, OverTyped
<1>5. FailInflight(call)[c] = IF ~Registered(c) THEN call[c]
         ELSE IF c \in Runs THEN [call[c] EXCEPT !.queue = Append(call[c].queue, "exit")]
         ELSE Over(call[c], "failed")
  BY <1>1 DEF FailInflight
<1> QED  BY <1>1, <1>3, <1>4, <1>5

(* Who fails in flight hears of it, and who does not is left alone.          *)
LEMMA FailInflightLeaves ==
    ASSUME TypeInv, NEW c \in Callers \cup {Closer}
    PROVE  LET left == FailInflight(call)[c]
           IN  /\ ~Registered(c) => left = call[c]
               /\ left.reaps = call[c].reaps /\ left.to = call[c].to
               /\ c \in Runs /\ Registered(c) =>
                     left = [call[c] EXCEPT !.queue = Append(call[c].queue, "exit")]
               /\ left.at = call[c].at \/ (Registered(c) /\ left.at = "over")
<1>1. call[c] \in CallType /\ DOMAIN call = Callers \cup {Closer}
  BY DEF TypeInv
<1>2. FailInflight(call)[c] = IF ~Registered(c) THEN call[c]
         ELSE IF c \in Runs THEN [call[c] EXCEPT !.queue = Append(call[c].queue, "exit")]
         ELSE Over(call[c], "failed")
  BY <1>1 DEF FailInflight
<1> QED  BY <1>1, <1>2 DEF CallType, Over

(* A step on one call, or on one child, keeps the types.                      *)
LEMMA OneCall ==
    ASSUME TypeInv, NEW c \in Callers, NEW rec \in CallType,
           rec.at = "reaping" => rec.reaps \in Children,
           call' = [call EXCEPT ![c] = rec], child' \in [Children -> ChildType],
           UNCHANGED <<process, live, rested, emitted>>
    PROVE  TypeInv'
  BY DEF TypeInv

LEMMA SubmitTyped ==
    ASSUME TypeInv, NEW c \in Callers, NEW k \in Children,
           NEW children \in [Children -> ChildType], Submit(call, children, c, k)
    PROVE  /\ call' \in [Callers \cup {Closer} -> CallType]
           /\ child' \in [Children -> ChildType]
           /\ \A d \in Callers : call'[d].at = "reaping" => call'[d].reaps \in Children
<1>1. call[c] \in CallType /\ call \in [Callers \cup {Closer} -> CallType] /\ k \in Children \cup {0}
  BY DEF TypeInv
<1>2. Over(call[c], "failed") \in CallType /\ Over(call[c], "failed").at = "over"
  BY <1>1, OverTyped
<1>3. [call[c] EXCEPT !.at = "waiting", !.to = k] \in CallType
      /\ [call[c] EXCEPT !.at = "waiting", !.to = k].at = "waiting"
  <2>1. "waiting" \in Places
    BY DEF Places
  <2> QED  BY <1>1, <2>1 DEF CallType
<1>4. Frame(IF c \in Runs THEN "run" ELSE "probe", c) \in Asks
  BY DEF Frame, Asks, Callers
<1>5. Put(children, k, Frame(IF c \in Runs THEN "run" ELSE "probe", c)) \in [Children -> ChildType]
  BY <1>1, <1>4, PutTyped
<1>6. child' \in [Children -> ChildType]
  BY <1>5 DEF Submit
<1>7. call' = [call EXCEPT ![c] = [call[c] EXCEPT !.at = "waiting", !.to = k]]
      \/ call' = [call EXCEPT ![c] = Over(call[c], "failed")]
  BY <1>1 DEF Submit
<1> QED  BY <1>1, <1>2, <1>3, <1>6, <1>7 DEF TypeInv

LEMMA RefuseTyped ==
    ASSUME TypeInv, NEW c \in Callers, Refuse(c)
    PROVE  TypeInv'
<1>1. Over(call[c], "failed") \in CallType /\ Over(call[c], "failed").at = "over"
  BY OverTyped DEF TypeInv
<1> QED  BY <1>1, OneCall DEF Refuse, TypeInv

LEMMA BeginTyped ==
    ASSUME TypeInv, NEW c \in Callers, Begin(c)
    PROVE  TypeInv'
<1>1. CASE live # 0 /\ Submit(call, child, c, live) /\ UNCHANGED <<process, live, rested, emitted>>
  <2>1. live \in Children /\ child \in [Children -> ChildType]
    BY <1>1 DEF TypeInv
  <2> QED  BY <1>1, <2>1, SubmitTyped DEF TypeInv
<1>2. CASE Refuse(c)
  BY <1>2, RefuseTyped
<1>3. CASE /\ live = 0 /\ ~Closed /\ rested /\ rested' = FALSE /\ process' = 0
           /\ call' = [call EXCEPT ![c].at = IF process = 0 THEN "spawning" ELSE "reaping",
                                   ![c].reaps = process]
           /\ UNCHANGED <<child, live, emitted>>
  <2> DEFINE at == IF process = 0 THEN "spawning" ELSE "reaping"
             rec == [call[c] EXCEPT !.at = at, !.reaps = process]
  <2>1. call[c] \in CallType /\ at \in Places /\ process \in Children \cup {0}
    BY DEF TypeInv, Places
  <2>2. rec \in CallType /\ (rec.at = "reaping" => rec.reaps \in Children)
    <3>1. rec \in CallType /\ rec.at = at /\ rec.reaps = process
      <4> HIDE DEF at
      <4> QED  BY <2>1 DEF CallType
    <3> QED  BY <2>1, <3>1
  <2>3. call' = [call EXCEPT ![c] = rec]
    BY <1>3 DEF TypeInv
  <2> HIDE DEF rec
  <2>4. /\ call' \in [Callers \cup {Closer} -> CallType]
        /\ \A d \in Callers : call'[d].at = "reaping" => call'[d].reaps \in Children
    BY <2>2, <2>3 DEF TypeInv
  <2> QED  BY <1>3, <2>4 DEF TypeInv
<1> QED  BY <1>1, <1>2, <1>3 DEF Begin

LEMMA ReapDoneTyped ==
    ASSUME TypeInv, NEW c \in Callers \cup {Closer}, ReapDone(c)
    PROVE  TypeInv'
<1> DEFINE told == FailInflight(call)
           at == IF c = Closer THEN "over" ELSE "spawning"
           rec == [told[c] EXCEPT !.at = at, !.reaps = 0]
<1>1. told \in [Callers \cup {Closer} -> CallType]
  BY FailInflightTyped
<1>2. at \in Places /\ 0 \in Children \cup {0} /\ told[c] \in CallType
  BY <1>1 DEF Places
<1>3. rec \in CallType /\ rec.at = at
  <2> HIDE DEF told, at
  <2> QED  BY <1>2 DEF CallType
<1>4. call' = [told EXCEPT ![c] = rec]
  BY <1>1 DEF ReapDone
<1>5. \A d \in Callers : told[d].at = "reaping" => told[d].reaps \in Children
  BY FailInflightLeaves DEF TypeInv
<1>6. call' \in [Callers \cup {Closer} -> CallType]
      /\ \A d \in Callers : call'[d].at = "reaping" => call'[d].reaps \in Children
  <2>1. at # "reaping"
    OBVIOUS
  <2> HIDE DEF told, at, rec
  <2> QED  BY <1>1, <1>3, <1>4, <1>5, <2>1
<1> QED  BY <1>6 DEF TypeInv, ReapDone

LEMMA NewTyped == NewChild \in ChildType /\ NoChild \in ChildType
<1>1. [r \in Runs |-> "none"] \in Works /\ <<>> \in Seq(Asks) /\ <<>> \in Seq(Says)
  BY DEF Works
<1>2. NoChild \in ChildType
  BY <1>1 DEF NoChild, ChildType
<1> QED  BY <1>2 DEF NewChild, ChildType

LEMMA SpawnedTyped ==
    ASSUME TypeInv, NEW c \in Callers, Spawned(c)
    PROVE  TypeInv'
<1>1. PICK k \in Children :
          IF Closed
          THEN /\ child' = [child EXCEPT ![k].state = "gone"]
               /\ call' = [call EXCEPT ![c] = Over(@, "failed")]
               /\ UNCHANGED <<process, live>>
          ELSE /\ process' = k /\ live' = k
               /\ Submit(call, [child EXCEPT ![k] = NewChild], c, k)
  BY DEF Spawned
<1>2. CASE Closed
  <2>1. Over(call[c], "failed") \in CallType /\ Over(call[c], "failed").at = "over"
    BY OverTyped DEF TypeInv
  <2>2. [child[k] EXCEPT !.state = "gone"] \in ChildType
    BY DEF TypeInv, ChildType
  <2>3. child' = [child EXCEPT ![k] = [child[k] EXCEPT !.state = "gone"]]
    BY <1>1, <1>2
  <2>4. child' \in [Children -> ChildType]
    BY <2>2, <2>3 DEF TypeInv
  <2> QED  BY <1>1, <1>2, <2>1, <2>4 DEF TypeInv, Spawned
<1>3. CASE ~Closed
  <2>1. [child EXCEPT ![k] = NewChild] \in [Children -> ChildType]
    BY NewTyped DEF TypeInv
  <2> QED  BY <1>1, <1>3, <2>1, SubmitTyped DEF TypeInv, Spawned
<1> QED  BY <1>2, <1>3

LEMMA DeliverTyped ==
    ASSUME TypeInv, NEW k \in Children, Deliver(k)
    PROVE  TypeInv'
<1> DEFINE frame == Head(child[k].out)
<1>1. child[k] \in ChildType /\ child[k].out # <<>>
  BY DEF TypeInv, Deliver
<1>2. frame \in Says /\ Tail(child[k].out) \in Seq(Says)
  BY <1>1, ChildFields, TailTyped
<1>3. child' = [child EXCEPT ![k].out = Tail(child[k].out)] /\ child' \in [Children -> ChildType]
  BY <1>2, OutUpdate DEF Deliver, TypeInv
<1>4. /\ frame.id \in Callers /\ call[frame.id] \in CallType
      /\ frame.id \in Runs => frame.type \in Events
  BY <1>2, RuntimeAssumption DEF Says, Callers, Events, TypeInv
<1>5. CASE call' = call
  BY <1>3, <1>5 DEF TypeInv, Deliver
<1>6. CASE frame.id \in Runs /\ call' = [call EXCEPT ![frame.id].queue = Append(@, frame.type)]
  <2> DEFINE rec == [call[frame.id] EXCEPT !.queue = Append(call[frame.id].queue, frame.type)]
  <2>1. Append(call[frame.id].queue, frame.type) \in Seq(Events)
    BY <1>4, <1>6, CallFields
  <2>2. rec \in CallType
    BY <1>4, <2>1, QueueUpdate
  <2>3. rec.at = call[frame.id].at /\ rec.reaps = call[frame.id].reaps
    BY <1>4 DEF CallType
  <2>4. call' = [call EXCEPT ![frame.id] = rec]
    BY <1>6
  <2>5. rec.at = "reaping" => rec.reaps \in Children
    BY <1>4, <2>3 DEF TypeInv
  <2> HIDE DEF rec, frame
  <2> QED  BY <1>3, <1>4, <2>2, <2>4, <2>5, OneCall DEF Deliver
<1>7. CASE call' = [call EXCEPT ![frame.id] = Over(@, "ok")]
  <2>1. Over(call[frame.id], "ok") \in CallType /\ Over(call[frame.id], "ok").at = "over"
    BY <1>4, OverTyped
  <2> HIDE DEF frame
  <2> QED  BY <1>3, <1>4, <1>7, <2>1, OneCall DEF Deliver
<1> QED  BY <1>5, <1>6, <1>7 DEF Deliver

LEMMA EofTyped ==
    ASSUME TypeInv, NEW k \in Children, Eof(k)
    PROVE  TypeInv'
<1>1. [child[k] EXCEPT !.state = "gone"] \in ChildType
  BY DEF TypeInv, ChildType
<1>2. child' = [child EXCEPT ![k] = [child[k] EXCEPT !.state = "gone"]]
  BY DEF Eof
<1>3. child' \in [Children -> ChildType]
  BY <1>1, <1>2 DEF TypeInv
<1>4. call' = call \/ call' = FailInflight(call)
  BY DEF Eof
<1>5. /\ call' \in [Callers \cup {Closer} -> CallType]
      /\ \A c \in Callers : call'[c].at = "reaping" => call'[c].reaps \in Children
  BY <1>4, FailInflightTyped, FailInflightLeaves DEF TypeInv
<1> QED  BY <1>3, <1>5 DEF TypeInv, Eof

(* What a Run's own task does: it reads its queue, and may send an abort.      *)
LEMMA AbortTyped ==
    ASSUME TypeInv, NEW r \in Runs
    PROVE  Put(child, live, Frame("abort", r)) \in [Children -> ChildType]
<1>1. Frame("abort", r) \in Asks
  BY DEF Frame, Asks
<1> QED  BY <1>1, PutTyped DEF TypeInv

LEMMA FinishTyped ==
    ASSUME TypeInv, NEW r \in Runs, NEW end \in {"ok", "failed", "cancelled"},
           Finish(r, end), UNCHANGED <<process, live, rested, emitted>>
    PROVE  TypeInv'
<1>1. call[r] \in CallType /\ end \in {"none", "ok", "failed", "cancelled"}
  BY DEF TypeInv, Callers
<1> DEFINE rec == [Over(call[r], end) EXCEPT !.queue = <<>>]
<1>2. rec \in CallType /\ rec.at = "over"
  BY <1>1, OverTyped
<1>3. call' = [call EXCEPT ![r] = rec] /\ child' \in [Children -> ChildType]
  BY DEF Finish, TypeInv
<1> HIDE DEF rec
<1> QED  BY <1>2, <1>3, OneCall DEF Callers

LEMMA PopTyped ==
    ASSUME TypeInv, NEW r \in Runs, call[r].queue # <<>>, call[r].at # "reaping",
           call' = [call EXCEPT ![r].queue = Tail(@)], UNCHANGED <<child, process, live, rested, emitted>>
    PROVE  TypeInv'
<1> DEFINE rec == [call[r] EXCEPT !.queue = Tail(call[r].queue)]
<1>1. call[r] \in CallType /\ r \in Callers
  BY DEF TypeInv, Callers
<1>2. Tail(call[r].queue) \in Seq(Events)
  BY <1>1, CallFields, TailTyped
<1>3. rec \in CallType /\ rec.at # "reaping"
  <2>1. rec \in CallType
    BY <1>1, <1>2, QueueUpdate
  <2>2. rec.at = call[r].at
    BY <1>1 DEF CallType
  <2> QED  BY <2>1, <2>2
<1>4. call' = [call EXCEPT ![r] = rec] /\ child' \in [Children -> ChildType]
  BY DEF TypeInv
<1> HIDE DEF rec
<1> QED  BY <1>3, <1>4, OneCall DEF Callers

LEMMA StartDrainTyped ==
    ASSUME TypeInv, NEW r \in Runs, call[r].queue # <<>>, StartDrain(r),
           UNCHANGED <<process, live, rested, emitted>>
    PROVE  TypeInv'
<1> DEFINE rec == [call[r] EXCEPT !.queue = Tail(call[r].queue), !.at = "draining", !.abortSent = TRUE]
<1>1. call[r] \in CallType /\ r \in Callers
  BY DEF TypeInv, Callers
<1>2. Tail(call[r].queue) \in Seq(Events) /\ "draining" \in Places
  BY <1>1, CallFields, TailTyped DEF Places
<1>3. rec \in CallType /\ rec.at # "reaping"
  BY <1>1, <1>2 DEF CallType
<1>4. call' = [call EXCEPT ![r] = rec]
  BY DEF StartDrain
<1>5. child' \in [Children -> ChildType]
  BY AbortTyped DEF StartDrain, TypeInv
<1> HIDE DEF rec
<1> QED  BY <1>3, <1>4, <1>5, OneCall DEF Callers

LEMMA ConsumeTyped ==
    ASSUME TypeInv, NEW r \in Runs, Consume(r)
    PROVE  TypeInv'
<1>1. call[r].queue # <<>> /\ call[r].at # "reaping" /\ UNCHANGED <<process, live, rested, emitted>>
  BY DEF Consume
<1>2. \/ Finish(r, "failed") \/ Finish(r, "ok") \/ StartDrain(r)
      \/ call' = [call EXCEPT ![r].queue = Tail(@)] /\ UNCHANGED child
  BY DEF Consume
<1>3. "failed" \in {"ok", "failed", "cancelled"} /\ "ok" \in {"ok", "failed", "cancelled"}
  OBVIOUS
<1> QED  BY <1>1, <1>2, <1>3, FinishTyped, StartDrainTyped, PopTyped

LEMMA DrainTyped ==
    ASSUME TypeInv, NEW r \in Runs, Drain(r)
    PROVE  TypeInv'
<1>1. call[r].at # "reaping" /\ UNCHANGED <<process, live, rested, emitted>>
  BY DEF Drain
<1>2. \/ Finish(r, "failed")
      \/ call[r].queue # <<>> /\ call' = [call EXCEPT ![r].queue = Tail(@)] /\ UNCHANGED child
  BY DEF Drain
<1>3. "failed" \in {"ok", "failed", "cancelled"}
  OBVIOUS
<1> QED  BY <1>1, <1>2, <1>3, FinishTyped, PopTyped

LEMMA AbortStepTyped ==
    ASSUME TypeInv, NEW r \in Runs, Abort(r)
    PROVE  TypeInv'
<1> DEFINE stop == IF call[r].at = "idle" \/ Starting(r) THEN "early" ELSE "told"
           sent == call[r].abortSent \/ Registered(r)
           rec == [call[r] EXCEPT !.abortSent = sent, !.stop = stop]
<1>1. call[r] \in CallType /\ r \in Callers
  BY DEF TypeInv, Callers
<1>2. sent \in BOOLEAN /\ stop \in {"no", "early", "told"}
  BY <1>1, CallFields DEF Registered
<1>3. rec \in CallType /\ rec.at = call[r].at /\ rec.reaps = call[r].reaps
  <2> HIDE DEF stop, sent
  <2> QED  BY <1>1, <1>2 DEF CallType
<1>4. call' = [call EXCEPT ![r] = rec]
  BY DEF Abort
<1>5. child' \in [Children -> ChildType]
  BY AbortTyped DEF Abort, TypeInv
<1>6. UNCHANGED <<process, live, rested, emitted>>
  BY DEF Abort
<1>7. rec.at = "reaping" => rec.reaps \in Children
  BY <1>1, <1>3 DEF TypeInv
<1> HIDE DEF rec
<1> QED  BY <1>1, <1>3, <1>4, <1>5, <1>6, <1>7, OneCall

LEMMA LineTyped ==
    ASSUME TypeInv, NEW k \in Children, HandleLine(k)
    PROVE  TypeInv'
<1> DEFINE frame == Head(child[k].stdin)
           left == [child EXCEPT ![k].stdin = Tail(child[k].stdin)]
<1>1. child[k] \in ChildType /\ child[k].stdin # <<>>
  BY DEF TypeInv, HandleLine
<1>2. frame \in Asks /\ Tail(child[k].stdin) \in Seq(Asks)
  BY <1>1, ChildFields, TailTyped
<1>3. left \in [Children -> ChildType]
  BY <1>2, StdinUpdate DEF TypeInv
<1>4. left[k].work \in Works /\ left[k].out \in Seq(Says) /\ left[k] \in ChildType
  BY <1>3, ChildFields
<1>5. ASSUME NEW w \in {"busy", "stopping"}
      PROVE  [left EXCEPT ![k].work[frame.id] = w] \in [Children -> ChildType]
  <2> HIDE DEF left
  <2>1. [left[k].work EXCEPT ![frame.id] = w] \in Works
    BY <1>4 DEF Works
  <2>2. [left[k] EXCEPT !.work = [left[k].work EXCEPT ![frame.id] = w]] \in ChildType
    BY <1>4, <2>1 DEF ChildType
  <2> QED  BY <1>3, <2>2
<1>6. ASSUME frame.type = "probe"
      PROVE  [left EXCEPT ![k].out = Append(left[k].out, Frame("probe_ok", frame.id))] \in [Children -> ChildType]
  <2>1. Frame("probe_ok", frame.id) \in Says
    BY <1>2, <1>6 DEF Frame, Says, Asks
  <2>2. Append(left[k].out, Frame("probe_ok", frame.id)) \in Seq(Says)
    BY <1>4, <2>1
  <2> HIDE DEF left
  <2> QED  BY <1>3, <2>2, OutUpdate
<1>7. \/ child' = [left EXCEPT ![k].work[frame.id] = "busy"]
      \/ child' = [left EXCEPT ![k].work[frame.id] = "stopping"]
      \/ frame.type = "probe" /\ child' = [left EXCEPT ![k].out = Append(left[k].out, Frame("probe_ok", frame.id))]
      \/ child' = left
  BY DEF HandleLine
<1>8. child' \in [Children -> ChildType]
  BY <1>3, <1>5, <1>6, <1>7
<1> QED  BY <1>8 DEF TypeInv, HandleLine

LEMMA SayTyped ==
    ASSUME TypeInv, NEW k \in Children, NEW r \in Runs, NEW type \in {"step"} \cup Terminal
    PROVE  Say(k, type, r) \in [Children -> ChildType]
<1>1. Frame(type, r) \in Says /\ child[k] \in ChildType
  BY DEF Frame, Says, TypeInv
<1>2. Append(child[k].out, Frame(type, r)) \in Seq(Says)
  BY <1>1, ChildFields
<1> QED  BY <1>2, OutUpdate DEF Say, TypeInv

LEMMA ChildStepTyped ==
    ASSUME TypeInv, NEW k \in Children, NEW r \in Runs,
           Emit(k, r) \/ EndRun(k, r)
    PROVE  TypeInv'
<1>1. CASE Emit(k, r)
  <2>1. child' \in [Children -> ChildType]
    BY <1>1, SayTyped DEF Emit
  <2>2. emitted' \in [Runs -> 0..MaxFrames]
    BY <1>1, RuntimeAssumption DEF Emit, TypeInv
  <2> QED  BY <1>1, <2>1, <2>2 DEF TypeInv, Emit
<1>2. CASE EndRun(k, r)
  <2>1. PICK type \in Terminal : child' = [Say(k, type, r) EXCEPT ![k].work[r] = "none"]
    BY <1>2 DEF EndRun, Terminal
  <2> DEFINE said == Say(k, type, r)
  <2>2. said \in [Children -> ChildType]
    BY SayTyped
  <2> HIDE DEF said
  <2>3. said[k] \in ChildType /\ said[k].work \in Works
    BY <2>2, ChildFields
  <2>4. [said[k].work EXCEPT ![r] = "none"] \in Works
    BY <2>3 DEF Works
  <2>5. [said[k] EXCEPT !.work = [said[k].work EXCEPT ![r] = "none"]] \in ChildType
    BY <2>3, <2>4 DEF ChildType
  <2>6. child' = [said EXCEPT ![k].work[r] = "none"]
    BY <2>1 DEF said
  <2>7. child' \in [Children -> ChildType]
    BY <2>2, <2>5, <2>6
  <2> QED  BY <1>2, <2>7 DEF TypeInv, EndRun
<1> QED  BY <1>1, <1>2

LEMMA DieTyped ==
    ASSUME TypeInv, NEW k \in Children, Die(k)
    PROVE  TypeInv'
<1> DEFINE dead == [NoChild EXCEPT !.state = "dead", !.out = child[k].out]
<1>1. NoChild \in ChildType /\ child[k].out \in Seq(Says)
  BY NewTyped, ChildFields DEF TypeInv
<1>2. dead \in ChildType
  BY <1>1 DEF ChildType
<1>3. child' = [child EXCEPT ![k] = dead]
  BY DEF Die
<1> HIDE DEF dead
<1>4. child' \in [Children -> ChildType]
  BY <1>2, <1>3 DEF TypeInv
<1> QED  BY <1>4 DEF TypeInv, Die

LEMMA InitTyped == Init => TypeInv
<1> SUFFICES ASSUME Init PROVE TypeInv
  OBVIOUS
<1>1. Idle \in CallType /\ Idle.at = "idle"
  <2>1. <<>> \in Seq(Events) /\ "idle" \in Places
    BY DEF Places
  <2> QED  BY <2>1 DEF Idle, CallType
<1>2. live \in Children \cup {0}
  BY RuntimeAssumption DEF Init, Children
<1>3. child \in [Children -> ChildType]
  BY NewTyped DEF Init
<1>4. call \in [Callers \cup {Closer} -> CallType] /\ \A c \in Callers : call[c].at # "reaping"
  <2> HIDE DEF Idle
  <2> QED  BY <1>1 DEF Init
<1>5. emitted \in [Runs -> 0..MaxFrames] /\ rested \in BOOLEAN /\ process \in Children \cup {0}
  <2>1. 0 \in 0..MaxFrames
    BY RuntimeAssumption
  <2>2. emitted \in [Runs -> 0..MaxFrames]
    BY <2>1 DEF Init
  <2>3. process = live /\ rested = FALSE
    BY DEF Init
  <2> QED  BY <1>2, <2>2, <2>3
<1> QED  BY <1>2, <1>3, <1>4, <1>5 DEF TypeInv

LEMMA TypeStep == TypeInv /\ [Next]_vars => TypeInv'
<1> SUFFICES ASSUME TypeInv, Next PROVE TypeInv'
  BY DEF vars, TypeInv
<1>1. CASE Close
  <2>1. [call[Closer] EXCEPT !.at = "reaping", !.reaps = process] \in CallType
    BY DEF TypeInv, CallType, Places
  <2>2. call' = [call EXCEPT ![Closer] = [call[Closer] EXCEPT !.at = "reaping", !.reaps = process]]
    BY <1>1 DEF Close
  <2> QED  BY <1>1, <2>1, <2>2, RuntimeAssumption DEF TypeInv, Close, Callers
<1>2. CASE Rest
  BY <1>2 DEF TypeInv, Rest
<1>3. CASE ReapDone(Closer)
  BY <1>3, ReapDoneTyped
<1>4. ASSUME NEW c \in Callers, Begin(c) \/ ReapDone(c) \/ Spawned(c) \/ SpawnFails(c)
      PROVE  TypeInv'
  BY <1>4, BeginTyped, ReapDoneTyped, SpawnedTyped, RefuseTyped DEF SpawnFails
<1>5. ASSUME NEW p \in Probes, ProbeTimeout(p) PROVE TypeInv'
  BY <1>5, RefuseTyped DEF ProbeTimeout, Callers
<1>6. ASSUME NEW r \in Runs, Consume(r) \/ Drain(r) \/ Abort(r) \/ CancelTask(r)
      PROVE  TypeInv'
  BY <1>6, ConsumeTyped, DrainTyped, AbortStepTyped, FinishTyped DEF CancelTask
<1>7. ASSUME NEW k \in Children, Deliver(k) \/ Eof(k) \/ HandleLine(k) \/ Die(k)
      PROVE  TypeInv'
  BY <1>7, DeliverTyped, EofTyped, LineTyped, DieTyped
<1>8. ASSUME NEW k \in Children, NEW r \in Runs, Emit(k, r) \/ EndRun(k, r)
      PROVE  TypeInv'
  BY <1>8, ChildStepTyped
<1> QED  BY <1>1, <1>2, <1>3, <1>4, <1>5, <1>6, <1>7, <1>8 DEF Next

(* For every set of Runs and probes, every variable of the adapter and of its
   children keeps its type.                                                  *)
THEOREM RuntimeTypeCorrect == Spec => []TypeOK
<1>1. Spec => []TypeInv
  BY InitTyped, TypeStep, PTL DEF Spec
<1> QED  BY <1>1, TypesAreTypes, PTL

-----------------------------------------------------------------------------
(* Who owns the children.                                                     *)
LEMMA ZeroIsNoChild == 0 \notin Children /\ Closer \notin Callers
  BY RuntimeAssumption DEF Children, Callers

LEMMA UpIsLive ==
    ASSUME OwnerInv, NEW k \in Children, child[k].state = "up"
    PROVE  (k = live /\ live = process) \/ Burying(k)
  BY ZeroIsNoChild DEF OwnerInv

(* A step that starts nothing, ends nothing of the adapter's and leaves
   aclose() where it is.                                                     *)
LEMMA OwnerKept ==
    ASSUME OwnerInv, UNCHANGED <<process, live>>, process \in Children \cup {0},
           rested' = rested \/ \A c \in Callers : ~Starting(c),
           \A k \in Children : /\ child'[k].state = "up" => child[k].state = "up"
                               /\ child[k].state = "gone" => child'[k].state = "gone",
           \A c \in Callers : Starting(c)' => Starting(c),
           call'[Closer] = call[Closer]
    PROVE  OwnerInv'
<1>1. \A k \in Children : Burying(k)' <=> Burying(k)
  BY DEF Burying
<1>2. Closed' <=> Closed
  BY DEF Closed
<1> QED  BY <1>1, <1>2 DEF OwnerInv, ClosedLeavesNothing

LEMMA OwnerCall ==
    ASSUME TypeInv, OwnerInv, NEW c \in Callers, NEW rec,
           rec.at \in {"reaping", "spawning"} => Starting(c),
           call' = [call EXCEPT ![c] = rec], UNCHANGED <<process, live, rested>>,
           \A k \in Children : child'[k].state = child[k].state
    PROVE  OwnerInv'
<1>1. \A d \in Callers : Starting(d)' => Starting(d)
  BY DEF Starting, TypeInv
<1>2. call'[Closer] = call[Closer] /\ process \in Children \cup {0}
  BY ZeroIsNoChild DEF TypeInv
<1> QED  BY <1>1, <1>2, OwnerKept

LEMMA PutStates ==
    ASSUME NEW children \in [Children -> ChildType], NEW k \in Children \cup {0}, NEW f \in Asks
    PROVE  \A j \in Children : Put(children, k, f)[j].state = children[j].state
  BY PutLeaves

LEMMA SubmitFrame == \A c \in Callers : Frame(IF c \in Runs THEN "run" ELSE "probe", c) \in Asks
  BY DEF Frame, Asks, Callers

LEMMA OverAt ==
    ASSUME NEW rec \in CallType, NEW end \in {"none", "ok", "failed", "cancelled"}
    PROVE  Over(rec, end).at = "over" /\ [Over(rec, end) EXCEPT !.queue = <<>>].at = "over"
  BY OverTyped

LEMMA OwnerRefuse ==
    ASSUME TypeInv, OwnerInv, NEW c \in Callers, Refuse(c)
    PROVE  OwnerInv'
<1>1. Over(call[c], "failed").at = "over"
  BY OverAt DEF TypeInv
<1> QED  BY <1>1, OwnerCall DEF Refuse

LEMMA OwnerSubmit ==
    ASSUME TypeInv, NEW c \in Callers, NEW k \in Children,
           NEW children \in [Children -> ChildType], Submit(call, children, c, k)
    PROVE  /\ \A j \in Children : child'[j].state = children[j].state
           /\ \E rec \in CallType : call' = [call EXCEPT ![c] = rec] /\ rec.at \in {"waiting", "over"}
<1>1. call[c] \in CallType /\ k \in Children \cup {0}
  BY DEF TypeInv
<1>2. \A j \in Children : child'[j].state = children[j].state
  BY <1>1, SubmitFrame, PutStates DEF Submit
<1>3. [call[c] EXCEPT !.at = "waiting", !.to = k] \in CallType
      /\ [call[c] EXCEPT !.at = "waiting", !.to = k].at = "waiting"
  BY <1>1 DEF CallType, Places
<1>4. Over(call[c], "failed") \in CallType /\ Over(call[c], "failed").at = "over"
  BY <1>1, OverTyped
<1>5. call' = [call EXCEPT ![c] = [call[c] EXCEPT !.at = "waiting", !.to = k]]
      \/ call' = [call EXCEPT ![c] = Over(call[c], "failed")]
  BY DEF Submit
<1> QED  BY <1>2, <1>3, <1>4, <1>5

LEMMA OwnerBegin ==
    ASSUME TypeInv, OwnerInv, NEW c \in Callers, Begin(c)
    PROVE  OwnerInv'
<1>1. CASE live # 0 /\ Submit(call, child, c, live) /\ UNCHANGED <<process, live, rested, emitted>>
  <2>1. live \in Children /\ child \in [Children -> ChildType]
    BY <1>1 DEF TypeInv
  <2> QED  BY <1>1, <2>1, OwnerSubmit, OwnerCall
<1>2. CASE Refuse(c)
  BY <1>2, OwnerRefuse
<1>3. CASE /\ live = 0 /\ ~Closed /\ rested /\ rested' = FALSE /\ process' = 0
           /\ call' = [call EXCEPT ![c].at = IF process = 0 THEN "spawning" ELSE "reaping",
                                   ![c].reaps = process]
           /\ UNCHANGED <<child, live, emitted>>
  <2>1. \A d \in Callers : ~Starting(d)
    BY <1>3 DEF OwnerInv
  <2>2. \A d \in Callers : Starting(d)' => d = c
    BY <1>3, <2>1 DEF Starting, TypeInv
  <2>3. call'[Closer] = call[Closer] /\ call[Closer].at = "idle"
    BY <1>3, ZeroIsNoChild DEF TypeInv, Closed
  <2>4. \A k \in Children : child'[k].state # "up"
    BY <1>3, <2>3, ZeroIsNoChild DEF OwnerInv, Burying
  <2> QED  BY <1>3, <2>2, <2>3, <2>4 DEF OwnerInv, Closed, ClosedLeavesNothing
<1> QED  BY <1>1, <1>2, <1>3 DEF Begin

LEMMA OwnerReapDone ==
    ASSUME TypeInv, OwnerInv, NEW c \in Callers \cup {Closer}, ReapDone(c)
    PROVE  OwnerInv'
<1> DEFINE told == FailInflight(call)
<1>1. told \in [Callers \cup {Closer} -> CallType]
  BY FailInflightTyped
<1>2. \A d \in Callers \cup {Closer} : d # c => call'[d] = told[d]
  BY <1>1 DEF ReapDone
<1>3. call'[c].at = IF c = Closer THEN "over" ELSE "spawning"
  <2> HIDE DEF told
  <2> DEFINE at == IF c = Closer THEN "over" ELSE "spawning"
  <2>1. call' = [told EXCEPT ![c] = [told[c] EXCEPT !.at = at, !.reaps = 0]]
    BY <1>1 DEF ReapDone, told
  <2>2. told[c] \in CallType
    BY <1>1
  <2> HIDE DEF at
  <2>3. [told[c] EXCEPT !.at = at, !.reaps = 0].at = at
    BY <2>2 DEF CallType
  <2> QED  BY <1>1, <2>1, <2>3 DEF at
<1>4. \A d \in Callers \cup {Closer} : told[d].at \in {"reaping", "spawning"} => told[d].at = call[d].at
  BY FailInflightLeaves
<1>5. UNCHANGED <<child, process, live>> /\ call[c].at = "reaping"
  BY DEF ReapDone
<1>6. CASE c = Closer
  <2>1. \A k \in Children : child[k].state # "up"
    BY <1>5, <1>6, ZeroIsNoChild DEF OwnerInv, Closed, Burying, ReapDone
  <2>2. \A d \in Callers : Starting(d)' => Starting(d)
    BY <1>2, <1>4, <1>6, ZeroIsNoChild DEF Starting
  <2>3. rested' = rested
    BY <1>6 DEF ReapDone
  <2> QED  BY <1>3, <1>5, <1>6, <2>1, <2>2, <2>3 DEF OwnerInv, Closed, ClosedLeavesNothing
<1>7. CASE c \in Callers
  <2>1. \A d \in Callers : Starting(d)' => Starting(d)
    BY <1>2, <1>4, <1>5 DEF Starting
  <2>2. call'[Closer] = call[Closer] /\ rested' = FALSE /\ rested = FALSE
    <3>1. ~Registered(Closer) /\ Closer # c
      BY <1>7, ZeroIsNoChild DEF OwnerInv, Registered
    <3>2. rested = FALSE
      BY <1>5, <1>7 DEF OwnerInv, Starting, TypeInv
    <3> QED  BY <1>2, <3>1, <3>2, <1>7, FailInflightLeaves, ZeroIsNoChild DEF ReapDone
  <2> QED  BY <1>5, <2>1, <2>2, OwnerKept DEF TypeInv
<1> QED  BY <1>6, <1>7

LEMMA OwnerSpawned ==
    ASSUME TypeInv, OwnerInv, NEW c \in Callers, Spawned(c)
    PROVE  OwnerInv'
<1>1. PICK k \in Children :
          /\ child[k].state = "none"
          /\ IF Closed
             THEN /\ child' = [child EXCEPT ![k].state = "gone"]
                  /\ call' = [call EXCEPT ![c] = Over(@, "failed")]
                  /\ UNCHANGED <<process, live>>
             ELSE /\ process' = k /\ live' = k
                  /\ Submit(call, [child EXCEPT ![k] = NewChild], c, k)
  BY DEF Spawned
<1>2. Starting(c) /\ rested' = rested /\ child \in [Children -> ChildType] /\ call[c] \in CallType
  BY DEF Spawned, Starting, TypeInv
<1>3. CASE Closed
  <2>1. Over(call[c], "failed").at = "over"
    BY <1>2, OverAt
  <2>2. \A d \in Callers : Starting(d)' => Starting(d)
    BY <1>1, <1>3, <2>1 DEF Starting, TypeInv
  <2>3. \A j \in Children : child'[j].state = IF j = k THEN "gone" ELSE child[j].state
    BY <1>1, <1>2, <1>3 DEF ChildType
  <2>4. call'[Closer] = call[Closer]
    BY <1>1, <1>3, ZeroIsNoChild DEF TypeInv
  <2> QED  BY <1>1, <1>2, <1>3, <2>2, <2>3, <2>4, OwnerKept DEF TypeInv
<1>4. CASE ~Closed
  <2>1. [child EXCEPT ![k] = NewChild] \in [Children -> ChildType]
    BY <1>2, NewTyped
  <2>2. \A j \in Children : child'[j].state = [child EXCEPT ![k] = NewChild][j].state
    BY <1>1, <1>4, <2>1, OwnerSubmit
  <2>3. PICK rec \in CallType : call' = [call EXCEPT ![c] = rec] /\ rec.at \in {"waiting", "over"}
    BY <1>1, <1>4, <2>1, OwnerSubmit
  <2>4. \A d \in Callers : ~Starting(d)'
    BY <1>2, <2>3 DEF Starting, OwnerInv, TypeInv
  <2>5. call'[Closer] = call[Closer] /\ call[Closer].at = "idle" /\ process' = k /\ live' = k
    BY <1>1, <1>4, <2>3, ZeroIsNoChild DEF TypeInv, Closed
  <2>6. \A j \in Children : child'[j].state = "up" => j = k
    BY <1>2, <2>2, <2>5, ZeroIsNoChild DEF OwnerInv, Burying
  <2> QED  BY <2>4, <2>5, <2>6, ZeroIsNoChild DEF OwnerInv, Closed, ClosedLeavesNothing
<1> QED  BY <1>3, <1>4

LEMMA OwnerClose ==
    ASSUME TypeInv, OwnerInv, Close
    PROVE  OwnerInv'
<1>1. call'[Closer].at = "reaping" /\ call'[Closer].reaps = process
  BY DEF Close, TypeInv, CallType
<1>2. \A c \in Callers : call'[c] = call[c]
  BY ZeroIsNoChild DEF Close, TypeInv
<1>3. \A k \in Children : child'[k].state = "up" => k = process
  BY DEF Close, Closed, OwnerInv, Burying
<1> QED  BY <1>1, <1>2, <1>3 DEF Close, OwnerInv, Burying, Closed, Starting, ClosedLeavesNothing

LEMMA OwnerEof ==
    ASSUME TypeInv, OwnerInv, NEW k \in Children, Eof(k)
    PROVE  OwnerInv'
<1>1. \A j \in Children : child'[j].state = IF j = k THEN "gone" ELSE child[j].state
  BY DEF Eof, TypeInv, ChildType
<1>2. CASE live = k
  <2>1. live' = 0 /\ rested' = FALSE /\ call' = FailInflight(call) /\ process' = process
    BY <1>2 DEF Eof
  <2>2. ~Closed /\ process = k /\ call[Closer].at = "idle"
    BY <1>2, ZeroIsNoChild DEF OwnerInv, Closed
  <2>3. call'[Closer] = call[Closer]
    BY <2>1, <2>2, FailInflightLeaves DEF Registered
  <2>4. \A c \in Callers : ~Starting(c)'
    <3>1. \A c \in Callers : ~Starting(c)
      BY <1>2, ZeroIsNoChild DEF OwnerInv
    <3> QED  BY <2>1, <3>1, FailInflightLeaves DEF Starting
  <2>5. \A j \in Children : child'[j].state # "up"
    BY <1>1, <2>2 DEF OwnerInv, Burying
  <2> QED  BY <1>1, <2>1, <2>2, <2>3, <2>4, <2>5 DEF OwnerInv, Closed, ClosedLeavesNothing
<1>3. CASE live # k
  BY <1>1, <1>3, OwnerKept DEF Eof, TypeInv, Starting
<1> QED  BY <1>2, <1>3

LEMMA OwnerInit == Init => OwnerInv
<1> SUFFICES ASSUME Init PROVE OwnerInv
  OBVIOUS
<1>1. \A c \in Callers \cup {Closer} : call[c].at = "idle"
  BY DEF Init, Idle
<1>2. \A k \in Children : child[k].state = IF k = live THEN "up" ELSE "none"
  BY DEF Init, NewChild, NoChild
<1>3. process = live
  BY DEF Init
<1> QED  BY <1>1, <1>2, <1>3 DEF OwnerInv, ClosedLeavesNothing, Closed, Starting

(* What the tasks of the Runs do starts nothing and ends no child.             *)
LEMMA OwnerTask ==
    ASSUME TypeInv, OwnerInv, NEW r \in Runs,
           Consume(r) \/ Drain(r) \/ Abort(r) \/ CancelTask(r)
    PROVE  OwnerInv'
<1>1. call[r] \in CallType /\ r \in Callers /\ live \in Children \cup {0}
      /\ child \in [Children -> ChildType] /\ Frame("abort", r) \in Asks
  BY DEF TypeInv, Callers, Frame, Asks
<1>2. \A k \in Children : Put(child, live, Frame("abort", r))[k].state = child[k].state
  BY <1>1, PutStates
<1>3. \A k \in Children : child'[k].state = child[k].state
  BY <1>2 DEF Consume, Drain, Abort, CancelTask, Finish, StartDrain
<1>4. \A end \in {"ok", "failed", "cancelled"} : [Over(call[r], end) EXCEPT !.queue = <<>>].at = "over"
  BY <1>1, OverAt
<1>5. UNCHANGED <<process, live, rested>>
  BY DEF Consume, Drain, Abort, CancelTask
<1>6. \E rec : call' = [call EXCEPT ![r] = rec] /\ (rec.at \in {"reaping", "spawning"} => Starting(r))
  <2>1. CASE \E end \in {"ok", "failed", "cancelled"} : Finish(r, end)
    BY <1>4, <2>1 DEF Finish
  <2>2. CASE StartDrain(r)
    <3> DEFINE rec == [call[r] EXCEPT !.queue = Tail(call[r].queue), !.at = "draining", !.abortSent = TRUE]
    <3>1. call' = [call EXCEPT ![r] = rec] /\ rec.at = "draining"
      BY <1>1, <2>2 DEF StartDrain, CallType
    <3> HIDE DEF rec
    <3> QED  BY <3>1
  <2>3. CASE call' = [call EXCEPT ![r].queue = Tail(@)]
    <3> DEFINE rec == [call[r] EXCEPT !.queue = Tail(call[r].queue)]
    <3>1. call' = [call EXCEPT ![r] = rec] /\ rec.at = call[r].at
      BY <1>1, <2>3 DEF CallType
    <3> HIDE DEF rec
    <3> QED  BY <3>1 DEF Starting
  <2>4. CASE Abort(r)
    <3> DEFINE rec == [call[r] EXCEPT !.abortSent = @ \/ Registered(r),
                            !.stop = IF call[r].at = "idle" \/ Starting(r) THEN "early"
                                        ELSE "told"]
    <3>1. call' = [call EXCEPT ![r] = rec] /\ rec.at = call[r].at
      BY <1>1, <2>4 DEF Abort, CallType
    <3> HIDE DEF rec
    <3> QED  BY <3>1 DEF Starting
  <2>5. \/ (\E end \in {"ok", "failed", "cancelled"} : Finish(r, end)) \/ StartDrain(r)
        \/ call' = [call EXCEPT ![r].queue = Tail(@)] \/ Abort(r)
    BY DEF Consume, Drain, CancelTask
  <2> QED  BY <2>1, <2>2, <2>3, <2>4, <2>5
<1> QED  BY <1>1, <1>3, <1>5, <1>6, OwnerCall

LEMMA OwnerDeliver ==
    ASSUME TypeInv, OwnerInv, NEW k \in Children, Deliver(k)
    PROVE  OwnerInv'
<1> DEFINE frame == Head(child[k].out)
<1>1. child[k] \in ChildType /\ child[k].out # <<>>
  BY DEF TypeInv, Deliver
<1>2. frame \in Says
  BY <1>1, ChildFields, TailTyped
<1>3. frame.id \in Callers /\ call[frame.id] \in CallType
  BY <1>2, RuntimeAssumption DEF Says, Callers, TypeInv
<1>4. \A j \in Children : child'[j].state = child[j].state
  BY DEF Deliver, TypeInv, ChildType
<1>5. UNCHANGED <<process, live, rested>>
  BY DEF Deliver
<1>6. \/ call' = call
      \/ call' = [call EXCEPT ![frame.id].queue = Append(@, frame.type)]
      \/ call' = [call EXCEPT ![frame.id] = Over(@, "ok")]
  BY DEF Deliver
<1> HIDE DEF frame
<1>7. \E rec : call' = [call EXCEPT ![frame.id] = rec]
               /\ (rec.at \in {"reaping", "spawning"} => Starting(frame.id))
  <2>1. CASE call' = call
    <3>1. call' = [call EXCEPT ![frame.id] = call[frame.id]]
      BY <1>3, <2>1 DEF TypeInv
    <3> QED  BY <3>1 DEF Starting
  <2>2. CASE call' = [call EXCEPT ![frame.id].queue = Append(@, frame.type)]
    <3> DEFINE rec == [call[frame.id] EXCEPT !.queue = Append(call[frame.id].queue, frame.type)]
    <3>1. call' = [call EXCEPT ![frame.id] = rec] /\ rec.at = call[frame.id].at
      BY <1>3, <2>2 DEF CallType
    <3> HIDE DEF rec
    <3> QED  BY <3>1 DEF Starting
  <2>3. CASE call' = [call EXCEPT ![frame.id] = Over(@, "ok")]
    <3>1. Over(call[frame.id], "ok").at = "over"
      BY <1>3, OverAt
    <3> QED  BY <2>3, <3>1
  <2> QED  BY <1>6, <2>1, <2>2, <2>3
<1> QED  BY <1>3, <1>4, <1>5, <1>7, OwnerCall

(* The child's own steps leave the adapter where it was.                       *)
LEMMA OwnerQuiet ==
    ASSUME TypeInv, OwnerInv, UNCHANGED <<call, process, live, rested>>,
           \A k \in Children : /\ child'[k].state = "up" => child[k].state = "up"
                               /\ child[k].state = "gone" => child'[k].state = "gone"
    PROVE  OwnerInv'
<1>1. \A c \in Callers : Starting(c)' => Starting(c)
  BY DEF Starting
<1> QED  BY <1>1, OwnerKept DEF TypeInv

LEMMA OwnerChild ==
    ASSUME TypeInv, OwnerInv, NEW k \in Children,
           HandleLine(k) \/ Die(k) \/ \E r \in Runs : Emit(k, r) \/ EndRun(k, r)
    PROVE  OwnerInv'
<1>1. child[k].state = "up" /\ child \in [Children -> ChildType] /\ child[k] \in ChildType
  BY DEF HandleLine, Die, Emit, EndRun, TypeInv
<1>2. \A j \in Children : j # k => child'[j] = child[j]
  BY <1>1 DEF HandleLine, Die, Emit, EndRun, Say
<1> QED  BY <1>1, <1>2, OwnerQuiet DEF HandleLine, Die, Emit, EndRun

LEMMA OwnerStep == TypeInv /\ OwnerInv /\ [Next]_vars => OwnerInv'
<1> SUFFICES ASSUME TypeInv, OwnerInv, [Next]_vars PROVE OwnerInv'
  OBVIOUS
<1>0. CASE UNCHANGED vars
  BY <1>0, OwnerQuiet DEF vars
<1>1. CASE Close
  BY <1>1, OwnerClose
<1>2. CASE Rest
  <2>1. \A c \in Callers : ~Starting(c) /\ ~Starting(c)'
    BY <1>2 DEF Rest, Starting
  <2> QED  BY <1>2, <2>1, OwnerKept DEF Rest, TypeInv
<1>3. CASE ReapDone(Closer)
  BY <1>3, OwnerReapDone
<1>4. ASSUME NEW c \in Callers, Begin(c) \/ ReapDone(c) \/ Spawned(c) \/ SpawnFails(c)
      PROVE  OwnerInv'
  BY <1>4, OwnerBegin, OwnerReapDone, OwnerSpawned, OwnerRefuse DEF SpawnFails
<1>5. ASSUME NEW p \in Probes, ProbeTimeout(p) PROVE OwnerInv'
  BY <1>5, OwnerRefuse DEF ProbeTimeout, Callers
<1>6. ASSUME NEW r \in Runs, Consume(r) \/ Drain(r) \/ Abort(r) \/ CancelTask(r)
      PROVE  OwnerInv'
  BY <1>6, OwnerTask
<1>7. ASSUME NEW k \in Children, Deliver(k) \/ Eof(k) PROVE OwnerInv'
  BY <1>7, OwnerDeliver, OwnerEof
<1>8. ASSUME NEW k \in Children,
             HandleLine(k) \/ Die(k) \/ \E r \in Runs : Emit(k, r) \/ EndRun(k, r)
      PROVE  OwnerInv'
  BY <1>8, OwnerChild
<1> QED  BY <1>0, <1>1, <1>2, <1>3, <1>4, <1>5, <1>6, <1>7, <1>8 DEF Next

LEMMA CoreInvariant == Spec => []CoreInv
<1>1. Init => CoreInv
  BY InitTyped, OwnerInit DEF CoreInv
<1>2. CoreInv /\ [Next]_vars => CoreInv'
  BY TypeStep, OwnerStep DEF CoreInv
<1> QED  BY <1>1, <1>2, PTL DEF Spec

(* However many calls find the child dead at once, a child that runs is the
   adapter's own or one that aclose() waits to bury, and aclose() leaves none. *)
THEOREM OneOwnedChild == Spec => []EveryChildIsOwned
<1>1. CoreInv => EveryChildIsOwned
  BY DEF CoreInv, OwnerInv, EveryChildIsOwned, OneChild, Burying, Reaped
<1> QED  BY <1>1, CoreInvariant, PTL

-----------------------------------------------------------------------------
(* Who works for whom.  A step of anybody else leaves a child's view of a Run
   as it was, or forgets some of it.                                          *)
Quiet(k, r) ==
    /\ Knows(k, r)' => Knows(k, r)
    /\ Has(k, r)' => /\ Has(k, r) /\ (Burying(k) => Burying(k)')
                     /\ Holds(child[k].stdin, Frame("abort", r)) => Holds(child'[k].stdin, Frame("abort", r))
    /\ First(child'[k].stdin, r)
    /\ child'[k].work[r] # "none" => ~Holds(child'[k].stdin, Frame("run", r))
    /\ Fresh(r) => /\ child'[k].work[r] = "none"
                   /\ \A f \in About(r) : ~Holds(child'[k].stdin, f) /\ ~Holds(child'[k].out, f)

(* What the Run itself hears meanwhile: nothing new ends it, unless its child
   is dead or about to be.                                                   *)
HearsNoEnd(r) ==
    /\ Ending(r)' => Ending(r)
    /\ Holds(call'[r].queue, "exit") => \/ Holds(call[r].queue, "exit")
                                        \/ \A k \in Children : Has(k, r)' => Burying(k)'

LEMMA QuietStep ==
    ASSUME NEW r \in Runs, RunInv(r), \A k \in Children : Quiet(k, r), HearsNoEnd(r),
           Fresh(r)' <=> Fresh(r), Fresh(r) => call'[r].queue = call[r].queue,
           call'[r].at = "draining" => call[r].at = "draining",
           call'[r].at = "over" <=> call[r].at = "over",
           call'[r].abortSent = call[r].abortSent, call'[r].to = call[r].to,
           \/ call'[r].stop = call[r].stop
           \/ call[r].stop = "no" /\ (call'[r].stop = "early" \/ call[r].at = "over")
    PROVE  RunInv(r)'
<1>1. FreshInv(r)'
  BY DEF FreshInv, RunInv, Quiet
<1>2. AskedInv(r)'
  BY DEF AskedInv, RunInv, Quiet
<1>3. ToldInv(r)'
  BY DEF ToldInv, RunInv, Quiet
<1>4. EndInv(r)'
  BY DEF EndInv, RunInv, Quiet, HearsNoEnd
<1> QED  BY <1>1, <1>2, <1>3, <1>4 DEF RunInv

LEMMA EndingKept ==
    ASSUME NEW r \in Runs, call'[r].queue = call[r].queue,
           \A k \in Children, f \in About(r) : Holds(child'[k].out, f) => Holds(child[k].out, f)
    PROVE  HearsNoEnd(r)
<1>1. \A type \in Terminal : Frame(type, r) \in About(r)
  BY DEF Frame, About, FrameType, Callers
<1> QED  BY <1>1 DEF HearsNoEnd, Ending

LEMMA CalmStep ==
    ASSUME NEW r \in Runs, RunInv(r), call'[r] = call[r], \A k \in Children : Quiet(k, r),
           \A k \in Children, f \in About(r) : Holds(child'[k].out, f) => Holds(child[k].out, f)
    PROVE  RunInv(r)'
<1>1. HearsNoEnd(r)
  BY EndingKept
<1>2. Fresh(r)' <=> Fresh(r)
  BY DEF Fresh
<1> QED  BY <1>1, <1>2, QuietStep

(* Nobody knows a Run: whatever its task does leaves no work behind.           *)
LEMMA UnknownStep ==
    ASSUME NEW r \in Runs, ~Fresh(r)',
           \A k \in Children : /\ ~Knows(k, r)' /\ First(child'[k].stdin, r)
                               /\ child'[k].work[r] # "none" => ~Holds(child'[k].stdin, Frame("run", r)),
           call'[r].at = "draining" => call'[r].abortSent,
           call'[r].stop = "told" /\ call'[r].at # "over" => call'[r].abortSent
    PROVE  RunInv(r)'
<1>1. \A k \in Children : ~Has(k, r)'
  BY DEF Has, Knows
<1> QED  BY <1>1 DEF RunInv, FreshInv, AskedInv, ToldInv, EndInv

(* A child left alone, one that lost its pipes, and one that moved a frame.    *)
LEMMA QuietSame ==
    ASSUME NEW r \in Runs, RunInv(r), NEW k \in Children, child'[k] = child[k],
           child[k].state = "up" /\ Burying(k) => Burying(k)'
    PROVE  Quiet(k, r) /\ \A f \in About(r) : Holds(child'[k].out, f) => Holds(child[k].out, f)
<1>1. (Knows(k, r)' <=> Knows(k, r)) /\ (Has(k, r)' <=> Has(k, r))
  BY DEF Knows, Has
<1>2. Has(k, r) => child[k].state = "up"
  BY DEF Has
<1> QED  BY <1>1, <1>2 DEF Quiet, RunInv, AskedInv, FreshInv

LEMMA EmptyHolds == \A f : ~Holds(<<>>, f)
  BY DEF Holds

LEMMA QuietEmpty ==
    ASSUME NEW r \in Runs, RunInv(r), NEW k \in Children, child'[k].work[r] = "none",
           \A f \in About(r) : ~Holds(child'[k].stdin, f),
           child'[k].out \in {<<>>, child[k].out}
    PROVE  Quiet(k, r) /\ \A f \in About(r) : Holds(child'[k].out, f) => Holds(child[k].out, f)
<1>1. Frame("run", r) \in About(r)
  BY DEF Frame, About, FrameType, Callers
<1>2. ~Knows(k, r)' /\ ~Has(k, r)'
  BY <1>1 DEF Knows, Has
<1>3. First(child'[k].stdin, r)
  BY <1>1 DEF First, Holds
<1>4. \A f \in About(r) : Holds(child'[k].out, f) => Holds(child[k].out, f)
  BY EmptyHolds
<1> QED  BY <1>1, <1>2, <1>3, <1>4 DEF Quiet, RunInv, FreshInv

LEMMA QuietGone ==
    ASSUME NEW r \in Runs, RunInv(r), NEW k \in Children, child'[k].state # "up",
           child'[k].stdin = child[k].stdin, child'[k].work = child[k].work, child'[k].out = child[k].out
    PROVE  Quiet(k, r) /\ \A f \in About(r) : Holds(child'[k].out, f) => Holds(child[k].out, f)
<1>1. ~Knows(k, r)' /\ ~Has(k, r)'
  BY DEF Knows, Has
<1> QED  BY <1>1 DEF Quiet, RunInv, AskedInv, FreshInv

LEMMA QuietPipes ==
    ASSUME NEW r \in Runs, RunInv(r), NEW k \in Children, child[k] \in ChildType,
           child'[k].state = child[k].state, child'[k].work[r] = child[k].work[r],
           \/ child'[k].stdin = child[k].stdin
           \/ \E g \in Asks : g.id # r /\ child'[k].stdin = Append(child[k].stdin, g)
           \/ child[k].stdin # <<>> /\ Head(child[k].stdin).id # r /\ child'[k].stdin = Tail(child[k].stdin),
           \/ child'[k].out = child[k].out
           \/ \E h \in Says : h.id # r /\ child'[k].out = Append(child[k].out, h)
           \/ child[k].out # <<>> /\ child'[k].out = Tail(child[k].out),
           Burying(k) => Burying(k)'
    PROVE  Quiet(k, r) /\ \A f \in About(r) : Holds(child'[k].out, f) => Holds(child[k].out, f)
<1> DEFINE s == child[k].stdin
           o == child[k].out
<1>1. s \in Seq(FrameType) /\ o \in Seq(FrameType) /\ First(s, r)
  BY ChildFields DEF RunInv, AskedInv
<1>2. \A f \in About(r) : f.id = r
  BY DEF About
<1>3. Frame("run", r) \in About(r) /\ Frame("abort", r) \in About(r)
  BY DEF Frame, About, FrameType, Callers
<1> HIDE DEF s, o
<1>4. ASSUME NEW g \in Asks, g.id # r
      PROVE  First(Append(s, g), r) /\ \A f \in About(r) : Holds(Append(s, g), f) <=> Holds(s, f)
  <2>1. g \in FrameType
    BY FramesHaveTypes
  <2>2. g # Frame("run", r)
    BY <1>2, <1>3, <1>4
  <2>3. First(Append(s, g), r)
    BY <1>1, <2>1, <2>2, FirstAppend
  <2> QED  BY <1>1, <1>2, <1>4, <2>1, <2>3, HoldsAppend
<1>5. ASSUME NEW h \in Says, h.id # r
      PROVE  \A f \in About(r) : Holds(Append(o, h), f) <=> Holds(o, f)
  <2>1. h \in FrameType
    BY FramesHaveTypes
  <2> QED  BY <1>1, <1>2, <1>5, <2>1, HoldsAppend
<1>6. s # <<>> /\ Head(s).id # r
      => First(Tail(s), r) /\ \A f \in About(r) : Holds(Tail(s), f) <=> Holds(s, f)
  <2>1. s # <<>> => First(Tail(s), r)
    BY <1>1, FirstTail
  <2> QED  BY <1>1, <1>2, <2>1, HoldsTail
<1>7. o # <<>> => \A f \in About(r) : Holds(Tail(o), f) => Holds(o, f)
  BY <1>1, HoldsTail
<1>8. First(child'[k].stdin, r) /\ \A f \in About(r) : Holds(child'[k].stdin, f) <=> Holds(child[k].stdin, f)
  BY <1>1, <1>4, <1>6 DEF s
<1>9. \A f \in About(r) : Holds(child'[k].out, f) => Holds(child[k].out, f)
  BY <1>5, <1>7 DEF o
<1>10. (Knows(k, r)' <=> Knows(k, r)) /\ (Has(k, r)' <=> Has(k, r))
  BY <1>3, <1>8 DEF Knows, Has
<1> QED  BY <1>3, <1>8, <1>9, <1>10 DEF Quiet, RunInv, AskedInv, FreshInv

LEMMA ChildSame ==
    ASSUME NEW r \in Runs, RunInv(r), UNCHANGED child,
           \A k \in Children : child[k].state = "up" /\ Burying(k) => Burying(k)'
    PROVE  /\ \A k \in Children : Quiet(k, r)
           /\ \A k \in Children, f \in About(r) : Holds(child'[k].out, f) => Holds(child[k].out, f)
  BY QuietSame

LEMMA BuryingKept ==
    ASSUME call'[Closer] = call[Closer]
    PROVE  \A k \in Children : Burying(k) => Burying(k)'
  BY DEF Burying

(* A call of somebody else that touches no pipe.                               *)
LEMMA OtherCall ==
    ASSUME TypeInv, NEW r \in Runs, RunInv(r), NEW c \in Callers, c # r, NEW rec,
           call' = [call EXCEPT ![c] = rec], UNCHANGED child
    PROVE  RunInv(r)'
<1>1. call'[r] = call[r] /\ call'[Closer] = call[Closer]
  BY ZeroIsNoChild DEF TypeInv, Callers
<1> QED  BY <1>1, BuryingKept, ChildSame, CalmStep

(* The Run's frame is written: one child is asked, or none can be.             *)
Untold(children, r) ==
    \A j \in Children : /\ children[j].work[r] = "none"
                        /\ \A f \in About(r) : ~Holds(children[j].stdin, f) /\ ~Holds(children[j].out, f)

LEMMA SubmitOwn ==
    ASSUME TypeInv, NEW r \in Runs, RunInv(r), Fresh(r), NEW k \in Children,
           NEW children \in [Children -> ChildType], Untold(children, r),
           Submit(call, children, r, k)
    PROVE  RunInv(r)'
<1> DEFINE run == Frame("run", r)
<1>1. call[r] \in CallType /\ call[r].queue = <<>> /\ call[r].abortSent = FALSE
  BY DEF TypeInv, Callers, RunInv, FreshInv, CallType
<1>2. run \in Asks /\ run \in About(r) /\ run \in FrameType /\ k \in Children \cup {0}
  BY DEF Frame, Asks, About, FrameType, Callers
<1>3. \A j \in Children : First(children[j].stdin, r)
  BY <1>2 DEF First, Untold, Holds
<1>4. CASE call' = [call EXCEPT ![r].at = "waiting", ![r].to = k] /\ child' = Put(children, k, run)
  <2>1. /\ call'[r].at = "waiting" /\ call'[r].to = k /\ call'[r].queue = <<>>
        /\ ~call'[r].abortSent /\ call'[r].stop = call[r].stop
    BY <1>1, <1>4 DEF TypeInv, CallType, Callers
  <2> HIDE DEF run
  <2>2. \A j \in Children :
          /\ child'[j].state = children[j].state /\ child'[j].work[r] = "none"
          /\ child'[j].out = children[j].out
          /\ child'[j].stdin = IF j = k /\ children[j].state = "up"
                               THEN Append(children[j].stdin, run) ELSE children[j].stdin
    BY <1>2, <1>4, PutLeaves DEF Untold
  <2>3. \A j \in Children : Knows(j, r)' => j = k
    BY <1>2, <2>2 DEF Knows, Untold, run
  <2>4. \A j \in Children : First(child'[j].stdin, r)
    <3>1. \A j \in Children : children[j].stdin \in Seq(FrameType)
      BY ChildFields
    <3>2. \A j \in Children : First(Append(children[j].stdin, run), r)
      BY <1>2, <1>3, <3>1, FirstAppend DEF Untold
    <3> QED  BY <1>3, <2>2, <3>2
  <2>5. call[r].stop # "told"
    BY <1>1 DEF RunInv, ToldInv, Fresh
  <2>6. ~Ending(r)' /\ ~Holds(call'[r].queue, "exit")
    <3>1. \A type \in Terminal : Frame(type, r) \in About(r)
      BY DEF Frame, About, FrameType, Callers
    <3> QED  BY <2>1, <2>2, <3>1, EmptyHolds DEF Ending, Untold
  <2> QED  BY <2>1, <2>2, <2>3, <2>4, <2>5, <2>6
           DEF RunInv, FreshInv, Fresh, AskedInv, ToldInv, EndInv
<1>5. CASE call' = [call EXCEPT ![r] = Over(@, "failed")] /\ child' = children
  <2>1. call'[r].at = "over"
    BY <1>1, <1>5, OverAt DEF TypeInv, Callers
  <2>2. \A j \in Children : ~Knows(j, r)'
    BY <1>2, <1>5 DEF Knows, Untold
  <2> QED  BY <1>3, <1>5, <2>1, <2>2, UnknownStep DEF Fresh, Untold
<1> QED  BY <1>4, <1>5 DEF Submit

LEMMA FreshIsUnknown ==
    ASSUME NEW r \in Runs, RunInv(r), Fresh(r)
    PROVE  Untold(child, r) /\ \A k \in Children : ~Knows(k, r)
<1>1. Frame("run", r) \in About(r)
  BY DEF Frame, About, FrameType, Callers
<1> QED  BY <1>1 DEF Untold, Knows, RunInv, FreshInv

LEMMA RefuseRun ==
    ASSUME TypeInv, NEW r \in Runs, RunInv(r), NEW c \in Callers, Refuse(c), c = r => Fresh(r)
    PROVE  RunInv(r)'
<1>1. CASE c # r
  BY <1>1, OtherCall DEF Refuse
<1>2. CASE c = r
  <2>1. call'[r].at = "over"
    BY <1>2, OverAt DEF Refuse, TypeInv
  <2>2. \A k \in Children : ~Knows(k, r)
    BY <1>2, FreshIsUnknown
  <2>3. \A k \in Children : ~Knows(k, r)' /\ child'[k] = child[k]
    BY <2>2 DEF Knows, Refuse
  <2> QED  BY <2>1, <2>3, UnknownStep DEF Fresh, RunInv, AskedInv
<1> QED  BY <1>1, <1>2

LEMMA NewIsEmpty ==
    ASSUME NEW r \in Runs
    PROVE  NewChild.work[r] = "none" /\ NewChild.stdin = <<>> /\ NewChild.out = <<>> /\ NewChild.state = "up"
  BY DEF NewChild, NoChild

LEMMA BeginRun ==
    ASSUME CoreInv, NEW r \in Runs, RunInv(r), NEW c \in Callers, Begin(c)
    PROVE  RunInv(r)'
<1>0. TypeInv
  BY DEF CoreInv
<1>1. CASE live # 0 /\ Submit(call, child, c, live)
  <2>1. live \in Children /\ live \in Children \cup {0} /\ child \in [Children -> ChildType]
    BY <1>0, <1>1 DEF TypeInv
  <2>2. CASE c = r
    BY <1>0, <1>1, <2>1, <2>2, SubmitOwn, FreshIsUnknown DEF Begin, Fresh
  <2>3. CASE c # r
    <3>1. PICK rec \in CallType : call' = [call EXCEPT ![c] = rec]
      BY <1>0, <1>1, <2>1, OwnerSubmit
    <3>2. call'[r] = call[r] /\ call'[Closer] = call[Closer]
      BY <1>0, <2>3, <3>1, ZeroIsNoChild DEF TypeInv, Callers
    <3> DEFINE g == Frame(IF c \in Runs THEN "run" ELSE "probe", c)
    <3>3. g \in Asks /\ g.id # r
      BY <2>3, SubmitFrame DEF Frame
    <3>4. child' = child \/ child' = Put(child, live, g)
      BY <1>1 DEF Submit
    <3> HIDE DEF g
    <3>5. \A k \in Children :
            /\ child'[k].state = child[k].state /\ child'[k].work[r] = child[k].work[r]
            /\ child'[k].out = child[k].out
            /\ child'[k].stdin \in {child[k].stdin, Append(child[k].stdin, g)}
      <4> DEFINE put == Put(child, live, g)
      <4>1. \A k \in Children :
              /\ put[k].state = child[k].state /\ put[k].work = child[k].work /\ put[k].out = child[k].out
              /\ put[k].stdin = IF k = live /\ child[k].state = "up"
                                THEN Append(child[k].stdin, g) ELSE child[k].stdin
        BY <2>1, <3>3, PutLeaves
      <4> HIDE DEF put
      <4> QED  BY <3>4, <4>1 DEF put
    <3>6. \A k \in Children : child[k] \in ChildType /\ (Burying(k) => Burying(k)')
      BY <2>1, <3>2, BuryingKept
    <3>7. \A k \in Children : Quiet(k, r) /\ \A f \in About(r) : Holds(child'[k].out, f) => Holds(child[k].out, f)
      BY <3>3, <3>5, <3>6, QuietPipes
    <3> QED  BY <3>2, <3>7, CalmStep
  <2> QED  BY <2>2, <2>3
<1>2. CASE Refuse(c)
  BY <1>0, <1>2, RefuseRun DEF Begin, Fresh
<1>3. CASE /\ UNCHANGED child
           /\ call' = [call EXCEPT ![c].at = IF process = 0 THEN "spawning" ELSE "reaping",
                                   ![c].reaps = process]
  <2>1. CASE c # r
    <3>1. call'[r] = call[r] /\ call'[Closer] = call[Closer]
      BY <1>0, <1>3, <2>1, ZeroIsNoChild DEF TypeInv, Callers
    <3> QED  BY <1>3, <3>1, BuryingKept, ChildSame, CalmStep
  <2>2. CASE c = r
    <3> DEFINE at == IF process = 0 THEN "spawning" ELSE "reaping"
    <3>1. at \in {"spawning", "reaping"} /\ call[r] \in CallType
      BY <1>0 DEF TypeInv, Callers
    <3>2. call' = [call EXCEPT ![r].at = at, ![r].reaps = process]
      BY <1>3, <2>2
    <3> HIDE DEF at
    <3>3. /\ call'[r].at = at /\ call'[r].queue = call[r].queue /\ call'[r].to = call[r].to
          /\ call'[r].abortSent = call[r].abortSent /\ call'[r].stop = call[r].stop
      BY <1>0, <3>1, <3>2 DEF TypeInv, CallType, Callers
    <3>4. call'[Closer] = call[Closer]
      BY <1>0, <3>2, ZeroIsNoChild DEF TypeInv, Callers
    <3>5. /\ \A k \in Children : Quiet(k, r)
          /\ HearsNoEnd(r)
      BY <1>3, <3>3, <3>4, BuryingKept, ChildSame, EndingKept
    <3>6. call[r].at = "idle"
      BY <2>2 DEF Begin
    <3> QED  BY <3>1, <3>3, <3>5, <3>6, QuietStep DEF Fresh
  <2> QED  BY <2>1, <2>2
<1> QED  BY <1>1, <1>2, <1>3 DEF Begin

LEMMA SpawnedRun ==
    ASSUME CoreInv, NEW r \in Runs, RunInv(r), NEW c \in Callers, Spawned(c)
    PROVE  RunInv(r)'
<1>1. PICK k \in Children :
          IF Closed
          THEN /\ child' = [child EXCEPT ![k].state = "gone"]
               /\ call' = [call EXCEPT ![c] = Over(@, "failed")]
               /\ UNCHANGED <<process, live>>
          ELSE /\ process' = k /\ live' = k
               /\ Submit(call, [child EXCEPT ![k] = NewChild], c, k)
  BY DEF Spawned
<1>2. TypeInv /\ OwnerInv /\ child \in [Children -> ChildType] /\ k \in Children \cup {0}
      /\ (c = r => Fresh(r))
  BY DEF CoreInv, Spawned, Fresh, TypeInv
<1>3. CASE Closed
  <2>1. \A j \in Children :
           /\ child'[j] = IF j = k THEN [child[k] EXCEPT !.state = "gone"] ELSE child[j]
           /\ j = k => /\ child'[j].state = "gone" /\ child'[j].stdin = child[j].stdin
                       /\ child'[j].work = child[j].work /\ child'[j].out = child[j].out
    BY <1>1, <1>2, <1>3 DEF ChildType
  <2>2. call'[Closer] = call[Closer]
    BY <1>1, <1>2, <1>3, ZeroIsNoChild DEF TypeInv
  <2>3. \A j \in Children : Quiet(j, r) /\ \A f \in About(r) : Holds(child'[j].out, f) => Holds(child[j].out, f)
    BY <2>1, <2>2, BuryingKept, QuietSame, QuietGone
  <2>4. CASE c # r
    <3>1. call'[r] = call[r]
      BY <1>1, <1>2, <1>3, <2>4 DEF TypeInv, Callers
    <3> QED  BY <2>3, <3>1, CalmStep
  <2>5. CASE c = r
    <3>1. call'[r].at = "over"
      BY <1>1, <1>2, <1>3, <2>5, OverAt DEF TypeInv
    <3>2. \A j \in Children : ~Knows(j, r)' /\ First(child'[j].stdin, r)
      BY <1>2, <2>3, <2>5, FreshIsUnknown DEF Quiet
    <3>3. \A j \in Children : child'[j].work[r] # "none" => ~Holds(child'[j].stdin, Frame("run", r))
      BY <2>3 DEF Quiet
    <3> QED  BY <3>1, <3>2, <3>3, UnknownStep DEF Fresh
  <2> QED  BY <2>4, <2>5
<1>4. CASE ~Closed
  <2> DEFINE fresh == [child EXCEPT ![k] = NewChild]
  <2>1. fresh \in [Children -> ChildType] /\ fresh[k] = NewChild
        /\ \A j \in Children : j # k => fresh[j] = child[j]
    BY <1>2, NewTyped
  <2>2. Submit(call, fresh, c, k)
    BY <1>1, <1>4
  <2> HIDE DEF fresh
  <2>3. CASE c = r
    <3>1. Untold(fresh, r)
      <4>1. \A j \in Children : fresh[j].work[r] = "none"
        BY <1>2, <2>1, <2>3, NewIsEmpty, FreshIsUnknown DEF Untold
      <4>2. \A j \in Children, f \in About(r) : ~Holds(fresh[j].stdin, f) /\ ~Holds(fresh[j].out, f)
        BY <1>2, <2>1, <2>3, NewIsEmpty, EmptyHolds, FreshIsUnknown DEF Untold
      <4> QED  BY <4>1, <4>2 DEF Untold
    <3> QED  BY <1>2, <2>1, <2>2, <2>3, <3>1, SubmitOwn
  <2>4. CASE c # r
    <3>1. PICK rec \in CallType : call' = [call EXCEPT ![c] = rec]
      BY <1>2, <2>1, <2>2, OwnerSubmit
    <3>2. call'[r] = call[r] /\ call'[Closer] = call[Closer]
      BY <1>2, <2>4, <3>1, ZeroIsNoChild DEF TypeInv, Callers
    <3> DEFINE g == Frame(IF c \in Runs THEN "run" ELSE "probe", c)
               put == Put(fresh, k, g)
    <3>3. g \in Asks /\ g.id # r /\ g \in FrameType
      BY <2>4, SubmitFrame, FramesHaveTypes DEF Frame
    <3>4. child' = fresh \/ child' = put
      BY <2>2 DEF Submit
    <3> HIDE DEF g
    <3>5. \A j \in Children :
            /\ put[j].work = fresh[j].work /\ put[j].out = fresh[j].out
            /\ put[j].stdin = IF j = k /\ fresh[j].state = "up"
                              THEN Append(fresh[j].stdin, g) ELSE fresh[j].stdin
            /\ j # k => put[j] = fresh[j]
      <4>1. \A j \in Children :
            /\ put[j].work = fresh[j].work /\ put[j].out = fresh[j].out
            /\ put[j].stdin = IF j = k /\ fresh[j].state = "up"
                              THEN Append(fresh[j].stdin, g) ELSE fresh[j].stdin
        BY <1>2, <2>1, <3>3, PutLeaves
      <4>2. \A j \in Children : j # k => put[j] = fresh[j]
        BY <2>1 DEF Put
      <4> QED  BY <4>1, <4>2
    <3> HIDE DEF put
    <3>6. \A f \in About(r) : ~Holds(<<>>, f) /\ ~Holds(Append(<<>>, g), f)
      <4>1. \A f \in About(r) : f # g
        BY <3>3 DEF About
      <4>2. <<>> \in Seq(FrameType)
        OBVIOUS
      <4> QED  BY <3>3, <4>1, <4>2, HoldsAppend, EmptyHolds
    <3>7. /\ child'[k].work[r] = "none" /\ child'[k].out = <<>>
          /\ \A f \in About(r) : ~Holds(child'[k].stdin, f)
      BY <2>1, <3>4, <3>5, <3>6, NewIsEmpty
    <3>8. \A j \in Children : j # k => child'[j] = child[j]
      BY <2>1, <3>4, <3>5
    <3>9. \A j \in Children : Quiet(j, r) /\ \A f \in About(r) : Holds(child'[j].out, f) => Holds(child[j].out, f)
      BY <3>2, <3>7, <3>8, BuryingKept, QuietSame, QuietEmpty
    <3> QED  BY <3>2, <3>9, CalmStep
  <2> QED  BY <2>3, <2>4
<1> QED  BY <1>3, <1>4

(* The end of a child, as the Runs in flight hear it.                          *)
LEMMA AppendExit ==
    ASSUME NEW q \in Seq(Events)
    PROVE  \A type \in Terminal : Holds(Append(q, "exit"), type) => Holds(q, type)
<1>1. "exit" \in Events /\ "exit" \notin Terminal
  BY DEF Events, Terminal
<1> QED  BY <1>1, HoldsAppend

LEMMA ExitHeard ==
    ASSUME TypeInv, NEW r \in Runs, RunInv(r), Registered(r),
           \A k \in Children : Quiet(k, r),
           \A k \in Children, f \in About(r) : Holds(child'[k].out, f) => Holds(child[k].out, f),
           call'[r] = [call[r] EXCEPT !.queue = Append(call[r].queue, "exit")],
           \A k \in Children : child'[k].state = "up" => Burying(k)'
    PROVE  RunInv(r)'
<1>1. call[r] \in CallType
  BY DEF TypeInv, Callers
<1>2. /\ call'[r].at = call[r].at /\ call'[r].to = call[r].to /\ call'[r].stop = call[r].stop
      /\ call'[r].abortSent = call[r].abortSent /\ call'[r].queue = Append(call[r].queue, "exit")
  BY <1>1 DEF CallType
<1>3. \A type \in Terminal : Frame(type, r) \in About(r)
  BY DEF Frame, About, FrameType, Callers
<1>4. Ending(r)' => Ending(r)
  BY <1>1, <1>2, <1>3, AppendExit, CallFields DEF Ending
<1>5. HearsNoEnd(r)
  BY <1>4 DEF HearsNoEnd, Has
<1>6. ~Fresh(r) /\ (Fresh(r)' <=> Fresh(r))
  BY <1>2 DEF Fresh, Registered
<1> QED  BY <1>2, <1>5, <1>6, QuietStep

LEMMA ReapDoneRun ==
    ASSUME CoreInv, NEW r \in Runs, RunInv(r), NEW c \in Callers \cup {Closer}, ReapDone(c)
    PROVE  RunInv(r)'
<1> DEFINE told == FailInflight(call)
<1>1. TypeInv /\ OwnerInv /\ told \in [Callers \cup {Closer} -> CallType] /\ UNCHANGED child
  BY FailInflightTyped DEF CoreInv, ReapDone
<1>2. call' = [told EXCEPT ![c].at = IF c = Closer THEN "over" ELSE "spawning", ![c].reaps = 0]
  BY DEF ReapDone
<1>3. \A k \in Children : child[k].state = "up" => Burying(k) /\ Burying(k)'
  <2>1. CASE c = Closer
    <3>1. \A k \in Children : child[k].state # "up"
      BY <1>1, <2>1, ZeroIsNoChild DEF OwnerInv, Closed, Burying, ReapDone
    <3> QED  BY <3>1
  <2>2. CASE c \in Callers
    <3>1. c # Closer /\ ~Registered(Closer)
      BY <1>1, <2>2, ZeroIsNoChild DEF OwnerInv, Registered
    <3>2. call'[Closer] = told[Closer]
      BY <1>1, <1>2, <3>1
    <3>3. call'[Closer] = call[Closer]
      BY <1>1, <3>1, <3>2, FailInflightLeaves
    <3>4. \A k \in Children : child[k].state = "up" => Burying(k)
      BY <1>1, <2>2, ZeroIsNoChild DEF OwnerInv, ReapDone, Starting
    <3> QED  BY <3>3, <3>4, BuryingKept
  <2> QED  BY <2>1, <2>2
<1>4. /\ \A k \in Children : Quiet(k, r)
      /\ \A k \in Children, f \in About(r) : Holds(child'[k].out, f) => Holds(child[k].out, f)
  BY <1>1, <1>3, ChildSame
<1>5. CASE c = r
  <2>1. ~Registered(r) /\ r # Closer /\ call[r].at = "reaping" /\ r \in Callers
    BY <1>5, ZeroIsNoChild DEF Registered, ReapDone, Callers
  <2>2. told[r] = call[r]
    BY <1>1, <2>1, FailInflightLeaves
  <2> HIDE DEF told
  <2>3. /\ call'[r].at = "spawning" /\ call'[r].queue = call[r].queue /\ call'[r].to = call[r].to
        /\ call'[r].abortSent = call[r].abortSent /\ call'[r].stop = call[r].stop
    BY <1>1, <1>2, <1>5, <2>1, <2>2 DEF CallType
  <2>4. HearsNoEnd(r)
    BY <1>4, <2>3, EndingKept
  <2> QED  BY <1>4, <2>1, <2>3, <2>4, QuietStep DEF Fresh
<1>6. CASE c # r
  <2>1. call'[r] = told[r] /\ r \in Callers \cup {Closer}
    BY <1>1, <1>2, <1>6 DEF Callers
  <2>2. CASE Registered(r)
    BY <1>1, <1>3, <1>4, <2>1, <2>2, FailInflightLeaves, ExitHeard
  <2>3. CASE ~Registered(r)
    BY <1>1, <1>4, <2>1, <2>3, FailInflightLeaves, CalmStep
  <2> QED  BY <2>2, <2>3
<1> QED  BY <1>5, <1>6

LEMMA EofRun ==
    ASSUME CoreInv, NEW r \in Runs, RunInv(r), NEW k \in Children, Eof(k)
    PROVE  RunInv(r)'
<1>1. TypeInv /\ OwnerInv /\ r \in Callers \cup {Closer}
  BY DEF CoreInv, Callers
<1>2. \A j \in Children : j # k => child'[j] = child[j]
  BY <1>1 DEF Eof, TypeInv
<1>3. /\ child'[k].state = "gone" /\ child'[k].stdin = child[k].stdin
      /\ child'[k].work = child[k].work /\ child'[k].out = child[k].out
  BY <1>1 DEF Eof, TypeInv, ChildType
<1>4. call'[Closer] = call[Closer]
  <2>1. ~Registered(Closer)
    BY <1>1 DEF OwnerInv, Registered
  <2> QED  BY <1>1, <2>1, FailInflightLeaves DEF Eof
<1>5. /\ \A j \in Children : Quiet(j, r)
      /\ \A j \in Children, f \in About(r) : Holds(child'[j].out, f) => Holds(child[j].out, f)
  BY <1>2, <1>3, <1>4, BuryingKept, QuietSame, QuietGone
<1>6. CASE live = k /\ Registered(r)
  <2>1. \A j \in Children : child[j].state = "up" => Burying(j)
    BY <1>1, <1>6, UpIsLive DEF Eof
  <2>2. \A j \in Children : child'[j].state = "up" => Burying(j)'
    BY <1>2, <1>3, <1>4, <2>1, BuryingKept
  <2>3. call'[r] = [call[r] EXCEPT !.queue = Append(call[r].queue, "exit")]
    BY <1>1, <1>6, FailInflightLeaves DEF Eof
  <2> QED  BY <1>1, <1>5, <1>6, <2>2, <2>3, ExitHeard
<1>7. CASE ~(live = k /\ Registered(r))
  <2>1. call'[r] = call[r]
    BY <1>1, <1>7, FailInflightLeaves DEF Eof
  <2> QED  BY <1>5, <2>1, CalmStep
<1> QED  BY <1>6, <1>7

(* A Run ends, and what was left in its queue is forgotten.                    *)
LEMMA FinishRun ==
    ASSUME CoreInv, NEW r \in Runs, RunInv(r), NEW end \in {"ok", "failed", "cancelled"}, Finish(r, end),
           \A k \in Children : Has(k, r) => call[r].abortSent \/ call[r].stop = "early" \/ Burying(k)
    PROVE  RunInv(r)'
<1>1. TypeInv /\ call[r] \in CallType /\ r \in Callers
  BY DEF CoreInv, TypeInv, Callers
<1> DEFINE rec == Over(call[r], end)
<1>2. rec \in CallType /\ rec.at = "over"
  BY <1>1, OverTyped
<1>3. rec.to = call[r].to /\ rec.abortSent = call[r].abortSent /\ rec.stop = call[r].stop
  BY <1>1 DEF CallType, Over
<1> HIDE DEF rec
<1>4. call' = [call EXCEPT ![r] = [rec EXCEPT !.queue = <<>>]] /\ UNCHANGED child
  BY DEF Finish, rec
<1>5. /\ call'[r].at = "over" /\ call'[r].queue = <<>> /\ call'[r].to = call[r].to
      /\ call'[r].abortSent = call[r].abortSent /\ call'[r].stop = call[r].stop
  BY <1>1, <1>2, <1>3, <1>4 DEF TypeInv, CallType
<1>6. call'[Closer] = call[Closer]
  BY <1>1, <1>4, ZeroIsNoChild DEF TypeInv
<1>7. \A k \in Children : (Has(k, r)' <=> Has(k, r)) /\ (Knows(k, r)' <=> Knows(k, r)) /\ (Burying(k)' <=> Burying(k))
  BY <1>4, <1>6 DEF Has, Knows, Burying
<1>8. Ending(r)' => Ending(r)
  BY <1>4, <1>5, EmptyHolds DEF Ending
<1>9. ~Fresh(r)' /\ ~Holds(call'[r].queue, "exit")
  BY <1>5, EmptyHolds DEF Fresh
<1>10. AskedInv(r)'
  BY <1>4, <1>5, <1>7 DEF RunInv, AskedInv
<1>11. ToldInv(r)'
  BY <1>4, <1>5, <1>7 DEF RunInv, ToldInv
<1>12. EndInv(r)'
  BY <1>7, <1>8, <1>9 DEF RunInv, EndInv
<1> QED  BY <1>9, <1>10, <1>11, <1>12 DEF RunInv, FreshInv

(* One frame is taken from the Run's queue.                                    *)
LEMMA PopHearsNoEnd ==
    ASSUME TypeInv, NEW r \in Runs, call[r].queue # <<>>, call'[r].queue = Tail(call[r].queue),
           \A k \in Children, f \in About(r) : Holds(child'[k].out, f) => Holds(child[k].out, f)
    PROVE  HearsNoEnd(r)
<1>1. call[r].queue \in Seq(Events)
  BY CallFields DEF TypeInv, Callers
<1>2. \A type : Holds(Tail(call[r].queue), type) => Holds(call[r].queue, type)
  BY <1>1, HoldsTail
<1>3. \A type \in Terminal : Frame(type, r) \in About(r)
  BY DEF Frame, About, FrameType, Callers
<1> QED  BY <1>2, <1>3 DEF HearsNoEnd, Ending

LEMMA PopRun ==
    ASSUME CoreInv, NEW r \in Runs, RunInv(r), Registered(r), call[r].queue # <<>>,
           call' = [call EXCEPT ![r].queue = Tail(@)], UNCHANGED child
    PROVE  RunInv(r)'
<1>1. TypeInv /\ call[r] \in CallType /\ r \in Callers
  BY DEF CoreInv, TypeInv, Callers
<1>2. /\ call'[r].at = call[r].at /\ call'[r].to = call[r].to /\ call'[r].stop = call[r].stop
      /\ call'[r].abortSent = call[r].abortSent /\ call'[r].queue = Tail(call[r].queue)
  BY <1>1 DEF TypeInv, CallType
<1>3. call'[Closer] = call[Closer]
  BY <1>1, ZeroIsNoChild DEF TypeInv
<1>4. /\ \A k \in Children : Quiet(k, r)
      /\ \A k \in Children, f \in About(r) : Holds(child'[k].out, f) => Holds(child[k].out, f)
  BY <1>3, BuryingKept, ChildSame
<1>5. HearsNoEnd(r)
  BY <1>1, <1>2, <1>4, PopHearsNoEnd
<1>6. ~Fresh(r) /\ (Fresh(r)' <=> Fresh(r))
  BY <1>2 DEF Fresh, Registered
<1> QED  BY <1>2, <1>4, <1>5, <1>6, QuietStep

(* The Run's child is told to stop, unless it was.                             *)
LEMMA TellRun ==
    ASSUME CoreInv, NEW r \in Runs, RunInv(r), Registered(r), call'[Closer] = call[Closer],
           child' = IF call[r].abortSent THEN child ELSE Put(child, live, Frame("abort", r)),
           call'[r].at \in {"waiting", "draining"}, call'[r].abortSent, call'[r].to = call[r].to,
           \A e : Holds(call'[r].queue, e) => Holds(call[r].queue, e)
    PROVE  RunInv(r)'
<1> DEFINE f == Frame("abort", r)
           put == Put(child, live, f)
<1>1. TypeInv /\ OwnerInv /\ child \in [Children -> ChildType] /\ live \in Children \cup {0}
  BY DEF CoreInv, TypeInv
<1>2. f \in Asks /\ f \in FrameType /\ f # Frame("run", r)
  BY FramesHaveTypes DEF Frame, Asks
<1> HIDE DEF f
<1>3. \A k \in Children :
        /\ put[k].state = child[k].state /\ put[k].work = child[k].work /\ put[k].out = child[k].out
        /\ put[k].stdin = IF k = live /\ child[k].state = "up" THEN Append(child[k].stdin, f) ELSE child[k].stdin
  BY <1>1, <1>2, PutLeaves
<1>4. child' = IF call[r].abortSent THEN child ELSE put
  BY DEF f
<1> HIDE DEF put
<1>5. \A k \in Children :
        /\ child'[k].state = child[k].state /\ child'[k].work = child[k].work /\ child'[k].out = child[k].out
        /\ child'[k].stdin \in {child[k].stdin, Append(child[k].stdin, f)}
        /\ k = live /\ child[k].state = "up" /\ ~call[r].abortSent => child'[k].stdin = Append(child[k].stdin, f)
  BY <1>3, <1>4
<1>6. \A k \in Children : child[k].stdin \in Seq(FrameType)
  BY <1>1, ChildFields
<1>7. \A k \in Children :
        /\ First(child'[k].stdin, r)
        /\ Holds(child'[k].stdin, Frame("run", r)) <=> Holds(child[k].stdin, Frame("run", r))
        /\ Holds(child[k].stdin, f) => Holds(child'[k].stdin, f)
        /\ k = live /\ child[k].state = "up" /\ ~call[r].abortSent => Holds(child'[k].stdin, f)
  <2>1. \A k \in Children, e \in {f, Frame("run", r)} :
           Holds(Append(child[k].stdin, f), e) <=> Holds(child[k].stdin, e) \/ f = e
    BY <1>2, <1>6, HoldsAppend
  <2>2. \A k \in Children : First(child[k].stdin, r)
    BY DEF RunInv, AskedInv
  <2>3. \A k \in Children : First(Append(child[k].stdin, f), r)
    BY <1>2, <1>6, <2>2, FirstAppend
  <2> QED  BY <1>2, <1>5, <2>1, <2>2, <2>3
<1>8. \A k \in Children : (Has(k, r)' <=> Has(k, r)) /\ (Knows(k, r)' <=> Knows(k, r)) /\ (Burying(k)' <=> Burying(k))
  BY <1>5, <1>7 DEF Has, Knows, Burying
<1>9. \A k \in Children : Has(k, r) => Holds(child'[k].stdin, f) \/ Burying(k)
  <2> SUFFICES ASSUME NEW k \in Children, Has(k, r), ~Burying(k) PROVE Holds(child'[k].stdin, f)
    OBVIOUS
  <2>1. CASE call[r].abortSent
    BY <1>7, <2>1 DEF RunInv, ToldInv, f
  <2>2. CASE ~call[r].abortSent
    BY <1>1, <1>7, <2>2, UpIsLive DEF Has
  <2> QED  BY <2>1, <2>2
<1>10. Ending(r)' => Ending(r)
  BY <1>5 DEF Ending
<1>11. ~Fresh(r)'
  BY DEF Fresh
<1>12. AskedInv(r)'
  BY <1>5, <1>7, <1>8 DEF RunInv, AskedInv
<1>13. ToldInv(r)'
  BY <1>8, <1>9 DEF ToldInv, f
<1>14. EndInv(r)'
  BY <1>8, <1>10 DEF RunInv, EndInv
<1> QED  BY <1>11, <1>12, <1>13, <1>14 DEF RunInv, FreshInv

LEMMA StartDrainRun ==
    ASSUME CoreInv, NEW r \in Runs, RunInv(r), Registered(r), call[r].queue # <<>>, StartDrain(r)
    PROVE  RunInv(r)'
<1>1. TypeInv /\ call[r] \in CallType /\ r \in Callers /\ call[r].queue \in Seq(Events)
  BY CallFields DEF CoreInv, TypeInv, Callers
<1>2. /\ call'[r].at = "draining" /\ call'[r].to = call[r].to
      /\ call'[r].abortSent = TRUE /\ call'[r].queue = Tail(call[r].queue)
  BY <1>1 DEF StartDrain, TypeInv, CallType
<1>3. \A e : Holds(Tail(call[r].queue), e) => Holds(call[r].queue, e)
  BY <1>1, HoldsTail
<1>4. call'[Closer] = call[Closer]
  BY <1>1, ZeroIsNoChild DEF TypeInv, StartDrain
<1> QED  BY <1>2, <1>3, <1>4, TellRun DEF StartDrain

(* The tasks of other Runs write to the child, at most, about themselves.      *)
LEMMA OtherTask ==
    ASSUME CoreInv, NEW r \in Runs, RunInv(r), NEW q \in Runs, q # r,
           call'[r] = call[r], call'[Closer] = call[Closer],
           child' = child \/ child' = Put(child, live, Frame("abort", q))
    PROVE  RunInv(r)'
<1> DEFINE g == Frame("abort", q)
           put == Put(child, live, g)
<1>1. TypeInv /\ child \in [Children -> ChildType] /\ live \in Children \cup {0}
  BY DEF CoreInv, TypeInv
<1>2. g \in Asks /\ g.id # r
  BY DEF Frame, Asks
<1> HIDE DEF g
<1>3. \A k \in Children :
        /\ put[k].state = child[k].state /\ put[k].work = child[k].work /\ put[k].out = child[k].out
        /\ put[k].stdin = IF k = live /\ child[k].state = "up" THEN Append(child[k].stdin, g) ELSE child[k].stdin
  BY <1>1, <1>2, PutLeaves
<1>4. child' = child \/ child' = put
  BY DEF g
<1> HIDE DEF put
<1>5. \A k \in Children :
        /\ child'[k].state = child[k].state /\ child'[k].work[r] = child[k].work[r]
        /\ child'[k].out = child[k].out
        /\ child'[k].stdin \in {child[k].stdin, Append(child[k].stdin, g)}
  BY <1>3, <1>4
<1>6. \A k \in Children : child[k] \in ChildType /\ (Burying(k) => Burying(k)')
  BY <1>1, BuryingKept
<1>7. \A k \in Children : Quiet(k, r) /\ \A f \in About(r) : Holds(child'[k].out, f) => Holds(child[k].out, f)
  BY <1>2, <1>5, <1>6, QuietPipes
<1> QED  BY <1>7, CalmStep

LEMMA TaskRun ==
    ASSUME CoreInv, NEW r \in Runs, RunInv(r), NEW q \in Runs,
           Consume(q) \/ Drain(q) \/ Abort(q) \/ CancelTask(q)
    PROVE  RunInv(r)'
<1>1. TypeInv /\ q \in Callers /\ r \in Callers
  BY DEF CoreInv, Callers
<1>2. CASE q # r
  <2>1. call'[r] = call[r] /\ call'[Closer] = call[Closer]
    BY <1>1, <1>2, ZeroIsNoChild DEF TypeInv, Consume, Drain, Abort, CancelTask, Finish, StartDrain
  <2>2. child' = child \/ child' = Put(child, live, Frame("abort", q))
    BY DEF Consume, Drain, Abort, CancelTask, Finish, StartDrain
  <2> QED  BY <1>2, <2>1, <2>2, OtherTask
<1>3. CASE q = r /\ Consume(r)
  <2> DEFINE type == Head(call[r].queue)
  <2>1. Registered(r) /\ call[r].queue # <<>> /\ call[r].queue \in Seq(Events)
    BY <1>1, <1>3, CallFields DEF Consume, Registered, TypeInv
  <2>2. Holds(call[r].queue, type)
    BY <2>1, HoldsTail
  <2>3. type \in Terminal \cup {"exit"} => \A k \in Children : Has(k, r) => Burying(k)
    BY <2>2 DEF RunInv, EndInv, Ending
  <2>4. \/ \E end \in {"ok", "failed", "cancelled"} : Finish(r, end) /\ type \in Terminal \cup {"exit"}
        \/ call' = [call EXCEPT ![r].queue = Tail(@)] /\ UNCHANGED child
        \/ StartDrain(r)
    BY <1>3 DEF Consume, Terminal
  <2> HIDE DEF type
  <2> QED  BY <2>1, <2>3, <2>4, FinishRun, PopRun, StartDrainRun
<1>4. CASE q = r /\ Drain(r)
  <2>1. Registered(r) /\ call[r].abortSent
    BY <1>4 DEF Drain, Registered, RunInv, ToldInv
  <2>2. \/ Finish(r, "failed")
        \/ call[r].queue # <<>> /\ call' = [call EXCEPT ![r].queue = Tail(@)] /\ UNCHANGED child
    BY <1>4 DEF Drain
  <2>3. "failed" \in {"ok", "failed", "cancelled"}
    OBVIOUS
  <2> QED  BY <2>1, <2>2, <2>3, FinishRun, PopRun
<1>5. CASE q = r /\ Abort(r)
  <2> DEFINE stop == IF call[r].at = "idle" \/ Starting(r) THEN "early" ELSE "told"
             sent == call[r].abortSent \/ Registered(r)
  <2>1. call[r] \in CallType /\ call[r].stop = "no"
    BY <1>1, <1>5 DEF TypeInv, Abort
  <2>2. call' = [call EXCEPT ![r].abortSent = sent, ![r].stop = stop]
    BY <1>5 DEF Abort
  <2>3. sent \in BOOLEAN /\ stop \in {"early", "told"}
    BY <2>1, CallFields DEF Registered
  <2> HIDE DEF sent, stop
  <2>4. /\ call'[r].at = call[r].at /\ call'[r].to = call[r].to /\ call'[r].queue = call[r].queue
        /\ call'[r].abortSent = sent /\ call'[r].stop = stop
    BY <1>1, <2>1, <2>2 DEF TypeInv, CallType
  <2>5. call'[Closer] = call[Closer]
    BY <1>1, <2>2, ZeroIsNoChild DEF TypeInv
  <2>6. CASE Registered(r)
    <3>1. call'[r].abortSent /\ call'[r].at \in {"waiting", "draining"}
      BY <2>4, <2>6 DEF sent, Registered
    <3>2. child' = IF call[r].abortSent THEN child ELSE Put(child, live, Frame("abort", r))
      BY <1>5, <2>6 DEF Abort
    <3> QED  BY <2>4, <2>5, <2>6, <3>1, <3>2, TellRun
  <2>7. CASE ~Registered(r)
    <3>1. sent = call[r].abortSent /\ UNCHANGED child
      <4>1. call[r].abortSent \in BOOLEAN
        BY <2>1, CallFields
      <4> QED  BY <1>5, <2>7, <4>1 DEF Abort, sent
    <3>2. stop = "early" \/ call[r].at = "over"
      BY <2>1, <2>7, CallFields DEF stop, Starting, Registered, Places
    <3>3. \A k \in Children : Quiet(k, r)
      BY <2>5, <3>1, BuryingKept, ChildSame
    <3>4. HearsNoEnd(r)
      BY <2>4, <3>1, EndingKept
    <3>5. Fresh(r)' <=> Fresh(r)
      BY <2>4 DEF Fresh
    <3> QED  BY <2>1, <2>4, <3>1, <3>2, <3>3, <3>4, <3>5, QuietStep
  <2> QED  BY <2>6, <2>7
<1>6. CASE q = r /\ CancelTask(r)
  <2>1. call[r].stop # "no" /\ call[r].at # "over" /\ Finish(r, "cancelled")
    BY <1>6 DEF CancelTask
  <2>2. call[r].abortSent \/ call[r].stop = "early"
    <3>1. call[r].stop \in {"no", "early", "told"}
      BY <1>1, CallFields DEF TypeInv
    <3> QED  BY <2>1, <3>1 DEF RunInv, ToldInv
  <2>3. "cancelled" \in {"ok", "failed", "cancelled"}
    OBVIOUS
  <2> QED  BY <2>1, <2>2, <2>3, FinishRun
<1> QED  BY <1>2, <1>3, <1>4, <1>5, <1>6

(* A frame reaches a queue: what ends a Run was on its way already.            *)
LEMMA DeliverRun ==
    ASSUME CoreInv, NEW r \in Runs, RunInv(r), NEW k \in Children, Deliver(k)
    PROVE  RunInv(r)'
<1> DEFINE frame == Head(child[k].out)
<1>1. TypeInv /\ r \in Callers /\ child[k] \in ChildType /\ child[k].out # <<>> /\ child \in [Children -> ChildType]
  BY DEF CoreInv, TypeInv, Deliver, Callers
<1>2. child[k].out \in Seq(Says) /\ frame \in Says
  BY <1>1, ChildFields, TailTyped
<1>3. frame.id \in Callers /\ frame.id # Closer
  BY <1>2, ZeroIsNoChild DEF Says, Callers
<1>4. Holds(child[k].out, frame)
  BY <1>1, <1>2, HoldsTail
<1>5. /\ child'[k].state = child[k].state /\ child'[k].work = child[k].work
      /\ child'[k].stdin = child[k].stdin /\ child'[k].out = Tail(child[k].out)
      /\ \A j \in Children : j # k => child'[j] = child[j]
  BY <1>1 DEF Deliver, ChildType
<1>6. \/ call' = call
      \/ /\ frame.id \in Runs /\ Registered(frame.id)
         /\ call' = [call EXCEPT ![frame.id].queue = Append(@, frame.type)]
      \/ frame.id \notin Runs /\ call' = [call EXCEPT ![frame.id] = Over(@, "ok")]
  BY DEF Deliver
<1> HIDE DEF frame
<1>7. call'[Closer] = call[Closer]
  BY <1>1, <1>3, <1>6 DEF TypeInv
<1>8. /\ \A j \in Children : Quiet(j, r)
      /\ \A j \in Children, f \in About(r) : Holds(child'[j].out, f) => Holds(child[j].out, f)
  BY <1>1, <1>5, <1>7, BuryingKept, QuietSame, QuietPipes
<1>9. CASE call'[r] = call[r]
  BY <1>8, <1>9, CalmStep
<1>10. CASE frame.id = r /\ Registered(r) /\ call' = [call EXCEPT ![r].queue = Append(@, frame.type)]
  <2>1. call[r] \in CallType /\ call[r].queue \in Seq(Events)
    BY <1>1, CallFields DEF TypeInv
  <2>2. frame = Frame(frame.type, r) /\ frame.type \in {"step"} \cup Terminal
    BY <1>2, <1>10, RuntimeAssumption DEF Says, Frame
  <2>3. frame.type \in Events /\ frame.type # "exit"
    BY <2>2 DEF Events, Terminal
  <2>4. /\ call'[r].at = call[r].at /\ call'[r].to = call[r].to /\ call'[r].stop = call[r].stop
        /\ call'[r].abortSent = call[r].abortSent /\ call'[r].queue = Append(call[r].queue, frame.type)
    BY <1>1, <1>10, <2>1 DEF TypeInv, CallType
  <2>5. \A e : Holds(call'[r].queue, e) <=> Holds(call[r].queue, e) \/ frame.type = e
    BY <2>1, <2>3, <2>4, HoldsAppend
  <2>6. \A type \in Terminal : Frame(type, r) \in About(r)
    BY DEF Frame, About, FrameType, Callers
  <2>7. Ending(r)' => Ending(r)
    BY <1>4, <1>8, <2>2, <2>5, <2>6 DEF Ending
  <2>8. HearsNoEnd(r)
    BY <2>3, <2>5, <2>7 DEF HearsNoEnd
  <2>9. ~Fresh(r) /\ (Fresh(r)' <=> Fresh(r))
    BY <1>10, <2>4 DEF Fresh, Registered
  <2> QED  BY <1>8, <2>4, <2>8, <2>9, QuietStep
<1>11. call'[r] = call[r] \/ (frame.id = r /\ Registered(r) /\ call' = [call EXCEPT ![r].queue = Append(@, frame.type)])
  BY <1>1, <1>3, <1>6 DEF TypeInv
<1> QED  BY <1>9, <1>10, <1>11

LEMMA OneChildStep ==
    ASSUME NEW r \in Runs, RunInv(r), NEW k \in Children, UNCHANGED call,
           \A j \in Children : j # k => child'[j] = child[j],
           Quiet(k, r), \A f \in About(r) : Holds(child'[k].out, f) => Holds(child[k].out, f)
    PROVE  RunInv(r)'
<1>1. \A j \in Children : Burying(j) => Burying(j)'
  BY DEF Burying
<1>2. \A j \in Children : Quiet(j, r) /\ \A f \in About(r) : Holds(child'[j].out, f) => Holds(child[j].out, f)
  BY <1>1, QuietSame
<1> QED  BY <1>2, CalmStep

(* A child reads a line: the Run it is asked for is on its desk, the Run it is
   told to stop is off it.                                                   *)
LEMMA LineRun ==
    ASSUME CoreInv, NEW r \in Runs, RunInv(r), NEW k \in Children, HandleLine(k)
    PROVE  RunInv(r)'
<1> DEFINE frame == Head(child[k].stdin)
           left  == [child EXCEPT ![k].stdin = Tail(child[k].stdin)]
           said  == Frame("probe_ok", frame.id)
<1>1. TypeInv /\ child[k] \in ChildType /\ child[k].stdin # <<>> /\ child \in [Children -> ChildType]
      /\ child[k].state = "up" /\ UNCHANGED call
  BY DEF CoreInv, TypeInv, HandleLine
<1>2. /\ child[k].stdin \in Seq(Asks) /\ child[k].stdin \in Seq(FrameType) /\ child[k].work \in Works
      /\ frame \in Asks
  BY <1>1, ChildFields, TailTyped
<1>3. /\ left[k].state = "up" /\ left[k].work = child[k].work /\ left[k].out = child[k].out
      /\ left[k].stdin = Tail(child[k].stdin) /\ \A j \in Children : j # k => left[j] = child[j]
      /\ left \in [Children -> ChildType]
  <2>1. Tail(child[k].stdin) \in Seq(Asks)
    BY <1>1, <1>2, TailTyped
  <2>2. left \in [Children -> ChildType]
    BY <1>1, <2>1, StdinUpdate
  <2>3. left[k] = [child[k] EXCEPT !.stdin = Tail(child[k].stdin)]
    BY <1>1
  <2> QED  BY <1>1, <2>2, <2>3 DEF ChildType
<1>4. \/ frame.type = "run" /\ child[k].work[frame.id] = "none" /\ child' = [left EXCEPT ![k].work[frame.id] = "busy"]
      \/ frame.type = "abort" /\ child[k].work[frame.id] = "busy" /\ child' = [left EXCEPT ![k].work[frame.id] = "stopping"]
      \/ frame.type = "probe" /\ child' = [left EXCEPT ![k].out = Append(left[k].out, said)]
      \/ ~(frame.type = "run" /\ child[k].work[frame.id] = "none")
         /\ ~(frame.type = "abort" /\ child[k].work[frame.id] = "busy") /\ child' = left
  BY <1>3 DEF HandleLine
<1>5. frame.type = "probe" => said \in Says /\ said.id # r /\ frame.id # r
  BY <1>2, RuntimeAssumption DEF Says, Frame, Asks
<1>6. frame.type # "probe" => frame.id \in Runs
  BY <1>2 DEF Asks
<1> HIDE DEF frame, left, said
<1>7. /\ child'[k].state = "up" /\ child'[k].stdin = Tail(child[k].stdin)
      /\ \A j \in Children : j # k => child'[j] = child[j]
      /\ child'[k].out = child[k].out \/ (frame.type = "probe" /\ child'[k].out = Append(child[k].out, said))
      /\ child'[k].work[r] = IF frame.id = r /\ frame.type = "run" /\ child[k].work[r] = "none" THEN "busy"
                             ELSE IF frame.id = r /\ frame.type = "abort" /\ child[k].work[r] = "busy" THEN "stopping"
                             ELSE child[k].work[r]
  <2>1. ASSUME NEW w, child' = [left EXCEPT ![k].work[frame.id] = w]
        PROVE  /\ child'[k].state = "up" /\ child'[k].stdin = left[k].stdin /\ child'[k].out = left[k].out
               /\ \A j \in Children : j # k => child'[j] = left[j]
               /\ frame.id \in Runs => child'[k].work[r] = IF frame.id = r THEN w ELSE child[k].work[r]
    <3>1. child'[k] = [left[k] EXCEPT !.work = [left[k].work EXCEPT ![frame.id] = w]]
      BY <1>3, <2>1
    <3>2. left[k] \in ChildType /\ left[k].work \in Works
      BY <1>2, <1>3
    <3>3. child'[k].work = [left[k].work EXCEPT ![frame.id] = w]
      BY <3>1, <3>2 DEF ChildType
    <3>4. frame.id \in Runs => child'[k].work[r] = IF frame.id = r THEN w ELSE child[k].work[r]
      BY <1>3, <3>2, <3>3 DEF Works
    <3>5. child'[k].state = left[k].state /\ child'[k].stdin = left[k].stdin /\ child'[k].out = left[k].out
      BY <3>1, <3>2 DEF ChildType
    <3> QED  BY <1>3, <2>1, <3>4, <3>5
  <2>2. CASE frame.type = "run" /\ child[k].work[frame.id] = "none" /\ child' = [left EXCEPT ![k].work[frame.id] = "busy"]
    BY <1>3, <1>6, <2>1, <2>2
  <2>3. CASE frame.type = "abort" /\ child[k].work[frame.id] = "busy" /\ child' = [left EXCEPT ![k].work[frame.id] = "stopping"]
    BY <1>3, <1>6, <2>1, <2>3
  <2>4. CASE frame.type = "probe" /\ child' = [left EXCEPT ![k].out = Append(left[k].out, said)]
    <3>1. child'[k] = [left[k] EXCEPT !.out = Append(left[k].out, said)] /\ left[k] \in ChildType
          /\ \A j \in Children : j # k => child'[j] = left[j]
      BY <1>3, <2>4
    <3>2. /\ child'[k].state = left[k].state /\ child'[k].stdin = left[k].stdin
          /\ child'[k].work = left[k].work /\ child'[k].out = Append(left[k].out, said)
      BY <3>1 DEF ChildType
    <3> QED  BY <1>3, <2>4, <3>1, <3>2
  <2>5. CASE ~(frame.type = "run" /\ child[k].work[frame.id] = "none")
             /\ ~(frame.type = "abort" /\ child[k].work[frame.id] = "busy") /\ child' = left
    BY <1>3, <2>5
  <2> QED  BY <1>4, <2>2, <2>3, <2>4, <2>5
<1>8. Burying(k) => Burying(k)'
  BY <1>1 DEF Burying
<1>9. CASE frame.id # r
  <2>1. child'[k].out = child[k].out \/ \E h \in Says : h.id # r /\ child'[k].out = Append(child[k].out, h)
    BY <1>5, <1>7
  <2>2. child[k].stdin # <<>> /\ Head(child[k].stdin).id # r /\ child'[k].stdin = Tail(child[k].stdin)
    BY <1>1, <1>7, <1>9 DEF frame
  <2>3. child'[k].state = child[k].state /\ child'[k].work[r] = child[k].work[r]
    BY <1>1, <1>7, <1>9
  <2>4. Quiet(k, r) /\ \A f \in About(r) : Holds(child'[k].out, f) => Holds(child[k].out, f)
    BY <1>1, <1>8, <2>1, <2>2, <2>3, QuietPipes
  <2> QED  BY <1>1, <1>7, <2>4, OneChildStep
<1>10. CASE frame.id = r
  <2>1. frame.type \in {"run", "abort"} /\ frame = Frame(frame.type, r) /\ frame \in About(r)
    BY <1>2, <1>5, <1>10, FramesHaveTypes DEF Asks, Frame, About
  <2>2. child'[k].out = child[k].out
    BY <1>7, <2>1
  <2>3. First(Tail(child[k].stdin), r) /\ ~Holds(Tail(child[k].stdin), Frame("run", r))
    BY <1>1, <1>2, <1>10, FirstTail DEF RunInv, AskedInv, frame
  <2>4. \A f : Holds(child[k].stdin, f) <=> frame = f \/ Holds(Tail(child[k].stdin), f)
    BY <1>1, <1>2, HoldsTail DEF frame
  <2>5. ~Fresh(r)
    BY <2>1, <2>4 DEF RunInv, FreshInv
  <2>6. frame.type = "run" => /\ child[k].work[r] = "none" /\ Has(k, r) /\ Knows(k, r)
                              /\ frame # Frame("abort", r)
    BY <1>1, <2>1, <2>4 DEF RunInv, AskedInv, Has, Knows, Frame
  <2>7. Knows(k, r)' => Knows(k, r)
    BY <1>1, <1>7, <2>3, <2>6 DEF Knows
  <2>8. Has(k, r)' => frame.type = "run"
    BY <1>7, <1>10, <2>1, <2>3 DEF Has
  <2>9. Quiet(k, r)
    BY <1>7, <1>8, <2>3, <2>4, <2>5, <2>6, <2>7, <2>8 DEF Quiet
  <2> QED  BY <1>1, <1>7, <2>2, <2>9, OneChildStep
<1> QED  BY <1>9, <1>10

LEMMA SayFields ==
    ASSUME TypeInv, NEW k \in Children, NEW q \in Runs, NEW type \in {"step"} \cup Terminal
    PROVE  /\ Say(k, type, q)[k].state = child[k].state /\ Say(k, type, q)[k].stdin = child[k].stdin
           /\ Say(k, type, q)[k].work = child[k].work
           /\ Say(k, type, q)[k].out = Append(child[k].out, Frame(type, q))
           /\ \A j \in Children : j # k => Say(k, type, q)[j] = child[j]
           /\ Say(k, type, q) \in [Children -> ChildType]
<1>1. Say(k, type, q) = [child EXCEPT ![k].out = Append(child[k].out, Frame(type, q))]
  BY DEF Say
<1>2. child \in [Children -> ChildType] /\ child[k] \in ChildType
  BY DEF TypeInv
<1>3. Say(k, type, q)[k] = [child[k] EXCEPT !.out = Append(child[k].out, Frame(type, q))]
      /\ \A j \in Children : j # k => Say(k, type, q)[j] = child[j]
  BY <1>1, <1>2
<1> QED  BY <1>2, <1>3, SayTyped DEF ChildType

LEMMA SayIsKept ==
    ASSUME TypeInv, NEW r \in Runs, NEW k \in Children, NEW type \in {"step"} \cup Terminal
    PROVE  \A f : Holds(Append(child[k].out, Frame(type, r)), f) <=> Holds(child[k].out, f) \/ Frame(type, r) = f
<1>1. Frame(type, r) \in Says /\ child[k].out \in Seq(Says)
  BY ChildFields DEF Frame, Says, TypeInv
<1> QED  BY <1>1, HoldsAppend

LEMMA EmitRun ==
    ASSUME CoreInv, NEW r \in Runs, RunInv(r), NEW k \in Children, NEW q \in Runs, Emit(k, q)
    PROVE  RunInv(r)'
<1>1. TypeInv /\ child[k] \in ChildType /\ UNCHANGED call /\ child' = Say(k, "step", q)
  BY DEF CoreInv, TypeInv, Emit
<1>2. /\ child'[k].state = child[k].state /\ child'[k].stdin = child[k].stdin
      /\ child'[k].work = child[k].work /\ child'[k].out = Append(child[k].out, Frame("step", q))
      /\ \A j \in Children : j # k => child'[j] = child[j]
  BY <1>1, SayFields
<1>3. \A j \in Children : Burying(j) => Burying(j)'
  BY <1>1 DEF Burying
<1>4. CASE q # r
  <2>1. Frame("step", q) \in Says /\ Frame("step", q).id # r
    BY <1>4 DEF Frame, Says
  <2>2. Quiet(k, r) /\ \A f \in About(r) : Holds(child'[k].out, f) => Holds(child[k].out, f)
    BY <1>1, <1>2, <1>3, <2>1, QuietPipes
  <2> QED  BY <1>1, <1>2, <2>2, OneChildStep
<1>5. CASE q = r
  <2>1. ~Fresh(r) /\ (Fresh(r)' <=> Fresh(r))
    BY <1>1, <1>5 DEF RunInv, FreshInv, Emit, Fresh
  <2>2. (Has(k, r)' <=> Has(k, r)) /\ (Knows(k, r)' <=> Knows(k, r))
    BY <1>2 DEF Has, Knows
  <2>3. Quiet(k, r)
    BY <1>2, <1>3, <2>1, <2>2 DEF Quiet, RunInv, AskedInv
  <2>4. \A j \in Children : Quiet(j, r)
    BY <1>2, <1>3, <2>3, QuietSame
  <2>5. \A type \in Terminal : Holds(child'[k].out, Frame(type, r)) => Holds(child[k].out, Frame(type, r))
    <3>1. \A type \in Terminal : Frame("step", r) # Frame(type, r)
      BY DEF Terminal, Frame
    <3> QED  BY <1>1, <1>2, <1>5, <3>1, SayIsKept
  <2>6. Ending(r)' => Ending(r)
    BY <1>1, <1>2, <2>5 DEF Ending
  <2>7. HearsNoEnd(r)
    BY <1>1, <2>6 DEF HearsNoEnd
  <2> QED  BY <1>1, <2>1, <2>4, <2>7, QuietStep
<1> QED  BY <1>4, <1>5

(* A child ends its Run: from then on nobody has work for it.                  *)
LEMMA EndRunRun ==
    ASSUME CoreInv, NEW r \in Runs, RunInv(r), NEW k \in Children, NEW q \in Runs, EndRun(k, q)
    PROVE  RunInv(r)'
<1>1. TypeInv /\ child[k] \in ChildType /\ UNCHANGED call /\ child[k].state = "up" /\ child[k].work[q] # "none"
  BY DEF CoreInv, TypeInv, EndRun
<1>2. PICK type \in Terminal : child' = [Say(k, type, q) EXCEPT ![k].work[q] = "none"]
  BY DEF EndRun, Terminal
<1> DEFINE said == Say(k, type, q)
<1>3. /\ said[k].state = child[k].state /\ said[k].stdin = child[k].stdin
      /\ said[k].work = child[k].work /\ said[k].out = Append(child[k].out, Frame(type, q))
      /\ \A j \in Children : j # k => said[j] = child[j]
      /\ said \in [Children -> ChildType]
  <2>1. type \in {"step"} \cup Terminal
    OBVIOUS
  <2> QED  BY <1>1, <2>1, SayFields
<1>4. child' = [said EXCEPT ![k].work[q] = "none"]
  BY <1>2
<1> HIDE DEF said
<1>5. /\ child'[k].state = child[k].state /\ child'[k].stdin = child[k].stdin
      /\ child'[k].work = [child[k].work EXCEPT ![q] = "none"]
      /\ child'[k].out = Append(child[k].out, Frame(type, q))
      /\ \A j \in Children : j # k => child'[j] = child[j]
  <2>1. child'[k] = [said[k] EXCEPT !.work = [said[k].work EXCEPT ![q] = "none"]] /\ said[k] \in ChildType
    BY <1>3, <1>4
  <2>2. /\ child'[k].state = said[k].state /\ child'[k].stdin = said[k].stdin
        /\ child'[k].work = [said[k].work EXCEPT ![q] = "none"] /\ child'[k].out = said[k].out
    BY <2>1 DEF ChildType
  <2> QED  BY <1>3, <1>4, <2>2
<1>6. child[k].work \in Works
  BY <1>1, ChildFields
<1>7. \A j \in Children : Burying(j) => Burying(j)'
  BY <1>1 DEF Burying
<1>8. CASE q # r
  <2>1. Frame(type, q) \in Says /\ Frame(type, q).id # r
    BY <1>8 DEF Frame, Says
  <2>2. child'[k].work[r] = child[k].work[r]
    BY <1>5, <1>6, <1>8 DEF Works
  <2>3. Quiet(k, r) /\ \A f \in About(r) : Holds(child'[k].out, f) => Holds(child[k].out, f)
    BY <1>1, <1>5, <1>7, <2>1, <2>2, QuietPipes
  <2> QED  BY <1>1, <1>5, <2>3, OneChildStep
<1>9. CASE q = r
  <2>1. child'[k].work[r] = "none"
    BY <1>5, <1>6, <1>9 DEF Works
  <2>2. Knows(k, r) /\ ~Holds(child[k].stdin, Frame("run", r))
    BY <1>1, <1>9 DEF Knows, RunInv, AskedInv
  <2>3. \A j \in Children : ~Knows(j, r)'
    BY <1>5, <2>1, <2>2 DEF Knows, RunInv, AskedInv
  <2>4. \A j \in Children : /\ First(child'[j].stdin, r)
                            /\ child'[j].work[r] # "none" => ~Holds(child'[j].stdin, Frame("run", r))
    BY <1>5, <2>1 DEF RunInv, AskedInv
  <2>5. ~Fresh(r)'
    BY <1>1, <1>9 DEF RunInv, FreshInv, Fresh
  <2> QED  BY <1>1, <2>3, <2>4, <2>5, UnknownStep DEF RunInv, ToldInv
<1> QED  BY <1>8, <1>9

LEMMA DieRun ==
    ASSUME CoreInv, NEW r \in Runs, RunInv(r), NEW k \in Children, Die(k)
    PROVE  RunInv(r)'
<1> DEFINE dead == [NoChild EXCEPT !.state = "dead", !.out = child[k].out]
<1>1. child \in [Children -> ChildType] /\ UNCHANGED call /\ child' = [child EXCEPT ![k] = dead]
  BY DEF CoreInv, TypeInv, Die
<1>2. dead.stdin = <<>> /\ dead.work[r] = "none" /\ dead.out = child[k].out
  BY DEF NoChild
<1> HIDE DEF dead
<1>3. /\ child'[k].stdin = <<>> /\ child'[k].work[r] = "none" /\ child'[k].out = child[k].out
      /\ \A j \in Children : j # k => child'[j] = child[j]
  BY <1>1, <1>2
<1>4. Quiet(k, r) /\ \A f \in About(r) : Holds(child'[k].out, f) => Holds(child[k].out, f)
  BY <1>3, EmptyHolds, QuietEmpty
<1> QED  BY <1>1, <1>3, <1>4, OneChildStep

LEMMA RunStep ==
    ASSUME CoreInv, NEW r \in Runs, RunInv(r), [Next]_vars
    PROVE  RunInv(r)'
<1>0. CASE UNCHANGED vars
  BY <1>0, ChildSame, BuryingKept, CalmStep DEF vars
<1>1. CASE Close
  <2>1. call'[r] = call[r] /\ \A k \in Children : ~Burying(k)
    BY <1>1, RuntimeAssumption DEF Close, Closed, Burying, CoreInv, TypeInv, Callers
  <2> QED  BY <1>1, <2>1, ChildSame, CalmStep DEF Close
<1>2. CASE Rest
  BY <1>2, ChildSame, BuryingKept, CalmStep DEF Rest
<1>3. CASE ReapDone(Closer)
  BY <1>3, ReapDoneRun
<1>4. ASSUME NEW c \in Callers, Begin(c) \/ ReapDone(c) \/ Spawned(c) \/ SpawnFails(c)
      PROVE  RunInv(r)'
  <2>1. SpawnFails(c) => Refuse(c) /\ Fresh(c)
    BY DEF SpawnFails, Fresh
  <2> QED  BY <1>4, <2>1, BeginRun, ReapDoneRun, SpawnedRun, RefuseRun DEF CoreInv
<1>5. ASSUME NEW p \in Probes, ProbeTimeout(p) PROVE RunInv(r)'
  BY <1>5, RefuseRun, RuntimeAssumption DEF ProbeTimeout, Callers, CoreInv
<1>6. ASSUME NEW q \in Runs, Consume(q) \/ Drain(q) \/ Abort(q) \/ CancelTask(q)
      PROVE  RunInv(r)'
  BY <1>6, TaskRun
<1>7. ASSUME NEW k \in Children, Deliver(k) \/ Eof(k) \/ HandleLine(k) \/ Die(k)
      PROVE  RunInv(r)'
  BY <1>7, DeliverRun, EofRun, LineRun, DieRun
<1>8. ASSUME NEW k \in Children, NEW q \in Runs, Emit(k, q) \/ EndRun(k, q)
      PROVE  RunInv(r)'
  BY <1>8, EmitRun, EndRunRun
<1> QED  BY <1>0, <1>1, <1>2, <1>3, <1>4, <1>5, <1>6, <1>7, <1>8 DEF Next

LEMMA RunInit == Init => \A r \in Runs : RunInv(r)
<1> SUFFICES ASSUME Init, NEW r \in Runs PROVE RunInv(r)
  OBVIOUS
<1>1. /\ call[r].at = "idle" /\ call[r].queue = <<>> /\ ~call[r].abortSent
      /\ call[r].stop = "no"
  BY DEF Init, Idle, Callers
<1>2. \A k \in Children : child[k].stdin = <<>> /\ child[k].out = <<>> /\ child[k].work[r] = "none"
  BY DEF Init, NewChild, NoChild
<1>3. \A k \in Children : ~Knows(k, r) /\ ~Has(k, r) /\ First(child[k].stdin, r)
  BY <1>2, EmptyHolds DEF Knows, Has, First
<1> QED  BY <1>1, <1>2, <1>3, EmptyHolds DEF RunInv, FreshInv, AskedInv, ToldInv, EndInv

(* A child works on a Run nobody waits for only until the abort on its way
   arrives, or its own end does; the one exception is a stop that came before
   the Run had a channel.                                                    *)
THEOREM NobodyWorksAlone == Spec => []WorkIsWanted
<1>1. CoreInv /\ (\A r \in Runs : RunInv(r)) /\ [Next]_vars => (\A r \in Runs : RunInv(r))'
  BY RunStep
<1>2. Spec => []\A r \in Runs : RunInv(r)
  BY <1>1, RunInit, CoreInvariant, PTL DEF Spec
<1>3. CoreInv /\ (\A r \in Runs : RunInv(r)) => WorkIsWanted
  <2> SUFFICES ASSUME CoreInv, NEW k \in Children, NEW r \in Runs, RunInv(r), child[k].state = "up",
                      child[k].work[r] = "busy", call[r].at = "over", call[r].stop # "early", ~Reaped(k)
               PROVE  \E i \in 1..Len(child[k].stdin) : child[k].stdin[i] = Frame("abort", r)
    BY DEF WorkIsWanted
  <2>1. Has(k, r) /\ ~Burying(k)
    BY DEF Has, Burying, Reaped
  <2>2. Holds(child[k].stdin, Frame("abort", r))
    BY <2>1 DEF RunInv, ToldInv
  <2>3. child[k].stdin \in Seq(FrameType)
    BY ChildFields DEF CoreInv, TypeInv
  <2>4. DOMAIN child[k].stdin = 1..Len(child[k].stdin)
    BY <2>3
  <2> QED  BY <2>2, <2>4 DEF Holds
<1> QED  BY <1>2, <1>3, CoreInvariant, PTL
=============================================================================
