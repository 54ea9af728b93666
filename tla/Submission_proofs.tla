------------------------- MODULE Submission_proofs -------------------------
(***************************************************************************)
(* Submission for every number of conversations, questions, Runs, Turns,   *)
(* Attempts and requests under way: whatever the network loses, delays or  *)
(* cuts off, a command makes one Run, and an open composer knows of all    *)
(* that the server may still do in the conversation on screen.             *)
(***************************************************************************)
EXTENDS Submission, TLAPS

Kinds == {"question", "retry"}
Positive == Nat \ {0}
RequestType ==
    [kind : Kinds, of : Positive, attempt : {1, 2}, conversation : Positive, cookie : Nat]
Verdicts == {"run", "shed", "notFound", "conflict", "unready", "tooLarge", "final"}
AnswerType == [to : RequestType, kind : Verdicts, run : Nat]
States == Ended \cup {"active"}
RunType ==
    [conversation : Positive, key : Kinds \X Positive, question : Positive,
     state : States, retryOf : Nat]
SubmitType == [question : Positive, attempts : {1, 2}, conversation : Positive]
ShownType ==
    [id : Positive, question : Positive, state : States, reconciled : BOOLEAN,
     retryAttempts : {0, 1}, retryBlocked : BOOLEAN]
TabType ==
    [conversation : Nat, failedClosed : BOOLEAN, hidden : BOOLEAN,
     submit : SubmitType \cup {None}, retrying : BOOLEAN, run : ShownType \cup {None},
     waiting : SUBSET RequestType]
CreationType ==
    [at : {"idle", "sent", "made", "headers"}, implicit : BOOLEAN, conversation : Nat]

TypeOK ==
    /\ tab \in TabType /\ cookie \in Nat /\ creation \in CreationType
    /\ wire \in SUBSET RequestType /\ answers \in SUBSET AnswerType
    /\ made \in Nat /\ asked \in Nat /\ runs \in Seq(RunType)
    /\ doubtful \in SUBSET (Kinds \X Positive) /\ stranded \in BOOLEAN

-----------------------------------------------------------------------------
(* What is under way was asked by this tab: a question's requests and Runs all
   go to the conversation it was typed in, a Retry's to that of the Run it
   retries; an answer goes to a request the tab waits for.                   *)
UnderWay == wire \cup tab.waiting
Asks(req, q) == req.kind = "question" /\ req.of = q
Belongs(q, c) ==
    /\ \A req \in UnderWay : Asks(req, q) => req.conversation = c
    /\ \A i \in DOMAIN runs : runs[i].question = q => runs[i].conversation = c

AnswersOK ==
    \A a \in answers :
        /\ a.to \in tab.waiting /\ a.to \notin wire
        /\ \A b \in answers : b.to = a.to => b = a
        /\ a.kind = "run" => /\ a.run \in DOMAIN runs
                             /\ runs[a.run].key = KeyOf(a.to)
                             /\ runs[a.run].conversation = a.to.conversation
RequestsOK ==
    \A req \in UnderWay :
        /\ req.conversation <= made
        /\ req.kind = "question" => req.of <= asked /\ Belongs(req.of, req.conversation)
        /\ req.kind = "retry" =>
              req.of \in DOMAIN runs /\ runs[req.of].conversation = req.conversation
RunsOK ==
    \A i \in DOMAIN runs :
        /\ runs[i].question <= asked /\ runs[i].conversation <= made
        /\ runs[i].retryOf = 0 => runs[i].key = <<"question", runs[i].question>>
        /\ runs[i].retryOf # 0 =>
              /\ runs[i].retryOf < i /\ runs[i].key = <<"retry", runs[i].retryOf>>
              /\ runs[i].question = runs[runs[i].retryOf].question
              /\ runs[i].conversation = runs[runs[i].retryOf].conversation
SubmitOK ==
    tab.submit # None =>
        /\ tab.submit.question <= asked /\ tab.submit.conversation = tab.conversation
        /\ Belongs(tab.submit.question, tab.conversation)

(* A conversation being created is in use nowhere yet, and its capability is
   the browser's from the headers on.                                        *)
CreationInv ==
    /\ tab.conversation <= made
    /\ tab.conversation = 0 => tab.run = None
    /\ creation.at \in {"made", "headers"} =>
         /\ creation.conversation \in 1..made /\ creation.conversation # tab.conversation
         /\ \A req \in UnderWay : req.conversation # creation.conversation
         /\ \A i \in DOMAIN runs : runs[i].conversation # creation.conversation
    /\ creation.at = "headers" => cookie = creation.conversation
    /\ tab.hidden => creation.at = "idle"

CommandInv ==
    /\ AnswersOK /\ RequestsOK /\ RunsOK /\ SubmitOK /\ CreationInv
    /\ OneRunPerCommand /\ ShownRunIsOwn /\ CookieMatchesScreen
    /\ tab.run # None => tab.run.id \in DOMAIN runs

-----------------------------------------------------------------------------
(* One command is pending at a time, never beside a live Run on screen, and the
   tab waits for one attempt of it, its latest.                              *)
PendingInv ==
    /\ tab.submit # None => ~tab.retrying
    /\ tab.retrying => tab.run # None
    /\ (tab.submit # None \/ tab.retrying) /\ tab.run # None => tab.run.state \in Ended
    /\ tab.hidden => tab.waiting = {} /\ ~tab.retrying
    /\ \A req \in tab.waiting :
          /\ req.kind = "retry" => /\ tab.retrying /\ req.of = tab.run.id
                                   /\ req.attempt = tab.run.retryAttempts + 1
          /\ tab.submit # None /\ Asks(req, tab.submit.question) =>
                req.attempt = tab.submit.attempts
    /\ \A r1, r2 \in tab.waiting : KeyOf(r1) = KeyOf(r2) => r1 = r2

PendingKey(k) ==
    \/ tab.submit # None /\ k = <<"question", tab.submit.question>>
    \/ tab.retrying /\ k = <<"retry", tab.run.id>>
MadeFor(k) == \E i \in RunsOf(tab.conversation) : runs[i].key = k

(* The first attempt of the pending command, when no older one is in doubt: it
   is under way or answered, never both, and a refusal means that no Run was
   made.  A command not pending and not in doubt was never sent.             *)
First(k) ==
    /\ PendingKey(k) /\ k \notin doubtful /\ ~tab.hidden
    /\ tab.submit # None => tab.submit.attempts = 1
    /\ tab.submit = None => tab.run.retryAttempts = 0
FirstInv ==
    /\ \A req \in wire : First(KeyOf(req)) => req \in tab.waiting /\ ~MadeFor(KeyOf(req))
    /\ \A a \in answers : First(KeyOf(a.to)) /\ a.kind # "run" => ~MadeFor(KeyOf(a.to))
Untried ==
    tab.run # None /\ ~tab.retrying /\ ~tab.failedClosed
      /\ <<"retry", tab.run.id>> \notin doubtful =>
        /\ \A req \in wire : KeyOf(req) # <<"retry", tab.run.id>>
        /\ ~MadeFor(<<"retry", tab.run.id>>)
        /\ tab.run.retryAttempts = 0

(* The tab only moves on to later Runs, so what it retries it never retried
   before.                                                                   *)
OrderInv ==
    /\ \A req \in UnderWay : req.kind = "retry" /\ req.conversation = tab.conversation =>
          tab.run # None /\ req.of <= tab.run.id
    /\ \A i \in DOMAIN runs : runs[i].conversation = tab.conversation /\ runs[i].retryOf # 0 =>
          tab.run # None /\ runs[i].retryOf <= tab.run.id
    /\ tab.submit # None /\ tab.run # None =>
         \A i \in DOMAIN runs : runs[i].question = tab.submit.question => tab.run.id < i

(* What is under way to this conversation, and what works in it, is pending or
   in doubt, or known by the Run it made.                                    *)
KnownInv ==
    ~tab.failedClosed =>
        /\ \A req \in wire : req.conversation = tab.conversation =>
              KeyOf(req) \in doubtful \/ PendingKey(KeyOf(req)) \/ MadeFor(KeyOf(req))
        /\ \A i \in ActiveIn(tab.conversation) :
              \/ runs[i].key \in doubtful \/ PendingKey(runs[i].key)
              \/ tab.run # None /\ tab.run.id = i /\ tab.run.state = "active"

ComposerInv == PendingInv /\ FirstInv /\ Untried /\ OrderInv /\ KnownInv

IInv == TypeOK /\ CommandInv /\ ComposerInv

-----------------------------------------------------------------------------
(* What a step is, field by field of the tab.                                *)
Tab(c, f, h, s, y, r, w) ==
    [conversation |-> c, failedClosed |-> f, hidden |-> h, submit |-> s,
     retrying |-> y, run |-> r, waiting |-> w]
Submit(q, n, c) == [question |-> q, attempts |-> n, conversation |-> c]
Shown(i, q, s, done, n, b) ==
    [id |-> i, question |-> q, state |-> s, reconciled |-> done,
     retryAttempts |-> n, retryBlocked |-> b]
Off == UNCHANGED <<cookie, creation, made, stranded>>

(* A creation moves on, or breaks.                                           *)
Aside ==
    /\ UNCHANGED <<tab, wire, answers, runs, asked, doubtful>>
    /\ \/ creation' \in CreationType /\ creation'.at \in {"idle", "sent"}
          /\ (creation'.at = "sent" => ~tab.hidden) /\ UNCHANGED <<cookie, made>>
          /\ stranded' = (stranded \/ creation.at = "headers")
       \/ /\ creation.at = "sent" /\ made' = made + 1
          /\ creation' = [at |-> "made", implicit |-> creation.implicit,
                          conversation |-> made + 1]
          /\ UNCHANGED <<cookie, stranded>>
       \/ /\ creation.at = "made" /\ cookie' = creation.conversation
          /\ creation' = [at |-> "headers", implicit |-> creation.implicit,
                          conversation |-> creation.conversation]
          /\ UNCHANGED <<made, stranded>>
       \/ Off

(* The server takes a request off the wire: by an answer alone, or a Run.     *)
Taken(req, a) ==
    /\ req \in wire /\ wire' = wire \ {req}
    /\ a \in AnswerType /\ a.to = req
    /\ answers' = IF req \in tab.waiting THEN answers \cup {a} ELSE answers
    /\ UNCHANGED <<tab, asked, doubtful>> /\ Off
Settles(req, a) == Taken(req, a) /\ (a.kind = "run" => a.run \in Made(req)) /\ runs' = runs
NewRun(req) ==
    [conversation |-> req.conversation, key |-> KeyOf(req), question |-> QuestionOf(req),
     state |-> "active", retryOf |-> IF req.kind = "retry" THEN req.of ELSE 0]
Accepts(req, a) ==
    /\ Taken(req, a) /\ a.kind = "run" /\ a.run = Len(runs) + 1
    /\ Unheard(req) /\ ActiveIn(req.conversation) = {} /\ Allowed(req)
    /\ runs' = Append(runs, NewRun(req))
Ends(i, s) ==
    /\ i \in DOMAIN runs /\ runs[i].state = "active" /\ s \in Ended
    /\ runs' = [runs EXCEPT ![i].state = s]
    /\ UNCHANGED <<tab, wire, answers, asked, doubtful>> /\ Off

(* The tab sends a command.                                                  *)
Asking(req) ==
    /\ ComposerOpen /\ tab.conversation # 0
    /\ req = Request("question", asked + 1, 1, tab.conversation)
    /\ asked' = asked + 1
    /\ tab' = Tab(tab.conversation, FALSE, FALSE, Submit(asked + 1, 1, tab.conversation),
                  FALSE, tab.run, tab.waiting \cup {req})
    /\ wire' \subseteq wire \cup {req}
    /\ UNCHANGED <<answers, runs, doubtful>> /\ Off
Retrying(req) ==
    /\ CanRetry
    /\ req = Request("retry", tab.run.id, tab.run.retryAttempts + 1, tab.conversation)
    /\ tab' = Tab(tab.conversation, FALSE, FALSE, None, TRUE, tab.run, tab.waiting \cup {req})
    /\ wire' \subseteq wire \cup {req}
    /\ UNCHANGED <<answers, runs, asked, doubtful>> /\ Off

(* A request comes back to the tab, with an answer or without.               *)
Back(req) ==
    /\ req \in tab.waiting /\ answers' = {a \in answers : a.to # req}
    /\ UNCHANGED <<runs, asked>> /\ Off
Rested(req, f, r) ==
    Tab(tab.conversation, f, tab.hidden, IF req.kind = "question" THEN None ELSE tab.submit,
        IF req.kind = "retry" THEN FALSE ELSE tab.retrying, r, tab.waiting \ {req})
Left(req) ==
    /\ Back(req) /\ ~Pending(req)
    /\ tab' = Tab(tab.conversation, tab.failedClosed, tab.hidden, tab.submit, tab.retrying,
                  tab.run, tab.waiting \ {req})
    /\ UNCHANGED <<wire, doubtful>>
Begins(req, a) ==
    /\ Back(req) /\ Pending(req) /\ a \in answers /\ a.to = req /\ a.kind = "run"
    /\ tab' = Rested(req, tab.failedClosed,
                     Shown(a.run, QuestionOf(req), runs[a.run].state,
                           runs[a.run].state \in Ended, 0, FALSE))
    /\ doubtful' = doubtful \ {runs[a.run].key} /\ UNCHANGED wire
Closes(req) ==
    /\ Back(req) /\ Pending(req)
    /\ tab' = Rested(req, TRUE, tab.run)
    /\ UNCHANGED <<wire, doubtful>>
Marked(n, b) ==
    Shown(tab.run.id, tab.run.question, tab.run.state, tab.run.reconciled, n, b)
Reopens(req, a, b) ==
    /\ Back(req) /\ Pending(req) /\ a \in answers /\ a.to = req /\ a.kind # "run"
    /\ b \in BOOLEAN
    /\ tab' = Rested(req, tab.failedClosed,
                     IF req.kind = "question" THEN tab.run ELSE Marked(tab.run.retryAttempts, b))
    /\ doubtful' = IF req.attempt = 1 THEN doubtful ELSE doubtful \cup {KeyOf(req)}
    /\ UNCHANGED wire
Repeats(req, new) ==
    /\ Back(req) /\ Pending(req) /\ req.attempt = 1
    /\ new = Request(req.kind, req.of, 2, tab.conversation)
    /\ tab' = Tab(tab.conversation, tab.failedClosed, tab.hidden,
                  IF req.kind = "question" THEN Submit(tab.submit.question, 2, tab.submit.conversation)
                                           ELSE tab.submit,
                  tab.retrying,
                  IF req.kind = "retry" THEN Marked(tab.run.retryAttempts + 1, tab.run.retryBlocked)
                                        ELSE tab.run,
                  (tab.waiting \ {req}) \cup {new})
    /\ wire' \subseteq wire \cup {new}
    /\ UNCHANGED doubtful

(* The tab hears of its Run's end, or closes the conversation.               *)
Learns ==
    /\ tab.run # None /\ tab.run.state = "active" /\ runs[tab.run.id].state \in Ended
    /\ tab' = Tab(tab.conversation, tab.failedClosed, tab.hidden, tab.submit, tab.retrying,
                  Shown(tab.run.id, tab.run.question, runs[tab.run.id].state, TRUE,
                        tab.run.retryAttempts, tab.run.retryBlocked), tab.waiting)
    /\ UNCHANGED <<wire, answers, runs, asked, doubtful>> /\ Off
Fails ==
    /\ tab' = Tab(tab.conversation, TRUE, tab.hidden, tab.submit, tab.retrying, tab.run,
                  tab.waiting)
    /\ UNCHANGED <<wire, answers, runs, asked, doubtful>> /\ Off

(* The tab turns to the conversation just created.                           *)
Questions(w) == {req \in w : req.kind = "question"}
Adopts ==
    /\ creation.at = "headers" /\ creation' = IdleCreation /\ stranded' = FALSE
    /\ answers' = {a \in answers : a.to.kind = "question"} /\ doubtful' = {}
    /\ UNCHANGED <<cookie, made, runs>>
    /\ \/ /\ tab' = Tab(creation.conversation, FALSE, tab.hidden, None, FALSE, None,
                        Questions(tab.waiting))
          /\ UNCHANGED <<wire, asked>>
       \/ LET req == Request("question", asked + 1, 1, creation.conversation)
          IN  /\ tab' = Tab(creation.conversation, FALSE, tab.hidden,
                            Submit(asked + 1, 1, creation.conversation), FALSE, None,
                            Questions(tab.waiting) \cup {req})
              /\ wire' \subseteq wire \cup {req}
              /\ asked' = asked + 1

(* The page goes, and comes back.                                            *)
Hides ==
    /\ tab' = Tab(tab.conversation, tab.failedClosed, TRUE, tab.submit, FALSE, tab.run, {})
    /\ answers' = {} /\ creation' = IdleCreation
    /\ stranded' = (stranded \/ creation.at = "headers")
    /\ doubtful' = IF tab.retrying THEN doubtful \cup {<<"retry", tab.run.id>>} ELSE doubtful
    /\ UNCHANGED <<cookie, wire, made, runs, asked>>
Returns ==
    /\ tab.hidden
    /\ \/ /\ tab.submit = None
          /\ tab' = Tab(tab.conversation, tab.failedClosed, FALSE, None, tab.retrying, tab.run,
                        tab.waiting)
          /\ UNCHANGED wire
       \/ /\ tab.submit # None
          /\ tab' = Tab(tab.conversation, TRUE, FALSE, None, tab.retrying, tab.run, tab.waiting)
          /\ UNCHANGED wire
       \/ LET req == Request("question", tab.submit.question, 2, tab.conversation)
          IN  /\ tab.submit # None
              /\ tab' = Tab(tab.conversation, tab.failedClosed, FALSE,
                            Submit(tab.submit.question, 2, tab.submit.conversation),
                            tab.retrying, tab.run, tab.waiting \cup {req})
              /\ wire' \subseteq wire \cup {req}
    /\ UNCHANGED <<answers, runs, asked, doubtful>> /\ Off

Shape ==
    \/ Aside \/ Learns \/ Fails \/ Adopts \/ Hides \/ Returns
    \/ \E req \in wire, a \in AnswerType : Settles(req, a) \/ Accepts(req, a)
    \/ \E i \in DOMAIN runs, s \in Ended : Ends(i, s)
    \/ \E req \in RequestType : Asking(req) \/ Retrying(req)
    \/ \E req \in tab.waiting : Left(req) \/ Closes(req)
    \/ \E req \in tab.waiting, a \in answers, b \in BOOLEAN : Begins(req, a) \/ Reopens(req, a, b)
    \/ \E req \in tab.waiting, new \in RequestType : Repeats(req, new)

(* The tab is its fields.                                                    *)
LEMMA TabFields ==
    ASSUME TypeOK
    PROVE  /\ tab = Tab(tab.conversation, tab.failedClosed, tab.hidden, tab.submit,
                        tab.retrying, tab.run, tab.waiting)
           /\ tab.submit # None => tab.submit \in SubmitType
           /\ tab.run # None => tab.run \in ShownType
           /\ tab.waiting \subseteq RequestType
  BY DEF TypeOK, TabType, Tab

-----------------------------------------------------------------------------
LEMMA DeliverShape ==
    ASSUME TypeOK, NEW req \in wire, Deliver(req)
    PROVE  \E a \in AnswerType : Settles(req, a) \/ Accepts(req, a)
<1>0. req \in RequestType
  BY DEF TypeOK
<1>1. ASSUME NEW kind \in Verdicts, NEW run \in Nat, Answer(req, kind, run),
             UNCHANGED <<tab, cookie, creation, made, asked, doubtful, stranded>>,
             \/ runs' = runs /\ (kind = "run" => run \in Made(req))
             \/ /\ Unopposed(req) /\ Allowed(req) /\ kind = "run" /\ run = Len(runs) + 1
                /\ runs' = Append(runs, NewRun(req))
      PROVE  \E a \in AnswerType : Settles(req, a) \/ Accepts(req, a)
  <2> DEFINE a == [to |-> req, kind |-> kind, run |-> run]
  <2>1. a \in AnswerType /\ a.to = req /\ a.kind = kind /\ a.run = run
    BY <1>0 DEF AnswerType
  <2>2. Taken(req, a)
    BY <1>1, <2>1 DEF Answer, Taken, Off
  <2> QED  BY <1>1, <2>1, <2>2 DEF Settles, Accepts, Unopposed
<1>2. ASSUME NEW kind \in Verdicts \ {"run"}, Refuse(req, kind),
             UNCHANGED <<tab, cookie, creation, asked, doubtful, stranded>>
      PROVE  \E a \in AnswerType : Settles(req, a) \/ Accepts(req, a)
  BY <1>1, <1>2 DEF Refuse, serverVars
<1>3. CASE \E kind \in Verdicts \ {"run"} : Refuse(req, kind)
  BY <1>2, <1>3 DEF Deliver
<1>4. CASE Replay(req)
  <2>1. PICK i \in Made(req) : Answer(req, "run", i)
    BY <1>4 DEF Replay
  <2>2. i \in Nat
    BY DEF Made, RunsOf, TypeOK
  <2> QED  BY <1>1, <1>4, <2>1, <2>2 DEF Replay, Deliver, serverVars, Verdicts
<1>5. CASE Accept(req)
  <2>1. Len(runs) + 1 \in Nat
    BY DEF TypeOK
  <2>2. runs' = Append(runs, NewRun(req))
    BY <1>5 DEF Accept, NewRun
  <2> QED  BY <1>1, <1>5, <2>1, <2>2 DEF Accept, Deliver, Verdicts
<1> QED
  BY <1>3, <1>4, <1>5 DEF Deliver, Shed, NotFound, Conflict, Unready, TooLarge, Final, Verdicts

LEMMA SendOnWire ==
    ASSUME NEW t, NEW req, Send(t, req)
    PROVE  tab' = [t EXCEPT !.waiting = @ \cup {req}] /\ wire' \subseteq wire \cup {req}
  BY DEF Send

LEMMA RequestTyped ==
    ASSUME TypeOK, NEW kind \in Kinds, NEW of \in Positive, NEW attempt \in {1, 2},
           NEW c \in Positive
    PROVE  Request(kind, of, attempt, c) \in RequestType
  BY DEF TypeOK, Request, RequestType

LEMMA ShownHasConversation ==
    ASSUME TypeOK, CreationInv, SubmitOK, tab.run # None \/ tab.submit # None
    PROVE  tab.conversation \in Positive
  BY TabFields DEF TypeOK, TabType, CreationInv, SubmitOK, SubmitType, Positive

LEMMA CommandShape ==
    ASSUME IInv, SubmitQuestion \/ RetryRun
    PROVE  Shape
<1> USE DEF IInv, CommandInv, ComposerInv
<1>1. CASE SubmitQuestion /\ tab.conversation # 0
  <2> DEFINE req == Request("question", asked + 1, 1, tab.conversation)
             t == [tab EXCEPT !.submit = Submit(asked + 1, 1, tab.conversation)]
  <2>1. Send(t, req) /\ asked' = asked + 1 /\ ComposerOpen
        /\ UNCHANGED <<cookie, creation, answers, serverVars, doubtful, stranded>>
    BY <1>1 DEF SubmitQuestion, PostFirst, Submit
  <2>2. req \in RequestType
    BY <1>1, RequestTyped DEF TypeOK, TabType, Kinds, Positive
  <2>3. t.waiting = tab.waiting
    BY TabFields DEF Tab
  <2>4. tab' = Tab(tab.conversation, FALSE, FALSE, Submit(asked + 1, 1, tab.conversation),
                   FALSE, tab.run, tab.waiting \cup {req})
    BY <2>1, SendOnWire, TabFields DEF ComposerOpen, Tab
  <2>5. Asking(req)
    BY <1>1, <2>1, <2>4, SendOnWire DEF Asking, serverVars, Off
  <2> QED  BY <2>2, <2>5 DEF Shape
<1>2. CASE SubmitQuestion /\ tab.conversation = 0
  <2>1. creation' = [IdleCreation EXCEPT !.at = "sent", !.implicit = TRUE]
        /\ ComposerOpen /\ UNCHANGED <<tab, wire, asked, cookie, answers, made, runs, doubtful, stranded>>
    BY <1>2 DEF SubmitQuestion, serverVars
  <2>2. creation' \in CreationType /\ creation'.at = "sent"
    BY <2>1 DEF IdleCreation, CreationType
  <2> QED  BY <2>1, <2>2 DEF ComposerOpen, Aside, Shape, TypeOK
<1>3. CASE RetryRun
  <2> DEFINE req == Request("retry", tab.run.id, tab.run.retryAttempts + 1, tab.conversation)
             t == [tab EXCEPT !.retrying = TRUE]
  <2>1. Send(t, req) /\ CanRetry
        /\ UNCHANGED <<cookie, creation, answers, serverVars, asked, doubtful, stranded>>
    BY <1>3 DEF RetryRun
  <2>2. tab.run # None
    BY <2>1 DEF CanRetry
  <2>3. tab.run.id \in Positive /\ tab.run.retryAttempts + 1 \in {1, 2}
    BY <2>2, TabFields DEF ShownType
  <2>4. req \in RequestType
    BY <2>2, <2>3, ShownHasConversation, RequestTyped DEF Kinds
  <2>5. tab' = Tab(tab.conversation, FALSE, FALSE, None, TRUE, tab.run, tab.waiting \cup {req})
    BY <2>1, SendOnWire, TabFields DEF CanRetry, Tab
  <2>6. Retrying(req)
    BY <2>1, <2>5, SendOnWire DEF Retrying, serverVars, Off
  <2> QED  BY <2>4, <2>6 DEF Shape
<1> QED  BY <1>1, <1>2, <1>3

(* What the tab makes of a request that comes back.                          *)
Outcome(req) ==
    \/ Left(req) \/ Closes(req)
    \/ \E a \in answers, b \in BOOLEAN : Begins(req, a) \/ Reopens(req, a, b)
    \/ \E new \in RequestType : Repeats(req, new)

LEMMA AmbiguousShape ==
    ASSUME IInv, NEW req \in tab.waiting, Pending(req), Back(req), Ambiguous(req)
    PROVE  Outcome(req)
<1> USE DEF IInv, CommandInv, ComposerInv
<1>0. req \in RequestType
  BY TabFields
<1>1. CASE req.attempt >= 2
  <2>1. tab' = Rested(req, TRUE, tab.run)
    BY <1>1, TabFields DEF Ambiguous, Close, Rest, Rested, Tab
  <2> QED  BY <1>1, <2>1 DEF Ambiguous, Close, Closes, Outcome
<1>2. CASE req.attempt < 2
  <2> DEFINE new == Request(req.kind, req.of, 2, tab.conversation)
  <2>1. req.attempt = 1 /\ req.kind \in Kinds
    BY <1>0, <1>2 DEF RequestType
  <2>2. tab.submit # None \/ tab.run # None
    BY DEF Pending
  <2>3. new \in RequestType
    BY <1>0, <2>1, <2>2, ShownHasConversation, RequestTyped DEF RequestType
  <2>4. CASE req.kind = "question"
    <3> DEFINE t == [tab EXCEPT !.waiting = @ \ {req}, !.submit.attempts = 2]
    <3>0. ~(req.attempt >= 2)
      BY <2>1
    <3>1. Send(t, new) /\ UNCHANGED doubtful
      BY <3>0, <2>4, Zenon DEF Ambiguous
    <3>2. tab.submit # None /\ tab.submit \in SubmitType
      BY <2>4, TabFields DEF Pending
    <3>3. [tab.submit EXCEPT !.attempts = 2] = Submit(tab.submit.question, 2, tab.submit.conversation)
      BY <3>2 DEF SubmitType, Submit
    <3>4. t = [tab EXCEPT !.waiting = @ \ {req},
                          !.submit = Submit(tab.submit.question, 2, tab.submit.conversation)]
      BY <3>3
    <3> HIDE DEF new, t
    <3>5. tab' = [t EXCEPT !.waiting = @ \cup {new}] /\ wire' \subseteq wire \cup {new}
      BY <3>1, SendOnWire
    <3>6. tab' = Tab(tab.conversation, tab.failedClosed, tab.hidden,
                     Submit(tab.submit.question, 2, tab.submit.conversation), tab.retrying,
                     tab.run, (tab.waiting \ {req}) \cup {new})
      BY <3>4, <3>5, TabFields DEF Tab
    <3> USE DEF new
    <3> QED  BY <2>1, <2>3, <2>4, <3>1, <3>5, <3>6 DEF Repeats, Outcome
  <2>5. CASE req.kind = "retry"
    <3> DEFINE t == [tab EXCEPT !.waiting = @ \ {req}, !.run.retryAttempts = @ + 1]
    <3>0. ~(req.attempt >= 2) /\ req.kind # "question"
      BY <2>1, <2>5
    <3>1. Send(t, new) /\ UNCHANGED doubtful
      BY <3>0, Zenon DEF Ambiguous
    <3>2. tab.run # None /\ tab.run \in ShownType
      BY <2>5, TabFields DEF Pending
    <3>3. [tab.run EXCEPT !.retryAttempts = @ + 1]
            = Marked(tab.run.retryAttempts + 1, tab.run.retryBlocked)
      BY <3>2 DEF ShownType, Marked, Shown
    <3>4. t = [tab EXCEPT !.waiting = @ \ {req},
                          !.run = Marked(tab.run.retryAttempts + 1, tab.run.retryBlocked)]
      BY <3>3
    <3> HIDE DEF new, t
    <3>5. tab' = [t EXCEPT !.waiting = @ \cup {new}] /\ wire' \subseteq wire \cup {new}
      BY <3>1, SendOnWire
    <3>6. tab' = Tab(tab.conversation, tab.failedClosed, tab.hidden, tab.submit, tab.retrying,
                     Marked(tab.run.retryAttempts + 1, tab.run.retryBlocked),
                     (tab.waiting \ {req}) \cup {new})
      BY <3>4, <3>5, TabFields DEF Tab
    <3> USE DEF new
    <3> QED  BY <2>1, <2>3, <2>5, <3>1, <3>5, <3>6 DEF Repeats, Outcome
  <2> QED  BY <2>1, <2>4, <2>5 DEF Kinds
<1> QED  BY <1>0, <1>1, <1>2 DEF RequestType

LEMMA RestFields ==
    ASSUME TypeOK, NEW req
    PROVE  Rest(req) = Rested(req, tab.failedClosed, tab.run)
<1>1. ASSUME NEW t, t = Rest(req)
      PROVE  t = Rested(req, tab.failedClosed, tab.run)
  BY <1>1, TabFields DEF Rest, Rested, Tab
<1> QED  BY <1>1, Zenon

LEMMA EndFields ==
    ASSUME NEW r \in ShownType, NEW s \in States
    PROVE  [r EXCEPT !.state = s, !.reconciled = TRUE]
             = Shown(r.id, r.question, s, TRUE, r.retryAttempts, r.retryBlocked)
<1>1. ASSUME NEW t, t = [r EXCEPT !.state = s, !.reconciled = TRUE]
      PROVE  t = Shown(r.id, r.question, s, TRUE, r.retryAttempts, r.retryBlocked)
  BY <1>1 DEF ShownType, Shown
<1> QED  BY <1>1, Zenon

LEMMA ReopenShape ==
    ASSUME IInv, NEW a \in answers, NEW b \in BOOLEAN, Pending(a.to), Back(a.to),
           a.kind # "run", Reopen(a.to, b), UNCHANGED wire
    PROVE  Outcome(a.to)
<1> USE DEF IInv, CommandInv, ComposerInv
<1> DEFINE req == a.to
<1>0. a \in AnswerType /\ req \in RequestType
  BY DEF TypeOK, AnswerType
<1>1. doubtful' = IF req.attempt = 1 THEN doubtful ELSE doubtful \cup {KeyOf(req)}
  BY <1>0 DEF Reopen, Doubt, Unresolved, RequestType
<1>2. tab' = Rested(req, tab.failedClosed,
                    IF req.kind = "question" THEN tab.run ELSE Marked(tab.run.retryAttempts, b))
  <2>1. CASE req.kind = "question"
    BY <2>1, TabFields DEF Reopen, Rest, Rested, Tab
  <2>2. CASE req.kind # "question"
    <3>1. req.kind = "retry"
      BY <1>0, <2>2 DEF RequestType, Kinds
    <3>2. tab.run \in ShownType
      BY <3>1, TabFields DEF Pending
    <3>3. Rest(req) = Rested(req, tab.failedClosed, tab.run)
      BY RestFields
    <3>4. Rested(req, tab.failedClosed, tab.run).run = tab.run
      BY DEF Rested, Tab
    <3>5. [tab.run EXCEPT !.retryBlocked = b] = Marked(tab.run.retryAttempts, b)
      BY <3>2 DEF ShownType, Marked, Shown
    <3>6. tab' = [Rest(req) EXCEPT !.run = [Rest(req).run EXCEPT !.retryBlocked = b]]
      BY <2>2 DEF Reopen
    <3>7. tab' = [Rested(req, tab.failedClosed, tab.run)
                    EXCEPT !.run = Marked(tab.run.retryAttempts, b)]
      BY <3>3, <3>4, <3>5, <3>6
    <3> QED  BY <3>1, <3>7 DEF Rested, Tab
  <2> QED  BY <2>1, <2>2
<1>3. Reopens(req, a, b)
  BY <1>1, <1>2 DEF Reopens
<1> QED  BY <1>3 DEF Outcome

LEMMA CloseShape ==
    ASSUME IInv, NEW req \in tab.waiting, Pending(req), Back(req), Close(req), UNCHANGED wire
    PROVE  Outcome(req)
<1>1. tab' = Rested(req, TRUE, tab.run)
  BY TabFields DEF IInv, Close, Rest, Rested, Tab
<1> QED  BY <1>1 DEF Close, Closes, Outcome

LEMMA StartRunShape ==
    ASSUME IInv, NEW a \in answers, Pending(a.to), Back(a.to), a.kind = "run", StartRun(a),
           UNCHANGED wire
    PROVE  Outcome(a.to)
<1>1. tab' = Rested(a.to, tab.failedClosed,
                    Shown(a.run, QuestionOf(a.to), runs[a.run].state,
                          runs[a.run].state \in Ended, 0, FALSE))
  BY TabFields DEF IInv, StartRun, Rest, Rested, Tab, Shown
<1>2. Begins(a.to, a)
  BY <1>1 DEF StartRun, Begins
<1> QED  BY <1>2 DEF Outcome

LEMMA LeftShape ==
    ASSUME IInv, NEW req \in tab.waiting, ~Pending(req), Back(req),
           tab' = [tab EXCEPT !.waiting = @ \ {req}], UNCHANGED <<wire, doubtful>>
    PROVE  Outcome(req)
<1>1. tab' = Tab(tab.conversation, tab.failedClosed, tab.hidden, tab.submit, tab.retrying,
                 tab.run, tab.waiting \ {req})
  BY TabFields DEF IInv, Tab
<1> QED  BY <1>1 DEF Left, Outcome

LEMMA TakeShape ==
    ASSUME IInv, NEW a \in answers, TakeAnswer(a)
    PROVE  a.to \in tab.waiting /\ Outcome(a.to)
<1> USE DEF IInv, CommandInv, ComposerInv
<1>0. a.to \in tab.waiting /\ a.kind \in Verdicts /\ a.to.kind \in Kinds
  BY DEF AnswersOK, TypeOK, AnswerType, RequestType
<1>1. answers' = {b \in answers : b.to # a.to}
  BY DEF TakeAnswer, AnswersOK
<1>2. Back(a.to)
  BY <1>0, <1>1 DEF TakeAnswer, Back, serverVars, Off
<1>3. CASE ~Pending(a.to)
  BY <1>0, <1>2, <1>3, LeftShape DEF TakeAnswer
<1>4. CASE Pending(a.to) /\ Handle(a)
  <2>1. CASE a.kind = "run"
    <3>1. StartRun(a) /\ UNCHANGED wire
      BY <1>4, <2>1 DEF Handle
    <3> QED  BY <1>0, <1>2, <1>4, <2>1, <3>1, StartRunShape
  <2>2. CASE a.kind = "notFound"
    BY <1>0, <1>2, <1>4, <2>2, CloseShape DEF Handle
  <2>3. CASE a.kind \in {"shed", "tooLarge"}
    <3>1. Reopen(a.to, FALSE) /\ UNCHANGED wire
      BY <1>4, <2>3 DEF Handle
    <3> QED  BY <1>0, <1>2, <1>4, <2>3, <3>1, ReopenShape
  <2>4. CASE a.kind \in {"final", "conflict"}
    <3>1. CASE a.to.kind = "question"
      BY <1>0, <1>2, <1>4, <2>4, <3>1, CloseShape DEF Handle
    <3>2. CASE a.to.kind # "question"
      <4>1. Reopen(a.to, a.kind = "final") /\ UNCHANGED wire
        BY <1>4, <2>4, <3>2 DEF Handle
      <4> QED  BY <1>0, <1>2, <1>4, <2>4, <4>1, ReopenShape
    <3> QED  BY <3>1, <3>2
  <2>5. CASE a.kind = "unready"
    <3>1. CASE a.to.kind = "question"
      BY <1>0, <1>2, <1>4, <2>5, <3>1, AmbiguousShape DEF Handle
    <3>2. CASE a.to.kind # "question"
      <4>1. Reopen(a.to, FALSE) /\ UNCHANGED wire
        BY <1>4, <2>5, <3>2 DEF Handle
      <4> QED  BY <1>0, <1>2, <1>4, <2>5, <4>1, ReopenShape
    <3> QED  BY <3>1, <3>2
  <2> QED  BY <1>0, <2>1, <2>2, <2>3, <2>4, <2>5 DEF Verdicts
<1>5. CASE Pending(a.to) /\ HandleBroken(a)
  <2>1. CASE Close(a.to) /\ UNCHANGED wire
    BY <1>0, <1>2, <1>5, <2>1, CloseShape
  <2>2. CASE a.to.kind = "question" /\ Ambiguous(a.to)
    BY <1>0, <1>2, <1>5, <2>2, AmbiguousShape
  <2>3. CASE a.kind \in {"shed", "unready"} /\ Reopen(a.to, FALSE) /\ UNCHANGED wire
    BY <1>0, <1>2, <1>5, <2>3, ReopenShape
  <2> QED  BY <1>5, <2>1, <2>2, <2>3 DEF HandleBroken
<1> QED  BY <1>0, <1>3, <1>4, <1>5 DEF TakeAnswer

LEMMA GiveUpShape ==
    ASSUME IInv, NEW req \in tab.waiting, GiveUp(req)
    PROVE  Outcome(req)
<1>1. Back(req)
  BY DEF GiveUp, Back, serverVars, Off
<1> QED  BY <1>1, AmbiguousShape, LeftShape DEF GiveUp

LEMMA OutcomeShape ==
    ASSUME NEW req \in tab.waiting, Outcome(req)
    PROVE  Shape
  BY DEF Outcome, Shape

LEMMA PageShape ==
    ASSUME IInv, Hide \/ Show \/ LearnEnd \/ FollowFails
    PROVE  Shape
<1> USE DEF IInv
<1>1. CASE Hide
  <2>1. tab' = Tab(tab.conversation, tab.failedClosed, TRUE, tab.submit, FALSE, tab.run, {})
    BY <1>1, TabFields DEF Hide, Tab
  <2> QED  BY <1>1, <2>1 DEF Hide, Hides, Shape, serverVars
<1>2. CASE Show
  <2> USE DEF serverVars, Off
  <2>1. CASE tab.submit = None /\ tab' = [tab EXCEPT !.hidden = FALSE] /\ UNCHANGED wire
    <3>1. tab' = Tab(tab.conversation, tab.failedClosed, FALSE, None, tab.retrying, tab.run,
                     tab.waiting)
      BY <2>1, TabFields DEF Tab
    <3> QED  BY <1>2, <2>1, <3>1 DEF Show, Returns, Shape
  <2>2. CASE tab.submit # None /\ UNCHANGED wire
             /\ tab' = [tab EXCEPT !.hidden = FALSE, !.submit = None, !.failedClosed = TRUE]
    <3>1. tab' = Tab(tab.conversation, TRUE, FALSE, None, tab.retrying, tab.run, tab.waiting)
      BY <2>2, TabFields DEF Tab
    <3> QED  BY <1>2, <2>2, <3>1 DEF Show, Returns, Shape
  <2>3. CASE tab.submit # None
             /\ Send([tab EXCEPT !.hidden = FALSE, !.submit.attempts = 2],
                     Request("question", tab.submit.question, 2, tab.conversation))
    <3> DEFINE req == Request("question", tab.submit.question, 2, tab.conversation)
               t == [tab EXCEPT !.hidden = FALSE, !.submit.attempts = 2]
    <3>1. [tab.submit EXCEPT !.attempts = 2]
            = Submit(tab.submit.question, 2, tab.submit.conversation)
      BY <2>3, TabFields DEF SubmitType, Submit
    <3>2. t = [tab EXCEPT !.hidden = FALSE,
                          !.submit = Submit(tab.submit.question, 2, tab.submit.conversation)]
      BY <3>1
    <3>3. Send(t, req)
      BY <2>3
    <3> HIDE DEF req, t
    <3>4. tab' = [t EXCEPT !.waiting = @ \cup {req}] /\ wire' \subseteq wire \cup {req}
      BY <3>3, SendOnWire
    <3>5. tab' = Tab(tab.conversation, tab.failedClosed, FALSE,
                     Submit(tab.submit.question, 2, tab.submit.conversation),
                     tab.retrying, tab.run, tab.waiting \cup {req})
      BY <3>2, <3>4, TabFields DEF Tab
    <3> USE DEF req
    <3> QED  BY <1>2, <2>3, <3>4, <3>5 DEF Show, Returns, Shape
  <2> QED  BY <1>2, <2>1, <2>2, <2>3 DEF Show
<1>3. CASE LearnEnd
  <2>1. tab.run # None /\ tab.run \in ShownType
    BY <1>3, TabFields DEF LearnEnd
  <2>2. [tab.run EXCEPT !.state = runs[tab.run.id].state, !.reconciled = TRUE]
          = Shown(tab.run.id, tab.run.question, runs[tab.run.id].state, TRUE,
                  tab.run.retryAttempts, tab.run.retryBlocked)
    <3>1. runs[tab.run.id].state \in States
      BY <1>3 DEF CommandInv, TypeOK, RunType, LearnEnd, States
    <3> QED  BY <2>1, <3>1, EndFields
  <2>3. tab' = [tab EXCEPT !.run = [tab.run EXCEPT !.state = runs[tab.run.id].state,
                                                   !.reconciled = TRUE]]
    BY <1>3, TabFields DEF LearnEnd, Tab
  <2>4. tab' = Tab(tab.conversation, tab.failedClosed, tab.hidden, tab.submit, tab.retrying,
                   Shown(tab.run.id, tab.run.question, runs[tab.run.id].state, TRUE,
                         tab.run.retryAttempts, tab.run.retryBlocked), tab.waiting)
    BY <2>2, <2>3, TabFields DEF Tab
  <2> QED  BY <1>3, <2>4 DEF LearnEnd, Learns, Shape, Off, netVars, serverVars
<1>4. CASE FollowFails
  <2>1. tab' = Tab(tab.conversation, TRUE, tab.hidden, tab.submit, tab.retrying, tab.run,
                   tab.waiting)
    BY <1>4, TabFields DEF FollowFails, Tab
  <2> QED  BY <1>4, <2>1 DEF FollowFails, Fails, Shape, Off, netVars, serverVars
<1> QED  BY <1>1, <1>2, <1>3, <1>4

LEMMA AdoptShape ==
    ASSUME IInv, Adopt
    PROVE  Adopts
<1> USE DEF IInv
<1> DEFINE c == creation.conversation
<1>1. Fresh(tab) = Tab(c, FALSE, tab.hidden, None, FALSE, None, Questions(tab.waiting))
  <2>1. Fresh(tab) = [tab EXCEPT !.conversation = c, !.failedClosed = FALSE,
                                 !.submit = None, !.retrying = FALSE, !.run = None,
                                 !.waiting = Questions(tab.waiting)]
    BY Zenon DEF Fresh, Questions
  <2> QED  BY <2>1, TabFields DEF Tab
<1>2. CASE ~creation.implicit
  BY <1>1, <1>2 DEF Adopt, Adopts, serverVars
<1>3. CASE creation.implicit
  <2> DEFINE req == Request("question", asked + 1, 1, c)
             t == [Fresh(tab) EXCEPT !.submit = Submit(asked + 1, 1, c)]
  <2>1. Send(t, req) /\ asked' = asked + 1
    BY <1>3 DEF Adopt, PostFirst, Submit
  <2>2. t = Tab(c, FALSE, tab.hidden, Submit(asked + 1, 1, c), FALSE, None,
                Questions(tab.waiting))
    <3>1. t = [Tab(c, FALSE, tab.hidden, None, FALSE, None, Questions(tab.waiting))
                 EXCEPT !.submit = Submit(asked + 1, 1, c)]
      BY <1>1
    <3> HIDE DEF t
    <3> QED  BY <3>1 DEF Tab
  <2> HIDE DEF t, req
  <2>3. tab' = [t EXCEPT !.waiting = @ \cup {req}] /\ wire' \subseteq wire \cup {req}
    BY <2>1, SendOnWire
  <2>4. tab' = Tab(c, FALSE, tab.hidden, Submit(asked + 1, 1, c), FALSE, None,
                   Questions(tab.waiting) \cup {req})
    BY <2>2, <2>3 DEF Tab
  <2> USE DEF req
  <2> QED  BY <2>1, <2>3, <2>4 DEF Adopt, Adopts, serverVars
<1> QED  BY <1>2, <1>3

LEMMA CreationShape ==
    ASSUME IInv, NewConversation \/ CreateConversation \/ SetCookie \/ CreationFails
                 \/ UNCHANGED vars
    PROVE  Aside
<1>0. creation \in CreationType /\ stranded \in BOOLEAN
  BY DEF IInv, TypeOK
<1>1. CASE NewConversation
  <2>1. creation' \in CreationType /\ creation'.at = "sent"
    BY <1>1 DEF NewConversation, IdleCreation, CreationType
  <2> QED  BY <1>0, <1>1, <2>1 DEF NewConversation, Aside, netVars, serverVars
<1>2. CASE CreateConversation
  BY <1>0, <1>2 DEF CreateConversation, Aside, CreationType, netVars
<1>3. CASE SetCookie
  BY <1>0, <1>3 DEF SetCookie, Aside, CreationType, netVars, serverVars
<1>4. CASE CreationFails
  <2>1. creation' \in CreationType /\ creation'.at = "idle"
    BY <1>4 DEF CreationFails, IdleCreation, CreationType
  <2> QED  BY <1>4, <2>1 DEF CreationFails, Aside, netVars, serverVars
<1>5. CASE UNCHANGED vars
  BY <1>5 DEF vars, Aside, Off
<1> QED  BY <1>1, <1>2, <1>3, <1>4, <1>5

LEMMA StepShape ==
    ASSUME IInv, [Next]_vars
    PROVE  Shape
<1>1. ASSUME NEW req \in wire, Deliver(req)
      PROVE  Shape
  BY <1>1, DeliverShape DEF IInv, Shape
<1>2. ASSUME NEW i \in DOMAIN runs, NEW s \in Ended, EndRun(i, s)
      PROVE  Shape
  BY <1>2 DEF EndRun, Ends, Shape, Off, netVars
<1>3. ASSUME NEW i \in DOMAIN runs, StopRun(i)
      PROVE  Shape
  <2>1. Ends(i, "cancelled")
    BY <1>3 DEF StopRun, Ends, Off, netVars, Ended, Recoverable
  <2> QED  BY <2>1 DEF Shape, Ended, Recoverable
<1>4. ASSUME NEW a \in answers, TakeAnswer(a)
      PROVE  Shape
  BY <1>4, TakeShape, OutcomeShape
<1>5. ASSUME NEW req \in tab.waiting, GiveUp(req)
      PROVE  Shape
  BY <1>5, GiveUpShape, OutcomeShape
<1>6. CASE SubmitQuestion \/ RetryRun
  BY <1>6, CommandShape
<1>7. CASE LearnEnd \/ FollowFails \/ Hide \/ Show
  BY <1>7, PageShape
<1>8. CASE NewConversation \/ CreateConversation \/ SetCookie \/ CreationFails \/ UNCHANGED vars
  BY <1>8, CreationShape DEF Shape
<1>9. CASE Adopt
  BY <1>9, AdoptShape DEF Shape
<1> QED  BY <1>1, <1>2, <1>3, <1>4, <1>5, <1>6, <1>7, <1>8, <1>9 DEF Next

-----------------------------------------------------------------------------
LEMMA TabTyped ==
    ASSUME NEW c \in Nat, NEW f \in BOOLEAN, NEW h \in BOOLEAN,
           NEW s \in SubmitType \cup {None}, NEW y \in BOOLEAN,
           NEW r \in ShownType \cup {None}, NEW w \in SUBSET RequestType
    PROVE  Tab(c, f, h, s, y, r, w) \in TabType
  BY DEF Tab, TabType

LEMMA TypeStep ==
    ASSUME IInv, Shape
    PROVE  TypeOK'
<1> USE DEF IInv
<1>0. /\ TypeOK /\ tab.conversation \in Nat /\ tab.failedClosed \in BOOLEAN
      /\ tab.hidden \in BOOLEAN /\ tab.retrying \in BOOLEAN
      /\ tab.submit \in SubmitType \cup {None} /\ tab.run \in ShownType \cup {None}
      /\ tab.waiting \in SUBSET RequestType
  BY DEF TypeOK, TabType
<1>i. IdleCreation \in CreationType
  BY DEF IdleCreation, CreationType
<1>1. CASE Aside
  <2>1. creation' \in CreationType /\ cookie' \in Nat /\ made' \in Nat /\ stranded' \in BOOLEAN
    <3>0. creation \in CreationType /\ cookie \in Nat /\ made \in Nat /\ stranded \in BOOLEAN
      BY <1>0 DEF TypeOK
    <3>1. CASE creation' \in CreationType /\ UNCHANGED <<cookie, made>>
               /\ stranded' = (stranded \/ creation.at = "headers")
      BY <3>0, <3>1
    <3>2. CASE /\ creation.at = "sent" /\ made' = made + 1
               /\ creation' = [at |-> "made", implicit |-> creation.implicit,
                               conversation |-> made + 1]
               /\ UNCHANGED <<cookie, stranded>>
      BY <3>0, <3>2 DEF CreationType
    <3>3. CASE /\ creation.at = "made" /\ cookie' = creation.conversation
               /\ creation' = [at |-> "headers", implicit |-> creation.implicit,
                               conversation |-> creation.conversation]
               /\ UNCHANGED <<made, stranded>>
      BY <3>0, <3>3 DEF CreationType
    <3>4. CASE Off
      BY <3>0, <3>4 DEF Off
    <3> QED  BY <1>1, <3>1, <3>2, <3>3, <3>4 DEF Aside
  <2> QED  BY <1>0, <1>1, <2>1 DEF Aside, TypeOK
<1>2. ASSUME NEW req \in wire, NEW a \in AnswerType, Settles(req, a)
      PROVE  TypeOK'
  BY <1>0, <1>2 DEF Settles, Taken, Off, TypeOK
<1>3. ASSUME NEW req \in wire, NEW a \in AnswerType, Accepts(req, a)
      PROVE  TypeOK'
  <2>1. req \in RequestType
    BY <1>0 DEF TypeOK
  <2>2. KeyOf(req) \in Kinds \X Positive
    BY <2>1 DEF KeyOf, RequestType
  <2>3. QuestionOf(req) \in Positive
    <3>1. CASE req.kind = "question"
      BY <2>1, <3>1 DEF QuestionOf, RequestType
    <3>2. CASE req.kind = "retry"
      <4>1. req.of \in DOMAIN runs
        BY <3>2 DEF CommandInv, RequestsOK, UnderWay
      <4>2. runs[req.of] \in RunType
        BY <1>0, <4>1 DEF TypeOK
      <4> QED  BY <3>2, <4>2 DEF QuestionOf, RunType
    <3> QED  BY <2>1, <3>1, <3>2 DEF RequestType, Kinds
  <2>4. NewRun(req) \in RunType
    BY <2>1, <2>2, <2>3 DEF NewRun, RunType, RequestType, Positive, States
  <2>5. runs' \in Seq(RunType)
    BY <1>0, <1>3, <2>4 DEF Accepts, TypeOK
  <2> QED  BY <1>0, <1>3, <2>5 DEF Accepts, Taken, Off, TypeOK
<1>4. ASSUME NEW i \in DOMAIN runs, NEW s \in Ended, Ends(i, s)
      PROVE  TypeOK'
  <2>1. runs[i] \in RunType /\ s \in States
    BY <1>0 DEF TypeOK, States
  <2>2. [runs[i] EXCEPT !.state = s] \in RunType
    BY <2>1 DEF RunType
  <2>3. runs' = [runs EXCEPT ![i] = [runs[i] EXCEPT !.state = s]]
    BY <1>4 DEF Ends
  <2>4. runs' \in Seq(RunType)
    BY <1>0, <2>2, <2>3 DEF TypeOK
  <2> QED  BY <1>0, <1>4, <2>4 DEF Ends, Off, TypeOK
<1>5. ASSUME NEW req \in RequestType, Asking(req)
      PROVE  TypeOK'
  <2>1. Submit(asked + 1, 1, tab.conversation) \in SubmitType
    BY <1>0, <1>5 DEF Asking, Submit, SubmitType, Positive, TypeOK
  <2>2. tab' \in TabType
    BY <1>0, <1>5, <2>1 DEF Asking, Tab, TabType
  <2>3. /\ asked' = asked + 1 /\ wire' \subseteq wire \cup {req}
        /\ UNCHANGED <<answers, runs, doubtful, cookie, creation, made, stranded>>
    BY <1>5 DEF Asking, Off
  <2> QED  BY <1>0, <2>2, <2>3 DEF TypeOK
<1>6. ASSUME NEW req \in RequestType, Retrying(req)
      PROVE  TypeOK'
  <2>1. tab' \in TabType
    BY <1>0, <1>6, TabTyped DEF Retrying
  <2> QED  BY <1>0, <1>6, <2>1 DEF Retrying, Off, TypeOK
<1>7. ASSUME NEW req \in tab.waiting, Outcome(req)
      PROVE  TypeOK'
  <2>1. ASSUME tab' \in TabType, wire' \subseteq RequestType, Back(req),
               doubtful' \in SUBSET (Kinds \X Positive)
        PROVE  TypeOK'
    BY <1>0, <2>1 DEF Back, Off, TypeOK
  <2>2. ASSUME NEW f \in BOOLEAN, NEW r \in ShownType \cup {None}
        PROVE  Rested(req, f, r) \in TabType
    <3> DEFINE s == IF req.kind = "question" THEN None ELSE tab.submit
               y == IF req.kind = "retry" THEN FALSE ELSE tab.retrying
    <3>1. s \in SubmitType \cup {None} /\ y \in BOOLEAN
      BY <1>0
    <3> HIDE DEF s, y
    <3>2. Tab(tab.conversation, f, tab.hidden, s, y, r, tab.waiting \ {req}) \in TabType
      BY <1>0, <2>2, <3>1 DEF Tab, TabType
    <3> QED  BY <3>2, Zenon DEF Rested, s, y
  <2>3. CASE Left(req)
    BY <1>0, <2>1, <2>3, TabTyped DEF Left, TypeOK
  <2>4. CASE Closes(req)
    BY <1>0, <2>1, <2>2, <2>4 DEF Closes, TypeOK
  <2>5. ASSUME NEW a \in answers, Begins(req, a)
        PROVE  TypeOK'
    <3>1. a.run \in DOMAIN runs
      BY <2>5 DEF Begins, CommandInv, AnswersOK
    <3>2. runs[a.run] \in RunType /\ a.run \in Positive
      BY <1>0, <3>1 DEF TypeOK, Positive
    <3>3. QuestionOf(req) \in Positive
      <4>0. req \in RequestType
        BY <1>0
      <4>1. CASE req.kind = "question"
        BY <4>0, <4>1 DEF QuestionOf, RequestType
      <4>2. CASE req.kind = "retry"
        <5>1. req.of \in DOMAIN runs
          BY <4>2 DEF CommandInv, RequestsOK, UnderWay
        <5>2. runs[req.of] \in RunType
          BY <1>0, <5>1 DEF TypeOK
        <5> QED  BY <4>2, <5>2 DEF QuestionOf, RunType
      <4> QED  BY <4>0, <4>1, <4>2 DEF RequestType, Kinds
    <3>4. Shown(a.run, QuestionOf(req), runs[a.run].state, runs[a.run].state \in Ended, 0, FALSE)
            \in ShownType
      BY <3>2, <3>3 DEF Shown, ShownType, RunType
    <3> QED  BY <1>0, <2>1, <2>2, <2>5, <3>4 DEF Begins, TypeOK
  <2>6. ASSUME NEW a \in answers, NEW b \in BOOLEAN, Reopens(req, a, b)
        PROVE  TypeOK'
    <3>0. req \in RequestType /\ KeyOf(req) \in Kinds \X Positive
      BY <1>0 DEF KeyOf, RequestType
    <3>1. (IF req.kind = "question" THEN tab.run ELSE Marked(tab.run.retryAttempts, b))
            \in ShownType \cup {None}
      <4>1. CASE req.kind = "question"
        BY <1>0, <4>1
      <4>2. CASE req.kind # "question"
        <5>1. tab.run \in ShownType
          BY <1>0, <2>6, <3>0, <4>2 DEF Reopens, Pending, RequestType, Kinds
        <5>2. Marked(tab.run.retryAttempts, b) \in ShownType
          BY <5>1 DEF Marked, Shown, ShownType
        <5> QED  BY <4>2, <5>2
      <4> QED  BY <4>1, <4>2
    <3> QED  BY <1>0, <2>1, <2>2, <2>6, <3>0, <3>1 DEF Reopens, TypeOK
  <2>7. ASSUME NEW new \in RequestType, Repeats(req, new)
        PROVE  TypeOK'
    <3>0. req \in RequestType
      BY <1>0
    <3>1. (IF req.kind = "question"
           THEN Submit(tab.submit.question, 2, tab.submit.conversation) ELSE tab.submit)
            \in SubmitType \cup {None}
      BY <1>0, <2>7 DEF Repeats, Pending, Submit, SubmitType
    <3>2. (IF req.kind = "retry"
           THEN Marked(tab.run.retryAttempts + 1, tab.run.retryBlocked) ELSE tab.run)
            \in ShownType \cup {None}
      <4>1. CASE req.kind = "retry"
        <5>1. tab.run \in ShownType
          BY <1>0, <2>7, <4>1 DEF Repeats, Pending
        <5>2. tab.run.retryAttempts = 0
          BY <2>7, <4>1, <5>1 DEF Repeats, ComposerInv, PendingInv, ShownType
        <5>3. Marked(tab.run.retryAttempts + 1, tab.run.retryBlocked) \in ShownType
          BY <5>1, <5>2 DEF Marked, Shown, ShownType
        <5> QED  BY <4>1, <5>3
      <4>2. CASE req.kind # "retry"
        BY <1>0, <4>2
      <4> QED  BY <4>1, <4>2
    <3>3. tab' \in TabType
      BY <1>0, <2>7, <3>1, <3>2 DEF Repeats, Tab, TabType
    <3> QED  BY <1>0, <2>1, <2>7, <3>3 DEF Repeats, TypeOK
  <2> QED  BY <1>7, <2>3, <2>4, <2>5, <2>6, <2>7 DEF Outcome
<1>8. CASE Learns
  <2>1. runs[tab.run.id].state \in States
    BY <1>8 DEF Learns, States
  <2>2. Shown(tab.run.id, tab.run.question, runs[tab.run.id].state, TRUE,
              tab.run.retryAttempts, tab.run.retryBlocked) \in ShownType
    BY <1>0, <1>8, <2>1 DEF Learns, Shown, ShownType
  <2>3. tab' \in TabType
    BY <1>0, <1>8, <2>2, TabTyped DEF Learns
  <2> QED  BY <1>0, <1>8, <2>3 DEF Learns, Off, TypeOK
<1>9. CASE Fails
  <2>1. tab' \in TabType
    BY <1>0, <1>9, TabTyped DEF Fails
  <2> QED  BY <1>0, <1>9, <2>1 DEF Fails, Off, TypeOK
<1>10. CASE Adopts
  <2> DEFINE c == creation.conversation
             req == Request("question", asked + 1, 1, c)
  <2>0. c \in Positive /\ asked + 1 \in Positive
    BY <1>0, <1>10 DEF Adopts, CommandInv, CreationInv, Positive, TypeOK
  <2>1. Questions(tab.waiting) \in SUBSET RequestType
    BY <1>0 DEF Questions
  <2>2. req \in RequestType
    BY <1>0, <2>0, RequestTyped DEF Kinds
  <2>3. Submit(asked + 1, 1, c) \in SubmitType
    BY <2>0 DEF Submit, SubmitType
  <2>4. tab' \in TabType /\ wire' \subseteq RequestType /\ asked' \in Nat
    <3>1. CASE tab' = Tab(c, FALSE, tab.hidden, None, FALSE, None, Questions(tab.waiting))
               /\ UNCHANGED <<wire, asked>>
      BY <1>0, <2>0, <2>1, <3>1, TabTyped DEF TypeOK, Positive
    <3>2. CASE /\ tab' = Tab(c, FALSE, tab.hidden, Submit(asked + 1, 1, c), FALSE, None,
                             Questions(tab.waiting) \cup {req})
               /\ wire' \subseteq wire \cup {req} /\ asked' = asked + 1
      <4> HIDE DEF req
      <4>1. Questions(tab.waiting) \cup {req} \in SUBSET RequestType
        BY <2>1, <2>2
      <4>2. tab' \in TabType
        BY <1>0, <2>0, <2>3, <3>2, <4>1, TabTyped DEF Positive
      <4> QED  BY <1>0, <2>0, <2>2, <3>2, <4>2 DEF TypeOK, Positive
    <3> QED  BY <1>10, <3>1, <3>2 DEF Adopts
  <2> QED  BY <1>0, <1>i, <1>10, <2>4 DEF Adopts, TypeOK
<1>11. CASE Hides
  <2>1. tab' \in TabType
    BY <1>0, <1>11, TabTyped DEF Hides
  <2>2. doubtful' \in SUBSET (Kinds \X Positive)
    <3>1. tab.retrying => tab.run \in ShownType
      BY <1>0 DEF ComposerInv, PendingInv
    <3> QED  BY <1>0, <1>11, <3>1 DEF Hides, ShownType, Kinds, TypeOK
  <2> QED  BY <1>0, <1>i, <1>11, <2>1, <2>2 DEF Hides, TypeOK, CreationType
<1>12. CASE Returns
  <2> DEFINE req == Request("question", tab.submit.question, 2, tab.conversation)
  <2>1. CASE UNCHANGED wire /\ \E f \in BOOLEAN :
               tab' = Tab(tab.conversation, f, FALSE, None, tab.retrying, tab.run, tab.waiting)
    <3>1. tab' \in TabType
      BY <1>0, <2>1 DEF Tab, TabType
    <3> QED  BY <1>0, <1>12, <2>1, <3>1 DEF Returns, Off, TypeOK
  <2>2. CASE /\ tab.submit # None
             /\ tab' = Tab(tab.conversation, tab.failedClosed, FALSE,
                           Submit(tab.submit.question, 2, tab.submit.conversation),
                           tab.retrying, tab.run, tab.waiting \cup {req})
             /\ wire' \subseteq wire \cup {req}
    <3>1. tab.submit \in SubmitType
      BY <1>0, <2>2
    <3>2. req \in RequestType
      BY <2>2, <3>1, ShownHasConversation, RequestTyped DEF CommandInv, SubmitType, Kinds
    <3>3. Submit(tab.submit.question, 2, tab.submit.conversation) \in SubmitType
      BY <3>1 DEF Submit, SubmitType
    <3> HIDE DEF req
    <3>4. tab' \in TabType
      BY <1>0, <2>2, <3>2, <3>3, TabTyped
    <3> QED  BY <1>0, <1>12, <2>2, <3>2, <3>4 DEF Returns, Off, TypeOK
  <2> QED  BY <1>0, <1>12, <2>1, <2>2 DEF Returns
<1> QED
  BY <1>1, <1>2, <1>3, <1>4, <1>5, <1>6, <1>7, <1>8, <1>9, <1>10, <1>11, <1>12
  DEF Shape, Outcome

-----------------------------------------------------------------------------
(* What a step does to the Runs: one is accepted, or none but to end.         *)
SameRun(i) ==
    /\ runs'[i].conversation = runs[i].conversation /\ runs'[i].key = runs[i].key
    /\ runs'[i].question = runs[i].question /\ runs'[i].retryOf = runs[i].retryOf
    /\ runs'[i].state # runs[i].state => runs[i].state = "active" /\ runs'[i].state \in Ended
SameRuns == DOMAIN runs' = DOMAIN runs /\ \A i \in DOMAIN runs : SameRun(i)

LEMMA RunTyped ==
    ASSUME TypeOK, NEW i \in DOMAIN runs
    PROVE  runs[i] \in RunType /\ i \in Positive
  BY DEF TypeOK, Positive

LEMMA AcceptedRun ==
    ASSUME TypeOK, NEW req \in wire, NEW a \in AnswerType, Accepts(req, a)
    PROVE  /\ DOMAIN runs' = DOMAIN runs \cup {Len(runs) + 1}
           /\ \A i \in DOMAIN runs : runs'[i] = runs[i] /\ i < Len(runs) + 1
           /\ runs'[Len(runs) + 1] = NewRun(req)
           /\ Len(runs) + 1 \notin DOMAIN runs
  BY DEF TypeOK, Accepts

LEMMA RunsMove ==
    ASSUME IInv, Shape
    PROVE  \/ SameRuns
           \/ \E req \in wire, a \in AnswerType : Accepts(req, a)
<1>1. CASE UNCHANGED runs
  BY <1>1 DEF SameRuns, SameRun
<1>2. ASSUME NEW i \in DOMAIN runs, NEW s \in Ended, Ends(i, s)
      PROVE  SameRuns
  <2>1. runs[i] \in RunType
    BY RunTyped DEF IInv
  <2>2. runs' = [runs EXCEPT ![i] = [runs[i] EXCEPT !.state = s]]
    BY <1>2 DEF Ends
  <2>3. DOMAIN runs' = DOMAIN runs /\ \A j \in DOMAIN runs \ {i} : runs'[j] = runs[j]
    BY <2>2
  <2>4. runs'[i] = [runs[i] EXCEPT !.state = s]
    BY <2>2
  <2>5. SameRun(i)
    BY <1>2, <2>1, <2>4 DEF SameRun, RunType, Ends
  <2> QED  BY <2>3, <2>5 DEF SameRuns, SameRun
<1> QED
  BY <1>1, <1>2 DEF Shape, Aside, Learns, Fails, Adopts, Hides, Returns, Settles, Asking,
     Retrying, Left, Closes, Begins, Reopens, Repeats, Back

(* What is newly under way: a question just typed, or the pending command.    *)
Grows(new) ==
    /\ wire' \subseteq wire \cup {new} /\ tab'.waiting \subseteq tab.waiting \cup {new}
    /\ new.conversation = tab'.conversation /\ UNCHANGED runs
    /\ \/ Asks(new, asked + 1) /\ asked' = asked + 1
       \/ /\ asked' = asked /\ tab'.conversation = tab.conversation
          /\ \/ tab.submit # None /\ Asks(new, tab.submit.question)
             \/ new.kind = "retry" /\ tab.run # None /\ new.of = tab.run.id

LEMMA WireMoves ==
    ASSUME IInv, Shape
    PROVE  \/ wire' \subseteq wire /\ tab'.waiting \subseteq tab.waiting /\ asked' = asked
           \/ \E new \in RequestType : Grows(new)
<1> USE DEF IInv
<1>1. CASE Aside \/ Learns \/ Fails \/ Hides
  <2>1. UNCHANGED <<wire, asked>>
    BY <1>1 DEF Aside, Learns, Fails, Hides
  <2>2. tab'.waiting \subseteq tab.waiting
    <3>1. CASE Aside
      BY <3>1 DEF Aside
    <3>2. CASE Learns
      BY <3>2 DEF Learns, Tab
    <3>3. CASE Fails
      BY <3>3 DEF Fails, Tab
    <3>4. CASE Hides
      BY <3>4 DEF Hides, Tab
    <3> QED  BY <1>1, <3>1, <3>2, <3>3, <3>4
  <2> QED  BY <2>1, <2>2
<1>2. ASSUME NEW req \in wire, NEW a \in AnswerType, Settles(req, a) \/ Accepts(req, a)
      PROVE  wire' \subseteq wire /\ tab'.waiting \subseteq tab.waiting /\ asked' = asked
  BY <1>2 DEF Settles, Accepts, Taken
<1>3. ASSUME NEW i \in DOMAIN runs, NEW s \in Ended, Ends(i, s)
      PROVE  wire' \subseteq wire /\ tab'.waiting \subseteq tab.waiting /\ asked' = asked
  BY <1>3 DEF Ends
<1>4. ASSUME NEW req \in RequestType, Asking(req)
      PROVE  Grows(req)
  BY <1>4 DEF Asking, Grows, Tab, Request, Asks
<1>5. ASSUME NEW req \in RequestType, Retrying(req)
      PROVE  Grows(req)
  BY <1>5 DEF Retrying, CanRetry, Grows, Tab, Request, Asks
<1>6. ASSUME NEW req \in tab.waiting, Left(req) \/ Closes(req)
      PROVE  wire' \subseteq wire /\ tab'.waiting \subseteq tab.waiting /\ asked' = asked
  <2>1. UNCHANGED <<wire, asked>>
    BY <1>6 DEF Left, Closes, Back
  <2>2. tab'.waiting = tab.waiting \ {req}
    <3>1. CASE Left(req)
      BY <3>1 DEF Left, Tab
    <3>2. CASE Closes(req)
      BY <3>2 DEF Closes, Rested, Tab
    <3> QED  BY <1>6, <3>1, <3>2
  <2> QED  BY <2>1, <2>2
<1>7. ASSUME NEW req \in tab.waiting, NEW a \in answers, NEW b \in BOOLEAN,
             Begins(req, a) \/ Reopens(req, a, b)
      PROVE  wire' \subseteq wire /\ tab'.waiting \subseteq tab.waiting /\ asked' = asked
  <2>1. UNCHANGED <<wire, asked>>
    BY <1>7 DEF Begins, Reopens, Back
  <2>2. tab'.waiting = tab.waiting \ {req}
    <3>1. CASE Begins(req, a)
      BY <3>1 DEF Begins, Rested, Tab
    <3>2. CASE Reopens(req, a, b)
      BY <3>2 DEF Reopens, Rested, Tab
    <3> QED  BY <1>7, <3>1, <3>2
  <2> QED  BY <2>1, <2>2
<1>8. ASSUME NEW req \in tab.waiting, NEW new \in RequestType, Repeats(req, new)
      PROVE  Grows(new)
  <2>1. new.kind = req.kind /\ new.of = req.of /\ new.conversation = tab.conversation
    BY <1>8 DEF Repeats, Request
  <2>2. /\ tab'.waiting \subseteq tab.waiting \cup {new} /\ tab'.conversation = tab.conversation
        /\ wire' \subseteq wire \cup {new} /\ UNCHANGED <<runs, asked>> /\ Pending(req)
    BY <1>8 DEF Repeats, Back, Tab
  <2>3. req.kind \in Kinds
    BY TabFields DEF RequestType
  <2> QED  BY <2>1, <2>2, <2>3 DEF Pending, Grows, Asks, Kinds
<1>9. CASE Adopts
  <2>1. CASE UNCHANGED <<wire, asked>> /\ tab'.waiting = Questions(tab.waiting)
    BY <2>1 DEF Questions
  <2>2. ASSUME NEW req, req = Request("question", asked + 1, 1, creation.conversation),
               tab' = Tab(creation.conversation, FALSE, tab.hidden,
                          Submit(asked + 1, 1, creation.conversation), FALSE, None,
                          Questions(tab.waiting) \cup {req}),
               wire' \subseteq wire \cup {req}, asked' = asked + 1
        PROVE  \E new \in RequestType : Grows(new)
    <3>1. req \in RequestType
      BY <2>2, TypeStep, TabFields, <1>9 DEF Adopts, Tab, TypeOK, TabType, Shape
    <3>2. Grows(req)
      BY <1>9, <2>2 DEF Adopts, Grows, Tab, Request, Asks, Questions
    <3> QED  BY <3>1, <3>2
  <2> QED  BY <1>9, <2>1, <2>2 DEF Adopts, Tab
<1>10. CASE Returns
  <2>1. CASE UNCHANGED wire /\ tab'.waiting = tab.waiting
    BY <1>10, <2>1 DEF Returns
  <2>2. ASSUME NEW req, req = Request("question", tab.submit.question, 2, tab.conversation),
               tab.submit # None,
               tab' = Tab(tab.conversation, tab.failedClosed, FALSE,
                          Submit(tab.submit.question, 2, tab.submit.conversation),
                          tab.retrying, tab.run, tab.waiting \cup {req}),
               wire' \subseteq wire \cup {req}
        PROVE  \E new \in RequestType : Grows(new)
    <3>1. req \in RequestType
      BY <2>2, TypeStep, TabFields, <1>10 DEF Tab, TypeOK, TabType, Shape
    <3>2. Grows(req)
      BY <1>10, <2>2 DEF Returns, Grows, Tab, Request, Asks
    <3> QED  BY <3>1, <3>2
  <2> QED  BY <1>10, <2>1, <2>2 DEF Returns, Tab
<1> QED
  BY <1>1, <1>2, <1>3, <1>4, <1>5, <1>6, <1>7, <1>8, <1>9, <1>10 DEF Shape

(* What a step does to the tab's conversation, its pending question and the Run
   it shows.                                                                 *)
Stays == tab'.conversation = tab.conversation
SubmitMoves ==
    \/ tab'.submit = None
    \/ /\ Stays /\ tab.submit # None
       /\ tab'.submit.question = tab.submit.question
       /\ tab'.submit.conversation = tab.submit.conversation
    \/ asked' = asked + 1 /\ tab'.submit = Submit(asked + 1, 1, tab'.conversation)
ShownMoves ==
    \/ tab'.run = None /\ (tab.run = None \/ Adopts)
    \/ /\ Stays /\ tab.run # None /\ tab'.run # None
       /\ tab'.run.id = tab.run.id /\ tab'.run.question = tab.run.question
       /\ \/ tab'.run.state = tab.run.state
          \/ tab.run.state = "active" /\ tab'.run.state = runs[tab.run.id].state
    \/ \E req \in tab.waiting, a \in answers : Begins(req, a)
TabMoves ==
    /\ Stays \/ Adopts
    /\ SubmitMoves /\ ShownMoves

LEMMA NoneApart ==
    None \notin ShownType /\ None \notin SubmitType
<1>1. ASSUME NEW r \in ShownType
      PROVE  r # None
  <2>1. r \in [id : Nat, question : Nat, state : Ended \cup {"active"},
                reconciled : BOOLEAN, retryAttempts : Nat, retryBlocked : BOOLEAN]
    BY DEF ShownType, States, Positive
  <2> QED  BY <2>1, NoneAssumption
<1>2. ASSUME NEW s \in SubmitType
      PROVE  s # None
  <2>1. s \in [question : Nat, attempts : Nat, conversation : Nat]
    BY DEF SubmitType, Positive
  <2> QED  BY <2>1, NoneAssumption
<1> QED  BY <1>1, <1>2

LEMMA ShownTyped ==
    ASSUME TypeOK, tab.run # None, NEW s \in States, NEW done \in BOOLEAN, NEW n \in {0, 1},
           NEW b \in BOOLEAN
    PROVE  Shown(tab.run.id, tab.run.question, s, done, n, b) # None
<1>1. tab.run \in ShownType
  BY TabFields
<1>2. Shown(tab.run.id, tab.run.question, s, done, n, b) \in ShownType
  BY <1>1 DEF Shown, ShownType
<1> QED  BY <1>2, NoneApart

LEMMA TabStep ==
    ASSUME IInv, Shape
    PROVE  TabMoves
<1> USE DEF IInv
<1>0. ASSUME Stays, tab'.submit = tab.submit \/ tab'.submit = None
      PROVE  SubmitMoves
  BY <1>0 DEF SubmitMoves
<1>s. ASSUME Stays, tab'.run = tab.run
      PROVE  ShownMoves
  BY <1>s DEF ShownMoves
<1>1. ASSUME UNCHANGED tab
      PROVE  TabMoves
  BY <1>0, <1>s, <1>1 DEF TabMoves, Stays
<1>2. CASE Learns
  <2>1. Stays /\ tab'.submit = tab.submit
    BY <1>2 DEF Learns, Tab, Stays
  <2>2. tab'.run = Shown(tab.run.id, tab.run.question, runs[tab.run.id].state, TRUE,
                         tab.run.retryAttempts, tab.run.retryBlocked)
    BY <1>2 DEF Learns, Tab
  <2>3. tab'.run.id = tab.run.id /\ tab'.run.question = tab.run.question
        /\ tab'.run.state = runs[tab.run.id].state
    BY <2>2 DEF Shown
  <2>4. tab'.run # None
    <3>1. runs[tab.run.id].state \in States /\ tab.run \in ShownType
      BY <1>2, TabFields DEF Learns, States
    <3>2. tab.run.retryAttempts \in {0, 1} /\ tab.run.retryBlocked \in BOOLEAN
      BY <3>1 DEF ShownType
    <3> QED  BY <1>2, <2>2, <3>1, <3>2, ShownTyped DEF Learns
  <2> QED  BY <1>0, <1>2, <2>1, <2>3, <2>4 DEF Learns, TabMoves, ShownMoves
<1>3. CASE Fails
  <2>1. Stays /\ tab'.submit = tab.submit /\ tab'.run = tab.run
    BY <1>3 DEF Fails, Tab, Stays
  <2> QED  BY <1>0, <1>s, <2>1 DEF TabMoves
<1>4. CASE Hides
  <2>1. Stays /\ tab'.submit = tab.submit /\ tab'.run = tab.run
    BY <1>4 DEF Hides, Tab, Stays
  <2> QED  BY <1>0, <1>s, <2>1 DEF TabMoves
<1>5. CASE Returns
  <2>1. Stays /\ tab'.run = tab.run
    BY <1>5 DEF Returns, Tab, Stays
  <2>2. SubmitMoves
    <3>1. CASE tab'.submit = None
      BY <3>1 DEF SubmitMoves
    <3>2. CASE tab.submit # None
               /\ tab'.submit = Submit(tab.submit.question, 2, tab.submit.conversation)
      <4>1. tab'.submit.question = tab.submit.question
            /\ tab'.submit.conversation = tab.submit.conversation
        BY <3>2 DEF Submit
      <4> QED  BY <2>1, <3>2, <4>1 DEF SubmitMoves
    <3> QED  BY <1>5, <3>1, <3>2 DEF Returns, Tab
  <2> QED  BY <1>s, <2>1, <2>2 DEF TabMoves
<1>6. CASE Adopts
  <2>1. tab'.run = None
    BY <1>6 DEF Adopts, Tab
  <2>2. SubmitMoves
    BY <1>6 DEF Adopts, Tab, SubmitMoves
  <2> QED  BY <1>6, <2>1, <2>2 DEF TabMoves, ShownMoves
<1>7. ASSUME NEW req \in RequestType, Asking(req)
      PROVE  TabMoves
  <2>1. Stays /\ tab'.run = tab.run
    BY <1>7 DEF Asking, Tab, Stays
  <2>2. SubmitMoves
    BY <1>7 DEF Asking, Tab, SubmitMoves
  <2> QED  BY <1>s, <2>1, <2>2 DEF TabMoves
<1>8. ASSUME NEW req \in RequestType, Retrying(req)
      PROVE  TabMoves
  <2>1. Stays /\ tab'.run = tab.run /\ tab'.submit = None
    BY <1>8 DEF Retrying, Tab, Stays
  <2> QED  BY <1>0, <1>s, <2>1 DEF TabMoves
<1>9. ASSUME NEW req \in tab.waiting, Left(req)
      PROVE  TabMoves
  <2>1. Stays /\ tab'.run = tab.run /\ tab'.submit = tab.submit
    BY <1>9 DEF Left, Tab, Stays
  <2> QED  BY <1>0, <1>s, <2>1 DEF TabMoves
<1>10. ASSUME NEW req \in tab.waiting, Closes(req)
      PROVE  TabMoves
  <2>1. Stays /\ tab'.run = tab.run /\ (tab'.submit = tab.submit \/ tab'.submit = None)
    BY <1>10 DEF Closes, Rested, Tab, Stays
  <2> QED  BY <1>0, <1>s, <2>1 DEF TabMoves
<1>11. ASSUME NEW req \in tab.waiting, NEW a \in answers, Begins(req, a)
      PROVE  TabMoves
  <2>1. Stays /\ (tab'.submit = tab.submit \/ tab'.submit = None)
    BY <1>11 DEF Begins, Rested, Tab, Stays
  <2>2. a.run \in DOMAIN runs
    BY <1>11 DEF Begins, CommandInv, AnswersOK
  <2> QED  BY <1>0, <1>11, <2>1, <2>2 DEF TabMoves, ShownMoves
<1>12. ASSUME NEW req \in tab.waiting, NEW a \in answers, NEW b \in BOOLEAN, Reopens(req, a, b)
      PROVE  TabMoves
  <2>1. Stays /\ (tab'.submit = tab.submit \/ tab'.submit = None)
    BY <1>12 DEF Reopens, Rested, Tab, Stays
  <2>2. tab'.run = IF req.kind = "question" THEN tab.run ELSE Marked(tab.run.retryAttempts, b)
    BY <1>12 DEF Reopens, Rested, Tab
  <2>3. CASE req.kind = "question"
    BY <1>0, <1>s, <2>1, <2>2, <2>3 DEF TabMoves
  <2>4. CASE req.kind # "question"
    <3>1. tab.run # None
      BY <1>12, <2>4 DEF Reopens, Pending
    <3>2. tab'.run.id = tab.run.id /\ tab'.run.question = tab.run.question
          /\ tab'.run.state = tab.run.state
      BY <2>2, <2>4 DEF Marked, Shown
    <3>3. tab'.run # None
      <4>1. tab.run \in ShownType
        BY <3>1, TabFields
      <4>2. Marked(tab.run.retryAttempts, b) # None
        BY <3>1, <4>1, ShownTyped DEF Marked, ShownType
      <4> QED  BY <2>2, <2>4, <4>2
    <3> QED  BY <1>0, <2>1, <3>1, <3>2, <3>3 DEF TabMoves, ShownMoves
  <2> QED  BY <2>3, <2>4
<1>13. ASSUME NEW req \in tab.waiting, NEW new \in RequestType, Repeats(req, new)
      PROVE  TabMoves
  <2>1. Stays
    BY <1>13 DEF Repeats, Tab, Stays
  <2>2. tab'.submit = IF req.kind = "question"
                      THEN Submit(tab.submit.question, 2, tab.submit.conversation)
                      ELSE tab.submit
    BY <1>13 DEF Repeats, Tab
  <2>3. tab'.run = IF req.kind = "retry"
                   THEN Marked(tab.run.retryAttempts + 1, tab.run.retryBlocked) ELSE tab.run
    BY <1>13 DEF Repeats, Tab
  <2>4. SubmitMoves
    <3>1. CASE req.kind = "question"
      <4>1. tab'.submit.question = tab.submit.question
            /\ tab'.submit.conversation = tab.submit.conversation
        BY <2>2, <3>1 DEF Submit
      <4> QED  BY <1>13, <2>1, <3>1, <4>1 DEF Repeats, Pending, SubmitMoves
    <3> QED  BY <1>0, <2>1, <2>2, <3>1
  <2>5. ShownMoves
    <3>1. CASE req.kind = "retry"
      <4>1. tab.run # None
        BY <1>13, <3>1 DEF Repeats, Pending
      <4>2. tab'.run.id = tab.run.id /\ tab'.run.question = tab.run.question
            /\ tab'.run.state = tab.run.state
        BY <2>3, <3>1 DEF Marked, Shown
      <4>3. tab'.run # None
        <5>1. tab.run \in ShownType
          BY <4>1, TabFields
        <5>2. tab.run.retryAttempts = 0
          BY <1>13, <3>1, <5>1 DEF Repeats, ComposerInv, PendingInv, ShownType
        <5>3. Marked(tab.run.retryAttempts + 1, tab.run.retryBlocked) # None
          BY <4>1, <5>1, <5>2, ShownTyped DEF Marked, ShownType
        <5> QED  BY <2>3, <3>1, <5>3
      <4> QED  BY <2>1, <4>1, <4>2, <4>3 DEF ShownMoves
    <3> QED  BY <1>s, <2>1, <2>3, <3>1
  <2> QED  BY <2>1, <2>4, <2>5 DEF TabMoves
<1>14. ASSUME NEW req \in wire, NEW a \in AnswerType, Settles(req, a) \/ Accepts(req, a)
      PROVE  TabMoves
  BY <1>1, <1>14 DEF Settles, Accepts, Taken
<1>15. ASSUME NEW i \in DOMAIN runs, NEW s \in Ended, Ends(i, s)
      PROVE  TabMoves
  BY <1>1, <1>15 DEF Ends
<1>16. CASE Aside
  BY <1>1, <1>16 DEF Aside
<1> QED
  BY <1>2, <1>3, <1>4, <1>5, <1>6, <1>7, <1>8, <1>9, <1>10, <1>11, <1>12, <1>13, <1>14, <1>15,
     <1>16 DEF Shape

LEMMA CountersGrow ==
    ASSUME IInv, Shape
    PROVE  made <= made' /\ asked <= asked'
<1>0. made \in Nat /\ asked \in Nat
  BY DEF IInv, TypeOK
<1>1. asked' \in {asked, asked + 1}
  BY WireMoves DEF Grows
<1>2. made' \in {made, made + 1}
  BY DEF Shape, Aside, Off, Learns, Fails, Adopts, Hides, Returns, Settles, Accepts, Taken, Ends,
         Asking, Retrying, Left, Closes, Begins, Reopens, Repeats, Back
<1> QED  BY <1>0, <1>1, <1>2
-----------------------------------------------------------------------------
(* A question's requests and Runs stay in the conversation it was typed in.   *)
LEMMA NewBelongs ==
    ASSUME IInv, NEW new \in RequestType, Grows(new), NEW q, Asks(new, q)
    PROVE  \/ q = asked + 1 /\ asked' = asked + 1
           \/ /\ tab.submit # None /\ q = tab.submit.question
              /\ new.conversation = tab.conversation /\ tab'.conversation = tab.conversation
  BY DEF Grows, Asks

LEMMA GrowsOwn ==
    ASSUME IInv, NEW new \in RequestType, Grows(new), NEW q, Asks(new, q),
           NEW req \in UnderWay, Asks(req, q)
    PROVE  new.conversation = req.conversation
<1>1. q <= asked /\ asked \in Nat /\ q \in Nat
  BY DEF IInv, CommandInv, RequestsOK, Asks, TypeOK, UnderWay, RequestType, TabType, Positive
<1>2. tab.submit # None /\ q = tab.submit.question /\ new.conversation = tab.conversation
  BY <1>1, NewBelongs
<1> QED  BY <1>2 DEF IInv, CommandInv, SubmitOK, Belongs

LEMMA BelongsStep ==
    ASSUME IInv, Shape, NEW q \in Nat, NEW c, Belongs(q, c),
           \A new \in RequestType : Grows(new) /\ Asks(new, q) => new.conversation = c
    PROVE  Belongs(q, c)'
<1>1. ASSUME NEW req \in UnderWay', Asks(req, q)
      PROVE  req.conversation = c
  <2>1. CASE req \in UnderWay
    BY <1>1, <2>1 DEF Belongs
  <2>2. CASE req \notin UnderWay
    <3>1. PICK new \in RequestType : Grows(new)
      BY <2>2, WireMoves DEF UnderWay
    <3>2. req = new
      BY <2>2, <3>1 DEF Grows, UnderWay
    <3> QED  BY <1>1, <3>1, <3>2
  <2> QED  BY <2>1, <2>2
<1>2. ASSUME NEW i \in DOMAIN runs', runs'[i].question = q
      PROVE  runs'[i].conversation = c
  <2>1. CASE SameRuns
    BY <1>2, <2>1 DEF SameRuns, SameRun, Belongs
  <2>2. ASSUME NEW req \in wire, NEW a \in AnswerType, Accepts(req, a)
        PROVE  runs'[i].conversation = c
    <3>1. CASE i \in DOMAIN runs
      BY <1>2, <2>2, <3>1, AcceptedRun DEF IInv, Belongs
    <3>2. CASE i = Len(runs) + 1
      <4>1. runs'[i] = NewRun(req)
        BY <2>2, <3>2, AcceptedRun DEF IInv
      <4>2. QuestionOf(req) = q /\ runs'[i].conversation = req.conversation
        BY <1>2, <4>1 DEF NewRun
      <4>3. CASE req.kind = "question"
        BY <4>2, <4>3 DEF QuestionOf, Belongs, Asks, UnderWay
      <4>4. CASE req.kind = "retry"
        <5>1. req.of \in DOMAIN runs /\ runs[req.of].conversation = req.conversation
          BY <4>4 DEF IInv, CommandInv, RequestsOK, UnderWay
        <5> QED  BY <4>2, <4>4, <5>1 DEF QuestionOf, Belongs
      <4> QED  BY <4>3, <4>4 DEF IInv, TypeOK, RequestType, Kinds
    <3> QED  BY <1>2, <2>2, <3>1, <3>2, AcceptedRun DEF IInv
  <2> QED  BY <2>1, <2>2, RunsMove
<1> QED  BY <1>1, <1>2 DEF Belongs, Asks, UnderWay

(* A question just typed has been asked nowhere.                              *)
LEMMA FreshBelongs ==
    ASSUME IInv, Shape, asked' = asked + 1,
           NEW q, q = asked + 1, NEW c, c = tab'.conversation
    PROVE  Belongs(q, c)'
<1>0. asked \in Nat
  BY DEF IInv, TypeOK
<1>1. PICK new \in RequestType : Grows(new)
  BY <1>0, WireMoves
<1>2. \A req \in UnderWay : req.kind = "question" => req.of <= asked
  BY DEF IInv, CommandInv, RequestsOK
<1>3. \A i \in DOMAIN runs : runs[i].question <= asked
  BY DEF IInv, CommandInv, RunsOK
<1>4. ASSUME NEW req \in UnderWay', Asks(req, q)
      PROVE  req.conversation = c
  <2>1. req \notin UnderWay
    BY <1>0, <1>2, <1>4 DEF Asks
  <2> QED  BY <1>1, <2>1 DEF Grows, UnderWay
<1>5. ASSUME NEW i \in DOMAIN runs'
      PROVE  runs'[i].question # q
  <2>1. runs' = runs
    BY <1>1 DEF Grows
  <2>2. runs[i].question <= asked /\ runs[i] \in RunType
    BY <1>3, <1>5, <2>1, RunTyped DEF IInv
  <2> QED  BY <1>0, <2>1, <2>2 DEF RunType, Positive
<1> QED  BY <1>4, <1>5 DEF Belongs, Asks, UnderWay

LEMMA SubmitStep ==
    ASSUME IInv, Shape
    PROVE  SubmitOK'
<1>0. asked \in Nat /\ asked' \in Nat /\ asked <= asked'
  BY CountersGrow, TypeStep DEF IInv, TypeOK
<1>1. CASE tab'.submit = None
  BY <1>1 DEF SubmitOK
<1>2. CASE asked' = asked + 1 /\ tab'.submit = Submit(asked + 1, 1, tab'.conversation)
  <2>1. tab'.submit.question = asked + 1 /\ tab'.submit.conversation = tab'.conversation
    BY <1>2 DEF Submit
  <2>2. PICK q, c : q = asked + 1 /\ c = tab'.conversation
    OBVIOUS
  <2>4. Belongs(q, c)'
    BY <1>2, <2>2, FreshBelongs
  <2>3. Belongs(tab.submit.question, tab.conversation)'
    BY <2>1, <2>2, <2>4 DEF Belongs
  <2> QED  BY <1>0, <1>2, <2>1, <2>3 DEF SubmitOK
<1>3. CASE /\ Stays /\ tab.submit # None
           /\ tab'.submit.question = tab.submit.question
           /\ tab'.submit.conversation = tab.submit.conversation
  <2>0. PICK q, c : q = tab.submit.question /\ c = tab.conversation
    OBVIOUS
  <2>1. q <= asked /\ tab.submit.conversation = c /\ Belongs(q, c) /\ q \in Nat
    BY <1>3, <2>0, TabFields DEF IInv, CommandInv, SubmitOK, SubmitType, Positive
  <2>2. ASSUME NEW new \in RequestType, Grows(new), Asks(new, q)
        PROVE  new.conversation = c
    BY <1>0, <2>0, <2>1, <2>2, NewBelongs
  <2>3. Belongs(q, c)'
    BY <2>1, <2>2, BelongsStep
  <2>4. tab'.submit.question = q /\ tab'.conversation = c /\ tab'.submit.conversation = c
    BY <1>3, <2>0, <2>1 DEF Stays
  <2>5. Belongs(tab.submit.question, tab.conversation)'
    BY <2>3, <2>4 DEF Belongs
  <2> QED  BY <1>0, <2>1, <2>4, <2>5 DEF SubmitOK
<1> QED  BY <1>1, <1>2, <1>3, TabStep DEF TabMoves, SubmitMoves

-----------------------------------------------------------------------------
(* What a step does to the creation of a conversation and to the cookie.      *)
Halts ==
    /\ creation'.at \in {"idle", "sent"} /\ (tab'.hidden => creation'.at = "idle")
    /\ UNCHANGED <<cookie, made>> /\ stranded' = (stranded \/ creation.at = "headers")
CreationMoves ==
    \/ Off /\ Stays /\ (tab'.hidden => tab.hidden)
    \/ Halts /\ Stays
    \/ Adopts
    \/ /\ Aside /\ creation.at = "sent" /\ made' = made + 1
       /\ creation'.at = "made" /\ creation'.conversation = made + 1
       /\ UNCHANGED <<cookie, stranded>>
    \/ /\ Aside /\ creation.at = "made" /\ cookie' = creation.conversation /\ made' = made
       /\ creation'.at = "headers" /\ creation'.conversation = creation.conversation
       /\ stranded' = stranded

LEMMA CreationStep ==
    ASSUME IInv, Shape
    PROVE  CreationMoves
<1>1. CASE Aside
  <2>0. Stays
    BY <1>1 DEF Aside, Stays
  <2>1. CASE creation' \in CreationType /\ creation'.at \in {"idle", "sent"}
             /\ (creation'.at = "sent" => ~tab.hidden) /\ UNCHANGED <<cookie, made>>
             /\ stranded' = (stranded \/ creation.at = "headers")
    BY <1>1, <2>0, <2>1 DEF Aside, CreationMoves, Halts
  <2>2. CASE /\ creation.at = "sent" /\ made' = made + 1
             /\ creation' = [at |-> "made", implicit |-> creation.implicit,
                             conversation |-> made + 1]
             /\ UNCHANGED <<cookie, stranded>>
    <3>1. creation'.at = "made" /\ creation'.conversation = made + 1
      BY <2>2
    <3> QED  BY <1>1, <2>2, <3>1 DEF CreationMoves
  <2>3. CASE /\ creation.at = "made" /\ cookie' = creation.conversation
             /\ creation' = [at |-> "headers", implicit |-> creation.implicit,
                             conversation |-> creation.conversation]
             /\ UNCHANGED <<made, stranded>>
    <3>1. creation'.at = "headers" /\ creation'.conversation = creation.conversation
      BY <2>3
    <3> QED  BY <1>1, <2>3, <3>1 DEF CreationMoves
  <2>4. CASE Off
    BY <1>1, <2>0, <2>4 DEF Aside, CreationMoves
  <2> QED  BY <1>1, <2>1, <2>2, <2>3, <2>4 DEF Aside
<1>2. CASE Hides
  <2>1. Stays /\ creation'.at = "idle"
    BY <1>2 DEF Hides, Tab, Stays, IdleCreation
  <2> QED  BY <1>2, <2>1 DEF Hides, Halts, CreationMoves
<1>3. CASE Adopts
  BY <1>3 DEF CreationMoves
<1>4. ASSUME Off, UNCHANGED tab
      PROVE  CreationMoves
  BY <1>4 DEF CreationMoves, Stays
<1>5. ASSUME Off, tab'.conversation = tab.conversation, tab'.hidden => tab.hidden
      PROVE  CreationMoves
  BY <1>5 DEF CreationMoves, Stays
<1>6. ASSUME NEW req \in wire, NEW a \in AnswerType, Settles(req, a) \/ Accepts(req, a)
      PROVE  CreationMoves
  BY <1>4, <1>6 DEF Settles, Accepts, Taken
<1>7. ASSUME NEW i \in DOMAIN runs, NEW s \in Ended, Ends(i, s)
      PROVE  CreationMoves
  BY <1>4, <1>7 DEF Ends
<1>8. CASE Learns
  <2>1. tab'.conversation = tab.conversation /\ (tab'.hidden => tab.hidden)
    BY <1>8 DEF Learns, Tab
  <2>2. Off
    BY <1>8 DEF Learns, Back
  <2> QED  BY <1>5, <2>1, <2>2
<1>9. CASE Fails
  <2>1. tab'.conversation = tab.conversation /\ (tab'.hidden => tab.hidden)
    BY <1>9 DEF Fails, Tab
  <2>2. Off
    BY <1>9 DEF Fails, Back
  <2> QED  BY <1>5, <2>1, <2>2
<1>10. CASE Returns
  <2>1. tab'.conversation = tab.conversation /\ (tab'.hidden => tab.hidden)
    BY <1>10 DEF Returns, Tab
  <2>2. Off
    BY <1>10 DEF Returns, Back
  <2> QED  BY <1>5, <2>1, <2>2
<1>11. ASSUME NEW req \in RequestType, Asking(req)
      PROVE  CreationMoves
  <2>1. tab'.conversation = tab.conversation /\ (tab'.hidden => tab.hidden)
    BY <1>11 DEF Asking, Tab
  <2>2. Off
    BY <1>11 DEF Asking, Back
  <2> QED  BY <1>5, <2>1, <2>2
<1>12. ASSUME NEW req \in RequestType, Retrying(req)
      PROVE  CreationMoves
  <2>1. tab'.conversation = tab.conversation /\ (tab'.hidden => tab.hidden)
    BY <1>12 DEF Retrying, Tab
  <2>2. Off
    BY <1>12 DEF Retrying, Back
  <2> QED  BY <1>5, <2>1, <2>2
<1>13. ASSUME NEW req \in tab.waiting, Left(req)
      PROVE  CreationMoves
  <2>1. tab'.conversation = tab.conversation /\ (tab'.hidden => tab.hidden)
    BY <1>13 DEF Left, Tab
  <2>2. Off
    BY <1>13 DEF Left, Back
  <2> QED  BY <1>5, <2>1, <2>2
<1>14. ASSUME NEW req \in tab.waiting, Closes(req)
      PROVE  CreationMoves
  <2>1. tab'.conversation = tab.conversation /\ (tab'.hidden => tab.hidden)
    BY <1>14 DEF Closes, Rested, Tab
  <2>2. Off
    BY <1>14 DEF Closes, Back
  <2> QED  BY <1>5, <2>1, <2>2
<1>15. ASSUME NEW req \in tab.waiting, NEW a \in answers, Begins(req, a)
      PROVE  CreationMoves
  <2>1. tab'.conversation = tab.conversation /\ (tab'.hidden => tab.hidden)
    BY <1>15 DEF Begins, Rested, Tab
  <2>2. Off
    BY <1>15 DEF Begins, Back
  <2> QED  BY <1>5, <2>1, <2>2
<1>16. ASSUME NEW req \in tab.waiting, NEW a \in answers, NEW b \in BOOLEAN, Reopens(req, a, b)
      PROVE  CreationMoves
  <2>1. tab'.conversation = tab.conversation /\ (tab'.hidden => tab.hidden)
    BY <1>16 DEF Reopens, Rested, Tab
  <2>2. Off
    BY <1>16 DEF Reopens, Back
  <2> QED  BY <1>5, <2>1, <2>2
<1>17. ASSUME NEW req \in tab.waiting, NEW new \in RequestType, Repeats(req, new)
      PROVE  CreationMoves
  <2>1. tab'.conversation = tab.conversation /\ (tab'.hidden => tab.hidden)
    BY <1>17 DEF Repeats, Tab
  <2>2. Off
    BY <1>17 DEF Repeats, Back
  <2> QED  BY <1>5, <2>1, <2>2
<1> QED
  BY <1>1, <1>2, <1>3, <1>6, <1>7, <1>8, <1>9, <1>10, <1>11, <1>12,
     <1>13, <1>14, <1>15, <1>16, <1>17 DEF Shape

LEMMA CookieStep ==
    ASSUME IInv, Shape
    PROVE  CookieMatchesScreen'
<1>1. CASE Adopts
  BY <1>1 DEF IInv, CommandInv, CreationInv, Adopts, Tab, CookieMatchesScreen
<1>2. CASE ~Adopts
  BY <1>2, CreationStep
  DEF IInv, CommandInv, CookieMatchesScreen, CreationMoves, Halts, Aside, Off, Stays
<1> QED  BY <1>1, <1>2

(* Nothing new concerns the conversation c, which is not the tab's.           *)
LEMMA NothingNew ==
    ASSUME IInv, Shape, NEW c, tab'.conversation # c,
           \A req \in UnderWay : req.conversation # c,
           \A i \in DOMAIN runs : runs[i].conversation # c
    PROVE  /\ \A req \in UnderWay' : req.conversation # c
           /\ \A i \in DOMAIN runs' : runs'[i].conversation # c
<1>1. ASSUME NEW req \in UnderWay'
      PROVE  req.conversation # c
  BY <1>1, WireMoves DEF UnderWay, Grows
<1>2. ASSUME NEW i \in DOMAIN runs'
      PROVE  runs'[i].conversation # c
  <2>1. CASE SameRuns
    BY <1>2, <2>1 DEF SameRuns, SameRun
  <2>2. ASSUME NEW req \in wire, NEW a \in AnswerType, Accepts(req, a)
        PROVE  runs'[i].conversation # c
    <3>1. req.conversation # c
      BY DEF UnderWay
    <3>2. NewRun(req).conversation # c
      BY <3>1 DEF NewRun
    <3> QED  BY <1>2, <2>2, <3>2, AcceptedRun DEF IInv
  <2> QED  BY <2>1, <2>2, RunsMove
<1> QED  BY <1>1, <1>2

LEMMA CreationInvStep ==
    ASSUME IInv, Shape
    PROVE  CreationInv'
<1> USE DEF IInv, CommandInv
<1>0. /\ made \in Nat /\ made' \in Nat /\ made <= made' /\ tab.conversation \in Nat
      /\ tab'.conversation \in Nat /\ tab.conversation <= made
  BY CountersGrow, TypeStep DEF TypeOK, TabType, CreationInv
<1>1. tab'.conversation <= made'
  <2>1. CASE Stays
    BY <1>0, <2>1 DEF Stays
  <2>2. CASE Adopts
    BY <1>0, <2>2 DEF Adopts, Tab, CreationInv
  <2> QED  BY <2>1, <2>2, TabStep DEF TabMoves
<1>2. tab'.conversation = 0 => tab'.run = None
  <2>1. CASE Stays /\ tab.conversation = 0
    <3>1. tab.run = None /\ tab.submit = None
      BY <2>1, ShownHasConversation DEF Positive
    <3> QED  BY <3>1, TabStep DEF TabMoves, ShownMoves, Begins, Pending
  <2>2. CASE Adopts
    BY <2>2 DEF Adopts, Tab
  <2> QED  BY <2>1, <2>2, TabStep DEF TabMoves, Stays
<1>3. tab'.hidden => creation'.at = "idle"
  <2>1. CASE Adopts
    BY <2>1 DEF Adopts, IdleCreation
  <2> QED  BY <2>1, CreationStep DEF CreationMoves, Off, Halts, Aside, CreationInv
<1>4. creation'.at = "headers" => cookie' = creation'.conversation
  <2>1. CASE Adopts
    BY <2>1 DEF Adopts, IdleCreation
  <2> QED  BY <2>1, CreationStep DEF CreationMoves, Off, Halts, Aside, CreationInv
<1>5. ASSUME creation'.at \in {"made", "headers"}
      PROVE  /\ creation'.conversation \in 1..made'
             /\ creation'.conversation # tab'.conversation
             /\ \A req \in UnderWay : req.conversation # creation'.conversation
             /\ \A i \in DOMAIN runs : runs[i].conversation # creation'.conversation
  <2>0. ~Adopts /\ ~Halts
    <3>1. creation' # IdleCreation
      BY <1>5 DEF IdleCreation
    <3> QED  BY <1>5, <3>1 DEF Adopts, Halts
  <2>1. CASE creation'.conversation = creation.conversation /\ creation.at \in {"made", "headers"}
             /\ Stays
    BY <1>0, <2>1 DEF CreationInv, Stays
  <2>2. CASE creation'.conversation = made + 1 /\ made' = made + 1 /\ Stays
    <3>1. ASSUME NEW req \in UnderWay
          PROVE  req.conversation # made + 1
      BY <1>0 DEF RequestsOK, UnderWay, TypeOK, RequestType, TabType, Positive
    <3>2. ASSUME NEW i \in DOMAIN runs
          PROVE  runs[i].conversation # made + 1
      BY <1>0, RunTyped DEF RunsOK, RunType, Positive
    <3> QED  BY <1>0, <2>2, <3>1, <3>2 DEF Stays
  <2> QED  BY <1>5, <2>0, <2>1, <2>2, CreationStep DEF CreationMoves, Off, Stays, Aside
<1>6. ASSUME creation'.at \in {"made", "headers"}
      PROVE  /\ \A req \in UnderWay' : req.conversation # creation'.conversation
             /\ \A i \in DOMAIN runs' : runs'[i].conversation # creation'.conversation
  <2>1. PICK c : c = creation'.conversation
    OBVIOUS
  <2>2. /\ tab'.conversation # c /\ \A req \in UnderWay : req.conversation # c
        /\ \A i \in DOMAIN runs : runs[i].conversation # c
    BY <1>5, <1>6, <2>1
  <2> QED  BY <2>1, <2>2, NothingNew
<1> QED  BY <1>1, <1>2, <1>3, <1>4, <1>5, <1>6 DEF CreationInv

-----------------------------------------------------------------------------
(* The server's Runs: a command makes one, and it is what the command says.   *)
LEMMA RunsKept ==
    ASSUME IInv, Shape
    PROVE  \A i \in DOMAIN runs : i \in DOMAIN runs' /\ SameRun(i)
<1>1. CASE SameRuns
  BY <1>1 DEF SameRuns
<1>2. ASSUME NEW req \in wire, NEW a \in AnswerType, Accepts(req, a)
      PROVE  \A i \in DOMAIN runs : i \in DOMAIN runs' /\ SameRun(i)
  BY <1>2, AcceptedRun DEF IInv, SameRun
<1> QED  BY <1>1, <1>2, RunsMove

LEMMA CommandOf ==
    ASSUME IInv, NEW req \in UnderWay
    PROVE  /\ req \in RequestType
           /\ QuestionOf(req) \in Positive /\ QuestionOf(req) <= asked
           /\ \A i \in DOMAIN runs : runs[i].key = KeyOf(req) =>
                /\ runs[i].question = QuestionOf(req)
                /\ runs[i].retryOf = IF req.kind = "retry" THEN req.of ELSE 0
<1> USE DEF IInv, CommandInv
<1>1. req \in RequestType
  BY DEF UnderWay, TypeOK, TabType
<1>2. QuestionOf(req) \in Positive /\ QuestionOf(req) <= asked
  <2>1. CASE req.kind = "question"
    BY <1>1, <2>1 DEF QuestionOf, RequestsOK, RequestType
  <2>2. CASE req.kind = "retry"
    <3>1. req.of \in DOMAIN runs
      BY <2>2 DEF RequestsOK
    <3>2. runs[req.of] \in RunType /\ runs[req.of].question <= asked
      BY <3>1, RunTyped DEF RunsOK
    <3> QED  BY <2>2, <3>2 DEF QuestionOf, RunType
  <2> QED  BY <1>1, <2>1, <2>2 DEF RequestType, Kinds
<1>3. ASSUME NEW i \in DOMAIN runs, runs[i].key = KeyOf(req)
      PROVE  /\ runs[i].question = QuestionOf(req)
             /\ runs[i].retryOf = IF req.kind = "retry" THEN req.of ELSE 0
  <2>1. CASE runs[i].retryOf = 0
    <3>1. runs[i].key = <<"question", runs[i].question>>
      BY <2>1 DEF RunsOK
    <3>2. req.kind = "question" /\ req.of = runs[i].question
      BY <1>3, <3>1 DEF KeyOf
    <3> QED  BY <2>1, <3>2 DEF QuestionOf
  <2>2. CASE runs[i].retryOf # 0
    <3>1. runs[i].key = <<"retry", runs[i].retryOf>>
          /\ runs[i].question = runs[runs[i].retryOf].question
      BY <2>2 DEF RunsOK
    <3>2. req.kind = "retry" /\ req.of = runs[i].retryOf
      BY <1>3, <3>1 DEF KeyOf
    <3> QED  BY <3>1, <3>2 DEF QuestionOf
  <2> QED  BY <2>1, <2>2
<1> QED  BY <1>1, <1>2, <1>3

LEMMA RunsOKStep ==
    ASSUME IInv, Shape
    PROVE  RunsOK'
<1> USE DEF IInv, CommandInv
<1>0. asked \in Nat /\ asked' \in Nat /\ asked <= asked'
      /\ made \in Nat /\ made' \in Nat /\ made <= made'
  BY CountersGrow, TypeStep DEF TypeOK
<1>1. ASSUME NEW i \in DOMAIN runs
      PROVE  /\ runs'[i].question <= asked' /\ runs'[i].conversation <= made'
             /\ runs'[i].retryOf = 0 => runs'[i].key = <<"question", runs'[i].question>>
             /\ runs'[i].retryOf # 0 =>
                  /\ runs'[i].retryOf < i /\ runs'[i].key = <<"retry", runs'[i].retryOf>>
                  /\ runs'[i].question = runs'[runs'[i].retryOf].question
                  /\ runs'[i].conversation = runs'[runs'[i].retryOf].conversation
  <2>0. SameRun(i) /\ runs[i] \in RunType /\ i \in Positive
    BY RunsKept, RunTyped
  <2>1. runs'[i].question <= asked' /\ runs'[i].conversation <= made'
    BY <1>0, <2>0 DEF SameRun, RunsOK, RunType, Positive
  <2>2. CASE runs[i].retryOf # 0
    <3>1. runs[i].retryOf \in DOMAIN runs
      <4>1. runs[i].retryOf < i /\ runs[i].retryOf \in Nat
        BY <2>0, <2>2 DEF RunsOK, RunType
      <4> QED  BY <2>2, <4>1 DEF TypeOK
    <3>2. SameRun(runs[i].retryOf)
      BY <3>1, RunsKept
    <3> QED  BY <2>0, <2>1, <2>2, <3>1, <3>2 DEF SameRun, RunsOK
  <2>3. CASE runs[i].retryOf = 0
    BY <2>0, <2>1, <2>3 DEF SameRun, RunsOK
  <2> QED  BY <2>2, <2>3
<1>2. ASSUME NEW req \in wire, NEW a \in AnswerType, Accepts(req, a)
      PROVE  RunsOK'
  <2> DEFINE n == Len(runs) + 1
  <2>1. /\ DOMAIN runs' = DOMAIN runs \cup {n} /\ n \notin DOMAIN runs
        /\ \A i \in DOMAIN runs : runs'[i] = runs[i] /\ i < n
        /\ runs'[n] = NewRun(req)
    BY <1>2, AcceptedRun
  <2>2. /\ NewRun(req).question = QuestionOf(req) /\ NewRun(req).conversation = req.conversation
        /\ NewRun(req).key = KeyOf(req)
        /\ NewRun(req).retryOf = IF req.kind = "retry" THEN req.of ELSE 0
    BY DEF NewRun
  <2>3. /\ req \in RequestType /\ QuestionOf(req) \in Positive /\ QuestionOf(req) <= asked
        /\ req.conversation <= made
    BY CommandOf DEF UnderWay, RequestsOK
  <2>4. QuestionOf(req) <= asked' /\ req.conversation <= made'
    BY <1>0, <2>3 DEF RequestType, Positive
  <2>5. CASE req.kind = "question"
    BY <1>1, <2>1, <2>2, <2>4, <2>5 DEF RunsOK, KeyOf, QuestionOf
  <2>6. CASE req.kind = "retry"
    <3>1. req.of \in DOMAIN runs /\ runs[req.of].conversation = req.conversation
      BY <2>6 DEF RequestsOK, UnderWay
    <3>2. KeyOf(req) = <<"retry", req.of>> /\ QuestionOf(req) = runs[req.of].question
          /\ req.of # 0
      BY <2>3, <2>6 DEF KeyOf, QuestionOf, RequestType, Positive
    <3> HIDE DEF n
    <3> QED  BY <1>1, <2>1, <2>2, <2>4, <2>6, <3>1, <3>2 DEF RunsOK
  <2> QED  BY <2>3, <2>5, <2>6 DEF RequestType, Kinds
<1>3. CASE SameRuns
  BY <1>1, <1>3 DEF SameRuns, RunsOK
<1> QED  BY <1>2, <1>3, RunsMove

LEMMA OneRunStep ==
    ASSUME IInv, Shape
    PROVE  OneRunPerCommand'
<1> USE DEF IInv, CommandInv
<1>1. ASSUME NEW req \in wire, NEW a \in AnswerType, Accepts(req, a)
      PROVE  OneRunPerCommand'
  <2> DEFINE n == Len(runs) + 1
             k == IF req.kind = "retry" THEN req.of ELSE 0
  <2>1. /\ DOMAIN runs' = DOMAIN runs \cup {n} /\ n \notin DOMAIN runs
        /\ \A i \in DOMAIN runs : runs'[i] = runs[i]
        /\ runs'[n] = NewRun(req)
    BY <1>1, AcceptedRun
  <2>2. runs'[n].question = QuestionOf(req) /\ runs'[n].retryOf = k
    BY <2>1 DEF NewRun
  <2>3. ASSUME NEW i \in DOMAIN runs, runs[i].conversation = req.conversation
        PROVE  runs[i].key # KeyOf(req)
    BY <1>1, <2>3 DEF Accepts, Unheard, Made, RunsOf
  <2>4. req \in RequestType
    BY CommandOf DEF UnderWay
  <2>5. ASSUME NEW i \in DOMAIN runs, req.kind = "retry"
        PROVE  runs[i].retryOf # k /\ k # 0
    <3>1. req.of \in DOMAIN runs /\ runs[req.of].conversation = req.conversation /\ k = req.of
          /\ k # 0
      BY <2>4, <2>5 DEF RequestsOK, UnderWay, RequestType, Positive
    <3>2. ASSUME runs[i].retryOf = k
          PROVE  FALSE
      <4>1. runs[i].key = <<"retry", k>> /\ runs[i].conversation = runs[k].conversation
        BY <3>1, <3>2 DEF RunsOK
      <4> QED  BY <2>3, <2>5, <3>1, <4>1 DEF KeyOf
    <3> QED  BY <3>1, <3>2
  <2>6. ASSUME NEW i \in DOMAIN runs, req.kind = "question", runs[i].retryOf = 0
        PROVE  runs[i].question # QuestionOf(req) /\ k = 0
    <3>1. ASSUME runs[i].question = QuestionOf(req)
          PROVE  FALSE
      <4>1. runs[i].key = <<"question", req.of>> /\ runs[i].question = req.of
        BY <2>6, <3>1 DEF RunsOK, QuestionOf
      <4>2. runs[i].conversation = req.conversation
        BY <2>6, <4>1 DEF RequestsOK, UnderWay, Belongs
      <4> QED  BY <2>3, <2>6, <4>1, <4>2 DEF KeyOf
    <3> QED  BY <2>6, <3>1
  <2> HIDE DEF n, k
  <2>7. CASE req.kind = "retry"
    BY <2>1, <2>2, <2>5, <2>7 DEF OneRunPerCommand
  <2>8. CASE req.kind = "question"
    <3>1. k = 0
      BY <2>8 DEF k
    <3>2. ASSUME NEW i \in DOMAIN runs
          PROVE  runs'[i].question = runs'[n].question => runs'[i].retryOf # 0
      BY <2>1, <2>2, <2>6, <2>8
    <3>3. ASSUME NEW i \in DOMAIN runs, NEW j \in DOMAIN runs, i # j
          PROVE  /\ runs'[i].retryOf # runs'[j].retryOf \/ runs'[i].retryOf = 0
                 /\ runs'[i].question = runs'[j].question =>
                      {runs'[i].retryOf, runs'[j].retryOf} # {0}
      BY <2>1, <3>3 DEF OneRunPerCommand
    <3>4. ASSUME NEW i \in DOMAIN runs', NEW j \in DOMAIN runs', i # j
          PROVE  /\ runs'[i].retryOf # runs'[j].retryOf \/ runs'[i].retryOf = 0
                 /\ runs'[i].question = runs'[j].question =>
                      {runs'[i].retryOf, runs'[j].retryOf} # {0}
      <4>1. CASE i \in DOMAIN runs /\ j \in DOMAIN runs
        BY <3>3, <3>4, <4>1
      <4>2. CASE i = n /\ j \in DOMAIN runs
        BY <2>2, <3>1, <3>2, <4>2
      <4>3. CASE i \in DOMAIN runs /\ j = n
        BY <2>2, <3>1, <3>2, <4>3
      <4> QED  BY <2>1, <3>4, <4>1, <4>2, <4>3
    <3> QED  BY <3>4 DEF OneRunPerCommand
  <2> QED  BY <2>4, <2>7, <2>8 DEF RequestType, Kinds
<1>2. CASE SameRuns
  BY <1>2 DEF SameRuns, SameRun, OneRunPerCommand
<1> QED  BY <1>1, <1>2, RunsMove

-----------------------------------------------------------------------------
LEMMA RequestsStep ==
    ASSUME IInv, Shape
    PROVE  RequestsOK'
<1> USE DEF IInv, CommandInv
<1>0. asked \in Nat /\ asked' \in Nat /\ asked <= asked'
      /\ made \in Nat /\ made' \in Nat /\ made <= made'
  BY CountersGrow, TypeStep DEF TypeOK
<1> DEFINE Fits(req) ==
             /\ req.conversation <= made'
             /\ req.kind = "question" =>
                  /\ req.of <= asked'
                  /\ \A q, c : q = req.of /\ c = req.conversation => Belongs(q, c)'
             /\ req.kind = "retry" =>
                  req.of \in DOMAIN runs' /\ runs'[req.of].conversation = req.conversation
<1>1. ASSUME NEW req \in UnderWay
      PROVE  Fits(req)
  <2>1. req \in RequestType /\ req.conversation <= made
    BY CommandOf DEF RequestsOK
  <2>2. req.conversation <= made'
    BY <1>0, <2>1 DEF RequestType, Positive
  <2>3. ASSUME req.kind = "question", NEW q, NEW c, q = req.of, c = req.conversation
        PROVE  Belongs(q, c)' /\ req.of <= asked'
    <3>1. Belongs(q, c) /\ q \in Nat /\ q <= asked
      BY <2>1, <2>3 DEF RequestsOK, RequestType, Positive
    <3>2. \A new \in RequestType : Grows(new) /\ Asks(new, q) => new.conversation = c
      BY <2>3, GrowsOwn DEF Asks
    <3> QED  BY <1>0, <2>3, <3>1, <3>2, BelongsStep
  <2>4. ASSUME req.kind = "retry"
        PROVE  req.of \in DOMAIN runs' /\ runs'[req.of].conversation = req.conversation
    BY <2>4, RunsKept DEF RequestsOK, SameRun
  <2> QED  BY <2>2, <2>3, <2>4
<1>2. ASSUME NEW new \in RequestType, Grows(new)
      PROVE  Fits(new)
  <2>1. new.conversation <= made'
    BY <1>2, CreationInvStep DEF CreationInv, Grows
  <2>2. ASSUME new.kind = "question", NEW q, NEW c, q = new.of, c = new.conversation
        PROVE  Belongs(q, c)' /\ new.of <= asked'
    <3>0. c = tab'.conversation
      BY <1>2, <2>2 DEF Grows
    <3>1. CASE q = asked + 1 /\ asked' = asked + 1
      BY <1>0, <2>2, <3>0, <3>1, FreshBelongs
    <3>2. CASE /\ tab.submit # None /\ q = tab.submit.question
               /\ new.conversation = tab.conversation
      <4>1. q <= asked /\ q \in Nat /\ Belongs(q, c)
        BY <2>2, <3>2, TabFields DEF SubmitOK, SubmitType, Positive
      <4>2. \A other \in RequestType : Grows(other) /\ Asks(other, q) => other.conversation = c
        BY <1>0, <2>2, <3>0, <3>2, <4>1, NewBelongs
      <4> QED  BY <1>0, <2>2, <4>1, <4>2, BelongsStep
    <3> QED  BY <1>2, <2>2, <3>1, <3>2, NewBelongs DEF Asks
  <2>3. ASSUME new.kind = "retry"
        PROVE  new.of \in DOMAIN runs' /\ runs'[new.of].conversation = new.conversation
    <3>1. tab.run # None /\ new.of = tab.run.id /\ new.conversation = tab.conversation
          /\ runs' = runs
      BY <1>2, <2>3 DEF Grows, Asks
    <3> QED  BY <3>1 DEF ShownRunIsOwn
  <2> QED  BY <2>1, <2>2, <2>3
<1>3. ASSUME NEW req \in UnderWay'
      PROVE  Fits(req)
  <2>1. CASE req \in UnderWay
    BY <1>1, <2>1
  <2>2. CASE req \notin UnderWay
    <3>1. PICK new \in RequestType : Grows(new)
      BY <2>2, WireMoves DEF UnderWay
    <3>2. req = new
      BY <2>2, <3>1 DEF Grows, UnderWay
    <3> QED  BY <1>2, <3>1, <3>2
  <2> QED  BY <2>1, <2>2
<1>4. ASSUME NEW req \in UnderWay', req.kind = "question"
      PROVE  Belongs(req.of, req.conversation)'
  <2>1. PICK q, c : q = req.of /\ c = req.conversation
    OBVIOUS
  <2>2. Belongs(q, c)'
    BY <1>3, <1>4, <2>1
  <2> QED  BY <2>1, <2>2 DEF Belongs
<1> QED  BY <1>3, <1>4 DEF RequestsOK

(* A request the tab still wants an answer to is of the conversation it shows. *)
LEMMA PendingHere ==
    ASSUME IInv, NEW req \in tab.waiting, Pending(req)
    PROVE  req.conversation = tab.conversation
<1> USE DEF IInv, CommandInv
<1>0. req \in RequestType /\ req \in UnderWay
  BY CommandOf DEF UnderWay
<1>1. CASE req.kind = "question"
  BY <1>0, <1>1 DEF Pending, SubmitOK, Belongs, Asks
<1>2. CASE req.kind = "retry"
  BY <1>0, <1>2 DEF Pending, RequestsOK, ShownRunIsOwn
<1> QED  BY <1>0, <1>1, <1>2 DEF RequestType, Kinds

LEMMA ShownStep ==
    ASSUME IInv, Shape
    PROVE  ShownRunIsOwn' /\ (tab.run # None => tab.run.id \in DOMAIN runs)'
<1> USE DEF IInv, CommandInv
<1>1. CASE tab'.run = None
  BY <1>1 DEF ShownRunIsOwn
<1>2. CASE /\ Stays /\ tab.run # None
           /\ tab'.run.id = tab.run.id /\ tab'.run.question = tab.run.question
           /\ \/ tab'.run.state = tab.run.state
              \/ tab.run.state = "active" /\ tab'.run.state = runs[tab.run.id].state
  <2>1. tab.run.id \in DOMAIN runs
    BY <1>2
  <2>2. tab.run.id \in DOMAIN runs' /\ SameRun(tab.run.id)
    BY <2>1, RunsKept
  <2>3. "active" \notin Ended
    BY DEF Ended, Recoverable
  <2> QED  BY <1>2, <2>2, <2>3 DEF ShownRunIsOwn, SameRun, Stays
<1>3. ASSUME NEW req \in tab.waiting, NEW a \in answers, Begins(req, a)
      PROVE  ShownRunIsOwn' /\ (tab.run # None => tab.run.id \in DOMAIN runs)'
  <2>1. /\ tab'.run = Shown(a.run, QuestionOf(req), runs[a.run].state,
                            runs[a.run].state \in Ended, 0, FALSE)
        /\ tab'.conversation = tab.conversation /\ runs' = runs
    BY <1>3 DEF Begins, Back, Rested, Tab
  <2>2. tab'.run.id = a.run /\ tab'.run.question = QuestionOf(req)
        /\ tab'.run.state = runs[a.run].state
    BY <2>1 DEF Shown
  <2>3. /\ a.run \in DOMAIN runs /\ runs[a.run].key = KeyOf(req)
        /\ runs[a.run].conversation = req.conversation
    BY <1>3 DEF Begins, AnswersOK
  <2>4. runs[a.run].question = QuestionOf(req)
    BY <2>3, CommandOf DEF UnderWay
  <2>5. req.conversation = tab.conversation
    BY <1>3, PendingHere DEF Begins
  <2> QED  BY <2>1, <2>2, <2>3, <2>4, <2>5 DEF ShownRunIsOwn
<1> QED  BY <1>1, <1>2, <1>3, TabStep DEF TabMoves, ShownMoves

-----------------------------------------------------------------------------
(* An answer is to a request the tab waits for, and tells what it made.       *)
LEMMA AnswersStep ==
    ASSUME IInv, Shape
    PROVE  AnswersOK'
<1> USE DEF IInv, CommandInv, ComposerInv
<1>0. /\ \A a \in answers : a.to \in tab.waiting /\ a.to \notin wire /\ a.to \in RequestType
      /\ \A req \in UnderWay : req.kind = "question" => req.of <= asked
      /\ asked \in Nat
  BY DEF AnswersOK, RequestsOK, TypeOK, TabType
<1>1. ASSUME NEW a \in answers, a.kind = "run"
      PROVE  /\ a.run \in DOMAIN runs' /\ runs'[a.run].key = KeyOf(a.to)
             /\ runs'[a.run].conversation = a.to.conversation
  <2>1. /\ a.run \in DOMAIN runs /\ runs[a.run].key = KeyOf(a.to)
        /\ runs[a.run].conversation = a.to.conversation
    BY <1>1 DEF AnswersOK
  <2> QED  BY <2>1, RunsKept DEF SameRun
<1>2. ASSUME answers' \subseteq answers,
             \A a \in answers' : a.to \in tab'.waiting /\ a.to \notin wire'
      PROVE  AnswersOK'
  BY <1>1, <1>2 DEF AnswersOK, KeyOf
<1>3. ASSUME UNCHANGED <<answers, wire>>, tab'.waiting = tab.waiting
      PROVE  AnswersOK'
  BY <1>0, <1>2, <1>3
<1>4. ASSUME NEW req, answers' \subseteq answers, wire' \subseteq wire \cup {req},
             \A a \in answers' : a.to # req /\ a.to \in tab'.waiting
      PROVE  AnswersOK'
  BY <1>0, <1>2, <1>4
<1>5. ASSUME NEW req \in wire, NEW a \in AnswerType, Settles(req, a) \/ Accepts(req, a)
      PROVE  AnswersOK'
  <2>1. /\ wire' = wire \ {req} /\ a.to = req /\ tab' = tab
        /\ answers' = IF req \in tab.waiting THEN answers \cup {a} ELSE answers
    BY <1>5 DEF Settles, Accepts, Taken
  <2>2. CASE req \notin tab.waiting
    BY <1>0, <1>2, <2>1, <2>2
  <2>3. CASE req \in tab.waiting
    <3>1. a.kind = "run" => /\ a.run \in DOMAIN runs' /\ runs'[a.run].key = KeyOf(req)
                            /\ runs'[a.run].conversation = req.conversation
      <4>1. CASE Settles(req, a)
        BY <4>1 DEF Settles, Made, RunsOf
      <4>2. CASE Accepts(req, a)
        <5>1. NewRun(req).key = KeyOf(req) /\ NewRun(req).conversation = req.conversation
          BY DEF NewRun
        <5> QED  BY <4>2, <5>1, AcceptedRun DEF Accepts
      <4> QED  BY <1>5, <4>1, <4>2
    <3>2. ASSUME NEW b \in answers'
          PROVE  /\ b.to \in tab'.waiting /\ b.to \notin wire'
                 /\ b.kind = "run" => /\ b.run \in DOMAIN runs'
                                      /\ runs'[b.run].key = KeyOf(b.to)
                                      /\ runs'[b.run].conversation = b.to.conversation
      <4>1. CASE b = a
        BY <2>1, <2>3, <3>1, <4>1
      <4>2. CASE b \in answers
        BY <1>0, <1>1, <2>1, <4>2
      <4> QED  BY <2>1, <2>3, <4>1, <4>2
    <3>3. ASSUME NEW b \in answers', NEW c \in answers', b.to = c.to
          PROVE  b = c
      BY <1>0, <2>1, <2>3, <3>3 DEF AnswersOK
    <3> QED  BY <3>2, <3>3 DEF AnswersOK, KeyOf
  <2> QED  BY <2>2, <2>3
<1>6. ASSUME NEW req \in RequestType, Asking(req)
      PROVE  AnswersOK'
  <2>1. req.of = asked + 1 /\ req.kind = "question"
    BY <1>6 DEF Asking, Request
  <2>2. tab'.waiting = tab.waiting \cup {req} /\ wire' \subseteq wire \cup {req}
        /\ answers' = answers
    BY <1>6 DEF Asking, Tab
  <2>3. req \notin UnderWay
    BY <1>0, <2>1
  <2> QED  BY <1>0, <1>4, <2>2, <2>3 DEF UnderWay
<1>7. ASSUME NEW req \in RequestType, Retrying(req)
      PROVE  AnswersOK'
  <2>1. req.kind = "retry" /\ ~tab.retrying
    BY <1>7 DEF Retrying, Request, CanRetry
  <2>2. tab'.waiting = tab.waiting \cup {req} /\ wire' \subseteq wire \cup {req}
        /\ answers' = answers
    BY <1>7 DEF Retrying, Tab
  <2>3. req \notin tab.waiting
    BY <2>1 DEF PendingInv
  <2> QED  BY <1>0, <1>4, <2>2, <2>3
<1>8. ASSUME NEW req \in tab.waiting, Back(req), tab'.waiting = tab.waiting \ {req},
             wire' = wire
      PROVE  AnswersOK'
  BY <1>0, <1>2, <1>8 DEF Back
<1>9. ASSUME NEW req \in tab.waiting, Left(req)
      PROVE  AnswersOK'
  <2>1. tab'.waiting = tab.waiting \ {req}
    BY <1>9 DEF Left, Tab
  <2> QED  BY <1>8, <1>9, <2>1 DEF Left
<1>10. ASSUME NEW req \in tab.waiting, Closes(req)
      PROVE  AnswersOK'
  <2>1. tab'.waiting = tab.waiting \ {req}
    BY <1>10 DEF Closes, Rested, Tab
  <2> QED  BY <1>8, <1>10, <2>1 DEF Closes
<1>11. ASSUME NEW req \in tab.waiting, NEW a \in answers, Begins(req, a)
      PROVE  AnswersOK'
  <2>1. tab'.waiting = tab.waiting \ {req}
    BY <1>11 DEF Begins, Rested, Tab
  <2> QED  BY <1>8, <1>11, <2>1 DEF Begins
<1>12. ASSUME NEW req \in tab.waiting, NEW a \in answers, NEW b \in BOOLEAN, Reopens(req, a, b)
      PROVE  AnswersOK'
  <2>1. tab'.waiting = tab.waiting \ {req}
    BY <1>12 DEF Reopens, Rested, Tab
  <2> QED  BY <1>8, <1>12, <2>1 DEF Reopens
<1>13. ASSUME NEW req \in tab.waiting, NEW new \in RequestType, Repeats(req, new)
      PROVE  AnswersOK'
  <2>1. tab'.waiting = (tab.waiting \ {req}) \cup {new} /\ wire' \subseteq wire \cup {new}
        /\ answers' = {a \in answers : a.to # req}
    BY <1>13 DEF Repeats, Back, Tab
  <2>2. KeyOf(new) = KeyOf(req)
    BY <1>13 DEF Repeats, Request, KeyOf
  <2>3. \A a \in answers' : a.to # new /\ a.to \in tab'.waiting
    BY <1>0, <2>1, <2>2 DEF PendingInv
  <2> QED  BY <1>4, <2>1, <2>3
<1>14. CASE Adopts
  <2> DEFINE req == Request("question", asked + 1, 1, creation.conversation)
  <2>1. answers' = {a \in answers : a.to.kind = "question"}
        /\ Questions(tab.waiting) \subseteq tab'.waiting /\ wire' \subseteq wire \cup {req}
    BY <1>14 DEF Adopts, Tab
  <2>2. req \notin UnderWay
    <3>1. req.kind = "question" /\ req.of = asked + 1
      BY DEF Request
    <3> QED  BY <1>0, <3>1
  <2> HIDE DEF req
  <2>3. \A a \in answers' : a.to # req /\ a.to \in tab'.waiting
    BY <1>0, <2>1, <2>2 DEF UnderWay, Questions
  <2> QED  BY <1>4, <2>1, <2>3
<1>15. CASE Hides
  BY <1>2, <1>15 DEF Hides
<1>16. CASE Returns
  <2>1. answers = {} /\ answers' = answers
    BY <1>0, <1>16 DEF Returns, PendingInv
  <2> QED  BY <1>2, <2>1
<1>17. CASE Aside \/ \E i \in DOMAIN runs, s \in Ended : Ends(i, s)
  BY <1>3, <1>17 DEF Aside, Ends
<1>18. CASE Learns
  BY <1>3, <1>18 DEF Learns, Tab
<1>19. CASE Fails
  BY <1>3, <1>19 DEF Fails, Tab
<1> QED
  BY <1>5, <1>6, <1>7, <1>9, <1>10, <1>11, <1>12, <1>13, <1>14, <1>15, <1>16, <1>17, <1>18, <1>19
  DEF Shape

LEMMA CommandStep ==
    ASSUME IInv, Shape
    PROVE  CommandInv'
  BY AnswersStep, RequestsStep, RunsOKStep, SubmitStep, CreationInvStep, OneRunStep, ShownStep,
     CookieStep DEF CommandInv

-----------------------------------------------------------------------------
(* One pending command, and one request waited for in its name.               *)
LEMMA PendingStep ==
    ASSUME IInv, Shape
    PROVE  PendingInv'
<1> USE DEF IInv, CommandInv, ComposerInv
<1>0. /\ PendingInv /\ asked \in Nat /\ tab.waiting \subseteq RequestType
      /\ tab.submit # None => tab.submit \in SubmitType
      /\ tab.run # None => tab.run \in ShownType
      /\ \A req \in UnderWay : req.kind = "question" => req.of <= asked
  BY TabFields DEF TypeOK, RequestsOK
<1>1. CASE UNCHANGED tab
  BY <1>0, <1>1 DEF PendingInv
<1>2. CASE Aside \/ (\E i \in DOMAIN runs, s \in Ended : Ends(i, s))
  BY <1>1, <1>2 DEF Aside, Ends
<1>3. ASSUME NEW req \in wire, NEW a \in AnswerType, Settles(req, a) \/ Accepts(req, a)
      PROVE  PendingInv'
  BY <1>1, <1>3 DEF Settles, Accepts, Taken
<1>4. ASSUME NEW req \in RequestType, Asking(req)
      PROVE  PendingInv'
  <2>1. /\ req.kind = "question" /\ req.of = asked + 1 /\ req.attempt = 1
        /\ KeyOf(req) = <<"question", asked + 1>>
    BY <1>4 DEF Asking, Request, KeyOf
  <2>2. tab'.submit = Submit(asked + 1, 1, tab.conversation) /\ tab'.retrying = FALSE
        /\ tab'.run = tab.run /\ tab'.waiting = tab.waiting \cup {req} /\ tab'.hidden = FALSE
    BY <1>4 DEF Asking, Tab
  <2>3. tab'.submit.question = asked + 1 /\ tab'.submit.attempts = 1
    BY <2>2 DEF Submit
  <2>4. ~tab.retrying /\ (tab.run # None => tab.run.state \in Ended)
    BY <1>4 DEF Asking, ComposerOpen
  <2>5. \A r \in tab.waiting : r.kind = "question" /\ ~Asks(r, asked + 1)
    BY <1>0, <2>4 DEF PendingInv, UnderWay, Asks, RequestType, Kinds
  <2>6. \A r \in tab.waiting : KeyOf(r) # KeyOf(req)
    BY <2>1, <2>5 DEF KeyOf, Asks
  <2>7. \A r1, r2 \in tab'.waiting : KeyOf(r1) = KeyOf(r2) => r1 = r2
    BY <1>0, <2>2, <2>6 DEF PendingInv
  <2>8. \A r \in tab'.waiting : r.kind # "retry" /\ (Asks(r, asked + 1) => r.attempt = 1)
    BY <2>1, <2>2, <2>5
  <2> QED  BY <2>2, <2>3, <2>4, <2>7, <2>8 DEF PendingInv, KeyOf, Asks
<1>5. ASSUME NEW req \in RequestType, Retrying(req)
      PROVE  PendingInv'
  <2>1. req.kind = "retry" /\ req.of = tab.run.id /\ req.attempt = tab.run.retryAttempts + 1
    BY <1>5 DEF Retrying, Request
  <2>2. tab'.submit = None /\ tab'.retrying = TRUE
        /\ tab'.run = tab.run /\ tab'.waiting = tab.waiting \cup {req} /\ tab'.hidden = FALSE
    BY <1>5 DEF Retrying, Tab
  <2>3. ~tab.retrying /\ tab.run # None /\ tab.run.state \in Ended
    BY <1>5 DEF Retrying, CanRetry, Ended
  <2>4. \A r \in tab.waiting : r.kind # "retry" /\ KeyOf(r) # KeyOf(req)
    BY <1>0, <2>1, <2>3 DEF PendingInv, KeyOf
  <2>5. \A r1, r2 \in tab'.waiting : KeyOf(r1) = KeyOf(r2) => r1 = r2
    BY <1>0, <2>2, <2>4 DEF PendingInv
  <2> QED  BY <2>1, <2>2, <2>3, <2>4, <2>5 DEF PendingInv, KeyOf
<1>6. ASSUME NEW req \in tab.waiting, Left(req)
      PROVE  PendingInv'
  <2>1. tab'.submit = tab.submit /\ tab'.retrying = tab.retrying /\ tab'.hidden = tab.hidden
        /\ tab'.run = tab.run /\ tab'.waiting = tab.waiting \ {req}
    BY <1>6 DEF Left, Tab
  <2> QED  BY <1>0, <2>1 DEF PendingInv, KeyOf, Asks
<1>7. ASSUME NEW req \in tab.waiting, NEW f, NEW r, tab' = Rested(req, f, r), Pending(req),
             \/ r = tab.run
             \/ r.id = tab.run.id /\ r.state = tab.run.state
                  /\ r.retryAttempts = tab.run.retryAttempts /\ (tab.run = None => r = None)
             \/ \A other \in tab.waiting : other.kind = "retry" => other = req
      PROVE  PendingInv'
  <2>1. /\ tab'.submit = IF req.kind = "question" THEN None ELSE tab.submit
        /\ tab'.retrying = IF req.kind = "retry" THEN FALSE ELSE tab.retrying
        /\ tab'.hidden = tab.hidden /\ tab'.run = r /\ tab'.waiting = tab.waiting \ {req}
    BY <1>7 DEF Rested, Tab
  <2>2. \A r1, r2 \in tab'.waiting : KeyOf(r1) = KeyOf(r2) => r1 = r2
    BY <1>0, <2>1 DEF PendingInv
  <2>3. req.kind \in Kinds
    BY <1>0 DEF RequestType
  <2>4. CASE req.kind = "question"
    <3>1. tab'.submit = None /\ tab'.retrying = FALSE /\ tab.submit # None /\ ~tab.retrying
      BY <1>0, <1>7, <2>1, <2>4 DEF Pending, PendingInv
    <3>2. \A other \in tab.waiting : other.kind # "retry"
      BY <1>0, <3>1 DEF PendingInv
    <3> QED  BY <1>0, <2>1, <2>2, <3>1, <3>2 DEF PendingInv, KeyOf
  <2>5. CASE req.kind = "retry"
    <3>1. tab'.submit = None /\ tab'.retrying = FALSE
      BY <1>0, <1>7, <2>1, <2>5 DEF Pending, PendingInv
    <3>2. \A other \in tab'.waiting : other.kind # "retry"
      BY <1>0, <2>1, <2>5 DEF PendingInv, KeyOf
    <3> QED  BY <1>0, <2>1, <2>2, <3>1, <3>2 DEF PendingInv, KeyOf
  <2> QED  BY <2>3, <2>4, <2>5 DEF Kinds
<1>8. ASSUME NEW req \in tab.waiting, Closes(req)
      PROVE  PendingInv'
  BY <1>7, <1>8 DEF Closes
<1>9. ASSUME NEW req \in tab.waiting, NEW a \in answers, Begins(req, a)
      PROVE  PendingInv'
  <2>1. \A other \in tab.waiting : other.kind = "retry" => other = req
    <3>1. CASE req.kind = "question"
      BY <1>0, <1>9, <3>1 DEF Begins, Pending, PendingInv
    <3>2. CASE req.kind = "retry"
      BY <1>0, <3>2 DEF PendingInv, KeyOf
    <3> QED  BY <1>0, <3>1, <3>2 DEF RequestType, Kinds
  <2> QED  BY <1>7, <1>9, <2>1 DEF Begins
<1>10. ASSUME NEW req \in tab.waiting, NEW a \in answers, NEW b \in BOOLEAN, Reopens(req, a, b)
      PROVE  PendingInv'
  <2> DEFINE r == IF req.kind = "question" THEN tab.run ELSE Marked(tab.run.retryAttempts, b)
  <2>0. tab' = Rested(req, tab.failedClosed, r) /\ Pending(req)
    BY <1>10 DEF Reopens
  <2>1. CASE req.kind = "question"
    BY <1>7, <2>0, <2>1
  <2>2. CASE req.kind # "question"
    <3>1. tab.run # None
      BY <2>0, <2>2 DEF Pending
    <3>2. r.id = tab.run.id /\ r.state = tab.run.state
          /\ r.retryAttempts = tab.run.retryAttempts
      BY <2>2 DEF Marked, Shown
    <3> HIDE DEF r
    <3> QED  BY <1>7, <2>0, <3>1, <3>2
  <2> QED  BY <2>1, <2>2
<1>11. ASSUME NEW req \in tab.waiting, NEW new \in RequestType, Repeats(req, new)
      PROVE  PendingInv'
  <2>0. new.kind = req.kind /\ new.of = req.of /\ new.attempt = 2 /\ KeyOf(new) = KeyOf(req)
    BY <1>11 DEF Repeats, Request, KeyOf
  <2>1. /\ tab'.submit = (IF req.kind = "question"
                          THEN Submit(tab.submit.question, 2, tab.submit.conversation)
                          ELSE tab.submit)
        /\ tab'.retrying = tab.retrying /\ tab'.hidden = tab.hidden
        /\ tab'.run = (IF req.kind = "retry"
                       THEN Marked(tab.run.retryAttempts + 1, tab.run.retryBlocked)
                       ELSE tab.run)
        /\ tab'.waiting = (tab.waiting \ {req}) \cup {new}
        /\ Pending(req) /\ req.attempt = 1
    BY <1>11 DEF Repeats, Tab
  <2>2. \A r1, r2 \in tab'.waiting : KeyOf(r1) = KeyOf(r2) => r1 = r2
    BY <1>0, <2>0, <2>1 DEF PendingInv
  <2>3. ~tab.hidden /\ req.kind \in Kinds
    BY <1>0 DEF PendingInv, RequestType
  <2>4. CASE req.kind = "question"
    <3>1. tab.submit # None /\ ~tab.retrying /\ tab.submit.question = req.of
      BY <1>0, <2>1, <2>4 DEF Pending, PendingInv
    <3>2. tab'.submit.question = req.of /\ tab'.submit.attempts = 2 /\ tab'.run = tab.run
      BY <2>1, <2>4, <3>1 DEF Submit
    <3>3. \A r \in tab.waiting : r.kind # "retry"
      BY <1>0, <3>1 DEF PendingInv
    <3>4. \A r \in tab'.waiting : r.kind # "retry" /\ (Asks(r, req.of) => r.attempt = 2)
      BY <1>0, <2>0, <2>1, <2>4, <3>3 DEF PendingInv, KeyOf, Asks
    <3> QED  BY <1>0, <2>1, <2>2, <2>3, <3>1, <3>2, <3>4 DEF PendingInv, KeyOf
  <2>5. CASE req.kind = "retry"
    <3>1. tab.submit = None /\ tab'.submit = None /\ tab.run # None /\ tab.run.id = req.of
          /\ tab.retrying /\ tab.run.retryAttempts = 0
      BY <1>0, <2>1, <2>5 DEF Pending, PendingInv, ShownType
    <3>2. tab'.run.id = req.of /\ tab'.run.retryAttempts = 1 /\ tab'.run.state = tab.run.state
      BY <2>1, <2>5, <3>1 DEF Marked, Shown
    <3>4. \A r \in tab'.waiting : r.kind = "retry" => r.of = req.of /\ r.attempt = 2
      BY <1>0, <2>0, <2>1, <2>5 DEF PendingInv, KeyOf
    <3>5. tab'.run # None
      <4>1. tab'.run \in ShownType \cup {None} /\ tab'.run = Marked(1, tab.run.retryBlocked)
        BY TypeStep, <2>1, <2>5, <3>1 DEF TypeOK, TabType
      <4>2. Marked(1, tab.run.retryBlocked) \in ShownType
        BY <1>0, <3>1 DEF Marked, Shown, ShownType
      <4> QED  BY <4>1, <4>2, NoneApart
    <3> QED  BY <1>0, <2>1, <2>2, <2>3, <3>1, <3>2, <3>4, <3>5 DEF PendingInv, KeyOf
  <2> QED  BY <2>3, <2>4, <2>5 DEF Kinds
<1>12. CASE Learns
  <2>1. /\ tab'.submit = tab.submit /\ tab'.retrying = tab.retrying /\ tab'.hidden = tab.hidden
        /\ tab'.run = Shown(tab.run.id, tab.run.question, runs[tab.run.id].state, TRUE,
                            tab.run.retryAttempts, tab.run.retryBlocked)
        /\ tab'.waiting = tab.waiting
    BY <1>12 DEF Learns, Tab
  <2>2. tab.run # None /\ tab'.run.id = tab.run.id /\ tab'.run.state \in Ended
        /\ tab'.run.retryAttempts = tab.run.retryAttempts /\ tab.run.state = "active"
    BY <1>12, <2>1 DEF Learns, Shown
  <2>3. "active" \notin Ended
    BY DEF Ended, Recoverable
  <2> QED  BY <1>0, <2>1, <2>2, <2>3 DEF PendingInv, KeyOf, Asks
<1>13. CASE Fails
  <2>1. /\ tab'.submit = tab.submit /\ tab'.retrying = tab.retrying /\ tab'.hidden = tab.hidden
        /\ tab'.run = tab.run /\ tab'.waiting = tab.waiting
    BY <1>13 DEF Fails, Tab
  <2> QED  BY <1>0, <2>1 DEF PendingInv, KeyOf, Asks
<1>14. CASE Adopts
  <2>0. ~tab.hidden
    BY <1>14 DEF Adopts, CreationInv
  <2>1. tab'.retrying = FALSE /\ tab'.hidden = FALSE /\ tab'.run = None
    BY <1>14, <2>0 DEF Adopts, Tab
  <2>2. CASE tab'.submit = None /\ tab'.waiting = Questions(tab.waiting)
    BY <1>0, <2>1, <2>2 DEF PendingInv, KeyOf, Questions
  <2>3. ASSUME NEW req, req = Request("question", asked + 1, 1, creation.conversation),
               tab'.submit = Submit(asked + 1, 1, creation.conversation),
               tab'.waiting = Questions(tab.waiting) \cup {req}
        PROVE  PendingInv'
    <3>1. /\ req.kind = "question" /\ req.of = asked + 1 /\ req.attempt = 1
          /\ KeyOf(req) = <<"question", asked + 1>>
      BY <2>3 DEF Request, KeyOf
    <3>2. tab'.submit.question = asked + 1 /\ tab'.submit.attempts = 1
      BY <2>3 DEF Submit
    <3>3. \A r \in Questions(tab.waiting) :
            r \in tab.waiting /\ r.kind = "question" /\ ~Asks(r, asked + 1)
      BY <1>0 DEF UnderWay, Asks, Questions
    <3>4. \A r \in Questions(tab.waiting) : KeyOf(r) # KeyOf(req)
      BY <3>1, <3>3 DEF KeyOf, Asks
    <3>5. \A r1, r2 \in tab'.waiting : KeyOf(r1) = KeyOf(r2) => r1 = r2
      BY <1>0, <2>3, <3>3, <3>4 DEF PendingInv
    <3>6. \A r \in tab'.waiting : r.kind # "retry" /\ (Asks(r, asked + 1) => r.attempt = 1)
      BY <2>3, <3>1, <3>3
    <3> QED  BY <2>1, <3>2, <3>5, <3>6 DEF PendingInv, KeyOf, Asks
  <2> QED  BY <1>14, <2>2, <2>3 DEF Adopts, Tab
<1>15. CASE Hides
  <2>1. tab'.submit = tab.submit /\ tab'.retrying = FALSE /\ tab'.run = tab.run
        /\ tab'.waiting = {}
    BY <1>15 DEF Hides, Tab
  <2> QED  BY <1>0, <2>1 DEF PendingInv
<1>16. CASE Returns
  <2>0. tab.waiting = {} /\ ~tab.retrying
    BY <1>0, <1>16 DEF Returns, PendingInv
  <2>1. tab'.hidden = FALSE /\ tab'.retrying = tab.retrying /\ tab'.run = tab.run
    BY <1>16 DEF Returns, Tab
  <2>2. CASE tab'.submit = None /\ tab'.waiting = tab.waiting
    BY <1>0, <2>0, <2>1, <2>2 DEF PendingInv
  <2>3. ASSUME NEW req, req = Request("question", tab.submit.question, 2, tab.conversation),
               tab'.submit = Submit(tab.submit.question, 2, tab.submit.conversation),
               tab.submit # None, tab'.waiting = tab.waiting \cup {req}
        PROVE  PendingInv'
    <3>1. req.kind = "question" /\ req.attempt = 2 /\ tab'.submit.attempts = 2
      BY <2>3 DEF Request, Submit
    <3>2. tab'.waiting = {req}
      BY <2>0, <2>3
    <3> QED  BY <1>0, <2>0, <2>1, <2>3, <3>1, <3>2 DEF PendingInv
  <2> QED  BY <1>16, <2>2, <2>3 DEF Returns, Tab
<1> QED
  BY <1>2, <1>3, <1>4, <1>5, <1>6, <1>8, <1>9, <1>10, <1>11, <1>12, <1>13, <1>14, <1>15, <1>16
  DEF Shape

-----------------------------------------------------------------------------
(* A key names one Run, a question just typed has none, and the pending command
   is over when the tab comes to rest.                                        *)
LEMMA KeyIsOne ==
    ASSUME IInv, NEW i \in DOMAIN runs, NEW j \in DOMAIN runs, runs[i].key = runs[j].key
    PROVE  i = j
<1> USE DEF IInv, CommandInv
<1>1. CASE runs[i].retryOf = 0 /\ runs[j].retryOf = 0
  <2>1. runs[i].question = runs[j].question
    BY <1>1 DEF RunsOK
  <2> QED  BY <1>1, <2>1 DEF OneRunPerCommand
<1>2. CASE runs[i].retryOf # 0 /\ runs[j].retryOf # 0
  <2>1. runs[i].retryOf = runs[j].retryOf
    BY <1>2 DEF RunsOK
  <2> QED  BY <1>2, <2>1 DEF OneRunPerCommand
<1>3. CASE runs[i].retryOf = 0 /\ runs[j].retryOf # 0
  BY <1>3 DEF RunsOK
<1>4. CASE runs[i].retryOf # 0 /\ runs[j].retryOf = 0
  BY <1>4 DEF RunsOK
<1> QED  BY <1>1, <1>2, <1>3, <1>4

LEMMA FreshKey ==
    ASSUME IInv
    PROVE  /\ \A req \in UnderWay : KeyOf(req) # <<"question", asked + 1>>
           /\ \A i \in DOMAIN runs : runs[i].key # <<"question", asked + 1>>
                                     /\ runs[i].question # asked + 1
<1> USE DEF IInv, CommandInv
<1>0. asked \in Nat
  BY DEF TypeOK
<1>1. ASSUME NEW req \in UnderWay
      PROVE  KeyOf(req) # <<"question", asked + 1>>
  <2>1. req \in RequestType /\ (req.kind = "question" => req.of <= asked)
    BY CommandOf DEF RequestsOK
  <2> QED  BY <1>0, <2>1 DEF KeyOf
<1>2. ASSUME NEW i \in DOMAIN runs
      PROVE  runs[i].key # <<"question", asked + 1>> /\ runs[i].question # asked + 1
  <2>1. runs[i] \in RunType /\ runs[i].question <= asked
    BY RunTyped DEF RunsOK
  <2> QED  BY <1>0, <2>1 DEF RunsOK, RunType
<1> QED  BY <1>1, <1>2

LEMMA RestedIdle ==
    ASSUME IInv, NEW req \in tab.waiting, Pending(req), NEW f, NEW r, tab' = Rested(req, f, r)
    PROVE  /\ tab'.submit = None /\ tab'.retrying = FALSE /\ tab'.failedClosed = f
           /\ tab'.run = r /\ tab'.conversation = tab.conversation
           /\ tab'.hidden = tab.hidden /\ tab'.waiting = tab.waiting \ {req}
           /\ tab.run # None => tab.run.state \in Ended
           /\ \A k : PendingKey(k) <=> k = KeyOf(req)
<1> USE DEF IInv, ComposerInv
<1>1. /\ tab'.submit = IF req.kind = "question" THEN None ELSE tab.submit
      /\ tab'.retrying = IF req.kind = "retry" THEN FALSE ELSE tab.retrying
      /\ tab'.failedClosed = f /\ tab'.run = r /\ tab'.conversation = tab.conversation
      /\ tab'.hidden = tab.hidden /\ tab'.waiting = tab.waiting \ {req}
  BY DEF Rested, Tab
<1>2. req.kind \in Kinds /\ tab.retrying \in BOOLEAN
  BY TabFields DEF RequestType, TypeOK, TabType
<1>3. CASE req.kind = "question"
  <2>1. tab.submit # None /\ tab.submit.question = req.of /\ ~tab.retrying
    BY <1>3 DEF Pending, PendingInv
  <2>2. tab'.submit = None /\ tab'.retrying = FALSE
    BY <1>1, <1>2, <1>3, <2>1
  <2>3. \A k : PendingKey(k) <=> k = KeyOf(req)
    BY <1>3, <2>1 DEF PendingKey, KeyOf
  <2> QED  BY <1>1, <2>1, <2>2, <2>3 DEF PendingInv
<1>4. CASE req.kind = "retry"
  <2>1. tab.retrying /\ tab.run # None /\ tab.run.id = req.of /\ tab.submit = None
    BY <1>4 DEF Pending, PendingInv
  <2>2. tab'.submit = None /\ tab'.retrying = FALSE
    BY <1>1, <1>4, <2>1
  <2>3. \A k : PendingKey(k) <=> k = KeyOf(req)
    BY <1>4, <2>1 DEF PendingKey, KeyOf
  <2> QED  BY <1>1, <2>1, <2>2, <2>3 DEF PendingInv
<1> QED  BY <1>2, <1>3, <1>4 DEF Kinds

(* A Run the tab begins to follow is later than the one it showed.            *)
LEMMA BegunRun ==
    ASSUME IInv, NEW req \in tab.waiting, NEW a \in answers, Begins(req, a)
    PROVE  /\ a.run \in DOMAIN runs /\ runs[a.run].key = KeyOf(req)
           /\ runs[a.run].conversation = tab.conversation
           /\ tab.run # None => tab.run.id < a.run
<1> USE DEF IInv, CommandInv, ComposerInv
<1>1. /\ a.run \in DOMAIN runs /\ runs[a.run].key = KeyOf(req)
      /\ runs[a.run].conversation = req.conversation
  BY DEF Begins, AnswersOK
<1>2. req.conversation = tab.conversation /\ req \in RequestType
  BY PendingHere, CommandOf DEF Begins, UnderWay
<1>3. /\ runs[a.run].question = QuestionOf(req)
      /\ runs[a.run].retryOf = IF req.kind = "retry" THEN req.of ELSE 0
  BY <1>1, CommandOf DEF UnderWay
<1>4. ASSUME tab.run # None
      PROVE  tab.run.id < a.run
  <2>1. CASE req.kind = "question"
    BY <1>1, <1>3, <1>4, <2>1 DEF Begins, Pending, QuestionOf, OrderInv
  <2>2. CASE req.kind = "retry"
    <3>1. tab.run.id = req.of /\ runs[a.run].retryOf = req.of /\ req.of # 0
      BY <1>2, <1>3, <2>2 DEF Begins, Pending, RequestType, Positive
    <3> QED  BY <1>1, <3>1 DEF RunsOK
  <2> QED  BY <1>2, <2>1, <2>2 DEF RequestType, Kinds
<1> QED  BY <1>1, <1>2, <1>4

LEMMA OrderStep ==
    ASSUME IInv, Shape
    PROVE  OrderInv'
<1> USE DEF IInv, CommandInv, ComposerInv
<1>0. CASE Adopts
  <2>1. /\ tab'.run = None /\ tab'.conversation = creation.conversation /\ runs' = runs
        /\ creation.at = "headers"
    BY <1>0 DEF Adopts, Tab
  <2>2. ASSUME NEW req \in UnderWay', req.conversation = tab'.conversation
        PROVE  req.kind = "question"
    <3>1. req \notin UnderWay
      BY <2>1, <2>2 DEF CreationInv
    <3>2. req = Request("question", asked + 1, 1, creation.conversation)
      BY <1>0, <3>1 DEF Adopts, Tab, UnderWay, Questions
    <3> QED  BY <3>2 DEF Request
  <2>3. \A i \in DOMAIN runs' : runs'[i].conversation # tab'.conversation
    BY <2>1 DEF CreationInv
  <2> QED  BY <2>1, <2>2, <2>3 DEF OrderInv
<1>1. CASE ~Adopts
  <2>0. Stays
    BY <1>1, TabStep DEF TabMoves
  <2>1. tab.run # None => tab'.run # None /\ tab.run.id <= tab'.run.id
    <3>1. ASSUME NEW req \in tab.waiting, NEW a \in answers, Begins(req, a), tab.run # None
          PROVE  tab'.run # None /\ tab.run.id <= tab'.run.id
      <4>1. a.run \in DOMAIN runs /\ tab.run.id < a.run
        BY <3>1, BegunRun
      <4>2. tab'.run = Shown(a.run, QuestionOf(req), runs[a.run].state,
                             runs[a.run].state \in Ended, 0, FALSE)
        BY <3>1, RestedIdle DEF Begins
      <4>3. tab'.run.id = a.run
        BY <4>2 DEF Shown
      <4>4. tab'.run # None
        <5>1. QuestionOf(req) \in Positive /\ runs[a.run] \in RunType /\ a.run \in Positive
          BY <4>1, CommandOf, RunTyped DEF UnderWay
        <5>2. tab'.run \in ShownType
          BY <4>2, <5>1 DEF Shown, ShownType, RunType
        <5> QED  BY <5>2, NoneApart
      <4>5. tab.run.id \in Nat /\ a.run \in Nat
        BY <3>1, <4>1, TabFields DEF ShownType, Positive, TypeOK
      <4> QED  BY <4>1, <4>3, <4>4, <4>5
    <3>2. tab.run # None => tab.run.id \in Nat
      BY TabFields DEF ShownType, Positive
    <3> QED  BY <1>1, <3>1, <3>2, TabStep DEF TabMoves, ShownMoves
  <2>2. \A i \in Nat : tab.run # None /\ i <= tab.run.id => tab'.run # None /\ i <= tab'.run.id
    <3>1. tab.run # None => tab.run.id \in Nat
      BY TabFields DEF ShownType, Positive
    <3>2. tab'.run # None => tab'.run.id \in Nat
      BY TypeStep DEF TypeOK, TabType, ShownType, Positive
    <3> QED  BY <2>1, <3>1, <3>2
  <2>3. ASSUME NEW req \in UnderWay', req.kind = "retry", req.conversation = tab'.conversation
        PROVE  tab'.run # None /\ req.of <= tab'.run.id
    <3>1. CASE req \in UnderWay
      <4>1. req \in RequestType /\ req.conversation = tab.conversation
        BY <2>0, <2>3, <3>1, CommandOf DEF Stays
      <4>2. tab.run # None /\ req.of <= tab.run.id /\ req.of \in Nat
        BY <2>3, <3>1, <4>1 DEF OrderInv, RequestType, Positive
      <4> QED  BY <2>2, <4>2
    <3>2. CASE req \notin UnderWay
      <4>1. PICK new \in RequestType : Grows(new)
        BY <3>2, WireMoves DEF UnderWay
      <4>2. tab.run # None /\ req.of = tab.run.id
        BY <2>3, <3>2, <4>1 DEF Grows, UnderWay, Asks
      <4>3. tab.run.id \in Nat
        BY <4>2, TabFields DEF ShownType, Positive
      <4> QED  BY <2>2, <4>2, <4>3
    <3> QED  BY <3>1, <3>2
  <2>4. ASSUME NEW i \in DOMAIN runs', runs'[i].conversation = tab'.conversation,
               runs'[i].retryOf # 0
        PROVE  tab'.run # None /\ runs'[i].retryOf <= tab'.run.id
    <3>1. CASE i \in DOMAIN runs
      <4>1. SameRun(i) /\ runs[i] \in RunType
        BY <3>1, RunsKept, RunTyped
      <4>2. tab.run # None /\ runs[i].retryOf <= tab.run.id /\ runs[i].retryOf \in Nat
            /\ runs'[i].retryOf = runs[i].retryOf
        BY <2>0, <2>4, <3>1, <4>1 DEF OrderInv, SameRun, Stays, RunType
      <4> QED  BY <2>2, <4>2
    <3>2. CASE i \notin DOMAIN runs
      <4>1. PICK req \in wire, a \in AnswerType : Accepts(req, a)
        BY <2>4, <3>2, RunsMove DEF SameRuns
      <4>2. runs'[i] = NewRun(req)
        BY <2>4, <3>2, <4>1, AcceptedRun
      <4>3. req.kind = "retry" /\ runs'[i].retryOf = req.of /\ req.conversation = tab.conversation
        BY <2>0, <2>4, <4>2 DEF NewRun, Stays
      <4>4. tab.run # None /\ req.of <= tab.run.id /\ req.of \in Nat
        BY <4>3, CommandOf DEF OrderInv, UnderWay, RequestType, Positive
      <4> QED  BY <2>2, <4>3, <4>4
    <3> QED  BY <3>1, <3>2
  <2>5. ASSUME tab'.submit # None, tab'.run # None, NEW i \in DOMAIN runs',
               runs'[i].question = tab'.submit.question
        PROVE  tab'.run.id < i
    <3>1. CASE asked' = asked + 1 /\ tab'.submit = Submit(asked + 1, 1, tab'.conversation)
      <4>1. tab'.submit.question = asked + 1
        BY <3>1 DEF Submit
      <4>2. asked' # asked
        BY <3>1 DEF TypeOK
      <4>3. runs' = runs
        BY <4>2, WireMoves DEF Grows
      <4> QED  BY <2>5, <4>1, <4>3, FreshKey
    <3>2. CASE tab.submit # None /\ tab'.submit.question = tab.submit.question
      <4>1. tab.run # None /\ tab'.run.id = tab.run.id
        <5>1. ~ \E req \in tab.waiting, a \in answers : Begins(req, a)
          BY <2>5, RestedIdle DEF Begins
        <5> QED  BY <1>1, <2>5, <5>1, TabStep DEF TabMoves, ShownMoves
      <4>2. CASE i \in DOMAIN runs
        BY <2>5, <3>2, <4>1, <4>2, RunsKept DEF OrderInv, SameRun
      <4>3. CASE i \notin DOMAIN runs
        <5>1. PICK req \in wire, a \in AnswerType : Accepts(req, a)
          BY <2>5, <4>3, RunsMove DEF SameRuns
        <5>2. i = Len(runs) + 1
          BY <2>5, <4>3, <5>1, AcceptedRun
        <5> QED  BY <4>1, <5>1, <5>2, AcceptedRun
      <4> QED  BY <4>2, <4>3
    <3> QED  BY <2>5, <3>1, <3>2, TabStep DEF TabMoves, SubmitMoves
  <2> QED  BY <2>3, <2>4, <2>5 DEF OrderInv
<1> QED  BY <1>0, <1>1

-----------------------------------------------------------------------------
(* What is in doubt, tried and known: Calm.  A step that keeps the tab's command
   and makes no Run keeps it.                                                 *)
Calm == FirstInv /\ Untried /\ KnownInv

LEMMA SameMade ==
    ASSUME IInv, SameRuns, Stays
    PROVE  /\ \A k : MadeFor(k)' <=> MadeFor(k)
           /\ \A i \in ActiveIn(tab.conversation)' :
                i \in ActiveIn(tab.conversation) /\ runs'[i].key = runs[i].key
<1>1. ASSUME NEW k
      PROVE  MadeFor(k)' <=> MadeFor(k)
  BY DEF SameRuns, SameRun, Stays, MadeFor, RunsOf
<1>2. "active" \notin Ended
  BY DEF Ended, Recoverable
<1>3. ASSUME NEW i \in ActiveIn(tab.conversation)'
      PROVE  i \in ActiveIn(tab.conversation) /\ runs'[i].key = runs[i].key
  BY <1>2 DEF SameRuns, SameRun, Stays, ActiveIn, RunsOf
<1> QED  BY <1>1, <1>3

Steady ==
    /\ Stays /\ SameRuns /\ wire' \subseteq wire /\ doubtful' = doubtful
    /\ tab'.submit = tab.submit /\ tab'.retrying = tab.retrying
    /\ tab'.hidden = tab.hidden /\ tab'.failedClosed = tab.failedClosed
    /\ tab'.run = None <=> tab.run = None
    /\ tab.run # None => /\ tab'.run.id = tab.run.id
                         /\ tab'.run.retryAttempts = tab.run.retryAttempts

LEMMA SteadyStep ==
    ASSUME IInv, Steady,
           \A req \in wire' : First(KeyOf(req)) => req \in tab'.waiting,
           \A a \in answers' : a \in answers \/ a.to \in wire,
           tab.run # None /\ tab.run.state = "active" /\ tab'.run.state # "active"
             => tab.run.id \notin ActiveIn(tab.conversation)
    PROVE  Calm'
<1> USE DEF IInv, ComposerInv
<1>1. \A k : MadeFor(k)' <=> MadeFor(k)
  BY SameMade DEF Steady
<1>2. \A i \in ActiveIn(tab.conversation)' :
         i \in ActiveIn(tab.conversation) /\ runs'[i].key = runs[i].key
  BY SameMade DEF Steady
<1>3. tab.retrying => tab.run # None
  BY DEF PendingInv
<1>4. ASSUME NEW k
      PROVE  PendingKey(k)' <=> PendingKey(k)
  BY <1>3 DEF Steady, PendingKey
<1>5. ASSUME NEW k
      PROVE  First(k)' => First(k)
  <2>1. First(k)' => PendingKey(k)
    BY <1>4 DEF First
  <2>2. PendingKey(k) /\ tab.submit = None => tab.run # None
    BY <1>3 DEF PendingKey
  <2> QED  BY <2>1, <2>2 DEF Steady, First
<1>6. FirstInv'
  <2>1. ASSUME NEW req \in wire', First(KeyOf(req))'
        PROVE  req \in tab'.waiting /\ ~MadeFor(KeyOf(req))'
    <3>1. PICK k : k = KeyOf(req)
      OBVIOUS
    <3>2. First(k)'
      BY <2>1, <3>1 DEF KeyOf
    <3>3. First(KeyOf(req)) /\ req \in wire
      BY <1>5, <3>1, <3>2 DEF Steady
    <3>4. ~MadeFor(k)'
      BY <1>1, <3>1, <3>3 DEF FirstInv
    <3> QED  BY <3>1, <3>3, <3>4 DEF KeyOf
  <2>2. ASSUME NEW a \in answers', First(KeyOf(a.to))', a.kind # "run"
        PROVE  ~MadeFor(KeyOf(a.to))'
    <3>1. PICK k : k = KeyOf(a.to)
      OBVIOUS
    <3>2. First(k)'
      BY <2>2, <3>1 DEF KeyOf
    <3>3. ~MadeFor(k)
      BY <1>5, <2>2, <3>1, <3>2 DEF FirstInv
    <3> QED  BY <1>1, <3>1, <3>3 DEF KeyOf
  <2> QED  BY <2>1, <2>2 DEF FirstInv, KeyOf
<1>7. Untried'
  <2>1. PICK k : k = <<"retry", tab.run.id>>
    OBVIOUS
  <2>2. ASSUME tab'.run # None, ~tab'.retrying, ~tab'.failedClosed,
               <<"retry", tab'.run.id>> \notin doubtful'
        PROVE  /\ \A req \in wire' : KeyOf(req) # k
               /\ ~MadeFor(k)' /\ tab'.run.retryAttempts = 0 /\ <<"retry", tab'.run.id>> = k
    BY <1>1, <2>1, <2>2 DEF Steady, Untried
  <2> QED  BY <2>2 DEF Untried, KeyOf
<1>8. KnownInv'
  <2>1. ASSUME ~tab'.failedClosed, NEW req \in wire', req.conversation = tab'.conversation
        PROVE  (KeyOf(req) \in doubtful \/ PendingKey(KeyOf(req)) \/ MadeFor(KeyOf(req)))'
    <3>1. PICK k : k = KeyOf(req)
      OBVIOUS
    <3>2. k \in doubtful \/ PendingKey(k) \/ MadeFor(k)
      BY <2>1, <3>1 DEF Steady, KnownInv, Stays
    <3>3. k \in doubtful' \/ PendingKey(k)' \/ MadeFor(k)'
      BY <1>1, <1>4, <3>2 DEF Steady
    <3> QED  BY <3>1, <3>3 DEF KeyOf
  <2>2. ASSUME ~tab'.failedClosed, NEW i \in ActiveIn(tab.conversation)'
        PROVE  (\/ runs[i].key \in doubtful \/ PendingKey(runs[i].key)
                \/ tab.run # None /\ tab.run.id = i /\ tab.run.state = "active")'
    <3>1. PICK k : k = runs[i].key
      OBVIOUS
    <3>2. i \in ActiveIn(tab.conversation) /\ runs'[i].key = k
      BY <1>2, <3>1
    <3>3. \/ k \in doubtful \/ PendingKey(k)
          \/ tab.run # None /\ tab.run.id = i /\ tab.run.state = "active"
      BY <2>2, <3>1, <3>2 DEF Steady, KnownInv
    <3>4. \/ k \in doubtful' \/ PendingKey(k)'
          \/ tab'.run # None /\ tab'.run.id = i /\ tab'.run.state = "active"
      BY <1>4, <3>2, <3>3 DEF Steady
    <3> QED  BY <3>2, <3>4 DEF PendingKey
  <2> QED  BY <2>1, <2>2 DEF KnownInv
<1> QED  BY <1>6, <1>7, <1>8 DEF Calm

LEMMA CalmServer ==
    ASSUME IInv,
           \/ Aside \/ Learns
           \/ \E i \in DOMAIN runs, s \in Ended : Ends(i, s)
           \/ \E req \in wire, a \in AnswerType : Settles(req, a)
           \/ \E req \in tab.waiting : Left(req)
    PROVE  Calm'
<1> USE DEF IInv, CommandInv, ComposerInv
<1>0. \A req \in wire : First(KeyOf(req)) => req \in tab.waiting
  BY DEF FirstInv
<1>1. CASE Aside
  <2>1. Steady /\ tab' = tab /\ wire' = wire /\ answers' = answers
    BY <1>1 DEF Aside, Steady, Stays, SameRuns, SameRun
  <2> QED  BY <1>0, <2>1, SteadyStep
<1>2. CASE Learns
  <2>1. /\ tab'.conversation = tab.conversation /\ tab'.submit = tab.submit
        /\ tab'.retrying = tab.retrying /\ tab'.hidden = tab.hidden
        /\ tab'.failedClosed = tab.failedClosed /\ tab'.waiting = tab.waiting
        /\ tab'.run = Shown(tab.run.id, tab.run.question, runs[tab.run.id].state, TRUE,
                            tab.run.retryAttempts, tab.run.retryBlocked)
    BY <1>2 DEF Learns, Tab
  <2>2. tab'.run # None /\ tab.run # None
    <3>1. tab.run # None /\ runs[tab.run.id].state \in States /\ tab.run \in ShownType
      BY <1>2, TabFields DEF Learns, States
    <3>2. tab.run.retryAttempts \in {0, 1} /\ tab.run.retryBlocked \in BOOLEAN
      BY <3>1 DEF ShownType
    <3> QED  BY <2>1, <3>1, <3>2, ShownTyped
  <2>3. tab'.run.id = tab.run.id /\ tab'.run.retryAttempts = tab.run.retryAttempts
    BY <2>1 DEF Shown
  <2>4. Steady /\ answers' = answers /\ wire' = wire
    BY <1>2, <2>1, <2>2, <2>3 DEF Learns, Steady, Stays, SameRuns, SameRun
  <2>5. tab.run.id \notin ActiveIn(tab.conversation)
    BY <1>2 DEF Learns, ActiveIn, Ended, Recoverable
  <2> QED  BY <1>0, <2>1, <2>4, <2>5, SteadyStep
<1>3. ASSUME NEW i \in DOMAIN runs, NEW s \in Ended, Ends(i, s)
      PROVE  Calm'
  <2>1. SameRuns
    <3>1. Shape
      BY <1>3 DEF Shape
    <3>2. ~ \E req \in wire, a \in AnswerType : Accepts(req, a)
      BY <1>3, AcceptedRun DEF Ends
    <3> QED  BY <3>1, <3>2, RunsMove
  <2>2. Steady /\ tab' = tab /\ wire' = wire /\ answers' = answers
    BY <1>3, <2>1 DEF Ends, Steady, Stays
  <2> QED  BY <1>0, <2>2, SteadyStep
<1>4. ASSUME NEW req \in wire, NEW a \in AnswerType, Settles(req, a)
      PROVE  Calm'
  <2>1. /\ tab' = tab /\ wire' = wire \ {req} /\ runs' = runs /\ doubtful' = doubtful
        /\ a.to = req
        /\ answers' = IF req \in tab.waiting THEN answers \cup {a} ELSE answers
    BY <1>4 DEF Settles, Taken
  <2>2. Steady
    BY <2>1 DEF Steady, Stays, SameRuns, SameRun
  <2>3. \A b \in answers' : b \in answers \/ b.to \in wire
    BY <2>1
  <2> QED  BY <1>0, <2>1, <2>2, <2>3, SteadyStep
<1>5. ASSUME NEW req \in tab.waiting, Left(req)
      PROVE  Calm'
  <2>1. /\ tab'.conversation = tab.conversation /\ tab'.submit = tab.submit
        /\ tab'.retrying = tab.retrying /\ tab'.hidden = tab.hidden
        /\ tab'.failedClosed = tab.failedClosed /\ tab'.run = tab.run
        /\ tab'.waiting = tab.waiting \ {req}
    BY <1>5 DEF Left, Tab
  <2>2. Steady /\ answers' \subseteq answers
    BY <1>5, <2>1 DEF Left, Back, Steady, Stays, SameRuns, SameRun
  <2>3. ~First(KeyOf(req))
    <3>1. ~PendingKey(KeyOf(req))
      BY <1>5 DEF Left, Pending, PendingKey, KeyOf, PendingInv, SubmitOK
    <3> QED  BY <3>1 DEF First
  <2>4. wire' = wire
    BY <1>5 DEF Left
  <2> QED  BY <1>0, <2>1, <2>2, <2>3, <2>4, SteadyStep
<1> QED  BY <1>1, <1>2, <1>3, <1>4, <1>5

LEMMA CalmAccept ==
    ASSUME IInv, NEW req \in wire, NEW a \in AnswerType, Accepts(req, a)
    PROVE  Calm'
<1> USE DEF IInv, CommandInv, ComposerInv
<1> DEFINE n == Len(runs) + 1
<1>0. /\ tab' = tab /\ doubtful' = doubtful /\ wire' = wire \ {req} /\ a.to = req
      /\ a.kind = "run"
      /\ answers' = IF req \in tab.waiting THEN answers \cup {a} ELSE answers
  BY DEF Accepts, Taken
<1>1. /\ DOMAIN runs' = DOMAIN runs \cup {n} /\ n \notin DOMAIN runs
      /\ \A i \in DOMAIN runs : runs'[i] = runs[i]
      /\ runs'[n].key = KeyOf(req) /\ runs'[n].conversation = req.conversation
  <2>1. NewRun(req).key = KeyOf(req) /\ NewRun(req).conversation = req.conversation
    BY DEF NewRun
  <2> QED  BY <2>1, AcceptedRun
<1> HIDE DEF n
<1>2. ASSUME NEW k, MadeFor(k)'
      PROVE  MadeFor(k) \/ (req.conversation = tab.conversation /\ k = KeyOf(req))
  BY <1>0, <1>1, <1>2 DEF MadeFor, RunsOf
<1>3. ASSUME NEW k
      PROVE  /\ PendingKey(k)' <=> PendingKey(k)
             /\ First(k)' <=> First(k)
             /\ MadeFor(k) => MadeFor(k)'
  BY <1>0, <1>1 DEF MadeFor, RunsOf, PendingKey, First
<1>4. First(KeyOf(req)) => req \in tab.waiting /\ ~MadeFor(KeyOf(req))
  BY DEF FirstInv
<1>5. ~MadeFor(KeyOf(req)) \/ req.conversation # tab.conversation
  BY DEF Accepts, Unheard, Made, MadeFor, RunsOf
<1>6. FirstInv'
  <2>1. ASSUME NEW r \in tab.waiting, r # req, First(KeyOf(r)), ~MadeFor(KeyOf(r)), NEW k,
               k = KeyOf(r)
        PROVE  ~MadeFor(k)'
    <3>1. k # KeyOf(req)
      BY <1>4, <2>1 DEF PendingInv
    <3> QED  BY <1>2, <2>1, <3>1
  <2>2. ASSUME NEW r \in wire', First(KeyOf(r))'
        PROVE  r \in tab'.waiting /\ ~MadeFor(KeyOf(r))'
    <3>1. PICK k : k = KeyOf(r)
      OBVIOUS
    <3>2. First(k)
      BY <1>3, <2>2, <3>1 DEF KeyOf
    <3>3. r \in tab.waiting /\ ~MadeFor(k) /\ r # req
      BY <1>0, <3>1, <3>2 DEF FirstInv
    <3>4. ~MadeFor(k)'
      BY <2>1, <3>1, <3>2, <3>3
    <3> QED  BY <1>0, <3>1, <3>3, <3>4 DEF KeyOf
  <2>3. ASSUME NEW b \in answers', First(KeyOf(b.to))', b.kind # "run"
        PROVE  ~MadeFor(KeyOf(b.to))'
    <3>1. PICK k : k = KeyOf(b.to)
      OBVIOUS
    <3>2. b \in answers /\ First(k)
      BY <1>0, <1>3, <2>3, <3>1 DEF KeyOf
    <3>3. b.to \in tab.waiting /\ b.to # req /\ ~MadeFor(k)
      BY <2>3, <3>1, <3>2 DEF AnswersOK, FirstInv
    <3>4. ~MadeFor(k)'
      BY <2>1, <3>1, <3>2, <3>3
    <3> QED  BY <3>1, <3>4 DEF KeyOf
  <2> QED  BY <2>2, <2>3 DEF FirstInv, KeyOf
<1>7. Untried'
  <2>1. PICK k : k = <<"retry", tab.run.id>>
    OBVIOUS
  <2>2. ASSUME tab.run # None, ~tab.retrying, ~tab.failedClosed, k \notin doubtful
        PROVE  ~MadeFor(k)' /\ \A r \in wire' : KeyOf(r) # k
    BY <1>0, <1>2, <2>1, <2>2 DEF Untried
  <2>3. ASSUME tab'.run # None, ~tab'.retrying, ~tab'.failedClosed,
               <<"retry", tab'.run.id>> \notin doubtful'
        PROVE  /\ \A r \in wire' : KeyOf(r) # <<"retry", tab'.run.id>>
               /\ ~MadeFor(k)' /\ tab'.run.retryAttempts = 0 /\ <<"retry", tab'.run.id>> = k
    BY <1>0, <2>1, <2>2, <2>3 DEF Untried
  <2> QED  BY <2>3 DEF Untried, KeyOf
<1>8. KnownInv'
  <2>0. ASSUME ~tab.failedClosed, NEW r \in wire, r.conversation = tab.conversation, NEW k,
               k = KeyOf(r)
        PROVE  k \in doubtful \/ PendingKey(k) \/ MadeFor(k)
    BY <2>0 DEF KnownInv
  <2>1. ASSUME ~tab'.failedClosed, NEW r \in wire', r.conversation = tab'.conversation
        PROVE  (KeyOf(r) \in doubtful \/ PendingKey(KeyOf(r)) \/ MadeFor(KeyOf(r)))'
    <3>1. PICK k : k = KeyOf(r)
      OBVIOUS
    <3>2. k \in doubtful' \/ PendingKey(k)' \/ MadeFor(k)'
      BY <1>0, <1>3, <2>0, <2>1, <3>1
    <3> QED  BY <3>1, <3>2 DEF KeyOf
  <2>2. ASSUME ~tab'.failedClosed, NEW i \in ActiveIn(tab.conversation)'
        PROVE  (\/ runs[i].key \in doubtful \/ PendingKey(runs[i].key)
                \/ tab.run # None /\ tab.run.id = i /\ tab.run.state = "active")'
    <3>1. PICK k : k = runs'[i].key
      OBVIOUS
    <3>2. CASE i \in DOMAIN runs
      <4>1. i \in ActiveIn(tab.conversation) /\ runs[i].key = k
        BY <1>0, <1>1, <2>2, <3>1, <3>2 DEF ActiveIn, RunsOf
      <4>2. \/ k \in doubtful \/ PendingKey(k)
            \/ tab.run # None /\ tab.run.id = i /\ tab.run.state = "active"
        BY <1>0, <2>2, <4>1 DEF KnownInv
      <4> QED  BY <1>0, <3>1, <4>2 DEF PendingKey
    <3>3. CASE i = n
      <4>1. k = KeyOf(req) /\ req.conversation = tab.conversation
        BY <1>0, <1>1, <2>2, <3>1, <3>3 DEF ActiveIn, RunsOf
      <4>2. k \in doubtful \/ PendingKey(k)
        BY <1>0, <1>5, <2>0, <2>2, <4>1
      <4> QED  BY <1>0, <3>1, <4>2 DEF PendingKey
    <3> QED  BY <1>1, <2>2, <3>2, <3>3 DEF ActiveIn, RunsOf
  <2> QED  BY <2>1, <2>2 DEF KnownInv
<1> QED  BY <1>6, <1>7, <1>8 DEF Calm

(* A command sent from an open composer or Retry button.                      *)
LEMMA CalmCommand ==
    ASSUME IInv, NEW req \in RequestType, Asking(req) \/ Retrying(req)
    PROVE  Calm'
<1> USE DEF IInv, CommandInv, ComposerInv
<1>0. /\ tab'.conversation = tab.conversation /\ tab'.run = tab.run
      /\ tab'.failedClosed = FALSE /\ tab'.hidden = FALSE
      /\ tab'.waiting = tab.waiting \cup {req}
  <2>1. CASE Asking(req)
    BY <2>1 DEF Asking, Tab
  <2>2. CASE Retrying(req)
    BY <2>2 DEF Retrying, Tab
  <2> QED  BY <2>1, <2>2
<1>1. /\ wire' \subseteq wire \cup {req} /\ answers' = answers /\ runs' = runs
      /\ doubtful' = doubtful /\ ~tab.retrying /\ tab.submit = None /\ ~tab.failedClosed
      /\ tab.run # None => tab.run.state \in Ended
      /\ \A k : ~PendingKey(k)
  <2>1. ~tab.retrying /\ tab.submit = None => \A k : ~PendingKey(k)
    BY DEF PendingKey
  <2>2. CASE Asking(req)
    BY <2>1, <2>2 DEF Asking, ComposerOpen
  <2>3. CASE Retrying(req)
    BY <2>1, <2>3 DEF Retrying, CanRetry, Ended
  <2> QED  BY <2>2, <2>3
<1>2. \A k : MadeFor(k)' <=> MadeFor(k)
  BY <1>0, <1>1 DEF MadeFor, RunsOf
<1>3. /\ \A k : PendingKey(k)' <=> k = KeyOf(req)
      /\ KeyOf(req) \notin doubtful =>
           /\ \A r \in wire : KeyOf(r) # KeyOf(req)
           /\ \A r \in tab.waiting : KeyOf(r) # KeyOf(req)
           /\ ~MadeFor(KeyOf(req))
  <2>1. CASE Asking(req)
    <3>1. KeyOf(req) = <<"question", asked + 1>>
      BY <2>1 DEF Asking, Request, KeyOf
    <3>2. tab'.submit = Submit(asked + 1, 1, tab.conversation) /\ tab'.retrying = FALSE
      BY <2>1 DEF Asking, Tab
    <3>3. Submit(asked + 1, 1, tab.conversation) # None
      <4>1. tab.conversation \in Positive /\ asked + 1 \in Positive
        BY <2>1 DEF Asking, TypeOK, TabType, Positive
      <4>2. Submit(asked + 1, 1, tab.conversation) \in SubmitType
        BY <4>1 DEF Submit, SubmitType
      <4> QED  BY <4>2, NoneApart
    <3>4. tab'.submit.question = asked + 1
      BY <3>2 DEF Submit
    <3>5. \A k : PendingKey(k)' <=> k = KeyOf(req)
      BY <3>1, <3>2, <3>3, <3>4 DEF PendingKey
    <3>6. ~MadeFor(KeyOf(req))
      BY <3>1, FreshKey DEF MadeFor, RunsOf
    <3> QED  BY <3>1, <3>5, <3>6, FreshKey DEF UnderWay
  <2>2. CASE Retrying(req)
    <3>1. KeyOf(req) = <<"retry", tab.run.id>>
      BY <2>2 DEF Retrying, Request, KeyOf
    <3>2. tab'.submit = None /\ tab'.retrying = TRUE /\ tab.run # None
      BY <2>2 DEF Retrying, Tab, CanRetry
    <3>3. \A k : PendingKey(k)' <=> k = KeyOf(req)
      BY <1>0, <3>1, <3>2 DEF PendingKey
    <3>4. \A r \in tab.waiting : KeyOf(r) # KeyOf(req)
      BY <1>1, <3>1 DEF PendingInv, KeyOf
    <3> QED  BY <1>1, <3>1, <3>2, <3>3, <3>4 DEF Untried
  <2> QED  BY <2>1, <2>2
<1>4. FirstInv'
  <2>0. ASSUME NEW k, First(k)'
        PROVE  k = KeyOf(req) /\ k \notin doubtful /\ ~MadeFor(k)'
    BY <1>1, <1>2, <1>3, <2>0 DEF First
  <2>1. ASSUME NEW r \in wire', First(KeyOf(r))'
        PROVE  r \in tab'.waiting /\ ~MadeFor(KeyOf(r))'
    <3>1. PICK k : k = KeyOf(r)
      OBVIOUS
    <3>2. k = KeyOf(req) /\ k \notin doubtful /\ ~MadeFor(k)'
      BY <2>0, <2>1, <3>1 DEF KeyOf
    <3>3. r = req
      BY <1>1, <1>3, <3>1, <3>2
    <3> QED  BY <1>0, <3>1, <3>2, <3>3 DEF KeyOf
  <2>2. ASSUME NEW a \in answers', First(KeyOf(a.to))'
        PROVE  FALSE
    <3>1. PICK k : k = KeyOf(a.to)
      OBVIOUS
    <3>2. k = KeyOf(req) /\ k \notin doubtful
      BY <2>0, <2>2, <3>1 DEF KeyOf
    <3>3. a.to \in tab.waiting
      BY <1>1 DEF AnswersOK
    <3> QED  BY <1>3, <3>1, <3>2, <3>3
  <2> QED  BY <2>1, <2>2 DEF FirstInv, KeyOf
<1>5. Untried'
  <2>1. CASE Retrying(req)
    <3>1. tab'.retrying
      BY <2>1 DEF Retrying, Tab
    <3> QED  BY <3>1 DEF Untried
  <2>2. CASE Asking(req)
    <3>1. req.kind = "question"
      BY <2>2 DEF Asking, Request
    <3>2. PICK k : k = <<"retry", tab.run.id>>
      OBVIOUS
    <3>3. KeyOf(req) # k
      BY <3>1, <3>2 DEF KeyOf
    <3>4. ASSUME tab.run # None, k \notin doubtful
          PROVE  /\ \A r \in wire' : KeyOf(r) # k
                 /\ ~MadeFor(k)' /\ tab.run.retryAttempts = 0
      BY <1>1, <1>2, <3>2, <3>3, <3>4 DEF Untried
    <3> QED  BY <1>0, <1>1, <3>2, <3>4 DEF Untried, KeyOf
  <2> QED  BY <2>1, <2>2
<1>6. KnownInv'
  <2>1. ASSUME NEW r \in wire', r.conversation = tab'.conversation
        PROVE  (KeyOf(r) \in doubtful \/ PendingKey(KeyOf(r)) \/ MadeFor(KeyOf(r)))'
    <3>1. PICK k : k = KeyOf(r)
      OBVIOUS
    <3>2. k \in doubtful' \/ PendingKey(k)' \/ MadeFor(k)'
      <4>1. CASE r = req
        BY <1>3, <3>1, <4>1
      <4>2. CASE r \in wire
        BY <1>0, <1>1, <1>2, <2>1, <3>1, <4>2 DEF KnownInv
      <4> QED  BY <1>1, <4>1, <4>2
    <3> QED  BY <3>1, <3>2 DEF KeyOf
  <2>2. ASSUME NEW i \in ActiveIn(tab.conversation)'
        PROVE  runs'[i].key \in doubtful'
    <3>1. i \in ActiveIn(tab.conversation)
      BY <1>0, <1>1, <2>2 DEF ActiveIn, RunsOf
    <3>2. "active" \notin Ended
      BY DEF Ended, Recoverable
    <3> QED  BY <1>1, <3>1, <3>2 DEF KnownInv
  <2> QED  BY <2>1, <2>2 DEF KnownInv
<1> QED  BY <1>4, <1>5, <1>6 DEF Calm

(* The pending command comes to its end.                                      *)
LEMMA CalmBegins ==
    ASSUME IInv, NEW req \in tab.waiting, NEW a \in answers, Begins(req, a)
    PROVE  Calm'
<1> USE DEF IInv, CommandInv, ComposerInv
<1> DEFINE n == a.run
<1>0. /\ n \in DOMAIN runs /\ runs[n].key = KeyOf(req)
      /\ runs[n].conversation = tab.conversation
      /\ tab.run # None => tab.run.id < n
  BY BegunRun
<1>1. /\ tab'.submit = None /\ tab'.retrying = FALSE /\ tab'.failedClosed = tab.failedClosed
      /\ tab'.run = Shown(n, QuestionOf(req), runs[n].state, runs[n].state \in Ended, 0, FALSE)
      /\ tab'.conversation = tab.conversation
      /\ tab.run # None => tab.run.state \in Ended
      /\ \A k : PendingKey(k) <=> k = KeyOf(req)
  BY RestedIdle DEF Begins
<1>2. tab'.run.id = n /\ tab'.run.retryAttempts = 0 /\ tab'.run.state = runs[n].state
  BY <1>1 DEF Shown
<1>3. runs' = runs /\ wire' = wire /\ doubtful' = doubtful \ {KeyOf(req)}
  BY <1>0 DEF Begins, Back
<1>n. tab'.run # None
  <2>1. QuestionOf(req) \in Positive /\ runs[n] \in RunType /\ n \in Positive
    BY <1>0, CommandOf, RunTyped DEF UnderWay
  <2>2. tab'.run \in ShownType
    BY <1>1, <2>1 DEF Shown, ShownType, RunType
  <2> QED  BY <2>2, NoneApart
<1> HIDE DEF n
<1>4. \A k : MadeFor(k)' <=> MadeFor(k)
  BY <1>1, <1>3 DEF MadeFor, RunsOf
<1>5. FirstInv'
  <2>1. ASSUME NEW k
        PROVE  ~First(k)'
    BY <1>1 DEF First, PendingKey
  <2>2. ASSUME NEW r
        PROVE  ~First(KeyOf(r))'
    <3>1. PICK k : k = KeyOf(r)
      OBVIOUS
    <3>2. ~First(k)'
      BY <2>1
    <3> QED  BY <3>1, <3>2 DEF KeyOf
  <2> QED  BY <2>2 DEF FirstInv, KeyOf
<1>6. Untried'
  <2>0. PICK k : k = <<"retry", n>>
    OBVIOUS
  <2>1. ASSUME NEW r \in wire
        PROVE  KeyOf(r) # k
    <3>1. ASSUME KeyOf(r) = k
          PROVE  FALSE
      <4>1. r.kind = "retry" /\ r.of = n
        BY <2>0, <3>1 DEF KeyOf
      <4>2. r.conversation = tab.conversation
        BY <1>0, <4>1 DEF RequestsOK, UnderWay
      <4>3. tab.run # None /\ n <= tab.run.id
        BY <4>1, <4>2 DEF OrderInv, UnderWay
      <4>4. n \in Nat /\ tab.run.id \in Nat
        BY <1>0, <4>3, TabFields, RunTyped DEF ShownType, Positive
      <4> QED  BY <1>0, <4>3, <4>4
    <3> QED  BY <3>1
  <2>2. ASSUME NEW i \in DOMAIN runs, runs[i].conversation = tab.conversation
        PROVE  runs[i].key # k
    <3>1. ASSUME runs[i].key = k
          PROVE  FALSE
      <4>1. runs[i].retryOf = n /\ runs[i].retryOf # 0
        BY <2>0, <3>1 DEF RunsOK
      <4>3. tab.run # None /\ n <= tab.run.id
        BY <2>2, <4>1 DEF OrderInv
      <4>4. n \in Nat /\ tab.run.id \in Nat
        BY <1>0, <4>3, TabFields, RunTyped DEF ShownType, Positive
      <4> QED  BY <1>0, <4>3, <4>4
    <3> QED  BY <3>1
  <2>3. ~MadeFor(k)
    BY <2>2 DEF MadeFor, RunsOf
  <2>4. ~MadeFor(k)'
    BY <1>4, <2>3
  <2>5. k = <<"retry", tab'.run.id>>
    BY <1>2, <2>0
  <2> QED  BY <1>2, <1>3, <2>1, <2>4, <2>5 DEF Untried, KeyOf
<1>7. KnownInv'
  <2>1. MadeFor(KeyOf(req))
    BY <1>0 DEF MadeFor, RunsOf
  <2>2. ASSUME ~tab'.failedClosed, NEW r \in wire', r.conversation = tab'.conversation
        PROVE  (KeyOf(r) \in doubtful \/ PendingKey(KeyOf(r)) \/ MadeFor(KeyOf(r)))'
    <3>1. PICK k : k = KeyOf(r)
      OBVIOUS
    <3>2. k \in doubtful \/ PendingKey(k) \/ MadeFor(k)
      BY <1>1, <1>3, <2>2, <3>1 DEF KnownInv
    <3>3. k \in doubtful' \/ MadeFor(k)'
      BY <1>1, <1>3, <1>4, <2>1, <3>2
    <3> QED  BY <3>1, <3>3 DEF KeyOf
  <2>3. ASSUME ~tab'.failedClosed, NEW i \in ActiveIn(tab.conversation)'
        PROVE  \/ runs'[i].key \in doubtful'
               \/ tab'.run # None /\ tab'.run.id = i /\ tab'.run.state = "active"
    <3>1. i \in ActiveIn(tab.conversation) /\ i \in DOMAIN runs /\ runs[i].state = "active"
      BY <1>1, <1>3, <2>3 DEF ActiveIn, RunsOf
    <3>2. runs[i].key \in doubtful \/ runs[i].key = KeyOf(req)
      <4>1. "active" \notin Ended
        BY DEF Ended, Recoverable
      <4> QED  BY <1>1, <2>3, <3>1, <4>1 DEF KnownInv
    <3>3. CASE runs[i].key = KeyOf(req)
      <4>1. i = n
        BY <1>0, <3>1, <3>3, KeyIsOne
      <4> QED  BY <1>2, <1>n, <3>1, <4>1
    <3> QED  BY <1>3, <3>2, <3>3
  <2> QED  BY <2>2, <2>3 DEF KnownInv
<1> QED  BY <1>5, <1>6, <1>7 DEF Calm

(* A first attempt refused has left nothing behind.                           *)
LEMMA NothingLeft ==
    ASSUME IInv, NEW req \in tab.waiting, Pending(req), req.attempt = 1,
           KeyOf(req) \notin doubtful,
           NEW a \in answers, a.to = req, a.kind # "run"
    PROVE  /\ \A r \in wire : KeyOf(r) # KeyOf(req)
           /\ ~MadeFor(KeyOf(req))
           /\ req.kind = "retry" => tab.run.retryAttempts = 0
<1> USE DEF IInv, CommandInv, ComposerInv
<1>1. req.kind \in Kinds
  BY TabFields DEF RequestType
<1>2. PendingKey(KeyOf(req))
  BY <1>1 DEF Pending, PendingKey, KeyOf, Kinds
<1>3. ~tab.hidden
  BY DEF PendingInv
<1>4. CASE req.kind = "question"
  <2>1. tab.submit # None /\ tab.submit.attempts = 1
    BY <1>4 DEF Pending, PendingInv, Asks
  <2>2. First(KeyOf(req))
    BY <1>2, <1>3, <2>1 DEF First
  <2>3. \A r \in wire : KeyOf(r) = KeyOf(req) => r \in tab.waiting
    BY <2>2 DEF FirstInv
  <2>4. \A r \in wire : KeyOf(r) # KeyOf(req)
    BY <2>3 DEF PendingInv, AnswersOK
  <2> QED  BY <1>4, <2>2, <2>4 DEF FirstInv
<1>5. CASE req.kind = "retry"
  <2>1. tab.submit = None /\ tab.run.retryAttempts = 0
    <3>1. tab.retrying /\ tab.run # None /\ tab.run.retryAttempts + 1 = 1
      BY <1>5 DEF Pending, PendingInv
    <3>2. tab.run.retryAttempts \in {0, 1}
      BY <3>1, TabFields DEF ShownType
    <3> QED  BY <3>1, <3>2 DEF PendingInv
  <2>2. First(KeyOf(req))
    BY <1>2, <1>3, <2>1 DEF First
  <2>3. \A r \in wire : KeyOf(r) = KeyOf(req) => r \in tab.waiting
    BY <2>2 DEF FirstInv
  <2>4. \A r \in wire : KeyOf(r) # KeyOf(req)
    BY <2>3 DEF PendingInv, AnswersOK
  <2> QED  BY <2>1, <2>2, <2>4 DEF FirstInv
<1> QED  BY <1>1, <1>4, <1>5 DEF Kinds

LEMMA CalmReopens ==
    ASSUME IInv, NEW req \in tab.waiting, NEW a \in answers, NEW b \in BOOLEAN,
           Reopens(req, a, b)
    PROVE  Calm'
<1> USE DEF IInv, CommandInv, ComposerInv
<1> DEFINE run == IF req.kind = "question" THEN tab.run ELSE Marked(tab.run.retryAttempts, b)
<1>0. /\ req \in RequestType /\ a.to = req /\ a.kind # "run" /\ Pending(req)
      /\ tab' = Rested(req, tab.failedClosed, run)
  BY TabFields DEF Reopens
<1> HIDE DEF run
<1>1. /\ tab'.submit = None /\ tab'.retrying = FALSE /\ tab'.failedClosed = tab.failedClosed
      /\ tab'.run = run /\ tab'.conversation = tab.conversation
      /\ tab.run # None => tab.run.state \in Ended
      /\ \A k : PendingKey(k) <=> k = KeyOf(req)
  BY <1>0, RestedIdle
<1>2. /\ tab'.run # None => /\ tab.run # None /\ tab'.run.id = tab.run.id
                            /\ tab'.run.retryAttempts = tab.run.retryAttempts
  <2>1. CASE req.kind = "question"
    BY <1>1, <2>1 DEF run
  <2>2. CASE req.kind # "question"
    <3>1. tab.run # None /\ run = Marked(tab.run.retryAttempts, b)
      BY <1>0, <2>2 DEF Pending, run
    <3>2. run.id = tab.run.id /\ run.retryAttempts = tab.run.retryAttempts
      BY <3>1 DEF Marked, Shown
    <3> QED  BY <1>1, <3>1, <3>2
  <2> QED  BY <2>1, <2>2
<1>3. /\ runs' = runs /\ wire' = wire
      /\ doubtful' = IF req.attempt = 1 THEN doubtful ELSE doubtful \cup {KeyOf(req)}
  BY DEF Reopens, Back
<1>4. \A k : MadeFor(k)' <=> MadeFor(k)
  BY <1>1, <1>3 DEF MadeFor, RunsOf
<1>5. FirstInv'
  <2>1. ASSUME NEW k
        PROVE  ~First(k)'
    BY <1>1 DEF First, PendingKey
  <2>2. ASSUME NEW r
        PROVE  ~First(KeyOf(r))'
    <3>1. PICK k : k = KeyOf(r)
      OBVIOUS
    <3>2. ~First(k)'
      BY <2>1
    <3> QED  BY <3>1, <3>2 DEF KeyOf
  <2> QED  BY <2>2 DEF FirstInv, KeyOf
<1>d. doubtful \subseteq doubtful'
  BY <1>3
<1>l. KeyOf(req) \notin doubtful' =>
        /\ \A r \in wire : KeyOf(r) # KeyOf(req)
        /\ ~MadeFor(KeyOf(req))
        /\ req.kind = "retry" => tab.run.retryAttempts = 0
  <2>1. KeyOf(req) \notin doubtful' => req.attempt = 1 /\ KeyOf(req) \notin doubtful
    BY <1>3
  <2> QED  BY <1>0, <2>1, NothingLeft
<1>6. Untried'
  <2>0. PICK k : k = <<"retry", tab.run.id>>
    OBVIOUS
  <2>1. ASSUME tab.run # None, ~tab.failedClosed, k \notin doubtful'
        PROVE  /\ \A r \in wire : KeyOf(r) # k
               /\ ~MadeFor(k) /\ tab.run.retryAttempts = 0
    <3>1. CASE req.kind = "question"
      <4>1. ~tab.retrying
        BY <1>0, <3>1 DEF Pending, PendingInv
      <4> QED  BY <1>d, <2>0, <2>1, <4>1 DEF Untried
    <3>2. CASE req.kind = "retry"
      <4>1. k = KeyOf(req)
        BY <1>0, <2>0, <3>2 DEF Pending, KeyOf
      <4> QED  BY <1>l, <2>1, <3>2, <4>1
    <3> QED  BY <1>0, <3>1, <3>2 DEF RequestType, Kinds
  <2>2. ASSUME tab'.run # None, ~tab'.failedClosed, <<"retry", tab'.run.id>> \notin doubtful'
        PROVE  /\ \A r \in wire' : KeyOf(r) # <<"retry", tab'.run.id>>
               /\ ~MadeFor(k)' /\ tab'.run.retryAttempts = 0 /\ <<"retry", tab'.run.id>> = k
    BY <1>1, <1>2, <1>3, <1>4, <2>0, <2>1, <2>2
  <2> QED  BY <2>2 DEF Untried, KeyOf
<1>7. KnownInv'
  <2>2. ASSUME ~tab'.failedClosed, NEW r \in wire', r.conversation = tab'.conversation
        PROVE  (KeyOf(r) \in doubtful \/ PendingKey(KeyOf(r)) \/ MadeFor(KeyOf(r)))'
    <3>1. PICK k : k = KeyOf(r)
      OBVIOUS
    <3>2. k \in doubtful \/ PendingKey(k) \/ MadeFor(k)
      BY <1>1, <1>3, <2>2, <3>1 DEF KnownInv
    <3>3. k \in doubtful' \/ MadeFor(k)'
      BY <1>1, <1>3, <1>4, <1>d, <1>l, <3>1, <3>2
    <3> QED  BY <3>1, <3>3 DEF KeyOf
  <2>3. ASSUME ~tab'.failedClosed, NEW i \in ActiveIn(tab.conversation)'
        PROVE  runs'[i].key \in doubtful'
    <3>1. i \in ActiveIn(tab.conversation) /\ i \in RunsOf(tab.conversation)
      BY <1>1, <1>3, <2>3 DEF ActiveIn, RunsOf
    <3>2. "active" \notin Ended
      BY DEF Ended, Recoverable
    <3>3. runs[i].key \in doubtful \/ runs[i].key = KeyOf(req)
      BY <1>1, <2>3, <3>1, <3>2 DEF KnownInv
    <3>4. MadeFor(runs[i].key)
      BY <3>1 DEF MadeFor
    <3> QED  BY <1>3, <1>d, <1>l, <3>3, <3>4
  <2> QED  BY <2>2, <2>3 DEF KnownInv
<1> QED  BY <1>5, <1>6, <1>7 DEF Calm

(* The pending command is sent again.                                         *)
LEMMA CalmAgain ==
    ASSUME IInv, Stays, runs' = runs, doubtful' = doubtful,
           NEW N, wire' \subseteq wire \cup N,
           \A new \in N : PendingKey(KeyOf(new)),
           \A k : PendingKey(k)' <=> PendingKey(k),
           \A k : ~First(k)',
           tab'.failedClosed = tab.failedClosed,
           tab'.run # None /\ ~tab'.retrying =>
             /\ tab.run # None /\ ~tab.retrying
             /\ tab'.run.retryAttempts = tab.run.retryAttempts
             /\ \A new \in N : new.kind = "question",
           tab'.run # None => tab'.run.id = tab.run.id,
           tab.run # None => tab'.run # None /\ tab'.run.id = tab.run.id
                             /\ tab'.run.state = tab.run.state
    PROVE  Calm'
<1> USE DEF IInv, ComposerInv
<1>1. \A k : MadeFor(k)' <=> MadeFor(k)
  BY DEF MadeFor, RunsOf, Stays
<1>2. FirstInv'
  <2>1. ASSUME NEW r
        PROVE  ~First(KeyOf(r))'
    <3>1. PICK k : k = KeyOf(r)
      OBVIOUS
    <3> QED  BY <3>1 DEF KeyOf
  <2> QED  BY <2>1 DEF FirstInv, KeyOf
<1>3. Untried'
  <2>0. PICK k : k = <<"retry", tab.run.id>>
    OBVIOUS
  <2>1. ASSUME tab'.run # None, ~tab'.retrying, ~tab'.failedClosed,
               <<"retry", tab'.run.id>> \notin doubtful'
        PROVE  /\ \A r \in wire' : KeyOf(r) # <<"retry", tab'.run.id>>
               /\ ~MadeFor(k)' /\ tab'.run.retryAttempts = 0 /\ <<"retry", tab'.run.id>> = k
    <3>1. /\ tab.run # None /\ ~tab.retrying /\ tab'.run.id = tab.run.id
          /\ tab'.run.retryAttempts = tab.run.retryAttempts
          /\ \A new \in N : new.kind = "question"
      BY <2>1
    <3>2. \A new \in N : KeyOf(new) # k
      BY <2>0, <3>1 DEF KeyOf
    <3>3. /\ \A r \in wire : KeyOf(r) # k
          /\ ~MadeFor(k) /\ tab.run.retryAttempts = 0
      BY <2>0, <2>1, <3>1 DEF Untried
    <3> QED  BY <1>1, <2>0, <3>1, <3>2, <3>3
  <2> QED  BY <2>1 DEF Untried, KeyOf
<1>4. KnownInv'
  <2>1. ASSUME ~tab'.failedClosed, NEW r \in wire', r.conversation = tab'.conversation
        PROVE  (KeyOf(r) \in doubtful \/ PendingKey(KeyOf(r)) \/ MadeFor(KeyOf(r)))'
    <3>1. PICK k : k = KeyOf(r)
      OBVIOUS
    <3>2. k \in doubtful \/ PendingKey(k) \/ MadeFor(k)
      BY <2>1, <3>1 DEF KnownInv, Stays
    <3>3. k \in doubtful' \/ PendingKey(k)' \/ MadeFor(k)'
      BY <1>1, <3>2
    <3> QED  BY <3>1, <3>3 DEF KeyOf
  <2>2. ASSUME ~tab'.failedClosed, NEW i \in ActiveIn(tab.conversation)'
        PROVE  (\/ runs[i].key \in doubtful \/ PendingKey(runs[i].key)
                \/ tab.run # None /\ tab.run.id = i /\ tab.run.state = "active")'
    <3>1. PICK k : k = runs[i].key
      OBVIOUS
    <3>2. i \in ActiveIn(tab.conversation)
      BY <2>2 DEF ActiveIn, RunsOf, Stays
    <3>3. \/ k \in doubtful \/ PendingKey(k)
          \/ tab.run # None /\ tab.run.id = i /\ tab.run.state = "active"
      BY <2>2, <3>1, <3>2 DEF KnownInv
    <3>4. \/ k \in doubtful' \/ PendingKey(k)'
          \/ tab'.run # None /\ tab'.run.id = i /\ tab'.run.state = "active"
      BY <3>3
    <3> QED  BY <3>1, <3>4 DEF PendingKey
  <2> QED  BY <2>1, <2>2 DEF KnownInv
<1> QED  BY <1>2, <1>3, <1>4 DEF Calm

LEMMA CalmRepeats ==
    ASSUME IInv, NEW req \in tab.waiting, NEW new \in RequestType, Repeats(req, new)
    PROVE  Calm'
<1> USE DEF IInv, CommandInv, ComposerInv
<1>0. new.kind = req.kind /\ KeyOf(new) = KeyOf(req) /\ req.kind \in Kinds
  BY TabFields DEF Repeats, Request, KeyOf, RequestType
<1>1. /\ tab'.submit = (IF req.kind = "question"
                        THEN Submit(tab.submit.question, 2, tab.submit.conversation)
                        ELSE tab.submit)
      /\ tab'.run = (IF req.kind = "retry"
                     THEN Marked(tab.run.retryAttempts + 1, tab.run.retryBlocked)
                     ELSE tab.run)
      /\ tab'.retrying = tab.retrying /\ tab'.failedClosed = tab.failedClosed
      /\ tab'.conversation = tab.conversation
  BY DEF Repeats, Tab
<1>2. /\ runs' = runs /\ doubtful' = doubtful /\ wire' \subseteq wire \cup {new}
      /\ Pending(req) /\ req.attempt = 1
  BY DEF Repeats, Back
<1>n. PICK N : N = {new} /\ wire' \subseteq wire \cup N /\ Stays
  BY <1>1, <1>2 DEF Stays
<1>3. CASE req.kind = "question"
  <2>1. tab.submit # None /\ ~tab.retrying /\ KeyOf(req) = <<"question", tab.submit.question>>
    BY <1>2, <1>3 DEF Pending, PendingInv, KeyOf
  <2>2. tab'.submit = Submit(tab.submit.question, 2, tab.submit.conversation)
        /\ tab'.run = tab.run
    BY <1>1, <1>3
  <2>3. tab'.submit # None
    <3>1. tab.submit \in SubmitType
      BY <2>1, TabFields
    <3>2. tab'.submit \in SubmitType
      BY <2>2, <3>1 DEF Submit, SubmitType
    <3> QED  BY <3>2, NoneApart
  <2>4. tab'.submit.question = tab.submit.question /\ tab'.submit.attempts = 2
    BY <2>2 DEF Submit
  <2>5. \A k : PendingKey(k)' <=> PendingKey(k)
    BY <1>1, <2>1, <2>2, <2>3, <2>4 DEF PendingKey
  <2>6. \A k : ~First(k)'
    BY <2>3, <2>4 DEF First
  <2>7. PendingKey(KeyOf(new))
    BY <1>0, <2>1 DEF PendingKey
  <2>8. \A r \in N : PendingKey(KeyOf(r)) /\ r.kind = "question"
    BY <1>0, <1>3, <1>n, <2>7
  <2> QED  BY <1>1, <1>2, <1>n, <2>1, <2>2, <2>5, <2>6, <2>8, CalmAgain
<1>4. CASE req.kind = "retry"
  <2>1. tab.submit = None /\ tab.retrying /\ tab.run # None
        /\ KeyOf(req) = <<"retry", tab.run.id>> /\ tab.run.retryAttempts + 1 = 1
    BY <1>2, <1>4 DEF Pending, PendingInv, KeyOf
  <2>2. tab.run \in ShownType /\ tab.run.retryAttempts = 0
    BY <2>1, TabFields DEF ShownType
  <2>3. tab'.submit = None /\ tab'.run = Marked(1, tab.run.retryBlocked)
    BY <1>1, <1>4, <2>1, <2>2
  <2>4. tab'.run.id = tab.run.id /\ tab'.run.retryAttempts = 1 /\ tab'.run.state = tab.run.state
    BY <2>3 DEF Marked, Shown
  <2>5. tab'.run # None
    BY <2>1, <2>2, <2>3, ShownTyped DEF Marked, ShownType
  <2>6. \A k : PendingKey(k)' <=> PendingKey(k)
    BY <1>1, <2>1, <2>3, <2>4 DEF PendingKey
  <2>7. \A k : ~First(k)'
    BY <2>3, <2>4 DEF First
  <2>8. PendingKey(KeyOf(new))
    BY <1>0, <2>1 DEF PendingKey
  <2>9. \A r \in N : PendingKey(KeyOf(r))
    BY <1>n, <2>8
  <2> QED  BY <1>1, <1>2, <1>n, <2>1, <2>4, <2>5, <2>6, <2>7, <2>9, CalmAgain
<1> QED  BY <1>0, <1>3, <1>4 DEF Kinds

(* The conversation is closed.                                                *)
LEMMA CalmClosed ==
    ASSUME IInv, tab'.failedClosed, FirstInv'
    PROVE  Calm'
  BY DEF Calm, Untried, KnownInv

LEMMA NothingFirst ==
    ASSUME tab'.submit = None, ~tab'.retrying
    PROVE  FirstInv'
<1>1. ASSUME NEW k
      PROVE  ~First(k)'
  BY DEF First, PendingKey
<1>2. ASSUME NEW r
      PROVE  ~First(KeyOf(r))'
  <2>1. PICK k : k = KeyOf(r)
    OBVIOUS
  <2>2. ~First(k)'
    BY <1>1
  <2> QED  BY <2>1, <2>2 DEF KeyOf
<1> QED  BY <1>2 DEF FirstInv, KeyOf

LEMMA CalmFails ==
    ASSUME IInv, Fails \/ \E req \in tab.waiting : Closes(req)
    PROVE  Calm'
<1> USE DEF IInv, CommandInv, ComposerInv
<1>1. ASSUME NEW req \in tab.waiting, Closes(req)
      PROVE  Calm'
  <2>1. tab'.submit = None /\ ~tab'.retrying /\ tab'.failedClosed
    BY <1>1, RestedIdle DEF Closes
  <2> QED  BY <2>1, NothingFirst, CalmClosed
<1>2. CASE Fails
  <2>1. /\ tab'.failedClosed /\ tab'.submit = tab.submit /\ tab'.retrying = tab.retrying
        /\ tab'.run = tab.run /\ tab'.waiting = tab.waiting /\ tab'.hidden = tab.hidden
        /\ tab'.conversation = tab.conversation
    BY <1>2 DEF Fails, Tab
  <2>2. UNCHANGED <<wire, answers, runs, doubtful>>
    BY <1>2 DEF Fails
  <2>3. ASSUME NEW k
        PROVE  (First(k)' <=> First(k)) /\ (MadeFor(k)' <=> MadeFor(k))
    BY <2>1, <2>2 DEF First, PendingKey, MadeFor, RunsOf
  <2>4. ASSUME NEW r
        PROVE  (First(KeyOf(r))' <=> First(KeyOf(r))) /\ (MadeFor(KeyOf(r))' <=> MadeFor(KeyOf(r)))
    <3>1. PICK k : k = KeyOf(r)
      OBVIOUS
    <3>2. (First(k)' <=> First(k)) /\ (MadeFor(k)' <=> MadeFor(k))
      BY <2>3
    <3> QED  BY <3>1, <3>2 DEF KeyOf
  <2>5. FirstInv'
    BY <2>1, <2>2, <2>4 DEF FirstInv, KeyOf
  <2> QED  BY <2>1, <2>5, CalmClosed
<1> QED  BY <1>1, <1>2

(* The page goes and comes back, or turns to another conversation.            *)
LEMMA CalmHides ==
    ASSUME IInv, Hides
    PROVE  Calm'
<1> USE DEF IInv, CommandInv, ComposerInv
<1>1. /\ tab'.hidden = TRUE /\ tab'.retrying = FALSE /\ tab'.submit = tab.submit
      /\ tab'.run = tab.run /\ tab'.failedClosed = tab.failedClosed
      /\ tab'.conversation = tab.conversation
  BY DEF Hides, Tab
<1>2. /\ runs' = runs /\ wire' = wire
      /\ doubtful' = IF tab.retrying THEN doubtful \cup {<<"retry", tab.run.id>>} ELSE doubtful
  BY DEF Hides
<1>3. doubtful \subseteq doubtful' /\ (tab.retrying => <<"retry", tab.run.id>> \in doubtful')
  BY <1>2
<1>4. \A k : MadeFor(k)' <=> MadeFor(k)
  BY <1>1, <1>2 DEF MadeFor, RunsOf
<1>5. ASSUME NEW k, PendingKey(k)
      PROVE  k \in doubtful' \/ PendingKey(k)'
  BY <1>1, <1>3, <1>5 DEF PendingKey
<1>6. FirstInv'
  <2>1. ASSUME NEW k
        PROVE  ~First(k)'
    BY <1>1 DEF First
  <2>2. ASSUME NEW r
        PROVE  ~First(KeyOf(r))'
    <3>1. PICK k : k = KeyOf(r)
      OBVIOUS
    <3>2. ~First(k)'
      BY <2>1
    <3> QED  BY <3>1, <3>2 DEF KeyOf
  <2> QED  BY <2>2 DEF FirstInv, KeyOf
<1>7. Untried'
  <2>0. PICK k : k = <<"retry", tab.run.id>>
    OBVIOUS
  <2>1. ASSUME tab.run # None, ~tab.failedClosed, k \notin doubtful'
        PROVE  /\ \A r \in wire : KeyOf(r) # k
               /\ ~MadeFor(k) /\ tab.run.retryAttempts = 0
    BY <1>3, <2>0, <2>1 DEF Untried
  <2> QED  BY <1>1, <1>2, <1>4, <2>0, <2>1 DEF Untried, KeyOf
<1>8. KnownInv'
  <2>1. ASSUME ~tab'.failedClosed, NEW r \in wire', r.conversation = tab'.conversation
        PROVE  (KeyOf(r) \in doubtful \/ PendingKey(KeyOf(r)) \/ MadeFor(KeyOf(r)))'
    <3>1. PICK k : k = KeyOf(r)
      OBVIOUS
    <3>2. k \in doubtful \/ PendingKey(k) \/ MadeFor(k)
      BY <1>1, <1>2, <2>1, <3>1 DEF KnownInv
    <3>3. k \in doubtful' \/ PendingKey(k)' \/ MadeFor(k)'
      BY <1>3, <1>4, <1>5, <3>2
    <3> QED  BY <3>1, <3>3 DEF KeyOf
  <2>2. ASSUME ~tab'.failedClosed, NEW i \in ActiveIn(tab.conversation)'
        PROVE  (\/ runs[i].key \in doubtful \/ PendingKey(runs[i].key)
                \/ tab.run # None /\ tab.run.id = i /\ tab.run.state = "active")'
    <3>1. PICK k : k = runs[i].key
      OBVIOUS
    <3>2. i \in ActiveIn(tab.conversation)
      BY <1>1, <1>2, <2>2 DEF ActiveIn, RunsOf
    <3>3. \/ k \in doubtful \/ PendingKey(k)
          \/ tab.run # None /\ tab.run.id = i /\ tab.run.state = "active"
      BY <1>1, <2>2, <3>1, <3>2 DEF KnownInv
    <3>4. \/ k \in doubtful' \/ PendingKey(k)'
          \/ tab'.run # None /\ tab'.run.id = i /\ tab'.run.state = "active"
      BY <1>1, <1>3, <1>5, <3>3
    <3> QED  BY <1>2, <3>1, <3>4 DEF PendingKey
  <2> QED  BY <2>1, <2>2 DEF KnownInv
<1> QED  BY <1>6, <1>7, <1>8 DEF Calm

LEMMA CalmReturns ==
    ASSUME IInv, Returns
    PROVE  Calm'
<1> USE DEF IInv, CommandInv, ComposerInv
<1>0. ~tab.retrying /\ UNCHANGED <<answers, runs, doubtful>>
  BY DEF Returns, PendingInv
<1>1. tab'.retrying = tab.retrying /\ tab'.run = tab.run /\ tab'.conversation = tab.conversation
  BY DEF Returns, Tab
<1>2. CASE tab'.submit = None /\ tab'.failedClosed
  BY <1>0, <1>1, <1>2, NothingFirst, CalmClosed
<1>3. CASE tab.submit = None /\ tab'.submit = None /\ tab'.failedClosed = tab.failedClosed
           /\ wire' = wire
  <2>1. \A k : ~PendingKey(k)' /\ ~PendingKey(k)
    BY <1>0, <1>1, <1>3 DEF PendingKey
  <2>2. \A k : ~First(k)'
    BY <2>1 DEF First
  <2>3. PICK N : N = {} /\ wire' \subseteq wire \cup N /\ Stays
    BY <1>1, <1>3 DEF Stays
  <2> QED  BY <1>0, <1>1, <1>3, <2>1, <2>2, <2>3, CalmAgain
<1>4. ASSUME NEW req, req = Request("question", tab.submit.question, 2, tab.conversation),
             tab.submit # None, tab'.failedClosed = tab.failedClosed,
             tab'.submit = Submit(tab.submit.question, 2, tab.submit.conversation),
             wire' \subseteq wire \cup {req}
      PROVE  Calm'
  <2>1. KeyOf(req) = <<"question", tab.submit.question>> /\ req.kind = "question"
    BY <1>4 DEF KeyOf, Request
  <2>2. tab'.submit.question = tab.submit.question /\ tab'.submit.attempts = 2
    BY <1>4 DEF Submit
  <2>3. tab'.submit # None
    <3>1. tab.submit \in SubmitType
      BY <1>4, TabFields
    <3>2. tab'.submit \in SubmitType
      BY <1>4, <3>1 DEF Submit, SubmitType
    <3> QED  BY <3>2, NoneApart
  <2>4. \A k : PendingKey(k)' <=> PendingKey(k)
    BY <1>0, <1>1, <1>4, <2>2, <2>3 DEF PendingKey
  <2>5. \A k : ~First(k)'
    BY <2>2, <2>3 DEF First
  <2>6. PICK N : N = {req} /\ wire' \subseteq wire \cup N /\ Stays
    BY <1>1, <1>4 DEF Stays
  <2>7. \A r \in N : PendingKey(KeyOf(r)) /\ r.kind = "question"
    BY <1>4, <2>1, <2>6 DEF PendingKey
  <2> QED  BY <1>0, <1>1, <1>4, <2>4, <2>5, <2>6, <2>7, CalmAgain
<1> QED  BY <1>2, <1>3, <1>4 DEF Returns, Tab

LEMMA CalmAdopts ==
    ASSUME IInv, Adopts
    PROVE  Calm'
<1> USE DEF IInv, CommandInv, ComposerInv
<1> DEFINE c == creation.conversation
           req == Request("question", asked + 1, 1, c)
           key == <<"question", asked + 1>>
<1>0. /\ tab'.conversation = c /\ tab'.retrying = FALSE /\ tab'.run = None
      /\ runs' = runs /\ answers' \subseteq answers
      /\ \A r \in UnderWay : r.conversation # c
      /\ \A i \in DOMAIN runs : runs[i].conversation # c
  BY DEF Adopts, Tab, CreationInv
<1>1. KeyOf(req) = key
  BY DEF KeyOf, Request
<1>2. /\ wire' \subseteq wire \cup {req}
      /\ \/ tab'.submit = None /\ wire' = wire
         \/ tab'.submit = Submit(asked + 1, 1, c) /\ req \in tab'.waiting
  BY DEF Adopts, Tab
<1> HIDE DEF req
<1>3. \A k : ~MadeFor(k)'
  BY <1>0 DEF MadeFor, RunsOf
<1>4. ASSUME NEW k, First(k)'
      PROVE  k = key /\ req \in tab'.waiting
  <2>1. tab'.submit # None /\ k = <<"question", tab'.submit.question>>
    BY <1>0, <1>4 DEF First, PendingKey
  <2> QED  BY <1>2, <2>1 DEF Submit
<1>5. FirstInv'
  <2>1. ASSUME NEW r \in wire', First(KeyOf(r))'
        PROVE  r \in tab'.waiting
    <3>1. PICK k : k = KeyOf(r)
      OBVIOUS
    <3>2. First(k)'
      BY <2>1, <3>1 DEF KeyOf
    <3>3. k = key /\ req \in tab'.waiting
      BY <1>4, <3>2
    <3>4. r \notin wire
      BY <3>1, <3>3, FreshKey DEF UnderWay
    <3> QED  BY <1>2, <3>3, <3>4
  <2>2. ASSUME NEW r
        PROVE  ~MadeFor(KeyOf(r))'
    <3>1. PICK k : k = KeyOf(r)
      OBVIOUS
    <3>2. ~MadeFor(k)'
      BY <1>3
    <3> QED  BY <3>1, <3>2 DEF KeyOf
  <2> QED  BY <2>1, <2>2 DEF FirstInv, KeyOf
<1>6. KnownInv'
  <2>1. ASSUME NEW r \in wire', r.conversation = tab'.conversation
        PROVE  PendingKey(KeyOf(r))'
    <3>1. r = req /\ r \notin wire
      BY <1>0, <1>2, <2>1 DEF UnderWay
    <3>2. tab'.submit = Submit(asked + 1, 1, c)
      BY <1>2, <3>1
    <3>3. tab'.submit # None /\ tab'.submit.question = asked + 1
      <4>1. c \in Positive /\ asked + 1 \in Positive
        BY DEF Adopts, CreationInv, Positive, TypeOK
      <4>2. Submit(asked + 1, 1, c) \in SubmitType /\ Submit(asked + 1, 1, c).question = asked + 1
        BY <4>1 DEF Submit, SubmitType
      <4> QED  BY <3>2, <4>2, NoneApart
    <3> QED  BY <1>1, <3>1, <3>3 DEF PendingKey, KeyOf
  <2>2. ActiveIn(tab.conversation)' = {}
    BY <1>0 DEF ActiveIn, RunsOf
  <2> QED  BY <2>1, <2>2 DEF KnownInv
<1> QED  BY <1>0, <1>5, <1>6 DEF Calm, Untried

-----------------------------------------------------------------------------
LEMMA CalmStep ==
    ASSUME IInv, Shape
    PROVE  Calm'
<1>1. CASE \/ Aside \/ Learns
           \/ \E i \in DOMAIN runs, s \in Ended : Ends(i, s)
           \/ \E req \in wire, a \in AnswerType : Settles(req, a)
           \/ \E req \in tab.waiting : Left(req)
  BY <1>1, CalmServer
<1>2. CASE \E req \in wire, a \in AnswerType : Accepts(req, a)
  BY <1>2, CalmAccept
<1>3. CASE \E req \in RequestType : Asking(req) \/ Retrying(req)
  BY <1>3, CalmCommand
<1>4. CASE Fails \/ \E req \in tab.waiting : Closes(req)
  BY <1>4, CalmFails
<1>5. CASE \E req \in tab.waiting, a \in answers, b \in BOOLEAN :
             Begins(req, a) \/ Reopens(req, a, b)
  BY <1>5, CalmBegins, CalmReopens
<1>6. CASE \E req \in tab.waiting, new \in RequestType : Repeats(req, new)
  BY <1>6, CalmRepeats
<1>7. CASE Adopts \/ Hides \/ Returns
  BY <1>7, CalmAdopts, CalmHides, CalmReturns
<1> QED  BY <1>1, <1>2, <1>3, <1>4, <1>5, <1>6, <1>7 DEF Shape

LEMMA InitInv ==
    ASSUME Init
    PROVE  IInv
<1>1. /\ tab = Tab(0, FALSE, FALSE, None, FALSE, None, {}) /\ cookie = 0
      /\ creation = IdleCreation /\ wire = {} /\ answers = {} /\ made = 0 /\ runs = <<>>
      /\ asked = 0 /\ doubtful = {} /\ stranded = FALSE
  BY DEF Init, Tab
<1>2. /\ tab.conversation = 0 /\ tab.submit = None /\ tab.retrying = FALSE /\ tab.run = None
      /\ tab.waiting = {} /\ tab.hidden = FALSE
  BY <1>1 DEF Tab
<1>3. TypeOK
  <2>1. tab \in TabType
    BY <1>1 DEF Tab, TabType
  <2>2. creation \in CreationType
    BY <1>1 DEF IdleCreation, CreationType
  <2>3. <<>> \in Seq(RunType)
    OBVIOUS
  <2>4. runs \in Seq(RunType)
    BY <1>1, <2>3
  <2>5. cookie \in Nat /\ made \in Nat /\ asked \in Nat /\ stranded \in BOOLEAN
    BY <1>1
  <2>6. /\ wire \in SUBSET RequestType /\ answers \in SUBSET AnswerType
        /\ doubtful \in SUBSET (Kinds \X Positive)
    BY <1>1
  <2> QED  BY <2>1, <2>2, <2>4, <2>5, <2>6 DEF TypeOK
<1>4. DOMAIN runs = {} /\ UnderWay = {} /\ creation.at = "idle"
  <2>1. DOMAIN <<>> = {}
    OBVIOUS
  <2>2. UnderWay = {}
    BY <1>1, <1>2 DEF UnderWay
  <2> QED  BY <1>1, <2>1, <2>2 DEF IdleCreation
<1>5. CommandInv
  <2>1. AnswersOK /\ RequestsOK /\ RunsOK /\ OneRunPerCommand
    BY <1>1, <1>4 DEF AnswersOK, RequestsOK, RunsOK, OneRunPerCommand
  <2>2. SubmitOK /\ ShownRunIsOwn /\ CookieMatchesScreen
    BY <1>2 DEF SubmitOK, ShownRunIsOwn, CookieMatchesScreen
  <2>3. CreationInv
    <3>0. made = 0
      BY <1>1
    <3>1. tab.conversation <= made
      BY <1>2, <3>0
    <3>2. creation.at \notin {"made", "headers"}
      BY <1>4
    <3> QED  BY <1>2, <1>4, <3>1, <3>2 DEF CreationInv
  <2> QED  BY <1>2, <2>1, <2>2, <2>3 DEF CommandInv
<1>6. ComposerInv
  BY <1>1, <1>2, <1>4 DEF ComposerInv, PendingInv, FirstInv, Untried, OrderInv, KnownInv,
     UnderWay, ActiveIn, RunsOf
<1> QED  BY <1>3, <1>5, <1>6 DEF IInv

THEOREM Invariance == Spec => []IInv
<1>1. Init => IInv
  BY InitInv
<1>2. IInv /\ [Next]_vars => IInv'
  <2> SUFFICES ASSUME IInv, [Next]_vars
               PROVE  IInv'
    OBVIOUS
  <2>1. Shape
    BY StepShape
  <2>2. TypeOK' /\ CommandInv' /\ PendingInv' /\ OrderInv' /\ Calm'
    BY <2>1, TypeStep, CommandStep, PendingStep, OrderStep, CalmStep
  <2> QED  BY <2>2 DEF IInv, ComposerInv, Calm
<1> QED  BY <1>1, <1>2, PTL DEF Spec

(* Every request, answer, Run and command has its form.                       *)
THEOREM SubmissionTypeCorrect == Spec => []TypeOK
<1>1. IInv => TypeOK
  BY DEF IInv
<1> QED  BY <1>1, Invariance, PTL

(* A question typed once makes one Run and a Run is retried once, however often
   the network loses, delays or repeats an attempt of theirs (submit.key and
   target.retryKey in app.js, the receipts of main.py).                       *)
THEOREM CommandsRunOnce == Spec => []OneRunPerCommand
<1>1. IInv => OneRunPerCommand
  BY DEF IInv, CommandInv
<1> QED  BY <1>1, Invariance, PTL

(* An open composer knows of all the server may still do in the conversation on
   screen, but for what the tab dropped in doubt; the Run on screen is of that
   conversation and so is the browser's cookie (updateComposer, startRun and
   startConversation in app.js).                                              *)
THEOREM ScreenMatchesServer == Spec => []TabMatchesServer
<1>1. ASSUME IInv
      PROVE  OpenComposerIsIdle
  <2> USE <1>1 DEF IInv, ComposerInv
  <2>1. SUFFICES ASSUME ComposerOpen
                 PROVE  /\ \A i \in ActiveIn(tab.conversation) : runs[i].key \in doubtful
                        /\ \A req \in wire : req.conversation = tab.conversation /\ Unheard(req)
                             => KeyOf(req) \in doubtful
    BY DEF OpenComposerIsIdle
  <2>2. /\ ~tab.failedClosed /\ \A k : ~PendingKey(k)
        /\ tab.run # None => tab.run.state # "active"
    BY <2>1 DEF ComposerOpen, PendingKey, Ended, Recoverable
  <2>3. \A i \in ActiveIn(tab.conversation) : runs[i].key \in doubtful
    BY <2>2 DEF KnownInv
  <2>4. ASSUME NEW req \in wire, req.conversation = tab.conversation, Unheard(req)
        PROVE  KeyOf(req) \in doubtful
    <3>1. ~MadeFor(KeyOf(req))
      BY <2>4 DEF Unheard, Made, MadeFor
    <3> QED  BY <2>2, <2>4, <3>1 DEF KnownInv
  <2> QED  BY <2>3, <2>4
<1>2. IInv => TabMatchesServer
  BY <1>1 DEF IInv, CommandInv, TabMatchesServer
<1> QED  BY <1>2, Invariance, PTL
=============================================================================
