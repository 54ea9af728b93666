----------------------------- MODULE Submission -----------------------------
(* The commands of one browser tab: asking, Retry, stopping and New
   Conversation (web/app.js) with the endpoints that take them (main.py),
   joined by a network that may lose, delay or cut off any request or answer,
   by the browser's one capability cookie, and by a page that is hidden and
   shown.  How the tab follows a Run once it has one is WebClient's subject:
   here LearnEnd and FollowFails are all of it.  How the server makes, ends
   and drains a Run is Generation's.                                         *)
EXTENDS Integers, Sequences, FiniteSets

CONSTANTS None,               \* no pending question, no Run on screen
          MaxConversations,   \* bound: conversations the server makes
          MaxQuestions,       \* bound: questions the user types
          MaxRuns,            \* bound: Runs the server accepts
          MaxTurns,           \* MAX_TURNS_PER_CONVERSATION
          MaxAttempts,        \* MAX_ATTEMPTS_PER_LINEAGE
          MaxWire             \* bound: requests under way; of one more, one is lost

ASSUME BoundsAssumption ==
    {MaxConversations, MaxQuestions, MaxRuns, MaxTurns, MaxAttempts, MaxWire}
        \subseteq Nat \ {0}

VARIABLES
    tab,        \* the module variables of app.js
    cookie,     \* the conversation whose capability the browser holds, 0 for none
    creation,   \* POST /conversations: how far it has come
    wire,       \* commands on their way to the server
    answers,    \* answers the tab still waits for and has not handled
    made,       \* conversations the server has made
    runs,       \* the Runs it has accepted, oldest first
    asked,      \* questions typed so far
    doubtful,   \* ghost: keys of commands dropped with an attempt unresolved
    stranded    \* ghost: a creation broke between its headers and its body

serverVars == <<made, runs>>
netVars == <<wire, answers>>
vars == <<tab, cookie, creation, wire, answers, made, runs, asked, doubtful, stranded>>

Recoverable == {"failed", "cancelled"}       \* timeout goes the way of failed
Ended == Recoverable \cup {"completed"}
ASSUME NoneAssumption ==      \* None is no pending question and no Run on screen
    /\ None \notin [question : Nat, attempts : Nat, conversation : Nat]
    /\ None \notin [id : Nat, question : Nat, state : Ended \cup {"active"},
                    reconciled : BOOLEAN, retryAttempts : Nat, retryBlocked : BOOLEAN]
IdleCreation == [at |-> "idle", implicit |-> FALSE, conversation |-> 0]

-----------------------------------------------------------------------------
(* A command keeps one Idempotency-Key through all its attempts: a question
   mints it when it is typed, a Retry once for the Run it retries.           *)
KeyFault_PerAttempt(req) == <<req.kind, req.of, req.attempt>>
KeyOf(req) == <<req.kind, req.of>>

RunsOf(c) == {i \in DOMAIN runs : runs[i].conversation = c}
Made(req) == {i \in RunsOf(req.conversation) : runs[i].key = KeyOf(req)}
ActiveIn(c) == {i \in RunsOf(c) : runs[i].state = "active"}
StoppedIn(c) == {i \in RunsOf(c) : runs[i].state = "cancelled"}
QuestionOf(req) == IF req.kind = "question" THEN req.of ELSE runs[req.of].question

(* updateComposer's `enabled`, once the policy is shown; app.js' canRetry.   *)
ComposerFault_Retry ==          \* pendingRetry not consulted
    /\ ~tab.hidden /\ creation.at = "idle" /\ ~tab.failedClosed
    /\ tab.submit = None
    /\ tab.run # None => tab.run.state \in Ended /\ tab.run.reconciled
ComposerOpen ==
    /\ ~tab.hidden /\ creation.at = "idle" /\ ~tab.failedClosed
    /\ tab.submit = None /\ ~tab.retrying
    /\ tab.run # None => tab.run.state \in Ended /\ tab.run.reconciled
CanRetry ==
    /\ ~tab.hidden /\ ~tab.failedClosed
    /\ tab.submit = None /\ ~tab.retrying
    /\ tab.run # None /\ tab.run.state \in Recoverable
    /\ tab.run.reconciled /\ ~tab.run.retryBlocked

Init ==
    /\ tab = [conversation |-> 0, failedClosed |-> FALSE, hidden |-> FALSE,
              submit |-> None, retrying |-> FALSE, run |-> None, waiting |-> {}]
    /\ cookie = 0 /\ creation = IdleCreation
    /\ wire = {} /\ answers = {} /\ made = 0 /\ runs = <<>>
    /\ asked = 0 /\ doubtful = {} /\ stranded = FALSE

-----------------------------------------------------------------------------
(* The server: any command on the wire, however late.  Only a request the tab
   still waits for has someone to answer.                                    *)
Answer(req, kind, run) ==
    /\ wire' = wire \ {req}
    /\ answers' = IF req \in tab.waiting
                  THEN answers \cup {[to |-> req, kind |-> kind, run |-> run]} ELSE answers

Refuse(req, kind) == Answer(req, kind, 0) /\ UNCHANGED serverVars

Owned(req) == req.cookie = req.conversation          \* authorize_conversation
Unheard(req) == Owned(req) /\ Made(req) = {}         \* no receipt to replay
Unopposed(req) == Unheard(req) /\ ActiveIn(req.conversation) = {}

(* Turns and lineage, as accept_question and retry_target refuse them.       *)
TurnsUsed(c) == Cardinality({i \in RunsOf(c) : runs[i].retryOf = 0})
Lineage(q) == {i \in DOMAIN runs : runs[i].question = q}
Retryable(i) ==
    /\ runs[i].state \in Recoverable
    /\ \A j \in DOMAIN runs : runs[j].retryOf # i
Allowed(req) ==
    IF req.kind = "question" THEN TurnsUsed(req.conversation) < MaxTurns
    ELSE Retryable(req.of) /\ Cardinality(Lineage(QuestionOf(req))) < MaxAttempts

(* ip_gate refuses before anything is looked at, the ceilings after it all.  *)
Shed(req) == Refuse(req, "shed")
NotFound(req) == ~Owned(req) /\ Refuse(req, "notFound")
Replay(req) ==
    /\ Owned(req)
    /\ \E i \in Made(req) : Answer(req, "run", i)
    /\ UNCHANGED serverVars
(* A live Run, or a stopped one whose generation may still be draining when
   the server's wait for it is over.                                         *)
Conflict(req) ==
    /\ Unheard(req)
    /\ ActiveIn(req.conversation) \cup StoppedIn(req.conversation) # {}
    /\ Refuse(req, "conflict")
Unready(req) == Unopposed(req) /\ Refuse(req, "unready")
TooLarge(req) ==
    /\ Unopposed(req) /\ req.kind = "question"
    /\ Refuse(req, "tooLarge")
(* turn_limit_reached; retry_exhausted, retry_not_allowed and, for a Retry
   only, a Provider that was rebound or a Snapshot that no longer fits.      *)
Final(req) ==
    /\ Unopposed(req)
    /\ ~Allowed(req) \/ req.kind = "retry"
    /\ Refuse(req, "final")
Accept(req) ==
    /\ Unopposed(req) /\ Allowed(req)
    /\ Len(runs) < MaxRuns
    /\ runs' = Append(runs, [conversation |-> req.conversation, key |-> KeyOf(req),
                             question |-> QuestionOf(req), state |-> "active",
                             retryOf |-> IF req.kind = "retry" THEN req.of ELSE 0])
    /\ Answer(req, "run", Len(runs) + 1)
    /\ UNCHANGED made

Deliver(req) ==
    /\ req \in wire
    /\ \/ Shed(req) \/ NotFound(req) \/ Replay(req) \/ Conflict(req) \/ Unready(req)
       \/ TooLarge(req) \/ Final(req) \/ Accept(req)
    /\ UNCHANGED <<tab, cookie, creation, asked, doubtful, stranded>>

EndRun(i, state) ==
    /\ runs[i].state = "active" /\ state \in {"completed", "failed"}
    /\ runs' = [runs EXCEPT ![i].state = state]
    /\ UNCHANGED <<tab, cookie, creation, netVars, made, asked, doubtful, stranded>>

(* A stop the tab asked for reaches the server.                              *)
StopRun(i) ==
    /\ tab.run # None /\ tab.run.id = i /\ tab.run.state = "active" /\ ~tab.hidden
    /\ cookie = runs[i].conversation /\ runs[i].state = "active"
    /\ runs' = [runs EXCEPT ![i].state = "cancelled"]
    /\ UNCHANGED <<tab, cookie, creation, netVars, made, asked, doubtful, stranded>>

-----------------------------------------------------------------------------
(* The tab: one attempt of its pending command, to the conversation it shows,
   with the cookie the browser has at that moment.                           *)
Request(kind, of, attempt, conversation) ==
    [kind |-> kind, of |-> of, attempt |-> attempt,
     conversation |-> conversation, cookie |-> cookie]
(* t is the tab that sends it, its attempt already counted.                  *)
Send(t, req) ==
    /\ tab' = [t EXCEPT !.waiting = @ \cup {req}]
    /\ IF Cardinality(wire) < MaxWire THEN wire' = wire \cup {req}
       ELSE \E lost \in wire \cup {req} : wire' = (wire \cup {req}) \ {lost}

(* submitQuestion with its first postQuestion: c is the conversation it goes
   to, which the first question has only just created.                       *)
PostFirst(t, c) ==
    LET q == asked + 1
    IN  /\ asked' = q
        /\ Send([t EXCEPT !.submit = [question |-> q, attempts |-> 1, conversation |-> c]],
                Request("question", q, 1, c))

SubmitQuestion ==
    /\ ComposerOpen /\ asked < MaxQuestions
    /\ IF tab.conversation # 0
       THEN /\ PostFirst(tab, tab.conversation)
            /\ UNCHANGED creation
       ELSE /\ made < MaxConversations
            /\ creation' = [IdleCreation EXCEPT !.at = "sent", !.implicit = TRUE]
            /\ UNCHANGED <<tab, wire, asked>>
    /\ UNCHANGED <<cookie, answers, serverVars, doubtful, stranded>>

RetryRun ==
    /\ CanRetry
    /\ Send([tab EXCEPT !.retrying = TRUE],
            Request("retry", tab.run.id, tab.run.retryAttempts + 1, tab.conversation))
    /\ UNCHANGED <<cookie, creation, answers, serverVars, asked, doubtful, stranded>>

(* What is still asked of the tab when an answer, or none, comes back: a newer
   conversation makes both handlers return at once.                          *)
Pending(req) ==
    IF req.kind = "question"
    THEN /\ tab.submit # None
         /\ tab.submit.question = req.of /\ tab.submit.conversation = tab.conversation
    ELSE tab.retrying /\ tab.run # None /\ tab.run.id = req.of
Rest(req) == [tab EXCEPT !.waiting = @ \ {req},
                         !.submit = IF req.kind = "question" THEN None ELSE @,
                         !.retrying = IF req.kind = "retry" THEN FALSE ELSE @]
(* An earlier attempt of the same command was given up on.                   *)
Unresolved(req) == req.attempt > 1
Doubt(req) == doubtful' = IF Unresolved(req) THEN doubtful \cup {KeyOf(req)} ELSE doubtful

(* startRun: the projection names a Run of this conversation, live or ended. *)
StartRun(a) ==
    LET i == a.run
        s == runs[i].state
    IN  /\ tab' = [Rest(a.to) EXCEPT !.run =
                     [id |-> i, question |-> QuestionOf(a.to), state |-> s,
                      reconciled |-> s \in Ended, retryAttempts |-> 0, retryBlocked |-> FALSE]]
        /\ doubtful' = doubtful \ {runs[i].key}
(* failClosedSubmit; the closing refusals and the last lost answer of a Retry. *)
Close(req) ==
    /\ tab' = [Rest(req) EXCEPT !.failedClosed = TRUE]
    /\ UNCHANGED doubtful
(* recoverableRejectSubmit; a Retry's status line, its button live or blocked. *)
Reopen(req, blocked) ==
    /\ tab' = IF req.kind = "question" THEN Rest(req)
              ELSE [Rest(req) EXCEPT !.run.retryBlocked = blocked]
    /\ Doubt(req)

(* An attempt that ends without a verdict: sent again once with the same key,
   then given up with the conversation.                                      *)
Ambiguous(req) ==
    IF req.attempt >= 2 THEN Close(req) /\ UNCHANGED wire
    ELSE /\ IF req.kind = "question"
            THEN Send([tab EXCEPT !.waiting = @ \ {req}, !.submit.attempts = 2],
                      Request(req.kind, req.of, 2, tab.conversation))
            ELSE Send([tab EXCEPT !.waiting = @ \ {req}, !.run.retryAttempts = @ + 1],
                      Request(req.kind, req.of, 2, tab.conversation))
         /\ UNCHANGED doubtful

(* The answer, its body read to the end.                                     *)
Handle(a) ==
    LET req == a.to
        question == req.kind = "question"
    IN  CASE a.kind = "run" -> StartRun(a) /\ UNCHANGED wire
          [] a.kind = "notFound" -> Close(req) /\ UNCHANGED wire
          [] a.kind = "shed" \/ a.kind = "tooLarge" -> Reopen(req, FALSE) /\ UNCHANGED wire
          [] a.kind = "final" \/ a.kind = "conflict" ->
                /\ IF question THEN Close(req) ELSE Reopen(req, a.kind = "final")
                /\ UNCHANGED wire
          [] a.kind = "unready" ->
                IF question THEN Ambiguous(req) ELSE Reopen(req, FALSE) /\ UNCHANGED wire

(* Its headers came and its body broke off: a refusal that could only be told
   by its body counts as unknown, a 202 as an answer that cannot be checked.
   A load-shed refusal is a 429 or a 503.                                    *)
HandleBroken(a) ==
    LET req == a.to
    IN  \/ a.kind \notin {"notFound", "unready"} /\ Close(req) /\ UNCHANGED wire
        \/ /\ a.kind \in {"shed", "unready"}
           /\ IF req.kind = "question" THEN Ambiguous(req)
              ELSE Reopen(req, FALSE) /\ UNCHANGED wire

TakeAnswer(a) ==
    /\ a \in answers
    /\ answers' = answers \ {a}
    /\ IF Pending(a.to) THEN Handle(a) \/ HandleBroken(a)
       ELSE /\ tab' = [tab EXCEPT !.waiting = @ \ {a.to}]
            /\ UNCHANGED <<wire, doubtful>>
    /\ UNCHANGED <<cookie, creation, serverVars, asked, stranded>>

(* POST_TIMEOUT_MS, or the connection fails, before an answer's headers.     *)
GiveUp(req) ==
    /\ req \in tab.waiting /\ \A a \in answers : a.to # req
    /\ IF Pending(req) THEN Ambiguous(req)
       ELSE /\ tab' = [tab EXCEPT !.waiting = @ \ {req}]
            /\ UNCHANGED <<wire, doubtful>>
    /\ UNCHANGED <<cookie, creation, answers, serverVars, asked, stranded>>

(* The Run on screen ends there too, or cannot be followed to its end.       *)
LearnEnd ==
    /\ tab.run # None /\ tab.run.state = "active" /\ ~tab.hidden /\ ~tab.failedClosed
    /\ runs[tab.run.id].state \in Ended
    /\ tab' = [tab EXCEPT !.run.state = runs[tab.run.id].state, !.run.reconciled = TRUE]
    /\ UNCHANGED <<cookie, creation, netVars, serverVars, asked, doubtful, stranded>>

FollowFails ==
    /\ tab.run # None /\ tab.run.state = "active" /\ ~tab.hidden /\ ~tab.failedClosed
    /\ tab' = [tab EXCEPT !.failedClosed = TRUE]
    /\ UNCHANGED <<cookie, creation, netVars, serverVars, asked, doubtful, stranded>>

-----------------------------------------------------------------------------
(* New Conversation: the answer's headers move the browser's cookie, its body
   moves the tab.                                                            *)
NewConversation ==
    /\ ~tab.hidden /\ creation.at = "idle" /\ made < MaxConversations
    /\ creation' = [IdleCreation EXCEPT !.at = "sent"]
    /\ UNCHANGED <<tab, cookie, netVars, serverVars, asked, doubtful, stranded>>

CreateConversation ==
    /\ creation.at = "sent" /\ made < MaxConversations
    /\ made' = made + 1
    /\ creation' = [creation EXCEPT !.at = "made", !.conversation = made + 1]
    /\ UNCHANGED <<tab, cookie, netVars, runs, asked, doubtful, stranded>>

SetCookie ==
    /\ creation.at = "made"
    /\ cookie' = creation.conversation
    /\ creation' = [creation EXCEPT !.at = "headers"]
    /\ UNCHANGED <<tab, netVars, serverVars, asked, doubtful, stranded>>

(* The tab that shows the new conversation, empty; a Retry on its way is
   aborted, a question's POST is left to come back to nobody.                *)
Fresh(t) ==
    [t EXCEPT !.conversation = creation.conversation, !.failedClosed = FALSE,
              !.submit = None, !.retrying = FALSE, !.run = None,
              !.waiting = {req \in @ : req.kind = "question"}]

Adopt ==
    /\ creation.at = "headers"
    /\ IF creation.implicit THEN PostFirst(Fresh(tab), creation.conversation)
       ELSE tab' = Fresh(tab) /\ UNCHANGED <<wire, asked>>
    /\ creation' = IdleCreation
    /\ answers' = {a \in answers : a.to.kind = "question"}
    /\ doubtful' = {} /\ stranded' = FALSE
    /\ UNCHANGED <<cookie, serverVars>>

(* Refused, timed out, cut off or unreadable: the tab keeps what it showed.  *)
CreationFails ==
    /\ creation.at # "idle"
    /\ creation' = IdleCreation
    /\ stranded' = (stranded \/ creation.at = "headers")
    /\ UNCHANGED <<tab, cookie, netVars, serverVars, asked, doubtful>>

-----------------------------------------------------------------------------
(* pagehide aborts everything the tab waits for; a pending question stays, a
   pending Retry does not.  pageshow sends the question once more.           *)
Hide ==
    /\ ~tab.hidden
    /\ tab' = [tab EXCEPT !.hidden = TRUE, !.retrying = FALSE, !.waiting = {}]
    /\ answers' = {}
    /\ creation' = IdleCreation
    /\ stranded' = (stranded \/ creation.at = "headers")
    /\ doubtful' = IF tab.retrying THEN doubtful \cup {<<"retry", tab.run.id>>} ELSE doubtful
    /\ UNCHANGED <<cookie, wire, serverVars, asked>>

ShowFault_Forgets ==       \* a question at its second attempt is not closed
    /\ tab.hidden
    /\ tab' = [tab EXCEPT !.hidden = FALSE]
    /\ UNCHANGED <<cookie, creation, netVars, serverVars, asked, doubtful, stranded>>
Show ==
    /\ tab.hidden
    /\ \/ /\ tab.submit = None
          /\ tab' = [tab EXCEPT !.hidden = FALSE]
          /\ UNCHANGED wire
       \/ /\ tab.submit # None /\ tab.submit.attempts < 2
          /\ Send([tab EXCEPT !.hidden = FALSE, !.submit.attempts = 2],
                  Request("question", tab.submit.question, 2, tab.conversation))
       \/ /\ tab.submit # None /\ tab.submit.attempts >= 2
          /\ tab' = [tab EXCEPT !.hidden = FALSE, !.submit = None, !.failedClosed = TRUE]
          /\ UNCHANGED wire
    /\ UNCHANGED <<cookie, creation, answers, serverVars, asked, doubtful, stranded>>

Next ==
    \/ \E req \in wire : Deliver(req)
    \/ \E i \in DOMAIN runs : StopRun(i) \/ \E s \in Ended : EndRun(i, s)
    \/ SubmitQuestion \/ RetryRun \/ LearnEnd \/ FollowFails
    \/ \E a \in answers : TakeAnswer(a)
    \/ \E req \in tab.waiting : GiveUp(req)
    \/ NewConversation \/ CreateConversation \/ SetCookie \/ Adopt \/ CreationFails
    \/ Hide \/ Show

(* The tab's timers and handlers run; a Run ends (Generation's EveryRunEnds)
   and the tab hears of it (WebClient's TabSettles).  Nothing is assumed of
   the network: no request need ever arrive.                                 *)
Fairness ==
    /\ WF_vars(\E a \in answers : TakeAnswer(a))
    /\ WF_vars(\E req \in tab.waiting : GiveUp(req))
    /\ WF_vars(Adopt \/ CreationFails)
    /\ WF_vars(LearnEnd)
    /\ WF_vars(\E i \in DOMAIN runs, s \in Ended : EndRun(i, s))

Spec == Init /\ [][Next]_vars /\ Fairness

-----------------------------------------------------------------------------
(* However often an attempt is lost, late or repeated, a question typed once
   makes one Run and a Run is retried once (submit.key and target.retryKey:
   "must be replayed, not charged a second Attempt", app.js retryRun).       *)
OneRunPerCommand ==
    \A i, j \in DOMAIN runs :
        i # j => /\ runs[i].retryOf # runs[j].retryOf \/ runs[i].retryOf = 0
                 /\ runs[i].question = runs[j].question => {runs[i].retryOf, runs[j].retryOf} # {0}

(* The Run on screen is of the conversation and the question on screen, and
   what is shown of its end is its end.                                      *)
ShownRunIsOwn ==
    tab.run # None =>
        /\ runs[tab.run.id].conversation = tab.conversation
        /\ runs[tab.run.id].question = tab.run.question
        /\ tab.run.state \in Ended => runs[tab.run.id].state = tab.run.state

(* While the tab takes a question, the server works on nothing in this
   conversation that the tab does not know of, and nothing on its way could
   start such work, but for commands it dropped with an attempt unresolved.  *)
OpenComposerIsIdle ==
    ComposerOpen =>
        /\ \A i \in ActiveIn(tab.conversation) : runs[i].key \in doubtful
        /\ \A req \in wire : req.conversation = tab.conversation /\ Unheard(req) /\ Allowed(req)
                                 => KeyOf(req) \in doubtful

(* The capability the browser holds is that of the conversation on screen
   ("existing conversation kept"), unless a creation broke in its body.      *)
CookieMatchesScreen ==
    tab.conversation # 0 /\ creation.at # "headers" /\ ~stranded => cookie = tab.conversation

TabMatchesServer == ShownRunIsOwn /\ OpenComposerIsIdle /\ CookieMatchesScreen

(* A page that stays visible, whose user does not ask for new conversations
   without end, comes back again and again to a composer to type in or to the
   word that the conversation is over, whatever the network does.            *)
TabComesBack ==
    []<>tab.hidden \/ []<><<NewConversation>>_vars \/ []<>(tab.failedClosed \/ ComposerOpen)
=============================================================================
