----------------------------- MODULE CodexTurns -----------------------------
(***************************************************************************)
(* Turns of one Codex thread.  The hub queues what the phone submits       *)
(* (src/hub/sessionHub.ts, codex_turn_submit) and journals it; one drain   *)
(* hands the head of the queue to CodexNativeTurnController.startTurn,     *)
(* which gets a connection to the App Server (threadFor), shared with      *)
(* those who watch the conversation, and either steers the running turn or *)
(* starts a new one.                                                       *)
(*                                                                         *)
(* The hub is one JavaScript thread: a step is one handler, or one stretch *)
(* between two awaits.  pc = "drain" is a call of drainCodexQueue on its   *)
(* way, pc = "flush" the loop over the notifications kept back while the   *)
(* thread was opened; nothing of the hub comes in between but a crash.     *)
(*                                                                         *)
(* The App Server is another process.  What the model takes from the code  *)
(* about it: a connection keeps its order, a turn/start names its turn, a  *)
(* turn/steer says which turn it expects and is refused otherwise, and     *)
(* other clients start turns of the same thread.  Goals, sub-agents,       *)
(* questions and approvals travel on the same connection and are left out. *)
(***************************************************************************)
EXTENDS OrderedIds

CONSTANTS
    Msgs,              \* clientUserMessageId
    Conns,             \* connections that can exist at the same time
    NoMsg, NoConn,     \* stand for null
    MaxTurns,          \* turns the App Server ever starts
    MaxRetires,        \* times the session is retired and launched anew
    MaxEntries,        \* times a submit of one message makes an entry
    MaxWatches,        \* times somebody opens the conversation
    MaxRetries,        \* explicit retries of one message
    MaxChunk,          \* messages that come in one piece with a reply
    MaxFaults,         \* timeouts, broken connections and notifications lost
    MaxCrashes,        \* crashes of the hub
    MaxWriteFailures   \* failed writes of the journal

ASSUME NullAssumption == NoMsg \notin Msgs /\ NoConn \notin Conns
ASSUME BoundAssumption ==
    /\ MaxTurns \in Nat /\ MaxRetires \in Nat /\ MaxEntries \in Nat
    /\ MaxWatches \in Nat /\ MaxRetries \in Nat /\ MaxChunk \in Nat /\ MaxFaults \in Nat
    /\ MaxCrashes \in Nat /\ MaxWriteFailures \in Nat

Turns == 1..MaxTurns
NoTurn == 0
Gens == 1..(MaxRetires + 1)

VARIABLES
    \* the hub process
    hub,          \* "up", "draining" (told to stop), "down"
    pc,           \* "idle", "drain", "flush"
    \* the actor of the session, the gen-th of this name
    gen,
    queue,        \* codexQueue
    order,        \* codexOrder
    uncertain,    \* uncertainCodexMessages
    delivered,    \* deliveredCodexMessageIds
    deleted,      \* deletedCodexMessageIds
    blocked,      \* codexDrainBlocked
    watched,      \* it has subscribers
    sub,          \* "none", "waiting", "live", "fallback": source of the chat text
    processing,   \* activeCodexTurns has the session
    \* startTurn on behalf of each actor
    call,
    \* the controller's connection: open, opening, closeRequestedWhileOpening
    open,         \* the OpenThread, NoOpen when there is none
    opening,      \* the openThreadFor under way
    subWaits,     \* watches whose subscribeSession is in threadFor
    closeAsked,
    \* the journal
    journal, dirty,
    \* the App Server and the sockets
    conns,        \* "none", "up", "closing"
    subscribed,   \* connections the App Server sends the thread's notifications
    inbox,        \* what it sent on each
    wire,         \* requests it has not handled yet
    running,      \* the turn in progress
    turns,        \* turns started so far
    ran,          \* messages it took, in order
    \* bookkeeping of the properties and bounds
    told,         \* what the phone was last told of a message
    entered,      \* times a message became a queue entry
    retried,      \* explicit retries accepted
    reopened,     \* a subscription of nobody any more has opened the thread
    overtaken,    \* a reply was about to name a turn when a later one had started
    watches, faults, crashes, writeFailures

actorVars == <<gen, queue, order, uncertain, delivered, deleted, blocked>>
diskVars  == <<journal, dirty, writeFailures>>
viewVars  == <<watched, sub, watches>>
linkVars  == <<open, opening, subWaits, closeAsked>>
netVars   == <<conns, subscribed, inbox, wire>>
srvVars   == <<running, turns, ran>>
countVars == <<entered, retried, reopened, overtaken>>
vars == <<hub, pc, actorVars, viewVars, processing, call, linkVars, diskVars,
          netVars, srvVars, told, countVars, faults, crashes>>
-----------------------------------------------------------------------------
NoCall == [step |-> "idle", msg |-> NoMsg, try |-> 0, turn |-> NoTurn,
           conn |-> NoConn, answer |-> "none", found |-> NoTurn, chunk |-> 0]
NoOpen == [conn |-> NoConn, active |-> NoTurn, live |-> FALSE]
NotOpening == [stage |-> "no", conn |-> NoConn, active |-> NoTurn,
               live |-> FALSE, again |-> FALSE, by |-> 0]

\* startingCodexMessageIds and pendingCodexTurns of the present actor.
Starting == IF call[gen].step = "idle" THEN {} ELSE {call[gen].msg}
Pending == Elements(queue) \cup Starting

Kinds == {"read", "steer", "resteer", "start"}
Awaits(g) == call[g].step \in Kinds
Waits(g) == call[g].step = "open"

(***************************************************************************)
(* The hub takes its next event when the stretches that are due have run:  *)
(* whoever waits for a thread wakes when it is open, and a reply resumes   *)
(* the call it belongs to.                                                 *)
(***************************************************************************)
Woken == opening.stage = "no" /\ (subWaits # {} \/ \E g \in Gens : Waits(g))
Answered == \E g \in Gens : call[g].answer # "none"
Event == hub # "down" /\ pc = "idle" /\ ~Woken /\ ~Answered
-----------------------------------------------------------------------------
\* The journal: persistChatReceipts writes one file, whole or not at all.

Saved == [gen |-> gen, queued |-> queue, starting |-> Starting \cup uncertain,
          order |-> order, delivered |-> delivered, deleted |-> deleted]

Written ==
    /\ journal' = Saved'
    /\ dirty' = FALSE
    /\ UNCHANGED writeFailures

WriteFails ==
    /\ writeFailures < MaxWriteFailures
    /\ writeFailures' = writeFailures + 1
    /\ dirty' = TRUE
    /\ UNCHANGED journal

WrittenOrNot == Written \/ WriteFails

Tell(ms, what) == told' = [m \in Msgs |-> IF m \in ms THEN what ELSE told[m]]
-----------------------------------------------------------------------------
\* Requests of the phone.

\* codex_turn_submit of a message that needs no entry of its own.
SubmitKnown(m) ==
    /\ Event
    /\ \/ m \in deleted /\ Tell({m}, "deleted")
       \/ m \in delivered \ deleted /\ Tell({m}, "duplicate")
       \/ m \in uncertain \ (deleted \cup delivered) /\ Tell({m}, "uncertain")
    /\ UNCHANGED <<hub, pc, actorVars, viewVars, processing, call, linkVars,
                   diskVars, netVars, srvVars, countVars, faults, crashes>>

\* ... of a message already on its way: one more waiter, and another try.
SubmitPending(m) ==
    /\ Event
    /\ m \in Pending \ (deleted \cup delivered \cup uncertain)
    /\ Tell({m}, "waiting")
    /\ blocked' = FALSE
    /\ pc' = "drain"
    /\ UNCHANGED <<hub, gen, queue, order, uncertain, delivered, deleted,
                   viewVars, processing, call, linkVars, diskVars, netVars,
                   srvVars, countVars, faults, crashes>>

\* ... of a new one.  An entry that cannot be saved is taken back.
SubmitNew(m) ==
    /\ Event
    /\ m \notin Pending \cup deleted \cup delivered \cup uncertain
    /\ \/ /\ entered[m] - retried[m] < MaxEntries
          /\ entered' = [entered EXCEPT ![m] = @ + 1]
          /\ queue' = Append(queue, m)
          /\ order' = Append(order, m)
          /\ blocked' = FALSE
          /\ pc' = "drain"
          /\ Tell({m}, "waiting")
          /\ UNCHANGED <<gen, call, uncertain, delivered, deleted>>
          /\ Written
       \/ /\ WriteFails
          /\ Tell({m}, "failed")
          /\ UNCHANGED <<pc, actorVars, call, entered>>
    /\ UNCHANGED <<hub, viewVars, processing, linkVars, netVars, srvVars,
                   retried, reopened, overtaken, faults, crashes>>

\* ... with explicitRetry.  Only the head of the order may go again.
Retry(m) ==
    /\ Event
    /\ m \in uncertain \ (deleted \cup delivered)
    /\ order # <<>> /\ Head(order) = m
    /\ retried[m] < MaxRetries
    /\ \/ /\ uncertain' = uncertain \ {m}
          /\ queue' = <<m>> \o queue
          /\ entered' = [entered EXCEPT ![m] = @ + 1]
          /\ retried' = [retried EXCEPT ![m] = @ + 1]
          /\ blocked' = FALSE
          /\ pc' = "drain"
          /\ Tell({m}, "waiting")
          /\ UNCHANGED <<gen, call, order, delivered, deleted, reopened, overtaken>>
          /\ Written
       \/ /\ WriteFails
          /\ Tell({m}, "failed")
          /\ UNCHANGED <<pc, actorVars, call, countVars>>
    /\ UNCHANGED <<hub, viewVars, processing, linkVars, netVars, srvVars,
                   faults, crashes>>

Deletable(m) == m \notin Starting \cup uncertain \cup delivered \cup deleted

\* deletePendingCodexTurn.  A message unknown so far leaves a tombstone too:
\* its submit may still be on the way.
Delete(m) ==
    /\ Event
    /\ Deletable(m)
    /\ \/ /\ queue' = Without(queue, m)
          /\ order' = Without(order, m)
          /\ deleted' = deleted \cup {m}
          /\ Tell({m}, "deleted")
          /\ IF m \in Pending
             THEN blocked' = FALSE /\ pc' = "drain"
             ELSE UNCHANGED <<blocked, pc>>
          /\ UNCHANGED <<gen, call, uncertain, delivered>>
          /\ Written
       \/ /\ WriteFails
          /\ UNCHANGED <<pc, actorVars, call, told>>
    /\ UNCHANGED <<hub, viewVars, processing, linkVars, netVars, srvVars,
                   countVars, faults, crashes>>

\* tick: what could not be saved is saved, and a drain that stopped goes on.
Tick ==
    /\ Event /\ hub = "up" /\ dirty
    /\ blocked' = FALSE
    /\ pc' = IF blocked THEN "drain" ELSE pc
    /\ UNCHANGED <<gen, queue, order, uncertain, delivered, deleted, call>>
    /\ Written
    /\ UNCHANGED <<hub, viewVars, processing, linkVars, netVars, srvVars,
                   told, countVars, faults, crashes>>
\* A handler of chat messages, or of another session, saves the same file.
OtherSaves ==
    /\ Event /\ dirty
    /\ UNCHANGED <<hub, pc, actorVars, viewVars, processing, call, linkVars,
                   netVars, srvVars, told, countVars, faults, crashes>>
    /\ Written
-----------------------------------------------------------------------------
\* drainCodexQueue: one turn of its loop.

\* Mutant: what is queued goes, whatever is before it.
DrainReadyAnyOrder ==
    hub = "up" /\ call[gen].step = "idle" /\ ~blocked /\ queue # <<>>

DrainReady ==
    /\ hub = "up"
    /\ call[gen].step = "idle"
    /\ ~blocked
    /\ queue # <<>>
    /\ Head(order) = Head(queue)

\* The call of startTurn, which waits for a thread first.
CallFor(m) == [NoCall EXCEPT !.step = "open", !.msg = m, !.try = retried[m]]

Drain ==
    /\ pc = "drain"
    /\ pc' = "idle"
    /\ \/ /\ DrainReady
          /\ queue' = Tail(queue)
          /\ call' = [call EXCEPT ![gen] = CallFor(Head(queue))]
          /\ UNCHANGED <<gen, order, uncertain, delivered, deleted, blocked, told>>
          /\ Written
       \/ /\ DrainReady
          /\ WriteFails
          /\ blocked' = TRUE
          /\ Tell({Head(queue)}, "failed")
          /\ UNCHANGED <<gen, queue, order, uncertain, delivered, deleted, call>>
       \/ /\ ~DrainReady
          /\ UNCHANGED <<actorVars, call, diskVars, told>>
    /\ UNCHANGED <<hub, viewVars, processing, linkVars, netVars, srvVars,
                   countVars, faults, crashes>>
-----------------------------------------------------------------------------
\* The connection: threadFor, openThreadFor and closeSession.

\* Mutant: the socket stays open.
CloseKeepsSocket(o, cs) ==
    /\ open' = NoOpen
    /\ conns' = cs
    /\ closeAsked' = (closeAsked \/ (o = NoOpen /\ opening.stage # "no"))

\* closeSession: o is the thread open before it, cs the sockets.  A thread that
\* is being opened is closed when it is open.  (The code may keep the wish after
\* that; the next opening forgets it before it starts.)
Close(o, cs) ==
    /\ open' = NoOpen
    /\ conns' = IF o = NoOpen THEN cs ELSE [cs EXCEPT ![o.conn] = "closing"]
    /\ closeAsked' = (closeAsked \/ (o = NoOpen /\ opening.stage # "no"))

\* onProcessing "done": the turn is over, and maybeCloseIdleCodexSession closes
\* the thread when nobody watches.
Settle(o, cs) ==
    /\ processing' = FALSE
    /\ IF watched
       THEN open' = o /\ conns' = cs /\ UNCHANGED closeAsked
       ELSE Close(o, cs)

\* The opening that begins with connection c, again or for the first time.
Connecting(c, again, by) ==
    [NotOpening EXCEPT !.stage = "connect", !.conn = c, !.again = again, !.by = by]

\* threadFor finds the thread neither open nor being opened.
StartOpen(by) ==
    \E c \in Conns :
        /\ conns[c] = "none"
        /\ conns' = [conns EXCEPT ![c] = "up"]
        /\ opening' = Connecting(c, FALSE, by)
        /\ closeAsked' = FALSE

\* subscribeSession answers the w-th watch.  Unless that one is over, the hub
\* takes the chat text from the connection, or stays with the transcript when
\* that was settled before.
SubDone(w, live) ==
    /\ subWaits' = subWaits \ {w}
    /\ sub' = IF w = watches /\ sub = "waiting"
              THEN IF live THEN "live" ELSE "fallback" ELSE sub

\* A subscriber wakes in threadFor: it joins the open thread or opens it.  The
\* one who opened it gets it even if it is closed again.
SubWakes(w) ==
    /\ pc = "idle" /\ opening.stage = "no" /\ w \in subWaits
    /\ IF open # NoOpen
       THEN /\ SubDone(w, open.live)
            /\ UNCHANGED <<opening, closeAsked, conns, reopened>>
       ELSE /\ StartOpen(w)
            /\ reopened' = (reopened \/ ~watched)
            /\ UNCHANGED <<sub, subWaits>>
    /\ UNCHANGED <<hub, pc, actorVars, watched, watches, processing, call, open,
                   diskVars, subscribed, inbox, wire, srvVars, told, entered,
                   retried, overtaken, faults, crashes>>

OpenerDone ==
    IF opening.by \in subWaits THEN SubDone(opening.by, opening.live)
                               ELSE UNCHANGED <<subWaits, sub>>

OpeningAt(stage) == [opening EXCEPT !.stage = stage]

\* The turn in progress is known, and on a first connection what follows.
OpeningKnows(turn) ==
    [opening EXCEPT !.stage = "read", !.active = turn, !.live = ~opening.again]

\* openThreadAttempt, connection by connection: initialize and thread/resume.
\* A thread without a turn cannot be resumed yet and is not subscribed to.
Resume ==
    /\ opening.stage = "connect"
    /\ \/ /\ opening' = OpeningAt("resumed")
          /\ subscribed' = subscribed \cup {opening.conn}
       \/ /\ turns = 0
          /\ opening' = OpeningAt("read")
          /\ UNCHANGED subscribed
    /\ UNCHANGED <<hub, pc, actorVars, viewVars, processing, call, open,
                   subWaits, closeAsked, diskVars, conns, inbox, wire, srvVars,
                   told, countVars, faults, crashes>>

\* readThreadHistorySnapshot, or after a timeout the turn in progress alone.  A
\* thread without a turn may have none of them yet.
ReadHistory ==
    /\ opening.stage = "resumed"
    /\ \/ opening' = OpeningKnows(running)
       \/ turns = 0 /\ opening' = OpeningAt("read")
    /\ UNCHANGED <<hub, pc, actorVars, viewVars, processing, call, open,
                   subWaits, closeAsked, diskVars, netVars, srvVars,
                   told, countVars, faults, crashes>>

\* The history takes too long: one more connection, which will not be live.
HistoryTimesOut ==
    /\ hub # "down"
    /\ opening.stage = "resumed" /\ ~opening.again
    /\ faults < MaxFaults
    /\ \E c \in Conns :
        /\ conns[c] = "none"
        /\ conns' = [conns EXCEPT ![c] = "up", ![opening.conn] = "closing"]
        /\ opening' = Connecting(c, TRUE, opening.by)
    /\ faults' = faults + 1
    /\ UNCHANGED <<hub, pc, actorVars, viewVars, processing, call, open,
                   subWaits, closeAsked, diskVars, subscribed, inbox, wire,
                   srvVars, told, countVars, crashes>>

\* openThread has answered: the thread is entered in the map, and closed again
\* if that was asked for in the meantime.
OpenSet ==
    /\ Event
    /\ opening.stage = "read"
    /\ LET o == [conn |-> opening.conn, active |-> opening.active,
                 live |-> opening.live]
       IN  IF closeAsked
           THEN /\ open' = NoOpen
                /\ conns' = [conns EXCEPT ![o.conn] = "closing"]
                /\ processing' = FALSE
                /\ opening' = NotOpening
                /\ closeAsked' = FALSE
                /\ OpenerDone
           ELSE /\ open' = o
                /\ processing' = (processing \/ o.active # NoTurn)
                /\ opening' = OpeningAt("set")
                /\ UNCHANGED <<conns, closeAsked, subWaits, sub>>
    /\ UNCHANGED <<hub, pc, actorVars, watched, watches, call, diskVars, subscribed,
                   inbox, wire, srvVars, told, countVars, faults, crashes>>

\* Mutant: what was kept back is thrown away.
FlushDropsAll ==
    /\ Event
    /\ opening.stage = "set"
    /\ inbox' = [inbox EXCEPT ![opening.conn] = <<>>]
    /\ opening' = NotOpening
    /\ OpenerDone
    /\ UNCHANGED <<hub, pc, actorVars, watched, watches, processing, call, open,
                   closeAsked, diskVars, conns, subscribed, wire, srvVars, told,
                   countVars, faults, crashes>>

\* The goal and the sub-agents are read (loadGoal, readThreadStatus): what was
\* kept back is handled now, before anybody gets the thread.
Flush ==
    /\ Event
    /\ opening.stage = "set"
    /\ IF open.conn = opening.conn
       THEN pc' = "flush" /\ UNCHANGED <<opening, subWaits, sub>>
       ELSE /\ opening' = NotOpening
            /\ OpenerDone
            /\ UNCHANGED pc
    /\ UNCHANGED <<hub, actorVars, watched, watches, processing, call, open,
                   closeAsked, diskVars, netVars, srvVars, told, countVars,
                   faults, crashes>>

Opened ==
    /\ pc = "flush"
    /\ pc' = "idle"
    /\ opening' = NotOpening
    /\ OpenerDone
    /\ UNCHANGED <<hub, actorVars, watched, watches, processing, call, open,
                   closeAsked, diskVars, netVars, srvVars, told, countVars,
                   faults, crashes>>
-----------------------------------------------------------------------------
\* startTurn on behalf of the drain of actor g.

Asking(k, kind, turn, c) ==
    [NoCall EXCEPT !.step = kind, !.msg = k.msg, !.try = k.try, !.turn = turn, !.conn = c]

Request(g, kind, turn, c) ==
    [gen |-> g, msg |-> call[g].msg, try |-> call[g].try, kind |-> kind,
     turn |-> turn, conn |-> c]

\* The call of g goes on with a request on connection c; active is the turn the
\* thread is taken to run.
Send(g, kind, turn, c) ==
    /\ call' = [call EXCEPT ![g] = Asking(@, kind, turn, c)]
    /\ wire' = IF conns[c] = "up" THEN wire \cup {Request(g, kind, turn, c)} ELSE wire

\* Input goes to the running turn, and to a new one when none is known to run.
Deliver(g, active, c) ==
    IF active # NoTurn THEN Send(g, "steer", active, c) ELSE Send(g, "start", NoTurn, c)

\* The drain wakes in threadFor.  A thread without live notifications may run a
\* turn nobody told of: it is asked first.
CallWakes(g) ==
    /\ pc = "idle" /\ opening.stage = "no" /\ Waits(g)
    /\ IF open # NoOpen
       THEN /\ processing' = TRUE
            /\ IF open.active = NoTurn /\ ~open.live
               THEN Send(g, "read", NoTurn, open.conn)
               ELSE Deliver(g, open.active, open.conn)
            /\ UNCHANGED <<opening, closeAsked, conns>>
       ELSE /\ StartOpen(0)
            /\ UNCHANGED <<processing, call, wire>>
    /\ UNCHANGED <<hub, pc, actorVars, viewVars, open, subWaits, diskVars,
                   subscribed, inbox, srvVars, told, countVars, faults, crashes>>

OpenWith(turn) == [open EXCEPT !.active = turn]

\* opened.activeTurnId = turn, of a thread that may have been closed since.
SetActive(g, turn) ==
    open' = IF open.conn = call[g].conn /\ open # NoOpen
            THEN OpenWith(turn) ELSE open

\* The calls of F are over without success.  The one of the present actor
\* leaves its message uncertain; an older actor does not care any more.
Fail(F) ==
    /\ call' = [g \in Gens |-> IF g \in F THEN NoCall ELSE call[g]]
    /\ IF gen \in F
       THEN /\ uncertain' = uncertain \cup {call[gen].msg}
            /\ Tell({call[gen].msg}, "uncertain")
            /\ pc' = "drain"
            /\ UNCHANGED <<gen, queue, order, delivered, deleted, blocked>>
            /\ WrittenOrNot
       ELSE UNCHANGED <<actorVars, told, pc, diskVars>>

\* startCodexTurn after success.
Succeed(g) ==
    /\ call' = [call EXCEPT ![g] = NoCall]
    /\ IF g = gen
       THEN /\ order' = Without(order, call[g].msg)
            /\ delivered' = delivered \cup {call[g].msg}
            /\ Tell({call[g].msg}, "started")
            /\ pc' = "drain"
            /\ UNCHANGED <<gen, queue, uncertain, deleted, blocked>>
            /\ WrittenOrNot
       ELSE UNCHANGED <<actorVars, told, pc, diskVars>>

\* readActiveTurnId has answered; of a thread without a turn it cannot tell.
ReadAnswered(g) ==
    /\ pc = "idle" /\ call[g].step = "read"
    /\ \/ /\ call[g].answer = "ok"
          /\ SetActive(g, call[g].found)
          /\ Deliver(g, call[g].found, call[g].conn)
       \/ /\ call[g].answer = "unknown"
          /\ UNCHANGED open
          /\ Deliver(g, IF open.conn = call[g].conn THEN open.active ELSE NoTurn,
                     call[g].conn)
    /\ UNCHANGED <<hub, pc, actorVars, viewVars, processing, opening, subWaits,
                   closeAsked, diskVars, conns, subscribed, inbox, srvVars,
                   told, countVars, faults, crashes>>

\* Mutant: a refused steer counts as done.
AcceptedWhenRefused(g) ==
    /\ pc = "idle" /\ call[g].answer \in {"ok", "refused"}
    /\ \/ call[g].step \in {"steer", "resteer"} /\ UNCHANGED open
       \/ call[g].step = "start" /\ SetActive(g, call[g].found)
    /\ Succeed(g)
    /\ UNCHANGED <<hub, viewVars, processing, opening, subWaits, closeAsked,
                   netVars, srvVars, countVars, faults, crashes>>

Accepted(g) ==
    /\ pc = "idle" /\ call[g].answer = "ok"
    /\ \/ call[g].step \in {"steer", "resteer"} /\ UNCHANGED open
       \/ call[g].step = "start" /\ SetActive(g, call[g].found)
    /\ Succeed(g)
    /\ UNCHANGED <<hub, viewVars, processing, opening, subWaits, closeAsked,
                   netVars, srvVars, countVars, faults, crashes>>

\* The turn to steer is over.  When the refusal names another one, that one is
\* steered, once; when there is none, a new turn is started.
SteerRefused(g) ==
    /\ pc = "idle" /\ call[g].step = "steer" /\ call[g].answer = "refused"
    /\ IF call[g].found # NoTurn
       THEN SetActive(g, call[g].found) /\ Send(g, "resteer", call[g].found, call[g].conn)
       ELSE UNCHANGED open /\ Send(g, "start", NoTurn, call[g].conn)
    /\ UNCHANGED <<hub, pc, actorVars, viewVars, processing, opening, subWaits,
                   closeAsked, diskVars, conns, subscribed, inbox, srvVars,
                   told, countVars, faults, crashes>>

Refused(g) ==
    /\ pc = "idle" /\ call[g].step \in {"resteer", "start"}
    /\ call[g].answer = "refused"
    /\ Fail({g})
    /\ Settle(open, conns)
    /\ UNCHANGED <<hub, viewVars, opening, subWaits, subscribed, inbox, wire,
                   srvVars, countVars, faults, crashes>>

\* No answer in time.  The request may still be on its way.
RequestTimesOut(g) ==
    /\ hub # "down" /\ pc = "idle" /\ ~Woken
    /\ Awaits(g) /\ call[g].answer = "none"
    /\ faults < MaxFaults
    /\ faults' = faults + 1
    /\ Fail({g})
    /\ Settle(open, conns)
    /\ UNCHANGED <<hub, viewVars, opening, subWaits, subscribed, inbox, wire,
                   srvVars, countVars, crashes>>
-----------------------------------------------------------------------------
\* What comes in on a connection, in order.

\* A reply resumes the call that waits for it, and nobody else.
IsFor(g, r) ==
    /\ Awaits(g) /\ call[g].answer = "none"
    /\ r.gen = g /\ r.msg = call[g].msg /\ r.try = call[g].try
    /\ r.kind = call[g].step /\ r.turn = call[g].turn /\ r.conn = call[g].conn

Receivable(c) ==
    /\ conns[c] # "none" /\ inbox[c] # <<>>
    /\ \/ pc = "flush" /\ c = opening.conn
       \/ pc = "idle" /\ ~Woken /\ hub # "down" /\ c # opening.conn
    \* what came with a reply is handled before the call goes on with it
    /\ \A g \in Gens : call[g].answer # "none" => call[g].conn = c /\ call[g].chunk > 0

\* A call after one more message of the chunk.
Chunked(k) == IF k.answer = "none" THEN k ELSE [k EXCEPT !.chunk = @ - 1]

\* A call with its reply, with which n more messages came.
Resumed(k, m, n) == [k EXCEPT !.answer = m.answer, !.found = m.turn, !.chunk = n]

ReceiveReply(c) ==
    /\ Receivable(c) /\ Head(inbox[c]).what = "reply"
    /\ LET m == Head(inbox[c])
       IN  \E n \in 0..MaxChunk :
             /\ n < Len(inbox[c])
             /\ call' = [g \in Gens |->
                          IF IsFor(g, m.to) THEN Resumed(call[g], m, n)
                                            ELSE Chunked(call[g])]
    /\ inbox' = [inbox EXCEPT ![c] = Tail(@)]
    /\ UNCHANGED <<hub, pc, actorVars, viewVars, processing, linkVars, diskVars,
                   conns, subscribed, wire, srvVars, told, countVars, faults,
                   crashes>>

\* The call goes on with the turn its answer named.
Adopts(k) ==
    \/ k.step \in {"read", "start"} /\ k.answer = "ok"
    \/ k.step = "steer" /\ k.answer = "refused"

\* Turn t starts while a call is about to make an earlier turn the active one.
Overtakes(t) == \E g \in Gens : Adopts(call[g]) /\ call[g].found \notin {NoTurn, t}

\* handleNotification of turn/started and turn/completed.
ReceiveNotification(c) ==
    /\ Receivable(c) /\ Head(inbox[c]).what # "reply"
    /\ call' = [g \in Gens |-> Chunked(call[g])]
    /\ inbox' = [inbox EXCEPT ![c] = Tail(@)]
    /\ LET m == Head(inbox[c])
       IN  IF open.conn # c
           THEN UNCHANGED <<processing, open, conns, closeAsked, overtaken>>
           ELSE \/ /\ m.what = "started"
                   /\ open' = OpenWith(m.turn)
                   /\ processing' = TRUE
                   /\ overtaken' = (overtaken \/ Overtakes(m.turn))
                   /\ UNCHANGED <<conns, closeAsked>>
                \/ /\ m.what = "completed"
                   /\ UNCHANGED overtaken
                   /\ IF open.active \in {NoTurn, m.turn}
                      THEN Settle(OpenWith(NoTurn), conns)
                      ELSE UNCHANGED <<processing, open, conns, closeAsked>>
    /\ UNCHANGED <<hub, pc, actorVars, viewVars, opening, subWaits,
                   diskVars, subscribed, wire, srvVars, told, entered, retried,
                   reopened, faults, crashes>>

\* reconcileCompletedTurn: the transcript, tailed while somebody watches, says
\* that the turn is over.
Reconcile ==
    /\ Event /\ watched
    /\ open # NoOpen /\ open.active # NoTurn /\ open.active # running
    /\ open' = OpenWith(NoTurn)
    /\ processing' = FALSE
    /\ UNCHANGED <<hub, pc, actorVars, viewVars, call, opening, subWaits,
                   closeAsked, diskVars, netVars, srvVars, told, countVars,
                   faults, crashes>>

OnConn(r, c) == [r EXCEPT !.conn = c]

\* The socket is gone: what was sent may still arrive, no answer will.
Gone(c) ==
    /\ inbox' = [inbox EXCEPT ![c] = <<>>]
    /\ subscribed' = subscribed \ {c}
    /\ wire' = {OnConn(r, IF r.conn = c THEN NoConn ELSE r.conn) : r \in wire}

CallsOn(c) == {g \in Gens : Awaits(g) /\ call[g].conn = c}

\* The connection the hub closed is closed.  So that Conns bounds nothing but
\* the connections, one is when the next would be one too many.
ConnCloses(c) ==
    /\ conns[c] = "closing"
    /\ \/ Event
       \/ hub # "down" /\ pc = "idle" /\ ~Answered /\ open = NoOpen
          /\ \A d \in Conns : conns[d] # "none"
    /\ Gone(c)
    /\ Fail(CallsOn(c))
    /\ IF CallsOn(c) # {}
       THEN Settle(open, [conns EXCEPT ![c] = "none"])
       ELSE /\ conns' = [conns EXCEPT ![c] = "none"]
            /\ UNCHANGED <<processing, open, closeAsked>>
    /\ UNCHANGED <<hub, viewVars, opening, subWaits, srvVars, countVars, faults,
                   crashes>>

\* degradeToTranscript.
Degraded == IF watched /\ sub # "none" THEN "fallback" ELSE sub

\* The connection of the open thread breaks: onDisconnect, then the failures.
Disconnect(c) ==
    /\ Event /\ conns[c] = "up" /\ open.conn = c
    /\ faults < MaxFaults /\ faults' = faults + 1
    /\ Gone(c)
    /\ Fail(CallsOn(c))
    /\ Settle(NoOpen, [conns EXCEPT ![c] = "none"])
    /\ sub' = Degraded
    /\ UNCHANGED <<hub, watched, watches, opening, subWaits, srvVars,
                   countVars, crashes>>

\* subscribeSession has failed for the present watch.
NoStream == IF sub = "waiting" /\ watches \in subWaits THEN "fallback" ELSE sub

\* openThread fails, and with it all who wait for this thread.
OpenFails ==
    /\ Event /\ opening.stage \in {"connect", "resumed"}
    /\ faults < MaxFaults /\ faults' = faults + 1
    /\ Fail({g \in Gens : Waits(g)})
    /\ conns' = [conns EXCEPT ![opening.conn] = "closing"]
    /\ opening' = NotOpening
    /\ subWaits' = {}
    /\ sub' = NoStream
    /\ UNCHANGED <<hub, watched, watches, processing, open, closeAsked,
                   subscribed, inbox, wire, srvVars, countVars, crashes>>
-----------------------------------------------------------------------------
\* The App Server.

\* The inboxes after every subscriber got ms.
Told(ms, cs) == [c \in Conns |-> IF c \in cs /\ conns[c] = "up"
                                 THEN inbox[c] \o ms ELSE inbox[c]]

Note(what, turn) == [what |-> what, turn |-> turn]

Reply(r, answer, turn) ==
    IF r.conn = NoConn THEN inbox
    ELSE [inbox EXCEPT ![r.conn] =
            Append(@, [what |-> "reply", to |-> r, answer |-> answer, turn |-> turn])]

SrvReads(r) ==
    /\ r.kind = "read"
    /\ inbox' = Reply(r, IF turns = 0 THEN "unknown" ELSE "ok", running)
    /\ UNCHANGED <<subscribed, srvVars>>

SrvSteers(r) ==
    /\ r.kind \in {"steer", "resteer"}
    /\ \/ /\ running = r.turn
          /\ ran' = Append(ran, [msg |-> r.msg, gen |-> r.gen])
          /\ inbox' = Reply(r, "ok", running)
       \/ /\ running # r.turn
          /\ inbox' = Reply(r, "refused", running)
          /\ UNCHANGED ran
    /\ UNCHANGED <<subscribed, running, turns>>

\* Whoever starts a turn is told about it from then on.
SrvStartsTurn(r) ==
    /\ r.kind = "start" /\ running = NoTurn /\ turns < MaxTurns
    /\ turns' = turns + 1
    /\ running' = turns + 1
    /\ ran' = Append(ran, [msg |-> r.msg, gen |-> r.gen])
    /\ subscribed' = IF r.conn = NoConn THEN subscribed ELSE subscribed \cup {r.conn}
    /\ LET started == <<Note("started", turns + 1)>>
           reply == <<[what |-> "reply", to |-> r, answer |-> "ok", turn |-> turns + 1]>>
       IN  inbox' = [c \in Conns |->
                       IF c = r.conn THEN inbox[c] \o reply \o started
                       ELSE Told(started, subscribed)[c]]

\* A turn/start that meets a running turn joins it or is refused.
SrvStartMeetsTurn(r) ==
    /\ r.kind = "start" /\ (running # NoTurn \/ turns = MaxTurns)
    /\ \/ /\ running # NoTurn
          /\ ran' = Append(ran, [msg |-> r.msg, gen |-> r.gen])
          /\ inbox' = Reply(r, "ok", running)
       \/ inbox' = Reply(r, "refused", NoTurn) /\ UNCHANGED ran
    /\ UNCHANGED <<subscribed, running, turns>>

SrvHandles(r) ==
    \* a connection keeps the order of one message's tries
    /\ \A q \in wire : q.conn = r.conn /\ q.gen = r.gen => q.try >= r.try
    /\ wire' = wire \ {r}
    /\ SrvReads(r) \/ SrvSteers(r) \/ SrvStartsTurn(r) \/ SrvStartMeetsTurn(r)
    /\ UNCHANGED <<hub, pc, actorVars, viewVars, processing, call, linkVars,
                   diskVars, conns, told, countVars, faults, crashes>>

\* The turn is over.  turn/completed can get lost, which is what
\* reconcileCompletedTurn is for.
SrvCompletes ==
    /\ running # NoTurn
    /\ running' = NoTurn
    /\ \/ /\ inbox' = Told(<<Note("completed", running)>>, subscribed)
          /\ UNCHANGED faults
       \/ /\ faults < MaxFaults /\ faults' = faults + 1
          /\ UNCHANGED inbox
    /\ UNCHANGED <<hub, pc, actorVars, viewVars, processing, call, linkVars,
                   diskVars, conns, subscribed, wire, turns, ran, told,
                   countVars, crashes>>

\* Another client of the thread, or its goal, starts a turn.
SrvOtherStarts ==
    /\ running = NoTurn /\ turns < MaxTurns
    /\ turns' = turns + 1
    /\ running' = turns + 1
    /\ inbox' = Told(<<Note("started", turns + 1)>>, subscribed)
    /\ UNCHANGED <<hub, pc, actorVars, viewVars, processing, call, linkVars,
                   diskVars, conns, subscribed, wire, ran, told, countVars,
                   faults, crashes>>
-----------------------------------------------------------------------------
\* Who watches, the session and the hub process.

\* subscribe, when nobody did: the stream starts anew and asks for the thread.
Watch ==
    /\ Event /\ ~watched /\ watches < MaxWatches
    /\ watched' = TRUE
    /\ sub' = "waiting"
    /\ watches' = watches + 1
    /\ subWaits' = subWaits \cup {watches + 1}
    /\ UNCHANGED <<hub, pc, actorVars, processing, call, open, opening,
                   closeAsked, diskVars, netVars, srvVars, told, countVars,
                   faults, crashes>>

\* unsubscribe of the last one.
Leave ==
    /\ Event /\ watched
    /\ watched' = FALSE
    /\ sub' = "none"
    /\ IF processing
       THEN UNCHANGED <<processing, open, conns, closeAsked>>
       ELSE Close(open, conns) /\ UNCHANGED processing
    /\ UNCHANGED <<hub, pc, actorVars, watches, call, opening, subWaits,
                   diskVars, subscribed, inbox, wire, srvVars, told,
                   countVars, faults, crashes>>

\* retireSession: the session was killed or disappeared, and one of the same
\* name follows.  A call on behalf of the old actor goes on.
Retire ==
    /\ Event /\ hub = "up" /\ gen < MaxRetires + 1
    /\ gen' = gen + 1
    /\ queue' = <<>> /\ order' = <<>>
    /\ uncertain' = {} /\ delivered' = {} /\ deleted' = {}
    /\ blocked' = FALSE
    /\ Tell({m \in Pending : told[m] = "waiting"}, "failed")
    /\ watched' = FALSE /\ sub' = "none"
    /\ processing' = FALSE
    /\ Close(open, conns)
    /\ UNCHANGED <<hub, pc, watches, call, opening, subWaits, subscribed, inbox,
                   wire, srvVars, countVars, faults, crashes>>
    /\ WrittenOrNot

GoesDown ==
    /\ hub' = "down" /\ pc' = "idle"
    /\ queue' = <<>> /\ order' = <<>>
    /\ uncertain' = {} /\ delivered' = {} /\ deleted' = {}
    /\ blocked' = FALSE /\ dirty' = FALSE
    /\ call' = [g \in Gens |-> NoCall]
    /\ watched' = FALSE /\ sub' = "none" /\ processing' = FALSE
    /\ open' = NoOpen /\ opening' = NotOpening /\ subWaits' = {} /\ closeAsked' = FALSE
    /\ conns' = [c \in Conns |-> "none"]
    /\ subscribed' = {}
    /\ inbox' = [c \in Conns |-> <<>>]
    /\ wire' = {OnConn(r, NoConn) : r \in wire}
    /\ Tell({m \in Msgs : told[m] = "waiting"}, "none")
    /\ UNCHANGED <<gen, watches, srvVars, countVars, faults>>

Crash ==
    /\ hub # "down" /\ crashes < MaxCrashes
    /\ crashes' = crashes + 1
    /\ GoesDown
    /\ UNCHANGED <<journal, writeFailures>>

\* drainForShutdown: the hub starts no turn any more and waits for the one it has.
Shutdown ==
    /\ Event /\ hub = "up" /\ crashes < MaxCrashes
    /\ hub' = "draining"
    /\ crashes' = crashes + 1
    /\ UNCHANGED <<pc, actorVars, viewVars, processing, call, linkVars, diskVars,
                   netVars, srvVars, told, countVars, faults>>

\* drainForShutdown ends, when the call is over or has taken too long.
Exit ==
    /\ Event /\ hub = "draining"
    /\ \/ /\ journal' = IF dirty THEN Saved ELSE journal
          /\ UNCHANGED writeFailures
       \/ /\ dirty /\ writeFailures < MaxWriteFailures
          /\ writeFailures' = writeFailures + 1
          /\ UNCHANGED journal
    /\ GoesDown
    /\ UNCHANGED crashes

\* restoreChatReceipts: what was being started is uncertain, the rest goes on in
\* its order; the journal of another session of this name is dropped.
Restore(ms) == Sorted(ms, journal.order)

Closed == journal.delivered \cup journal.deleted

Left == Elements(journal.queued) \ Closed

Restart ==
    /\ hub = "down"
    /\ hub' = "up"
    /\ LET mine == journal.gen = gen
           tried == journal.starting \ Closed
       IN  /\ delivered' = IF mine THEN journal.delivered ELSE {}
           /\ deleted' = IF mine THEN journal.deleted ELSE {}
           /\ uncertain' = IF mine THEN tried ELSE {}
           /\ queue' \in Restore(IF mine THEN Left ELSE {})
           /\ order' \in Restore(IF mine THEN Left \cup tried ELSE {})
           /\ pc' = "drain"
           /\ UNCHANGED <<gen, blocked, call>>
           /\ IF mine THEN UNCHANGED diskVars ELSE WrittenOrNot
    /\ UNCHANGED <<viewVars, processing, linkVars, netVars, srvVars, told,
                   countVars, faults, crashes>>
-----------------------------------------------------------------------------
Init ==
    /\ hub = "up" /\ pc = "idle" /\ gen = 1
    /\ queue = <<>> /\ order = <<>>
    /\ uncertain = {} /\ delivered = {} /\ deleted = {}
    /\ blocked = FALSE /\ watched = FALSE /\ sub = "none" /\ processing = FALSE
    /\ call = [g \in Gens |-> NoCall]
    /\ open = NoOpen /\ opening = NotOpening /\ subWaits = {} /\ closeAsked = FALSE
    /\ journal = [gen |-> 1, queued |-> <<>>, starting |-> {}, order |-> <<>>,
                  delivered |-> {}, deleted |-> {}]
    /\ dirty = FALSE
    /\ conns = [c \in Conns |-> "none"]
    /\ subscribed = {}
    /\ inbox = [c \in Conns |-> <<>>]
    /\ wire = {} /\ running = NoTurn /\ turns = 0 /\ ran = <<>>
    /\ told = [m \in Msgs |-> "none"]
    /\ entered = [m \in Msgs |-> 0] /\ retried = [m \in Msgs |-> 0]
    /\ reopened = FALSE /\ overtaken = FALSE
    /\ watches = 0 /\ faults = 0 /\ crashes = 0 /\ writeFailures = 0

Phone(m) == SubmitKnown(m) \/ SubmitPending(m) \/ SubmitNew(m) \/ Retry(m) \/ Delete(m)

CallStep(g) ==
    CallWakes(g) \/ ReadAnswered(g) \/ Accepted(g) \/ SteerRefused(g) \/ Refused(g)

OpenStep == Resume \/ ReadHistory \/ OpenSet \/ Flush \/ Opened

Next ==
    \/ \E m \in Msgs : Phone(m)
    \/ Tick \/ OtherSaves \/ Drain
    \/ \E w \in subWaits : SubWakes(w)
    \/ OpenStep \/ HistoryTimesOut \/ OpenFails
    \/ \E g \in Gens : CallStep(g) \/ RequestTimesOut(g)
    \/ \E c \in Conns : \/ ReceiveReply(c) \/ ReceiveNotification(c)
                        \/ ConnCloses(c) \/ Disconnect(c)
    \/ Reconcile
    \/ \E r \in wire : SrvHandles(r)
    \/ SrvCompletes \/ SrvOtherStarts
    \/ Watch \/ Leave \/ Retire \/ Crash \/ Shutdown \/ Exit \/ Restart

Spec == Init /\ [][Next]_vars
-----------------------------------------------------------------------------
\* Properties.

Stages == {"no", "connect", "resumed", "read", "set"}
Steps == {"idle", "open"} \cup Kinds
MaybeConn == Conns \cup {NoConn}
MaybeTurn == Turns \cup {NoTurn}

Requests == [gen : Gens, msg : Msgs, try : 0..MaxRetries, kind : Kinds,
             turn : MaybeTurn, conn : MaybeConn]
Messages ==
    [what : {"started", "completed"}, turn : MaybeTurn]
        \cup [what : {"reply"}, to : Requests, answer : {"ok", "refused", "unknown"},
              turn : MaybeTurn]

Calls == [step : Steps, msg : Msgs \cup {NoMsg}, try : 0..MaxRetries,
          turn : MaybeTurn, conn : MaybeConn,
          answer : {"none", "ok", "refused", "unknown"},
          found : MaybeTurn, chunk : 0..MaxChunk]
Opens == [conn : MaybeConn, active : MaybeTurn, live : BOOLEAN]
Openings == [stage : Stages, conn : MaybeConn, active : MaybeTurn,
             live : BOOLEAN, again : BOOLEAN, by : 0..MaxWatches]
Journals == [gen : Gens, queued : Seq(Msgs), starting : SUBSET Msgs,
             order : Seq(Msgs), delivered : SUBSET Msgs, deleted : SUBSET Msgs]
Tellings == {"none", "waiting", "started", "duplicate", "uncertain", "deleted", "failed"}

\* The state has its types.
TypeOK ==
    /\ hub \in {"up", "draining", "down"}
    /\ pc \in {"idle", "drain", "flush"}
    /\ gen \in Gens
    /\ queue \in Seq(Msgs) /\ order \in Seq(Msgs)
    /\ uncertain \subseteq Msgs /\ delivered \subseteq Msgs /\ deleted \subseteq Msgs
    /\ blocked \in BOOLEAN /\ watched \in BOOLEAN /\ processing \in BOOLEAN
    /\ sub \in {"none", "waiting", "live", "fallback"}
    /\ call \in [Gens -> Calls]
    /\ open \in Opens /\ opening \in Openings
    /\ subWaits \subseteq 1..MaxWatches /\ closeAsked \in BOOLEAN
    /\ journal \in Journals
    /\ dirty \in BOOLEAN
    /\ conns \in [Conns -> {"none", "up", "closing"}]
    /\ subscribed \subseteq Conns
    /\ inbox \in [Conns -> Seq(Messages)]
    /\ wire \subseteq Requests
    /\ running \in MaybeTurn /\ turns \in 0..MaxTurns
    /\ ran \in Seq([msg : Msgs, gen : Gens])
    /\ told \in [Msgs -> Tellings]
    /\ entered \in [Msgs -> 0..(MaxEntries + MaxRetries)]
    /\ retried \in [Msgs -> 0..MaxRetries] /\ reopened \in BOOLEAN /\ overtaken \in BOOLEAN
    /\ watches \in 0..MaxWatches /\ faults \in 0..MaxFaults
    /\ crashes \in 0..MaxCrashes /\ writeFailures \in 0..MaxWriteFailures

\* The parts of the queue agree: what has a place in the order is queued, being
\* started or uncertain, one of them and once, and neither delivered nor deleted
\* (codexOrder, codexQueue, startingCodexMessageIds and uncertainCodexMessages).
QueueSound ==
    /\ Elements(order) = Pending \cup uncertain
    /\ Injective(order) /\ Injective(queue)
    /\ Elements(queue) \cap (Starting \cup uncertain) = {}
    /\ Starting \cap uncertain = {}
    /\ Elements(order) \cap (delivered \cup deleted) = {}

\* Attempts of m that the App Server took.
Runs(m) == Cardinality({i \in 1..Len(ran) : ran[i].msg = m})
RanNow(m) == \E i \in 1..Len(ran) : ran[i] = [msg |-> m, gen |-> gen]

\* A message runs once for every time it entered the queue: neither a resend of
\* the phone, a restart of the hub, a steer that is tried again nor an answer
\* that comes too late makes it run twice (codex_turn_submit, 945-1025).
RunsOncePerEntry == \A m \in Msgs : Runs(m) <= entered[m]

\* What the hub calls delivered, in memory, in the journal or to the phone, ran
\* (startCodexTurn enters a message only after startTurn has succeeded).
ReceiptsTrue ==
    \A m \in Msgs :
        m \in delivered \cup journal.delivered \/ told[m] \in {"started", "duplicate"}
            => Runs(m) > 0

\* What ran and what is called delivered agree in both directions.
RunsMatchReceipts == RunsOncePerEntry /\ ReceiptsTrue

\* After "deleted" the present try of a message is never on its way to the App
\* Server, not even when a submit, a retry or a restart meets the deletion
\* (deletePendingCodexTurn).
DeletedNeverRuns ==
    \A r \in wire :
        r.kind # "read" /\ r.gen = gen /\ r.try = retried[r.msg] => r.msg \notin deleted

\* Messages run in the order they were submitted in: none that runs has one
\* before it that is still queued or uncertain (the head test of
\* drainCodexQueue, and the order that survives retry and restart).
InOrder == \A i, j \in 1..Len(order) : i < j => ~RanNow(order[j])

\* No connection is left to itself: one the hub does not close is the one of
\* the open thread or of the one being opened, and the open thread has one.
NoOrphan ==
    /\ \A c \in Conns : conns[c] = "up" => c \in {open.conn, opening.conn}
    /\ open # NoOpen => conns[open.conn] = "up"

\* A viewer whose chat text comes from the connection has one: when it breaks
\* the hub goes back to the transcript (handleCodexDisconnect).
LiveIsOpen == sub = "live" => open # NoOpen

\* The hub shows the session busy only as long as a thread is open that will
\* tell of the end, or a call is on its way that will.
ProcessingHasThread ==
    processing => open # NoOpen \/ \E g \in Gens : call[g].step # "idle"

\* Everybody who counts on a connection has one, and the hub knows each it has.
ConnectionsOwned == NoOrphan /\ LiveIsOpen /\ ProcessingHasThread

NoCalls == \A g \in Gens : call[g].step = "idle"

\* A thread nobody watches and where nothing runs is closed
\* (maybeCloseIdleCodexSession, and the closeRequestedWhileOpening of a thread
\* that was being opened), however often viewers came and went, unless a
\* subscription whose viewer had left waited for a thread that was closed as
\* soon as it was open, and opened it again (threadFor, 1003).
IdleClosed ==
    ~reopened /\ Event /\ opening.stage = "no" /\ NoCalls /\ ~watched /\ ~processing
        => open = NoOpen

Quiet ==
    /\ Event /\ opening.stage = "no" /\ NoCalls /\ wire = {}
    /\ \A c \in Conns : conns[c] = "up" => inbox[c] = <<>>

\* When all messages have come in over a connection with live notifications,
\* a session that is shown busy has a turn running, however turns end and
\* others start meanwhile: unless the reply that names a turn came in one piece
\* with the start of a later one.  startTurn goes on after that notification
\* has been handled, puts the turn of its reply back (518), and the end of the
\* later turn is then ignored as another turn's.
NeverStuckBusy ==
    Quiet /\ processing /\ open.live /\ faults = 0 /\ ~overtaken => running # NoTurn

(***************************************************************************)
(* Fairness.  The event loop of the hub runs what is due, also when the    *)
(* phone keeps sending, the sockets carry on and the App Server handles    *)
(* its requests; a hub that exits is started by the next client.  Nothing  *)
(* is assumed of the phone, of the turns' ends or of the failures.         *)
(***************************************************************************)
HubStep ==
    \/ \E w \in subWaits : SubWakes(w)
    \/ OpenStep
    \/ \E g \in Gens : CallStep(g)
    \/ \E c \in Conns : ReceiveReply(c) \/ ReceiveNotification(c) \/ ConnCloses(c)
    \/ Tick \/ Exit

Fairness ==
    /\ WF_vars(Drain) /\ WF_vars(Restart)
    /\ SF_vars(HubStep)
    /\ WF_vars(\E r \in wire : SrvHandles(r))

FairSpec == Spec /\ Fairness

Blocked == order # <<>> /\ Head(order) \in uncertain

\* A submit is answered in the end, unless an uncertain message is before it,
\* which only the user can settle.
SubmitSettles == \A m \in Msgs : told[m] = "waiting" ~> told[m] # "waiting" \/ Blocked

\* A viewer learns in the end where the chat text comes from.
StreamSettles == sub = "waiting" ~> sub # "waiting"

\* Nobody waits for ever.
Settles == SubmitSettles /\ StreamSettles
=============================================================================
