---------------------------- MODULE ChatDelivery ----------------------------
(***************************************************************************)
(* Delivery of chat messages to one Claude session: the part of            *)
(* src/hub/sessionHub.ts that queues a chat_send durably, types it into    *)
(* the session's terminal pane, and keeps it apart from the other users of *)
(* the pane (answers to a question dialog, the send-now chord).            *)
(*                                                                         *)
(* The hub is one JavaScript thread.  A handler runs to completion, so a   *)
(* step of the model is one handler, or one stretch between two awaits.    *)
(* pc says what the current stretch goes on with: "idle" is the event      *)
(* loop, "drain" a call of drainChatQueue, "loop" the test of its while    *)
(* loop, "sendNow" a call of runSendNow, "drainThenSendNow" one call after *)
(* the other.  Only a crash, or another process, can come in between.      *)
(*                                                                         *)
(* Sessions do not share this state, except that one write of the journal  *)
(* file saves all of them, so one session is modelled.  Receipts are       *)
(* dropped after a time limit or a number of entries; the model keeps      *)
(* them.                                                                   *)
(***************************************************************************)
EXTENDS OrderedIds

CONSTANTS
    Msgs,              \* client message ids
    TuiQuestions,      \* ids of questions shown as a dialog in the pane
    NativeQuestions,   \* ids of questions asked by the Codex App Server
    AsyncQuestions,    \* ids the end of a turn leaves alone (isNonBlockingQuestionId)
    NoMsg, NoQuestion, \* stand for null
    MaxGenerations,    \* sessions ever launched under this name
    MaxRerecords,      \* launches that find the session alive and record it anew
    MaxUnannounced,    \* deaths of the session no engine tells the hub about
    MaxCrashes,        \* bound on crashes of the hub process
    MaxWriteFailures,  \* bound on failed writes of the journal
    MaxRetries,        \* bound on explicit retries of one message
    MaxSendNow,        \* bound on send-now requests waiting at once
    RecheckAttempts    \* probes for a question dropped as stale (3 in the code)

Questions == TuiQuestions \cup NativeQuestions

ASSUME MsgAssumption == NoMsg \notin Msgs
ASSUME QuestionAssumption ==
    /\ NoQuestion \notin Questions
    /\ TuiQuestions \cap NativeQuestions = {}
    /\ AsyncQuestions \subseteq NativeQuestions
ASSUME BoundAssumption ==
    /\ MaxGenerations \in Nat /\ MaxRerecords \in Nat /\ MaxUnannounced \in Nat
    /\ MaxCrashes \in Nat /\ MaxWriteFailures \in Nat
    /\ MaxRetries \in Nat /\ MaxSendNow \in Nat /\ RecheckAttempts \in Nat

VARIABLES
    \* the hub process
    hub,          \* "up", "draining" (told to stop), "down"
    pc,
    \* the actor of the session: SessionActor
    queue,        \* chatQueue
    order,        \* chatOrder
    pending,      \* pendingChatMessages
    uncertain,    \* uncertainChatMessages
    delivered,    \* deliveredChatMessageIds
    deleted,      \* deletedChatMessageIds
    cancelOf,     \* cancelQuestionId of the stored message
    blocked,      \* chatDrainBlocked
    \* the message in the hands of the injector
    injMsg,       \* the entry drainChatQueue awaits
    injQ,         \* its cancelledQuestion; while set, cancellingQuestionId
    phase,        \* "none", "checking", "typing", "typed"
    \* questions and the other users of the pane
    pendingQ,     \* pendingQuestion, saved on every change
    asked,        \* questions ever relayed
    answers,      \* answers in flight: "none", "probe", "keys", "text"
    recheckQ,     \* staleQuestionRechecks
    recheckLeft,  \* probes left of recheckQ
    failedQ,      \* choiceCancelFailed.questionId
    failedMsgs,   \* choiceCancelFailed.clientMessageIds
    sendNowWaiting, \* length of sendNowWaiters
    sendNowRunning,
    \* the hub's part shared by all sessions
    retired,      \* retiredChatDeliveries
    dirty,        \* chatReceiptsDirty
    \* what survives the process
    journal,      \* the session's entry in the journal file
    \* the session, its pane and its record in the metadata store
    meta,         \* identity on record, it outlives the session
    generation,   \* sessions launched so far
    alive,        \* the last one still runs
    retireDue,    \* session_retire on its way from the engine
    reaped,       \* the reaper's tick found it dead, retireSession is to follow
    \* bookkeeping of the properties and bounds
    typed,        \* times a message was submitted in the pane
    retried,      \* explicit retries accepted
    home,         \* session a message was sent to, 0 when none was alive
    erased,       \* told the user to be deleted, since the receipts were begun
    crashes, writeFailures, unannounced

receiptVars == <<queue, order, pending, uncertain, delivered, deleted>>
injectVars  == <<injMsg, injQ, phase>>
questionVars == <<pendingQ, asked, answers, recheckQ, recheckLeft>>
failedVars  == <<failedQ, failedMsgs>>
sendNowVars == <<sendNowWaiting, sendNowRunning>>
diskVars    == <<journal, dirty, writeFailures>>
sessionVars == <<meta, generation, alive, retireDue, reaped, unannounced>>
lifeVars    == <<generation, alive, retireDue, reaped, unannounced>>
historyVars == <<typed, retried, home, erased>>
vars == <<hub, pc, receiptVars, cancelOf, blocked, injectVars,
          questionVars, failedVars, sendNowVars, retired, diskVars,
          sessionVars, historyVars, crashes>>
-----------------------------------------------------------------------------
\* The journal.

\* injectingChatMessageIds.
Injecting == IF phase = "none" THEN {} ELSE {injMsg}

NothingKept == pending \cup uncertain \cup delivered \cup deleted = {}

\* Mutant of Receipts: the entry being injected is saved as queued.
ReceiptsWithoutMark ==
    [queued |-> pending, inflight |-> uncertain, order |-> order, delivered |-> delivered,
     deleted |-> deleted, identity |-> IF NothingKept THEN 0 ELSE meta, retired |-> retired]

\* Mutant of Receipts: uncertain messages are not saved.
ReceiptsWithoutUncertain ==
    [queued |-> pending \ Injecting, inflight |-> pending \cap Injecting, order |-> order,
     delivered |-> delivered, deleted |-> deleted,
     identity |-> IF NothingKept THEN 0 ELSE meta, retired |-> retired]

\* What persistChatReceipts writes of the session.  An actor without receipts
\* has no entry, hence no identity.
Receipts ==
    [queued    |-> pending \ Injecting,
     inflight  |-> (pending \cap Injecting) \cup uncertain,
     order     |-> order,
     delivered |-> delivered,
     deleted   |-> deleted,
     identity  |-> IF NothingKept THEN 0 ELSE meta,
     retired   |-> retired]

\* persistChatReceipts: the file is replaced whole, or the write fails and the
\* old file stays.
Persist(ok) ==
    /\ dirty' = ~ok
    /\ IF ok THEN /\ journal' = Receipts'
                  /\ UNCHANGED writeFailures
             ELSE /\ writeFailures < MaxWriteFailures
                  /\ writeFailures' = writeFailures + 1
                  /\ UNCHANGED journal

NoJournal == [queued |-> {}, inflight |-> {}, order |-> <<>>, delivered |-> {},
              deleted |-> {}, identity |-> 0, retired |-> {}]
-----------------------------------------------------------------------------
Init ==
    /\ hub = "up" /\ pc = "idle"
    /\ queue = <<>> /\ order = <<>>
    /\ pending = {} /\ uncertain = {} /\ delivered = {} /\ deleted = {}
    /\ cancelOf = [m \in Msgs |-> NoQuestion]
    /\ blocked = FALSE
    /\ injMsg = NoMsg /\ injQ = NoQuestion /\ phase = "none"
    /\ pendingQ = NoQuestion /\ asked = {}
    /\ answers = [q \in Questions |-> "none"]
    /\ recheckQ = NoQuestion /\ recheckLeft = 0
    /\ failedQ = NoQuestion /\ failedMsgs = {}
    /\ sendNowWaiting = 0 /\ sendNowRunning = FALSE
    /\ retired = {} /\ dirty = FALSE /\ journal = NoJournal
    /\ meta = 1 /\ generation = 1 /\ alive = TRUE
    /\ retireDue = FALSE /\ reaped = FALSE /\ unannounced = 0
    /\ typed = [m \in Msgs |-> 0] /\ retried = [m \in Msgs |-> 0]
    /\ home = [m \in Msgs |-> 0] /\ erased = {}
    /\ crashes = 0 /\ writeFailures = 0

\* The event loop of a living hub can take the next event.
Ready == hub # "down" /\ pc = "idle"

ShuttingDown == hub = "draining"

Answering == {q \in Questions : answers[q] # "none"}

\* Mutant of HeldByQuestion: answers in flight are not looked at.
HeldByQuestionOnly ==
    /\ pendingQ # NoQuestion
    /\ \/ pendingQ \in NativeQuestions
       \/ failedQ = pendingQ
       \/ \A i \in 1..Len(queue) : cancelOf[queue[i]] # pendingQ

\* chatDrainHeldByQuestion
HeldByQuestion ==
    \/ Answering # {}
    \/ /\ pendingQ # NoQuestion
       /\ \/ pendingQ \in NativeQuestions
          \/ failedQ = pendingQ
          \/ \A i \in 1..Len(queue) : cancelOf[queue[i]] # pendingQ

\* chatDrainRunning outside the loop itself.
DrainRunning == phase # "none"

\* The head of the queue is the head of the session's order.
HeadInOrder == queue # <<>> /\ order # <<>> /\ Head(order) = Head(queue)

MayDrain == hub = "up" /\ ~DrainRunning /\ ~blocked /\ ~sendNowRunning /\ ~HeldByQuestion
-----------------------------------------------------------------------------
\* chat_send.  Every request first forgets a failed cancellation of question cq
\* that m itself was not part of.
ForgetsFailure(m, cq) == cq # NoQuestion /\ cq = failedQ /\ m \notin failedMsgs
ForgetFailure(m, cq) ==
    IF ForgetsFailure(m, cq)
    THEN failedQ' = NoQuestion /\ failedMsgs' = {}
    ELSE UNCHANGED failedVars

\* Mutant of Known: tombstones are not looked at.
KnownUndeleted == delivered \cup uncertain \cup pending

\* The ids chat_send has an answer for without queueing them.
Known == deleted \cup delivered \cup uncertain \cup pending

\* Mutant of AtFront: a message that goes back goes last.
AtEnd(m) == Append(queue, m)

\* A message that goes back to the queue is its head again: unshift.
AtFront(m) == <<m>> \o queue

\* A client can only name a question it was shown.
CancelChoices == asked \cup {NoQuestion}

\* Answered from memory: deleted, a duplicate, uncertain without a valid retry,
\* or queued with another text.
SendAnswered(m, cq) ==
    /\ Ready
    /\ m \in Known
    /\ ForgetFailure(m, cq)
    /\ UNCHANGED <<hub, pc, receiptVars, cancelOf, blocked, injectVars,
                   questionVars, sendNowVars, retired, diskVars, sessionVars,
                   historyVars, crashes>>

\* Same text as a queued entry: one more waiter on it.
SendJoins(m, cq) ==
    /\ Ready
    /\ m \in pending \ (deleted \cup delivered \cup uncertain)
    /\ ForgetFailure(m, cq)
    /\ blocked' = FALSE
    /\ pc' = "drain"
    /\ UNCHANGED <<hub, receiptVars, cancelOf, injectVars, questionVars,
                   sendNowVars, retired, diskVars, sessionVars, historyVars, crashes>>

\* The user sends an uncertain message again: only the head of the order.
SendRetry(m, cq, ok) ==
    /\ Ready
    /\ m \in uncertain \ (deleted \cup delivered)
    /\ order # <<>> /\ Head(order) = m
    /\ retried[m] < MaxRetries
    /\ ForgetFailure(m, cq)
    /\ IF ok
       THEN /\ uncertain' = uncertain \ {m}
            /\ pending' = pending \cup {m}
            /\ queue' = AtFront(m)
            /\ cancelOf' = [cancelOf EXCEPT ![m] = cq]
            /\ retried' = [retried EXCEPT ![m] = @ + 1]
            /\ blocked' = FALSE
            /\ pc' = "drain"
       ELSE UNCHANGED <<uncertain, pending, queue, cancelOf, retried, blocked, pc>>
    /\ UNCHANGED <<order, delivered, deleted, retired, meta>>
    /\ UNCHANGED <<hub, injectVars, questionVars, sendNowVars, lifeVars,
                   typed, home, erased, crashes>>
    /\ Persist(ok)

\* A new id: queued once the journal holds it.
SendNew(m, cq, ok) ==
    /\ Ready
    /\ m \notin Known
    /\ ForgetFailure(m, cq)
    /\ IF ok
       THEN /\ pending' = pending \cup {m}
            /\ queue' = Append(queue, m)
            /\ order' = Append(order, m)
            /\ cancelOf' = [cancelOf EXCEPT ![m] = cq]
            /\ home' = [home EXCEPT ![m] = IF alive THEN generation ELSE 0]
            /\ blocked' = FALSE
            /\ pc' = "drain"
       ELSE UNCHANGED <<pending, queue, order, cancelOf, home, blocked, pc>>
    /\ UNCHANGED <<uncertain, delivered, deleted, retired, meta>>
    /\ UNCHANGED <<hub, injectVars, questionVars, sendNowVars, lifeVars,
                   typed, retried, erased, crashes>>
    /\ Persist(ok)
-----------------------------------------------------------------------------
\* Mutant of Deletable: a message in the injector can be deleted.
DeletableInjecting(m) == m \notin uncertain \cup delivered

\* pending_message_delete: deletePendingChatMessage.  A message being typed,
\* uncertain or delivered is answered "processing" and nothing changes.
Deletable(m) == m \notin Injecting \cup uncertain \cup delivered

\* The answer "deleted" goes out once the tombstone is in the journal.
TellDeleted(m, ok) ==
    /\ erased' = IF ok THEN erased \cup {m} ELSE erased
    /\ UNCHANGED <<typed, retried, home>>

\* Not queued: a tombstone keeps a later chat_send of the same id out.
DeleteMissing(m, ok) ==
    /\ Ready
    /\ Deletable(m)
    /\ m \notin pending \cup deleted
    /\ deleted' = IF ok THEN deleted \cup {m} ELSE deleted
    /\ TellDeleted(m, ok)
    /\ UNCHANGED <<queue, order, pending, uncertain, delivered, retired, meta>>
    /\ UNCHANGED <<hub, pc, cancelOf, blocked, injectVars, questionVars,
                   failedVars, sendNowVars, lifeVars, crashes>>
    /\ Persist(ok)

DeleteQueued(m, ok) ==
    /\ Ready
    /\ Deletable(m)
    /\ m \in pending
    /\ IF ok
       THEN /\ pending' = pending \ {m}
            /\ queue' = Without(queue, m)
            /\ order' = Without(order, m)
            /\ deleted' = deleted \cup {m}
            /\ cancelOf' = [cancelOf EXCEPT ![m] = NoQuestion]
            /\ blocked' = FALSE
            /\ pc' = "drain"
       ELSE UNCHANGED <<pending, queue, order, deleted, cancelOf, blocked, pc>>
    /\ TellDeleted(m, ok)
    /\ UNCHANGED <<uncertain, delivered, retired, meta>>
    /\ UNCHANGED <<hub, injectVars, questionVars, failedVars, sendNowVars,
                   lifeVars, crashes>>
    /\ Persist(ok)
-----------------------------------------------------------------------------
\* drainChatQueue.

\* The call: its guard, then the loop.
DrainCall ==
    /\ hub # "down"
    /\ pc \in {"drain", "drainThenSendNow"}
    /\ pc' = IF MayDrain THEN "loop"
             ELSE IF pc = "drainThenSendNow" THEN "sendNow" ELSE "idle"
    /\ UNCHANGED <<hub, receiptVars, cancelOf, blocked, injectVars,
                   questionVars, failedVars, sendNowVars, retired, diskVars,
                   sessionVars, historyVars, crashes>>

MayInject == hub = "up" /\ ~HeldByQuestion /\ HeadInOrder

\* Mutant of AfterLoop: send-now is not called.
AfterLoopDrainOnly == IF ~blocked /\ ~HeldByQuestion /\ HeadInOrder THEN "drain" ELSE "idle"

\* The finally block hands over to send-now, or starts again.
AfterLoop ==
    IF sendNowWaiting > 0 THEN "sendNow"
    ELSE IF ~blocked /\ ~HeldByQuestion /\ HeadInOrder THEN "drain"
    ELSE "idle"

\* The loop ends.
LoopExit ==
    /\ hub # "down" /\ pc = "loop" /\ ~MayInject
    /\ pc' = AfterLoop
    /\ UNCHANGED <<hub, receiptVars, cancelOf, blocked, injectVars,
                   questionVars, failedVars, sendNowVars, retired, diskVars,
                   sessionVars, historyVars, crashes>>

\* The head goes to the injector once the journal says so.
LoopInject ==
    /\ pc = "loop" /\ MayInject
    /\ queue' = Tail(queue)
    /\ injMsg' = Head(queue)
    /\ injQ' = pendingQ
    /\ phase' = "checking"
    /\ pc' = "idle"
    /\ UNCHANGED <<order, pending, uncertain, delivered, deleted, retired, meta>>
    /\ UNCHANGED <<hub, cancelOf, blocked, questionVars, failedVars,
                   sendNowVars, lifeVars, historyVars, crashes>>
    /\ Persist(TRUE)

\* The journal write fails: the entry goes back, its waiters are told "failed",
\* and "continue" tests the loop again, which does not look at blocked.
LoopWriteFails ==
    /\ pc = "loop" /\ MayInject
    /\ blocked' = TRUE
    /\ UNCHANGED <<receiptVars, retired, meta>>
    /\ UNCHANGED <<hub, pc, cancelOf, injectVars, questionVars, failedVars,
                   sendNowVars, lifeVars, historyVars, crashes>>
    /\ Persist(FALSE)
-----------------------------------------------------------------------------
\* What the injector (backend sendTextSubmit) reports to drainChatQueue.

\* onChoiceCancelled, and a success: the question this injection was to close
\* is off the screen.  Another question that came up meanwhile stays.
ResolveCancelled ==
    /\ pendingQ' = IF injQ # NoQuestion /\ pendingQ = injQ THEN NoQuestion ELSE pendingQ
    /\ UNCHANGED <<asked, answers, recheckQ, recheckLeft>>

\* The catch block: the question is still there, do not press Esc on it again.
NoteCancelFailed ==
    IF injQ # NoQuestion /\ pendingQ = injQ
    THEN /\ failedQ' = injQ
         /\ failedMsgs' = IF failedQ = injQ THEN failedMsgs \cup {injMsg} ELSE {injMsg}
    ELSE UNCHANGED failedVars

\* Mutant of InjectionOver: the entry stays in injectingChatMessageIds.
InjectionOverMarked == injQ' = NoQuestion /\ phase' = "none" /\ pc' = "loop" /\ UNCHANGED injMsg

\* What every outcome ends with: the marks are cleared and the loop goes on.
InjectionOver == injMsg' = NoMsg /\ injQ' = NoQuestion /\ phase' = "none" /\ pc' = "loop"

ChoiceCancelled ==
    /\ Ready /\ phase = "checking"
    /\ injQ # NoQuestion /\ pendingQ = injQ
    /\ ResolveCancelled
    /\ UNCHANGED <<hub, pc, receiptVars, cancelOf, blocked, injectVars,
                   failedVars, sendNowVars, retired, diskVars, sessionVars,
                   historyVars, crashes>>

\* The last look at mayStartTyping before the first key.
BeginTyping ==
    /\ hub = "up" /\ pc = "idle" /\ phase = "checking"
    /\ phase' = "typing"
    /\ UNCHANGED <<hub, pc, receiptVars, cancelOf, blocked, injMsg, injQ,
                   questionVars, failedVars, sendNowVars, retired, diskVars,
                   sessionVars, historyVars, crashes>>

\* Text and Enter reach the pane: the agent executes the message.
PaneSubmit ==
    /\ Ready /\ phase = "typing" /\ alive
    /\ phase' = "typed"
    /\ typed' = [typed EXCEPT ![injMsg] = @ + 1]
    /\ UNCHANGED <<hub, pc, receiptVars, cancelOf, blocked, injMsg, injQ,
                   questionVars, failedVars, sendNowVars, retired, diskVars,
                   sessionVars, retried, home, erased, crashes>>

\* Delivered, even when the receipt could not be written, or when the pane did
\* not show that it took the text (onUnconfirmedSubmit).
InjectSucceeds(ok) ==
    /\ Ready /\ phase \in {"typing", "typed"}
    /\ ResolveCancelled
    /\ pending' = pending \ {injMsg}
    /\ order' = Without(order, injMsg)
    /\ delivered' = delivered \cup {injMsg}
    /\ cancelOf' = [cancelOf EXCEPT ![injMsg] = NoQuestion]
    /\ InjectionOver
    /\ UNCHANGED <<queue, uncertain, deleted, retired, meta>>
    /\ UNCHANGED <<hub, blocked, failedVars, sendNowVars, lifeVars, historyVars, crashes>>
    /\ Persist(ok)

\* ChatInjectionRejectedError, LoginCodeError: given up before the first key.
InjectRejected(ok) ==
    /\ Ready /\ phase = "checking"
    /\ NoteCancelFailed
    /\ pending' = pending \ {injMsg}
    /\ order' = Without(order, injMsg)
    /\ cancelOf' = [cancelOf EXCEPT ![injMsg] = NoQuestion]
    /\ InjectionOver
    /\ UNCHANGED <<queue, uncertain, delivered, deleted, retired, meta>>
    /\ UNCHANGED <<hub, blocked, questionVars, sendNowVars, lifeVars, historyVars, crashes>>
    /\ Persist(ok)

\* ChatInjectionDeferredError: the hub is stopping, the message stays queued and
\* its waiter unanswered.
InjectDeferred(ok) ==
    /\ ShuttingDown /\ pc = "idle" /\ phase = "checking"
    /\ queue' = AtFront(injMsg)
    /\ InjectionOver
    /\ UNCHANGED <<order, pending, uncertain, delivered, deleted, retired, meta>>
    /\ UNCHANGED <<hub, cancelOf, blocked, questionVars, failedVars,
                   sendNowVars, lifeVars, historyVars, crashes>>
    /\ Persist(ok)

\* Any other error, before or after the keys: the outcome is unknown.
InjectFails(ok) ==
    /\ Ready /\ phase # "none"
    /\ NoteCancelFailed
    /\ pending' = pending \ {injMsg}
    /\ uncertain' = uncertain \cup {injMsg}
    /\ cancelOf' = [cancelOf EXCEPT ![injMsg] = NoQuestion]
    /\ InjectionOver
    /\ UNCHANGED <<queue, order, delivered, deleted, retired, meta>>
    /\ UNCHANGED <<hub, blocked, questionVars, sendNowVars, lifeVars, historyVars, crashes>>
    /\ Persist(ok)
-----------------------------------------------------------------------------
\* Questions.  None of these handlers touches receipts, the journal or the
\* message being injected.
QuestionStep ==
    /\ Ready
    /\ UNCHANGED <<hub, receiptVars, cancelOf, blocked, injectVars,
                   failedVars, sendNowVars, retired, diskVars, sessionVars,
                   historyVars, crashes>>

\* A question_event prompt relayed by the hook, or onQuestion of the controller.
QuestionAsked(q) ==
    /\ QuestionStep
    /\ q \notin asked
    /\ asked' = asked \cup {q}
    /\ pendingQ' = q
    /\ IF q \in TuiQuestions THEN recheckQ' = NoQuestion /\ recheckLeft' = 0
                             ELSE UNCHANGED <<recheckQ, recheckLeft>>
    /\ UNCHANGED <<answers, pc>>

\* A question_event dismiss: clears whatever question is pending.
RelayDismiss(q) ==
    /\ QuestionStep
    /\ q \in asked \cap TuiQuestions
    /\ pendingQ' = NoQuestion
    /\ IF recheckQ = q THEN recheckQ' = NoQuestion /\ recheckLeft' = 0
                       ELSE UNCHANGED <<recheckQ, recheckLeft>>
    /\ pc' = "drain"
    /\ UNCHANGED <<asked, answers>>

\* onQuestionDismiss of the controller; the question part of applyProcessing
\* when a turn is done.
QuestionClosed ==
    /\ QuestionStep
    /\ pendingQ # NoQuestion
    /\ pendingQ \in NativeQuestions \/ pendingQ \notin AsyncQuestions
    /\ pendingQ' = NoQuestion
    /\ pc' = "drain"
    /\ UNCHANGED <<asked, answers, recheckQ, recheckLeft>>

\* Mutant of Cancelling: the hub does not know which question Esc is for.
CancellingUnknown(q) == FALSE

\* The injection is closing q: cancellingQuestionId.
Cancelling(q) == injQ = q

\* question_answer_submit: the first answer takes the question.
AnswerSubmit(q) ==
    /\ QuestionStep
    /\ pendingQ = q
    /\ ~Cancelling(q)
    /\ ~(ShuttingDown /\ q \in TuiQuestions)
    /\ pendingQ' = NoQuestion
    /\ IF q \in NativeQuestions
       THEN pc' = "drain" /\ UNCHANGED answers
       ELSE answers' = [answers EXCEPT ![q] = "probe"] /\ UNCHANGED pc
    /\ UNCHANGED <<asked, recheckQ, recheckLeft>>

\* questionDialogVisible: shown or unreadable, answer by keys; scrolled out of
\* sight, close it and send the answer as text.
AnswerProbed(q, how) ==
    /\ QuestionStep
    /\ answers[q] = "probe"
    /\ answers' = [answers EXCEPT ![q] = how]
    /\ UNCHANGED <<pendingQ, asked, recheckQ, recheckLeft, pc>>

\* Mutant of AnswerOver: the queue is not drained.
AnswerOverSilently(q) == answers' = [answers EXCEPT ![q] = "none"] /\ pc' = "idle"

\* The finally block of every answer.
AnswerOver(q) == answers' = [answers EXCEPT ![q] = "none"] /\ pc' = "drain"

\* No such dialog: dropped, and looked for again a few times.
AnswerStale(q) ==
    /\ QuestionStep
    /\ answers[q] = "probe"
    /\ AnswerOver(q)
    /\ recheckQ' = (IF RecheckAttempts > 0 THEN q ELSE NoQuestion)
    /\ recheckLeft' = RecheckAttempts
    /\ UNCHANGED <<pendingQ, asked>>

AnswerDone(q) ==
    /\ QuestionStep
    /\ answers[q] \in {"keys", "text"}
    /\ AnswerOver(q)
    /\ UNCHANGED <<pendingQ, asked, recheckQ, recheckLeft>>

\* Mutant of BroughtBack: a newer question is overwritten.
BroughtBackAlways(q) == q

\* The pending question when q turns out to be open still: a newer one stays.
BroughtBack(q) == IF pendingQ = NoQuestion THEN q ELSE pendingQ

\* The keys did not go in: the question is pending again unless another one is.
AnswerFails(q) ==
    /\ QuestionStep
    /\ answers[q] # "none"
    /\ AnswerOver(q)
    /\ pendingQ' = BroughtBack(q)
    /\ UNCHANGED <<asked, recheckQ, recheckLeft>>

\* recheckStaleQuestion: one probe.
RecheckFires(visible) ==
    /\ QuestionStep
    /\ recheckQ # NoQuestion
    /\ LET again == pendingQ = NoQuestion /\ ~visible /\ recheckLeft > 1
       IN  /\ recheckQ' = IF again THEN recheckQ ELSE NoQuestion
           /\ recheckLeft' = IF again THEN recheckLeft - 1 ELSE 0
    /\ pendingQ' = IF visible THEN BroughtBack(recheckQ) ELSE pendingQ
    /\ UNCHANGED <<asked, answers, pc>>
-----------------------------------------------------------------------------
\* The send-now chord: chat_send_now, runSendNow.
SendNowStep ==
    /\ hub # "down"
    /\ UNCHANGED <<hub, receiptVars, cancelOf, blocked, injectVars,
                   questionVars, failedVars, retired, diskVars, sessionVars,
                   historyVars, crashes>>

SendNowRequest ==
    /\ SendNowStep
    /\ pc = "idle" /\ sendNowWaiting < MaxSendNow
    /\ sendNowWaiting' = sendNowWaiting + 1
    /\ pc' = "sendNow"
    /\ UNCHANGED sendNowRunning

SendNowWaits == hub = "up" /\ (sendNowRunning \/ DrainRunning \/ sendNowWaiting = 0)
SendNowRefused == Answering # {} \/ pendingQ \in TuiQuestions

\* The call that leaves the waiters for a later one.
SendNowLater ==
    /\ SendNowStep
    /\ pc = "sendNow" /\ SendNowWaits
    /\ pc' = "idle"
    /\ UNCHANGED sendNowVars

\* The call that answers every waiter without a key: the hub is stopping, all
\* have waited too long, or a dialog is in the way.
SendNowAnswered ==
    /\ SendNowStep
    /\ pc = "sendNow" /\ ~SendNowWaits
    /\ sendNowWaiting' = 0
    /\ pc' = IF ShuttingDown THEN "idle" ELSE "drain"
    /\ UNCHANGED sendNowRunning

SendNowBegins ==
    /\ SendNowStep
    /\ pc = "sendNow" /\ hub = "up" /\ ~SendNowWaits /\ ~SendNowRefused
    /\ sendNowWaiting' = 0
    /\ sendNowRunning' = TRUE
    /\ pc' = "idle"

SendNowDone ==
    /\ SendNowStep
    /\ pc = "idle" /\ sendNowRunning
    /\ sendNowRunning' = FALSE
    /\ pc' = "drainThenSendNow"
    /\ UNCHANGED sendNowWaiting
-----------------------------------------------------------------------------
\* The actor's memory is gone.
ActorGone ==
    /\ queue' = <<>> /\ order' = <<>> /\ pending' = {} /\ uncertain' = {}
    /\ delivered' = {} /\ deleted' = {} /\ blocked' = FALSE
    /\ injMsg' = NoMsg /\ injQ' = NoQuestion /\ phase' = "none"
    /\ answers' = [q \in Questions |-> "none"]
    /\ recheckQ' = NoQuestion /\ recheckLeft' = 0
    /\ failedQ' = NoQuestion /\ failedMsgs' = {}
    /\ sendNowWaiting' = 0 /\ sendNowRunning' = FALSE

\* A new ledger: executions and deletions are counted anew.
NewLedger ==
    /\ erased' = {}
    /\ typed' = [m \in Msgs |-> 0]
    /\ retried' = [m \in Msgs |-> 0]

\* Mutant of AdoptDelivered: the ledger of past deliveries is not kept.
AdoptNothing(ids) == {}

\* adoptRetiredChatDeliveries
AdoptDelivered(ids) == ids

\* retireSession returns early when there is no actor of the session, that is,
\* nobody has used it since it was retired or since the hub began.
NoActor ==
    /\ NothingKept /\ queue = <<>> /\ order = <<>> /\ ~blocked /\ phase = "none"
    /\ pendingQ = NoQuestion /\ Answering = {} /\ recheckQ = NoQuestion
    /\ failedQ = NoQuestion /\ sendNowWaiting = 0 /\ ~sendNowRunning
NothingToRetire ==
    /\ Ready /\ NoActor
    /\ \/ retireDue /\ retireDue' = FALSE /\ UNCHANGED reaped
       \/ reaped /\ reaped' = FALSE /\ UNCHANGED retireDue
    /\ UNCHANGED <<hub, pc, receiptVars, cancelOf, blocked, injectVars,
                   questionVars, failedVars, sendNowVars, retired, diskVars, meta,
                   generation, alive, unannounced, historyVars, crashes>>

\* retireSession.  Delivered ids are kept for receipt queries; an injection or
\* answer still in flight finds its actor replaced and is ignored.
Retire(ok) ==
    /\ Ready
    /\ ActorGone
    /\ retired' = retired \cup AdoptDelivered(delivered)
    /\ pendingQ' = NoQuestion
    /\ NewLedger
    /\ UNCHANGED <<hub, asked, cancelOf, home, meta, generation, alive, unannounced, crashes>>
    /\ Persist(ok)

\* session_retire from the engine that killed the session.
EngineRetires(ok) ==
    /\ retireDue
    /\ retireDue' = FALSE
    /\ pc' = "idle"
    /\ UNCHANGED reaped
    /\ Retire(ok)

\* tick, every 60 s: reaperTick looks at the sessions; when it has looked at all
\* of them the dead ones are retired and a journal that could not be written is
\* written again, and a queue blocked by it goes on.
ReaperFinds ==
    /\ hub = "up" /\ pc = "idle"
    /\ ~alive /\ ~reaped
    /\ reaped' = TRUE
    /\ UNCHANGED <<hub, pc, receiptVars, cancelOf, blocked, injectVars,
                   questionVars, failedVars, sendNowVars, retired, diskVars, meta,
                   generation, alive, retireDue, unannounced, historyVars, crashes>>

ReaperRetires(ok) ==
    /\ reaped
    /\ reaped' = FALSE
    /\ pc' = IF ok THEN "idle" ELSE "tick"
    /\ UNCHANGED retireDue
    /\ Retire(ok)

TickSaves(ok) ==
    /\ dirty
    /\ pc = "tick" \/ (hub = "up" /\ pc = "idle" /\ ~reaped)
    /\ blocked' = IF ok THEN FALSE ELSE blocked
    /\ pc' = IF ok /\ blocked THEN "drain" ELSE "idle"
    /\ UNCHANGED <<receiptVars, retired, meta>>
    /\ UNCHANGED <<hub, cancelOf, injectVars, questionVars, failedVars,
                   sendNowVars, lifeVars, historyVars, crashes>>
    /\ Persist(ok)
-----------------------------------------------------------------------------
\* The hub process.
Shutdown ==
    /\ hub = "up" /\ pc = "idle"
    /\ hub' = "draining"
    /\ UNCHANGED <<pc, receiptVars, cancelOf, blocked, injectVars,
                   questionVars, failedVars, sendNowVars, retired, diskVars,
                   sessionVars, historyVars, crashes>>

Gone ==
    /\ hub' = "down"
    /\ pc' = "idle"
    /\ ActorGone
    /\ retired' = {} /\ reaped' = FALSE
    /\ UNCHANGED <<pendingQ, asked, cancelOf, meta, generation, alive, retireDue,
                   unannounced, historyVars>>

\* drainForShutdown, then the process ends: with nothing in flight, or after
\* its time limit.  A dirty journal is written once more.
Stop(ok) ==
    /\ ShuttingDown /\ pc = "idle"
    /\ IF dirty /\ ok
       THEN journal' = Receipts /\ UNCHANGED writeFailures
       ELSE /\ UNCHANGED journal
            /\ writeFailures' = IF dirty THEN writeFailures + 1 ELSE writeFailures
            /\ dirty => writeFailures < MaxWriteFailures
    /\ dirty' = FALSE
    /\ Gone
    /\ UNCHANGED crashes

\* SIGKILL, power loss: at any point, also in the middle of a handler.
Crash ==
    /\ hub # "down" /\ crashes < MaxCrashes
    /\ crashes' = crashes + 1
    /\ dirty' = FALSE
    /\ UNCHANGED <<journal, writeFailures>>
    /\ Gone

\* A new hub: restorePendingQuestions, restoreChatReceipts, startRestoredDrains.
RestoredQuestion ==
    /\ pendingQ' = IF pendingQ \in NativeQuestions THEN NoQuestion ELSE pendingQ
    /\ UNCHANGED <<asked, answers, recheckQ, recheckLeft>>

\* Mutant of StartRestoredDrains: nothing is started.
StartNothing == pc' = "idle"

StartRestoredDrains == pc' = "drain"

\* Mutant of StaleJournal: identities are not compared.
NeverStale == FALSE

\* Receipts of another session of this name.
StaleJournal == journal.identity \notin {0, meta}

Done == journal.delivered \cup journal.deleted

\* Mutant of RestoredUncertain: what was being typed is forgotten.
ForgottenUncertain == {}

\* Whether keys went in before the crash is not known.
RestoredUncertain == journal.inflight \ Done

RestoreReceipts ==
    /\ hub = "down" /\ ~StaleJournal
    /\ pending' = journal.queued \ Done
    /\ uncertain' = RestoredUncertain
    /\ delivered' = journal.delivered
    /\ deleted' = journal.deleted
    /\ retired' = journal.retired
    /\ order' \in Sorted(pending' \cup uncertain', journal.order)
    /\ queue' \in Sorted(pending', journal.order)
    /\ hub' = "up" /\ StartRestoredDrains
    /\ RestoredQuestion
    /\ UNCHANGED <<cancelOf, blocked, injectVars, failedVars, sendNowVars,
                   diskVars, sessionVars, historyVars, crashes>>

\* Only the fact of past deliveries is taken over.
RestoreDiscards(ok) ==
    /\ hub = "down" /\ StaleJournal
    /\ retired' = journal.retired \cup AdoptDelivered(journal.delivered)
    /\ hub' = "up" /\ StartRestoredDrains
    /\ NewLedger
    /\ RestoredQuestion
    /\ UNCHANGED <<receiptVars, meta>>
    /\ UNCHANGED <<cancelOf, blocked, injectVars, failedVars, sendNowVars,
                   lifeVars, home, crashes>>
    /\ Persist(ok)
-----------------------------------------------------------------------------
\* The session itself.
SessionStep ==
    UNCHANGED <<hub, pc, receiptVars, cancelOf, blocked, injectVars,
                questionVars, failedVars, sendNowVars, retired, diskVars, reaped,
                historyVars, crashes>>

\* killSessionForUser: the pane first, then session_retire.
SessionKilled ==
    /\ SessionStep
    /\ alive /\ ~retireDue
    /\ alive' = FALSE /\ retireDue' = TRUE
    /\ UNCHANGED <<meta, generation, unannounced>>

\* The agent exits, the user or the reaper closes the pane.
SessionDies ==
    /\ SessionStep
    /\ alive /\ unannounced < MaxUnannounced
    /\ alive' = FALSE /\ unannounced' = unannounced + 1
    /\ UNCHANGED <<meta, generation, retireDue>>

\* The engine ends before it reaches a hub.
RetireLost ==
    /\ SessionStep
    /\ hub = "down" /\ retireDue /\ unannounced < MaxUnannounced
    /\ retireDue' = FALSE /\ unannounced' = unannounced + 1
    /\ UNCHANGED <<meta, generation, alive>>

\* launchCore.  A hub that is up gets session_retire before the engine's next
\* request, a launch, is through.
SessionLaunched ==
    /\ SessionStep
    /\ ~alive /\ generation < MaxGenerations
    /\ retireDue => hub = "down"
    /\ generation' = generation + 1 /\ alive' = TRUE
    /\ meta' = meta + 1
    /\ UNCHANGED <<retireDue, unannounced>>

\* The same with the session alive: createdAt and the pane id are recorded anew.
SessionRerecorded ==
    /\ SessionStep
    /\ alive /\ meta < generation + MaxRerecords
    /\ meta' = meta + 1
    /\ UNCHANGED <<generation, alive, retireDue, unannounced>>
-----------------------------------------------------------------------------
Client ==
    \/ \E m \in Msgs, cq \in CancelChoices :
          \/ SendAnswered(m, cq)
          \/ SendJoins(m, cq)
          \/ \E ok \in BOOLEAN : SendRetry(m, cq, ok) \/ SendNew(m, cq, ok)
    \/ \E m \in Msgs, ok \in BOOLEAN : DeleteMissing(m, ok) \/ DeleteQueued(m, ok)
    \/ SendNowRequest

Drain == DrainCall \/ LoopExit \/ LoopInject \/ LoopWriteFails

InjectionEnds ==
    \E ok \in BOOLEAN :
        InjectSucceeds(ok) \/ InjectRejected(ok) \/ InjectDeferred(ok) \/ InjectFails(ok)
Injector == ChoiceCancelled \/ BeginTyping \/ PaneSubmit \/ InjectionEnds

AnswerEnds(q) == AnswerStale(q) \/ AnswerDone(q) \/ AnswerFails(q)
Question ==
    \/ QuestionClosed
    \/ \E visible \in BOOLEAN : RecheckFires(visible)
    \/ \E q \in Questions :
          \/ QuestionAsked(q) \/ RelayDismiss(q) \/ AnswerSubmit(q)
          \/ \E how \in {"keys", "text"} : AnswerProbed(q, how)
          \/ AnswerEnds(q)

SendNowCall == SendNowLater \/ SendNowAnswered \/ SendNowBegins

Process ==
    \/ Shutdown
    \/ Crash
    \/ RestoreReceipts
    \/ ReaperFinds
    \/ NothingToRetire
    \/ \E ok \in BOOLEAN :
          \/ TickSaves(ok)
          \/ EngineRetires(ok)
          \/ ReaperRetires(ok)
          \/ Stop(ok)
          \/ RestoreDiscards(ok)

Session == SessionKilled \/ SessionDies \/ RetireLost \/ SessionLaunched \/ SessionRerecorded

Next == Client \/ Drain \/ Injector \/ Question \/ SendNowCall \/ SendNowDone
        \/ Process \/ Session

Spec == Init /\ [][Next]_vars

\* The event loop serves what is due: a started stretch goes on, and an
\* injector, an answer or a chord settles, though other events may be served
\* first (strong fairness).  A stopped hub is started again by the next engine,
\* a stopping one stops, and a question is closed by its turn or its user.
PaneSettles == InjectionEnds \/ SendNowDone \/ \E q \in Questions : AnswerEnds(q)
FairSpec ==
    /\ Spec
    /\ WF_vars(Drain) /\ WF_vars(SendNowCall)
    /\ SF_vars(PaneSettles)
    /\ SF_vars(QuestionClosed)
    /\ SF_vars(\E ok \in BOOLEAN : Stop(ok))
    /\ WF_vars(RestoreReceipts \/ \E ok \in BOOLEAN : RestoreDiscards(ok))
-----------------------------------------------------------------------------
Phases == {"none", "checking", "typing", "typed"}
Receipt == [queued : SUBSET Msgs, inflight : SUBSET Msgs, order : Seq(Msgs),
            delivered : SUBSET Msgs, deleted : SUBSET Msgs,
            identity : Nat, retired : SUBSET Msgs]

TypeOK ==
    /\ hub \in {"up", "draining", "down"}
    /\ pc \in {"idle", "drain", "loop", "sendNow", "drainThenSendNow", "tick"}
    /\ queue \in Seq(Msgs) /\ order \in Seq(Msgs)
    /\ pending \subseteq Msgs /\ uncertain \subseteq Msgs
    /\ delivered \subseteq Msgs /\ deleted \subseteq Msgs /\ retired \subseteq Msgs
    /\ cancelOf \in [Msgs -> Questions \cup {NoQuestion}]
    /\ blocked \in BOOLEAN
    /\ injMsg \in Msgs \cup {NoMsg} /\ injQ \in Questions \cup {NoQuestion}
    /\ phase \in Phases
    /\ phase = "none" <=> injMsg = NoMsg
    /\ phase = "none" => injQ = NoQuestion
    /\ pendingQ \in Questions \cup {NoQuestion} /\ asked \subseteq Questions
    /\ answers \in [Questions -> {"none", "probe", "keys", "text"}]
    /\ recheckQ \in Questions \cup {NoQuestion} /\ recheckLeft \in Nat
    /\ failedQ \in Questions \cup {NoQuestion} /\ failedMsgs \subseteq Msgs
    /\ sendNowWaiting \in Nat /\ sendNowRunning \in BOOLEAN
    /\ dirty \in BOOLEAN /\ journal \in Receipt
    /\ meta \in Nat /\ generation \in Nat /\ alive \in BOOLEAN
    /\ retireDue \in BOOLEAN /\ reaped \in BOOLEAN /\ unannounced \in Nat
    /\ typed \in [Msgs -> Nat] /\ retried \in [Msgs -> Nat] /\ home \in [Msgs -> Nat] /\ erased \subseteq Msgs
    /\ crashes \in Nat /\ writeFailures \in Nat

\* Without an explicit retry by the user a message is executed at most once while
\* the session's ledger lasts, whatever crashes, failed writes and resends happen
\* (drainChatQueue writes "injecting" before the first key; restoreChatReceipts
\* never queues such a message again).  retireSession starts a new ledger.
AtMostOnce == \A m \in Msgs : typed[m] <= 1 + retried[m]

\* The queue, the order and the maps describe one state: nothing is lost from
\* one of them or left in two by a rollback (chat_send, deletePendingChatMessage,
\* drainChatQueue).
QueueMatchesMaps ==
    /\ Injective(queue) /\ Elements(queue) = pending \ Injecting
    /\ Injective(order) /\ Elements(order) = pending \cup uncertain
    /\ Injecting \subseteq pending
    /\ pending \cap uncertain = {}
    /\ (pending \cup uncertain) \cap (delivered \cup deleted) = {}

\* The queue is sorted by chatOrder.  Otherwise its head never becomes the head
\* of the order and drainChatQueue stops for good.
QueueSorted ==
    \A i, j \in 1..Len(queue) :
        i < j => Position(order, queue[i]) < Position(order, queue[j])

\* A message the hub has taken on is in the journal, so no crash loses it.
Durable == pending \cup uncertain \subseteq journal.queued \cup journal.inflight

\* A restart does not swap two messages: chatOrder of the journal agrees with
\* chatOrder in memory.
Agree(s, t) ==
    \A i, j \in 1..Len(s) :
        i < j /\ s[i] \in Elements(t) /\ s[j] \in Elements(t)
            => Position(t, s[i]) < Position(t, s[j])
OrderAgrees == Agree(order, journal.order)

\* The queue, the order and the order in the journal name the messages in one
\* sequence.
QueueOrdered == QueueSorted /\ OrderAgrees

\* chat_receipt_query: what the journal has as delivered is answered "delivered"
\* by a living hub, also after the session is retired or replaced.
KnownDelivered == journal.delivered \cup journal.retired
ReceiptAnswered == hub # "down" => KnownDelivered \subseteq delivered \cup retired

\* The journal never forgets a delivery.
DeliveryKept == [][KnownDelivered \subseteq KnownDelivered']_vars

\* A message is not executed once the user was told that it is deleted, neither
\* by a late resend nor after a restart (the tombstone of
\* deletePendingChatMessage), as long as its receipts are kept: retireSession,
\* and a restart that takes the receipts for another session's, drop the
\* tombstone with them, and a resend after that is executed.
ErasedNeverTyped == [][\A m \in erased : typed'[m] <= typed[m]]_vars

\* The chat injection and the send-now chord never hold the pane together, and
\* no answer goes to the question the injection is pressing Esc on
\* (sendNowRunning, chatDrainRunning, cancellingQuestionId).  Other answers are
\* not covered: question_answer_submit starts one beside the chord or beside an
\* injection that has begun, without waiting for either.
PaneExclusive ==
    /\ ~(DrainRunning /\ sendNowRunning)
    /\ \A q \in Questions : answers[q] # "none" => injQ # q

\* An injection never starts while answer keys, or the chord, are going in, and
\* never over a question nobody asked to skip.
InjectionWaits ==
    [][phase = "none" /\ phase' # "none" =>
          /\ Answering = {} /\ ~sendNowRunning
          /\ pendingQ # NoQuestion =>
                /\ pendingQ \in TuiQuestions
                /\ \E m \in pending : cancelOf[m] = pendingQ]_vars

\* Wake-ups: when the hub is idle and no question is open, there is no message
\* it could inject and does not, other than behind a failed journal write: every
\* handler that lifts a reason to wait calls drainChatQueue.
NoLostWakeup ==
    hub = "up" /\ pc = "idle" /\ MayDrain /\ pendingQ = NoQuestion => ~HeadInOrder

\* The two that wait for each other, injection and chord, never use the pane
\* together (answers apart, see PaneExclusive), and it is never left unused while
\* a message could go in.
PaneSound == PaneExclusive /\ NoLostWakeup

\* A restart never gives a live session what was sent to an earlier one of its
\* name (the identity check of restoreChatReceipts), given that every end of a
\* session was announced and that its retirement reached the disk.
RestoredBelongs ==
    [][hub = "down" /\ hub' # "down" /\ alive /\ unannounced = 0 /\ writeFailures = 0 =>
          \A m \in pending' \cup uncertain' : home[m] \in {0, generation}]_vars

\* A message in the journal outlives the process: when the session it was sent
\* to still runs, the next hub has it queued, or uncertain when it was being
\* typed (restoreChatReceipts).
RestartRestores ==
    [][hub = "down" /\ hub' # "down" =>
          \A m \in Msgs :
              alive /\ home[m] = generation /\ m \notin journal.delivered \cup journal.deleted =>
                  /\ m \in journal.queued => m \in pending'
                  /\ m \in journal.inflight => m \in uncertain']_vars

\* A restart brings back what belongs to the session that runs, and nothing else.
RestartExact == RestartRestores /\ RestoredBelongs

\* A pending question gives way only to a newer one, never to an older one that
\* a failed answer or a recheck brings back (question_answer_submit,
\* recheckStaleQuestion).
NewestQuestionStays ==
    [][pendingQ # NoQuestion => pendingQ' \in {pendingQ, NoQuestion} \cup (Questions \ asked)]_vars

\* What happens to the pane while an answer or an injection waits for it: neither
\* starts over the other, and neither brings back what it found.
PaneSteps == InjectionWaits /\ NewestQuestionStays

\* A message taken on does not stay queued for ever once hubs stop being
\* restarted, unless an uncertain message is in front of it.
InQueue(m) == m \in pending \/ (hub = "down" /\ m \in journal.queued)
QueueMoves ==
    <>[](hub = "up") => \A m \in Msgs : InQueue(m) ~> (~InQueue(m) \/ uncertain # {})

\* Every send-now request gets an answer, if messages do not keep the drain loop
\* busy for ever (runSendNow, and the finally block of drainChatQueue that calls it).
PaneFree == pc = "idle" /\ phase = "none"
SendNowServed == []<>PaneFree => (sendNowWaiting > 0 ~> sendNowWaiting = 0)
-----------------------------------------------------------------------------
\* The promise (MessageLife) and how the state of the hub stands for it.

LifeOnDisk(m) ==
    IF m \in journal.deleted THEN "deleted"
    ELSE IF m \in journal.delivered THEN "delivered"
    ELSE IF m \in journal.inflight THEN "unsure"
    ELSE IF m \in journal.queued THEN "waiting"
    ELSE "none"

LifeInHands == CASE phase = "checking" -> "taken" [] phase = "typing" -> "typing"
                 [] OTHER -> "typed"
LifeInMemory(m) ==
    IF m = injMsg THEN LifeInHands
    ELSE IF m \in deleted THEN "deleted"
    ELSE IF m \in delivered THEN "delivered"
    ELSE IF m \in uncertain THEN "unsure"
    ELSE IF m \in pending THEN "waiting"
    ELSE "none"

Life == INSTANCE MessageLife WITH
    life  <- [m \in Msgs |-> IF hub = "down" THEN LifeOnDisk(m) ELSE LifeInMemory(m)],
    kept  <- [m \in Msgs |-> LifeOnDisk(m)],
    times <- typed,
    tries <- retried

\* The hub keeps the promise: whatever it queues, sorts, retries, rolls back, crashes on
\* and restores is, for every message, a step of its life with the disk written ahead
\* (chat_send, deletePendingChatMessage, drainChatQueue, persistChatReceipts,
\* retireSession, restoreChatReceipts).
LifeKept == Life!Spec
=============================================================================
