------------------------- MODULE ChatDeliveryProofs -------------------------
(***************************************************************************)
(* Theorems about ChatDelivery, for every set of messages and questions    *)
(* and every bound.                                                        *)
(***************************************************************************)
EXTENDS ChatDelivery, OrderedIdsProofs
-----------------------------------------------------------------------------
(***************************************************************************)
(* The inductive invariant.                                                *)
(***************************************************************************)

\* Executed, and not sent again by the user since.
Spent(m) == typed[m] > retried[m]

\* Where a living hub has its spent messages: it has no other reason left to
\* type them.
Settled == uncertain \cup delivered \cup deleted \cup (IF phase = "typed" THEN {injMsg} ELSE {})

Ledger ==
    \A m \in Msgs :
        /\ typed[m] <= 1 + retried[m]
        /\ hub # "down" /\ Spent(m) => m \in Settled

\* A journal from which no spent message is queued again.
SafeJournal(j) ==
    /\ IsFiniteSet(j.queued \cup j.inflight)
    /\ j.queued \cap j.inflight = {}
    /\ \A m \in Msgs : Spent(m) => m \in j.inflight \cup j.delivered \cup j.deleted

\* What the journal owes to the message in the injector, and to deleted ones.
JournalMarks ==
    /\ Injecting \subseteq journal.inflight
    /\ (pending \cup uncertain) \cap journal.deleted = {}

DownIsEmpty ==
    hub = "down" =>
        /\ pc = "idle"
        /\ queue = <<>> /\ order = <<>> /\ phase = "none"
        /\ pending = {} /\ uncertain = {} /\ delivered = {} /\ deleted = {}

\* The loop of drainChatQueue does not run while it awaits the injector.
LoopAlone == pc = "loop" => phase = "none"

Inv ==
    /\ TypeOK /\ DownIsEmpty /\ LoopAlone /\ QueueMatchesMaps /\ Ledger
    /\ SafeJournal(journal) /\ JournalMarks /\ Durable /\ ReceiptAnswered
-----------------------------------------------------------------------------
(***************************************************************************)
(* Type correctness of every step.                                         *)
(***************************************************************************)
LEMMA PersistType ==
    ASSUME TypeOK, NEW ok \in BOOLEAN, Persist(ok), order' \in Seq(Msgs),
           pending' \subseteq Msgs, uncertain' \subseteq Msgs, delivered' \subseteq Msgs,
           deleted' \subseteq Msgs, retired' \subseteq Msgs, meta' \in Nat
    PROVE  dirty' \in BOOLEAN /\ journal' \in Receipt /\ writeFailures' \in Nat
BY DEF TypeOK, Persist, Receipts, Receipt, Injecting, NothingKept

LEMMA ClientType ==
    ASSUME TypeOK, QueueMatchesMaps, Client
    PROVE  TypeOK'
<1> USE DEF TypeOK, receiptVars, injectVars, questionVars, failedVars, sendNowVars,
            sessionVars, lifeVars, historyVars
<1>1. ASSUME NEW m \in Msgs, NEW cq \in CancelChoices
      PROVE  /\ cq \in Questions \cup {NoQuestion}
             /\ ForgetFailure(m, cq) => /\ failedQ' \in Questions \cup {NoQuestion}
                                        /\ failedMsgs' \subseteq Msgs
  BY DEF ForgetFailure, CancelChoices
<1>2. ASSUME NEW m \in Msgs, NEW cq \in CancelChoices, SendAnswered(m, cq)
      PROVE  TypeOK'
  BY <1>1, <1>2 DEF SendAnswered, diskVars
<1>3. ASSUME NEW m \in Msgs, NEW cq \in CancelChoices, SendJoins(m, cq)
      PROVE  TypeOK'
  BY <1>1, <1>3, ZenonT(60) DEF SendJoins, diskVars
<1>4. ASSUME NEW m \in Msgs, NEW cq \in CancelChoices, NEW ok \in BOOLEAN, SendRetry(m, cq, ok)
      PROVE  TypeOK'
  <2>1. AtFront(m) \in Seq(Msgs)
    BY DEF AtFront
  <2>2. dirty' \in BOOLEAN /\ journal' \in Receipt /\ writeFailures' \in Nat
    BY <1>4, PersistType DEF SendRetry
  <2>3. failedQ' \in Questions \cup {NoQuestion} /\ failedMsgs' \subseteq Msgs
    BY <1>1, <1>4 DEF SendRetry
  <2>4. CASE ok
    <3>1. [cancelOf EXCEPT ![m] = cq] \in [Msgs -> Questions \cup {NoQuestion}]
      BY <1>1
    <3>2. [retried EXCEPT ![m] = @ + 1] \in [Msgs -> Nat]
      OBVIOUS
    <3>3. queue' \in Seq(Msgs) /\ pending' \subseteq Msgs /\ uncertain' \subseteq Msgs
      BY <1>4, <2>1, <2>4 DEF SendRetry
    <3>4. /\ cancelOf' \in [Msgs -> Questions \cup {NoQuestion}]
          /\ retried' \in [Msgs -> Nat]
      BY <1>4, <2>4, <3>1, <3>2 DEF SendRetry
    <3> QED
      BY <1>4, <2>2, <2>3, <2>4, <3>3, <3>4, ZenonT(60) DEF SendRetry
  <2>5. CASE ~ok
    BY <1>4, <2>2, <2>3, <2>5, SMTT(60) DEF SendRetry
  <2> QED
    BY <2>4, <2>5
<1>5. ASSUME NEW m \in Msgs, NEW cq \in CancelChoices, NEW ok \in BOOLEAN, SendNew(m, cq, ok)
      PROVE  TypeOK'
  <2>1. Append(queue, m) \in Seq(Msgs) /\ Append(order, m) \in Seq(Msgs)
    OBVIOUS
  <2>2. order' \in Seq(Msgs) /\ pending' \subseteq Msgs
    BY <1>5, <2>1 DEF SendNew
  <2>3. dirty' \in BOOLEAN /\ journal' \in Receipt /\ writeFailures' \in Nat
    BY <1>5, <2>2, PersistType DEF SendNew
  <2>4. failedQ' \in Questions \cup {NoQuestion} /\ failedMsgs' \subseteq Msgs
    BY <1>1, <1>5 DEF SendNew
  <2>5. CASE ok
    <3>1. [cancelOf EXCEPT ![m] = cq] \in [Msgs -> Questions \cup {NoQuestion}]
      BY <1>1
    <3>2. [home EXCEPT ![m] = IF alive THEN generation ELSE 0] \in [Msgs -> Nat]
      OBVIOUS
    <3> QED
      BY <1>5, <2>1, <2>2, <2>3, <2>4, <2>5, <3>1, <3>2, ZenonT(60) DEF SendNew
  <2>6. CASE ~ok
    BY <1>5, <2>3, <2>4, <2>6, SMTT(60) DEF SendNew
  <2> QED
    BY <2>5, <2>6
<1>6. ASSUME NEW m \in Msgs, NEW ok \in BOOLEAN, DeleteMissing(m, ok)
      PROVE  TypeOK'
  <2>1. dirty' \in BOOLEAN /\ journal' \in Receipt /\ writeFailures' \in Nat
    BY <1>6, PersistType DEF DeleteMissing
  <2> QED
    BY <1>6, <2>1 DEF DeleteMissing, TellDeleted
<1>7. ASSUME NEW m \in Msgs, NEW ok \in BOOLEAN, DeleteQueued(m, ok)
      PROVE  TypeOK'
  <2>1. Without(queue, m) \in Seq(Msgs) /\ Without(order, m) \in Seq(Msgs)
    BY WithoutElements DEF QueueMatchesMaps
  <2>2. dirty' \in BOOLEAN /\ journal' \in Receipt /\ writeFailures' \in Nat
    BY <1>7, <2>1, PersistType DEF DeleteQueued
  <2>3. CASE ok
    BY <1>7, <2>1, <2>2, <2>3, ZenonT(60) DEF DeleteQueued, TellDeleted
  <2>4. CASE ~ok
    BY <1>7, <2>2, <2>4, SMTT(60) DEF DeleteQueued, TellDeleted
  <2> QED
    BY <2>3, <2>4
<1>8. ASSUME SendNowRequest
      PROVE  TypeOK'
  BY <1>8 DEF SendNowRequest, SendNowStep, diskVars
<1> QED
  BY <1>2, <1>3, <1>4, <1>5, <1>6, <1>7, <1>8 DEF Client

LEMMA DrainType ==
    ASSUME TypeOK, QueueMatchesMaps, Drain
    PROVE  TypeOK'
<1> USE DEF TypeOK, receiptVars, injectVars, questionVars, failedVars, sendNowVars,
            sessionVars, lifeVars, historyVars
<1>1. CASE DrainCall
  BY <1>1 DEF DrainCall, diskVars
<1>2. CASE LoopExit
  BY <1>2 DEF LoopExit, AfterLoop, diskVars
<1>3. CASE LoopInject
  <2>1. Tail(queue) \in Seq(Msgs) /\ Head(queue) \in Msgs
    BY <1>3, TailElements DEF LoopInject, MayInject, HeadInOrder, QueueMatchesMaps
  <2>2. dirty' \in BOOLEAN /\ journal' \in Receipt /\ writeFailures' \in Nat
    BY <1>3, PersistType DEF LoopInject
  <2> QED
    BY <1>3, <2>1, <2>2, MsgAssumption, SMTT(60) DEF LoopInject, Phases
<1>4. CASE LoopWriteFails
  <2>1. dirty' \in BOOLEAN /\ journal' \in Receipt /\ writeFailures' \in Nat
    BY <1>4, PersistType DEF LoopWriteFails
  <2> QED
    BY <1>4, <2>1 DEF LoopWriteFails
<1> QED
  BY <1>1, <1>2, <1>3, <1>4 DEF Drain

LEMMA InjectorType ==
    ASSUME TypeOK, QueueMatchesMaps, Injector
    PROVE  TypeOK'
<1> USE DEF TypeOK, Phases, receiptVars, injectVars, questionVars, failedVars,
            sendNowVars, sessionVars, lifeVars, historyVars
<1>1. CASE ChoiceCancelled
  BY <1>1 DEF ChoiceCancelled, ResolveCancelled, diskVars
<1>2. CASE BeginTyping
  BY <1>2 DEF BeginTyping, diskVars
<1>3. CASE PaneSubmit
  <2>1. typed' \in [Msgs -> Nat]
    BY <1>3 DEF PaneSubmit
  <2> QED
    BY <1>3, <2>1 DEF PaneSubmit, diskVars
<1>4. ASSUME NEW ok \in BOOLEAN, InjectSucceeds(ok)
      PROVE  TypeOK'
  <2>1. injMsg \in Msgs
    BY <1>4 DEF InjectSucceeds
  <2>2. Without(order, injMsg) \in Seq(Msgs)
    BY WithoutElements DEF QueueMatchesMaps
  <2>3. pendingQ' \in Questions \cup {NoQuestion}
    BY <1>4 DEF InjectSucceeds, ResolveCancelled
  <2>4. cancelOf' \in [Msgs -> Questions \cup {NoQuestion}]
    BY <1>4 DEF InjectSucceeds
  <2>5. dirty' \in BOOLEAN /\ journal' \in Receipt /\ writeFailures' \in Nat
    BY <1>4, <2>1, <2>2, PersistType DEF InjectSucceeds
  <2> QED
    BY <1>4, <2>1, <2>2, <2>3, <2>4, <2>5 DEF InjectSucceeds, ResolveCancelled, InjectionOver
<1>5. NoteCancelFailed /\ phase # "none" =>
        failedQ' \in Questions \cup {NoQuestion} /\ failedMsgs' \subseteq Msgs
  BY DEF NoteCancelFailed
<1>6. ASSUME NEW ok \in BOOLEAN, InjectRejected(ok)
      PROVE  TypeOK'
  <2>1. Without(order, injMsg) \in Seq(Msgs)
    BY WithoutElements DEF QueueMatchesMaps
  <2>2. cancelOf' \in [Msgs -> Questions \cup {NoQuestion}]
    BY <1>6 DEF InjectRejected
  <2>3. dirty' \in BOOLEAN /\ journal' \in Receipt /\ writeFailures' \in Nat
    BY <1>6, <2>1, PersistType DEF InjectRejected
  <2> QED
    BY <1>5, <1>6, <2>1, <2>2, <2>3 DEF InjectRejected, InjectionOver
<1>7. ASSUME NEW ok \in BOOLEAN, InjectDeferred(ok)
      PROVE  TypeOK'
  <2>1. injMsg \in Msgs /\ AtFront(injMsg) \in Seq(Msgs)
    BY <1>7 DEF InjectDeferred, AtFront
  <2>2. dirty' \in BOOLEAN /\ journal' \in Receipt /\ writeFailures' \in Nat
    BY <1>7, PersistType DEF InjectDeferred
  <2> QED
    BY <1>7, <2>1, <2>2 DEF InjectDeferred, InjectionOver
<1>8. ASSUME NEW ok \in BOOLEAN, InjectFails(ok)
      PROVE  TypeOK'
  <2>1. injMsg \in Msgs
    BY <1>8 DEF InjectFails
  <2>2. cancelOf' \in [Msgs -> Questions \cup {NoQuestion}]
    BY <1>8 DEF InjectFails
  <2>3. dirty' \in BOOLEAN /\ journal' \in Receipt /\ writeFailures' \in Nat
    BY <1>8, <2>1, PersistType DEF InjectFails
  <2> QED
    BY <1>5, <1>8, <2>1, <2>2, <2>3 DEF InjectFails, InjectionOver
<1> QED
  BY <1>1, <1>2, <1>3, <1>4, <1>6, <1>7, <1>8 DEF Injector, InjectionEnds

LEMMA QuestionType ==
    ASSUME TypeOK, Question
    PROVE  TypeOK'
<1> USE DEF TypeOK, QuestionStep, receiptVars, injectVars, failedVars, sendNowVars,
            diskVars, sessionVars, historyVars
<1>1. CASE QuestionClosed
  BY <1>1 DEF QuestionClosed
<1>2. ASSUME NEW visible \in BOOLEAN, RecheckFires(visible)
      PROVE  TypeOK'
  BY <1>2 DEF RecheckFires, BroughtBack
<1>3. ASSUME NEW q \in Questions, QuestionAsked(q)
      PROVE  TypeOK'
  BY <1>3 DEF QuestionAsked
<1>4. ASSUME NEW q \in Questions, RelayDismiss(q)
      PROVE  TypeOK'
  BY <1>4 DEF RelayDismiss
<1>5. ASSUME NEW q \in Questions, AnswerSubmit(q)
      PROVE  TypeOK'
  <2>1. answers' \in [Questions -> {"none", "probe", "keys", "text"}]
    BY <1>5 DEF AnswerSubmit
  <2> QED
    BY <1>5, <2>1 DEF AnswerSubmit
<1>6. ASSUME NEW q \in Questions, NEW how \in {"keys", "text"}, AnswerProbed(q, how)
      PROVE  TypeOK'
  BY <1>6 DEF AnswerProbed
<1>7. ASSUME NEW q \in Questions, AnswerEnds(q)
      PROVE  TypeOK'
  <2>1. /\ answers' \in [Questions -> {"none", "probe", "keys", "text"}]
        /\ pc' = "drain"
    BY <1>7 DEF AnswerEnds, AnswerStale, AnswerDone, AnswerFails, AnswerOver
  <2>2. /\ pendingQ' \in Questions \cup {NoQuestion} /\ asked' = asked
        /\ recheckQ' \in Questions \cup {NoQuestion} /\ recheckLeft' \in Nat
    BY <1>7, BoundAssumption
    DEF AnswerEnds, AnswerStale, AnswerDone, AnswerFails, BroughtBack
  <2>3. QuestionStep
    BY <1>7 DEF AnswerEnds, AnswerStale, AnswerDone, AnswerFails
  <2> QED
    BY <2>1, <2>2, <2>3
<1> QED
  BY <1>1, <1>2, <1>3, <1>4, <1>5, <1>6, <1>7 DEF Question

LEMMA SendNowType ==
    ASSUME TypeOK, SendNowCall \/ SendNowDone
    PROVE  TypeOK'
<1>1. sendNowRunning' \in BOOLEAN /\ pc' \in {"idle", "drain", "drainThenSendNow"}
  <2>1. sendNowRunning \in BOOLEAN
    BY DEF TypeOK
  <2>2. sendNowRunning' = sendNowRunning \/ sendNowRunning' = TRUE \/ sendNowRunning' = FALSE
    BY DEF SendNowCall, SendNowLater, SendNowAnswered, SendNowBegins, SendNowDone, sendNowVars
  <2>3. pc' = "idle" \/ pc' = "drain" \/ pc' = "drainThenSendNow"
    BY DEF SendNowCall, SendNowLater, SendNowAnswered, SendNowBegins, SendNowDone
  <2> QED
    BY <2>1, <2>2, <2>3
<1>2. sendNowWaiting' \in Nat
  <2>1. sendNowWaiting' = sendNowWaiting \/ sendNowWaiting' = 0
    BY DEF SendNowCall, SendNowLater, SendNowAnswered, SendNowBegins, SendNowDone, sendNowVars
  <2> QED
    BY <2>1 DEF TypeOK
<1>3. SendNowStep
  BY DEF SendNowCall, SendNowLater, SendNowAnswered, SendNowBegins, SendNowDone
<1>4. UNCHANGED <<hub, receiptVars, cancelOf, blocked, injectVars, questionVars, failedVars, retired,
                  diskVars, sessionVars, historyVars, crashes>>
  BY <1>3 DEF SendNowStep
<1> QED
  BY <1>1, <1>2, <1>4 DEF TypeOK, receiptVars, injectVars, questionVars, failedVars, diskVars,
     sessionVars, historyVars

LEMMA SessionType ==
    ASSUME TypeOK, Session
    PROVE  TypeOK'
<1> USE DEF TypeOK, SessionStep, receiptVars, injectVars, questionVars, failedVars,
            sendNowVars, diskVars, historyVars
<1>1. CASE SessionKilled
  <2>1. alive' \in BOOLEAN /\ retireDue' \in BOOLEAN
    BY <1>1 DEF SessionKilled
  <2>2. unannounced' \in Nat
    BY <1>1 DEF SessionKilled
  <2> QED
    BY <1>1, <2>1, <2>2 DEF SessionKilled
<1>2. CASE SessionDies
  <2>1. alive' \in BOOLEAN /\ retireDue' \in BOOLEAN
    BY <1>2 DEF SessionDies
  <2>2. unannounced' \in Nat
    BY <1>2 DEF SessionDies
  <2> QED
    BY <1>2, <2>1, <2>2 DEF SessionDies
<1>3. CASE RetireLost
  <2>1. alive' \in BOOLEAN /\ retireDue' \in BOOLEAN
    BY <1>3 DEF RetireLost
  <2>2. unannounced' \in Nat
    BY <1>3 DEF RetireLost
  <2> QED
    BY <1>3, <2>1, <2>2 DEF RetireLost
<1>4. CASE SessionLaunched
  BY <1>4 DEF SessionLaunched
<1>5. CASE SessionRerecorded
  BY <1>5 DEF SessionRerecorded
<1> QED
  BY <1>1, <1>2, <1>3, <1>4, <1>5 DEF Session

LEMMA RetireType ==
    ASSUME TypeOK, NEW ok \in BOOLEAN, Retire(ok),
           pc' \in {"idle", "tick"}, retireDue' \in BOOLEAN, reaped' \in BOOLEAN
    PROVE  TypeOK'
<1> USE DEF TypeOK, Phases, Retire, ActorGone, NewLedger
<1>1. retired' \subseteq Msgs
  BY DEF AdoptDelivered
<1>2. dirty' \in BOOLEAN /\ journal' \in Receipt /\ writeFailures' \in Nat
  BY <1>1, PersistType
<1>3. /\ typed' \in [Msgs -> Nat] /\ retried' \in [Msgs -> Nat]
      /\ answers' \in [Questions -> {"none", "probe", "keys", "text"}]
  OBVIOUS
<1>4. /\ blocked' \in BOOLEAN /\ sendNowRunning' \in BOOLEAN /\ alive' \in BOOLEAN
  OBVIOUS
<1> QED
  BY <1>1, <1>2, <1>3, <1>4

LEMMA GoneType ==
    ASSUME TypeOK, Gone, dirty' \in BOOLEAN, journal' \in Receipt,
           writeFailures' \in Nat, crashes' \in Nat
    PROVE  TypeOK'
<1>1. answers' \in [Questions -> {"none", "probe", "keys", "text"}]
  BY DEF Gone, ActorGone
<1>2. /\ queue' \in Seq(Msgs) /\ order' \in Seq(Msgs)
      /\ pending' \subseteq Msgs /\ uncertain' \subseteq Msgs
      /\ delivered' \subseteq Msgs /\ deleted' \subseteq Msgs /\ retired' \subseteq Msgs
  BY DEF Gone, ActorGone
<1>3. /\ blocked' \in BOOLEAN /\ injMsg' = NoMsg /\ injQ' = NoQuestion /\ phase' = "none"
      /\ recheckQ' = NoQuestion /\ recheckLeft' = 0 /\ failedQ' = NoQuestion
      /\ failedMsgs' = {} /\ sendNowWaiting' = 0 /\ sendNowRunning' \in BOOLEAN
      /\ reaped' \in BOOLEAN /\ hub' = "down" /\ pc' = "idle"
  BY DEF Gone, ActorGone
<1>4. UNCHANGED <<pendingQ, asked, cancelOf, meta, generation, alive, retireDue,
                  unannounced, typed, retried, home, erased>>
  BY DEF Gone, historyVars
<1> QED
  BY <1>1, <1>2, <1>3, <1>4 DEF TypeOK, Phases

LEMMA ProcessType ==
    ASSUME TypeOK, SafeJournal(journal), Process
    PROVE  TypeOK'
<1> USE DEF TypeOK, receiptVars, injectVars, questionVars, failedVars, sendNowVars,
            sessionVars, lifeVars, historyVars
<1>1. CASE Shutdown
  BY <1>1 DEF Shutdown, diskVars
<1>2. CASE Crash
  <2>1. Gone /\ dirty' \in BOOLEAN
    BY <1>2 DEF Crash
  <2>2. journal' \in Receipt /\ writeFailures' \in Nat /\ crashes' \in Nat
    BY <1>2 DEF Crash
  <2> QED
    BY <2>1, <2>2, GoneType
<1>3. CASE RestoreReceipts
  <2>1. /\ journal.queued \subseteq Msgs /\ journal.inflight \subseteq Msgs
        /\ journal.delivered \subseteq Msgs /\ journal.deleted \subseteq Msgs
        /\ journal.retired \subseteq Msgs
    BY DEF Receipt
  <2>2. /\ pending' \subseteq Msgs /\ uncertain' \subseteq Msgs
        /\ pending' \cup uncertain' \subseteq journal.queued \cup journal.inflight
        /\ pending' \subseteq journal.queued \cup journal.inflight
    BY <1>3, <2>1 DEF RestoreReceipts, RestoredUncertain
  <2>3. IsFiniteSet(pending') /\ IsFiniteSet(pending' \cup uncertain')
    BY <2>2, FS_Subset DEF SafeJournal
  <2>4. queue' \in Seq(Msgs) /\ order' \in Seq(Msgs)
    <3>1. /\ queue' \in Sorted(pending', journal.order)
          /\ order' \in Sorted(pending' \cup uncertain', journal.order)
      BY <1>3 DEF RestoreReceipts
    <3>2. queue' \in Seq(pending') /\ order' \in Seq(pending' \cup uncertain')
      BY <2>3, <3>1, SortedElements
    <3> QED
      BY <2>2, <3>2, SeqMonotonic
  <2>5. /\ pending' \subseteq Msgs /\ uncertain' \subseteq Msgs /\ delivered' \subseteq Msgs
        /\ deleted' \subseteq Msgs /\ retired' \subseteq Msgs
        /\ hub' = "up" /\ pc' = "drain" /\ pendingQ' \in Questions \cup {NoQuestion}
    BY <1>3, <2>1, <2>2 DEF RestoreReceipts, RestoredQuestion, StartRestoredDrains
  <2>6. UNCHANGED <<cancelOf, blocked, injectVars, failedVars, sendNowVars, diskVars, sessionVars,
                    historyVars, crashes, asked, answers, recheckQ, recheckLeft>>
    BY <1>3 DEF RestoreReceipts, RestoredQuestion
  <2> QED
    BY <2>4, <2>5, <2>6 DEF diskVars
<1>4. CASE ReaperFinds
  <2>1. reaped' = TRUE /\ UNCHANGED <<hub, pc, receiptVars, cancelOf, blocked, injectVars,
              questionVars, failedVars, sendNowVars, retired, diskVars, meta,
              generation, alive, retireDue, unannounced, historyVars, crashes>>
    BY <1>4 DEF ReaperFinds
  <2> QED
    BY <2>1 DEF diskVars
<1>a. CASE NothingToRetire
  <2>1. /\ reaped' \in BOOLEAN /\ retireDue' \in BOOLEAN
        /\ UNCHANGED <<hub, pc, receiptVars, cancelOf, blocked, injectVars, questionVars,
                       failedVars, sendNowVars, retired, diskVars, meta, generation, alive,
                       unannounced, historyVars, crashes>>
    BY <1>a DEF NothingToRetire
  <2> QED
    BY <2>1 DEF diskVars
<1>5. ASSUME NEW ok \in BOOLEAN, TickSaves(ok)
      PROVE  TypeOK'
  <2>1. dirty' \in BOOLEAN /\ journal' \in Receipt /\ writeFailures' \in Nat
    BY <1>5, PersistType DEF TickSaves
  <2> QED
    <3>1. blocked' \in BOOLEAN /\ pc' \in {"idle", "drain"}
      BY <1>5 DEF TickSaves
    <3>2. UNCHANGED <<receiptVars, retired, meta, hub, cancelOf, injectVars, questionVars,
                      failedVars, sendNowVars, lifeVars, historyVars, crashes>>
      BY <1>5 DEF TickSaves
    <3> QED
      BY <2>1, <3>1, <3>2
<1>6. ASSUME NEW ok \in BOOLEAN, EngineRetires(ok)
      PROVE  TypeOK'
  BY <1>6, RetireType DEF EngineRetires
<1>7. ASSUME NEW ok \in BOOLEAN, ReaperRetires(ok)
      PROVE  TypeOK'
  BY <1>7, RetireType DEF ReaperRetires
<1>8. ASSUME NEW ok \in BOOLEAN, Stop(ok)
      PROVE  TypeOK'
  <2>1. Receipts \in Receipt
    BY DEF Receipts, Receipt, Injecting, NothingKept
  <2> QED
    <3>1. dirty' \in BOOLEAN /\ journal' \in Receipt
      BY <1>8, <2>1 DEF Stop
    <3>2. Gone /\ writeFailures' \in Nat /\ crashes' \in Nat
      BY <1>8 DEF Stop
    <3> QED
      BY <3>1, <3>2, GoneType
<1>9. ASSUME NEW ok \in BOOLEAN, RestoreDiscards(ok)
      PROVE  TypeOK'
  <2>1. retired' \subseteq Msgs
    BY <1>9 DEF RestoreDiscards, AdoptDelivered, Receipt
  <2>2. dirty' \in BOOLEAN /\ journal' \in Receipt /\ writeFailures' \in Nat
    BY <1>9, <2>1, PersistType DEF RestoreDiscards
  <2>3. typed' \in [Msgs -> Nat] /\ retried' \in [Msgs -> Nat] /\ erased' = {}
    BY <1>9 DEF RestoreDiscards, NewLedger
  <2> QED
    BY <1>9, <2>1, <2>2, <2>3 DEF RestoreDiscards, RestoredQuestion, StartRestoredDrains
<1> QED
  BY <1>1, <1>2, <1>3, <1>4, <1>a, <1>5, <1>6, <1>7, <1>8, <1>9 DEF Process

LEMMA TypeStep ==
    ASSUME TypeOK, QueueMatchesMaps, SafeJournal(journal), [Next]_vars
    PROVE  TypeOK'
<1>1. CASE Next
  BY <1>1, ClientType, DrainType, InjectorType, QuestionType, SendNowType, ProcessType,
     SessionType DEF Next
<1>2. CASE UNCHANGED vars
  BY <1>2 DEF vars, TypeOK, receiptVars, injectVars, questionVars, failedVars, sendNowVars,
     diskVars, sessionVars, historyVars
<1> QED
  BY <1>1, <1>2
-----------------------------------------------------------------------------
(***************************************************************************)
(* Preservation of the rest of the invariant.                              *)
(***************************************************************************)

LEMMA InitInv == Init => Inv
<1> SUFFICES ASSUME Init PROVE Inv
  OBVIOUS
<1> USE DEF Init
<1>1. TypeOK
  <2>1. journal \in Receipt
    BY DEF NoJournal, Receipt
  <2>2. /\ answers \in [Questions -> {"none", "probe", "keys", "text"}]
        /\ cancelOf \in [Msgs -> Questions \cup {NoQuestion}]
        /\ typed \in [Msgs -> Nat] /\ retried \in [Msgs -> Nat] /\ home \in [Msgs -> Nat]
    OBVIOUS
  <2>3. /\ hub \in {"up", "draining", "down"}
        /\ pc \in {"idle", "drain", "loop", "sendNow", "drainThenSendNow", "tick"}
        /\ phase \in Phases
    BY DEF Phases
  <2>4. /\ blocked \in BOOLEAN /\ sendNowRunning \in BOOLEAN /\ dirty \in BOOLEAN
        /\ alive \in BOOLEAN /\ retireDue \in BOOLEAN /\ reaped \in BOOLEAN
    OBVIOUS
  <2> QED
    BY <2>1, <2>2, <2>3, <2>4 DEF TypeOK
<1>2. Elements(queue) = {} /\ Elements(order) = {} /\ Injective(queue) /\ Injective(order)
  BY DEF Elements, Injective
<1>3. QueueMatchesMaps
  BY <1>2 DEF QueueMatchesMaps, Injecting
<1>4. Ledger /\ SafeJournal(journal)
  BY FS_EmptySet DEF Ledger, SafeJournal, Spent, NoJournal
<1>5. JournalMarks /\ Durable /\ ReceiptAnswered /\ DownIsEmpty /\ LoopAlone
  BY DEF JournalMarks, LoopAlone, Durable, ReceiptAnswered, KnownDelivered, DownIsEmpty, Injecting,
         NoJournal
<1> QED
  BY <1>1, <1>3, <1>4, <1>5 DEF Inv

\* A step that leaves the messages, the journal and the executions alone.
Quiet ==
    /\ UNCHANGED <<queue, order, pending, uncertain, delivered, deleted, injMsg,
                   journal, retired, typed, retried>>
    /\ phase' = phase \/ (phase = "checking" /\ phase' = "typing")
    /\ hub' = "down" <=> hub = "down"
    /\ pc' = pc \/ hub # "down"
    /\ LoopAlone'

LEMMA QuietStep ==
    ASSUME Inv, TypeOK', Quiet
    PROVE  Inv'
<1> USE DEF Inv, Quiet
<1>1. Injecting' = Injecting /\ (phase' = "typed" <=> phase = "typed")
  BY DEF Injecting
<1>2. QueueMatchesMaps'
  BY <1>1 DEF QueueMatchesMaps, Elements, Injective
<1>3. Ledger' /\ SafeJournal(journal)'
  BY <1>1 DEF Ledger, Settled, Spent, SafeJournal
<1>4. JournalMarks' /\ Durable' /\ ReceiptAnswered' /\ DownIsEmpty'
  BY <1>1 DEF JournalMarks, Durable, ReceiptAnswered, KnownDelivered, DownIsEmpty
<1> QED
  BY <1>2, <1>3, <1>4

\* What a living hub holds makes a journal that is safe to restart from.
LEMMA ReceiptsSafe ==
    ASSUME TypeOK, QueueMatchesMaps, Ledger, hub # "down"
    PROVE  SafeJournal(Receipts)
<1> USE DEF Receipts
<1>1. IsFiniteSet(pending \cup uncertain)
  BY FiniteElements DEF TypeOK, QueueMatchesMaps
<1>2. Receipts.queued \cup Receipts.inflight = pending \cup uncertain
  OBVIOUS
<1>3. Receipts.queued \cap Receipts.inflight = {}
  BY DEF QueueMatchesMaps
<1>4. ASSUME NEW m \in Msgs, Spent(m)
      PROVE  m \in Receipts.inflight \cup Receipts.delivered \cup Receipts.deleted
  BY <1>4 DEF Ledger, Settled, Injecting, QueueMatchesMaps, TypeOK
<1> QED
  BY <1>1, <1>2, <1>3, <1>4 DEF SafeJournal

\* What a handler that writes the journal may do to the messages: only a write
\* that succeeded lets it take on a message or start an injection.
Careful(ok) ==
    /\ \A m \in Msgs : Spent(m)' => Spent(m)
    /\ ok \/ (pending \cup uncertain)' \subseteq pending \cup uncertain
    /\ ok \/ Injecting' \subseteq Injecting
    /\ KnownDelivered \subseteq (delivered \cup retired)'

LEMMA PersistStep ==
    ASSUME Inv, TypeOK', hub' # "down", NEW ok \in BOOLEAN,
           LoopAlone', QueueMatchesMaps', Ledger', Careful(ok), Persist(ok)
    PROVE  Inv'
<1> USE DEF Inv
<1>1. DownIsEmpty'
  BY DEF DownIsEmpty
<1>2. CASE ok
  <2>1. journal' = Receipts'
    BY <1>2 DEF Persist
  <2>2. SafeJournal(journal)'
    <3>1. IsFiniteSet((pending \cup uncertain)')
      <4>1. order' \in Seq(Msgs)
        BY DEF TypeOK
      <4>2. Elements(order') = (pending \cup uncertain)'
        BY DEF QueueMatchesMaps, Elements
      <4> QED
        BY <4>1, <4>2, FiniteElements
    <3>2. (journal.queued \cup journal.inflight)' = (pending \cup uncertain)'
      BY <2>1 DEF Receipts
    <3>3. (journal.queued \cap journal.inflight)' = {}
      BY <2>1 DEF Receipts, QueueMatchesMaps
    <3>4. ASSUME NEW m \in Msgs, Spent(m)'
          PROVE  m \in (journal.inflight \cup journal.delivered \cup journal.deleted)'
      BY <2>1, <3>4, SMTT(60) DEF Receipts, Ledger, Settled, Injecting, QueueMatchesMaps, TypeOK
    <3> QED
      BY <3>1, <3>2, <3>3, <3>4 DEF SafeJournal
  <2>3. JournalMarks' /\ Durable' /\ ReceiptAnswered'
    BY <2>1 DEF JournalMarks, Durable, ReceiptAnswered, KnownDelivered, Receipts,
                QueueMatchesMaps
  <2> QED
    BY <1>1, <2>2, <2>3
<1>3. CASE ~ok
  <2>1. journal' = journal
    BY <1>3 DEF Persist
  <2>2. SafeJournal(journal)'
    BY <2>1 DEF SafeJournal, Careful
  <2>3. JournalMarks' /\ Durable' /\ ReceiptAnswered'
    BY <1>3, <2>1 DEF JournalMarks, Durable, ReceiptAnswered, KnownDelivered, Careful
  <2> QED
    BY <1>1, <2>2, <2>3
<1> QED
  BY <1>2, <1>3

LEMMA LedgerKept ==
    ASSUME Ledger, hub # "down", UNCHANGED <<typed, retried>>, Settled \subseteq Settled'
    PROVE  Ledger'
BY DEF Ledger, Spent

LEMMA ClientInv ==
    ASSUME Inv, TypeOK', Client
    PROVE  Inv'
<1> USE DEF Inv, Ready, LoopAlone
<1>1. ASSUME NEW m \in Msgs, NEW cq \in CancelChoices, SendAnswered(m, cq)
      PROVE  Inv'
  BY <1>1, QuietStep DEF SendAnswered, Quiet, receiptVars, injectVars, diskVars, historyVars
<1>2. ASSUME NEW m \in Msgs, NEW cq \in CancelChoices, SendJoins(m, cq)
      PROVE  Inv'
  BY <1>2, QuietStep DEF SendJoins, Quiet, receiptVars, injectVars, diskVars, historyVars
<1>3. ASSUME NEW m \in Msgs, NEW cq \in CancelChoices, NEW ok \in BOOLEAN, SendRetry(m, cq, ok)
      PROVE  Inv'
  <2>1. Injecting' = Injecting /\ phase' = phase /\ injMsg' = injMsg /\ typed' = typed
    BY <1>3 DEF SendRetry, Injecting, injectVars
  <2>2. m \in uncertain /\ m \notin pending /\ m \notin Elements(queue) /\ m \notin Injecting
    BY <1>3 DEF SendRetry, QueueMatchesMaps
  <2>3. QueueMatchesMaps'
    <3>1. CASE ok
      <4>1. /\ queue' = <<m>> \o queue /\ order' = order
            /\ pending' = pending \cup {m} /\ uncertain' = uncertain \ {m}
            /\ delivered' = delivered /\ deleted' = deleted
        BY <1>3, <3>1 DEF SendRetry, AtFront
      <4>2. queue \in Seq(Msgs) /\ Injective(queue)
        BY DEF TypeOK, QueueMatchesMaps
      <4>3. Elements(queue') = Elements(queue) \cup {m} /\ Injective(queue')
        BY <2>2, <4>1, <4>2, FrontElements
      <4> QED
        BY <2>1, <2>2, <4>1, <4>3 DEF QueueMatchesMaps
    <3>2. CASE ~ok
      BY <1>3, <2>1, <3>2 DEF SendRetry, QueueMatchesMaps
    <3> QED
      BY <3>1, <3>2
  <2>4. /\ Ledger' /\ \A n \in Msgs : Spent(n)' => Spent(n)
    <3>1. CASE ok
      <4>1. /\ retried' = [retried EXCEPT ![m] = @ + 1] /\ uncertain' = uncertain \ {m}
            /\ delivered' = delivered /\ deleted' = deleted /\ hub # "down"
        BY <1>3, <3>1 DEF SendRetry
      <4>2. typed \in [Msgs -> Nat] /\ retried \in [Msgs -> Nat]
        BY DEF TypeOK
      <4>3. \A n \in Msgs : retried'[n] = IF n = m THEN retried[n] + 1 ELSE retried[n]
        BY <4>1, <4>2
      <4>4. ~Spent(m)'
        BY <2>1, <4>2, <4>3 DEF Ledger, Spent
      <4>5. ASSUME NEW n \in Msgs
            PROVE  typed'[n] <= 1 + retried'[n] /\ (Spent(n)' => Spent(n) /\ n # m)
        BY <2>1, <4>2, <4>3, <4>4 DEF Ledger, Spent
      <4>6. Settled \ {m} \subseteq Settled'
        BY <2>1, <4>1 DEF Settled
      <4> QED
        BY <4>1, <4>5, <4>6 DEF Ledger
    <3>2. CASE ~ok
      BY <1>3, <2>1, <3>2 DEF SendRetry, Ledger, Spent, Settled
    <3> QED
      BY <3>1, <3>2
  <2>5. Careful(ok)
    BY <1>3, <2>1, <2>4 DEF SendRetry, Careful, ReceiptAnswered
  <2> QED
    BY <1>3, <2>3, <2>4, <2>5, PersistStep DEF SendRetry
<1>4. ASSUME NEW m \in Msgs, NEW cq \in CancelChoices, NEW ok \in BOOLEAN, SendNew(m, cq, ok)
      PROVE  Inv'
  <2>1. Injecting' = Injecting /\ phase' = phase /\ injMsg' = injMsg
    BY <1>4 DEF SendNew, Injecting, injectVars
  <2>2. m \notin Known /\ m \notin Elements(queue) /\ m \notin Elements(order)
    BY <1>4 DEF SendNew, QueueMatchesMaps, Known
  <2>3. QueueMatchesMaps'
    <3>1. CASE ok
      <4>1. /\ queue' = Append(queue, m) /\ order' = Append(order, m)
            /\ pending' = pending \cup {m} /\ uncertain' = uncertain
            /\ delivered' = delivered /\ deleted' = deleted
        BY <1>4, <3>1 DEF SendNew
      <4>2. /\ queue \in Seq(Msgs) /\ Injective(queue)
            /\ order \in Seq(Msgs) /\ Injective(order)
        BY DEF TypeOK, QueueMatchesMaps
      <4>3. /\ Elements(queue') = Elements(queue) \cup {m} /\ Injective(queue')
            /\ Elements(order') = Elements(order) \cup {m} /\ Injective(order')
        BY <2>2, <4>1, <4>2, AppendElements
      <4> QED
        BY <2>1, <2>2, <4>1, <4>3 DEF QueueMatchesMaps, Known
    <3>2. CASE ~ok
      BY <1>4, <2>1, <3>2 DEF SendNew, QueueMatchesMaps
    <3> QED
      BY <3>1, <3>2
  <2>4. Ledger'
    BY <1>4, <2>1, LedgerKept DEF SendNew, Settled
  <2>5. Careful(ok)
    BY <1>4, <2>1 DEF SendNew, Careful, ReceiptAnswered, Spent
  <2> QED
    BY <1>4, <2>3, <2>4, <2>5, PersistStep DEF SendNew
<1>5. ASSUME NEW m \in Msgs, NEW ok \in BOOLEAN, DeleteMissing(m, ok)
      PROVE  Inv'
  <2>1. Injecting' = Injecting /\ phase' = phase /\ injMsg' = injMsg
    BY <1>5 DEF DeleteMissing, Injecting, injectVars
  <2>2. QueueMatchesMaps'
    BY <1>5, <2>1 DEF DeleteMissing, Deletable, QueueMatchesMaps
  <2>3. Ledger'
    BY <1>5, <2>1, LedgerKept DEF DeleteMissing, TellDeleted, Settled, historyVars
  <2>4. Careful(ok)
    BY <1>5, <2>1 DEF DeleteMissing, TellDeleted, Careful, ReceiptAnswered, Spent, historyVars
  <2> QED
    BY <1>5, <2>2, <2>3, <2>4, PersistStep DEF DeleteMissing
<1>6. ASSUME NEW m \in Msgs, NEW ok \in BOOLEAN, DeleteQueued(m, ok)
      PROVE  Inv'
  <2>1. Injecting' = Injecting /\ phase' = phase /\ injMsg' = injMsg
    BY <1>6 DEF DeleteQueued, Injecting, injectVars
  <2>2. m \in pending /\ m \notin Injecting /\ m \notin uncertain
    BY <1>6 DEF DeleteQueued, Deletable
  <2>3. QueueMatchesMaps'
    <3>1. CASE ok
      <4>1. /\ queue' = Without(queue, m) /\ order' = Without(order, m)
            /\ pending' = pending \ {m} /\ uncertain' = uncertain
            /\ delivered' = delivered /\ deleted' = deleted \cup {m}
        BY <1>6, <3>1 DEF DeleteQueued
      <4>2. /\ queue \in Seq(Msgs) /\ Injective(queue)
            /\ order \in Seq(Msgs) /\ Injective(order)
        BY DEF TypeOK, QueueMatchesMaps
      <4>3. /\ Elements(queue') = Elements(queue) \ {m} /\ Injective(queue')
            /\ Elements(order') = Elements(order) \ {m} /\ Injective(order')
        BY <4>1, <4>2, WithoutElements
      <4> QED
        BY <2>1, <2>2, <4>1, <4>3 DEF QueueMatchesMaps
    <3>2. CASE ~ok
      BY <1>6, <2>1, <3>2 DEF DeleteQueued, QueueMatchesMaps
    <3> QED
      BY <3>1, <3>2
  <2>4. Ledger'
    BY <1>6, <2>1, LedgerKept DEF DeleteQueued, TellDeleted, Settled, historyVars
  <2>5. Careful(ok)
    BY <1>6, <2>1 DEF DeleteQueued, TellDeleted, Careful, ReceiptAnswered, Spent, historyVars
  <2> QED
    BY <1>6, <2>3, <2>4, <2>5, PersistStep DEF DeleteQueued
<1>7. ASSUME SendNowRequest
      PROVE  Inv'
  BY <1>7, QuietStep DEF SendNowRequest, SendNowStep, Quiet, receiptVars, injectVars,
     diskVars, historyVars
<1> QED
  BY <1>1, <1>2, <1>3, <1>4, <1>5, <1>6, <1>7 DEF Client

LEMMA DrainInv ==
    ASSUME Inv, TypeOK', Drain
    PROVE  Inv'
<1> USE DEF Inv, LoopAlone
<1>1. CASE DrainCall
  BY <1>1, QuietStep DEF DrainCall, MayDrain, DrainRunning, Quiet, receiptVars, injectVars, diskVars, historyVars
<1>2. CASE LoopExit
  BY <1>2, QuietStep DEF LoopExit, AfterLoop, Quiet, receiptVars, injectVars, diskVars, historyVars
<1>3. CASE LoopInject
  <2> DEFINE m == Head(queue)
  <2>1. /\ phase = "none" /\ Injecting = {} /\ Injecting' = {m}
        /\ phase' = "checking" /\ hub = "up" /\ hub' = "up"
    BY <1>3, MsgAssumption DEF LoopInject, MayInject, Injecting, TypeOK
  <2>2. /\ Elements(queue') = Elements(queue) \ {m} /\ Injective(queue')
        /\ m \in Elements(queue)
    BY <1>3, TailElements DEF LoopInject, MayInject, HeadInOrder, QueueMatchesMaps, TypeOK
  <2>3. UNCHANGED <<order, pending, uncertain, delivered, deleted, retired, typed, retried>>
    BY <1>3 DEF LoopInject, historyVars
  <2>4. QueueMatchesMaps'
    BY <2>1, <2>2, <2>3 DEF QueueMatchesMaps
  <2>5. Ledger'
    BY <2>1, <2>3, LedgerKept DEF Settled
  <2>6. Careful(TRUE)
    BY <2>1, <2>3 DEF Careful, ReceiptAnswered, Spent
  <2> QED
    BY <1>3, <2>1, <2>4, <2>5, <2>6, PersistStep DEF LoopInject
<1>4. CASE LoopWriteFails
  <2>1. /\ UNCHANGED <<queue, order, pending, uncertain, delivered, deleted, retired,
                       injMsg, phase, typed, retried>>
        /\ hub = "up" /\ hub' = "up" /\ Injecting' = Injecting
    BY <1>4 DEF LoopWriteFails, MayInject, receiptVars, injectVars, historyVars, Injecting
  <2>2. QueueMatchesMaps'
    BY <2>1 DEF QueueMatchesMaps
  <2>3. Ledger'
    BY <2>1, LedgerKept DEF Settled
  <2>4. Careful(FALSE)
    BY <2>1 DEF Careful, ReceiptAnswered, Spent
  <2> QED
    BY <1>4, <2>1, <2>2, <2>3, <2>4, PersistStep DEF LoopWriteFails
<1> QED
  BY <1>1, <1>2, <1>3, <1>4 DEF Drain

LEMMA InjectorInv ==
    ASSUME Inv, TypeOK', Injector
    PROVE  Inv'
<1> USE DEF Inv, Ready, LoopAlone
<1>1. CASE ChoiceCancelled
  BY <1>1, QuietStep DEF ChoiceCancelled, Quiet, receiptVars, injectVars, diskVars, historyVars
<1>2. CASE BeginTyping
  BY <1>2, QuietStep DEF BeginTyping, Quiet, receiptVars, diskVars, historyVars
<1>3. CASE PaneSubmit
  <2>1. /\ UNCHANGED <<hub, queue, order, pending, uncertain, delivered, deleted, injMsg,
                       journal, retired, retried>>
        /\ phase = "typing" /\ phase' = "typed" /\ hub # "down"
        /\ Injecting' = Injecting /\ Injecting = {injMsg}
        /\ typed' = [typed EXCEPT ![injMsg] = @ + 1]
    BY <1>3 DEF PaneSubmit, receiptVars, diskVars, Injecting
  <2>2. injMsg \in Msgs /\ typed \in [Msgs -> Nat] /\ retried \in [Msgs -> Nat]
    BY <2>1, MsgAssumption DEF TypeOK
  <2>3. QueueMatchesMaps'
    BY <2>1 DEF QueueMatchesMaps
  <2>4. injMsg \in pending /\ injMsg \notin Settled
    BY <2>1 DEF QueueMatchesMaps, Settled
  <2>5. typed[injMsg] <= retried[injMsg]
    BY <2>1, <2>2, <2>4 DEF Ledger, Spent
  <2>6. ASSUME NEW n \in Msgs
        PROVE  typed'[n] <= 1 + retried'[n] /\ (Spent(n)' => Spent(n) \/ n = injMsg)
    BY <2>1, <2>2, <2>5 DEF Ledger, Spent
  <2>7. Ledger'
    BY <2>1, <2>6 DEF Ledger, Settled
  <2>8. SafeJournal(journal)'
    BY <2>1, <2>6 DEF SafeJournal, JournalMarks
  <2>9. JournalMarks' /\ Durable' /\ ReceiptAnswered' /\ DownIsEmpty' /\ LoopAlone'
    BY <1>3, <2>1 DEF PaneSubmit, JournalMarks, Durable, ReceiptAnswered, KnownDelivered, DownIsEmpty
  <2> QED
    BY <2>3, <2>7, <2>8, <2>9
<1>4. InjectionOver => Injecting' = {} /\ phase' = "none"
  BY DEF InjectionOver, Injecting
<1>5. phase # "none" => injMsg \in Msgs /\ injMsg \in pending /\ Injecting = {injMsg}
  BY DEF TypeOK, Injecting, QueueMatchesMaps
<1>6. /\ order \in Seq(Msgs) /\ Injective(order) /\ queue \in Seq(Msgs) /\ Injective(queue)
  BY DEF TypeOK, QueueMatchesMaps
<1>7. /\ Elements(Without(order, injMsg)) = Elements(order) \ {injMsg}
      /\ Injective(Without(order, injMsg))
  BY <1>6, WithoutElements
<1>8. ASSUME NEW ok \in BOOLEAN, InjectSucceeds(ok)
      PROVE  Inv'
  <2>1. /\ order' = Without(order, injMsg) /\ pending' = pending \ {injMsg}
        /\ delivered' = delivered \cup {injMsg}
        /\ UNCHANGED <<hub, queue, uncertain, deleted, retired, typed, retried>>
        /\ phase # "none" /\ phase' = "none" /\ hub # "down" /\ Injecting' = {}
    BY <1>4, <1>8 DEF InjectSucceeds, historyVars
  <2>2. QueueMatchesMaps'
    BY <1>5, <1>7, <2>1 DEF QueueMatchesMaps
  <2>3. Ledger'
    BY <2>1, LedgerKept DEF Settled
  <2>4. Careful(ok)
    BY <2>1 DEF Careful, ReceiptAnswered, Spent
  <2> QED
    BY <1>8, <2>1, <2>2, <2>3, <2>4, PersistStep DEF InjectSucceeds
<1>9. ASSUME NEW ok \in BOOLEAN, InjectRejected(ok)
      PROVE  Inv'
  <2>1. /\ order' = Without(order, injMsg) /\ pending' = pending \ {injMsg}
        /\ UNCHANGED <<hub, queue, uncertain, delivered, deleted, retired, typed, retried>>
        /\ phase = "checking" /\ phase' = "none" /\ hub # "down" /\ Injecting' = {}
    BY <1>4, <1>9 DEF InjectRejected, historyVars
  <2>2. QueueMatchesMaps'
    BY <1>5, <1>7, <2>1 DEF QueueMatchesMaps
  <2>3. Ledger'
    BY <2>1, LedgerKept DEF Settled
  <2>4. Careful(ok)
    BY <2>1 DEF Careful, ReceiptAnswered, Spent
  <2> QED
    BY <1>9, <2>1, <2>2, <2>3, <2>4, PersistStep DEF InjectRejected
<1>10. ASSUME NEW ok \in BOOLEAN, InjectDeferred(ok)
       PROVE  Inv'
  <2>1. /\ queue' = <<injMsg>> \o queue
        /\ UNCHANGED <<hub, order, pending, uncertain, delivered, deleted, retired,
                       typed, retried>>
        /\ phase = "checking" /\ phase' = "none" /\ hub # "down" /\ Injecting' = {}
    BY <1>4, <1>10 DEF InjectDeferred, ShuttingDown, AtFront, historyVars
  <2>2. injMsg \notin Elements(queue)
    BY <1>5, <2>1 DEF QueueMatchesMaps
  <2>3. Elements(queue') = Elements(queue) \cup {injMsg} /\ Injective(queue')
    BY <1>5, <1>6, <2>1, <2>2, FrontElements
  <2>4. QueueMatchesMaps'
    BY <1>5, <2>1, <2>3 DEF QueueMatchesMaps
  <2>5. Ledger'
    BY <2>1, LedgerKept DEF Settled
  <2>6. Careful(ok)
    BY <2>1 DEF Careful, ReceiptAnswered, Spent
  <2> QED
    BY <1>10, <2>1, <2>4, <2>5, <2>6, PersistStep DEF InjectDeferred
<1>11. ASSUME NEW ok \in BOOLEAN, InjectFails(ok)
       PROVE  Inv'
  <2>1. /\ pending' = pending \ {injMsg} /\ uncertain' = uncertain \cup {injMsg}
        /\ UNCHANGED <<hub, queue, order, delivered, deleted, retired, typed, retried>>
        /\ phase # "none" /\ phase' = "none" /\ hub # "down" /\ Injecting' = {}
    BY <1>4, <1>11 DEF InjectFails, historyVars
  <2>2. QueueMatchesMaps'
    BY <1>5, <2>1 DEF QueueMatchesMaps
  <2>3. Ledger'
    BY <2>1, LedgerKept DEF Settled
  <2>4. Careful(ok)
    BY <1>5, <2>1 DEF Careful, ReceiptAnswered, Spent
  <2> QED
    BY <1>11, <2>1, <2>2, <2>3, <2>4, PersistStep DEF InjectFails
<1> QED
  BY <1>1, <1>2, <1>3, <1>8, <1>9, <1>10, <1>11 DEF Injector, InjectionEnds

LEMMA QuestionInv ==
    ASSUME Inv, TypeOK', Question
    PROVE  Inv'
<1>1. QuestionStep /\ pc' # "loop"
  BY DEF Question, QuestionClosed, RecheckFires, QuestionAsked, RelayDismiss, AnswerSubmit,
         AnswerProbed, AnswerEnds, AnswerStale, AnswerDone, AnswerFails, AnswerOver,
         QuestionStep, Ready
<1> QED
  BY <1>1, QuietStep DEF QuestionStep, Ready, Quiet, LoopAlone, receiptVars, injectVars,
     diskVars, historyVars

LEMMA SendNowInv ==
    ASSUME Inv, TypeOK', SendNowCall \/ SendNowDone
    PROVE  Inv'
<1>1. SendNowStep /\ pc' # "loop"
  BY DEF SendNowCall, SendNowLater, SendNowAnswered, SendNowBegins, SendNowDone
<1> QED
  BY <1>1, QuietStep DEF SendNowStep, Quiet, LoopAlone, receiptVars, injectVars, diskVars,
     historyVars

LEMMA SessionInv ==
    ASSUME Inv, TypeOK', Session
    PROVE  Inv'
<1>1. SessionStep
  BY DEF Session, SessionKilled, SessionDies, RetireLost, SessionLaunched, SessionRerecorded
<1> QED
  BY <1>1, QuietStep DEF SessionStep, Inv, Quiet, LoopAlone, receiptVars, injectVars,
     diskVars, historyVars

LEMMA EmptyMaps ==
    ASSUME queue' = <<>>, order' = <<>>, pending' = {}, uncertain' = {}, phase' = "none"
    PROVE  QueueMatchesMaps'
<1>1. Elements(<<>>) = {} /\ Injective(<<>>)
  BY DEF Elements, Injective
<1> QED
  BY <1>1 DEF QueueMatchesMaps, Injecting

LEMMA NewLedgerKept ==
    ASSUME TypeOK, NewLedger
    PROVE  Ledger' /\ \A m \in Msgs : ~Spent(m)'
BY DEF TypeOK, NewLedger, Ledger, Spent

LEMMA RetireInv ==
    ASSUME Inv, TypeOK', NEW ok \in BOOLEAN, Retire(ok), pc' \in {"idle", "tick"}
    PROVE  Inv'
<1> USE DEF Inv
<1>1. QueueMatchesMaps'
  BY EmptyMaps DEF Retire, ActorGone
<1>2. Ledger' /\ \A m \in Msgs : ~Spent(m)'
  BY NewLedgerKept DEF Retire
<1>3. /\ (pending \cup uncertain)' = {} /\ Injecting' = {} /\ hub # "down" /\ hub' # "down"
      /\ LoopAlone' /\ Persist(ok)
      /\ retired' = retired \cup delivered /\ delivered' = {}
  BY DEF Retire, Ready, ActorGone, Injecting, LoopAlone, AdoptDelivered
<1>4. Careful(ok)
  BY <1>2, <1>3 DEF Careful, ReceiptAnswered
<1> QED
  BY <1>1, <1>2, <1>3, <1>4, PersistStep

LEMMA GoneInv ==
    ASSUME Inv, TypeOK', hub # "down", Gone, journal' \in {journal, Receipts}
    PROVE  Inv'
<1> USE DEF Inv
<1>1. QueueMatchesMaps'
  BY EmptyMaps DEF Gone, ActorGone
<1>2. /\ hub' = "down" /\ pc' = "idle" /\ phase' = "none" /\ Injecting' = {}
      /\ (pending \cup uncertain)' = {}
      /\ UNCHANGED <<typed, retried>>
  BY DEF Gone, ActorGone, Injecting, historyVars
<1>3. Ledger'
  BY <1>2 DEF Ledger
<1>4. SafeJournal(journal) /\ SafeJournal(Receipts)
  BY ReceiptsSafe
<1>5. SafeJournal(journal)'
  BY <1>2, <1>4 DEF SafeJournal, Spent
<1>6. DownIsEmpty' /\ LoopAlone'
  BY DEF Gone, ActorGone, DownIsEmpty, LoopAlone
<1>7. JournalMarks' /\ Durable' /\ ReceiptAnswered'
  BY <1>2 DEF JournalMarks, Durable, ReceiptAnswered
<1> QED
  BY <1>1, <1>3, <1>5, <1>6, <1>7

LEMMA RestoreInv ==
    ASSUME Inv, TypeOK', RestoreReceipts
    PROVE  Inv'
<1> USE DEF Inv
<1>1. /\ hub' = "up" /\ pc' = "drain" /\ phase = "none" /\ phase' = "none"
      /\ Injecting' = {} /\ UNCHANGED <<journal, typed, retried>>
  BY DEF RestoreReceipts, StartRestoredDrains, DownIsEmpty, Injecting, injectVars, diskVars,
         historyVars
<1>2. /\ pending' = journal.queued \ Done /\ uncertain' = journal.inflight \ Done
      /\ delivered' = journal.delivered /\ deleted' = journal.deleted
      /\ retired' = journal.retired
      /\ order' \in Sorted(pending' \cup uncertain', journal.order)
      /\ queue' \in Sorted(pending', journal.order)
  BY DEF RestoreReceipts, RestoredUncertain
<1>3. IsFiniteSet(pending') /\ IsFiniteSet(pending' \cup uncertain')
  <2>1. /\ pending' \subseteq journal.queued \cup journal.inflight
        /\ pending' \cup uncertain' \subseteq journal.queued \cup journal.inflight
    BY <1>2
  <2> QED
    BY <2>1, FS_Subset DEF SafeJournal
<1>4. /\ Elements(queue') = pending' /\ Injective(queue')
      /\ Elements(order') = pending' \cup uncertain' /\ Injective(order')
  BY <1>2, <1>3, SortedElements
<1>5. QueueMatchesMaps'
  BY <1>1, <1>2, <1>4 DEF QueueMatchesMaps, SafeJournal, Done
<1>6. Ledger'
  BY <1>1, <1>2 DEF Ledger, Spent, Settled, SafeJournal, Done
<1>7. SafeJournal(journal)' /\ DownIsEmpty' /\ LoopAlone'
  BY <1>1 DEF SafeJournal, Spent, DownIsEmpty, LoopAlone
<1>8. JournalMarks' /\ Durable' /\ ReceiptAnswered'
  BY <1>1, <1>2 DEF JournalMarks, Durable, ReceiptAnswered, KnownDelivered, Done
<1> QED
  BY <1>5, <1>6, <1>7, <1>8

LEMMA DiscardInv ==
    ASSUME Inv, TypeOK', NEW ok \in BOOLEAN, RestoreDiscards(ok)
    PROVE  Inv'
<1> USE DEF Inv
<1>1. /\ hub' = "up" /\ LoopAlone' /\ Injecting' = {} /\ phase' = "none"
      /\ queue' = <<>> /\ order' = <<>> /\ pending' = {} /\ uncertain' = {}
      /\ retired' = journal.retired \cup journal.delivered /\ Persist(ok)
  BY DEF RestoreDiscards, DownIsEmpty, AdoptDelivered, StartRestoredDrains, Injecting,
         LoopAlone, receiptVars, injectVars
<1>2. QueueMatchesMaps'
  BY <1>1, EmptyMaps
<1>3. Ledger' /\ \A m \in Msgs : ~Spent(m)'
  BY NewLedgerKept DEF RestoreDiscards
<1>4. Careful(ok)
  BY <1>1, <1>3 DEF Careful, KnownDelivered
<1> QED
  BY <1>1, <1>2, <1>3, <1>4, PersistStep

LEMMA ProcessInv ==
    ASSUME Inv, TypeOK', Process
    PROVE  Inv'
<1> USE DEF Inv
<1>1. CASE Shutdown
  BY <1>1, QuietStep DEF Shutdown, Quiet, LoopAlone, receiptVars, injectVars, diskVars,
     historyVars
<1>2. CASE Crash
  BY <1>2, GoneInv DEF Crash
<1>3. CASE RestoreReceipts
  BY <1>3, RestoreInv
<1>4. CASE ReaperFinds \/ NothingToRetire
  BY <1>4, QuietStep DEF ReaperFinds, NothingToRetire, Quiet, LoopAlone, receiptVars, injectVars, diskVars,
     historyVars
<1>5. ASSUME NEW ok \in BOOLEAN, TickSaves(ok)
      PROVE  Inv'
  <2>1. /\ UNCHANGED <<queue, order, pending, uncertain, delivered, deleted, retired,
                       injMsg, phase, typed, retried>>
        /\ Injecting' = Injecting /\ LoopAlone' /\ hub # "down" /\ hub' # "down"
    BY <1>5 DEF TickSaves, receiptVars, injectVars, historyVars, Injecting, LoopAlone,
                DownIsEmpty
  <2>2. QueueMatchesMaps'
    BY <2>1 DEF QueueMatchesMaps
  <2>3. Ledger'
    BY <2>1, LedgerKept DEF Settled
  <2>4. Careful(ok)
    BY <2>1 DEF Careful, ReceiptAnswered, Spent
  <2> QED
    BY <1>5, <2>1, <2>2, <2>3, <2>4, PersistStep DEF TickSaves
<1>6. ASSUME NEW ok \in BOOLEAN, EngineRetires(ok) \/ ReaperRetires(ok)
      PROVE  Inv'
  BY <1>6, RetireInv DEF EngineRetires, ReaperRetires
<1>7. ASSUME NEW ok \in BOOLEAN, Stop(ok)
      PROVE  Inv'
  <2>1. hub # "down" /\ Gone /\ journal' \in {journal, Receipts}
    BY <1>7 DEF Stop, ShuttingDown
  <2> QED
    BY <2>1, GoneInv
<1>8. ASSUME NEW ok \in BOOLEAN, RestoreDiscards(ok)
      PROVE  Inv'
  BY <1>8, DiscardInv
<1> QED
  BY <1>1, <1>2, <1>3, <1>4, <1>5, <1>6, <1>7, <1>8 DEF Process

LEMMA InvStep == Inv /\ [Next]_vars => Inv'
<1> SUFFICES ASSUME Inv, [Next]_vars PROVE Inv'
  OBVIOUS
<1>1. TypeOK'
  BY TypeStep DEF Inv
<1>2. CASE Next
  BY <1>1, <1>2, ClientInv, DrainInv, InjectorInv, QuestionInv, SendNowInv, ProcessInv,
     SessionInv DEF Next
<1>3. CASE UNCHANGED vars
  BY <1>1, <1>3, QuietStep DEF vars, Inv, Quiet, LoopAlone, receiptVars, injectVars, diskVars,
     historyVars
<1> QED
  BY <1>2, <1>3
-----------------------------------------------------------------------------
(***************************************************************************)
(* What single steps do to executions and to the journal.                  *)
(***************************************************************************)

\* Only the pane executes a message, and only a new ledger forgets executions.
LEMMA ExecutionStep ==
    ASSUME TypeOK, [Next]_vars
    PROVE  typed' = typed \/ PaneSubmit \/ NewLedger
<1> USE DEF historyVars
<1>1. CASE Client
  BY <1>1 DEF Client, SendAnswered, SendJoins, SendRetry, SendNew, DeleteMissing, DeleteQueued, TellDeleted,
              SendNowRequest, SendNowStep
<1>2. CASE Drain
  BY <1>2 DEF Drain, DrainCall, LoopExit, LoopInject, LoopWriteFails
<1>3. CASE Injector
  BY <1>3 DEF Injector, InjectionEnds, ChoiceCancelled, BeginTyping, InjectSucceeds,
              InjectRejected, InjectDeferred, InjectFails
<1>4. CASE Question
  BY <1>4 DEF Question, QuestionClosed, RecheckFires, QuestionAsked, RelayDismiss,
              AnswerSubmit, AnswerProbed, AnswerEnds, AnswerStale, AnswerDone, AnswerFails,
              QuestionStep
<1>5. CASE SendNowCall \/ SendNowDone
  BY <1>5 DEF SendNowCall, SendNowLater, SendNowAnswered, SendNowBegins, SendNowDone,
              SendNowStep
<1>6. CASE Process
  BY <1>6 DEF Process, Shutdown, Crash, RestoreReceipts, ReaperFinds, NothingToRetire, TickSaves,
              EngineRetires, ReaperRetires, Retire, Stop, Gone, RestoreDiscards
<1>7. CASE Session
  BY <1>7 DEF Session, SessionKilled, SessionDies, RetireLost, SessionLaunched,
              SessionRerecorded, SessionStep
<1>8. CASE UNCHANGED vars
  BY <1>8 DEF vars
<1> QED
  BY <1>1, <1>2, <1>3, <1>4, <1>5, <1>6, <1>7, <1>8 DEF Next

LEMMA ErasedStep ==
    ASSUME Inv, [Next]_vars, NEW m \in journal.deleted
    PROVE  typed'[m] <= typed[m]
<1> USE DEF Inv
<1>1. m \in Msgs /\ typed \in [Msgs -> Nat]
  BY DEF TypeOK, Receipt
<1>2. CASE typed' = typed
  BY <1>1, <1>2
<1>3. CASE PaneSubmit
  <2>1. injMsg \in pending /\ typed' = [typed EXCEPT ![injMsg] = @ + 1]
    BY <1>3 DEF PaneSubmit, Injecting, QueueMatchesMaps
  <2>2. m # injMsg
    BY <2>1 DEF JournalMarks
  <2> QED
    BY <1>1, <2>1, <2>2
<1>4. CASE NewLedger
  BY <1>1, <1>4 DEF NewLedger
<1> QED
  BY <1>2, <1>3, <1>4, ExecutionStep

\* The journal stays, or what a living hub knows is written.
LEMMA JournalStep ==
    ASSUME Inv, [Next]_vars
    PROVE  \/ journal' = journal
           \/ journal' = Receipts /\ hub # "down"
           \/ /\ journal' = Receipts'
              /\ \/ hub # "down" /\ delivered \cup retired \subseteq (delivered \cup retired)'
                 \/ KnownDelivered \subseteq retired'
<1> USE DEF diskVars, Ready
<1>1. CASE Client
  <2>1. ASSUME NEW m \in Msgs, NEW cq \in CancelChoices, NEW ok \in BOOLEAN,
               \/ SendRetry(m, cq, ok) \/ SendNew(m, cq, ok)
               \/ DeleteMissing(m, ok) \/ DeleteQueued(m, ok)
        PROVE  /\ journal' = journal \/ journal' = Receipts'
               /\ hub # "down" /\ delivered \cup retired \subseteq (delivered \cup retired)'
    BY <2>1 DEF SendRetry, SendNew, DeleteMissing, DeleteQueued, Persist
  <2>2. CASE \E m \in Msgs, cq \in CancelChoices : SendAnswered(m, cq) \/ SendJoins(m, cq)
    BY <2>2 DEF SendAnswered, SendJoins
  <2>3. CASE SendNowRequest
    BY <2>3 DEF SendNowRequest, SendNowStep
  <2>4. NoQuestion \in CancelChoices
    BY DEF CancelChoices
  <2> QED
    BY <1>1, <2>1, <2>2, <2>3, <2>4 DEF Client
<1>2. CASE Drain
  <2>1. CASE DrainCall \/ LoopExit
    BY <2>1 DEF DrainCall, LoopExit
  <2>2. CASE LoopInject \/ LoopWriteFails
    BY <2>2 DEF LoopInject, LoopWriteFails, MayInject, Persist, receiptVars
  <2> QED
    BY <1>2, <2>1, <2>2 DEF Drain
<1>3. CASE Injector
  <2>1. CASE ChoiceCancelled \/ BeginTyping \/ PaneSubmit
    BY <2>1 DEF ChoiceCancelled, BeginTyping, PaneSubmit
  <2>2. ASSUME NEW ok \in BOOLEAN,
               InjectSucceeds(ok) \/ InjectRejected(ok) \/ InjectDeferred(ok) \/ InjectFails(ok)
        PROVE  /\ journal' = journal \/ journal' = Receipts'
               /\ hub # "down" /\ delivered \cup retired \subseteq (delivered \cup retired)'
    BY <2>2 DEF InjectSucceeds, InjectRejected, InjectDeferred, InjectFails, ShuttingDown,
                Persist
  <2> QED
    BY <1>3, <2>1, <2>2 DEF Injector, InjectionEnds
<1>4. CASE Question
  BY <1>4 DEF Question, QuestionClosed, RecheckFires, QuestionAsked, RelayDismiss,
              AnswerSubmit, AnswerProbed, AnswerEnds, AnswerStale, AnswerDone, AnswerFails,
              QuestionStep
<1>5. CASE SendNowCall \/ SendNowDone
  BY <1>5 DEF SendNowCall, SendNowLater, SendNowAnswered, SendNowBegins, SendNowDone,
              SendNowStep
<1>6. CASE Process
  <2>1. CASE Shutdown \/ Crash \/ RestoreReceipts \/ ReaperFinds \/ NothingToRetire
    BY <2>1 DEF Shutdown, Crash, RestoreReceipts, ReaperFinds, NothingToRetire
  <2>2. ASSUME NEW ok \in BOOLEAN, TickSaves(ok)
        PROVE  /\ journal' = journal \/ journal' = Receipts'
               /\ hub # "down" /\ delivered \cup retired \subseteq (delivered \cup retired)'
    BY <2>2 DEF TickSaves, Persist, receiptVars, Inv, DownIsEmpty
  <2>3. ASSUME NEW ok \in BOOLEAN, EngineRetires(ok) \/ ReaperRetires(ok)
        PROVE  /\ journal' = journal \/ journal' = Receipts'
               /\ hub # "down" /\ delivered \cup retired \subseteq (delivered \cup retired)'
    BY <2>3 DEF EngineRetires, ReaperRetires, Retire, AdoptDelivered, Persist
  <2>4. ASSUME NEW ok \in BOOLEAN, Stop(ok)
        PROVE  (journal' = journal \/ journal' = Receipts) /\ hub # "down"
    BY <2>4 DEF Stop, ShuttingDown
  <2>5. ASSUME NEW ok \in BOOLEAN, RestoreDiscards(ok)
        PROVE  (journal' = journal \/ journal' = Receipts') /\ KnownDelivered \subseteq retired'
    BY <2>5 DEF RestoreDiscards, AdoptDelivered, KnownDelivered, Persist
  <2> QED
    BY <1>6, <2>1, <2>2, <2>3, <2>4, <2>5 DEF Process
<1>7. CASE Session
  BY <1>7 DEF Session, SessionKilled, SessionDies, RetireLost, SessionLaunched,
              SessionRerecorded, SessionStep
<1>8. CASE UNCHANGED vars
  BY <1>8 DEF vars
<1> QED
  BY <1>1, <1>2, <1>3, <1>4, <1>5, <1>6, <1>7, <1>8 DEF Next

LEMMA KeptStep ==
    ASSUME Inv, [Next]_vars
    PROVE  KnownDelivered \subseteq KnownDelivered'
BY JournalStep DEF Inv, ReceiptAnswered, KnownDelivered, Receipts

\* Where the tombstones of the deletions are that the user was told of.
Tombstones == erased \subseteq journal.deleted /\ (hub # "down" => erased \subseteq deleted)

\* A step that tells of no deletion and drops no tombstone.
LEMMA TombstonesSame ==
    ASSUME Tombstones, erased' = erased,
           \/ journal' = journal \/ (journal' = Receipts /\ hub # "down")
           \/ (journal' = Receipts' /\ deleted \subseteq deleted' /\ hub # "down"),
           deleted \subseteq deleted' \/ hub' = "down", hub # "down" \/ hub' = "down"
    PROVE  Tombstones'
BY DEF Tombstones, Receipts

LEMMA TombstonesStep ==
    ASSUME Inv, Tombstones, [Next]_vars
    PROVE  Tombstones'
<1> USE DEF receiptVars, diskVars, historyVars, sessionVars
<1>1. CASE Client
  <2>1. CASE \E m \in Msgs, cq \in CancelChoices : SendAnswered(m, cq) \/ SendJoins(m, cq)
    BY <2>1, TombstonesSame DEF SendAnswered, SendJoins, Ready
  <2>2. ASSUME NEW m \in Msgs, NEW cq \in CancelChoices, NEW ok \in BOOLEAN,
               SendRetry(m, cq, ok) \/ SendNew(m, cq, ok)
        PROVE  Tombstones'
    BY <2>2, TombstonesSame DEF SendRetry, SendNew, Persist, Ready
  <2>3. ASSUME NEW m \in Msgs, NEW ok \in BOOLEAN, DeleteMissing(m, ok) \/ DeleteQueued(m, ok)
        PROVE  Tombstones'
    <3>1. /\ erased' = IF ok THEN erased \cup {m} ELSE erased
          /\ deleted' = IF ok THEN deleted \cup {m} ELSE deleted
          /\ hub # "down" /\ hub' = hub /\ Persist(ok)
      BY <2>3 DEF DeleteMissing, DeleteQueued, TellDeleted, Ready
    <3> QED
      BY <3>1 DEF Persist, Tombstones, Receipts
  <2>4. CASE SendNowRequest
    BY <2>4, TombstonesSame DEF SendNowRequest, SendNowStep
  <2> QED
    BY <1>1, <2>1, <2>2, <2>3, <2>4 DEF Client
<1>2. CASE Drain
  BY <1>2, TombstonesSame DEF Drain, DrainCall, LoopExit, LoopInject, LoopWriteFails, MayInject, Persist
<1>3. CASE Injector
  BY <1>3, TombstonesSame DEF Injector, InjectionEnds, ChoiceCancelled, BeginTyping, PaneSubmit,
     InjectSucceeds, InjectRejected, InjectDeferred, InjectFails, Persist, Ready, ShuttingDown
<1>4. CASE Question \/ SendNowCall \/ SendNowDone
  <2>1. QuestionStep \/ SendNowStep
    BY <1>4 DEF Question, QuestionClosed, RecheckFires, QuestionAsked, RelayDismiss, AnswerSubmit,
                AnswerProbed, AnswerEnds, AnswerStale, AnswerDone, AnswerFails, SendNowCall,
                SendNowLater, SendNowAnswered, SendNowBegins, SendNowDone
  <2> QED
    BY <2>1, TombstonesSame DEF QuestionStep, SendNowStep, Ready
<1>5. CASE Process
  <2>1. CASE Shutdown \/ ReaperFinds \/ NothingToRetire
    BY <2>1, TombstonesSame DEF Shutdown, ReaperFinds, NothingToRetire, Ready
  <2>2. CASE Crash
    BY <2>2, TombstonesSame DEF Crash, Gone
  <2>3. CASE RestoreReceipts
    BY <2>3 DEF RestoreReceipts, Tombstones
  <2>4. ASSUME NEW ok \in BOOLEAN, TickSaves(ok)
        PROVE  Tombstones'
    <3>1. hub # "down"
      BY <2>4 DEF TickSaves, Inv, DownIsEmpty
    <3> QED
      BY <2>4, <3>1, TombstonesSame DEF TickSaves, Persist
  <2>5. ASSUME NEW ok \in BOOLEAN, Stop(ok)
        PROVE  Tombstones'
    BY <2>5, TombstonesSame DEF Stop, Gone, ShuttingDown
  <2>6. ASSUME NEW ok \in BOOLEAN, EngineRetires(ok) \/ ReaperRetires(ok) \/ RestoreDiscards(ok)
        PROVE  Tombstones'
    <3>1. erased' = {}
      BY <2>6 DEF EngineRetires, ReaperRetires, Retire, RestoreDiscards, NewLedger
    <3> QED
      BY <3>1 DEF Tombstones
  <2> QED
    BY <1>5, <2>1, <2>2, <2>3, <2>4, <2>5, <2>6 DEF Process
<1>6. CASE Session
  BY <1>6 DEF Session, SessionKilled, SessionDies, RetireLost, SessionLaunched, SessionRerecorded,
              SessionStep, Tombstones
<1>7. CASE UNCHANGED vars
  BY <1>7 DEF vars, Tombstones
<1> QED
  BY <1>1, <1>2, <1>3, <1>4, <1>5, <1>6, <1>7 DEF Next
-----------------------------------------------------------------------------
(***************************************************************************)
(* The theorems.                                                           *)
(***************************************************************************)

\* The invariant holds in every behaviour.
THEOREM Invariant == Spec => []Inv
BY InitInv, InvStep, PTL DEF Spec

\* Every variable of the hub and of the journal keeps its type, and the marks of
\* the message in the injector are set and cleared together (drainChatQueue).
THEOREM TypeCorrect == Spec => []TypeOK
<1>1. Inv => TypeOK
  BY DEF Inv
<1> QED
  BY <1>1, Invariant, PTL

\* However often the hub crashes and journal writes fail, a message is executed
\* at most once per explicit send of the user (drainChatQueue, restoreChatReceipts).
THEOREM ExecutedOnce == Spec => []AtMostOnce
<1>1. Inv => AtMostOnce
  BY DEF Inv, Ledger, AtMostOnce
<1> QED
  BY <1>1, Invariant, PTL

\* Queue, order and maps always describe one state (chat_send,
\* deletePendingChatMessage, drainChatQueue, and restoreChatReceipts).
THEOREM MapsMatch == Spec => []QueueMatchesMaps
<1>1. Inv => QueueMatchesMaps
  BY DEF Inv
<1> QED
  BY <1>1, Invariant, PTL

\* Every message the hub has taken on is in the journal (persistChatReceipts is
\* called before a handler goes on).
THEOREM TakenOnIsDurable == Spec => []Durable
<1>1. Inv => Durable
  BY DEF Inv
<1> QED
  BY <1>1, Invariant, PTL

\* A living hub knows every delivery of the journal, retired sessions included
\* (adoptRetiredChatDeliveries).
THEOREM DeliveriesKnown == Spec => []ReceiptAnswered
<1>1. Inv => ReceiptAnswered
  BY DEF Inv
<1> QED
  BY <1>1, Invariant, PTL

\* The user is told that a message is deleted when the journal has its tombstone,
\* and the tombstone stays there and in a living hub as long as the receipts do.
THEOREM TombstonesStay == Spec => []Tombstones
<1>1. Init => Tombstones
  BY DEF Init, Tombstones
<1>2. Inv /\ Tombstones /\ [Next]_vars => Tombstones'
  BY TombstonesStep
<1> QED
  BY <1>1, <1>2, Invariant, PTL DEF Spec

\* A message is not executed once the user was told that it is deleted, through
\* resends, failed writes, crashes and restarts, until its receipts are dropped by
\* retireSession or by a restart that takes them for another session's
\* (deletePendingChatMessage, restoreChatReceipts).
THEOREM ErasedStaysErased == Spec => ErasedNeverTyped
<1>1. Inv /\ Tombstones /\ [Next]_vars => [\A m \in erased : typed'[m] <= typed[m]]_vars
  BY ErasedStep DEF Tombstones
<1> QED
  BY <1>1, Invariant, TombstonesStay, PTL DEF Spec, ErasedNeverTyped

\* No write of the journal loses a delivery (persistChatReceipts, retireSession,
\* restoreChatReceipts).
THEOREM DeliveriesKept == Spec => DeliveryKept
<1>1. Inv /\ [Next]_vars => [KnownDelivered \subseteq KnownDelivered']_vars
  BY KeptStep
<1> QED
  BY <1>1, Invariant, PTL DEF Spec, DeliveryKept
-----------------------------------------------------------------------------
(***************************************************************************)
(* The pane: who may use it, and who wakes up the one who waits for it.    *)
(***************************************************************************)
(***************************************************************************)
(* The inductive invariant.  A handler may leave the event loop to others  *)
(* only when nothing is left to do; the stretches that go on (pc) are owed  *)
(* a reason why their end will not forget anything.                        *)
(***************************************************************************)

\* The loop of drainChatQueue has the pane for itself.
LoopOwnsPane == pc = "loop" => ~sendNowRunning

\* runSendNow is called with somebody waiting for it, or from an end of the
\* chord after which drainChatQueue had nothing to do.
CalledForAReason == pc = "sendNow" /\ sendNowWaiting = 0 => ~MayDrain

\* The second half of the tick follows a retirement.
TickAfterRetirement == pc = "tick" => queue = <<>>

PaneInv == PaneSound /\ LoopOwnsPane /\ CalledForAReason /\ TickAfterRetirement
-----------------------------------------------------------------------------
\* Kinds of steps.

\* Nothing the waiting ones look at changes.
LEMMA SamePane ==
    ASSUME PaneInv, hub' = "up" => hub = "up",
           UNCHANGED <<pc, queue, order, cancelOf, blocked, phase, injQ, pendingQ, answers,
                       failedQ, sendNowWaiting, sendNowRunning>>
    PROVE  PaneInv'
<1>1. Answering' = Answering
  BY DEF Answering
<1>2. HeldByQuestion' = HeldByQuestion
  BY <1>1 DEF HeldByQuestion
<1>3. MayDrain' => MayDrain
  BY <1>2 DEF MayDrain, DrainRunning
<1>4. HeadInOrder' = HeadInOrder
  BY DEF HeadInOrder
<1>5. PaneExclusive' /\ LoopOwnsPane' /\ TickAfterRetirement'
  BY DEF PaneInv, PaneSound, PaneExclusive, DrainRunning, LoopOwnsPane, TickAfterRetirement
<1>6. NoLostWakeup' /\ CalledForAReason'
  BY <1>3, <1>4 DEF PaneInv, PaneSound, NoLostWakeup, CalledForAReason
<1> QED
  BY <1>5, <1>6 DEF PaneInv, PaneSound

\* A handler that goes on with drainChatQueue forgets nothing.
LEMMA GoesOn ==
    ASSUME PaneExclusive', pc' \in {"drain", "drainThenSendNow"}
    PROVE  PaneInv'
BY DEF PaneInv, PaneSound, NoLostWakeup, LoopOwnsPane, CalledForAReason, TickAfterRetirement

\* A handler that returns to the event loop.
LEMMA Returns ==
    ASSUME PaneExclusive', pc' = "idle", NoLostWakeup'
    PROVE  PaneInv'
BY DEF PaneInv, PaneSound, LoopOwnsPane, CalledForAReason, TickAfterRetirement

\* ... and has changed no more than the times a question held up a message.
LEMMA ReturnsSame ==
    ASSUME PaneInv, pc = "idle", pc' = "idle", hub' = "up" => hub = "up",
           UNCHANGED <<queue, order, blocked, phase, injQ, pendingQ, answers,
                       sendNowWaiting, sendNowRunning>>
    PROVE  PaneInv'
<1>1. Answering' = Answering
  BY DEF Answering
<1>2. pendingQ = NoQuestion => HeldByQuestion' = HeldByQuestion
  BY <1>1 DEF HeldByQuestion
<1>3. NoLostWakeup'
  BY <1>2 DEF PaneInv, PaneSound, NoLostWakeup, MayDrain, DrainRunning, HeadInOrder
<1>4. PaneExclusive'
  BY DEF PaneInv, PaneSound, PaneExclusive, DrainRunning
<1> QED
  BY <1>3, <1>4, Returns

\* Who uses the pane stays the same, or becomes fewer.
LEMMA ExclusiveKept ==
    ASSUME PaneExclusive, sendNowRunning' => sendNowRunning,
           phase' # "none" => phase # "none", injQ' = injQ \/ injQ' = NoQuestion,
           \A q \in Questions : answers'[q] # "none" => answers[q] # "none"
    PROVE  PaneExclusive'
BY QuestionAssumption DEF PaneExclusive, DrainRunning
-----------------------------------------------------------------------------
LEMMA PaneInit == Init => PaneInv
<1> SUFFICES ASSUME Init PROVE PaneInv
  OBVIOUS
<1>1. PaneExclusive /\ NoLostWakeup
  BY DEF Init, PaneExclusive, DrainRunning, NoLostWakeup, HeadInOrder
<1> QED
  BY <1>1 DEF Init, PaneInv, PaneSound, LoopOwnsPane, CalledForAReason, TickAfterRetirement

LEMMA ClientPane ==
    ASSUME TypeOK, PaneInv, Client
    PROVE  PaneInv'
<1> USE DEF Ready, receiptVars, injectVars, questionVars, sendNowVars
<1>1. PaneExclusive
  BY DEF PaneInv, PaneSound
<1>2. ASSUME NEW m \in Msgs, NEW cq \in CancelChoices, SendAnswered(m, cq)
      PROVE  PaneInv'
  BY <1>2, ReturnsSame DEF SendAnswered
<1>3. ASSUME NEW m \in Msgs, NEW cq \in CancelChoices, SendJoins(m, cq)
      PROVE  PaneInv'
  BY <1>1, <1>3, ExclusiveKept, GoesOn DEF SendJoins
<1>4. ASSUME NEW m \in Msgs, NEW cq \in CancelChoices, NEW ok \in BOOLEAN, SendRetry(m, cq, ok)
      PROVE  PaneInv'
  <2>1. CASE ok
    BY <1>1, <1>4, <2>1, ExclusiveKept, GoesOn DEF SendRetry
  <2>2. CASE ~ok
    BY <1>4, <2>2, ReturnsSame DEF SendRetry
  <2> QED
    BY <2>1, <2>2
<1>5. ASSUME NEW m \in Msgs, NEW cq \in CancelChoices, NEW ok \in BOOLEAN, SendNew(m, cq, ok)
      PROVE  PaneInv'
  <2>1. CASE ok
    BY <1>1, <1>5, <2>1, ExclusiveKept, GoesOn DEF SendNew
  <2>2. CASE ~ok
    BY <1>5, <2>2, ReturnsSame DEF SendNew
  <2> QED
    BY <2>1, <2>2
<1>6. ASSUME NEW m \in Msgs, NEW ok \in BOOLEAN, DeleteMissing(m, ok)
      PROVE  PaneInv'
  BY <1>6, ReturnsSame DEF DeleteMissing
<1>7. ASSUME NEW m \in Msgs, NEW ok \in BOOLEAN, DeleteQueued(m, ok)
      PROVE  PaneInv'
  <2>1. CASE ok
    BY <1>1, <1>7, <2>1, ExclusiveKept, GoesOn DEF DeleteQueued
  <2>2. CASE ~ok
    BY <1>7, <2>2, ReturnsSame DEF DeleteQueued
  <2> QED
    BY <2>1, <2>2
<1>8. ASSUME SendNowRequest
      PROVE  PaneInv'
  <2>1. /\ pc' = "sendNow" /\ sendNowWaiting' > 0 /\ sendNowWaiting' # 0
        /\ UNCHANGED <<phase, injQ, answers, sendNowRunning>>
    BY <1>8 DEF SendNowRequest, SendNowStep, TypeOK
  <2>2. PaneExclusive'
    BY <1>1, <2>1, ExclusiveKept
  <2> QED
    BY <2>1, <2>2 DEF PaneInv, PaneSound, NoLostWakeup, LoopOwnsPane, CalledForAReason,
                      TickAfterRetirement
<1> QED
  BY <1>2, <1>3, <1>4, <1>5, <1>6, <1>7, <1>8 DEF Client

LEMMA DrainPane ==
    ASSUME TypeOK, LoopAlone, PaneInv, Drain
    PROVE  PaneInv'
<1> USE DEF receiptVars, injectVars, questionVars, failedVars, sendNowVars
<1>1. PaneExclusive
  BY DEF PaneInv, PaneSound
<1>2. CASE DrainCall
  <2>1. UNCHANGED <<hub, queue, order, cancelOf, blocked, phase, injQ, pendingQ, answers,
                    failedQ, sendNowWaiting, sendNowRunning>>
    BY <1>2 DEF DrainCall
  <2>2. PaneExclusive'
    BY <1>1, <2>1, ExclusiveKept
  <2>3. MayDrain' = MayDrain
    BY <2>1 DEF MayDrain, HeldByQuestion, Answering, DrainRunning
  <2>4. CASE MayDrain
    <3>1. pc' = "loop" /\ ~sendNowRunning'
      BY <1>2, <2>1, <2>4 DEF DrainCall, MayDrain
    <3> QED
      BY <2>2, <3>1 DEF PaneInv, PaneSound, NoLostWakeup, LoopOwnsPane, CalledForAReason,
                        TickAfterRetirement
  <2>5. CASE ~MayDrain
    <3>1. pc' = "sendNow" \/ pc' = "idle"
      BY <1>2, <2>5 DEF DrainCall
    <3> QED
      BY <2>2, <2>3, <2>5, <3>1 DEF PaneInv, PaneSound, NoLostWakeup, LoopOwnsPane,
                                    CalledForAReason, TickAfterRetirement
  <2> QED
    BY <2>4, <2>5
<1>3. CASE LoopExit
  <2>1. /\ UNCHANGED <<hub, queue, order, cancelOf, blocked, phase, injQ, pendingQ, answers,
                       failedQ, sendNowWaiting, sendNowRunning>>
        /\ pc' = AfterLoop /\ pc = "loop"
    BY <1>3 DEF LoopExit
  <2>2. PaneExclusive'
    BY <1>1, <2>1, ExclusiveKept
  <2>3. /\ MayDrain' = MayDrain /\ HeadInOrder' = HeadInOrder
        /\ MayDrain => ~blocked /\ ~HeldByQuestion
    BY <2>1 DEF MayDrain, HeldByQuestion, Answering, DrainRunning, HeadInOrder
  <2>4. CASE sendNowWaiting > 0
    <3>1. pc' = "sendNow" /\ sendNowWaiting' # 0
      BY <2>1, <2>4 DEF AfterLoop, TypeOK
    <3> QED
      BY <2>2, <3>1 DEF PaneInv, PaneSound, NoLostWakeup, LoopOwnsPane, CalledForAReason,
                        TickAfterRetirement
  <2>5. CASE ~(sendNowWaiting > 0) /\ ~blocked /\ ~HeldByQuestion /\ HeadInOrder
    BY <2>1, <2>2, <2>5, GoesOn DEF AfterLoop
  <2>6. CASE ~(sendNowWaiting > 0) /\ ~(~blocked /\ ~HeldByQuestion /\ HeadInOrder)
    <3>1. pc' = "idle"
      BY <2>1, <2>6 DEF AfterLoop
    <3>2. NoLostWakeup'
      BY <2>3, <2>6 DEF NoLostWakeup
    <3> QED
      BY <2>2, <3>1, <3>2, Returns
  <2> QED
    BY <2>4, <2>5, <2>6
<1>4. CASE LoopInject
  <2>1. /\ phase' = "checking" /\ pc' = "idle" /\ injQ' = pendingQ
        /\ answers' = answers /\ sendNowRunning' = sendNowRunning
        /\ ~sendNowRunning /\ Answering = {}
    BY <1>4 DEF LoopInject, MayInject, HeldByQuestion, PaneInv, LoopOwnsPane
  <2>2. PaneExclusive'
    BY <2>1 DEF PaneExclusive, Answering
  <2>3. NoLostWakeup'
    BY <2>1 DEF NoLostWakeup, MayDrain, DrainRunning
  <2> QED
    BY <2>1, <2>2, <2>3, Returns
<1>5. CASE LoopWriteFails
  <2>1. pc' = "loop" /\ pc = "loop" /\ UNCHANGED <<phase, injQ, answers, sendNowRunning>>
    BY <1>5 DEF LoopWriteFails
  <2>2. PaneExclusive'
    BY <1>1, <2>1, ExclusiveKept
  <2> QED
    BY <2>1, <2>2 DEF PaneInv, PaneSound, NoLostWakeup, LoopOwnsPane, CalledForAReason,
                      TickAfterRetirement
<1> QED
  BY <1>2, <1>3, <1>4, <1>5 DEF Drain

LEMMA InjectorPane ==
    ASSUME TypeOK, PaneInv, Injector
    PROVE  PaneInv'
<1> USE DEF Ready, receiptVars, injectVars, questionVars, failedVars, sendNowVars
<1>1. PaneExclusive
  BY DEF PaneInv, PaneSound
<1>2. CASE ChoiceCancelled \/ BeginTyping \/ PaneSubmit
  <2>1. /\ phase # "none" /\ phase' # "none" /\ pc' = "idle"
        /\ UNCHANGED <<injQ, answers, sendNowRunning>>
    BY <1>2 DEF ChoiceCancelled, BeginTyping, PaneSubmit, ResolveCancelled
  <2>2. PaneExclusive'
    BY <1>1, <2>1, ExclusiveKept
  <2>3. NoLostWakeup'
    BY <2>1 DEF NoLostWakeup, MayDrain, DrainRunning
  <2> QED
    BY <2>1, <2>2, <2>3, Returns
<1>3. CASE InjectionEnds
  <2>1. phase # "none"
    BY <1>3 DEF InjectionEnds, InjectSucceeds, InjectRejected, InjectDeferred, InjectFails
  <2>2. InjectionOver
    BY <1>3 DEF InjectionEnds, InjectSucceeds, InjectRejected, InjectDeferred, InjectFails
  <2>3. UNCHANGED <<answers, sendNowRunning>>
    BY <1>3 DEF InjectionEnds, InjectSucceeds, InjectRejected, InjectDeferred, InjectFails,
                ResolveCancelled
  <2>4. PaneExclusive' /\ ~sendNowRunning'
    BY <1>1, <2>1, <2>2, <2>3, ExclusiveKept DEF InjectionOver, PaneExclusive, DrainRunning
  <2> QED
    BY <2>2, <2>4 DEF InjectionOver, PaneInv, PaneSound, NoLostWakeup, LoopOwnsPane,
                      CalledForAReason, TickAfterRetirement
<1> QED
  BY <1>2, <1>3 DEF Injector

LEMMA QuestionPane ==
    ASSUME TypeOK, PaneInv, Question
    PROVE  PaneInv'
<1> USE DEF QuestionStep, Ready, receiptVars, injectVars, failedVars, sendNowVars
<1>1. PaneExclusive
  BY DEF PaneInv, PaneSound
<1>2. CASE QuestionClosed
  BY <1>1, <1>2, ExclusiveKept, GoesOn DEF QuestionClosed
<1>3. ASSUME NEW visible \in BOOLEAN, RecheckFires(visible)
      PROVE  PaneInv'
  <2>1. /\ pc' = "idle" /\ UNCHANGED <<hub, queue, order, blocked, phase, injQ, answers, cancelOf,
                                       failedQ, sendNowRunning>>
        /\ pendingQ' = NoQuestion => pendingQ = NoQuestion
    BY <1>3, QuestionAssumption DEF RecheckFires, BroughtBack, TypeOK
  <2>2. PaneExclusive'
    BY <1>1, <2>1, ExclusiveKept
  <2>3. pendingQ' = NoQuestion => HeldByQuestion' = HeldByQuestion
    BY <2>1 DEF HeldByQuestion, Answering
  <2>4. NoLostWakeup'
    BY <1>3, <2>1, <2>3
    DEF RecheckFires, PaneInv, PaneSound, NoLostWakeup, MayDrain, DrainRunning, HeadInOrder
  <2> QED
    BY <2>1, <2>2, <2>4, Returns
<1>4. ASSUME NEW q \in Questions, QuestionAsked(q)
      PROVE  PaneInv'
  <2>1. PaneExclusive'
    BY <1>1, <1>4, ExclusiveKept DEF QuestionAsked
  <2>2. NoLostWakeup' /\ pc' = "idle"
    BY <1>4, QuestionAssumption DEF QuestionAsked, NoLostWakeup
  <2> QED
    BY <2>1, <2>2, Returns
<1>5. ASSUME NEW q \in Questions, RelayDismiss(q)
      PROVE  PaneInv'
  BY <1>1, <1>5, ExclusiveKept, GoesOn DEF RelayDismiss
<1>6. ASSUME NEW q \in Questions, AnswerSubmit(q)
      PROVE  PaneInv'
  <2>1. CASE q \in NativeQuestions
    BY <1>1, <1>6, <2>1, ExclusiveKept, GoesOn DEF AnswerSubmit
  <2>2. CASE q \notin NativeQuestions
    <3>1. /\ answers' = [answers EXCEPT ![q] = "probe"] /\ pc' = "idle" /\ injQ # q
          /\ UNCHANGED <<phase, injQ, sendNowRunning>>
      BY <1>6, <2>2 DEF AnswerSubmit, Cancelling
    <3>2. answers \in [Questions -> {"none", "probe", "keys", "text"}]
      BY DEF TypeOK
    <3>3. PaneExclusive'
      BY <1>1, <3>1, <3>2 DEF PaneExclusive, DrainRunning
    <3>4. HeldByQuestion'
      BY <3>1, <3>2 DEF HeldByQuestion, Answering
    <3> QED
      BY <3>1, <3>3, <3>4, Returns DEF NoLostWakeup, MayDrain
  <2> QED
    BY <2>1, <2>2
<1>7. ASSUME NEW q \in Questions, NEW how \in {"keys", "text"}, AnswerProbed(q, how)
      PROVE  PaneInv'
  <2>1. /\ answers' = [answers EXCEPT ![q] = how] /\ pc' = "idle" /\ answers[q] # "none"
        /\ UNCHANGED <<phase, injQ, sendNowRunning>>
    BY <1>7 DEF AnswerProbed
  <2>2. answers \in [Questions -> {"none", "probe", "keys", "text"}]
    BY DEF TypeOK
  <2>3. PaneExclusive'
    BY <1>1, <2>1, <2>2, ExclusiveKept
  <2>4. HeldByQuestion'
    BY <2>1, <2>2 DEF HeldByQuestion, Answering
  <2> QED
    BY <2>1, <2>3, <2>4, Returns DEF NoLostWakeup, MayDrain
<1>8. ASSUME NEW q \in Questions, AnswerEnds(q)
      PROVE  PaneInv'
  <2>1. /\ answers' = [answers EXCEPT ![q] = "none"] /\ pc' = "drain"
        /\ UNCHANGED <<phase, injQ, sendNowRunning>>
    BY <1>8 DEF AnswerEnds, AnswerStale, AnswerDone, AnswerFails, AnswerOver
  <2>2. answers \in [Questions -> {"none", "probe", "keys", "text"}]
    BY DEF TypeOK
  <2>3. PaneExclusive'
    BY <1>1, <2>1, <2>2, ExclusiveKept
  <2> QED
    BY <2>1, <2>3, GoesOn
<1> QED
  BY <1>2, <1>3, <1>4, <1>5, <1>6, <1>7, <1>8 DEF Question

LEMMA SendNowPane ==
    ASSUME PaneInv, SendNowCall \/ SendNowDone
    PROVE  PaneInv'
<1> USE DEF SendNowStep, receiptVars, injectVars, questionVars, failedVars, sendNowVars
<1>1. PaneExclusive
  BY DEF PaneInv, PaneSound
<1>2. CASE SendNowLater
  <2>1. /\ pc = "sendNow" /\ pc' = "idle" /\ SendNowWaits
        /\ UNCHANGED <<hub, queue, order, cancelOf, blocked, phase, injQ, pendingQ, answers,
                       failedQ, sendNowWaiting, sendNowRunning>>
    BY <1>2 DEF SendNowLater
  <2>2. PaneExclusive'
    BY <1>1, <2>1, ExclusiveKept
  <2>3. ~MayDrain
    BY <2>1 DEF SendNowWaits, MayDrain, PaneInv, CalledForAReason
  <2>4. MayDrain' = MayDrain
    BY <2>1 DEF MayDrain, HeldByQuestion, Answering, DrainRunning
  <2> QED
    BY <2>1, <2>2, <2>3, <2>4, Returns DEF NoLostWakeup
<1>3. CASE SendNowAnswered
  <2>1. /\ pc' = "idle" \/ pc' = "drain"
        /\ pc' = "idle" => hub' # "up"
        /\ UNCHANGED <<phase, injQ, answers, sendNowRunning>>
    BY <1>3 DEF SendNowAnswered, ShuttingDown
  <2>2. PaneExclusive'
    BY <1>1, <2>1, ExclusiveKept
  <2> QED
    BY <2>1, <2>2, Returns, GoesOn DEF NoLostWakeup
<1>4. CASE SendNowBegins
  <2>1. /\ pc' = "idle" /\ sendNowRunning' = TRUE /\ ~DrainRunning
        /\ UNCHANGED <<phase, injQ, answers>>
    BY <1>4 DEF SendNowBegins, SendNowWaits
  <2>2. PaneExclusive'
    BY <1>1, <2>1 DEF PaneExclusive, DrainRunning
  <2> QED
    BY <2>1, <2>2, Returns DEF NoLostWakeup, MayDrain
<1>5. CASE SendNowDone
  BY <1>1, <1>5, ExclusiveKept, GoesOn DEF SendNowDone
<1> QED
  BY <1>2, <1>3, <1>4, <1>5 DEF SendNowCall

\* An actor that is gone wants nothing.
LEMMA GonePane ==
    ASSUME PaneExclusive, ActorGone
    PROVE  /\ PaneExclusive' /\ queue' = <<>> /\ ~HeadInOrder'
           /\ pc' = "idle" => PaneInv'
<1>1. /\ phase' = "none" /\ sendNowRunning' = FALSE /\ injQ' = NoQuestion /\ queue' = <<>>
      /\ \A q \in Questions : answers'[q] = "none"
  BY DEF ActorGone
<1>2. PaneExclusive' /\ ~HeadInOrder'
  BY <1>1 DEF PaneExclusive, DrainRunning, HeadInOrder
<1> QED
  BY <1>1, <1>2, Returns DEF NoLostWakeup

LEMMA ProcessPane ==
    ASSUME TypeOK, PaneInv, Process
    PROVE  PaneInv'
<1> USE DEF receiptVars, injectVars, questionVars, failedVars, sendNowVars
<1>1. PaneExclusive
  BY DEF PaneInv, PaneSound
<1>2. CASE Shutdown \/ ReaperFinds \/ NothingToRetire
  BY <1>2, SamePane DEF Shutdown, ReaperFinds, NothingToRetire
<1>3. CASE Crash
  BY <1>1, <1>3, GonePane DEF Crash, Gone
<1>4. CASE RestoreReceipts
  <2>1. pc' = "drain" /\ UNCHANGED <<phase, injQ, answers, sendNowRunning>>
    BY <1>4 DEF RestoreReceipts, StartRestoredDrains, RestoredQuestion
  <2> QED
    BY <1>1, <2>1, ExclusiveKept, GoesOn
<1>5. ASSUME NEW ok \in BOOLEAN, TickSaves(ok)
      PROVE  PaneInv'
  <2>1. /\ pc' = "drain" \/ pc' = "idle"
        /\ UNCHANGED <<hub, queue, order, cancelOf, phase, injQ, pendingQ, answers, failedQ,
                       sendNowWaiting, sendNowRunning>>
    BY <1>5 DEF TickSaves
  <2>2. PaneExclusive'
    BY <1>1, <2>1, ExclusiveKept
  <2>3. CASE pc' = "idle"
    <3>1. blocked' = IF ok THEN FALSE ELSE blocked
      BY <1>5 DEF TickSaves
    <3>2. blocked' = blocked
      <4>1. ~(ok /\ blocked) /\ blocked \in BOOLEAN
        BY <1>5, <2>3 DEF TickSaves, TypeOK
      <4> QED
        BY <3>1, <4>1
    <3>3. MayDrain' = MayDrain /\ HeadInOrder' = HeadInOrder
      BY <2>1, <3>2 DEF MayDrain, HeldByQuestion, Answering, DrainRunning, HeadInOrder
    <3>4. pc = "idle" \/ ~HeadInOrder
      BY <1>5 DEF TickSaves, PaneInv, TickAfterRetirement, HeadInOrder
    <3>5. NoLostWakeup'
      BY <2>1, <2>3, <3>3, <3>4 DEF PaneInv, PaneSound, NoLostWakeup
    <3> QED
      BY <2>2, <2>3, <3>5, Returns
  <2> QED
    BY <2>1, <2>2, <2>3, GoesOn
<1>6. ASSUME NEW ok \in BOOLEAN, EngineRetires(ok)
      PROVE  PaneInv'
  BY <1>1, <1>6, GonePane DEF EngineRetires, Retire
<1>7. ASSUME NEW ok \in BOOLEAN, ReaperRetires(ok)
      PROVE  PaneInv'
  <2>1. ActorGone /\ (pc' = "idle" \/ pc' = "tick")
    BY <1>7 DEF ReaperRetires, Retire
  <2> QED
    BY <1>1, <2>1, GonePane DEF PaneInv, PaneSound, NoLostWakeup, LoopOwnsPane,
                                CalledForAReason, TickAfterRetirement
<1>8. ASSUME NEW ok \in BOOLEAN, Stop(ok)
      PROVE  PaneInv'
  BY <1>1, <1>8, GonePane DEF Stop, Gone
<1>9. ASSUME NEW ok \in BOOLEAN, RestoreDiscards(ok)
      PROVE  PaneInv'
  <2>1. pc' = "drain" /\ UNCHANGED <<phase, injQ, answers, sendNowRunning>>
    BY <1>9 DEF RestoreDiscards, StartRestoredDrains, RestoredQuestion
  <2> QED
    BY <1>1, <2>1, ExclusiveKept, GoesOn
<1> QED
  BY <1>2, <1>3, <1>4, <1>5, <1>6, <1>7, <1>8, <1>9 DEF Process

LEMMA PaneStep ==
    ASSUME Inv, PaneInv, [Next]_vars
    PROVE  PaneInv'
<1> USE DEF Inv
<1>1. CASE Session
  BY <1>1, SamePane DEF Session, SessionKilled, SessionDies, RetireLost, SessionLaunched,
     SessionRerecorded, SessionStep, receiptVars, injectVars, questionVars, failedVars, sendNowVars
<1>2. CASE UNCHANGED vars
  BY <1>2, SamePane DEF vars, receiptVars, injectVars, questionVars, failedVars, sendNowVars
<1> QED
  BY <1>1, <1>2, ClientPane, DrainPane, InjectorPane, QuestionPane, SendNowPane, ProcessPane
  DEF Next
-----------------------------------------------------------------------------
(***************************************************************************)
(* What single steps do to the pane.                                       *)
(***************************************************************************)

\* Only drainChatQueue gives a message to the injector.
LEMMA InjectionStarts ==
    ASSUME [Next]_vars, phase = "none", phase' # "none"
    PROVE  LoopInject
<1> USE DEF injectVars
<1>1. ~Client
  BY DEF Client, SendAnswered, SendJoins, SendRetry, SendNew, DeleteMissing, DeleteQueued,
         SendNowRequest, SendNowStep
<1>2. CASE Drain
  BY <1>2 DEF Drain, DrainCall, LoopExit, LoopWriteFails
<1>3. ~Injector
  BY DEF Injector, InjectionEnds, ChoiceCancelled, BeginTyping, PaneSubmit, InjectSucceeds,
         InjectRejected, InjectDeferred, InjectFails
<1>4. ~Question
  BY DEF Question, QuestionClosed, RecheckFires, QuestionAsked, RelayDismiss, AnswerSubmit,
         AnswerProbed, AnswerEnds, AnswerStale, AnswerDone, AnswerFails, QuestionStep
<1>5. ~(SendNowCall \/ SendNowDone)
  BY DEF SendNowCall, SendNowLater, SendNowAnswered, SendNowBegins, SendNowDone, SendNowStep
<1>6. ~Process
  BY DEF Process, Shutdown, Crash, RestoreReceipts, ReaperFinds, NothingToRetire, TickSaves,
         EngineRetires, ReaperRetires, Retire, Stop, Gone, ActorGone, RestoreDiscards
<1>7. ~Session
  BY DEF Session, SessionKilled, SessionDies, RetireLost, SessionLaunched, SessionRerecorded,
         SessionStep
<1>8. ~UNCHANGED vars
  BY DEF vars
<1> QED
  BY <1>1, <1>2, <1>3, <1>4, <1>5, <1>6, <1>7, <1>8 DEF Next

LEMMA InjectionWaited ==
    ASSUME Inv, PaneInv, LoopInject
    PROVE  /\ Answering = {} /\ ~sendNowRunning
           /\ pendingQ # NoQuestion => /\ pendingQ \in TuiQuestions
                                       /\ \E m \in pending : cancelOf[m] = pendingQ
<1>1. Answering = {} /\ ~sendNowRunning
  BY DEF LoopInject, MayInject, HeldByQuestion, PaneInv, LoopOwnsPane
<1>2. ASSUME pendingQ # NoQuestion
      PROVE  pendingQ \in TuiQuestions /\ \E m \in pending : cancelOf[m] = pendingQ
  <2>1. PICK i \in 1..Len(queue) : cancelOf[queue[i]] = pendingQ
    BY <1>2 DEF LoopInject, MayInject, HeldByQuestion
  <2>2. queue[i] \in pending
    BY DEF Inv, QueueMatchesMaps, Elements
  <2>3. pendingQ \in TuiQuestions
    BY <1>2 DEF LoopInject, MayInject, HeldByQuestion, Inv, TypeOK, Questions
  <2> QED
    BY <2>1, <2>2, <2>3
<1> QED
  BY <1>1, <1>2

LEMMA QuestionGivesWay ==
    ASSUME Inv, [Next]_vars, pendingQ # NoQuestion
    PROVE  pendingQ' \in {pendingQ, NoQuestion} \cup (Questions \ asked)
<1> USE DEF questionVars
<1>1. CASE Client
  BY <1>1 DEF Client, SendAnswered, SendJoins, SendRetry, SendNew, DeleteMissing, DeleteQueued,
              SendNowRequest, SendNowStep
<1>2. CASE Drain
  BY <1>2 DEF Drain, DrainCall, LoopExit, LoopInject, LoopWriteFails
<1>3. CASE Injector
  BY <1>3 DEF Injector, InjectionEnds, ChoiceCancelled, BeginTyping, PaneSubmit, InjectSucceeds,
              InjectRejected, InjectDeferred, InjectFails, ResolveCancelled
<1>4. CASE Question
  BY <1>4 DEF Question, QuestionClosed, RecheckFires, QuestionAsked, RelayDismiss, AnswerSubmit,
              AnswerProbed, AnswerEnds, AnswerStale, AnswerDone, AnswerFails, BroughtBack
<1>5. CASE SendNowCall \/ SendNowDone
  BY <1>5 DEF SendNowCall, SendNowLater, SendNowAnswered, SendNowBegins, SendNowDone, SendNowStep
<1>6. CASE Process
  BY <1>6 DEF Process, Shutdown, Crash, RestoreReceipts, ReaperFinds, NothingToRetire, TickSaves,
              EngineRetires, ReaperRetires, Retire, Stop, Gone, RestoreDiscards, RestoredQuestion
<1>7. CASE Session
  BY <1>7 DEF Session, SessionKilled, SessionDies, RetireLost, SessionLaunched,
              SessionRerecorded, SessionStep
<1>8. CASE UNCHANGED vars
  BY <1>8 DEF vars
<1> QED
  BY <1>1, <1>2, <1>3, <1>4, <1>5, <1>6, <1>7, <1>8 DEF Next
-----------------------------------------------------------------------------
(***************************************************************************)
(* The theorems.                                                           *)
(***************************************************************************)

\* The injection and the chord exclude each other, no answer goes to the question
\* that is being closed, and no wake-up is lost (drainChatQueue, runSendNow and
\* everything that calls them).
THEOREM PaneInvariant == Spec => []PaneInv
<1>1. Inv /\ PaneInv /\ [Next]_vars => PaneInv'
  BY PaneStep
<1> QED
  BY PaneInit, <1>1, Invariant, PTL DEF Spec

\* The pane has one user at a time, and never none while a message could go in.
THEOREM PaneIsSound == Spec => []PaneSound
<1>1. PaneInv => PaneSound
  BY DEF PaneInv
<1> QED
  BY <1>1, PaneInvariant, PTL

\* An injection starts over nobody and nothing (drainChatQueue), and a question
\* gives way only to a newer one (setPendingQuestion, recheckStaleQuestion).
THEOREM PaneStepsSound == Spec => PaneSteps
<1>1. ASSUME Inv, PaneInv, [Next]_vars
      PROVE  [phase = "none" /\ phase' # "none" =>
                /\ Answering = {} /\ ~sendNowRunning
                /\ pendingQ # NoQuestion =>
                      /\ pendingQ \in TuiQuestions
                      /\ \E m \in pending : cancelOf[m] = pendingQ]_vars
  BY <1>1, InjectionStarts, InjectionWaited
<1>2. Inv /\ [Next]_vars =>
        [pendingQ # NoQuestion => pendingQ' \in {pendingQ, NoQuestion} \cup (Questions \ asked)]_vars
  BY QuestionGivesWay
<1>3. Spec => InjectionWaits
  BY <1>1, Invariant, PaneInvariant, PTL DEF Spec, InjectionWaits
<1>4. Spec => NewestQuestionStays
  BY <1>2, Invariant, PTL DEF Spec, NewestQuestionStays
<1> QED
  BY <1>3, <1>4 DEF PaneSteps
-----------------------------------------------------------------------------
(***************************************************************************)
(* What is kept in order and brought back after a restart: the order of    *)
(* the queue and of the journal, whose messages they are, and the life of  *)
(* every message (MessageLife).                                            *)
(***************************************************************************)
\* The message in the injector is the oldest: nothing can be sent again, or put
\* back, in front of it.
HeadInHands == phase # "none" => order # <<>> /\ Head(order) = injMsg

\* The journal has a place for every message in it.
Listed == journal.queued \cup journal.inflight \subseteq Elements(journal.order)

OrderInv == QueueOrdered /\ HeadInHands /\ Listed

\* As long as the ends of sessions are announced and the journal can be written,
\* a hub has only what was sent to the session that runs, and only what was sent
\* to none once a session that ended is retired.
Announced == unannounced = 0 /\ writeFailures = 0
Mine(m) == home[m] = 0 \/ (home[m] = generation /\ (alive \/ retireDue))
Belongs ==
    Announced =>
        /\ \A m \in pending \cup uncertain : Mine(m)
        /\ journal.identity = meta => \A m \in journal.queued \cup journal.inflight : Mine(m)

\* The identity in the journal is not that of a session to come, and nothing is
\* kept without one.
Identified ==
    /\ meta > 0 /\ journal.identity <= meta
    /\ journal.identity = 0 => journal.queued \cup journal.inflight = {}

BelongInv == Belongs /\ Identified
-----------------------------------------------------------------------------
(***************************************************************************)
(* The order of the messages.                                              *)
(***************************************************************************)

\* QueueSorted and OrderAgrees, said with Before.
InSequence(q, o) == \A a, b : Before(q, a, b) => Before(o, a, b)
AsSaved(o, j) == \A a, b \in Elements(j) : Before(o, a, b) => Position(j, a) < Position(j, b)

LEMMA SortedIs ==
    ASSUME NEW T, NEW q \in Seq(T), NEW o \in Seq(T), Injective(o), Elements(q) \subseteq Elements(o)
    PROVE  (\A i, j \in 1..Len(q) : i < j => Position(o, q[i]) < Position(o, q[j]))
              <=> InSequence(q, o)
<1>1. ASSUME \A i, j \in 1..Len(q) : i < j => Position(o, q[i]) < Position(o, q[j]),
             NEW a, NEW b, Before(q, a, b)
      PROVE  Before(o, a, b)
  <2>1. a \in Elements(o) /\ b \in Elements(o)
    BY <1>1, BeforeElements
  <2>2. Position(o, a) < Position(o, b)
    BY <1>1 DEF Before
  <2> QED
    BY <2>1, <2>2, BeforePosition
<1>2. ASSUME InSequence(q, o), NEW i \in 1..Len(q), NEW j \in 1..Len(q), i < j
      PROVE  Position(o, q[i]) < Position(o, q[j])
  <2>1. q[i] \in Elements(o) /\ q[j] \in Elements(o)
    BY DEF Elements
  <2>2. Before(q, q[i], q[j])
    BY <1>2 DEF Before
  <2>3. Before(o, q[i], q[j])
    BY <1>2, <2>2 DEF InSequence
  <2> QED
    BY <2>1, <2>3, BeforePosition
<1> QED
  BY <1>1, <1>2 DEF InSequence

LEMMA AgreeIs ==
    ASSUME NEW o, NEW j
    PROVE  Agree(o, j) <=> AsSaved(o, j)
BY DEF Agree, AsSaved, Before

Ordered == InSequence(queue, order) /\ AsSaved(order, journal.order) /\ HeadInHands

LEMMA OrderedIs ==
    ASSUME Inv
    PROVE  OrderInv <=> Ordered /\ Listed
<1>1. /\ queue \in Seq(Msgs) /\ order \in Seq(Msgs) /\ Injective(order)
      /\ Elements(queue) \subseteq Elements(order)
  BY DEF Inv, TypeOK, QueueMatchesMaps
<1>2. QueueSorted <=> InSequence(queue, order)
  BY <1>1, SortedIs DEF QueueSorted
<1> QED
  BY <1>2, AgreeIs DEF OrderInv, Ordered, QueueOrdered, OrderAgrees

\* A journal that is written has the order of the hub.
LEMMA SavesOrder ==
    ASSUME AsSaved(order, journal.order), order' \in Seq(Msgs), Injective(order'),
           NEW ok \in BOOLEAN, Persist(ok),
           ok \/ \A a, b : Before(order', a, b) => Before(order, a, b)
    PROVE  AsSaved(order', journal.order')
<1>1. CASE ok
  <2>1. journal'.order = order'
    BY <1>1 DEF Persist, Receipts
  <2> QED
    BY <2>1, BeforePosition DEF AsSaved
<1>2. CASE ~ok
  BY <1>2 DEF Persist, AsSaved
<1> QED
  BY <1>1, <1>2

LEMMA SameOrder ==
    ASSUME Ordered, UNCHANGED <<queue, order>>,
           journal' = journal \/ AsSaved(order', journal.order'),
           phase' # "none" => phase # "none" /\ injMsg' = injMsg
    PROVE  Ordered'
BY DEF Ordered, HeadInHands

\* No messages are in order.
LEMMA NoOrder ==
    ASSUME queue' = <<>>, order' = <<>>, phase' = "none"
    PROVE  Ordered'
<1>1. \A a, b : ~Before(<<>>, a, b)
  BY DEF Before
<1> QED
  BY <1>1 DEF Ordered, HeadInHands, InSequence, AsSaved

LEMMA ClientOrder ==
    ASSUME Inv, Inv', Ordered, Client
    PROVE  Ordered'
<1> USE DEF Ready
<1>a. /\ queue \in Seq(Msgs) /\ order \in Seq(Msgs) /\ Injective(queue) /\ Injective(order)
      /\ order' \in Seq(Msgs) /\ Injective(order')
      /\ Elements(queue) = pending \ Injecting /\ Elements(order) = pending \cup uncertain
      /\ Injecting \subseteq pending /\ pending \cap uncertain = {}
  BY DEF Inv, TypeOK, QueueMatchesMaps
<1>b. InSequence(queue, order) /\ AsSaved(order, journal.order) /\ HeadInHands
  BY DEF Ordered
<1>1. ASSUME NEW m \in Msgs, NEW cq \in CancelChoices, SendAnswered(m, cq) \/ SendJoins(m, cq)
      PROVE  Ordered'
  BY <1>1, SameOrder DEF SendAnswered, SendJoins, receiptVars, injectVars, diskVars
<1>2. ASSUME NEW m \in Msgs, NEW cq \in CancelChoices, NEW ok \in BOOLEAN, SendRetry(m, cq, ok)
      PROVE  Ordered'
  <2>1. /\ m \in uncertain /\ order # <<>> /\ Head(order) = m /\ order' = order
        /\ phase' = phase /\ injMsg' = injMsg
    BY <1>2 DEF SendRetry, injectVars
  <2>2. AsSaved(order', journal.order')
    BY <1>2, <1>a, <1>b, <2>1, SavesOrder DEF SendRetry
  <2>3. CASE ok
    <3>1. queue' = <<m>> \o queue
      BY <1>2, <2>3 DEF SendRetry, AtFront
    <3>2. ASSUME NEW a, NEW b, Before(queue', a, b)
          PROVE  Before(order', a, b)
      <4>1. Before(queue, a, b) \/ (a = m /\ b \in Elements(queue))
        BY <1>a, <3>1, <3>2, BeforeFront
      <4>2. CASE a = m /\ b \in Elements(queue)
        <5>1. b \in Elements(order) /\ b # m
          BY <1>a, <2>1, <4>2
        <5> QED
          BY <1>a, <2>1, <4>2, <5>1, BeforeHead
      <4> QED
        BY <1>b, <2>1, <4>1, <4>2 DEF InSequence
    <3> QED
      BY <1>b, <2>1, <2>2, <3>2 DEF Ordered, InSequence, HeadInHands
  <2>4. CASE ~ok
    BY <1>2, <2>1, <2>2, <2>4, SameOrder DEF SendRetry
  <2> QED
    BY <2>3, <2>4
<1>3. ASSUME NEW m \in Msgs, NEW cq \in CancelChoices, NEW ok \in BOOLEAN, SendNew(m, cq, ok)
      PROVE  Ordered'
  <2>1. phase' = phase /\ injMsg' = injMsg
    BY <1>3 DEF SendNew, injectVars
  <2>2. CASE ok
    <3>1. queue' = Append(queue, m) /\ order' = Append(order, m)
      BY <1>3, <2>2 DEF SendNew
    <3>2. AsSaved(order', journal.order')
      BY <1>3, <1>a, <1>b, <2>2, SavesOrder DEF SendNew
    <3>3. ASSUME NEW a, NEW b, Before(queue', a, b)
          PROVE  Before(order', a, b)
      <4>1. Before(queue, a, b) \/ (a \in Elements(queue) /\ b = m)
        BY <1>a, <3>1, <3>3, BeforeAppend
      <4>2. Before(order, a, b) \/ (a \in Elements(order) /\ b = m)
        BY <1>a, <1>b, <4>1 DEF InSequence
      <4> QED
        BY <1>a, <3>1, <4>2, BeforeAppend
    <3>4. order # <<>> => order' # <<>> /\ Head(order') = Head(order)
      BY <1>a, <3>1
    <3> QED
      BY <1>b, <2>1, <3>2, <3>3, <3>4 DEF Ordered, InSequence, HeadInHands
  <2>3. CASE ~ok
    BY <1>3, <2>1, <2>3, SameOrder DEF SendNew, Persist
  <2> QED
    BY <2>2, <2>3
<1>4. ASSUME NEW m \in Msgs, NEW ok \in BOOLEAN, DeleteMissing(m, ok)
      PROVE  Ordered'
  <2>1. UNCHANGED <<queue, order, phase, injMsg>>
    BY <1>4 DEF DeleteMissing, injectVars
  <2>2. AsSaved(order', journal.order')
    BY <1>4, <1>a, <1>b, <2>1, SavesOrder DEF DeleteMissing
  <2> QED
    BY <2>1, <2>2, SameOrder
<1>5. ASSUME NEW m \in Msgs, NEW ok \in BOOLEAN, DeleteQueued(m, ok)
      PROVE  Ordered'
  <2>1. phase' = phase /\ injMsg' = injMsg
    BY <1>5 DEF DeleteQueued, injectVars
  <2>2. CASE ok
    <3>1. queue' = Without(queue, m) /\ order' = Without(order, m) /\ m \notin Injecting
      BY <1>5, <2>2 DEF DeleteQueued, Deletable
    <3>2. AsSaved(order', journal.order')
      BY <1>5, <1>a, <1>b, <2>2, SavesOrder DEF DeleteQueued
    <3>3. ASSUME NEW a, NEW b, Before(queue', a, b)
          PROVE  Before(order', a, b)
      <4>1. a \in Elements(queue') /\ b \in Elements(queue')
        BY <3>3, BeforeElements
      <4>2. a # m /\ b # m
        BY <1>a, <3>1, <4>1, WithoutElements
      <4>3. Before(order, a, b)
        BY <1>a, <1>b, <3>1, <3>3, BeforeWithout DEF InSequence
      <4> QED
        BY <1>a, <3>1, <4>2, <4>3, BeforeWithout
    <3>4. HeadInHands'
      BY <1>a, <1>b, <2>1, <3>1, BeforeWithout DEF HeadInHands, Injecting
    <3> QED
      BY <3>2, <3>3, <3>4 DEF Ordered, InSequence
  <2>3. CASE ~ok
    BY <1>5, <2>1, <2>3, SameOrder DEF DeleteQueued, Persist
  <2> QED
    BY <2>2, <2>3
<1>6. ASSUME SendNowRequest
      PROVE  Ordered'
  BY <1>6, SameOrder DEF SendNowRequest, SendNowStep, receiptVars, injectVars, diskVars
<1> QED
  BY <1>1, <1>2, <1>3, <1>4, <1>5, <1>6 DEF Client

LEMMA DrainOrder ==
    ASSUME Inv, Inv', Ordered, Drain
    PROVE  Ordered'
<1>1. CASE DrainCall \/ LoopExit
  BY <1>1, SameOrder DEF DrainCall, LoopExit, receiptVars, injectVars, diskVars
<1>2. CASE LoopInject
  <2>1. /\ queue \in Seq(Msgs) /\ queue # <<>> /\ order # <<>> /\ Head(order) = Head(queue)
        /\ queue' = Tail(queue) /\ order' = order /\ injMsg' = Head(queue)
    BY <1>2 DEF LoopInject, MayInject, HeadInOrder, Inv, TypeOK
  <2>2. AsSaved(order', journal.order')
    BY <1>2, SavesOrder DEF LoopInject, Ordered, Inv, TypeOK, QueueMatchesMaps
  <2>3. InSequence(queue', order')
    BY <2>1, BeforeTail DEF Ordered, InSequence
  <2> QED
    BY <2>1, <2>2, <2>3 DEF Ordered, HeadInHands
<1>3. CASE LoopWriteFails
  BY <1>3, SameOrder DEF LoopWriteFails, Persist, receiptVars, injectVars
<1> QED
  BY <1>1, <1>2, <1>3 DEF Drain

LEMMA InjectorOrder ==
    ASSUME Inv, Inv', Ordered, Injector
    PROVE  Ordered'
<1>a. /\ queue \in Seq(Msgs) /\ order \in Seq(Msgs) /\ Injective(queue) /\ Injective(order)
      /\ order' \in Seq(Msgs) /\ Injective(order')
      /\ Elements(queue) = pending \ Injecting /\ Elements(order) = pending \cup uncertain
  BY DEF Inv, TypeOK, QueueMatchesMaps
<1>b. InSequence(queue, order) /\ AsSaved(order, journal.order) /\ HeadInHands
  BY DEF Ordered
<1>c. phase # "none" => injMsg \in Msgs /\ Injecting = {injMsg}
  BY DEF Inv, TypeOK, Injecting
<1>1. CASE ChoiceCancelled \/ BeginTyping \/ PaneSubmit
  BY <1>1, SameOrder DEF ChoiceCancelled, BeginTyping, PaneSubmit, receiptVars, injectVars, diskVars
<1>2. ASSUME NEW ok \in BOOLEAN, InjectSucceeds(ok) \/ InjectRejected(ok)
      PROVE  Ordered'
  <2>1. /\ queue' = queue /\ order' = Without(order, injMsg)
        /\ phase # "none" /\ phase' = "none" /\ Persist(ok)
    BY <1>2 DEF InjectSucceeds, InjectRejected, InjectionOver
  <2>2. AsSaved(order', journal.order')
    BY <1>a, <1>b, <2>1, SavesOrder, BeforeWithout
  <2>3. ASSUME NEW a, NEW b, Before(queue', a, b)
        PROVE  Before(order', a, b)
    <3>1. a # injMsg /\ b # injMsg
      BY <1>a, <1>c, <2>1, <2>3, BeforeElements
    <3>2. Before(order, a, b)
      BY <1>b, <2>1, <2>3 DEF InSequence
    <3> QED
      BY <1>a, <2>1, <3>1, <3>2, BeforeWithout
  <2> QED
    BY <2>1, <2>2, <2>3 DEF Ordered, InSequence, HeadInHands
<1>3. ASSUME NEW ok \in BOOLEAN, InjectDeferred(ok)
      PROVE  Ordered'
  <2>1. /\ queue' = <<injMsg>> \o queue /\ order' = order
        /\ phase # "none" /\ phase' = "none" /\ Persist(ok)
    BY <1>3 DEF InjectDeferred, InjectionOver, AtFront
  <2>2. AsSaved(order', journal.order')
    BY <1>a, <1>b, <2>1, SavesOrder
  <2>3. ASSUME NEW a, NEW b, Before(queue', a, b)
        PROVE  Before(order', a, b)
    <3>1. Before(queue, a, b) \/ (a = injMsg /\ b \in Elements(queue))
      BY <1>a, <1>c, <2>1, <2>3, BeforeFront
    <3>2. CASE a = injMsg /\ b \in Elements(queue)
      <4>1. b \in Elements(order) /\ b # injMsg
        BY <1>a, <1>c, <2>1, <3>2
      <4>2. order # <<>> /\ Head(order) = injMsg
        BY <1>b, <2>1 DEF HeadInHands
      <4> QED
        BY <1>a, <2>1, <3>2, <4>1, <4>2, BeforeHead
    <3> QED
      BY <1>b, <2>1, <3>1, <3>2 DEF InSequence
  <2> QED
    BY <2>1, <2>2, <2>3 DEF Ordered, InSequence, HeadInHands
<1>4. ASSUME NEW ok \in BOOLEAN, InjectFails(ok)
      PROVE  Ordered'
  <2>1. queue' = queue /\ order' = order /\ phase' = "none" /\ Persist(ok)
    BY <1>4 DEF InjectFails, InjectionOver
  <2>2. AsSaved(order', journal.order')
    BY <1>a, <1>b, <2>1, SavesOrder
  <2> QED
    BY <2>1, <2>2, SameOrder
<1> QED
  BY <1>1, <1>2, <1>3, <1>4 DEF Injector, InjectionEnds

\* A restart sorts the messages as they are saved.
LEMMA RestoreOrder ==
    ASSUME Inv, Inv', Listed, RestoreReceipts
    PROVE  Ordered'
<1>1. /\ order' \in Sorted(pending' \cup uncertain', journal.order)
      /\ queue' \in Sorted(pending', journal.order)
      /\ journal' = journal /\ phase' = "none"
  BY DEF RestoreReceipts, diskVars, injectVars, Inv, DownIsEmpty
<1>2. /\ IsFiniteSet(pending') /\ IsFiniteSet(pending' \cup uncertain')
      /\ order' \in Seq(Msgs) /\ Elements(order') = pending' \cup uncertain'
  <2>1. order' \in Seq(Msgs) /\ Elements(order') = pending' \cup uncertain'
    BY DEF Inv, TypeOK, QueueMatchesMaps, Elements
  <2> QED
    BY <2>1, FiniteElements, FS_Subset
<1>3. AsSaved(order', journal.order')
  BY <1>1, <1>2, BeforeSorted DEF AsSaved
<1>4. ASSUME NEW a, NEW b, Before(queue', a, b)
      PROVE  Before(order', a, b)
  <2>1. Position(journal.order, a) < Position(journal.order, b)
    BY <1>1, <1>2, <1>4, BeforeSorted
  <2>2. a \in Elements(order') /\ b \in Elements(order')
    <3>1. Elements(queue') \subseteq pending'
      BY <1>1, <1>2, SortedElements
    <3> QED
      BY <1>2, <1>4, <3>1, BeforeElements
  <2>3. Position(journal.order, a) \in Int /\ Position(journal.order, b) \in Int
    <3>1. pending' \cup uncertain' \subseteq Elements(journal.order)
      BY DEF RestoreReceipts, RestoredUncertain, Listed
    <3>2. \A c \in Elements(journal.order) : Position(journal.order, c) \in 1..Len(journal.order)
      BY DEF Elements, Position
    <3>3. 1..Len(journal.order) \subseteq Int
      OBVIOUS
    <3> QED
      BY <1>2, <2>2, <3>1, <3>2, <3>3
  <2>4. ~Before(order', b, a) /\ a # b
    <3>1. ASSUME Before(order', b, a)
          PROVE  FALSE
      <4>1. Position(journal.order, b) < Position(journal.order, a)
        BY <1>1, <1>2, <3>1, BeforeSorted
      <4> QED
        BY <2>1, <2>3, <4>1
    <3> QED
      BY <2>1, <2>3, <3>1
  <2> QED
    BY <1>2, <2>2, <2>4, BeforeTotal
<1> QED
  BY <1>1, <1>3, <1>4 DEF Ordered, InSequence, HeadInHands

LEMMA ProcessOrder ==
    ASSUME Inv, Inv', Ordered, Listed, Process
    PROVE  Ordered'
<1>a. /\ order \in Seq(Msgs) /\ Injective(order) /\ order' \in Seq(Msgs) /\ Injective(order')
      /\ AsSaved(order, journal.order)
  BY DEF Inv, TypeOK, QueueMatchesMaps, Ordered
<1>1. CASE Shutdown \/ ReaperFinds \/ NothingToRetire
  BY <1>1, SameOrder DEF Shutdown, ReaperFinds, NothingToRetire, receiptVars, injectVars, diskVars
<1>2. CASE Crash
  BY <1>2, NoOrder DEF Crash, Gone, ActorGone
<1>3. CASE RestoreReceipts
  BY <1>3, RestoreOrder
<1>4. ASSUME NEW ok \in BOOLEAN, TickSaves(ok)
      PROVE  Ordered'
  <2>1. UNCHANGED <<queue, order, phase, injMsg>>
    BY <1>4 DEF TickSaves, receiptVars, injectVars
  <2>2. AsSaved(order', journal.order')
    BY <1>4, <1>a, <2>1, SavesOrder DEF TickSaves
  <2> QED
    BY <2>1, <2>2, SameOrder
<1>5. ASSUME NEW ok \in BOOLEAN, EngineRetires(ok) \/ ReaperRetires(ok)
      PROVE  Ordered'
  BY <1>5, NoOrder DEF EngineRetires, ReaperRetires, Retire, ActorGone
<1>6. ASSUME NEW ok \in BOOLEAN, Stop(ok)
      PROVE  Ordered'
  BY <1>6, NoOrder DEF Stop, Gone, ActorGone
<1>7. ASSUME NEW ok \in BOOLEAN, RestoreDiscards(ok)
      PROVE  Ordered'
  BY <1>7, NoOrder DEF RestoreDiscards, Inv, DownIsEmpty, receiptVars, injectVars
<1> QED
  BY <1>1, <1>2, <1>3, <1>4, <1>5, <1>6, <1>7 DEF Process

\* What is written has a place for every message (persistChatReceipts).
LEMMA ListedStep ==
    ASSUME Inv, Inv', Listed, [Next]_vars
    PROVE  Listed'
<1>1. /\ Elements(order) = pending \cup uncertain /\ Elements(order') = pending' \cup uncertain'
  BY DEF Inv, QueueMatchesMaps, Elements
<1>2. CASE journal' = journal
  BY <1>2 DEF Listed
<1>3. CASE journal' = Receipts
  BY <1>1, <1>3 DEF Receipts, Listed
<1>4. CASE journal' = Receipts'
  BY <1>1, <1>4 DEF Receipts, Listed
<1> QED
  BY <1>2, <1>3, <1>4, JournalStep

\* Nobody else touches it.
LEMMA OthersOrder ==
    ASSUME Ordered, Question \/ SendNowCall \/ SendNowDone \/ Session \/ UNCHANGED vars
    PROVE  Ordered'
<1>1. CASE Question \/ SendNowCall \/ SendNowDone
  <2>1. QuestionStep \/ SendNowStep
    BY <1>1 DEF Question, QuestionClosed, RecheckFires, QuestionAsked, RelayDismiss, AnswerSubmit,
                AnswerProbed, AnswerEnds, AnswerStale, AnswerDone, AnswerFails, SendNowCall,
                SendNowLater, SendNowAnswered, SendNowBegins, SendNowDone
  <2> QED
    BY <2>1, SameOrder DEF QuestionStep, SendNowStep, receiptVars, injectVars, diskVars
<1>2. CASE Session
  BY <1>2, SameOrder DEF Session, SessionKilled, SessionDies, RetireLost, SessionLaunched,
     SessionRerecorded, SessionStep, receiptVars, injectVars, diskVars
<1>3. CASE UNCHANGED vars
  BY <1>3, SameOrder DEF vars, receiptVars, injectVars, diskVars
<1> QED
  BY <1>1, <1>2, <1>3

LEMMA OrderedStep ==
    ASSUME Inv, Inv', Ordered, Listed, [Next]_vars
    PROVE  Ordered'
BY ClientOrder, DrainOrder, InjectorOrder, ProcessOrder, OthersOrder DEF Next

LEMMA OrderStep ==
    ASSUME Inv, OrderInv, [Next]_vars
    PROVE  OrderInv'
<1>1. Inv'
  BY InvStep
<1>2. Ordered /\ Listed
  BY OrderedIs
<1>3. Ordered'
  BY <1>1, <1>2, OrderedStep
<1>4. Listed'
  BY <1>1, <1>2, ListedStep
<1>5. /\ queue' \in Seq(Msgs) /\ order' \in Seq(Msgs) /\ Injective(order')
      /\ Elements(queue') \subseteq Elements(order')
  BY <1>1 DEF Inv, TypeOK, QueueMatchesMaps, Elements
<1>6. QueueSorted'
  BY <1>3, <1>5, SortedIs DEF QueueSorted, Ordered
<1>7. OrderAgrees'
  BY <1>3, AgreeIs DEF OrderAgrees, Ordered
<1> QED
  BY <1>3, <1>4, <1>6, <1>7 DEF OrderInv, QueueOrdered, Ordered

LEMMA OrderInit == Init => OrderInv
<1> SUFFICES ASSUME Init PROVE OrderInv
  OBVIOUS
<1>1. /\ queue = <<>> /\ order = <<>> /\ phase = "none" /\ journal = NoJournal
  BY DEF Init
<1>2. QueueSorted /\ OrderAgrees
  BY <1>1 DEF QueueSorted, OrderAgrees, Agree
<1> QED
  BY <1>1, <1>2 DEF OrderInv, QueueOrdered, HeadInHands, Listed, NoJournal

\* The order of the queue, of the hub and of the journal, and what they rest on: the
\* message in the injector is the oldest, and the journal lists what it has.
THEOREM OrderInvariant == Spec => []OrderInv
<1>1. Inv /\ OrderInv /\ [Next]_vars => OrderInv'
  BY OrderStep
<1> QED
  BY OrderInit, Invariant, <1>1, PTL DEF Spec

\* The queue, the order of the hub and the order in the journal name the messages in
\* one sequence, whatever is sent, deleted, retried, put back and restored.
THEOREM QueueInOrder == Spec => []QueueOrdered
<1>1. OrderInv => QueueOrdered
  BY DEF OrderInv
<1> QED
  BY OrderInvariant, <1>1, PTL
-----------------------------------------------------------------------------
(***************************************************************************)
(* Whose messages they are.                                                *)
(***************************************************************************)
Kept == journal.queued \cup journal.inflight

\* A step that takes on no message and leaves the session alone.
TakesNothing ==
    /\ pending' \cup uncertain' \subseteq pending \cup uncertain
    /\ journal' = journal \/ journal' = Receipts \/ journal' = Receipts'
    /\ UNCHANGED <<meta, generation, alive, retireDue, home>>
    /\ unannounced' = unannounced

\* What is written has the identity on record, and none when nothing is kept.
LEMMA WrittenIdentity ==
    ASSUME QueueMatchesMaps, TypeOK, QueueMatchesMaps', TypeOK'
    PROVE  /\ Receipts.identity \in {0, meta} /\ Receipts'.identity \in {0, meta'}
           /\ Receipts.queued \cup Receipts.inflight = pending \cup uncertain
           /\ Receipts'.queued \cup Receipts'.inflight = pending' \cup uncertain'
           /\ Receipts.identity = 0 /\ meta > 0 => pending \cup uncertain = {}
           /\ Receipts'.identity = 0 /\ meta' > 0 => pending' \cup uncertain' = {}
<1>1. /\ Receipts.identity \in {0, meta} /\ Receipts'.identity \in {0, meta'}
      /\ Receipts.identity = 0 /\ meta > 0 => pending \cup uncertain = {}
      /\ Receipts'.identity = 0 /\ meta' > 0 => pending' \cup uncertain' = {}
  BY DEF Receipts, NothingKept
<1>2. Receipts.queued \cup Receipts.inflight = pending \cup uncertain
  BY DEF Receipts, QueueMatchesMaps
<1>3. Receipts'.queued \cup Receipts'.inflight = pending' \cup uncertain'
  BY DEF Receipts, QueueMatchesMaps
<1> QED
  BY <1>1, <1>2, <1>3

LEMMA FailuresStay ==
    ASSUME TypeOK, [Next]_vars
    PROVE  writeFailures' >= writeFailures
<1> USE DEF TypeOK, diskVars
<1>1. CASE Client
  <2>1. CASE \E m \in Msgs, cq \in CancelChoices : SendAnswered(m, cq) \/ SendJoins(m, cq)
    BY <2>1 DEF SendAnswered, SendJoins
  <2>2. ASSUME NEW m \in Msgs, NEW cq \in CancelChoices, NEW ok \in BOOLEAN,
               SendRetry(m, cq, ok) \/ SendNew(m, cq, ok)
        PROVE  writeFailures' >= writeFailures
    BY <2>2 DEF SendRetry, SendNew, Persist
  <2>3. ASSUME NEW m \in Msgs, NEW ok \in BOOLEAN, DeleteMissing(m, ok) \/ DeleteQueued(m, ok)
        PROVE  writeFailures' >= writeFailures
    BY <2>3 DEF DeleteMissing, DeleteQueued, Persist
  <2>4. CASE SendNowRequest
    BY <2>4 DEF SendNowRequest, SendNowStep
  <2> QED
    BY <1>1, <2>1, <2>2, <2>3, <2>4 DEF Client
<1>2. CASE Drain
  BY <1>2 DEF Drain, DrainCall, LoopExit, LoopInject, LoopWriteFails, Persist
<1>3. CASE Injector
  BY <1>3 DEF Injector, InjectionEnds, ChoiceCancelled, BeginTyping, PaneSubmit, InjectSucceeds,
              InjectRejected, InjectDeferred, InjectFails, Persist
<1>4. CASE Question
  BY <1>4 DEF Question, QuestionClosed, RecheckFires, QuestionAsked, RelayDismiss,
              AnswerSubmit, AnswerProbed, AnswerEnds, AnswerStale, AnswerDone, AnswerFails,
              QuestionStep
<1>5. CASE SendNowCall \/ SendNowDone
  BY <1>5 DEF SendNowCall, SendNowLater, SendNowAnswered, SendNowBegins, SendNowDone,
              SendNowStep
<1>6. CASE Process
  <2>1. CASE Shutdown \/ Crash \/ RestoreReceipts \/ ReaperFinds \/ NothingToRetire
    BY <2>1 DEF Shutdown, Crash, RestoreReceipts, ReaperFinds, NothingToRetire
  <2>2. ASSUME NEW ok \in BOOLEAN,
               TickSaves(ok) \/ EngineRetires(ok) \/ ReaperRetires(ok) \/ RestoreDiscards(ok)
        PROVE  writeFailures' >= writeFailures
    <3>1. Persist(ok)
      BY <2>2 DEF TickSaves, EngineRetires, ReaperRetires, Retire, RestoreDiscards
    <3> QED
      BY <3>1 DEF Persist
  <2>3. ASSUME NEW ok \in BOOLEAN, Stop(ok)
        PROVE  writeFailures' >= writeFailures
    <3>1. writeFailures' = writeFailures \/ writeFailures' = writeFailures + 1
      BY <2>3 DEF Stop
    <3> QED
      BY <3>1
  <2> QED
    BY <1>6, <2>1, <2>2, <2>3 DEF Process
<1>7. CASE Session
  BY <1>7 DEF Session, SessionKilled, SessionDies, RetireLost, SessionLaunched,
              SessionRerecorded, SessionStep
<1>8. CASE UNCHANGED vars
  BY <1>8 DEF vars
<1> QED
  BY <1>1, <1>2, <1>3, <1>4, <1>5, <1>6, <1>7, <1>8 DEF Next

LEMMA TakesNothingBelongs ==
    ASSUME Inv, Inv', BelongInv, TakesNothing, writeFailures' >= writeFailures
    PROVE  BelongInv'
<1>1. /\ QueueMatchesMaps /\ TypeOK /\ QueueMatchesMaps' /\ TypeOK'
      /\ meta \in Nat /\ writeFailures \in Nat /\ journal.identity \in Nat
      /\ writeFailures' \in Nat
  BY DEF Inv, TypeOK, Receipt
<1>2. /\ Kept' \subseteq Kept \cup pending \cup uncertain
      /\ (Kept' = Kept /\ journal' = journal) \/ Kept' \subseteq pending \cup uncertain
  BY <1>1, WrittenIdentity DEF TakesNothing, Kept
<1>3. \A m : Mine(m)' <=> Mine(m)
  BY DEF TakesNothing, Mine
<1>4. Announced' => Announced
  BY <1>1 DEF TakesNothing, Announced
<1>5. Belongs'
  BY <1>2, <1>3, <1>4 DEF BelongInv, Belongs, TakesNothing, Kept
<1>6. /\ journal'.identity \in {0, meta, journal.identity}
      /\ journal'.identity = 0 => Kept' = {}
  BY <1>1, WrittenIdentity DEF TakesNothing, Kept, BelongInv, Identified
<1>7. Identified'
  BY <1>1, <1>6 DEF TakesNothing, BelongInv, Identified, Kept
<1> QED
  BY <1>5, <1>7 DEF BelongInv

\* SendNew: a message of the session that runs, or of none.
LEMMA SendNewBelongs ==
    ASSUME Inv, Inv', BelongInv, NEW m \in Msgs, NEW cq \in CancelChoices, SendNew(m, cq, TRUE)
    PROVE  BelongInv'
<1>1. /\ pending' = pending \cup {m} /\ uncertain' = uncertain /\ m \notin pending \cup uncertain
      /\ home' = [home EXCEPT ![m] = IF alive THEN generation ELSE 0]
      /\ UNCHANGED <<meta, generation, alive, retireDue, unannounced, writeFailures>>
      /\ journal' = Receipts'
  BY DEF SendNew, Known, Persist, lifeVars
<1>2. home \in [Msgs -> Nat] /\ pending \cup uncertain \subseteq Msgs
  BY DEF Inv, TypeOK
<1>3. Mine(m)' /\ \A n \in pending \cup uncertain : home'[n] = home[n]
  BY <1>1, <1>2 DEF Mine
<1>4. Announced' <=> Announced
  BY <1>1 DEF Announced
<1>5. ASSUME Announced', NEW n \in pending' \cup uncertain'
      PROVE  Mine(n)'
  BY <1>1, <1>3, <1>4, <1>5 DEF BelongInv, Belongs, Mine
<1>6. /\ Kept' = pending' \cup uncertain' /\ journal'.identity \in {0, meta'}
      /\ journal'.identity = 0 /\ meta' > 0 => pending' \cup uncertain' = {}
  BY <1>1, WrittenIdentity DEF Kept, Inv
<1>7. Belongs'
  BY <1>5, <1>6 DEF Belongs, Kept
<1>8. Identified'
  BY <1>1, <1>6 DEF BelongInv, Identified, Kept, Inv, TypeOK
<1> QED
  BY <1>7, <1>8 DEF BelongInv

\* A restart takes what the journal of the session on record has.
LEMMA RestoreBelongs ==
    ASSUME Inv, BelongInv, RestoreReceipts, Announced
    PROVE  \A m \in pending' \cup uncertain' : Mine(m)
<1>1. pending' \cup uncertain' \subseteq Kept
  BY DEF RestoreReceipts, RestoredUncertain, Kept
<1>2. journal.identity = 0 \/ journal.identity = meta
  BY DEF RestoreReceipts, StaleJournal
<1> QED
  BY <1>1, <1>2 DEF BelongInv, Belongs, Identified, Kept

\* Sessions come and go: a new one has another identity, and the retirement of
\* the one before has reached a hub that is up.
LEMMA SessionBelongs ==
    ASSUME Inv, BelongInv, Session
    PROVE  BelongInv'
<1>1. UNCHANGED <<pending, uncertain, journal, writeFailures, home, hub>>
  BY DEF Session, SessionKilled, SessionDies, RetireLost, SessionLaunched, SessionRerecorded,
         SessionStep, receiptVars, diskVars, historyVars
<1>2. /\ meta \in Nat /\ meta' \in Nat /\ journal.identity \in Nat
      /\ generation \in Nat /\ unannounced \in Nat
      /\ meta' = meta \/ meta' = meta + 1
  BY DEF Inv, TypeOK, Receipt, Session, SessionKilled, SessionDies, RetireLost, SessionLaunched,
         SessionRerecorded
<1>3. Identified'
  BY <1>1, <1>2 DEF BelongInv, Identified
<1>4. CASE SessionKilled
  <2>1. \A m : Mine(m) => Mine(m)'
    BY <1>1, <1>4 DEF SessionKilled, Mine
  <2>2. (Announced' => Announced) /\ meta' = meta
    BY <1>1, <1>4 DEF SessionKilled, Announced
  <2> QED
    BY <1>1, <1>3, <2>1, <2>2 DEF BelongInv, Belongs
<1>5. CASE SessionDies \/ RetireLost
  <2>1. ~Announced'
    BY <1>2, <1>5 DEF SessionDies, RetireLost, Announced
  <2> QED
    BY <1>3, <2>1 DEF BelongInv, Belongs
<1>6. CASE SessionLaunched
  <2>1. journal'.identity # meta' /\ (Announced' => Announced)
    BY <1>1, <1>2, <1>6 DEF SessionLaunched, BelongInv, Identified, Announced
  <2>2. CASE hub = "down"
    BY <1>1, <1>3, <2>1, <2>2 DEF BelongInv, Belongs, Inv, DownIsEmpty
  <2>3. CASE hub # "down"
    BY <1>1, <1>3, <1>6, <2>1, <2>3 DEF SessionLaunched, BelongInv, Belongs, Mine
  <2> QED
    BY <2>2, <2>3
<1>7. CASE SessionRerecorded
  <2>1. journal'.identity # meta' /\ (Announced' => Announced)
    BY <1>1, <1>2, <1>7 DEF SessionRerecorded, BelongInv, Identified, Announced
  <2>2. \A m : Mine(m) => Mine(m)'
    BY <1>1, <1>7 DEF SessionRerecorded, Mine
  <2> QED
    BY <1>1, <1>3, <2>1, <2>2 DEF BelongInv, Belongs
<1> QED
  BY <1>4, <1>5, <1>6, <1>7 DEF Session

\* A hub that forgets its messages writes so, or the write fails.
LEMMA EmptyBelongs ==
    ASSUME Inv, Inv', BelongInv, NEW ok \in BOOLEAN, Persist(ok), pending' \cup uncertain' = {},
           meta' = meta
    PROVE  BelongInv'
<1>1. /\ meta \in Nat /\ journal.identity \in Nat /\ writeFailures \in Nat
  BY DEF Inv, TypeOK, Receipt
<1>2. CASE ok
  <2>1. /\ Kept' = {} /\ journal'.identity \in {0, meta'}
    BY <1>2, WrittenIdentity DEF Persist, Kept, Inv
  <2> QED
    BY <1>1, <2>1 DEF BelongInv, Belongs, Identified, Kept
<1>3. CASE ~ok
  <2>1. journal' = journal /\ writeFailures' # 0
    BY <1>1, <1>3 DEF Persist
  <2> QED
    BY <2>1 DEF BelongInv, Belongs, Identified, Announced
<1> QED
  BY <1>2, <1>3

LEMMA ClientBelongs ==
    ASSUME Inv, Inv', BelongInv, Client, writeFailures' >= writeFailures
    PROVE  BelongInv'
<1> USE DEF receiptVars, diskVars, sessionVars, lifeVars, historyVars
<1>1. CASE \E m \in Msgs, cq \in CancelChoices : SendAnswered(m, cq) \/ SendJoins(m, cq)
  BY <1>1, TakesNothingBelongs DEF SendAnswered, SendJoins, TakesNothing
<1>2. ASSUME NEW m \in Msgs, NEW cq \in CancelChoices, NEW ok \in BOOLEAN, SendRetry(m, cq, ok)
      PROVE  BelongInv'
  BY <1>2, TakesNothingBelongs DEF SendRetry, TakesNothing, Persist
<1>3. ASSUME NEW m \in Msgs, NEW cq \in CancelChoices, NEW ok \in BOOLEAN, SendNew(m, cq, ok)
      PROVE  BelongInv'
  <2>1. CASE ok
    <3>1. SendNew(m, cq, TRUE)
      BY <1>3, <2>1, Zenon
    <3> QED
      BY <3>1, SendNewBelongs
  <2>2. CASE ~ok
    BY <1>3, <2>2, TakesNothingBelongs DEF SendNew, TakesNothing, Persist
  <2> QED
    BY <2>1, <2>2
<1>4. ASSUME NEW m \in Msgs, NEW ok \in BOOLEAN, DeleteMissing(m, ok) \/ DeleteQueued(m, ok)
      PROVE  BelongInv'
  BY <1>4, TakesNothingBelongs DEF DeleteMissing, DeleteQueued, TellDeleted, TakesNothing, Persist
<1>5. CASE SendNowRequest
  BY <1>5, TakesNothingBelongs DEF SendNowRequest, SendNowStep, TakesNothing
<1> QED
  BY <1>1, <1>2, <1>3, <1>4, <1>5 DEF Client

LEMMA PaneBelongs ==
    ASSUME Inv, Inv', BelongInv, writeFailures' >= writeFailures,
           Drain \/ Injector \/ Question \/ SendNowCall \/ SendNowDone \/ UNCHANGED vars
    PROVE  BelongInv'
<1> USE DEF receiptVars, diskVars, sessionVars, lifeVars, historyVars
<1>1. CASE DrainCall \/ LoopExit
  BY <1>1, TakesNothingBelongs DEF DrainCall, LoopExit, TakesNothing
<1>2. CASE LoopInject \/ LoopWriteFails
  BY <1>2, TakesNothingBelongs DEF LoopInject, LoopWriteFails, TakesNothing, Persist
<1>3. CASE ChoiceCancelled \/ BeginTyping \/ PaneSubmit
  BY <1>3, TakesNothingBelongs DEF ChoiceCancelled, BeginTyping, PaneSubmit, TakesNothing
<1>4. ASSUME NEW ok \in BOOLEAN,
             InjectSucceeds(ok) \/ InjectRejected(ok) \/ InjectDeferred(ok) \/ InjectFails(ok)
      PROVE  BelongInv'
  <2>1. Persist(ok) /\ UNCHANGED <<meta, generation, alive, retireDue, unannounced, home>>
    BY <1>4 DEF InjectSucceeds, InjectRejected, InjectDeferred, InjectFails
  <2>2. injMsg \in pending
    BY <1>4 DEF InjectSucceeds, InjectRejected, InjectDeferred, InjectFails, Inv,
                QueueMatchesMaps, Injecting
  <2>3. pending' \cup uncertain' \subseteq pending \cup uncertain
    BY <1>4, <2>2 DEF InjectSucceeds, InjectRejected, InjectDeferred, InjectFails
  <2> QED
    BY <2>1, <2>3, TakesNothingBelongs DEF TakesNothing, Persist
<1>5. CASE Question \/ SendNowCall \/ SendNowDone
  <2>1. QuestionStep \/ SendNowStep
    BY <1>5 DEF Question, QuestionClosed, RecheckFires, QuestionAsked, RelayDismiss, AnswerSubmit,
                AnswerProbed, AnswerEnds, AnswerStale, AnswerDone, AnswerFails, SendNowCall,
                SendNowLater, SendNowAnswered, SendNowBegins, SendNowDone
  <2> QED
    BY <2>1, TakesNothingBelongs DEF QuestionStep, SendNowStep, TakesNothing
<1>6. CASE UNCHANGED vars
  BY <1>6, TakesNothingBelongs DEF vars, TakesNothing
<1> QED
  BY <1>1, <1>2, <1>3, <1>4, <1>5, <1>6 DEF Drain, Injector, InjectionEnds

\* While the journal can be written it names exactly what a living hub has, and
\* nothing that is done.
Exact ==
    writeFailures = 0 =>
        /\ Kept \cap Done = {}
        /\ hub # "down" => Kept \subseteq pending \cup uncertain

LEMMA WrittenExact ==
    ASSUME Inv, Inv',
           \/ journal' = Receipts /\ hub' = "down"
           \/ journal' = Receipts'
    PROVE  Exact'
<1>1. /\ Receipts.queued \cup Receipts.inflight = pending \cup uncertain
      /\ Receipts'.queued \cup Receipts'.inflight = pending' \cup uncertain'
  BY WrittenIdentity DEF Inv
<1>2. (pending \cup uncertain) \cap (delivered \cup deleted) = {}
  BY DEF Inv, QueueMatchesMaps
<1>3. (pending' \cup uncertain') \cap (delivered' \cup deleted') = {}
  BY DEF Inv, QueueMatchesMaps
<1>4. Receipts.delivered = delivered /\ Receipts.deleted = deleted
      /\ Receipts'.delivered = delivered' /\ Receipts'.deleted = deleted'
  BY DEF Receipts
<1> QED
  BY <1>1, <1>2, <1>3, <1>4 DEF Exact, Kept, Done

\* Nothing is written, and nothing leaves the maps of a living hub.
LEMMA SameExact ==
    ASSUME Exact, journal' = journal, writeFailures' = writeFailures,
           hub' # "down" => hub # "down" /\ pending \cup uncertain \subseteq pending' \cup uncertain'
    PROVE  Exact'
BY DEF Exact, Kept, Done

LEMMA PersistExact ==
    ASSUME Inv, Inv', Exact, NEW ok \in BOOLEAN, Persist(ok)
    PROVE  Exact'
<1>1. CASE ok
  BY <1>1, WrittenExact DEF Persist
<1>2. CASE ~ok
  <2>1. writeFailures' # 0
    BY <1>2 DEF Persist, Inv, TypeOK
  <2> QED
    BY <2>1 DEF Exact
<1> QED
  BY <1>1, <1>2

LEMMA ExactStep ==
    ASSUME Inv, Inv', Exact, [Next]_vars
    PROVE  Exact'
<1> USE DEF receiptVars, diskVars, sessionVars
<1>1. CASE Client
  <2>1. CASE \E m \in Msgs, cq \in CancelChoices : SendAnswered(m, cq) \/ SendJoins(m, cq)
    BY <2>1, SameExact DEF SendAnswered, SendJoins
  <2>2. ASSUME NEW m \in Msgs, NEW cq \in CancelChoices, NEW ok \in BOOLEAN,
               SendRetry(m, cq, ok) \/ SendNew(m, cq, ok)
        PROVE  Exact'
    BY <2>2, PersistExact DEF SendRetry, SendNew
  <2>3. ASSUME NEW m \in Msgs, NEW ok \in BOOLEAN, DeleteMissing(m, ok) \/ DeleteQueued(m, ok)
        PROVE  Exact'
    BY <2>3, PersistExact DEF DeleteMissing, DeleteQueued
  <2>4. CASE SendNowRequest
    BY <2>4, SameExact DEF SendNowRequest, SendNowStep
  <2> QED
    BY <1>1, <2>1, <2>2, <2>3, <2>4 DEF Client
<1>2. CASE DrainCall \/ LoopExit
  BY <1>2, SameExact DEF DrainCall, LoopExit
<1>3. CASE LoopInject \/ LoopWriteFails
  BY <1>3, PersistExact DEF LoopInject, LoopWriteFails
<1>4. CASE ChoiceCancelled \/ BeginTyping \/ PaneSubmit
  BY <1>4, SameExact DEF ChoiceCancelled, BeginTyping, PaneSubmit
<1>5. ASSUME NEW ok \in BOOLEAN,
             InjectSucceeds(ok) \/ InjectRejected(ok) \/ InjectDeferred(ok) \/ InjectFails(ok)
      PROVE  Exact'
  BY <1>5, PersistExact DEF InjectSucceeds, InjectRejected, InjectDeferred, InjectFails
<1>6. CASE Question \/ SendNowCall \/ SendNowDone
  <2>1. QuestionStep \/ SendNowStep
    BY <1>6 DEF Question, QuestionClosed, RecheckFires, QuestionAsked, RelayDismiss, AnswerSubmit,
                AnswerProbed, AnswerEnds, AnswerStale, AnswerDone, AnswerFails, SendNowCall,
                SendNowLater, SendNowAnswered, SendNowBegins, SendNowDone
  <2> QED
    BY <2>1, SameExact DEF QuestionStep, SendNowStep
<1>7. CASE Shutdown \/ ReaperFinds \/ NothingToRetire
  BY <1>7, SameExact DEF Shutdown, ReaperFinds, NothingToRetire, Ready
<1>8. CASE Crash
  BY <1>8, SameExact DEF Crash, Gone
<1>9. CASE RestoreReceipts
  <2>1. /\ journal' = journal /\ writeFailures' = writeFailures
        /\ pending' \cup uncertain' = Kept \ Done
    BY <1>9 DEF RestoreReceipts, RestoredUncertain, Kept
  <2> QED
    BY <2>1 DEF Exact, Kept, Done
<1>10. ASSUME NEW ok \in BOOLEAN,
              TickSaves(ok) \/ EngineRetires(ok) \/ ReaperRetires(ok) \/ RestoreDiscards(ok)
       PROVE  Exact'
  BY <1>10, PersistExact DEF TickSaves, EngineRetires, ReaperRetires, Retire, RestoreDiscards
<1>11. ASSUME NEW ok \in BOOLEAN, Stop(ok)
       PROVE  Exact'
  <2>1. hub' = "down"
    BY <1>11 DEF Stop, Gone
  <2>2. CASE dirty /\ ok
    BY <1>11, <2>1, <2>2, WrittenExact DEF Stop
  <2>3. CASE ~dirty
    BY <1>11, <2>1, <2>3, SameExact DEF Stop
  <2>4. CASE dirty /\ ~ok
    <3>1. writeFailures' # 0
      BY <1>11, <2>4 DEF Stop, Inv, TypeOK
    <3> QED
      BY <3>1 DEF Exact
  <2> QED
    BY <2>2, <2>3, <2>4 DEF Inv, TypeOK
<1>12. CASE Session
  BY <1>12, SameExact DEF Session, SessionKilled, SessionDies, RetireLost, SessionLaunched,
     SessionRerecorded, SessionStep
<1>13. CASE UNCHANGED vars
  BY <1>13, SameExact DEF vars
<1> QED
  BY <1>1, <1>2, <1>3, <1>4, <1>5, <1>6, <1>7, <1>8, <1>9, <1>10, <1>11, <1>12, <1>13
  DEF Next, Drain, Injector, InjectionEnds, Process

LEMMA ProcessBelongs ==
    ASSUME Inv, Inv', BelongInv, Exact, Process, writeFailures' >= writeFailures
    PROVE  BelongInv'
<1> USE DEF receiptVars, diskVars, sessionVars, lifeVars, historyVars
<1>1. CASE Shutdown \/ ReaperFinds
  BY <1>1, TakesNothingBelongs DEF Shutdown, ReaperFinds, TakesNothing
<1>2. CASE Crash
  BY <1>2, TakesNothingBelongs DEF Crash, Gone, ActorGone, TakesNothing
<1>3. CASE RestoreReceipts
  <2>1. UNCHANGED <<journal, meta, generation, alive, retireDue, unannounced, writeFailures, home>>
    BY <1>3 DEF RestoreReceipts
  <2>2. Identified' /\ (Announced' <=> Announced) /\ \A m : Mine(m)' <=> Mine(m)
    BY <2>1 DEF BelongInv, Identified, Announced, Mine
  <2> QED
    BY <1>3, <2>1, <2>2, RestoreBelongs DEF BelongInv, Belongs
<1>4. ASSUME NEW ok \in BOOLEAN, TickSaves(ok)
      PROVE  BelongInv'
  BY <1>4, TakesNothingBelongs DEF TickSaves, TakesNothing, Persist
<1>5. ASSUME NEW ok \in BOOLEAN, EngineRetires(ok) \/ ReaperRetires(ok) \/ RestoreDiscards(ok)
      PROVE  BelongInv'
  <2>1. Persist(ok) /\ pending' \cup uncertain' = {} /\ meta' = meta
    BY <1>5 DEF EngineRetires, ReaperRetires, Retire, ActorGone, RestoreDiscards, Inv, DownIsEmpty
  <2> QED
    BY <2>1, EmptyBelongs
<1>6. ASSUME NEW ok \in BOOLEAN, Stop(ok)
      PROVE  BelongInv'
  BY <1>6, TakesNothingBelongs DEF Stop, Gone, ActorGone, TakesNothing
<1>7. CASE NothingToRetire
  <2>1. UNCHANGED <<pending, uncertain, journal, writeFailures, home, hub, meta, unannounced>>
    BY <1>7 DEF NothingToRetire
  <2>2. pending \cup uncertain = {} /\ hub # "down"
    BY <1>7 DEF NothingToRetire, NoActor, NothingKept, Ready
  <2>3. writeFailures = 0 => Kept = {}
    BY <2>2 DEF Exact
  <2> QED
    BY <2>1, <2>2, <2>3 DEF BelongInv, Belongs, Identified, Announced, Kept
<1> QED
  BY <1>1, <1>2, <1>3, <1>4, <1>5, <1>6, <1>7 DEF Process

LEMMA BelongStep ==
    ASSUME Inv, BelongInv, Exact, [Next]_vars
    PROVE  BelongInv' /\ Exact'
<1>1. Inv' /\ writeFailures' >= writeFailures
  BY InvStep, FailuresStay DEF Inv
<1> QED
  BY <1>1, ExactStep, ClientBelongs, PaneBelongs, ProcessBelongs, SessionBelongs DEF Next

LEMMA BelongInit == Init => BelongInv /\ Exact
BY DEF Init, BelongInv, Belongs, Identified, NoJournal, Exact, Kept, Done

\* Only a restart brings a hub up again.
LEMMA Restarts ==
    ASSUME Inv, [Next]_vars, hub = "down", hub' # "down"
    PROVE  RestoreReceipts \/ \E ok \in BOOLEAN : RestoreDiscards(ok)
<1> USE DEF Ready, ShuttingDown
<1>1. ~Client /\ ~Drain
  BY DEF Client, SendAnswered, SendJoins, SendRetry, SendNew, DeleteMissing, DeleteQueued,
         SendNowRequest, SendNowStep, Drain, DrainCall, LoopExit, LoopInject, LoopWriteFails,
         MayInject
<1>2. ~Injector /\ ~Question
  BY DEF Injector, InjectionEnds, ChoiceCancelled, BeginTyping, PaneSubmit, InjectSucceeds,
         InjectRejected, InjectDeferred, InjectFails, Question, QuestionClosed, RecheckFires,
         QuestionAsked, RelayDismiss, AnswerSubmit, AnswerProbed, AnswerEnds, AnswerStale,
         AnswerDone, AnswerFails, QuestionStep
<1>3. ~SendNowCall /\ ~SendNowDone
  BY DEF SendNowCall, SendNowLater, SendNowAnswered, SendNowBegins, SendNowDone, SendNowStep
<1>4. ~Session /\ ~UNCHANGED vars
  BY DEF Session, SessionKilled, SessionDies, RetireLost, SessionLaunched, SessionRerecorded,
         SessionStep, vars
<1>5. ~Shutdown /\ ~Crash /\ ~ReaperFinds /\ ~NothingToRetire
  BY DEF Shutdown, Crash, ReaperFinds, NothingToRetire
<1>6. \A ok \in BOOLEAN : ~TickSaves(ok) /\ ~EngineRetires(ok) /\ ~ReaperRetires(ok) /\ ~Stop(ok)
  BY DEF TickSaves, EngineRetires, ReaperRetires, Retire, Stop, Inv, DownIsEmpty
<1> QED
  BY <1>1, <1>2, <1>3, <1>4, <1>5, <1>6 DEF Next, Process

LEMMA RestoredStep ==
    ASSUME Inv, BelongInv, [Next]_vars, hub = "down", hub' # "down",
           alive, unannounced = 0, writeFailures = 0
    PROVE  \A m \in pending' \cup uncertain' : home[m] \in {0, generation}
<1>1. CASE RestoreReceipts
  BY <1>1, RestoreBelongs DEF Announced, Mine
<1>2. ASSUME NEW ok \in BOOLEAN, RestoreDiscards(ok)
      PROVE  pending' \cup uncertain' = {}
  BY <1>2 DEF RestoreDiscards, receiptVars, Inv, DownIsEmpty
<1> QED
  BY <1>1, <1>2, Restarts

\* As long as the ends of sessions are announced and the journal can be written, hub
\* and journal have nothing that was sent to another session than the one on record.
THEOREM BelongInvariant == Spec => []BelongInv
<1>1. Inv /\ BelongInv /\ Exact /\ [Next]_vars => BelongInv' /\ Exact'
  BY BelongStep
<1> QED
  BY BelongInit, Invariant, <1>1, PTL DEF Spec

\* A restarted hub never types into a session what was sent to an earlier one of its
\* name (the identity check of restoreChatReceipts).
THEOREM RestoredIsMine == Spec => RestoredBelongs
<1>1. Inv /\ BelongInv /\ [Next]_vars =>
         [hub = "down" /\ hub' # "down" /\ alive /\ unannounced = 0 /\ writeFailures = 0 =>
             \A m \in pending' \cup uncertain' : home[m] \in {0, generation}]_vars
  BY RestoredStep
<1> QED
  BY Invariant, BelongInvariant, <1>1, PTL DEF Spec, RestoredBelongs
-----------------------------------------------------------------------------
(***************************************************************************)
(* ChatDelivery implements MessageLife: a step of the hub is a step in the *)
(* life of one message, a restart, a fresh ledger, or changes no life.     *)
(***************************************************************************)

\* The life of a message under the mapping of LifeKept.
LifeNow(m) == IF hub = "down" THEN LifeOnDisk(m) ELSE LifeInMemory(m)

\* Where the hub has a message says what its life is.
LivesAre ==
    \A m \in Msgs :
        /\ m \in deleted => LifeNow(m) = "deleted"
        /\ m \in delivered \ deleted => LifeNow(m) = "delivered"
        /\ m \in uncertain => LifeNow(m) = "unsure"
        /\ m \in pending \ Injecting => LifeNow(m) = "waiting"
        /\ m \in Injecting => LifeNow(m) = LifeInHands
        /\ m \notin Known => LifeNow(m) = "none"

LEMMA Lives ==
    ASSUME Inv, Inv'
    PROVE  (hub # "down" => LivesAre) /\ (hub' # "down" => LivesAre')
<1>1. hub # "down" => LivesAre
  BY MsgAssumption DEF Inv, TypeOK, QueueMatchesMaps, LivesAre, LifeNow, LifeInMemory, Injecting, Known
<1>2. hub' # "down" => LivesAre'
  BY MsgAssumption DEF Inv, TypeOK, QueueMatchesMaps, LivesAre, LifeNow, LifeInMemory, Injecting, Known
<1> QED
  BY <1>1, <1>2

\* The variables of MessageLife.
LEMMA LifeIs ==
    ASSUME NEW m \in Msgs, NEW to, LifeNow(m)' = to,
           \A n \in Msgs : n # m => LifeNow(n)' = LifeNow(n)
    PROVE  Life!Becomes(m, to)
BY DEF Life!Becomes, LifeNow

LEMMA LivesSame ==
    ASSUME hub' = hub, UNCHANGED <<pending, uncertain, delivered, deleted, injMsg, phase, journal>>
    PROVE  \A n \in Msgs : LifeNow(n)' = LifeNow(n) /\ LifeOnDisk(n)' = LifeOnDisk(n)
BY DEF LifeNow, LifeOnDisk, LifeInMemory, LifeInHands

\* What persistChatReceipts writes is what MessageLife calls the record of all lives.
LEMMA SavedIs ==
    ASSUME Inv', hub' # "down", journal' = Receipts', LivesAre'
    PROVE  Life!Saved
<1>a. /\ injMsg' \in Msgs \cup {NoMsg} /\ Injecting' \subseteq pending'
      /\ (pending' \cap uncertain') = {} /\ (pending' \cup uncertain') \cap (delivered' \cup deleted') = {}
  BY DEF Inv, TypeOK, QueueMatchesMaps
<1>b. /\ journal'.queued = pending' \ Injecting' /\ journal'.delivered = delivered'
      /\ journal'.inflight = (pending' \cap Injecting') \cup uncertain' /\ journal'.deleted = deleted'
  BY DEF Receipts
<1>1. ASSUME NEW m \in Msgs
      PROVE  LifeOnDisk(m)' = IF LifeNow(m)' \notin Life!OnDisk THEN "unsure" ELSE LifeNow(m)'
  <2>1. CASE m \in deleted' \cup delivered' \cup uncertain'
    BY <1>a, <1>b, <2>1 DEF LivesAre, LifeOnDisk, Life!OnDisk
  <2>2. CASE m \in pending' \ Injecting'
    BY <1>a, <1>b, <2>2 DEF LivesAre, LifeOnDisk, Life!OnDisk
  <2>3. CASE m \in Injecting'
    <3>1. LifeNow(m)' \in {"taken", "typing", "typed"}
      BY <2>3 DEF LivesAre, LifeInHands
    <3> QED
      BY <1>a, <1>b, <2>3, <3>1 DEF LifeOnDisk, Life!OnDisk
  <2>4. CASE m \notin Known'
    BY <1>a, <1>b, <2>4 DEF LivesAre, LifeOnDisk, Life!OnDisk, Known
  <2> QED
    BY <1>a, <2>1, <2>2, <2>3, <2>4 DEF Known
<1> QED
  BY <1>1 DEF Life!Saved, Life!Record, LifeNow

\* The same of a journal that is written as the process ends.
LEMMA RecordIs ==
    ASSUME Inv, hub # "down", journal' = Receipts, LivesAre, NEW m \in Msgs
    PROVE  LifeOnDisk(m)' = IF LifeNow(m) \notin Life!OnDisk THEN "unsure" ELSE LifeNow(m)
<1>a. /\ injMsg \in Msgs \cup {NoMsg} /\ Injecting \subseteq pending
      /\ (pending \cap uncertain) = {} /\ (pending \cup uncertain) \cap (delivered \cup deleted) = {}
  BY DEF Inv, TypeOK, QueueMatchesMaps
<1>b. /\ journal'.queued = pending \ Injecting /\ journal'.delivered = delivered
      /\ journal'.inflight = (pending \cap Injecting) \cup uncertain /\ journal'.deleted = deleted
  BY DEF Receipts
<1>1. CASE m \in deleted \cup delivered \cup uncertain
  BY <1>a, <1>b, <1>1 DEF LivesAre, LifeOnDisk, Life!OnDisk
<1>2. CASE m \in pending \ Injecting
  BY <1>a, <1>b, <1>2 DEF LivesAre, LifeOnDisk, Life!OnDisk
<1>3. CASE m \in Injecting
  <2>1. LifeNow(m) \in {"taken", "typing", "typed"}
    BY <1>3 DEF LivesAre, LifeInHands
  <2> QED
    BY <1>a, <1>b, <1>3, <2>1 DEF LifeOnDisk, Life!OnDisk
<1>4. CASE m \notin Known
  BY <1>a, <1>b, <1>4 DEF LivesAre, LifeOnDisk, Life!OnDisk, Known
<1> QED
  BY <1>a, <1>1, <1>2, <1>3, <1>4 DEF Known

LEMMA MaySaveIs ==
    ASSUME Inv', hub' # "down", LivesAre', NEW ok \in BOOLEAN, Persist(ok)
    PROVE  Life!MaySave
<1>1. CASE ok
  BY <1>1, SavedIs DEF Persist, Life!MaySave
<1>2. CASE ~ok
  <2>1. \A n \in Msgs : LifeOnDisk(n)' = LifeOnDisk(n)
    BY <1>2 DEF Persist, LifeOnDisk
  <2> QED
    BY <2>1 DEF Life!MaySave
<1> QED
  BY <1>1, <1>2

\* A step that concerns m alone.
OthersSame(m) ==
    \A n \in Msgs : n # m =>
        /\ n \in deleted' <=> n \in deleted
        /\ n \in delivered' <=> n \in delivered
        /\ n \in uncertain' <=> n \in uncertain
        /\ n \in pending' <=> n \in pending
        /\ n \in Injecting' <=> n \in Injecting
        /\ n \in Injecting => phase' = phase

LEMMA MoveIs ==
    ASSUME LivesAre, LivesAre', NEW m \in Msgs, OthersSame(m), NEW to, LifeNow(m)' = to
    PROVE  Life!Becomes(m, to)
<1>1. ASSUME NEW n \in Msgs, n # m
      PROVE  LifeNow(n)' = LifeNow(n)
  <2>1. CASE n \in Known
    BY <1>1, <2>1 DEF OthersSame, LivesAre, Known, LifeInHands
  <2>2. CASE n \notin Known
    BY <1>1, <2>2 DEF OthersSame, LivesAre, Known
  <2> QED
    BY <2>1, <2>2
<1> QED
  BY <1>1, LifeIs

LEMMA StillIs ==
    ASSUME hub' = hub, UNCHANGED <<pending, uncertain, delivered, deleted, injMsg, phase, journal,
                                   typed, retried>>
    PROVE  UNCHANGED Life!vars
<1>1. \A n \in Msgs : LifeNow(n)' = LifeNow(n) /\ LifeOnDisk(n)' = LifeOnDisk(n)
  BY LivesSame
<1> QED
  BY <1>1 DEF Life!vars, LifeNow
-----------------------------------------------------------------------------
(***************************************************************************)
(* Every step of the hub.                                                  *)
(***************************************************************************)
LEMMA ClientLife ==
    ASSUME Inv, Inv', Client
    PROVE  [Life!Next]_(Life!vars)
<1> USE DEF receiptVars, injectVars, diskVars, historyVars
<1>1. CASE \E m \in Msgs, cq \in CancelChoices : SendAnswered(m, cq) \/ SendJoins(m, cq)
  BY <1>1, StillIs DEF SendAnswered, SendJoins
<1>2. CASE SendNowRequest
  BY <1>2, StillIs DEF SendNowRequest, SendNowStep
<1>3. ASSUME NEW m \in Msgs, NEW cq \in CancelChoices, SendRetry(m, cq, TRUE)
      PROVE  Life!Retry(m)
  <2>1. LivesAre /\ LivesAre' /\ hub' # "down"
    BY <1>3, Lives DEF SendRetry, Ready
  <2>2. LifeNow(m) = "unsure"
    BY <1>3, <2>1 DEF SendRetry, LivesAre
  <2>3. OthersSame(m) /\ LifeNow(m)' = "waiting"
    BY <1>3, <2>1 DEF SendRetry, OthersSame, LivesAre, Injecting, Inv, QueueMatchesMaps
  <2>4. Life!Becomes(m, "waiting")
    BY <2>1, <2>3, MoveIs
  <2>5. Life!Saved
    BY <1>3, <2>1, SavedIs DEF SendRetry, Persist
  <2> QED
    BY <1>3, <2>2, <2>4, <2>5 DEF Life!Retry, SendRetry, LifeNow
<1>4. ASSUME NEW m \in Msgs, NEW cq \in CancelChoices, SendNew(m, cq, TRUE)
      PROVE  Life!Accept(m)
  <2>1. LivesAre /\ LivesAre' /\ hub' # "down"
    BY <1>4, Lives DEF SendNew, Ready
  <2>2. LifeNow(m) = "none"
    BY <1>4, <2>1 DEF SendNew, LivesAre
  <2>3. OthersSame(m) /\ LifeNow(m)' = "waiting"
    BY <1>4, <2>1 DEF SendNew, OthersSame, LivesAre, Injecting, Inv, QueueMatchesMaps, Known
  <2>4. Life!Becomes(m, "waiting")
    BY <2>1, <2>3, MoveIs
  <2>5. Life!Saved
    BY <1>4, <2>1, SavedIs DEF SendNew, Persist
  <2> QED
    BY <1>4, <2>2, <2>4, <2>5 DEF Life!Accept, SendNew, LifeNow
<1>5. ASSUME NEW m \in Msgs, DeleteMissing(m, TRUE) \/ DeleteQueued(m, TRUE)
      PROVE  Life!Delete(m)
  <2>1. LivesAre /\ LivesAre' /\ hub' # "down"
    BY <1>5, Lives DEF DeleteMissing, DeleteQueued, Ready
  <2>2. LifeNow(m) \in {"none", "waiting"}
    BY <1>5, <2>1 DEF DeleteMissing, DeleteQueued, Deletable, LivesAre, Known
  <2>3. OthersSame(m) /\ LifeNow(m)' = "deleted"
    BY <1>5, <2>1 DEF DeleteMissing, DeleteQueued, OthersSame, LivesAre, Injecting
  <2>4. Life!Becomes(m, "deleted")
    BY <2>1, <2>3, MoveIs
  <2>5. Life!Saved
    BY <1>5, <2>1, SavedIs DEF DeleteMissing, DeleteQueued, Persist
  <2> QED
    BY <1>5, <2>2, <2>4, <2>5 DEF Life!Delete, DeleteMissing, DeleteQueued, TellDeleted, LifeNow
<1>6. ASSUME NEW m \in Msgs, NEW cq \in CancelChoices,
             \/ SendRetry(m, cq, FALSE) \/ SendNew(m, cq, FALSE)
             \/ DeleteMissing(m, FALSE) \/ DeleteQueued(m, FALSE)
      PROVE  UNCHANGED Life!vars
  BY <1>6, StillIs DEF SendRetry, SendNew, DeleteMissing, DeleteQueued, TellDeleted, Persist
<1>7. NoQuestion \in CancelChoices
  BY DEF CancelChoices
<1> QED
  BY <1>1, <1>2, <1>3, <1>4, <1>5, <1>6, <1>7 DEF Client, Life!Next

LEMMA DrainLife ==
    ASSUME Inv, Inv', Drain
    PROVE  [Life!Next]_(Life!vars)
<1> USE DEF receiptVars, injectVars, diskVars, historyVars
<1>1. CASE DrainCall \/ LoopExit
  BY <1>1, StillIs DEF DrainCall, LoopExit
<1>2. CASE LoopWriteFails
  BY <1>2, StillIs DEF LoopWriteFails, Persist
<1>3. CASE LoopInject
  <2>1. LivesAre /\ LivesAre' /\ hub' # "down"
    BY <1>3, Lives DEF LoopInject, MayInject
  <2>a. phase = "none" /\ queue \in Seq(Msgs) /\ queue # <<>>
    BY <1>3 DEF LoopInject, MayInject, HeadInOrder, Inv, LoopAlone, TypeOK
  <2>b. Head(queue) \in Elements(queue) /\ Head(queue) \in Msgs
    BY <2>a, TailElements DEF Inv, QueueMatchesMaps
  <2>c. PICK m \in Msgs : m = Head(queue)
    BY <2>b
  <2>2. Injecting = {} /\ m \in pending
    BY <2>a, <2>b, <2>c DEF Inv, QueueMatchesMaps, Injecting
  <2>3. injMsg' = m /\ phase' = "checking" /\ Injecting' = {m}
    BY <1>3, <2>c DEF LoopInject, Injecting
  <2>4. UNCHANGED <<pending, uncertain, delivered, deleted, typed, retried>> /\ Persist(TRUE)
    BY <1>3 DEF LoopInject
  <2>5. LifeNow(m) = "waiting" /\ LifeNow(m)' = "taken"
    BY <2>1, <2>2, <2>3 DEF LivesAre, LifeInHands
  <2>6. Life!Becomes(m, "taken")
    BY <2>1, <2>2, <2>3, <2>4, <2>5, MoveIs DEF OthersSame
  <2>7. \A n \in Msgs : LifeNow(n) \notin Life!InHands
    <3>1. \A n \in Msgs : LifeNow(n) \in {"none", "waiting", "unsure", "delivered", "deleted"}
      BY <2>1, <2>2 DEF LivesAre, Known
    <3> QED
      BY <3>1 DEF Life!InHands
  <2>8. Life!Saved
    BY <2>1, <2>4, SavedIs DEF Persist
  <2>9. Life!Take(m)
    BY <2>2, <2>4, <2>5, <2>6, <2>7, <2>8 DEF Life!Take, LifeNow
  <2> QED
    BY <2>2, <2>9 DEF Life!Next
<1> QED
  BY <1>1, <1>2, <1>3 DEF Drain

\* What is in the injector, and what a step leaves alone while it is there.
LEMMA InjectorLife ==
    ASSUME Inv, Inv', Injector
    PROVE  [Life!Next]_(Life!vars)
<1> USE DEF receiptVars, injectVars, diskVars, historyVars
<1>1. PICK m : m = injMsg
  OBVIOUS
<1>a. /\ LivesAre /\ LivesAre' /\ hub' # "down" /\ hub # "down"
      /\ phase # "none" /\ phase \in Phases /\ m \in Msgs /\ Injecting = {m}
      /\ m \in pending /\ LifeNow(m) = LifeInHands
      /\ m \notin uncertain \cup delivered \cup deleted
  <2>1. hub' # "down" /\ hub # "down" /\ phase # "none"
    BY DEF Injector, InjectionEnds, ChoiceCancelled, BeginTyping, PaneSubmit, InjectSucceeds,
           InjectRejected, InjectDeferred, InjectFails, Ready, ShuttingDown
  <2>2. phase \in Phases /\ m \in Msgs /\ Injecting = {m} /\ m \in pending
    BY <1>1, <2>1 DEF Inv, TypeOK, QueueMatchesMaps, Injecting
  <2> QED
    BY <2>1, <2>2, Lives DEF LivesAre, Inv, QueueMatchesMaps
<1>2. CASE ChoiceCancelled
  BY <1>2, StillIs DEF ChoiceCancelled
<1>3. CASE BeginTyping
  <2>1. LifeNow(m) = "taken" /\ Injecting' = {m}
    BY <1>3, <1>1, <1>a DEF BeginTyping, LifeInHands, Injecting
  <2>2. LifeNow(m)' = "typing"
    BY <1>3, <1>1, <1>a, <2>1 DEF BeginTyping, LifeInHands, LivesAre
  <2>3. Life!Becomes(m, "typing")
    BY <1>3, <1>1, <1>a, <2>1, <2>2, MoveIs DEF BeginTyping, OthersSame
  <2>4. \A n \in Msgs : LifeOnDisk(n)' = LifeOnDisk(n)
    BY <1>3 DEF BeginTyping, LifeOnDisk
  <2>5. Life!Begin(m)
    BY <1>3, <1>1, <1>a, <2>1, <2>3, <2>4 DEF Life!Begin, BeginTyping, LifeNow
  <2> QED
    BY <1>1, <1>a, <2>5 DEF Life!Next
<1>4. CASE PaneSubmit
  <2>1. LifeNow(m) = "typing" /\ Injecting' = {m}
    BY <1>4, <1>1, <1>a DEF PaneSubmit, LifeInHands, Injecting
  <2>2. LifeNow(m)' = "typed"
    BY <1>4, <1>1, <1>a, <2>1 DEF PaneSubmit, LifeInHands, LivesAre
  <2>3. Life!Becomes(m, "typed")
    BY <1>4, <1>1, <1>a, <2>1, <2>2, MoveIs DEF PaneSubmit, OthersSame
  <2>4. \A n \in Msgs : LifeOnDisk(n)' = LifeOnDisk(n)
    BY <1>4 DEF PaneSubmit, LifeOnDisk
  <2>5. Life!Submit(m)
    BY <1>4, <1>1, <1>a, <2>1, <2>3, <2>4 DEF Life!Submit, PaneSubmit, LifeNow
  <2> QED
    BY <1>1, <1>a, <2>5 DEF Life!Next
<1>5. ASSUME NEW ok \in BOOLEAN,
             InjectSucceeds(ok) \/ InjectRejected(ok) \/ InjectDeferred(ok) \/ InjectFails(ok)
      PROVE  Life!Settle(m)
  <2>1. Injecting' = {} /\ Persist(ok) /\ UNCHANGED <<typed, retried>>
    BY <1>5 DEF InjectSucceeds, InjectRejected, InjectDeferred, InjectFails, InjectionOver,
                Injecting
  <2>2. OthersSame(m)
    BY <1>5, <1>1, <1>a, <2>1 DEF InjectSucceeds, InjectRejected, InjectDeferred, InjectFails, OthersSame
  <2>3. \/ LifeNow(m) = "taken" /\ LifeNow(m)' \in {"none", "waiting", "unsure"}
        \/ /\ LifeNow(m) \in {"typing", "typed"}
           /\ LifeNow(m)' \in {"delivered", "unsure"}
    <3>1. CASE InjectSucceeds(ok)
      <4>1. LifeNow(m) \in {"typing", "typed"}
        BY <1>1, <1>a, <3>1 DEF InjectSucceeds, LifeInHands
      <4>2. LifeNow(m)' = "delivered"
        BY <1>1, <1>a, <3>1 DEF InjectSucceeds, LivesAre
      <4> QED
        BY <4>1, <4>2
    <3>2. CASE InjectRejected(ok)
      <4>1. LifeNow(m) = "taken"
        BY <1>1, <1>a, <3>2 DEF InjectRejected, LifeInHands
      <4>2. LifeNow(m)' = "none"
        BY <1>1, <1>a, <3>2 DEF InjectRejected, LivesAre, Known
      <4> QED
        BY <4>1, <4>2
    <3>3. CASE InjectDeferred(ok)
      <4>1. LifeNow(m) = "taken"
        BY <1>1, <1>a, <3>3 DEF InjectDeferred, LifeInHands
      <4>2. LifeNow(m)' = "waiting"
        BY <1>1, <1>a, <2>1, <3>3 DEF InjectDeferred, LivesAre
      <4> QED
        BY <4>1, <4>2
    <3>4. CASE InjectFails(ok)
      <4>1. LifeNow(m) \in {"taken", "typing", "typed"}
        BY <1>1, <1>a DEF LifeInHands
      <4>2. LifeNow(m)' = "unsure"
        BY <1>1, <1>a, <3>4 DEF InjectFails, LivesAre
      <4> QED
        BY <4>1, <4>2
    <3> QED
      BY <1>5, <3>1, <3>2, <3>3, <3>4
  <2>4. Life!Becomes(m, LifeNow(m)')
    BY <1>1, <1>a, <2>2, MoveIs
  <2>5. Life!MaySave
    BY <1>1, <1>a, <2>1, MaySaveIs
  <2> QED
    BY <1>1, <1>a, <2>1, <2>3, <2>4, <2>5 DEF Life!Settle, LifeNow
<1> QED
  BY <1>1, <1>a, <1>2, <1>3, <1>4, <1>5 DEF Injector, InjectionEnds, Life!Next

\* The session is over: whatever a hub has of it is forgotten.
LEMMA ForgetIs ==
    ASSUME Inv', hub' # "down", LivesAre', NEW ok \in BOOLEAN, Persist(ok), NewLedger,
           pending' = {}, uncertain' = {}, delivered' = {}, deleted' = {}, phase' = "none"
    PROVE  Life!Forget
<1>1. \A m \in Msgs : LifeNow(m)' = "none"
  BY DEF LivesAre, Known, Injecting
<1>2. Life!MaySave
  BY MaySaveIs
<1> QED
  BY <1>1, <1>2 DEF Life!Forget, NewLedger, LifeNow

LEMMA ProcessLife ==
    ASSUME Inv, Inv', Process
    PROVE  [Life!Next]_(Life!vars)
<1> USE DEF receiptVars, injectVars, diskVars, historyVars
<1>1. CASE Shutdown
  <2>1. \A n \in Msgs : LifeNow(n)' = LifeNow(n) /\ LifeOnDisk(n)' = LifeOnDisk(n)
    BY <1>1 DEF Shutdown, LifeNow, LifeInMemory, LifeInHands, LifeOnDisk
  <2> QED
    BY <1>1, <2>1 DEF Shutdown, Life!vars, LifeNow
<1>2. CASE ReaperFinds \/ NothingToRetire
  BY <1>2, StillIs DEF ReaperFinds, NothingToRetire
<1>3. ASSUME NEW ok \in BOOLEAN, TickSaves(ok)
      PROVE  [Life!Next]_(Life!vars)
  <2>1. UNCHANGED <<hub, pending, uncertain, delivered, deleted, injMsg, phase, typed, retried>>
    BY <1>3 DEF TickSaves
  <2>2. hub # "down"
    BY <1>3 DEF TickSaves, Inv, DownIsEmpty
  <2>3. CASE ok
    <3>1. Life!Saved
      BY <1>3, <2>1, <2>2, <2>3, Lives, SavedIs DEF TickSaves, Persist
    <3>2. \A n \in Msgs : LifeNow(n)' = LifeNow(n)
      BY <2>1, <2>2 DEF LifeNow, LifeInMemory, LifeInHands
    <3>3. Life!SaveAgain
      BY <2>1, <3>1, <3>2 DEF Life!SaveAgain, LifeNow
    <3> QED
      BY <3>3 DEF Life!Next
  <2>4. CASE ~ok
    BY <1>3, <2>1, <2>4, StillIs DEF TickSaves, Persist
  <2> QED
    BY <2>3, <2>4
<1>4. ASSUME NEW ok \in BOOLEAN, EngineRetires(ok) \/ ReaperRetires(ok) \/ RestoreDiscards(ok)
      PROVE  Life!Forget
  <2>1. /\ hub' # "down" /\ Persist(ok) /\ NewLedger /\ phase' = "none"
        /\ pending' = {} /\ uncertain' = {} /\ delivered' = {} /\ deleted' = {}
    BY <1>4 DEF EngineRetires, ReaperRetires, Retire, ActorGone, RestoreDiscards, Ready, Inv,
                DownIsEmpty
  <2> QED
    BY <2>1, Lives, ForgetIs
<1>5. CASE RestoreReceipts
  <2>1. /\ hub = "down" /\ hub' # "down" /\ journal' = journal /\ phase' = "none"
        /\ UNCHANGED <<typed, retried>>
        /\ pending' = journal.queued \ Done /\ uncertain' = journal.inflight \ Done
        /\ delivered' = journal.delivered /\ deleted' = journal.deleted
    BY <1>5 DEF RestoreReceipts, RestoredUncertain, Inv, DownIsEmpty
  <2>2. LivesAre' /\ Injecting' = {}
    BY <2>1, Lives DEF Injecting
  <2>3. ASSUME NEW n \in Msgs
        PROVE  LifeNow(n)' = LifeOnDisk(n) /\ LifeOnDisk(n)' = LifeOnDisk(n)
    <3>1. LifeOnDisk(n)' = LifeOnDisk(n)
      BY <2>1 DEF LifeOnDisk
    <3>2. journal.queued \cap journal.inflight = {}
      BY DEF Inv, SafeJournal
    <3>3. LifeNow(n)' = LifeOnDisk(n)
      BY <2>1, <2>2, <3>2 DEF LivesAre, LifeOnDisk, Done, Known
    <3> QED
      BY <3>1, <3>3
  <2>4. Life!Restart
    BY <2>1, <2>3 DEF Life!Restart, Life!MayRecord, LifeNow
  <2> QED
    BY <2>4 DEF Life!Next
<1>6. CASE Crash
  <2>1. hub' = "down" /\ journal' = journal /\ UNCHANGED <<typed, retried>>
    BY <1>6 DEF Crash, Gone
  <2>2. \A n \in Msgs : LifeNow(n)' = LifeOnDisk(n)' /\ LifeOnDisk(n)' = LifeOnDisk(n)
    BY <2>1 DEF LifeNow, LifeOnDisk
  <2>3. Life!Restart
    BY <2>1, <2>2 DEF Life!Restart, Life!MayRecord, LifeNow
  <2> QED
    BY <2>3 DEF Life!Next
<1>7. ASSUME NEW ok \in BOOLEAN, Stop(ok)
      PROVE  Life!Restart
  <2>1. /\ hub = "draining" /\ hub' = "down" /\ UNCHANGED <<typed, retried>>
        /\ journal' = journal \/ journal' = Receipts
    BY <1>7 DEF Stop, ShuttingDown, Gone
  <2>2. \A n \in Msgs : LifeNow(n)' = LifeOnDisk(n)'
    BY <2>1 DEF LifeNow
  <2>3. Life!MayRecord
    <3>1. CASE journal' = journal
      BY <3>1 DEF Life!MayRecord, LifeOnDisk
    <3>2. CASE journal' = Receipts
      <4>1. \A n \in Msgs : LifeOnDisk(n)' = IF LifeNow(n) \notin Life!OnDisk THEN "unsure"
                                            ELSE LifeNow(n)
        BY <2>1, <3>2, Lives, RecordIs
      <4> QED
        BY <4>1 DEF Life!MayRecord, Life!Record, LifeNow
    <3> QED
      BY <2>1, <3>1, <3>2
  <2> QED
    BY <2>1, <2>2, <2>3 DEF Life!Restart, LifeNow
<1> QED
  BY <1>1, <1>2, <1>3, <1>4, <1>5, <1>6, <1>7 DEF Process, Life!Next

\* Nobody else touches a message.
LEMMA OthersLife ==
    ASSUME Question \/ SendNowCall \/ SendNowDone \/ Session \/ UNCHANGED vars
    PROVE  UNCHANGED Life!vars
<1> USE DEF receiptVars, injectVars, diskVars, historyVars
<1>1. CASE Question \/ SendNowCall \/ SendNowDone
  <2>1. QuestionStep \/ SendNowStep
    BY <1>1 DEF Question, QuestionClosed, RecheckFires, QuestionAsked, RelayDismiss, AnswerSubmit,
                AnswerProbed, AnswerEnds, AnswerStale, AnswerDone, AnswerFails, SendNowCall,
                SendNowLater, SendNowAnswered, SendNowBegins, SendNowDone
  <2> QED
    BY <2>1, StillIs DEF QuestionStep, SendNowStep
<1>2. CASE Session
  BY <1>2, StillIs DEF Session, SessionKilled, SessionDies, RetireLost, SessionLaunched,
     SessionRerecorded, SessionStep
<1>3. CASE UNCHANGED vars
  BY <1>3, StillIs DEF vars
<1> QED
  BY <1>1, <1>2, <1>3

LEMMA LifeInit == Init => Life!Init
<1> SUFFICES ASSUME Init PROVE Life!Init
  OBVIOUS
<1>1. \A m \in Msgs : LifeNow(m) = "none" /\ LifeOnDisk(m) = "none"
  BY MsgAssumption DEF Init, NoJournal, LifeNow, LifeInMemory, LifeOnDisk
<1>2. typed = [m \in Msgs |-> 0] /\ retried = [m \in Msgs |-> 0]
  BY DEF Init
<1> QED
  BY <1>1, <1>2 DEF Life!Init, LifeNow

LEMMA LifeStep ==
    ASSUME Inv, [Next]_vars
    PROVE  [Life!Next]_(Life!vars)
<1>1. Inv'
  BY InvStep
<1> QED
  BY <1>1, ClientLife, DrainLife, InjectorLife, ProcessLife, OthersLife DEF Next

\* The hub implements MessageLife: what its handlers do to queue, order, maps, journal
\* and pane, crashes and restarts between them included, is for every message a life
\* in which the disk is written ahead (chat_send, deletePendingChatMessage,
\* drainChatQueue, persistChatReceipts, retireSession, restoreChatReceipts).
THEOREM LivesAreKept == Spec => LifeKept
<1>1. Inv /\ [Next]_vars => [Life!Next]_(Life!vars)
  BY LifeStep
<1> QED
  BY LifeInit, Invariant, <1>1, PTL DEF Spec, LifeKept, Life!Spec
=============================================================================
