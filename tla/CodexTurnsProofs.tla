-------------------------- MODULE CodexTurnsProofs --------------------------
(***************************************************************************)
(* Theorems about CodexTurns, for every set of messages and connections    *)
(* and every bound.                                                        *)
(***************************************************************************)
EXTENDS CodexTurns, OrderedIdsProofs

USE DEF actorVars, diskVars, viewVars, linkVars, netVars, srvVars, countVars
-----------------------------------------------------------------------------
\* What the operators on records give: calls, openings, threads and requests.

LEMMA NullRecords ==
    /\ NoCall \in Calls /\ NoOpen \in Opens /\ NotOpening \in Openings
    /\ NoCall.step = "idle" /\ NoCall.answer = "none" /\ NoOpen.conn = NoConn
    /\ NotOpening.stage = "no" /\ NotOpening.conn = NoConn /\ NotOpening.by = 0
BY BoundAssumption
   DEF NoCall, NoOpen, NotOpening, Calls, Opens, Openings, Steps, Stages, MaybeConn,
       MaybeTurn, NoTurn

LEMMA CallForIs ==
    ASSUME NEW m \in Msgs, retried[m] \in 0..MaxRetries
    PROVE  /\ CallFor(m) \in Calls
           /\ CallFor(m).step = "open" /\ CallFor(m).msg = m
           /\ CallFor(m).try = retried[m] /\ CallFor(m).answer = "none"
<1>1. "open" \in Steps
  BY DEF Steps
<1> QED
  BY <1>1, NullRecords, Zenon DEF CallFor, Calls

LEMMA AskingIs ==
    ASSUME NEW k \in Calls, NEW kind \in Kinds, NEW turn \in MaybeTurn, NEW c \in MaybeConn
    PROVE  /\ Asking(k, kind, turn, c) \in Calls
           /\ Asking(k, kind, turn, c).step = kind /\ Asking(k, kind, turn, c).msg = k.msg
           /\ Asking(k, kind, turn, c).try = k.try
           /\ Asking(k, kind, turn, c).answer = "none"
<1>1. kind \in Steps
  BY DEF Steps
<1>2. k.msg \in Msgs \cup {NoMsg} /\ k.try \in 0..MaxRetries
  BY Zenon DEF Calls
<1> QED
  BY <1>1, <1>2, NullRecords, Zenon DEF Asking, Calls

LEMMA ChunkedIs ==
    ASSUME NEW k \in Calls, k.answer # "none" => k.chunk > 0
    PROVE  /\ Chunked(k) \in Calls
           /\ Chunked(k).step = k.step /\ Chunked(k).msg = k.msg
           /\ Chunked(k).try = k.try /\ Chunked(k).answer = k.answer
<1>1. CASE k.answer = "none"
  BY <1>1 DEF Chunked
<1>2. CASE k.answer # "none"
  <2>1. k.chunk \in 0..MaxChunk
    BY Zenon DEF Calls
  <2>2. k.chunk - 1 \in 0..MaxChunk
    BY <1>2, <2>1, BoundAssumption
  <2> QED
    BY <1>2, <2>2, Zenon DEF Chunked, Calls
<1> QED
  BY <1>1, <1>2

LEMMA ResumedIs ==
    ASSUME NEW k \in Calls, NEW n \in 0..MaxChunk, NEW x,
           x.answer \in {"ok", "refused", "unknown"}, x.turn \in MaybeTurn
    PROVE  /\ Resumed(k, x, n) \in Calls
           /\ Resumed(k, x, n).step = k.step /\ Resumed(k, x, n).msg = k.msg
           /\ Resumed(k, x, n).try = k.try /\ Resumed(k, x, n).answer = x.answer
<1>1. x.answer \in {"none", "ok", "refused", "unknown"}
  OBVIOUS
<1> QED
  BY <1>1, Zenon DEF Resumed, Calls

LEMMA ConnectingIs ==
    ASSUME NEW c \in MaybeConn, NEW again \in BOOLEAN, NEW by \in 0..MaxWatches
    PROVE  /\ Connecting(c, again, by) \in Openings
           /\ Connecting(c, again, by).stage = "connect"
           /\ Connecting(c, again, by).conn = c /\ Connecting(c, again, by).by = by
<1>1. "connect" \in Stages
  BY DEF Stages
<1> QED
  BY <1>1, NullRecords, Zenon DEF Connecting, Openings

LEMMA OpeningAtIs ==
    ASSUME opening \in Openings, NEW stage \in Stages
    PROVE  /\ OpeningAt(stage) \in Openings /\ OpeningAt(stage).stage = stage
           /\ OpeningAt(stage).conn = opening.conn /\ OpeningAt(stage).by = opening.by
BY Zenon DEF OpeningAt, Openings

LEMMA OpeningKnowsIs ==
    ASSUME opening \in Openings, NEW turn \in MaybeTurn
    PROVE  /\ OpeningKnows(turn) \in Openings /\ OpeningKnows(turn).stage = "read"
           /\ OpeningKnows(turn).conn = opening.conn /\ OpeningKnows(turn).by = opening.by
<1>1. "read" \in Stages
  BY DEF Stages
<1>2. opening.again \in BOOLEAN
  BY Zenon DEF Openings
<1>3. (~opening.again) \in BOOLEAN
  BY <1>2
<1> QED
  BY <1>1, <1>3, Zenon DEF OpeningKnows, Openings

LEMMA OpenWithIs ==
    ASSUME open \in Opens, NEW turn \in MaybeTurn
    PROVE  OpenWith(turn) \in Opens /\ OpenWith(turn).conn = open.conn
BY Zenon DEF OpenWith, Opens

LEMMA OnConnIs ==
    ASSUME NEW r \in Requests, NEW c \in MaybeConn
    PROVE  /\ OnConn(r, c) \in Requests
           /\ OnConn(r, c).gen = r.gen /\ OnConn(r, c).msg = r.msg
           /\ OnConn(r, c).try = r.try /\ OnConn(r, c).kind = r.kind
BY Zenon DEF OnConn, Requests
-----------------------------------------------------------------------------
(***************************************************************************)
(* Types.                                                                  *)
(***************************************************************************)
ActorTypes ==
    /\ gen \in Gens /\ queue \in Seq(Msgs) /\ order \in Seq(Msgs)
    /\ uncertain \subseteq Msgs /\ delivered \subseteq Msgs /\ deleted \subseteq Msgs
    /\ blocked \in BOOLEAN

\* Calls are those of this actor or of earlier ones, each for a message.
CallTypes ==
    /\ call \in [Gens -> Calls]
    /\ \A g \in Gens : call[g].step # "idle" => call[g].msg \in Msgs /\ g <= gen

DiskTypes == journal \in Journals /\ dirty \in BOOLEAN /\ writeFailures \in 0..MaxWriteFailures

CountTypes ==
    /\ told \in [Msgs -> Tellings] /\ retried \in [Msgs -> 0..MaxRetries]
    /\ entered \in [Msgs -> 0..(MaxEntries + MaxRetries)]
    /\ \A m \in Msgs : entered[m] <= retried[m] + MaxEntries

LinkTypes ==
    /\ hub \in {"up", "draining", "down"} /\ pc \in {"idle", "drain", "flush"}
    /\ watched \in BOOLEAN /\ processing \in BOOLEAN
    /\ sub \in {"none", "waiting", "live", "fallback"}
    /\ open \in Opens /\ opening \in Openings
    /\ opening.stage # "no" => opening.conn \in Conns
    /\ subWaits \subseteq 1..MaxWatches /\ closeAsked \in BOOLEAN
    /\ conns \in [Conns -> {"none", "up", "closing"}] /\ subscribed \subseteq Conns
    /\ {reopened, overtaken} \subseteq BOOLEAN /\ watches \in 0..MaxWatches
    /\ faults \in 0..MaxFaults /\ crashes \in 0..MaxCrashes

NetTypes ==
    /\ inbox \in [Conns -> Seq(Messages)] /\ wire \subseteq Requests
    /\ running \in MaybeTurn /\ turns \in 0..MaxTurns
    /\ ran \in Seq([msg : Msgs, gen : Gens])

Types == ActorTypes /\ CallTypes /\ DiskTypes /\ CountTypes /\ LinkTypes /\ NetTypes

\* What restoreChatReceipts sorts is in the order it sorts by.
Kept == Elements(journal.queued) \cup journal.starting
KeptListed == Kept \subseteq Elements(journal.order)

LEMMA TellTypes ==
    ASSUME told \in [Msgs -> Tellings], NEW ms, NEW what \in Tellings, Tell(ms, what)
    PROVE  told' \in [Msgs -> Tellings]
BY DEF Tell

\* Array push, unshift, shift and splice of ids give arrays of ids.
LEMMA QueueTypes ==
    ASSUME NEW s \in Seq(Msgs)
    PROVE  /\ \A m \in Msgs : Append(s, m) \in Seq(Msgs) /\ <<m>> \o s \in Seq(Msgs)
           /\ s # <<>> => Head(s) \in Msgs /\ Tail(s) \in Seq(Msgs)
           /\ \A m : Without(s, m) \in Seq(Msgs)
<1>1. ASSUME NEW m
      PROVE  Without(s, m) \in Seq(Msgs)
  <2>1. CASE m \in Elements(s)
    BY <2>1, WithoutShape
  <2>2. CASE m \notin Elements(s)
    BY <2>2 DEF Without
  <2> QED
    BY <2>1, <2>2
<1>2. ASSUME NEW m \in Msgs
      PROVE  Append(s, m) \in Seq(Msgs) /\ <<m>> \o s \in Seq(Msgs)
  OBVIOUS
<1>3. s # <<>> => Head(s) \in Msgs /\ Tail(s) \in Seq(Msgs)
  OBVIOUS
<1> QED
  BY <1>1, <1>2, <1>3

\* One more entry of a message that had fewer than it may.
LEMMA EntryTypes ==
    ASSUME CountTypes, told' \in [Msgs -> Tellings], NEW m \in Msgs,
           entered' = [entered EXCEPT ![m] = @ + 1],
           \/ UNCHANGED retried /\ entered[m] - retried[m] < MaxEntries
           \/ retried[m] < MaxRetries /\ retried' = [retried EXCEPT ![m] = @ + 1]
    PROVE  CountTypes'
<1> USE BoundAssumption DEF CountTypes
<1>1. entered[m] \in Nat /\ retried[m] \in Nat /\ retried[m] <= MaxRetries
  OBVIOUS
<1>2. retried' \in [Msgs -> 0..MaxRetries] /\ \A n \in Msgs : n # m => retried'[n] = retried[n]
  BY <1>1
<1>3. \A n \in Msgs : entered'[n] = IF n = m THEN entered[m] + 1 ELSE entered[n]
  OBVIOUS
<1>4. entered'[m] <= retried'[m] + MaxEntries
  BY <1>1, <1>3
<1>5. \A n \in Msgs : entered'[n] <= retried'[n] + MaxEntries
  BY <1>2, <1>3, <1>4
<1>6. \A n \in Msgs : entered'[n] \in Nat /\ entered'[n] <= MaxEntries + MaxRetries
  BY <1>1, <1>2, <1>3, <1>5
<1>7. entered' \in [Msgs -> 0..(MaxEntries + MaxRetries)]
  <2>1. entered' = [n \in Msgs |-> entered'[n]]
    OBVIOUS
  <2>2. \A n \in Msgs : entered'[n] \in 0..(MaxEntries + MaxRetries)
    BY <1>6
  <2> QED
    BY <2>1, <2>2
<1> QED
  BY <1>2, <1>5, <1>7

\* persistChatReceipts, whether or not it succeeds.
LEMMA WriteTypes ==
    ASSUME DiskTypes, ActorTypes', CallTypes', WrittenOrNot
    PROVE  DiskTypes'
<1>1. CASE Written
  <2>1. Starting' \subseteq Msgs
    BY DEF Starting, ActorTypes, CallTypes
  <2>2. Saved' \in Journals
    BY <2>1 DEF Saved, Journals, ActorTypes
  <2> QED
    BY <1>1, <2>2 DEF Written, DiskTypes
<1>2. CASE WriteFails
  BY <1>2, BoundAssumption DEF WriteFails, DiskTypes
<1> QED
  BY <1>1, <1>2 DEF WrittenOrNot

LEMMA PhoneTypes ==
    ASSUME Types, NEW m \in Msgs, Phone(m)
    PROVE  Types'
<1> USE BoundAssumption
<1>1. CASE SubmitKnown(m)
  <2>1. told' \in [Msgs -> Tellings]
    BY <1>1, TellTypes DEF SubmitKnown, Types, CountTypes, Tellings
  <2> QED
    BY <1>1, <2>1
    DEF SubmitKnown, Types, ActorTypes, CallTypes, DiskTypes, CountTypes, LinkTypes,
        NetTypes
<1>2. CASE SubmitPending(m)
  <2>1. told' \in [Msgs -> Tellings]
    BY <1>2, TellTypes DEF SubmitPending, Types, CountTypes, Tellings
  <2> QED
    BY <1>2, <2>1
    DEF SubmitPending, Types, ActorTypes, CallTypes, DiskTypes, CountTypes, LinkTypes,
        NetTypes
<1>3. CASE SubmitNew(m)
  <2>1. told' \in [Msgs -> Tellings]
    BY <1>3, TellTypes DEF SubmitNew, Types, CountTypes, Tellings
  <2>2. ActorTypes' /\ CallTypes'
    BY <1>3, QueueTypes DEF SubmitNew, Types, ActorTypes, CallTypes
  <2>3. DiskTypes'
    BY <1>3, <2>2, WriteTypes DEF SubmitNew, Types, WrittenOrNot
  <2>4. CountTypes'
    BY <1>3, <2>1, EntryTypes DEF SubmitNew, Types, CountTypes
  <2> QED
    BY <1>3, <2>2, <2>3, <2>4
    DEF SubmitNew, Types, LinkTypes, NetTypes
<1>4. CASE Retry(m)
  <2>1. told' \in [Msgs -> Tellings]
    BY <1>4, TellTypes DEF Retry, Types, CountTypes, Tellings
  <2>2. ActorTypes' /\ CallTypes'
    BY <1>4, QueueTypes DEF Retry, Types, ActorTypes, CallTypes
  <2>3. DiskTypes'
    BY <1>4, <2>2, WriteTypes DEF Retry, Types, WrittenOrNot
  <2>4. CountTypes'
    BY <1>4, <2>1, EntryTypes DEF Retry, Types, CountTypes
  <2> QED
    BY <1>4, <2>2, <2>3, <2>4
    DEF Retry, Types, LinkTypes, NetTypes
<1>5. CASE Delete(m)
  <2>1. told' \in [Msgs -> Tellings]
    BY <1>5, TellTypes DEF Delete, Types, CountTypes, Tellings
  <2>2. ActorTypes' /\ CallTypes'
    BY <1>5, QueueTypes DEF Delete, Types, ActorTypes, CallTypes
  <2>3. DiskTypes'
    BY <1>5, <2>2, WriteTypes DEF Delete, Types, WrittenOrNot
  <2> QED
    BY SMTT(60), <1>5, <2>1, <2>2, <2>3
    DEF Delete, Types, CountTypes, LinkTypes, NetTypes
<1> QED
  BY <1>1, <1>2, <1>3, <1>4, <1>5 DEF Phone

LEMMA FailTypes ==
    ASSUME Types, NEW F, Fail(F), gen \in F => call[gen].step # "idle",
           UNCHANGED <<entered, retried>>
    PROVE  ActorTypes' /\ CallTypes' /\ DiskTypes' /\ CountTypes'
<1>1. ActorTypes' /\ CallTypes'
  BY NullRecords DEF Fail, Types, ActorTypes, CallTypes
<1>2. DiskTypes'
  BY <1>1, WriteTypes DEF Fail, Types, DiskTypes
<1>3. told' \in [Msgs -> Tellings]
  BY TellTypes DEF Fail, Types, CountTypes, Tellings
<1> QED
  BY <1>1, <1>2, <1>3 DEF Types, CountTypes

LEMMA SucceedTypes ==
    ASSUME Types, NEW g \in Gens, Succeed(g), call[g].step # "idle", UNCHANGED <<entered, retried>>
    PROVE  ActorTypes' /\ CallTypes' /\ DiskTypes' /\ CountTypes'
<1>1. ActorTypes' /\ CallTypes'
  BY NullRecords, QueueTypes DEF Succeed, Types, ActorTypes, CallTypes
<1>2. DiskTypes'
  BY <1>1, WriteTypes DEF Succeed, Types, DiskTypes
<1>3. told' \in [Msgs -> Tellings]
  BY TellTypes DEF Succeed, Types, CountTypes, Tellings
<1> QED
  BY <1>1, <1>2, <1>3 DEF Types, CountTypes

ConnStates == [Conns -> {"none", "up", "closing"}]

LEMMA CloseTypes ==
    ASSUME LinkTypes, NEW o, NEW cs \in ConnStates, Close(o, cs)
    PROVE  open' \in Opens /\ conns' \in ConnStates /\ closeAsked' \in BOOLEAN
BY NullRecords DEF Close, LinkTypes, ConnStates

LEMMA SettleTypes ==
    ASSUME LinkTypes, NEW o \in Opens, NEW cs \in ConnStates, Settle(o, cs)
    PROVE  /\ processing' \in BOOLEAN /\ open' \in Opens /\ conns' \in ConnStates
           /\ closeAsked' \in BOOLEAN
BY CloseTypes DEF Settle, LinkTypes

LEMMA StartOpenTypes ==
    ASSUME LinkTypes, NEW by \in 0..MaxWatches, StartOpen(by)
    PROVE  /\ conns' \in ConnStates /\ opening' \in Openings /\ closeAsked' \in BOOLEAN
           /\ opening'.conn \in Conns
<1>1. PICK c \in Conns : /\ conns' = [conns EXCEPT ![c] = "up"]
                         /\ opening' = Connecting(c, FALSE, by) /\ closeAsked' = FALSE
  BY DEF StartOpen
<1>2. c \in MaybeConn
  BY DEF MaybeConn
<1>3. Connecting(c, FALSE, by) \in Openings /\ Connecting(c, FALSE, by).conn = c
  BY <1>2, ConnectingIs, Zenon
<1> QED
  BY <1>1, <1>3 DEF LinkTypes, ConnStates

LEMMA OpenerDoneTypes ==
    ASSUME LinkTypes, OpenerDone
    PROVE  subWaits' \subseteq 1..MaxWatches /\ sub' \in {"none", "waiting", "live", "fallback"}
BY DEF OpenerDone, SubDone, LinkTypes

LEMMA SendTypes ==
    ASSUME Types, NEW g \in Gens, call[g].step # "idle", NEW kind \in Kinds,
           NEW turn \in MaybeTurn, NEW c \in MaybeConn, Send(g, kind, turn, c), UNCHANGED gen
    PROVE  CallTypes' /\ wire' \subseteq Requests
<1>1. call[g] \in Calls /\ call[g].msg \in Msgs /\ g <= gen
  BY DEF Types, CallTypes
<1>2. Asking(call[g], kind, turn, c) \in Calls /\ Asking(call[g], kind, turn, c).msg \in Msgs
  BY <1>1, AskingIs
<1>3. Request(g, kind, turn, c) \in Requests
  BY <1>1, Zenon DEF Request, Requests, Calls
<1> QED
  BY <1>1, <1>2, <1>3 DEF Send, Types, CallTypes, NetTypes

LEMMA DeliverTypes ==
    ASSUME Types, NEW g \in Gens, call[g].step # "idle",
           NEW turn \in MaybeTurn, NEW c \in MaybeConn, Deliver(g, turn, c), UNCHANGED gen
    PROVE  CallTypes' /\ wire' \subseteq Requests
<1>1. NoTurn \in MaybeTurn /\ "steer" \in Kinds /\ "start" \in Kinds
  BY DEF MaybeTurn, Kinds
<1> QED
  BY <1>1, SendTypes DEF Deliver

LEMMA SetActiveTypes ==
    ASSUME open \in Opens, NEW g, NEW turn \in MaybeTurn, SetActive(g, turn)
    PROVE  open' \in Opens
BY OpenWithIs DEF SetActive

\* An array without its first element.
LEMMA InboxTail ==
    ASSUME NetTypes, NEW c \in Conns, inbox[c] # <<>>, inbox' = [inbox EXCEPT ![c] = Tail(@)]
    PROVE  inbox' \in [Conns -> Seq(Messages)] /\ Head(inbox[c]) \in Messages
BY DEF NetTypes

LEMMA GoneTypes ==
    ASSUME NetTypes, LinkTypes, NEW c \in Conns, Gone(c), UNCHANGED srvVars
    PROVE  NetTypes' /\ subscribed' \subseteq Conns
<1>1. \A r \in Requests : OnConn(r, IF r.conn = c THEN NoConn ELSE r.conn) \in Requests
  <2>1. \A r \in Requests : r.conn \in MaybeConn
    BY Zenon DEF Requests
  <2> QED
    BY <2>1, OnConnIs DEF MaybeConn
<1>2. wire' \subseteq Requests
  BY <1>1 DEF Gone, NetTypes
<1> QED
  BY <1>2 DEF Gone, NetTypes, LinkTypes

LEMMA DownTypes ==
    ASSUME Types, GoesDown
    PROVE  ActorTypes' /\ CallTypes' /\ CountTypes' /\ NetTypes'
<1>1. told' \in [Msgs -> Tellings]
  BY TellTypes DEF GoesDown, Types, CountTypes, Tellings
<1>2. wire' \subseteq Requests
  <2>1. NoConn \in MaybeConn
    BY DEF MaybeConn
  <2>2. \A r \in Requests : OnConn(r, NoConn) \in Requests
    BY <2>1, OnConnIs
  <2> QED
    BY <2>2 DEF GoesDown, Types, NetTypes
<1>3. ActorTypes' /\ CallTypes'
  <2>1. CallTypes'
    BY NullRecords DEF GoesDown, CallTypes
  <2>2. ActorTypes'
    <3>1. /\ queue' = <<>> /\ order' = <<>> /\ gen' = gen
          /\ uncertain' = {} /\ delivered' = {} /\ deleted' = {} /\ blocked' = FALSE
      BY DEF GoesDown
    <3>2. gen' \in Gens
      BY <3>1 DEF Types, ActorTypes
    <3>3. queue' \in Seq(Msgs) /\ order' \in Seq(Msgs)
      BY <3>1
    <3>4. uncertain' \subseteq Msgs /\ delivered' \subseteq Msgs /\ deleted' \subseteq Msgs
      BY <3>1
    <3> QED
      BY <3>1, <3>2, <3>3, <3>4 DEF ActorTypes
  <2> QED
    BY <2>1, <2>2
<1>4. CountTypes'
  BY <1>1 DEF GoesDown, Types, CountTypes
<1> QED
  BY <1>2, <1>3, <1>4 DEF GoesDown, Types, NetTypes

LEMMA QueueStepTypes ==
    ASSUME Types, Tick \/ OtherSaves \/ Drain
    PROVE  Types'
<1>1. ActorTypes' /\ CallTypes'
  <2>1. CASE Tick
    BY <2>1 DEF Tick, Types, ActorTypes, CallTypes
  <2>2. CASE OtherSaves
    BY <2>2 DEF OtherSaves, Types, ActorTypes, CallTypes
  <2>3. CASE Drain
    <3>1. DrainReady => Head(queue) \in Msgs /\ Tail(queue) \in Seq(Msgs)
      BY QueueTypes DEF DrainReady, Types, ActorTypes
    <3>2. DrainReady => /\ CallFor(Head(queue)) \in Calls
                        /\ CallFor(Head(queue)).msg \in Msgs
      BY <3>1, CallForIs DEF Types, CountTypes
    <3>3. CallTypes'
      BY <2>3, <3>2 DEF Drain, Types, ActorTypes, CallTypes
    <3>4. ActorTypes'
      BY <2>3, <3>1 DEF Drain, Types, ActorTypes
    <3> QED
      BY <3>3, <3>4
  <2> QED
    BY <2>1, <2>2, <2>3
<1>2. DiskTypes'
  <2>1. CASE WrittenOrNot
    BY <1>1, <2>1, WriteTypes DEF Types
  <2>2. CASE UNCHANGED diskVars
    BY <2>2 DEF Types, DiskTypes
  <2> QED
    BY <2>1, <2>2 DEF Tick, OtherSaves, Drain, WrittenOrNot
<1>3. told' \in [Msgs -> Tellings]
  <2>1. CASE \E ms : Tell(ms, "failed")
    BY <2>1, TellTypes DEF Types, CountTypes, Tellings
  <2>2. CASE UNCHANGED told
    BY <2>2 DEF Types, CountTypes
  <2> QED
    BY <2>1, <2>2 DEF Tick, OtherSaves, Drain
<1>4. NetTypes' /\ CountTypes'
  BY <1>3 DEF Tick, OtherSaves, Drain, Types, NetTypes, CountTypes
<1>5. LinkTypes'
  BY ZenonT(60) DEF Tick, OtherSaves, Drain, Types, LinkTypes
<1> QED
  BY <1>1, <1>2, <1>4, <1>5 DEF Types

LEMMA OpenTypes ==
    ASSUME Types,
           OpenStep \/ HistoryTimesOut \/ Reconcile \/ Watch \/ Leave
               \/ \E w \in subWaits : SubWakes(w)
    PROVE  Types'
<1> USE BoundAssumption
<1>1. opening' \in Openings /\ (opening'.stage # "no" => opening'.conn \in Conns)
  <2>1. CASE Resume \/ ReadHistory
    <3>1. running \in MaybeTurn /\ "read" \in Stages /\ "resumed" \in Stages
      BY DEF Types, NetTypes, Stages
    <3> QED
      BY <2>1, <3>1, OpeningAtIs, OpeningKnowsIs DEF Resume, ReadHistory, Types, LinkTypes
  <2>2. CASE OpenSet \/ Flush \/ Opened
    <3>1. "set" \in Stages
      BY DEF Stages
    <3> QED
      BY <2>2, <3>1, OpeningAtIs, NullRecords DEF OpenSet, Flush, Opened, Types, LinkTypes
  <2>3. CASE HistoryTimesOut
    <3>1. PICK c \in Conns : opening' = Connecting(c, TRUE, opening.by)
      BY <2>3 DEF HistoryTimesOut
    <3>2. opening.by \in 0..MaxWatches
      BY DEF Types, LinkTypes, Openings
    <3>3. c \in MaybeConn
      BY DEF MaybeConn
    <3>4. Connecting(c, TRUE, opening.by) \in Openings /\ Connecting(c, TRUE, opening.by).conn = c
      BY <3>2, <3>3, ConnectingIs, Zenon
    <3> QED
      BY <3>1, <3>4
  <2>4. CASE Reconcile \/ Watch \/ Leave
    BY <2>4 DEF Reconcile, Watch, Leave, Types, LinkTypes
  <2>5. CASE \E w \in subWaits : SubWakes(w)
    <3>1. PICK w \in subWaits : SubWakes(w)
      BY <2>5
    <3>2. w \in 0..MaxWatches
      BY DEF Types, LinkTypes
    <3> QED
      BY <3>1, <3>2, StartOpenTypes DEF SubWakes, Types, LinkTypes
  <2> QED
    BY <2>1, <2>2, <2>3, <2>4, <2>5 DEF OpenStep
<1>2. /\ open' \in Opens /\ conns' \in ConnStates
      /\ closeAsked' \in BOOLEAN /\ processing' \in BOOLEAN
  <2>1. CASE Resume \/ ReadHistory \/ HistoryTimesOut \/ Flush \/ Opened \/ Watch
    BY <2>1
    DEF Resume, ReadHistory, HistoryTimesOut, Flush, Opened, Watch, Types, LinkTypes,
        ConnStates
  <2>2. CASE OpenSet
    <3>1. [conn |-> opening.conn, active |-> opening.active, live |-> opening.live] \in Opens
      BY Zenon DEF Types, LinkTypes, Openings, Opens
    <3>2. (processing \/ opening.active # NoTurn) \in BOOLEAN
      OBVIOUS
    <3> QED
      BY <2>2, <3>1, <3>2, NullRecords DEF OpenSet, Types, LinkTypes, ConnStates
  <2>3. CASE Reconcile
    <3>1. OpenWith(NoTurn) \in Opens
      BY OpenWithIs DEF Types, LinkTypes, MaybeTurn
    <3> QED
      BY <2>3, <3>1 DEF Reconcile, Types, LinkTypes, ConnStates
  <2>4. CASE Leave
    BY <2>4, CloseTypes DEF Leave, Types, LinkTypes, ConnStates
  <2>5. CASE \E w \in subWaits : SubWakes(w)
    <3>1. PICK w \in subWaits : SubWakes(w)
      BY <2>5
    <3>2. w \in 0..MaxWatches
      BY DEF Types, LinkTypes
    <3> QED
      BY <3>1, <3>2, StartOpenTypes DEF SubWakes, Types, LinkTypes, ConnStates
  <2> QED
    BY <2>1, <2>2, <2>3, <2>4, <2>5 DEF OpenStep
<1>3. subWaits' \subseteq 1..MaxWatches /\ sub' \in {"none", "waiting", "live", "fallback"}
  <2>1. CASE OpenStep
    BY <2>1, OpenerDoneTypes
    DEF OpenStep, Resume, ReadHistory, OpenSet, Flush, Opened, Types, LinkTypes
  <2>2. CASE \E w \in subWaits : SubWakes(w)
    BY <2>2 DEF SubWakes, SubDone, Types, LinkTypes
  <2>3. CASE HistoryTimesOut \/ Reconcile \/ Watch \/ Leave
    <3>1. watches < MaxWatches => watches + 1 \in 1..MaxWatches
      BY DEF Types, LinkTypes
    <3> QED
      BY <2>3, <3>1 DEF HistoryTimesOut, Reconcile, Watch, Leave, Types, LinkTypes
  <2> QED
    BY <2>1, <2>2, <2>3
<1>4. subscribed' \subseteq Conns
  <2>1. CASE Resume
    BY <2>1 DEF Resume, Types, LinkTypes, Openings
  <2>2. CASE ~Resume
    BY <2>2
    DEF OpenStep, ReadHistory, OpenSet, Flush, Opened, HistoryTimesOut, Reconcile, Watch,
        Leave, SubWakes, Types, LinkTypes
  <2> QED
    BY <2>1, <2>2
<1>5. {reopened', overtaken'} \subseteq BOOLEAN
  BY DEF OpenStep, Resume, ReadHistory, OpenSet, Flush, Opened, HistoryTimesOut, Reconcile,
         Watch, Leave, SubWakes, Types, LinkTypes
<1> DEFINE rest ==
             /\ hub \in {"up", "draining", "down"} /\ pc \in {"idle", "drain", "flush"}
             /\ watched \in BOOLEAN /\ watches \in 0..MaxWatches
             /\ faults \in 0..MaxFaults /\ crashes \in 0..MaxCrashes
<1>6. rest'
  <2>1. /\ watches < MaxWatches => watches + 1 \in 0..MaxWatches
        /\ faults < MaxFaults => faults + 1 \in 0..MaxFaults
    BY DEF Types, LinkTypes
  <2> QED
    BY <2>1
    DEF OpenStep, Resume, ReadHistory, OpenSet, Flush, Opened, HistoryTimesOut, Reconcile,
         Watch, Leave, SubWakes, Types, LinkTypes
<1>7. ActorTypes' /\ CallTypes' /\ DiskTypes' /\ CountTypes'
  BY DEF OpenStep, Resume, ReadHistory, OpenSet, Flush, Opened, HistoryTimesOut, Reconcile,
         Watch, Leave, SubWakes, Types, ActorTypes, CallTypes, DiskTypes, CountTypes
<1>8. NetTypes'
  BY DEF OpenStep, Resume, ReadHistory, OpenSet, Flush, Opened, HistoryTimesOut, Reconcile,
         Watch, Leave, SubWakes, Types, NetTypes
<1> QED
  BY <1>1, <1>2, <1>3, <1>4, <1>5, <1>6, <1>7, <1>8 DEF Types, LinkTypes, ConnStates

LEMMA CallStepTypes ==
    ASSUME Types, NEW g \in Gens, CallStep(g) \/ RequestTimesOut(g)
    PROVE  Types'
<1> USE BoundAssumption
<1>1. open.active \in MaybeTurn /\ open.conn \in MaybeConn
  BY Zenon DEF Types, LinkTypes, Opens
<1>2. call[g] \in Calls
  BY DEF Types, CallTypes
<1>3. call[g].found \in MaybeTurn /\ call[g].conn \in MaybeConn
  BY <1>2, Zenon DEF Calls
<1>4. NoTurn \in MaybeTurn /\ {"read", "resteer", "start"} \subseteq Kinds
  BY DEF MaybeTurn, Kinds
<1>5. conns \in ConnStates /\ open \in Opens
  BY DEF Types, LinkTypes, ConnStates
<1>6. CASE CallWakes(g)
  <2>1. call[g].step # "idle"
    BY <1>6 DEF CallWakes, Waits
  <2>2. CASE open # NoOpen
    <3>1. UNCHANGED <<gen, opening, closeAsked, conns>> /\ processing' = TRUE
      BY <1>6, <2>2 DEF CallWakes
    <3>2. CallTypes' /\ wire' \subseteq Requests
      BY <1>1, <1>4, <1>6, <2>1, <2>2, SendTypes, DeliverTypes DEF CallWakes
    <3>3. LinkTypes'
      BY <1>6, <3>1 DEF CallWakes, Types, LinkTypes
    <3>4. NetTypes'
      BY <1>6, <3>2 DEF CallWakes, Types, NetTypes
    <3> QED
      BY <1>6, <3>2, <3>3, <3>4
      DEF CallWakes, Types, ActorTypes, DiskTypes, CountTypes
  <2>3. CASE open = NoOpen
    <3>1. StartOpen(0) /\ UNCHANGED <<processing, call, wire>>
      BY <1>6, <2>3 DEF CallWakes
    <3>2. 0 \in 0..MaxWatches
      OBVIOUS
    <3>3. /\ conns' \in ConnStates /\ opening' \in Openings /\ closeAsked' \in BOOLEAN
          /\ opening'.conn \in Conns
      BY <3>1, <3>2, StartOpenTypes DEF Types
    <3>4. LinkTypes'
      BY <1>6, <3>1, <3>3 DEF CallWakes, Types, LinkTypes, ConnStates
    <3> QED
      BY <1>6, <3>1, <3>4
      DEF CallWakes, Types, ActorTypes, CallTypes, DiskTypes, CountTypes, NetTypes
  <2> QED
    BY <2>2, <2>3
<1>7. CASE ReadAnswered(g)
  <2>1. call[g].step # "idle" /\ UNCHANGED gen
    BY <1>7 DEF ReadAnswered
  <2>2. /\ open' \in Opens /\ CallTypes' /\ wire' \subseteq Requests
    <3>1. CASE SetActive(g, call[g].found) /\ Deliver(g, call[g].found, call[g].conn)
      BY <1>3, <1>5, <2>1, <3>1, SetActiveTypes, DeliverTypes
    <3>2. CASE /\ UNCHANGED open
               /\ Deliver(g, IF open.conn = call[g].conn THEN open.active ELSE NoTurn,
                          call[g].conn)
      BY <1>1, <1>3, <1>4, <1>5, <2>1, <3>2, DeliverTypes
    <3> QED
      BY <1>7, <3>1, <3>2 DEF ReadAnswered
  <2>3. LinkTypes'
    BY <1>7, <2>2 DEF ReadAnswered, Types, LinkTypes
  <2>4. NetTypes'
    BY <1>7, <2>2 DEF ReadAnswered, Types, NetTypes
  <2> QED
    BY <1>7, <2>2, <2>3, <2>4 DEF ReadAnswered, Types, ActorTypes, DiskTypes, CountTypes
<1>8. CASE SteerRefused(g)
  <2>1. call[g].step # "idle" /\ UNCHANGED gen
    BY <1>8 DEF SteerRefused
  <2>2. /\ open' \in Opens /\ CallTypes' /\ wire' \subseteq Requests
    <3>1. CASE /\ SetActive(g, call[g].found)
               /\ Send(g, "resteer", call[g].found, call[g].conn)
      BY <1>3, <1>4, <1>5, <2>1, <3>1, SetActiveTypes, SendTypes
    <3>2. CASE UNCHANGED open /\ Send(g, "start", NoTurn, call[g].conn)
      BY <1>3, <1>4, <1>5, <2>1, <3>2, SendTypes
    <3> QED
      BY <1>8, <3>1, <3>2 DEF SteerRefused
  <2>3. LinkTypes'
    BY <1>8, <2>2 DEF SteerRefused, Types, LinkTypes
  <2>4. NetTypes'
    BY <1>8, <2>2 DEF SteerRefused, Types, NetTypes
  <2> QED
    BY <1>8, <2>2, <2>3, <2>4 DEF SteerRefused, Types, ActorTypes, DiskTypes, CountTypes
<1>9. CASE Accepted(g)
  <2>1. call[g].step # "idle" /\ Succeed(g) /\ UNCHANGED <<entered, retried>>
    BY <1>9 DEF Accepted
  <2>2. ActorTypes' /\ CallTypes' /\ DiskTypes' /\ CountTypes'
    BY <2>1, SucceedTypes
  <2>3. open' \in Opens
    BY <1>3, <1>5, <1>9, SetActiveTypes DEF Accepted
  <2>4. pc' \in {"idle", "drain", "flush"}
    BY <2>1 DEF Succeed, Types, LinkTypes
  <2>5. LinkTypes'
    BY <1>9, <2>3, <2>4 DEF Accepted, Types, LinkTypes
  <2>6. NetTypes'
    BY <1>9 DEF Accepted, Types, NetTypes
  <2> QED
    BY <2>2, <2>5, <2>6 DEF Types
<1>10. CASE Refused(g) \/ RequestTimesOut(g)
  <2>1. /\ call[g].step # "idle" /\ Fail({g}) /\ Settle(open, conns)
        /\ UNCHANGED <<entered, retried>>
    BY <1>10 DEF Refused, RequestTimesOut, Awaits, Kinds
  <2>2. ActorTypes' /\ CallTypes' /\ DiskTypes' /\ CountTypes'
    BY <2>1, FailTypes
  <2>3. /\ processing' \in BOOLEAN /\ open' \in Opens /\ conns' \in ConnStates
        /\ closeAsked' \in BOOLEAN
    BY <1>5, <2>1, SettleTypes DEF Types
  <2>4. pc' \in {"idle", "drain", "flush"}
    BY <2>1 DEF Fail, Types, LinkTypes
  <2>5. faults' \in 0..MaxFaults
    BY <1>10 DEF Refused, RequestTimesOut, Types, LinkTypes
  <2>6. LinkTypes'
    BY <1>10, <2>3, <2>4, <2>5 DEF Refused, RequestTimesOut, Types, LinkTypes, ConnStates
  <2>7. NetTypes'
    BY <1>10 DEF Refused, RequestTimesOut, Types, NetTypes
  <2> QED
    BY <2>2, <2>6, <2>7 DEF Types
<1> QED
  BY <1>6, <1>7, <1>8, <1>9, <1>10 DEF CallStep

LEMMA ReceiveTypes ==
    ASSUME Types, NEW c \in Conns, ReceiveReply(c) \/ ReceiveNotification(c)
    PROVE  Types'
<1> USE BoundAssumption
<1>1. /\ Receivable(c) /\ inbox[c] # <<>> /\ inbox' = [inbox EXCEPT ![c] = Tail(@)]
      /\ UNCHANGED <<gen, wire, running, turns, ran>>
  BY DEF ReceiveReply, ReceiveNotification, Receivable
<1>2. NetTypes' /\ Head(inbox[c]) \in Messages
  BY <1>1, InboxTail DEF Types, NetTypes
<1>3. \A g \in Gens : call[g] \in Calls /\ (call[g].answer # "none" => call[g].chunk > 0)
  BY <1>1 DEF Receivable, Types, CallTypes
<1>4. CallTypes'
  <2>1. CASE ReceiveReply(c)
    <3>1. PICK n \in 0..MaxChunk :
             call' = [g \in Gens |-> IF IsFor(g, Head(inbox[c]).to)
                                     THEN Resumed(call[g], Head(inbox[c]), n)
                                     ELSE Chunked(call[g])]
      BY <2>1 DEF ReceiveReply
    <3>2. /\ Head(inbox[c]).answer \in {"ok", "refused", "unknown"}
          /\ Head(inbox[c]).turn \in MaybeTurn
      <4>1. Head(inbox[c]).what = "reply"
        BY <2>1 DEF ReceiveReply
      <4>2. Head(inbox[c]) \in [what : {"reply"}, to : Requests,
                                answer : {"ok", "refused", "unknown"}, turn : MaybeTurn]
        BY <1>2, <4>1 DEF Messages
      <4> QED
        BY <4>2
    <3>3. ASSUME NEW g \in Gens
          PROVE  /\ call'[g] \in Calls /\ call'[g].step = call[g].step
                 /\ call'[g].msg = call[g].msg
      <4>1. CASE IsFor(g, Head(inbox[c]).to)
        BY <1>3, <3>1, <3>2, <4>1, ResumedIs
      <4>2. CASE ~IsFor(g, Head(inbox[c]).to)
        BY <1>3, <3>1, <4>2, ChunkedIs
      <4> QED
        BY <4>1, <4>2
    <3> QED
      BY <1>1, <3>1, <3>3 DEF Types, CallTypes
  <2>2. CASE ReceiveNotification(c)
    <3>1. call' = [g \in Gens |-> Chunked(call[g])]
      BY <2>2 DEF ReceiveNotification
    <3>2. \A g \in Gens : /\ call'[g] \in Calls /\ call'[g].step = call[g].step
                          /\ call'[g].msg = call[g].msg
      BY <1>3, <3>1, ChunkedIs
    <3> QED
      BY <1>1, <3>1, <3>2 DEF Types, CallTypes
  <2> QED
    BY <2>1, <2>2
<1>5. /\ processing' \in BOOLEAN /\ open' \in Opens /\ conns' \in ConnStates
      /\ closeAsked' \in BOOLEAN
  <2>1. /\ processing \in BOOLEAN /\ open \in Opens /\ conns \in ConnStates
        /\ closeAsked \in BOOLEAN
    BY DEF Types, LinkTypes, ConnStates
  <2>2. CASE UNCHANGED <<processing, open, conns, closeAsked>>
    BY <2>1, <2>2
  <2>3. CASE ReceiveNotification(c) /\ Head(inbox[c]).what # "reply"
    <3>1. Head(inbox[c]).turn \in MaybeTurn /\ NoTurn \in MaybeTurn
      <4>1. Head(inbox[c]) \in [what : {"started", "completed"}, turn : MaybeTurn]
        BY <1>2, <2>3 DEF Messages
      <4> QED
        BY <4>1 DEF MaybeTurn
    <3>2. OpenWith(Head(inbox[c]).turn) \in Opens /\ OpenWith(NoTurn) \in Opens
      BY <2>1, <3>1, OpenWithIs
    <3>3. CASE Settle(OpenWith(NoTurn), conns)
      BY <2>1, <3>2, <3>3, SettleTypes DEF Types
    <3>4. CASE open' = OpenWith(Head(inbox[c]).turn) /\ processing' = TRUE
               /\ UNCHANGED <<conns, closeAsked>>
      BY <2>1, <3>2, <3>4
    <3> QED
      BY <2>2, <2>3, <3>3, <3>4 DEF ReceiveNotification
  <2> QED
    BY <2>2, <2>3 DEF ReceiveReply, ReceiveNotification
<1>6. LinkTypes'
  BY <1>5 DEF ReceiveReply, ReceiveNotification, Types, LinkTypes, ConnStates
<1> QED
  BY <1>2, <1>4, <1>6
  DEF ReceiveReply, ReceiveNotification, Types, ActorTypes, DiskTypes, CountTypes

LEMMA BreakTypes ==
    ASSUME Types, OpenFails \/ \E c \in Conns : ConnCloses(c) \/ Disconnect(c)
    PROVE  Types'
<1> USE BoundAssumption
<1>1. conns \in ConnStates /\ open \in Opens /\ NoOpen \in Opens
  BY NullRecords DEF Types, LinkTypes, ConnStates
<1>2. faults < MaxFaults => faults + 1 \in 0..MaxFaults
  BY DEF Types, LinkTypes
<1>3. CASE OpenFails
  <2>1. gen \in {g \in Gens : Waits(g)} => call[gen].step # "idle"
    BY DEF Waits
  <2>2. ActorTypes' /\ CallTypes' /\ DiskTypes' /\ CountTypes'
    BY <1>3, <2>1, FailTypes DEF OpenFails
  <2>3. pc' \in {"idle", "drain", "flush"}
    BY <1>3 DEF OpenFails, Fail, Types, LinkTypes
  <2>4. LinkTypes'
    BY <1>2, <1>3, <2>3, NullRecords DEF OpenFails, NoStream, Types, LinkTypes
  <2>5. NetTypes'
    BY <1>3 DEF OpenFails, Types, NetTypes
  <2> QED
    BY <2>2, <2>4, <2>5 DEF Types
<1>4. ASSUME NEW c \in Conns, ConnCloses(c) \/ Disconnect(c)
      PROVE  Types'
  <2>1. gen \in CallsOn(c) => call[gen].step # "idle"
    BY DEF CallsOn, Awaits, Kinds
  <2>2. ActorTypes' /\ CallTypes' /\ DiskTypes' /\ CountTypes'
    BY <1>4, <2>1, FailTypes DEF ConnCloses, Disconnect
  <2>3. NetTypes' /\ subscribed' \subseteq Conns
    BY <1>4, GoneTypes DEF ConnCloses, Disconnect, Types
  <2>4. [conns EXCEPT ![c] = "none"] \in ConnStates
    BY <1>1 DEF ConnStates
  <2>5. /\ processing' \in BOOLEAN /\ open' \in Opens /\ conns' \in ConnStates
        /\ closeAsked' \in BOOLEAN
    <3>1. CASE \E o \in Opens : Settle(o, [conns EXCEPT ![c] = "none"])
      BY <2>4, <3>1, SettleTypes DEF Types
    <3>2. CASE conns' = [conns EXCEPT ![c] = "none"] /\ UNCHANGED <<processing, open, closeAsked>>
      BY <1>1, <2>4, <3>2 DEF Types, LinkTypes
    <3> QED
      BY <1>1, <1>4, <3>1, <3>2 DEF ConnCloses, Disconnect
  <2>6. pc' \in {"idle", "drain", "flush"}
    BY <1>4 DEF ConnCloses, Disconnect, Fail, Types, LinkTypes
  <2>7. /\ sub' \in {"none", "waiting", "live", "fallback"} /\ faults' \in 0..MaxFaults
        /\ UNCHANGED <<hub, watched, watches, opening, subWaits, reopened, overtaken, crashes>>
    BY <1>2, <1>4 DEF ConnCloses, Disconnect, Degraded, Types, LinkTypes
  <2>8. LinkTypes'
    BY <2>3, <2>5, <2>6, <2>7 DEF Types, LinkTypes, ConnStates
  <2> QED
    BY <2>2, <2>3, <2>8 DEF Types
<1> QED
  BY <1>3, <1>4

\* What the App Server says has its types.
LEMMA ToldTypes ==
    ASSUME NetTypes, NEW ms \in Seq(Messages), NEW cs
    PROVE  Told(ms, cs) \in [Conns -> Seq(Messages)]
BY DEF Told, NetTypes

LEMMA ReplyTypes ==
    ASSUME NetTypes, NEW r \in Requests, NEW answer \in {"ok", "refused", "unknown"},
           NEW turn \in MaybeTurn
    PROVE  Reply(r, answer, turn) \in [Conns -> Seq(Messages)]
<1>1. [what |-> "reply", to |-> r, answer |-> answer, turn |-> turn] \in Messages
  BY DEF Messages
<1>2. PICK x \in Messages :
         x = [what |-> "reply", to |-> r, answer |-> answer, turn |-> turn]
  BY <1>1
<1>3. Reply(r, answer, turn) = IF r.conn = NoConn THEN inbox
                               ELSE [inbox EXCEPT ![r.conn] = Append(@, x)]
  BY <1>2 DEF Reply
<1>4. \A c \in Conns : inbox[c] \in Seq(Messages) /\ Append(inbox[c], x) \in Seq(Messages)
  BY DEF NetTypes
<1> QED
  BY <1>3, <1>4 DEF NetTypes

LEMMA ServerTypes ==
    ASSUME Types, SrvCompletes \/ SrvOtherStarts \/ \E r \in wire : SrvHandles(r)
    PROVE  Types'
<1> USE BoundAssumption
<1>1. /\ \A what \in {"started", "completed"}, turn \in MaybeTurn :
            <<Note(what, turn)>> \in Seq(Messages)
      /\ running \in MaybeTurn /\ NoTurn \in MaybeTurn
      /\ turns < MaxTurns => turns + 1 \in MaybeTurn /\ turns + 1 \in 0..MaxTurns
  BY DEF Note, Messages, Types, NetTypes, MaybeTurn, Turns
<1>2. CASE SrvCompletes
  <2>1. Told(<<Note("completed", running)>>, subscribed) \in [Conns -> Seq(Messages)]
    BY <1>1, ToldTypes DEF Types
  <2>2. NetTypes'
    BY <1>1, <1>2, <2>1 DEF SrvCompletes, Types, NetTypes
  <2>3. LinkTypes'
    BY <1>2 DEF SrvCompletes, Types, LinkTypes
  <2> QED
    BY <1>2, <2>2, <2>3 DEF SrvCompletes, Types, ActorTypes, CallTypes, DiskTypes, CountTypes
<1>3. CASE SrvOtherStarts
  <2>1. turns < MaxTurns => Told(<<Note("started", turns + 1)>>, subscribed) \in [Conns -> Seq(Messages)]
    BY <1>1, ToldTypes DEF Types
  <2>2. NetTypes'
    BY <1>1, <1>3, <2>1 DEF SrvOtherStarts, Types, NetTypes
  <2> QED
    BY <1>3, <2>2
    DEF SrvOtherStarts, Types, ActorTypes, CallTypes, DiskTypes, CountTypes, LinkTypes
<1>4. ASSUME NEW r \in wire, SrvHandles(r)
      PROVE  Types'
  <2>1. r \in Requests /\ wire' \subseteq Requests
    BY <1>4 DEF SrvHandles, Types, NetTypes
  <2>2. [msg |-> r.msg, gen |-> r.gen] \in [msg : Msgs, gen : Gens] /\ r.conn \in MaybeConn
    BY <2>1 DEF Requests
  <2>3. Append(ran, [msg |-> r.msg, gen |-> r.gen]) \in Seq([msg : Msgs, gen : Gens])
    <3>1. PICK x \in [msg : Msgs, gen : Gens] : x = [msg |-> r.msg, gen |-> r.gen]
      BY <2>2
    <3>2. Append(ran, x) \in Seq([msg : Msgs, gen : Gens])
      BY DEF Types, NetTypes
    <3> QED
      BY <3>1, <3>2
  <2>4. ran' \in Seq([msg : Msgs, gen : Gens]) /\ running' \in MaybeTurn /\ turns' \in 0..MaxTurns
    BY <1>1, <1>4, <2>3
    DEF SrvHandles, SrvReads, SrvSteers, SrvStartsTurn, SrvStartMeetsTurn, Types, NetTypes
  <2>5. inbox' \in [Conns -> Seq(Messages)]
    <3>1. CASE SrvStartsTurn(r)
      <4>1. turns + 1 \in MaybeTurn
        BY <1>1, <3>1 DEF SrvStartsTurn
      <4>2. [what |-> "reply", to |-> r, answer |-> "ok", turn |-> turns + 1] \in Messages
        BY <2>1, <4>1 DEF Messages
      <4>3. <<Note("started", turns + 1)>> \in Seq(Messages)
        BY <1>1, <4>1
      <4>4. Told(<<Note("started", turns + 1)>>, subscribed) \in [Conns -> Seq(Messages)]
        BY <4>3, ToldTypes DEF Types
      <4>5. PICK z \in Messages :
               z = [what |-> "reply", to |-> r, answer |-> "ok", turn |-> turns + 1]
        BY <4>2
      <4>6. <<z>> \in Seq(Messages)
        OBVIOUS
      <4>7. PICK x \in Seq(Messages) :
               x = <<[what |-> "reply", to |-> r, answer |-> "ok", turn |-> turns + 1]>>
        BY <4>5, <4>6
      <4>8. PICK y \in Seq(Messages) : y = <<Note("started", turns + 1)>>
        BY <4>3
      <4>9. inbox' = [c \in Conns |-> IF c = r.conn THEN inbox[c] \o x \o y
                                      ELSE Told(<<Note("started", turns + 1)>>, subscribed)[c]]
        BY <3>1, <4>7, <4>8 DEF SrvStartsTurn
      <4> QED
        BY <4>4, <4>9, SMTT(60) DEF Types, NetTypes
    <3>2. CASE ~SrvStartsTurn(r)
      <4>1. \E answer \in {"ok", "refused", "unknown"}, turn \in MaybeTurn :
               inbox' = Reply(r, answer, turn)
        BY <1>1, <1>4, <3>2 DEF SrvHandles, SrvReads, SrvSteers, SrvStartMeetsTurn
      <4> QED
        BY <2>1, <4>1, ReplyTypes DEF Types
    <3> QED
      BY <3>1, <3>2
  <2>6. subscribed' \subseteq Conns
    BY <1>4, <2>2
    DEF SrvHandles, SrvReads, SrvSteers, SrvStartsTurn, SrvStartMeetsTurn, Types, LinkTypes,
        MaybeConn
  <2>7. NetTypes'
    BY <2>1, <2>4, <2>5 DEF NetTypes
  <2> QED
    BY <1>4, <2>6, <2>7
    DEF SrvHandles, Types, ActorTypes, CallTypes, DiskTypes, CountTypes, LinkTypes
<1> QED
  BY <1>2, <1>3, <1>4

\* What restoreChatReceipts makes of the journal.
LEMMA RestoreTypes ==
    ASSUME DiskTypes, KeptListed, NEW S, S \subseteq Kept, NEW s \in Restore(S)
    PROVE  s \in Seq(Msgs) /\ Elements(s) = S /\ Injective(s) /\ S \subseteq Msgs
<1>1. journal.order \in Seq(Msgs)
  BY DEF DiskTypes, Journals
<1>2. IsFiniteSet(Elements(journal.order))
  BY <1>1, FiniteElements
<1>3. S \subseteq Elements(journal.order)
  BY DEF KeptListed
<1>4. IsFiniteSet(S)
  BY <1>2, <1>3, FS_Subset
<1>5. s \in Seq(S) /\ Elements(s) = S /\ Injective(s)
  BY <1>4, SortedElements DEF Restore
<1>6. S \subseteq Msgs
  BY <1>1, <1>3 DEF Elements
<1> QED
  BY <1>5, <1>6

\* What is queued again and what is uncertain, of a journal that is this session's.
Requeued == IF journal.gen = gen THEN Left ELSE {}
Unsettled == IF journal.gen = gen THEN journal.starting \ Closed ELSE {}

LEMMA Restored ==
    ASSUME DiskTypes, KeptListed, Restart
    PROVE  /\ queue' \in Seq(Msgs) /\ Elements(queue') = Requeued /\ Injective(queue')
           /\ order' \in Restore(Requeued \cup Unsettled)
           /\ order' \in Seq(Msgs) /\ Elements(order') = Requeued \cup Unsettled /\ Injective(order')
           /\ uncertain' = Unsettled /\ uncertain' \subseteq Msgs
<1>1. Requeued \subseteq Kept /\ Unsettled \subseteq Kept
  BY DEF Requeued, Unsettled, Left, Kept
<1>2. /\ queue' \in Restore(Requeued) /\ order' \in Restore(Requeued \cup Unsettled)
      /\ uncertain' = Unsettled
  BY DEF Restart, Requeued, Unsettled
<1> QED
  BY <1>1, <1>2, RestoreTypes

LEMMA HubTypes ==
    ASSUME Types, KeptListed, Retire \/ Crash \/ Shutdown \/ Exit \/ Restart
    PROVE  Types'
<1> USE BoundAssumption
<1>1. CASE Retire
  <2>1. gen + 1 \in Gens /\ gen <= gen + 1
    BY <1>1 DEF Retire, Types, ActorTypes, Gens
  <2>2. CallTypes'
    <3>1. \A g \in Gens : g <= gen => g <= gen + 1
      BY DEF Types, ActorTypes, Gens
    <3> QED
      BY <1>1, <3>1 DEF Retire, Types, CallTypes
  <2>3. ActorTypes'
    <3>1. /\ queue' = <<>> /\ order' = <<>> /\ gen' = gen + 1
          /\ uncertain' = {} /\ delivered' = {} /\ deleted' = {} /\ blocked' = FALSE
      BY <1>1 DEF Retire
    <3>2. queue' \in Seq(Msgs) /\ order' \in Seq(Msgs)
      BY <3>1
    <3>3. uncertain' \subseteq Msgs /\ delivered' \subseteq Msgs /\ deleted' \subseteq Msgs
      BY <3>1
    <3> QED
      BY <2>1, <3>1, <3>2, <3>3 DEF ActorTypes
  <2>4. DiskTypes'
    BY <1>1, <2>2, <2>3, WriteTypes DEF Retire, Types
  <2>5. told' \in [Msgs -> Tellings]
    BY <1>1, TellTypes DEF Retire, Types, CountTypes, Tellings
  <2>6. CountTypes' /\ NetTypes'
    BY <1>1, <2>5 DEF Retire, Types, CountTypes, NetTypes
  <2>7. /\ open' \in Opens /\ conns' \in ConnStates /\ closeAsked' \in BOOLEAN
    BY <1>1, CloseTypes DEF Retire, Types, LinkTypes, ConnStates
  <2>8. LinkTypes'
    BY <1>1, <2>7 DEF Retire, Types, LinkTypes, ConnStates
  <2> QED
    BY <2>2, <2>3, <2>4, <2>6, <2>8 DEF Types
<1>2. CASE Crash \/ Exit
  <2>1. ActorTypes' /\ CallTypes' /\ CountTypes' /\ NetTypes'
    BY <1>2, DownTypes DEF Crash, Exit
  <2>2. Saved \in Journals
    <3>1. Starting \subseteq Msgs
      BY DEF Types, Starting, ActorTypes, CallTypes
    <3> QED
      BY <3>1 DEF Types, Saved, Journals, ActorTypes
  <2>3. DiskTypes'
    <3>1. dirty' = FALSE /\ journal' \in {journal, Saved}
          /\ \/ UNCHANGED writeFailures
             \/ writeFailures < MaxWriteFailures /\ writeFailures' = writeFailures + 1
      BY <1>2 DEF Crash, Exit, GoesDown
    <3>2. journal' \in Journals
      BY <2>2, <3>1 DEF Types, DiskTypes
    <3>3. writeFailures' \in 0..MaxWriteFailures
      BY <3>1 DEF Types, DiskTypes
    <3> QED
      BY <3>1, <3>2, <3>3 DEF DiskTypes
  <2>4. /\ hub' = "down" /\ pc' = "idle" /\ watched' = FALSE /\ sub' = "none"
        /\ processing' = FALSE /\ open' = NoOpen /\ opening' = NotOpening /\ subWaits' = {}
        /\ closeAsked' = FALSE /\ conns' = [c \in Conns |-> "none"] /\ subscribed' = {}
        /\ UNCHANGED <<watches, faults, reopened, overtaken>> /\ crashes' \in 0..MaxCrashes
    BY <1>2 DEF Crash, Exit, GoesDown, Types, LinkTypes
  <2>5. conns' \in ConnStates
    BY <2>4 DEF ConnStates
  <2>6. LinkTypes'
    BY <2>4, <2>5, NullRecords DEF Types, LinkTypes, ConnStates
  <2> QED
    BY <2>1, <2>3, <2>6 DEF Types
<1>3. CASE Shutdown
  BY <1>3
  DEF Shutdown, Types, ActorTypes, CallTypes, DiskTypes, CountTypes, LinkTypes, NetTypes
<1>4. CASE Restart
  <2>1. ActorTypes' /\ CallTypes'
    <3>1. delivered' \subseteq Msgs /\ deleted' \subseteq Msgs /\ UNCHANGED <<gen, blocked, call>>
      BY <1>4 DEF Restart, Types, DiskTypes, Journals
    <3>2. queue' \in Seq(Msgs) /\ order' \in Seq(Msgs) /\ uncertain' \subseteq Msgs
      BY <1>4, Restored DEF Types
    <3> QED
      BY <3>1, <3>2 DEF Types, ActorTypes, CallTypes
  <2>2. DiskTypes'
    BY <1>4, <2>1, WriteTypes DEF Restart, Types, DiskTypes
  <2> QED
    BY <1>4, <2>1, <2>2 DEF Restart, Types, CountTypes, LinkTypes, NetTypes
<1> QED
  BY <1>1, <1>2, <1>3, <1>4
-----------------------------------------------------------------------------
(***************************************************************************)
(* The queue and the journal.                                              *)
(***************************************************************************)
NoCallDown == hub = "down" => \A g \in Gens : call[g].step = "idle"

\* The journal is that of this hub or of one before it.
JournalSound ==
    /\ journal.gen <= gen /\ Injective(journal.order) /\ KeptListed
    /\ Elements(journal.queued) \cap journal.starting = {}
    /\ hub # "down" /\ journal.gen = gen => Left \subseteq Elements(queue)

QueueInv == Types /\ QueueSound /\ JournalSound /\ NoCallDown

\* A journal that was written now.
LEMMA SavedSound ==
    ASSUME Types', QueueSound', journal' = Saved'
    PROVE  JournalSound'
<1>1. /\ journal'.gen = gen' /\ journal'.queued = queue' /\ journal'.order = order'
      /\ journal'.starting = Starting' \cup uncertain'
  BY DEF Saved
<1>2. gen' <= gen'
  BY DEF Types, ActorTypes, Gens
<1> QED
  BY <1>1, <1>2 DEF JournalSound, QueueSound, Kept, KeptListed, Left, Closed, Pending

\* A journal that was not.
LEMMA UnsavedSound ==
    ASSUME JournalSound, UNCHANGED <<journal, gen>>,
           hub' # "down" => hub # "down" /\ Elements(queue) \subseteq Elements(queue')
    PROVE  JournalSound'
BY DEF JournalSound, Kept, KeptListed, Left, Closed

LEMMA WriteSound ==
    ASSUME Types', QueueSound', JournalSound, UNCHANGED gen, WrittenOrNot \/ UNCHANGED diskVars,
           hub' # "down" => hub # "down" /\ Elements(queue) \subseteq Elements(queue')
    PROVE  JournalSound'
BY SavedSound, UnsavedSound DEF WrittenOrNot, Written, WriteFails

\* A step of the sockets, the thread, the viewers or the App Server, and a call
\* that goes on.
CallsGoOn ==
    \A g \in Gens : /\ call'[g].step = "idle" <=> call[g].step = "idle"
                    /\ call'[g].msg = call[g].msg
ActorStays ==
    /\ UNCHANGED <<gen, queue, order, uncertain, delivered, deleted, journal>>
    /\ CallsGoOn /\ (hub' = "down" <=> hub = "down")

LEMMA QueueStays ==
    ASSUME QueueInv, Types', ActorStays
    PROVE  QueueInv'
<1>1. Starting' = Starting
  BY DEF Starting, ActorStays, CallsGoOn, QueueInv, Types, ActorTypes
<1>2. QueueSound'
  BY <1>1 DEF QueueSound, Pending, ActorStays, QueueInv
<1>3. JournalSound'
  BY UnsavedSound DEF ActorStays, QueueInv
<1>4. NoCallDown'
  BY DEF NoCallDown, ActorStays, CallsGoOn, QueueInv
<1> QED
  BY <1>2, <1>3, <1>4 DEF QueueInv

LEMMA FailSound ==
    ASSUME QueueInv, Types', NEW F, Fail(F), hub' = hub, hub # "down",
           gen \in F => call[gen].step # "idle"
    PROVE  QueueInv'
<1>1. UNCHANGED <<gen, queue, order, delivered, deleted>>
  BY DEF Fail
<1>2. QueueSound'
  <2>1. CASE gen \in F
    <3>1. Starting' = {} /\ uncertain' = uncertain \cup Starting
      BY <1>1, <2>1, NullRecords DEF Fail, Starting, QueueInv, Types, ActorTypes
    <3> QED
      BY <1>1, <3>1 DEF QueueSound, Pending, QueueInv
  <2>2. CASE gen \notin F
    <3>1. Starting' = Starting /\ uncertain' = uncertain
      BY <1>1, <2>2 DEF Fail, Starting, QueueInv, Types, ActorTypes
    <3> QED
      BY <1>1, <3>1 DEF QueueSound, Pending, QueueInv
  <2> QED
    BY <2>1, <2>2
<1>3. JournalSound'
  BY <1>1, <1>2, WriteSound DEF Fail, QueueInv
<1> QED
  BY <1>2, <1>3 DEF QueueInv, NoCallDown

LEMMA SucceedSound ==
    ASSUME QueueInv, Types', NEW g \in Gens, Succeed(g), call[g].step # "idle", hub' = hub
    PROVE  QueueInv'
<1>1. UNCHANGED <<gen, queue, deleted>> /\ hub # "down" /\ call \in [Gens -> Calls]
  BY DEF Succeed, QueueInv, NoCallDown, Types, CallTypes
<1>2. QueueSound'
  <2>1. CASE g = gen
    <3>1. Starting' = {} /\ Starting = {call[g].msg} /\ uncertain' = uncertain
      BY <1>1, <2>1, NullRecords DEF Succeed, Starting
    <3>2. order' = Without(order, call[g].msg) /\ delivered' = delivered \cup Starting
      BY <2>1, <3>1 DEF Succeed
    <3>3. Elements(order') = Elements(order) \ Starting /\ Injective(order')
      BY <3>1, <3>2, WithoutElements DEF QueueInv, QueueSound, Types, ActorTypes
    <3> QED
      BY <1>1, <3>1, <3>2, <3>3 DEF QueueSound, Pending, QueueInv
  <2>2. CASE g # gen
    <3>1. Starting' = Starting /\ UNCHANGED <<order, uncertain, delivered>>
      BY <1>1, <2>2 DEF Succeed, Starting, QueueInv, Types, ActorTypes
    <3> QED
      BY <1>1, <3>1 DEF QueueSound, Pending, QueueInv
  <2> QED
    BY <2>1, <2>2
<1>3. JournalSound'
  BY <1>1, <1>2, WriteSound DEF Succeed, QueueInv
<1> QED
  BY <1>1, <1>2, <1>3 DEF QueueInv, NoCallDown

LEMMA PhoneSound ==
    ASSUME QueueInv, Types', NEW m \in Msgs, Phone(m)
    PROVE  QueueInv'
<1>1. queue \in Seq(Msgs) /\ order \in Seq(Msgs) /\ gen \in Gens
  BY DEF QueueInv, Types, ActorTypes
<1>2. QueueSound
  BY DEF QueueInv
<1>3. /\ UNCHANGED <<gen, hub, call>> /\ Starting' = Starting /\ hub # "down"
  BY DEF Phone, SubmitKnown, SubmitPending, SubmitNew, Retry, Delete, Event, Starting
<1>4. CASE ActorStays
  BY <1>4, QueueStays
<1>5. CASE SubmitNew(m) /\ Written
  <2>1. /\ m \notin Pending \cup deleted \cup delivered \cup uncertain
        /\ queue' = Append(queue, m) /\ order' = Append(order, m)
        /\ UNCHANGED <<uncertain, delivered, deleted>> /\ Written
    BY <1>5 DEF SubmitNew, Written, WriteFails
  <2>2. m \notin Elements(queue) /\ m \notin Elements(order)
    BY <1>2, <2>1 DEF QueueSound, Pending
  <2>3. /\ Elements(queue') = Elements(queue) \cup {m} /\ Injective(queue')
        /\ Elements(order') = Elements(order) \cup {m} /\ Injective(order')
    BY <1>1, <1>2, <2>1, <2>2, AppendElements DEF QueueSound
  <2>4. QueueSound'
    BY <1>2, <1>3, <2>1, <2>3 DEF QueueSound, Pending
  <2> QED
    BY <1>3, <2>1, <2>4, SavedSound DEF QueueInv, NoCallDown, Written
<1>6. CASE Retry(m) /\ Written
  <2>1. /\ m \in uncertain \ (deleted \cup delivered)
        /\ queue' = <<m>> \o queue /\ uncertain' = uncertain \ {m}
        /\ UNCHANGED <<order, delivered, deleted>> /\ Written
    BY <1>6 DEF Retry, Written, WriteFails
  <2>2. m \notin Elements(queue)
    BY <1>2, <2>1 DEF QueueSound
  <2>3. Elements(queue') = Elements(queue) \cup {m} /\ Injective(queue')
    BY <1>1, <1>2, <2>1, <2>2, FrontElements DEF QueueSound
  <2>4. QueueSound'
    BY <1>2, <1>3, <2>1, <2>3 DEF QueueSound, Pending
  <2> QED
    BY <1>3, <2>1, <2>4, SavedSound DEF QueueInv, NoCallDown, Written
<1>7. CASE Delete(m) /\ Written
  <2>1. /\ Deletable(m)
        /\ queue' = Without(queue, m) /\ order' = Without(order, m)
        /\ deleted' = deleted \cup {m} /\ UNCHANGED <<uncertain, delivered>> /\ Written
    BY <1>7 DEF Delete, Written, WriteFails
  <2>2. /\ Elements(queue') = Elements(queue) \ {m} /\ Injective(queue')
        /\ Elements(order') = Elements(order) \ {m} /\ Injective(order')
    BY <1>1, <1>2, <2>1, WithoutElements DEF QueueSound
  <2>3. QueueSound'
    BY <1>2, <1>3, <2>1, <2>2 DEF QueueSound, Pending, Deletable
  <2> QED
    BY <1>3, <2>1, <2>3, SavedSound DEF QueueInv, NoCallDown, Written
<1>8. ActorStays \/ ((SubmitNew(m) \/ Retry(m) \/ Delete(m)) /\ Written)
  BY <1>3 DEF Phone, SubmitKnown, SubmitPending, SubmitNew, Retry, Delete, ActorStays, CallsGoOn,
              WriteFails
<1> QED
  BY <1>4, <1>5, <1>6, <1>7, <1>8

LEMMA DrainSound ==
    ASSUME QueueInv, Types', Tick \/ OtherSaves \/ Drain, hub # "down"
    PROVE  QueueInv'
<1>1. queue \in Seq(Msgs) /\ order \in Seq(Msgs) /\ gen \in Gens /\ call \in [Gens -> Calls]
  BY DEF QueueInv, Types, ActorTypes, CallTypes
<1>2. QueueSound /\ hub' = hub /\ gen' = gen
  BY DEF QueueInv, Tick, OtherSaves, Drain
<1>3. CASE Drain /\ DrainReady /\ Written
  <2>1. /\ queue # <<>> /\ call[gen].step = "idle" /\ queue' = Tail(queue)
        /\ call' = [call EXCEPT ![gen] = CallFor(Head(queue))]
        /\ UNCHANGED <<order, uncertain, delivered, deleted>>
    BY <1>3 DEF Drain, DrainReady, Written, WriteFails
  <2>2. Head(queue) \in Msgs /\ retried[Head(queue)] \in 0..MaxRetries
    BY <1>1, <2>1 DEF QueueInv, Types, CountTypes
  <2>3. Starting = {} /\ Starting' = {Head(queue)}
    BY <1>1, <1>2, <2>1, <2>2, CallForIs DEF Starting
  <2>4. /\ Elements(queue') = Elements(queue) \ {Head(queue)} /\ Injective(queue')
        /\ Head(queue) \in Elements(queue)
    BY <1>1, <1>2, <2>1, TailElements DEF QueueSound
  <2>5. QueueSound'
    BY <1>2, <2>1, <2>3, <2>4 DEF QueueSound, Pending
  <2> QED
    BY <1>2, <1>3, <2>5, SavedSound DEF QueueInv, NoCallDown, Written
<1>4. CASE ~(Drain /\ DrainReady /\ Written)
  <2>1. UNCHANGED <<queue, order, uncertain, delivered, deleted, call>> /\ (WrittenOrNot \/ UNCHANGED diskVars)
    BY <1>4 DEF Tick, OtherSaves, Drain, WrittenOrNot
  <2>2. QueueSound'
    BY <1>2, <2>1 DEF QueueSound, Pending, Starting
  <2>3. JournalSound'
    BY <1>2, <2>1, <2>2, WriteSound DEF QueueInv
  <2> QED
    BY <1>2, <2>1, <2>2, <2>3 DEF QueueInv, NoCallDown
<1> QED
  BY <1>3, <1>4

\* A call goes on with a request, or gets its answer.
LEMMA SendGoesOn ==
    ASSUME Types, NEW g \in Gens, call[g].step # "idle", NEW kind \in Kinds,
           NEW turn \in MaybeTurn, NEW c \in MaybeConn, Send(g, kind, turn, c)
    PROVE  CallsGoOn
<1>1. call[g] \in Calls /\ kind # "idle" /\ call' = [call EXCEPT ![g] = Asking(call[g], kind, turn, c)]
  BY DEF Types, CallTypes, Send, Kinds
<1> QED
  BY <1>1, AskingIs DEF Types, CallTypes, CallsGoOn

LEMMA GoingOn ==
    ASSUME Types,
           \/ \E g \in Gens : CallWakes(g) \/ ReadAnswered(g) \/ SteerRefused(g)
           \/ \E c \in Conns : ReceiveReply(c) \/ ReceiveNotification(c)
    PROVE  CallsGoOn
<1>1. ASSUME NEW g \in Gens, CallWakes(g) \/ ReadAnswered(g) \/ SteerRefused(g)
      PROVE  CallsGoOn
  <2>1. CASE UNCHANGED call
    BY <2>1 DEF CallsGoOn
  <2>2. CASE \E kind \in Kinds, turn \in MaybeTurn, c \in MaybeConn : Send(g, kind, turn, c)
    <3>1. call[g].step # "idle"
      BY <1>1 DEF CallWakes, ReadAnswered, SteerRefused, Waits
    <3> QED
      BY <2>2, <3>1, SendGoesOn
  <2>3. /\ open.active \in MaybeTurn /\ open.conn \in MaybeConn
        /\ call[g].found \in MaybeTurn /\ call[g].conn \in MaybeConn
    BY Zenon DEF Types, LinkTypes, CallTypes, Opens, Calls
  <2>4. NoTurn \in MaybeTurn /\ {"read", "steer", "resteer", "start"} \subseteq Kinds
    BY DEF MaybeTurn, Kinds
  <2> QED
    BY <1>1, <2>1, <2>2, <2>3, <2>4 DEF CallWakes, ReadAnswered, SteerRefused, Deliver
<1>2. ASSUME NEW c \in Conns, ReceiveReply(c) \/ ReceiveNotification(c)
      PROVE  CallsGoOn
  <2>1. \A g \in Gens : call[g] \in Calls /\ (call[g].answer # "none" => call[g].chunk > 0)
    BY <1>2 DEF ReceiveReply, ReceiveNotification, Receivable, Types, CallTypes
  <2>2. CASE ReceiveReply(c)
    <3>1. PICK n \in 0..MaxChunk :
             call' = [g \in Gens |-> IF IsFor(g, Head(inbox[c]).to)
                                     THEN Resumed(call[g], Head(inbox[c]), n)
                                     ELSE Chunked(call[g])]
      BY <2>2 DEF ReceiveReply
    <3>2. /\ Head(inbox[c]).answer \in {"ok", "refused", "unknown"}
          /\ Head(inbox[c]).turn \in MaybeTurn
      <4>1. Head(inbox[c]) \in Messages /\ Head(inbox[c]).what = "reply"
        BY <2>2 DEF ReceiveReply, Receivable, Types, NetTypes
      <4>2. Head(inbox[c]) \in [what : {"reply"}, to : Requests,
                                answer : {"ok", "refused", "unknown"}, turn : MaybeTurn]
        BY <4>1 DEF Messages
      <4> QED
        BY <4>2
    <3> QED
      BY <2>1, <3>1, <3>2, ChunkedIs, ResumedIs DEF CallsGoOn
  <2>3. CASE ReceiveNotification(c)
    <3>1. call' = [g \in Gens |-> Chunked(call[g])]
      BY <2>3 DEF ReceiveNotification
    <3> QED
      BY <2>1, <3>1, ChunkedIs DEF CallsGoOn
  <2> QED
    BY <1>2, <2>2, <2>3
<1> QED
  BY <1>1, <1>2

\* retireSession, the end of the hub and the restart from the journal.
LEMMA HubSound ==
    ASSUME QueueInv, Types', Retire \/ Crash \/ Exit \/ Restart
    PROVE  QueueInv'
<1>1. gen \in Gens /\ call \in [Gens -> Calls] /\ QueueSound /\ JournalSound
  BY DEF QueueInv, Types, ActorTypes, CallTypes
<1>2. CASE Retire
  <2>1. /\ gen' = gen + 1 /\ gen + 1 \in Gens /\ call' = call /\ hub' = hub /\ hub # "down"
        /\ queue' = <<>> /\ order' = <<>> /\ uncertain' = {} /\ delivered' = {} /\ deleted' = {}
    BY <1>2, <1>1, BoundAssumption DEF Retire, Event, Gens
  <2>2. Starting' = {}
    <3>1. ~(gen + 1 <= gen)
      BY <1>1 DEF Gens
    <3>2. call[gen + 1].step = "idle"
      BY <2>1, <3>1 DEF QueueInv, Types, CallTypes
    <3> QED
      BY <2>1, <3>2 DEF Starting
  <2>3. Elements(queue') = {} /\ Elements(order') = {} /\ Injective(queue') /\ Injective(order')
    BY <2>1 DEF Elements, Injective
  <2>4. QueueSound'
    BY <2>1, <2>2, <2>3 DEF QueueSound, Pending
  <2>5. JournalSound'
    <3>1. CASE Written
      BY <2>4, <3>1, SavedSound DEF Written
    <3>2. CASE WriteFails
      <4>1. journal' = journal /\ journal.gen \in Gens
        BY <3>2 DEF WriteFails, QueueInv, Types, DiskTypes, Journals
      <4>2. journal.gen # gen + 1 /\ journal.gen <= gen + 1
        BY <1>1, <4>1 DEF JournalSound, Gens
      <4> QED
        BY <1>1, <2>1, <4>1, <4>2 DEF JournalSound, Kept, KeptListed
    <3> QED
      BY <1>2, <3>1, <3>2 DEF Retire, WrittenOrNot
  <2> QED
    BY <2>1, <2>4, <2>5 DEF QueueInv, NoCallDown
<1>3. CASE Crash \/ Exit
  <2>1. /\ hub' = "down" /\ gen' = gen /\ call' = [g \in Gens |-> NoCall] /\ journal' \in {journal, Saved}
        /\ queue' = <<>> /\ order' = <<>> /\ uncertain' = {} /\ delivered' = {} /\ deleted' = {}
    BY <1>3 DEF Crash, Exit, GoesDown
  <2>2. NoCallDown' /\ Starting' = {}
    BY <1>1, <2>1, NullRecords DEF NoCallDown, Starting
  <2>3. Elements(queue') = {} /\ Elements(order') = {} /\ Injective(queue') /\ Injective(order')
    BY <2>1 DEF Elements, Injective
  <2>4. QueueSound'
    BY <2>1, <2>2, <2>3 DEF QueueSound, Pending
  <2>5. JournalSound'
    <3>1. CASE journal' = journal
      BY <1>1, <2>1, <3>1, UnsavedSound
    <3>2. CASE journal' = Saved
      <4>1. /\ journal'.gen = gen /\ journal'.queued = queue /\ journal'.order = order
            /\ journal'.starting = Starting \cup uncertain
        BY <3>2 DEF Saved
      <4>2. gen <= gen
        BY <1>1 DEF Gens
      <4> QED
        BY <1>1, <2>1, <4>1, <4>2 DEF JournalSound, QueueSound, Kept, KeptListed, Pending
    <3> QED
      BY <2>1, <3>1, <3>2
  <2> QED
    BY <2>2, <2>4, <2>5 DEF QueueInv
<1>4. CASE Restart
  <2>1. /\ hub = "down" /\ UNCHANGED <<gen, call>> /\ hub' = "up"
        /\ delivered' = IF journal.gen = gen THEN journal.delivered ELSE {}
        /\ deleted' = IF journal.gen = gen THEN journal.deleted ELSE {}
        /\ WrittenOrNot \/ (UNCHANGED diskVars /\ journal.gen = gen)
        /\ journal.gen # gen => WrittenOrNot
    BY <1>4 DEF Restart, WrittenOrNot
  <2>2. Starting' = {}
    BY <1>1, <2>1 DEF Starting, NoCallDown, QueueInv
  <2>3. /\ Elements(queue') = Requeued /\ Injective(queue') /\ uncertain' = Unsettled
        /\ Elements(order') = Requeued \cup Unsettled /\ Injective(order')
    BY <1>4, Restored DEF QueueInv, Types, JournalSound
  <2>4. QueueSound'
    BY <1>1, <2>1, <2>2, <2>3
    DEF QueueSound, Pending, Requeued, Unsettled, Left, Closed, JournalSound
  <2>5. JournalSound'
    <3>1. CASE Written
      BY <2>4, <3>1, SavedSound DEF Written
    <3>2. CASE journal' = journal /\ journal.gen = gen
      BY <1>1, <2>1, <2>3, <3>2 DEF JournalSound, Kept, KeptListed, Requeued, Left, Closed
    <3>3. CASE journal' = journal /\ journal.gen # gen
      BY <1>1, <2>1, <3>3 DEF JournalSound, Kept, KeptListed
    <3> QED
      BY <2>1, <3>1, <3>2, <3>3 DEF WrittenOrNot, WriteFails
  <2> QED
    BY <2>1, <2>4, <2>5 DEF QueueInv, NoCallDown
<1> QED
  BY <1>2, <1>3, <1>4

LEMMA TypesInit ==
    ASSUME Init
    PROVE  Types
<1> USE BoundAssumption
<1>1. 1 \in Gens
  BY DEF Gens
<1>2. ActorTypes
  <2>1. gen \in Gens
    BY <1>1 DEF Init
  <2>2. queue \in Seq(Msgs) /\ order \in Seq(Msgs)
    BY DEF Init
  <2>3. uncertain \subseteq Msgs /\ delivered \subseteq Msgs /\ deleted \subseteq Msgs
    BY DEF Init
  <2>4. blocked \in BOOLEAN
    BY DEF Init
  <2> QED
    BY <2>1, <2>2, <2>3, <2>4 DEF ActorTypes
<1>3. CallTypes
  BY NullRecords DEF Init, CallTypes
<1>4. CountTypes
  BY DEF Init, CountTypes, Tellings
<1>5. DiskTypes
  <2>1. journal \in Journals
    BY <1>1 DEF Init, Journals
  <2>2. dirty = FALSE /\ writeFailures = 0
    BY DEF Init
  <2>3. writeFailures \in 0..MaxWriteFailures
    BY <2>2
  <2> QED
    BY <2>1, <2>2, <2>3 DEF DiskTypes
<1>6. LinkTypes
  <2>1. conns \in [Conns -> {"none", "up", "closing"}]
    BY DEF Init
  <2>2. subWaits \subseteq 1..MaxWatches /\ subscribed \subseteq Conns
    BY DEF Init
  <2>3. open \in Opens /\ opening \in Openings /\ opening.stage = "no"
    BY NullRecords DEF Init
  <2>4. /\ watched = FALSE /\ processing = FALSE /\ closeAsked = FALSE /\ reopened = FALSE /\ overtaken = FALSE
        /\ watches = 0 /\ faults = 0 /\ crashes = 0
    BY DEF Init
  <2>5. 0 \in 0..MaxWatches /\ 0 \in 0..MaxFaults /\ 0 \in 0..MaxCrashes
    OBVIOUS
  <2>6. /\ hub \in {"up", "draining", "down"} /\ pc \in {"idle", "drain", "flush"}
        /\ sub \in {"none", "waiting", "live", "fallback"}
    BY DEF Init
  <2> QED
    BY <2>1, <2>2, <2>3, <2>4, <2>6, <2>5 DEF LinkTypes
<1>7. NetTypes
  <2>1. wire \subseteq Requests /\ inbox \in [Conns -> Seq(Messages)]
    BY DEF Init
  <2>2. ran \in Seq([msg : Msgs, gen : Gens])
    BY DEF Init
  <2> QED
    BY <2>1, <2>2 DEF Init, NetTypes, MaybeTurn
<1> QED
  BY <1>2, <1>3, <1>4, <1>5, <1>6, <1>7 DEF Types

LEMMA TypesStep ==
    ASSUME Types, KeptListed, Next
    PROVE  Types'
BY PhoneTypes, QueueStepTypes, OpenTypes, CallStepTypes, ReceiveTypes, BreakTypes, ServerTypes,
   HubTypes
DEF Next

LEMMA QueueInit ==
    ASSUME Init
    PROVE  QueueInv
<1>1. Types /\ NoCallDown
  BY TypesInit DEF Init, NoCallDown
<1>2. Starting = {}
  BY <1>1, NullRecords DEF Init, Starting, Types, ActorTypes
<1>3. QueueSound
  BY <1>2 DEF Init, QueueSound, Pending, Elements, Injective
<1>4. JournalSound
  BY <1>1 DEF Init, JournalSound, KeptListed, Kept, Left, Closed, Elements, Injective, Gens
<1> QED
  BY <1>1, <1>3, <1>4 DEF QueueInv

LEMMA QueueStep ==
    ASSUME QueueInv, [Next]_vars
    PROVE  QueueInv'
<1>1. CASE UNCHANGED vars
  BY SMTT(60), <1>1
  DEF vars, QueueInv, Types, ActorTypes, CallTypes, DiskTypes, CountTypes, LinkTypes, NetTypes,
      QueueSound, Pending, Starting, JournalSound, Kept, KeptListed, Left, Closed, NoCallDown
<1>2. CASE Next
  <2>1. Types /\ Types'
    BY <1>2, TypesStep DEF QueueInv, JournalSound
  <2>2. CASE \E m \in Msgs : Phone(m)
    BY <2>1, <2>2, PhoneSound
  <2>3. CASE Tick \/ OtherSaves \/ Drain
    <3>1. CASE hub # "down"
      BY <2>1, <2>3, <3>1, DrainSound
    <3>2. CASE hub = "down"
      <4>1. Drain /\ ~DrainReady
        BY <2>3, <3>2 DEF Tick, OtherSaves, Drain, DrainReady, Event
      <4>2. ActorStays
        BY <4>1 DEF Drain, ActorStays, CallsGoOn
      <4> QED
        BY <2>1, <4>2, QueueStays
    <3> QED
      BY <3>1, <3>2
  <2>4. CASE \/ OpenStep \/ HistoryTimesOut \/ Reconcile \/ Watch \/ Leave \/ Shutdown
             \/ SrvCompletes \/ SrvOtherStarts
             \/ \E w \in subWaits : SubWakes(w)
             \/ \E r \in wire : SrvHandles(r)
    <3>1. ActorStays
      BY <2>4
      DEF OpenStep, Resume, ReadHistory, OpenSet, Flush, Opened, HistoryTimesOut, Reconcile,
          Watch, Leave, Shutdown, SrvCompletes, SrvOtherStarts, SubWakes, SrvHandles,
          ActorStays, CallsGoOn
    <3> QED
      BY <2>1, <3>1, QueueStays
  <2>5. CASE \/ \E g \in Gens : CallWakes(g) \/ ReadAnswered(g) \/ SteerRefused(g)
             \/ \E c \in Conns : ReceiveReply(c) \/ ReceiveNotification(c)
    <3>1. CallsGoOn
      BY <2>1, <2>5, GoingOn
    <3>2. ActorStays
      BY <2>5, <3>1
      DEF CallWakes, ReadAnswered, SteerRefused, ReceiveReply, ReceiveNotification, ActorStays
    <3> QED
      BY <2>1, <3>2, QueueStays
  <2>6. ASSUME NEW g \in Gens, Accepted(g)
        PROVE  QueueInv'
    BY <2>1, <2>6, SucceedSound DEF Accepted
  <2>7. ASSUME NEW g \in Gens, Refused(g) \/ RequestTimesOut(g)
        PROVE  QueueInv'
    <3>1. call[g].step # "idle" /\ Fail({g}) /\ hub' = hub
      BY <2>7 DEF Refused, RequestTimesOut, Awaits, Kinds
    <3>2. hub # "down"
      BY <3>1 DEF QueueInv, NoCallDown
    <3> QED
      BY <2>1, <3>1, <3>2, FailSound
  <2>8. CASE OpenFails \/ \E c \in Conns : ConnCloses(c) \/ Disconnect(c)
    <3>1. hub' = hub /\ hub # "down"
      BY <2>8 DEF OpenFails, ConnCloses, Disconnect, Event
    <3>2. CASE OpenFails
      <4>1. Fail({g \in Gens : Waits(g)})
        BY <3>2 DEF OpenFails
      <4>2. gen \in {g \in Gens : Waits(g)} => call[gen].step # "idle"
        BY DEF Waits
      <4> QED
        BY <2>1, <3>1, <4>1, <4>2, FailSound
    <3>3. ASSUME NEW c \in Conns, ConnCloses(c) \/ Disconnect(c)
          PROVE  QueueInv'
      <4>1. Fail(CallsOn(c))
        BY <3>3 DEF ConnCloses, Disconnect
      <4>2. gen \in CallsOn(c) => call[gen].step # "idle"
        BY DEF CallsOn, Awaits, Kinds
      <4> QED
        BY <2>1, <3>1, <4>1, <4>2, FailSound
    <3> QED
      BY <2>8, <3>2, <3>3
  <2>9. CASE Retire \/ Crash \/ Exit \/ Restart
    BY <2>1, <2>9, HubSound
  <2> QED
    BY <1>2, <2>2, <2>3, <2>4, <2>5, <2>6, <2>7, <2>8, <2>9 DEF Next, CallStep
<1> QED
  BY <1>1, <1>2

\* Every reachable state has its types, a queue whose parts agree and a journal
\* that can be restored.
THEOREM QueueInvariant == Spec => []QueueInv
BY QueueInit, QueueStep, PTL DEF Spec

\* The state has its types.
THEOREM TurnTypes == Spec => []TypeOK
<1>1. QueueInv => TypeOK
  BY DEF QueueInv, Types, ActorTypes, CallTypes, DiskTypes, CountTypes, LinkTypes, NetTypes, TypeOK
<1> QED
  BY <1>1, QueueInvariant, PTL

\* The queue, its order, the call under way and the uncertain messages agree, also
\* after failed writes, retirements, crashes and restarts (codexQueue, codexOrder,
\* startingCodexMessageIds and uncertainCodexMessages).
THEOREM TurnQueueSound == Spec => []QueueSound
<1>1. QueueInv => QueueSound
  BY DEF QueueInv
<1> QED
  BY <1>1, QueueInvariant, PTL
-----------------------------------------------------------------------------
(***************************************************************************)
(* The connections.                                                        *)
(***************************************************************************)

\* The thread that is being opened has a connection, and the open thread is that one.
OpeningOwns ==
    /\ opening.stage = "no" => opening = NotOpening
    /\ opening.stage \in {"connect", "resumed", "read"} =>
          open = NoOpen /\ opening.conn \in Conns /\ conns[opening.conn] = "up"
    /\ opening.stage = "set" =>
          /\ opening.conn \in Conns /\ open.conn \in {NoConn, opening.conn}
          /\ conns[opening.conn] = "up" => open.conn = opening.conn
    /\ pc = "flush" => opening.stage = "set"
    /\ open.conn = NoConn => open = NoOpen

\* Who waits for the stream watches, and whoever is told of a thread that is closed
\* again does not.
ViewersWait ==
    /\ ~watched => sub = "none"
    /\ subWaits \subseteq 1..watches /\ opening.by <= watches
    /\ closeAsked /\ opening.stage # "no" => opening.by # watches \/ sub # "waiting"
    /\ opening.stage = "set" /\ open = NoOpen => opening.by # watches \/ sub # "waiting"

BusyHasThread == processing => open # NoOpen

LinkInv == OpeningOwns /\ ViewersWait /\ NoOrphan /\ LiveIsOpen /\ BusyHasThread

LEMMA NullFacts ==
    ASSUME Types
    PROVE  /\ open.conn \in Conns \cup {NoConn} /\ opening.conn \in Conns \cup {NoConn}
           /\ NoConn \notin Conns /\ opening.by \in 0..MaxWatches /\ watches \in 0..MaxWatches
           /\ opening.stage \in {"no", "connect", "resumed", "read", "set"}
<1>1. /\ open.conn \in MaybeConn /\ opening.conn \in MaybeConn
      /\ opening.by \in 0..MaxWatches /\ opening.stage \in Stages
  BY Zenon DEF Types, LinkTypes, Opens, Openings
<1>2. watches \in 0..MaxWatches
  BY DEF Types, LinkTypes
<1> QED
  BY <1>1, <1>2, NullAssumption DEF MaybeConn, Stages

\* Steps that leave the thread and its viewers alone.
LEMMA LinkStays ==
    ASSUME LinkInv,
           UNCHANGED <<open, opening, conns, sub, watched, watches, subWaits, closeAsked, processing>>,
           pc' = "flush" => pc = "flush"
    PROVE  LinkInv'
BY DEF LinkInv, OpeningOwns, ViewersWait, NoOrphan, LiveIsOpen, BusyHasThread

\* closeSession of the open thread, or of the one being opened, when nobody watches
\* (maybeCloseIdleCodexSession) or nobody will (unsubscribe, retireSession).
LEMMA CloseOwned ==
    ASSUME Types, LinkInv, NEW o, o.conn = open.conn, o = NoOpen <=> open = NoOpen,
           NEW cs \in ConnStates, \A c \in Conns : cs[c] = "up" <=> conns[c] = "up",
           Close(o, cs), sub' = "none", watched' = FALSE, processing' = FALSE,
           UNCHANGED <<opening, watches, subWaits>>, pc' = "flush" => pc = "flush"
    PROVE  LinkInv'
<1>1. /\ open' = NoOpen /\ NoOpen.conn = NoConn
      /\ conns' = IF o = NoOpen THEN cs ELSE [cs EXCEPT ![open.conn] = "closing"]
      /\ closeAsked' = (closeAsked \/ (o = NoOpen /\ opening.stage # "no"))
  BY NullRecords DEF Close
<1>2. \A c \in Conns : conns'[c] = "up" <=> conns[c] = "up" /\ c # open.conn
  BY <1>1, NullFacts DEF LinkInv, OpeningOwns, ConnStates, NoOrphan
<1>3. NoOrphan'
  BY <1>1, <1>2, NullFacts DEF LinkInv, NoOrphan
<1>4. OpeningOwns'
  BY <1>1, <1>2, NullFacts DEF LinkInv, OpeningOwns
<1>5. ViewersWait'
  BY DEF LinkInv, ViewersWait
<1>6. LiveIsOpen' /\ BusyHasThread'
  BY DEF LiveIsOpen, BusyHasThread
<1> QED
  BY <1>3, <1>4, <1>5, <1>6 DEF LinkInv

\* onProcessing "done".
LEMMA SettleOwned ==
    ASSUME Types, LinkInv, NEW o, o.conn = open.conn, o = NoOpen <=> open = NoOpen,
           NEW cs \in ConnStates, \A c \in Conns : cs[c] = "up" <=> conns[c] = "up",
           Settle(o, cs), UNCHANGED <<opening, watched, sub, watches, subWaits>>,
           pc' = "flush" => pc = "flush"
    PROVE  LinkInv'
<1>1. CASE watched
  <2>1. open' = o /\ conns' = cs /\ closeAsked' = closeAsked /\ processing' = FALSE
    BY <1>1 DEF Settle
  <2> QED
    BY <1>1, <2>1, NullFacts
    DEF LinkInv, OpeningOwns, ViewersWait, NoOrphan, LiveIsOpen, BusyHasThread
<1>2. CASE ~watched
  <2>1. Close(o, cs) /\ processing' = FALSE
    BY <1>2 DEF Settle
  <2>2. sub' = "none" /\ watched' = FALSE
    <3>1. watched = FALSE
      BY <1>2 DEF Types, LinkTypes
    <3> QED
      BY <1>2, <3>1 DEF LinkInv, ViewersWait
  <2> QED
    BY <2>1, <2>2, CloseOwned
<1> QED
  BY <1>1, <1>2

\* threadFor begins to open.
LEMMA StartOpenOwned ==
    ASSUME Types, LinkInv, NEW by \in 0..watches, StartOpen(by), opening.stage = "no",
           open = NoOpen, pc # "flush",
           UNCHANGED <<pc, open, watched, sub, watches, subWaits, processing>>
    PROVE  LinkInv'
<1>1. by \in 0..MaxWatches
  BY NullFacts, BoundAssumption
<1>2. PICK c \in Conns : /\ conns[c] = "none" /\ conns' = [conns EXCEPT ![c] = "up"]
                         /\ opening' = Connecting(c, FALSE, by) /\ closeAsked' = FALSE
  BY DEF StartOpen
<1>3. c \in MaybeConn
  BY DEF MaybeConn
<1>4. opening'.stage = "connect" /\ opening'.conn = c /\ opening'.by = by
  BY <1>1, <1>2, <1>3, ConnectingIs, Zenon
<1>5. \A d \in Conns : conns'[d] = "up" <=> d = c
  <2>1. opening = NotOpening
    BY DEF LinkInv, OpeningOwns
  <2>2. \A d \in Conns : conns[d] # "up"
    BY <2>1, NullFacts, NullRecords DEF LinkInv, NoOrphan
  <2> QED
    BY <1>2, <2>2 DEF Types, LinkTypes
<1>6. open.conn = NoConn /\ c \in Conns /\ conns'[c] = "up" /\ pc' # "flush"
  BY <1>5, NullRecords
<1>7. OpeningOwns'
  BY <1>4, <1>6 DEF LinkInv, OpeningOwns
<1>8. ViewersWait'
  <2>1. closeAsked' = FALSE /\ by <= watches
    BY <1>2, NullFacts
  <2> QED
    BY <1>4, <2>1 DEF LinkInv, ViewersWait
<1>9. NoOrphan' /\ LiveIsOpen' /\ BusyHasThread'
  BY <1>4, <1>5 DEF LinkInv, NoOrphan, LiveIsOpen, BusyHasThread
<1> QED
  BY <1>7, <1>8, <1>9 DEF LinkInv

LEMMA SubDoneOwned ==
    ASSUME Types, LinkInv, NEW w, NEW live, SubDone(w, live),
           UNCHANGED <<open, conns, watched, watches, closeAsked, processing>>,
           \/ UNCHANGED opening /\ open # NoOpen
           \/ opening' = NotOpening /\ (open = NoOpen => w # watches \/ sub # "waiting"),
           pc' # "flush",
           \A c \in Conns : conns[c] = "up" => c = open.conn
    PROVE  LinkInv'
<1>1. /\ subWaits' = subWaits \ {w}
      /\ sub' = IF w = watches /\ sub = "waiting"
                THEN IF live THEN "live" ELSE "fallback" ELSE sub
  BY DEF SubDone
<1>2. watches \in Nat /\ NotOpening.by = 0 /\ NotOpening.stage = "no"
  BY NullFacts, NullRecords
<1>3. OpeningOwns'
  BY <1>2 DEF LinkInv, OpeningOwns
<1>4. ViewersWait'
  <2>1. sub' = "waiting" => sub = "waiting"
    BY <1>1
  <2>2. (~watched' => sub' = "none") /\ subWaits' \subseteq 1..watches'
    BY <1>1 DEF LinkInv, ViewersWait
  <2>3. opening'.by <= watches'
    BY <1>2 DEF LinkInv, ViewersWait
  <2> QED
    BY <1>2, <2>1, <2>2, <2>3 DEF LinkInv, ViewersWait
<1>5. LiveIsOpen' /\ BusyHasThread'
  BY <1>1, <1>2 DEF LinkInv, LiveIsOpen, BusyHasThread
<1>6. NoOrphan'
  BY DEF LinkInv, NoOrphan
<1> QED
  BY <1>3, <1>4, <1>5, <1>6 DEF LinkInv

LEMMA OpenOwned ==
    ASSUME Types, Types', LinkInv,
           OpenStep \/ HistoryTimesOut \/ OpenFails \/ \E w \in subWaits : SubWakes(w)
    PROVE  LinkInv'
<1>1. CASE Resume \/ ReadHistory
  <2>1. {"resumed", "read"} \subseteq Stages /\ running \in MaybeTurn /\ opening \in Openings
    BY DEF Stages, Types, LinkTypes, NetTypes
  <2>2. /\ opening.stage \in {"connect", "resumed"} /\ opening'.stage \in {"resumed", "read"}
        /\ opening'.conn = opening.conn /\ opening'.by = opening.by
    BY <1>1, <2>1, OpeningAtIs, OpeningKnowsIs DEF Resume, ReadHistory
  <2>3. UNCHANGED <<pc, open, conns, sub, watched, watches, subWaits, closeAsked, processing>>
    BY <1>1 DEF Resume, ReadHistory
  <2> QED
    BY <2>2, <2>3
    DEF LinkInv, OpeningOwns, ViewersWait, NoOrphan, LiveIsOpen, BusyHasThread
<1>2. CASE OpenSet
  <2>1. /\ opening.stage = "read" /\ pc' # "flush" /\ UNCHANGED <<watched, watches>>
        /\ open = NoOpen /\ opening.conn \in Conns /\ open.conn = NoConn
    BY <1>2, NullRecords DEF OpenSet, Event, LinkInv, OpeningOwns
  <2>2. \A c \in Conns : conns[c] = "up" <=> c = opening.conn
    BY <2>1, NullFacts DEF LinkInv, OpeningOwns, NoOrphan
  <2>3. CASE closeAsked
    <3>1. /\ open' = NoOpen /\ conns' = [conns EXCEPT ![opening.conn] = "closing"]
          /\ processing' = FALSE /\ opening' = NotOpening /\ closeAsked' = FALSE /\ OpenerDone
      BY <1>2, <2>3 DEF OpenSet
    <3>2. sub' = sub /\ subWaits' \subseteq subWaits
      BY <2>1, <2>3, <3>1 DEF OpenerDone, SubDone, LinkInv, ViewersWait
    <3>3. \A c \in Conns : conns'[c] # "up"
      BY <2>2, <3>1 DEF Types, LinkTypes
    <3>4. NotOpening.stage = "no" /\ NotOpening.by = 0 /\ 0 <= watches /\ sub # "live"
      BY <2>1, NullRecords, NullFacts DEF LinkInv, LiveIsOpen
    <3> QED
      BY <2>1, <3>1, <3>2, <3>3, <3>4
      DEF LinkInv, OpeningOwns, ViewersWait, NoOrphan, LiveIsOpen, BusyHasThread
  <2>4. CASE ~closeAsked
    <3>1. /\ open' = [conn |-> opening.conn, active |-> opening.active, live |-> opening.live]
          /\ opening' = OpeningAt("set") /\ UNCHANGED <<conns, closeAsked, subWaits, sub>>
      BY <1>2, <2>4 DEF OpenSet
    <3>2. open'.conn = opening.conn /\ open' # NoOpen
      BY <2>1, <3>1, NullFacts, NullRecords
    <3>3. "set" \in Stages
      BY DEF Stages
    <3>4. opening'.stage = "set" /\ opening'.conn = opening.conn /\ opening'.by = opening.by
      BY <3>1, <3>3, OpeningAtIs DEF Types, LinkTypes
    <3>5. OpeningOwns' /\ ViewersWait'
      BY <2>1, <2>4, <3>1, <3>2, <3>4, NullFacts DEF LinkInv, OpeningOwns, ViewersWait
    <3>6. NoOrphan' /\ LiveIsOpen' /\ BusyHasThread'
      BY <2>2, <3>1, <3>2, <3>4, <2>1 DEF NoOrphan, LiveIsOpen, BusyHasThread
    <3> QED
      BY <3>5, <3>6 DEF LinkInv
  <2> QED
    BY <2>3, <2>4
<1>3. CASE Flush /\ open.conn = opening.conn
  <2>1. /\ opening.stage = "set"
        /\ UNCHANGED <<open, opening, conns, sub, watched, watches, subWaits, closeAsked, processing>>
    BY <1>3 DEF Flush
  <2> QED
    BY <2>1 DEF LinkInv, OpeningOwns, ViewersWait, NoOrphan, LiveIsOpen, BusyHasThread
<1>4. CASE Opened \/ (Flush /\ open.conn # opening.conn)
  <2>1. /\ opening.stage = "set" /\ opening' = NotOpening /\ OpenerDone /\ pc' # "flush"
        /\ UNCHANGED <<open, conns, watched, watches, closeAsked, processing>>
    BY <1>4 DEF Opened, Flush, Event, LinkInv, OpeningOwns
  <2>2. open = NoOpen => opening.by # watches \/ sub # "waiting"
    BY <2>1 DEF LinkInv, ViewersWait
  <2>3. \A c \in Conns : conns[c] = "up" => c = open.conn
    <3>1. ASSUME NEW c \in Conns, conns[c] = "up"
          PROVE  c = open.conn
      <4>1. c \in {open.conn, opening.conn}
        BY <3>1 DEF LinkInv, NoOrphan
      <4>2. conns[opening.conn] = "up" => open.conn = opening.conn
        BY <2>1 DEF LinkInv, OpeningOwns
      <4> QED
        BY <3>1, <4>1, <4>2
    <3> QED
      BY <3>1
  <2>4. CASE opening.by \in subWaits
    <3>1. SubDone(opening.by, opening.live)
      BY <2>1, <2>4 DEF OpenerDone
    <3>2. UNCHANGED <<open, conns, watched, watches, closeAsked, processing>>
      BY <2>1
    <3>3. \/ UNCHANGED opening /\ open # NoOpen
          \/ opening' = NotOpening /\ (open = NoOpen => opening.by # watches \/ sub # "waiting")
      BY <2>1, <2>2
    <3>4. pc' # "flush"
      BY <2>1
    <3> QED
      BY <2>3, <3>1, <3>2, <3>3, <3>4, SubDoneOwned, Zenon
  <2>5. CASE opening.by \notin subWaits
    <3>1. UNCHANGED <<open, conns, watched, watches, closeAsked, processing, subWaits, sub>>
      BY <2>1, <2>5 DEF OpenerDone
    <3>2. NotOpening.stage = "no" /\ NotOpening.by = 0 /\ 0 <= watches
      BY NullFacts, NullRecords
    <3>3. OpeningOwns' /\ ViewersWait'
      BY <2>1, <3>1, <3>2 DEF LinkInv, OpeningOwns, ViewersWait
    <3>4. NoOrphan'
      BY <2>1, <2>3, <3>1 DEF LinkInv, NoOrphan
    <3>5. LiveIsOpen' /\ BusyHasThread'
      BY <2>1, <3>1 DEF LinkInv, LiveIsOpen, BusyHasThread
    <3> QED
      BY <3>3, <3>4, <3>5 DEF LinkInv
  <2> QED
    BY <2>4, <2>5
<1>5. CASE HistoryTimesOut
  <2>1. PICK c \in Conns :
           /\ conns[c] = "none"
           /\ conns' = [conns EXCEPT ![c] = "up", ![opening.conn] = "closing"]
           /\ opening' = Connecting(c, TRUE, opening.by)
    BY <1>5 DEF HistoryTimesOut
  <2>2. /\ opening.stage = "resumed"
        /\ UNCHANGED <<pc, open, sub, watched, watches, subWaits, closeAsked, processing>>
    BY <1>5 DEF HistoryTimesOut
  <2>3. c \in MaybeConn /\ opening.by \in 0..MaxWatches
    <3>1. opening.by \in 0..MaxWatches
      BY NullFacts
    <3>2. c \in Conns
      BY <2>1
    <3> QED
      BY <3>1, <3>2 DEF MaybeConn
  <2>4. opening'.stage = "connect" /\ opening'.conn = c /\ opening'.by = opening.by
    <3>1. PICK w \in 0..MaxWatches : w = opening.by
      BY <2>3
    <3>2. opening' = Connecting(c, TRUE, w) /\ TRUE \in BOOLEAN
      BY <2>1, <3>1, Zenon
    <3>3. opening'.stage = "connect" /\ opening'.conn = c /\ opening'.by = w
      BY <2>3, <3>2, ConnectingIs, Zenon
    <3> QED
      BY <3>1, <3>3
  <2>5. open = NoOpen /\ open.conn = NoConn /\ opening.conn \in Conns /\ conns[opening.conn] = "up"
    BY <2>2, NullRecords DEF LinkInv, OpeningOwns
  <2>6. \A d \in Conns : conns[d] = "up" <=> d = opening.conn
    BY <2>5, NullFacts DEF LinkInv, NoOrphan
  <2>7. \A d \in Conns : conns'[d] = "up" <=> d = c
    BY <2>1, <2>5, <2>6 DEF Types, LinkTypes
  <2>8. OpeningOwns' /\ NoOrphan'
    BY <2>2, <2>4, <2>5, <2>7 DEF OpeningOwns, NoOrphan, LinkInv
  <2>9. ViewersWait' /\ LiveIsOpen' /\ BusyHasThread'
    BY <2>2, <2>4 DEF LinkInv, ViewersWait, LiveIsOpen, BusyHasThread
  <2> QED
    BY <2>8, <2>9 DEF LinkInv
<1>6. CASE OpenFails
  <2>1. /\ opening.stage \in {"connect", "resumed"} /\ opening' = NotOpening /\ pc # "flush"
        /\ conns' = [conns EXCEPT ![opening.conn] = "closing"]
        /\ subWaits' = {} /\ sub' = NoStream /\ pc' \in {"drain", pc}
        /\ UNCHANGED <<open, watched, watches, processing, closeAsked>>
    BY <1>6 DEF OpenFails, Event, Fail
  <2>2. open = NoOpen /\ open.conn = NoConn
    BY <2>1, NullRecords DEF LinkInv, OpeningOwns
  <2>3. \A d \in Conns : conns'[d] # "up"
    BY <2>1, <2>2, NullFacts DEF LinkInv, NoOrphan, Types, LinkTypes
  <2>4. sub' # "live" /\ (~watched => sub' = "none")
    BY <2>1, <2>2 DEF NoStream, LinkInv, LiveIsOpen, ViewersWait
  <2>5. OpeningOwns' /\ NoOrphan'
    BY <2>1, <2>2, <2>3, NullRecords DEF OpeningOwns, NoOrphan
  <2>6. ViewersWait' /\ LiveIsOpen' /\ BusyHasThread'
    BY <2>1, <2>4, NullFacts, NullRecords DEF LinkInv, ViewersWait, LiveIsOpen, BusyHasThread
  <2> QED
    BY <2>5, <2>6 DEF LinkInv
<1>7. ASSUME NEW w \in subWaits, SubWakes(w)
      PROVE  LinkInv'
  <2>1. /\ pc = "idle" /\ opening.stage = "no" /\ w \in 1..watches
        /\ UNCHANGED <<pc, open, watched, watches, processing>>
    BY <1>7 DEF SubWakes, LinkInv, ViewersWait
  <2>2. CASE open # NoOpen
    <3>1. SubDone(w, open.live) /\ UNCHANGED <<opening, closeAsked, conns>>
      BY <1>7, <2>2 DEF SubWakes
    <3>2. \A c \in Conns : conns[c] = "up" => c = open.conn
      BY <2>1, NullFacts, NullRecords DEF LinkInv, OpeningOwns, NoOrphan
    <3> QED
      BY <2>1, <2>2, <3>1, <3>2, SubDoneOwned
  <2>3. CASE open = NoOpen
    <3>1. StartOpen(w) /\ UNCHANGED <<sub, subWaits>> /\ w \in 0..watches
      BY <1>7, <2>1, <2>3, NullFacts DEF SubWakes
    <3> QED
      BY <2>1, <2>3, <3>1, StartOpenOwned
  <2> QED
    BY <2>2, <2>3
<1> QED
  BY <1>1, <1>2, <1>3, <1>4, <1>5, <1>6, <1>7 DEF OpenStep

\* Steps after which the same thread is open, on the same connection.
LEMMA LinkSame ==
    ASSUME Types, LinkInv, open'.conn = open.conn, open' = NoOpen <=> open = NoOpen,
           \A c \in Conns : conns'[c] = "up" <=> conns[c] = "up",
           processing' => processing \/ open # NoOpen,
           UNCHANGED <<opening, sub, watched, watches, subWaits, closeAsked>>,
           pc' = "flush" => pc = "flush"
    PROVE  LinkInv'
<1>1. NoOrphan'
  BY NullFacts DEF LinkInv, NoOrphan, OpeningOwns
<1>2. OpeningOwns'
  BY NullFacts DEF LinkInv, OpeningOwns
<1>3. ViewersWait' /\ LiveIsOpen' /\ BusyHasThread'
  BY DEF LinkInv, ViewersWait, LiveIsOpen, BusyHasThread
<1> QED
  BY <1>1, <1>2, <1>3 DEF LinkInv

\* Another turn of the open thread.
LEMMA OpenWithKeeps ==
    ASSUME Types, LinkInv, NEW turn \in MaybeTurn, open # NoOpen
    PROVE  OpenWith(turn).conn = open.conn /\ OpenWith(turn) # NoOpen
<1>1. OpenWith(turn).conn = open.conn
  BY OpenWithIs DEF Types, LinkTypes
<1>2. open.conn # NoConn
  BY DEF LinkInv, OpeningOwns
<1> QED
  BY <1>1, <1>2, NullRecords

LEMMA SetActiveKeeps ==
    ASSUME Types, LinkInv, NEW g \in Gens, NEW turn \in MaybeTurn, SetActive(g, turn)
    PROVE  open'.conn = open.conn /\ (open' = NoOpen <=> open = NoOpen)
BY OpenWithKeeps DEF SetActive

\* The steps of startTurn.
LEMMA CallOwned ==
    ASSUME Types, LinkInv, NEW g \in Gens, CallStep(g) \/ RequestTimesOut(g)
    PROVE  LinkInv'
<1>1. pc = "idle"
  BY DEF CallStep, CallWakes, ReadAnswered, Accepted, SteerRefused, Refused, RequestTimesOut
<1>2. CASE CallWakes(g)
  <2>1. /\ UNCHANGED <<pc, open, watched, sub, watches, subWaits>> /\ opening.stage = "no"
    BY <1>2 DEF CallWakes
  <2>2. CASE open # NoOpen
    <3>1. UNCHANGED <<opening, closeAsked, conns>>
      BY <1>2, <2>2 DEF CallWakes
    <3> QED
      BY <2>1, <2>2, <3>1, LinkSame
  <2>3. CASE open = NoOpen
    <3>1. StartOpen(0) /\ UNCHANGED processing /\ 0 \in 0..watches
      BY <1>2, <2>3, NullFacts DEF CallWakes
    <3> QED
      BY <1>1, <2>1, <2>3, <3>1, StartOpenOwned
  <2> QED
    BY <2>2, <2>3
<1>3. CASE ReadAnswered(g) \/ Accepted(g) \/ SteerRefused(g)
  <2>1. call[g].found \in MaybeTurn
    BY Zenon DEF Types, CallTypes, Calls
  <2>2. UNCHANGED open \/ SetActive(g, call[g].found)
    BY <1>3 DEF ReadAnswered, Accepted, SteerRefused
  <2>3. open'.conn = open.conn /\ (open' = NoOpen <=> open = NoOpen)
    BY <2>1, <2>2, SetActiveKeeps
  <2>4. UNCHANGED <<conns, processing, opening, sub, watched, watches, subWaits, closeAsked>>
    BY <1>3 DEF ReadAnswered, Accepted, SteerRefused
  <2>5. pc' # "flush"
    BY <1>1, <1>3 DEF ReadAnswered, Accepted, SteerRefused, Succeed
  <2> QED
    BY <2>3, <2>4, <2>5, LinkSame
<1>4. CASE Refused(g) \/ RequestTimesOut(g)
  <2>1. Settle(open, conns) /\ UNCHANGED <<opening, watched, sub, watches, subWaits>>
    BY <1>4 DEF Refused, RequestTimesOut
  <2>2. pc' # "flush"
    BY <1>1, <1>4 DEF Refused, RequestTimesOut, Fail
  <2>3. conns \in ConnStates
    BY DEF Types, LinkTypes, ConnStates
  <2> QED
    BY <2>1, <2>2, <2>3, SettleOwned
<1> QED
  BY <1>2, <1>3, <1>4 DEF CallStep

\* What comes in, and the end of a connection.
LEMMA ReceiveOwned ==
    ASSUME Types, LinkInv, NEW c \in Conns,
           \/ ReceiveReply(c) \/ ReceiveNotification(c) \/ ConnCloses(c) \/ Disconnect(c)
    PROVE  LinkInv'
<1> DEFINE cs == [conns EXCEPT ![c] = "none"]
<1>1. conns \in ConnStates /\ cs \in ConnStates
  BY DEF Types, LinkTypes, ConnStates
<1>2. CASE ReceiveReply(c)
  <2>1. UNCHANGED <<open, opening, conns, sub, watched, watches, subWaits, closeAsked, processing, pc>>
    BY <1>2 DEF ReceiveReply
  <2> QED
    BY <2>1, LinkStays
<1>3. CASE ReceiveNotification(c)
  <2>1. /\ UNCHANGED <<opening, sub, watched, watches, subWaits, pc>>
        /\ Head(inbox[c]) \in Messages /\ Head(inbox[c]).what # "reply"
    BY <1>3 DEF ReceiveNotification, Receivable, Types, NetTypes
  <2>2. Head(inbox[c]).turn \in MaybeTurn /\ NoTurn \in MaybeTurn
    BY <2>1 DEF Messages, MaybeTurn
  <2>3. CASE UNCHANGED <<processing, open, conns, closeAsked>>
    BY <2>1, <2>3, LinkStays
  <2>4. open.conn = c => open # NoOpen
    BY NullRecords, NullAssumption
  <2>5. CASE open.conn = c /\ open' = OpenWith(Head(inbox[c]).turn) /\ UNCHANGED <<conns, closeAsked>>
    <3>1. open'.conn = open.conn /\ open' # NoOpen /\ open # NoOpen
      BY <2>2, <2>4, <2>5, OpenWithKeeps
    <3> QED
      BY <2>1, <2>5, <3>1, LinkSame
  <2>6. CASE open.conn = c /\ Settle(OpenWith(NoTurn), conns)
    <3>1. OpenWith(NoTurn).conn = open.conn /\ OpenWith(NoTurn) # NoOpen /\ open # NoOpen
      BY <2>2, <2>4, <2>6, OpenWithKeeps
    <3> QED
      BY <1>1, <2>1, <2>6, <3>1, SettleOwned
  <2> QED
    BY <1>3, <2>3, <2>5, <2>6 DEF ReceiveNotification
<1>4. CASE ConnCloses(c)
  <2>1. /\ conns[c] = "closing" /\ pc = "idle"
        /\ UNCHANGED <<opening, sub, watched, watches, subWaits>> /\ pc' # "flush"
    BY <1>4 DEF ConnCloses, Fail, Event
  <2>2. \A d \in Conns : cs[d] = "up" <=> conns[d] = "up"
    BY <2>1 DEF Types, LinkTypes
  <2>3. CASE CallsOn(c) # {}
    <3>1. Settle(open, cs)
      BY <1>4, <2>3 DEF ConnCloses
    <3> HIDE DEF cs
    <3> QED
      BY <1>1, <2>1, <2>2, <3>1, SettleOwned
  <2>4. CASE CallsOn(c) = {}
    <3>1. conns' = cs /\ UNCHANGED <<processing, open, closeAsked>>
      BY <1>4, <2>4 DEF ConnCloses
    <3> HIDE DEF cs
    <3> QED
      BY <2>1, <2>2, <3>1, LinkSame
  <2> QED
    BY <2>3, <2>4
<1>5. CASE Disconnect(c)
  <2>1. /\ conns[c] = "up" /\ open.conn = c /\ sub' = Degraded /\ pc' # "flush"
        /\ Settle(NoOpen, cs) /\ UNCHANGED <<opening, watched, watches, subWaits>>
    BY <1>5 DEF Disconnect, Fail, Event
  <2>2. open' = NoOpen /\ conns' = cs /\ processing' = FALSE
    BY <2>1 DEF Settle, Close
  <2>3. closeAsked' => closeAsked \/ ~watched
    BY <2>1 DEF Settle
  <2>4. sub' # "live" /\ (sub' = "waiting" => sub = "waiting") /\ (~watched => sub' = "none")
    BY <2>1 DEF Degraded, LinkInv, ViewersWait
  <2>5. \A d \in Conns : conns'[d] = "up" <=> conns[d] = "up" /\ d # c
    BY <2>2 DEF Types, LinkTypes
  <2>6. OpeningOwns' /\ NoOrphan'
    BY <2>1, <2>2, <2>5, NullFacts, NullRecords DEF LinkInv, OpeningOwns, NoOrphan
  <2>7. ViewersWait'
    <3>1. sub' # "waiting"
      BY <2>1, <2>4 DEF Degraded, LinkInv, ViewersWait
    <3> QED
      BY <2>1, <2>4, <3>1 DEF LinkInv, ViewersWait
  <2> QED
    BY <2>2, <2>4, <2>6, <2>7 DEF LinkInv, LiveIsOpen, BusyHasThread
<1> QED
  BY <1>2, <1>3, <1>4, <1>5

\* Viewers, the session and the hub process.
LEMMA HubOwned ==
    ASSUME Types, LinkInv, Reconcile \/ Watch \/ Leave \/ Retire \/ Crash \/ Exit
    PROVE  LinkInv'
<1>1. conns \in ConnStates
  BY DEF Types, LinkTypes, ConnStates
<1>2. CASE Reconcile
  <2>1. /\ open # NoOpen /\ open' = OpenWith(NoTurn) /\ processing' = FALSE
        /\ UNCHANGED <<conns, opening, sub, watched, watches, subWaits, closeAsked, pc>>
    BY <1>2 DEF Reconcile
  <2>2. open'.conn = open.conn /\ open' # NoOpen
    BY <2>1, OpenWithKeeps DEF MaybeTurn
  <2> QED
    BY <2>1, <2>2, LinkSame
<1>3. CASE Watch
  <2>1. /\ sub' = "waiting" /\ watches' = watches + 1 /\ subWaits' = subWaits \cup {watches + 1}
        /\ watched' = TRUE
        /\ UNCHANGED <<open, opening, conns, closeAsked, processing, pc>>
    BY <1>3 DEF Watch
  <2>2. opening.by <= watches + 1 /\ opening.by # watches + 1
    BY NullFacts DEF LinkInv, ViewersWait
  <2>3. ViewersWait'
    <3>1. subWaits' \subseteq 1..watches'
      <4>1. subWaits \subseteq 1..watches /\ watches \in Nat
        BY NullFacts, BoundAssumption DEF LinkInv, ViewersWait
      <4>2. \A w \in 1..watches \cup {watches + 1} : w \in 1..(watches + 1)
        BY <4>1
      <4> QED
        BY <2>1, <4>1, <4>2
    <3>2. opening'.by <= watches' /\ opening'.by # watches'
      BY <2>1, <2>2
    <3> QED
      BY <2>1, <3>1, <3>2 DEF ViewersWait
  <2>4. OpeningOwns' /\ NoOrphan'
    BY <2>1 DEF LinkInv, OpeningOwns, NoOrphan
  <2>5. LiveIsOpen' /\ BusyHasThread'
    BY <2>1 DEF LinkInv, LiveIsOpen, BusyHasThread
  <2> QED
    BY <2>3, <2>4, <2>5 DEF LinkInv
<1>4. CASE Leave /\ processing
  <2>1. /\ sub' = "none" /\ watched' = FALSE
        /\ UNCHANGED <<open, opening, conns, watches, subWaits, closeAsked, processing, pc>>
    BY <1>4 DEF Leave
  <2> QED
    BY <2>1 DEF LinkInv, OpeningOwns, ViewersWait, NoOrphan, LiveIsOpen, BusyHasThread
<1>5. CASE Retire \/ (Leave /\ ~processing)
  <2>1. /\ Close(open, conns) /\ sub' = "none" /\ watched' = FALSE
        /\ UNCHANGED <<opening, watches, subWaits, pc>>
    BY <1>5 DEF Retire, Leave
  <2>2. processing' = FALSE
    BY <1>5 DEF Retire, Leave, Types, LinkTypes
  <2> QED
    BY <1>1, <2>1, <2>2, CloseOwned
<1>6. CASE Crash \/ Exit
  <2>1. /\ open' = NoOpen /\ opening' = NotOpening /\ subWaits' = {} /\ closeAsked' = FALSE
        /\ conns' = [c \in Conns |-> "none"] /\ watched' = FALSE /\ sub' = "none"
        /\ processing' = FALSE /\ pc' = "idle" /\ watches' = watches
    BY <1>6 DEF Crash, Exit, GoesDown
  <2> QED
    BY <2>1, NullRecords, NullFacts
    DEF LinkInv, OpeningOwns, ViewersWait, NoOrphan, LiveIsOpen, BusyHasThread
<1> QED
  BY <1>2, <1>3, <1>4, <1>5, <1>6

LEMMA LinkInit ==
    ASSUME Init
    PROVE  LinkInv
<1>1. /\ open = NoOpen /\ opening = NotOpening /\ subWaits = {} /\ closeAsked = FALSE
      /\ conns = [c \in Conns |-> "none"] /\ watched = FALSE /\ sub = "none"
      /\ processing = FALSE /\ pc = "idle" /\ watches = 0
  BY DEF Init
<1> QED
  BY <1>1, NullRecords
  DEF LinkInv, OpeningOwns, ViewersWait, NoOrphan, LiveIsOpen, BusyHasThread

LEMMA LinkStep ==
    ASSUME Types, Types', LinkInv, [Next]_vars
    PROVE  LinkInv'
<1>1. CASE \/ UNCHANGED vars \/ \E m \in Msgs : Phone(m)
           \/ Tick \/ OtherSaves \/ Drain \/ Shutdown \/ Restart \/ SrvCompletes \/ SrvOtherStarts
           \/ \E r \in wire : SrvHandles(r)
  <2>1. /\ UNCHANGED <<open, opening, conns, sub, watched, watches, subWaits, closeAsked, processing>>
        /\ pc' = "flush" => pc = "flush"
    BY <1>1
    DEF vars, Phone, SubmitKnown, SubmitPending, SubmitNew, Retry, Delete, Tick, OtherSaves,
        Drain, Shutdown, Restart, SrvCompletes, SrvOtherStarts, SrvHandles
  <2> QED
    BY <2>1, LinkStays
<1>2. CASE OpenStep \/ HistoryTimesOut \/ OpenFails \/ \E w \in subWaits : SubWakes(w)
  BY <1>2, OpenOwned
<1>3. CASE \E g \in Gens : CallStep(g) \/ RequestTimesOut(g)
  BY <1>3, CallOwned
<1>4. CASE \E c \in Conns : \/ ReceiveReply(c) \/ ReceiveNotification(c)
                            \/ ConnCloses(c) \/ Disconnect(c)
  BY <1>4, ReceiveOwned
<1>5. CASE Reconcile \/ Watch \/ Leave \/ Retire \/ Crash \/ Exit
  BY <1>5, HubOwned
<1> QED
  BY <1>1, <1>2, <1>3, <1>4, <1>5 DEF Next

\* Everybody who counts on a connection has one, and the hub knows each it has:
\* no opening, closing, breaking or restart leaves a socket open that nobody closes,
\* a viewer who waits for a stream that is gone, or a session busy without a thread
\* (openThreadFor, closeSession, handleCodexDisconnect, maybeCloseIdleCodexSession).
THEOREM EveryConnectionOwned == Spec => []ConnectionsOwned
<1>1. Init => LinkInv
  BY LinkInit
<1>2. QueueInv /\ QueueInv' /\ LinkInv /\ [Next]_vars => LinkInv'
  BY LinkStep DEF QueueInv
<1>3. LinkInv => ConnectionsOwned
  BY DEF LinkInv, ConnectionsOwned, BusyHasThread, ProcessingHasThread
<1> QED
  BY <1>1, <1>2, <1>3, QueueInvariant, PTL DEF Spec
-----------------------------------------------------------------------------
(***************************************************************************)
(* Tries.  A message is tried for its t-th time on behalf of the g-th      *)
(* actor by a call, a request on the wire or a reply that has not been     *)
(* read.                                                                   *)
(***************************************************************************)
Replies == {x \in UNION {Elements(inbox[c]) : c \in Conns} : x.what = "reply"}

\* The request r is one of these tries, or the call of g is.
Tries(r, m, g, t) == r.msg = m /\ r.gen = g /\ r.try = t
CallTries(m, g, t) == call[g].step # "idle" /\ call[g].msg = m /\ call[g].try = t
Tried(m, g, t) ==
    \/ CallTries(m, g, t)
    \/ \E r \in wire : Tries(r, m, g, t)
    \/ \E x \in Replies : Tries(x.to, m, g, t)

\* Nothing is tried for an actor or a retry that is still to come.
TriesBounded ==
    /\ \A g \in Gens : call[g].step # "idle" => call[g].try <= retried[call[g].msg]
    /\ \A r \in wire : r.gen <= gen /\ r.try <= retried[r.msg]
    /\ \A x \in Replies : x.to.gen <= gen /\ x.to.try <= retried[x.to.msg]
    /\ \A i \in 1..Len(ran) : ran[i].gen <= gen

\* One request that can run a message is on its way for a try, and the call, if it
\* still waits, waits for that one.
OneRequest ==
    /\ \A r, s \in wire :
          r.kind # "read" /\ s.kind # "read" /\ Tries(r, s.msg, s.gen, s.try) => r = s
    /\ \A r \in wire : r.kind # "read" =>
          /\ CallTries(r.msg, r.gen, r.try) =>
                call[r.gen].step = r.kind /\ call[r.gen].answer = "none"
          /\ \A x \in Replies : Tries(x.to, r.msg, r.gen, r.try) => x.to.kind # r.kind
    /\ \A g \in Gens : call[g].step \in {"open", "read"} =>
          \A x \in Replies : Tries(x.to, call[g].msg, g, call[g].try) => x.to.kind = "read"
    /\ \A g \in Gens : call[g].step = "steer" =>
          \A x \in Replies : Tries(x.to, call[g].msg, g, call[g].try) =>
              x.to.kind \notin {"resteer", "start"}

\* What is queued, now or after a restart.
Queued ==
    IF hub # "down" THEN Elements(queue) ELSE IF journal.gen = gen THEN Left ELSE {}

\* The tries that can still make a message run: of a call that has not asked for a
\* turn or may ask again, of a request on its way, and of a queued message.
Moves(m, g, t) ==
    \/ CallTries(m, g, t) /\ call[g].step \in {"open", "read"}
    \/ /\ CallTries(m, g, t) /\ call[g].step = "steer"
       /\ \/ call[g].answer = "refused"
          \/ /\ call[g].answer = "none"
             /\ \E x \in Replies :
                   Tries(x.to, m, g, t) /\ x.to.kind = "steer" /\ x.answer = "refused"
    \/ \E r \in wire : r.kind # "read" /\ Tries(r, m, g, t)
Goes(m, g, t) == Moves(m, g, t) \/ (g = gen /\ t = retried[m] /\ m \in Queued)

\* Who is answered "ok" has run.
Ran(m) == \E i \in 1..Len(ran) : ran[i].msg = m
AnswersTrue ==
    /\ \A x \in Replies : x.answer = "ok" /\ x.to.kind # "read" => Ran(x.to.msg)
    /\ \A g \in Gens : call[g].answer = "ok" /\ call[g].step \in {"steer", "resteer", "start"} =>
          Ran(call[g].msg)

TryInv == TriesBounded /\ OneRequest /\ AnswersTrue

\* A message that was tried for this session is known to the hub and to the journal,
\* and is the first in their order.
Touched(m) == RanNow(m) \/ \E t \in 0..MaxRetries : Tried(m, gen, t)
Known == Pending \cup uncertain \cup delivered \cup deleted

HubKnows ==
    \A m \in Msgs : Touched(m) =>
        (hub # "down" => m \in Known) /\ \A n \in Msgs : ~Before(order, n, m)

JournalKnows ==
    \A m \in Msgs : Touched(m) =>
        /\ journal.gen = gen /\ m \in Kept \cup Closed
        /\ m \in Kept \ Closed => \A n \in Kept \ Closed : ~Before(journal.order, n, m)

\* A message in the queue has not been tried since it was entered.
QueuedFresh ==
    \A m \in Queued : \A t \in 0..MaxRetries : Tried(m, gen, t) => t < retried[m]

OrderInv == HubKnows /\ JournalKnows /\ QueuedFresh

\* Each entry pays for one run, which it has had or can still have.
Going(m) == {p \in Gens \X (0..MaxRetries) : Goes(m, p[1], p[2])}
Counted == \A m \in Msgs : Runs(m) + Cardinality(Going(m)) <= entered[m]
ReceiptsRan ==
    \A m \in Msgs :
        m \in delivered \cup journal.delivered \/ told[m] \in {"started", "duplicate"} => Ran(m)
-----------------------------------------------------------------------------
(***************************************************************************)
(* What a step does to the tries.                                          *)
(***************************************************************************)
Same(q, r) == q.msg = r.msg /\ q.gen = r.gen /\ q.try = r.try /\ q.kind = r.kind

CallsStay ==
    \A g \in Gens :
        \/ call'[g].step = "idle" /\ call'[g].answer = "none"
        \/ /\ call'[g].step = call[g].step /\ call'[g].msg = call[g].msg
           /\ call'[g].try = call[g].try /\ call'[g].answer = call[g].answer

WireStays ==
    /\ \A q \in wire' : \E r \in wire : Same(q, r)
    /\ \A q, s \in wire' :
          q.kind # "read" /\ s.kind # "read" /\ Tries(q, s.msg, s.gen, s.try) => q = s

\* Calls end, messages get lost, nothing new is asked or answered.
Calm == CallsStay /\ WireStays /\ Replies' \subseteq Replies /\ UNCHANGED ran

\* Time goes on.
Onward == gen <= gen' /\ \A m \in Msgs : retried[m] <= retried'[m]

TriesLess == \A m \in Msgs, g \in Gens, t \in 0..MaxRetries : Tried(m, g, t)' => Tried(m, g, t)
MovesLess == \A m \in Msgs, g \in Gens, t \in 0..MaxRetries : Moves(m, g, t)' => Moves(m, g, t)

LEMMA ReplyIs ==
    ASSUME Types, NEW x \in Replies
    PROVE  /\ x.what = "reply" /\ x.to \in Requests /\ x.turn \in MaybeTurn
           /\ x.answer \in {"ok", "refused", "unknown"}
<1>1. PICK c \in Conns : x \in Elements(inbox[c])
  BY DEF Replies
<1>2. x \in Messages /\ x.what = "reply"
  BY <1>1 DEF Replies, Elements, Types, NetTypes
<1>3. x \in [what : {"reply"}, to : Requests, answer : {"ok", "refused", "unknown"}, turn : MaybeTurn]
  BY <1>2 DEF Messages
<1> QED
  BY <1>3

LEMMA RequestIs ==
    ASSUME NEW r \in Requests
    PROVE  /\ r.gen \in Gens /\ r.msg \in Msgs /\ r.try \in 0..MaxRetries /\ r.kind \in Kinds
           /\ r.turn \in MaybeTurn /\ r.conn \in MaybeConn
BY DEF Requests

\* The comparisons with retried and gen keep their sense.
LEMMA StillBounded ==
    ASSUME Types, Types', Onward
    PROVE  /\ \A r \in Requests : r.gen <= gen => r.gen <= gen'
           /\ \A r \in Requests : r.try <= retried[r.msg] => r.try <= retried'[r.msg]
           /\ \A m \in Msgs, t \in 0..MaxRetries : t <= retried[m] => t <= retried'[m]
           /\ \A g \in Gens : g <= gen => g <= gen'
<1>1. /\ gen \in Int /\ gen' \in Int /\ gen <= gen'
      /\ \A m \in Msgs : retried[m] \in Int /\ retried'[m] \in Int /\ retried[m] <= retried'[m]
  BY DEF Onward, Types, ActorTypes, CountTypes, Gens
<1>2. \A r \in Requests : r.gen \in Int /\ r.try \in Int /\ r.msg \in Msgs
  BY RequestIs DEF Gens
<1> QED
  BY <1>1, <1>2 DEF Gens

LEMMA CalmTries ==
    ASSUME Types, Types', TryInv, Calm, Onward
    PROVE  TryInv' /\ TriesLess /\ MovesLess
<1>1. \A m, g, t : g \in Gens /\ CallTries(m, g, t)' =>
          /\ CallTries(m, g, t) /\ call'[g].step = call[g].step /\ call'[g].answer = call[g].answer
  BY DEF Calm, CallsStay, CallTries
<1>2. /\ \A g \in Gens : call'[g].step # "idle" => call'[g].msg = call[g].msg /\ call'[g].try = call[g].try
      /\ \A g \in Gens : call'[g].step # "idle" => call'[g].step = call[g].step /\ call'[g].answer = call[g].answer
      /\ \A g \in Gens : call'[g].step = "idle" => call'[g].answer = call[g].answer \/ call'[g].answer = "none"
  BY DEF Calm, CallsStay
<1>3. \A q \in wire' : \E r \in wire : Same(q, r)
  BY DEF Calm, WireStays
<1>4. Replies' \subseteq Replies /\ ran' = ran /\ wire \subseteq Requests /\ wire' \subseteq Requests
  BY DEF Calm, Types, NetTypes
<1>5. TriesBounded'
  <2>1. ASSUME NEW g \in Gens, call'[g].step # "idle"
        PROVE  call'[g].try <= retried'[call'[g].msg]
    <3>1. /\ call'[g].msg = call[g].msg /\ call'[g].try = call[g].try /\ call[g].step # "idle"
      BY <1>2, <2>1
    <3>2. call[g].msg \in Msgs /\ call[g].try \in 0..MaxRetries
      <4>1. call[g] \in Calls /\ call[g].msg \in Msgs
        BY <3>1 DEF Types, CallTypes
      <4> QED
        BY <4>1, Zenon DEF Calls
    <3>3. call[g].try <= retried[call[g].msg]
      BY <3>1 DEF TryInv, TriesBounded
    <3> QED
      BY <3>1, <3>2, <3>3, StillBounded
  <2>2. ASSUME NEW q \in wire'
        PROVE  q.gen <= gen' /\ q.try <= retried'[q.msg]
    <3>1. PICK r \in wire : Same(q, r)
      BY <1>3
    <3>2. r \in Requests /\ r.gen <= gen /\ r.try <= retried[r.msg]
      BY <1>4 DEF TryInv, TriesBounded
    <3>3. r.gen <= gen' /\ r.try <= retried'[r.msg]
      BY <3>2, StillBounded
    <3> QED
      BY <3>1, <3>3 DEF Same
  <2>3. ASSUME NEW x \in Replies'
        PROVE  x.to.gen <= gen' /\ x.to.try <= retried'[x.to.msg]
    <3>1. x \in Replies
      BY <1>4
    <3>2. x.to \in Requests /\ x.to.gen <= gen /\ x.to.try <= retried[x.to.msg]
      BY <3>1, ReplyIs DEF TryInv, TriesBounded
    <3> QED
      BY <3>2, StillBounded
  <2>4. ASSUME NEW i \in 1..Len(ran')
        PROVE  ran'[i].gen <= gen'
    <3>1. i \in 1..Len(ran) /\ ran[i].gen <= gen /\ ran'[i] = ran[i]
      BY <1>4 DEF TryInv, TriesBounded
    <3>2. PICK T : T = [msg : Msgs, gen : Gens]
      OBVIOUS
    <3>3. ran \in Seq(T) /\ i \in 1..Len(ran)
      BY <3>1, <3>2 DEF Types, NetTypes
    <3>4. ran[i] \in T
      BY <3>3
    <3>5. ran[i].gen \in Gens
      BY <3>2, <3>4
    <3> QED
      BY <3>1, <3>5, StillBounded
  <2> QED
    BY <2>1, <2>2, <2>3, <2>4 DEF TriesBounded
<1>6. OneRequest'
  <2>1. ASSUME NEW q \in wire', q.kind # "read", CallTries(q.msg, q.gen, q.try)'
        PROVE  call'[q.gen].step = q.kind /\ call'[q.gen].answer = "none"
    <3>1. PICK r \in wire : Same(q, r)
      BY <1>3
    <3>2. r.kind # "read" /\ r.gen \in Gens /\ CallTries(r.msg, r.gen, r.try)'
      BY <1>4, <2>1, <3>1, RequestIs DEF Same
    <3>3. /\ CallTries(r.msg, r.gen, r.try) /\ call'[r.gen].step = call[r.gen].step
          /\ call'[r.gen].answer = call[r.gen].answer
      BY <1>1, <3>2
    <3>4. call[r.gen].step = r.kind /\ call[r.gen].answer = "none"
      BY <3>2, <3>3 DEF TryInv, OneRequest
    <3> QED
      BY <3>1, <3>3, <3>4 DEF Same
  <2>2. ASSUME NEW q \in wire', q.kind # "read", NEW x \in Replies', Tries(x.to, q.msg, q.gen, q.try)
        PROVE  x.to.kind # q.kind
    <3>1. PICK r \in wire : Same(q, r)
      BY <1>3
    <3>2. r.kind # "read" /\ x \in Replies /\ Tries(x.to, r.msg, r.gen, r.try)
      BY <1>4, <2>2, <3>1 DEF Same, Tries
    <3> QED
      BY <3>1, <3>2 DEF Same, TryInv, OneRequest
  <2>3. ASSUME NEW g \in Gens, call'[g].step \in {"open", "read"},
               NEW x \in Replies', Tries(x.to, call'[g].msg, g, call'[g].try)
        PROVE  x.to.kind = "read"
    BY <1>2, <1>4, <2>3 DEF TryInv, OneRequest
  <2>4. ASSUME NEW g \in Gens, call'[g].step = "steer",
               NEW x \in Replies', Tries(x.to, call'[g].msg, g, call'[g].try)
        PROVE  x.to.kind \notin {"resteer", "start"}
    BY <1>2, <1>4, <2>4 DEF TryInv, OneRequest
  <2>5. \A q, s \in wire' :
          q.kind # "read" /\ s.kind # "read" /\ Tries(q, s.msg, s.gen, s.try) => q = s
    BY DEF Calm, WireStays
  <2> QED
    BY <2>1, <2>2, <2>3, <2>4, <2>5 DEF OneRequest, Tries
<1>7. AnswersTrue'
  BY <1>2, <1>4 DEF TryInv, AnswersTrue, Ran
<1>8. TriesLess
  <2>1. ASSUME NEW m, NEW g, NEW t, \E q \in wire' : Tries(q, m, g, t)
        PROVE  \E r \in wire : Tries(r, m, g, t)
    BY <1>3, <2>1 DEF Same, Tries
  <2>2. ASSUME NEW m, NEW g \in Gens, NEW t, CallTries(m, g, t)'
        PROVE  CallTries(m, g, t)
    BY <1>1, <2>2
  <2> QED
    BY <1>4, <2>1, <2>2 DEF TriesLess, Tried
<1>9. MovesLess
  <2>1. ASSUME NEW m \in Msgs, NEW g \in Gens, NEW t, Moves(m, g, t)'
        PROVE  Moves(m, g, t)
    <3>1. CASE \E q \in wire' : q.kind # "read" /\ Tries(q, m, g, t)
      BY <1>3, <3>1 DEF Same, Tries, Moves
    <3>2. CASE CallTries(m, g, t)'
      <4>1. /\ CallTries(m, g, t) /\ call'[g].step = call[g].step /\ call'[g].answer = call[g].answer
        BY <1>1, <3>2
      <4>2. CASE \E q \in wire' : q.kind # "read" /\ Tries(q, m, g, t)
        BY <3>1, <4>2
      <4> QED
        BY <1>4, <2>1, <4>1, <4>2 DEF Moves
    <3> QED
      BY <2>1, <3>1, <3>2 DEF Moves
  <2> QED
    BY <2>1 DEF MovesLess
<1> QED
  BY <1>5, <1>6, <1>7, <1>8, <1>9 DEF TryInv

LEMMA TailWithin ==
    ASSUME NEW T, NEW s \in Seq(T), s # <<>>
    PROVE  Elements(Tail(s)) \subseteq Elements(s) /\ Head(s) \in Elements(s)
<1>1. /\ Len(Tail(s)) = Len(s) - 1 /\ Len(s) \in Nat /\ Len(s) > 0 /\ Head(s) = s[1]
      /\ \A i \in 1..Len(Tail(s)) : Tail(s)[i] = s[i + 1]
  OBVIOUS
<1>2. \A i \in 1..Len(Tail(s)) : i + 1 \in 1..Len(s)
  BY <1>1
<1>3. 1 \in 1..Len(s)
  BY <1>1
<1> QED
  BY <1>1, <1>2, <1>3 DEF Elements

LEMMA AppendWithin ==
    ASSUME NEW T, NEW s \in Seq(T), NEW x \in T
    PROVE  /\ Append(s, x) \in Seq(T) /\ s \o <<x>> = Append(s, x)
           /\ Elements(Append(s, x)) = Elements(s) \cup {x}
BY DEF Elements

LEMMA MoreWithin ==
    ASSUME NEW T, NEW s \in Seq(T), NEW x \in T
    PROVE  s \o <<x>> \in Seq(T) /\ Elements(s \o <<x>>) = Elements(s) \cup {x}
<1>1. PICK u : u = s \o <<x>>
  OBVIOUS
<1>2. u \in Seq(T) /\ u = Append(s, x)
  BY <1>1, AppendWithin
<1>3. Elements(u) = Elements(s) \cup {x}
  BY <1>2, AppendWithin
<1> QED
  BY <1>1, <1>2, <1>3

LEMMA RepliesLess ==
    ASSUME \A c \in Conns : \A x \in Elements(inbox'[c]) :
               x \in Elements(inbox[c]) \/ x.what # "reply"
    PROVE  Replies' \subseteq Replies
BY DEF Replies

LEMMA WireKept ==
    ASSUME OneRequest, wire' = wire
    PROVE  WireStays
BY DEF WireStays, OneRequest, Same

\* Requests of a socket that is gone.
LEMMA WireMoved ==
    ASSUME Types, OneRequest, NEW d \in [wire -> MaybeConn],
           wire' = {OnConn(r, d[r]) : r \in wire}
    PROVE  WireStays
<1>1. \A r \in wire : Same(OnConn(r, d[r]), r)
  BY OnConnIs DEF Same, Types, NetTypes
<1>2. ASSUME NEW q \in wire', NEW s \in wire', q.kind # "read", s.kind # "read",
             Tries(q, s.msg, s.gen, s.try)
      PROVE  q = s
  <2>1. PICK r \in wire : q = OnConn(r, d[r])
    OBVIOUS
  <2>2. PICK u \in wire : s = OnConn(u, d[u])
    OBVIOUS
  <2>3. Same(q, r) /\ Same(s, u)
    BY <1>1, <2>1, <2>2
  <2>4. r.kind # "read" /\ u.kind # "read" /\ Tries(r, u.msg, u.gen, u.try)
    BY <1>2, <2>3 DEF Same, Tries
  <2>5. r = u
    BY <2>4 DEF OneRequest
  <2> QED
    BY <2>1, <2>2, <2>5
<1>3. \A q \in wire' : \E r \in wire : Same(q, r)
  BY <1>1
<1> QED
  BY <1>2, <1>3 DEF WireStays

LEMMA GoneCalm ==
    ASSUME Types, OneRequest, NEW c \in Conns, Gone(c)
    PROVE  WireStays /\ Replies' \subseteq Replies
<1> DEFINE d == [r \in wire |-> IF r.conn = c THEN NoConn ELSE r.conn]
<1>1. \A r \in wire : r.conn \in MaybeConn
  BY RequestIs DEF Types, NetTypes
<1>2. d \in [wire -> MaybeConn]
  BY <1>1 DEF MaybeConn
<1>3. wire' = {OnConn(r, d[r]) : r \in wire}
  BY DEF Gone
<1> HIDE DEF d
<1>4. WireStays
  BY <1>2, <1>3, WireMoved
<1>5. Replies' \subseteq Replies
  <2>1. \A e \in Conns : Elements(inbox'[e]) \subseteq Elements(inbox[e])
    BY DEF Gone, Types, NetTypes, Elements
  <2> QED
    BY <2>1, RepliesLess
<1> QED
  BY <1>4, <1>5

\* Calls that are over.
LEMMA EndedStay ==
    ASSUME Types, NEW F \in SUBSET Gens, call' = [g \in Gens |-> IF g \in F THEN NoCall ELSE call[g]]
    PROVE  CallsStay
BY NullRecords DEF CallsStay

LEMMA SucceedStays ==
    ASSUME Types, NEW g \in Gens, Succeed(g)
    PROVE  CallsStay
BY NullRecords DEF CallsStay, Succeed, Types, CallTypes

\* Notifications to the subscribers.
LEMMA ToldCalm ==
    ASSUME Types, NEW what \in {"started", "completed"}, NEW turn \in MaybeTurn, NEW cs,
           inbox' = Told(<<Note(what, turn)>>, cs)
    PROVE  Replies' \subseteq Replies
<1>1. PICK n : n = Note(what, turn)
  OBVIOUS
<1>2. n \in Messages /\ n.what # "reply"
  BY <1>1 DEF Messages, Note
<1>3. ASSUME NEW c \in Conns, NEW x \in Elements(inbox'[c])
      PROVE  x \in Elements(inbox[c]) \/ x.what # "reply"
  <2>1. inbox[c] \in Seq(Messages)
    BY DEF Types, NetTypes
  <2>2. inbox'[c] = Append(inbox[c], n) \/ inbox'[c] = inbox[c]
    BY <1>1, <1>2, <2>1, AppendWithin DEF Told
  <2>3. Elements(Append(inbox[c], n)) = Elements(inbox[c]) \cup {n}
    BY <1>2, <2>1, AppendWithin
  <2> QED
    BY <1>2, <1>3, <2>2, <2>3
<1> QED
  BY <1>3, RepliesLess

Still == UNCHANGED <<call, wire, inbox, ran>>

LEMMA StillCalm ==
    ASSUME Types, OneRequest, Still
    PROVE  Calm
<1>1. CallsStay /\ Replies' = Replies
  BY DEF Still, CallsStay, Replies
<1> QED
  BY <1>1, WireKept DEF Still, Calm

\* Calls end; connections and their messages go.
LEMMA EndsCalm ==
    ASSUME Types, OneRequest,
           \/ OpenFails \/ Crash \/ Exit
           \/ \E g \in Gens : Accepted(g) \/ Refused(g) \/ RequestTimesOut(g)
           \/ \E c \in Conns : ConnCloses(c) \/ Disconnect(c)
    PROVE  Calm
<1>1. CASE OpenFails
  <2>1. CallsStay
    BY <1>1, EndedStay DEF OpenFails, Fail
  <2>2. UNCHANGED <<wire, inbox, ran>>
    BY <1>1 DEF OpenFails
  <2> QED
    BY <2>1, <2>2, WireKept DEF Calm, Replies
<1>2. CASE Crash \/ Exit
  <2>1. /\ call' = [g \in Gens |-> NoCall] /\ inbox' = [c \in Conns |-> <<>>] /\ ran' = ran
        /\ wire' = {OnConn(r, NoConn) : r \in wire}
    BY <1>2 DEF Crash, Exit, GoesDown
  <2>2. CallsStay
    BY <2>1, NullRecords DEF CallsStay
  <2>3. Replies' \subseteq Replies
    BY <2>1, RepliesLess DEF Elements
  <2>4. WireStays
    <3> DEFINE d == [r \in wire |-> NoConn]
    <3>1. d \in [wire -> MaybeConn] /\ wire' = {OnConn(r, d[r]) : r \in wire}
      BY <2>1 DEF MaybeConn
    <3> HIDE DEF d
    <3> QED
      BY <3>1, WireMoved
  <2> QED
    BY <2>1, <2>2, <2>3, <2>4 DEF Calm
<1>3. ASSUME NEW g \in Gens, Accepted(g) \/ Refused(g) \/ RequestTimesOut(g)
      PROVE  Calm
  <2>1. UNCHANGED <<wire, inbox, ran>>
    BY <1>3 DEF Accepted, Refused, RequestTimesOut
  <2>2. CallsStay
    <3>1. CASE Succeed(g)
      BY <3>1, SucceedStays
    <3>2. CASE Fail({g})
      BY <3>2, EndedStay DEF Fail
    <3> QED
      BY <1>3, <3>1, <3>2 DEF Accepted, Refused, RequestTimesOut
  <2> QED
    BY <2>1, <2>2, WireKept DEF Calm, Replies
<1>4. ASSUME NEW c \in Conns, ConnCloses(c) \/ Disconnect(c)
      PROVE  Calm
  <2>1. Gone(c) /\ Fail(CallsOn(c)) /\ ran' = ran
    BY <1>4 DEF ConnCloses, Disconnect
  <2>2. CallsOn(c) \in SUBSET Gens
    BY DEF CallsOn
  <2>3. CallsStay
    BY <2>1, <2>2, EndedStay DEF Fail
  <2> QED
    BY <2>1, <2>3, GoneCalm DEF Calm
<1> QED
  BY <1>1, <1>2, <1>3, <1>4

\* A notification comes in.
LEMMA NotificationCalm ==
    ASSUME Types, OneRequest, NEW c \in Conns, ReceiveNotification(c)
    PROVE  Calm
<1>1. /\ inbox[c] # <<>> /\ inbox' = [inbox EXCEPT ![c] = Tail(inbox[c])]
      /\ call' = [g \in Gens |-> Chunked(call[g])] /\ UNCHANGED <<wire, ran>>
      /\ \A g \in Gens : call[g].answer # "none" => call[g].chunk > 0
  BY DEF ReceiveNotification, Receivable
<1>2. CallsStay
  BY <1>1, ChunkedIs DEF CallsStay, Types, CallTypes
<1>3. \A e \in Conns : Elements(inbox'[e]) \subseteq Elements(inbox[e])
  <2>1. inbox \in [Conns -> Seq(Messages)]
    BY DEF Types, NetTypes
  <2>2. Elements(Tail(inbox[c])) \subseteq Elements(inbox[c])
    BY <1>1, <2>1, TailWithin
  <2> QED
    BY <1>1, <2>1, <2>2
<1>4. Replies' \subseteq Replies
  BY <1>3, RepliesLess
<1> QED
  BY <1>1, <1>2, <1>4, WireKept DEF Calm

LEMMA ServerCalm ==
    ASSUME Types, OneRequest, SrvCompletes \/ SrvOtherStarts
    PROVE  Calm
<1>1. UNCHANGED <<call, wire, ran>>
  BY DEF SrvCompletes, SrvOtherStarts
<1>2. CallsStay
  BY <1>1 DEF CallsStay
<1>3. Replies' \subseteq Replies
  <2>1. turns + 1 \in MaybeTurn \/ SrvCompletes
    BY BoundAssumption DEF SrvOtherStarts, MaybeTurn, Turns, Types, NetTypes
  <2>2. running \in MaybeTurn
    BY DEF Types, NetTypes
  <2>3. CASE inbox' = inbox
    BY <2>3 DEF Replies
  <2>4. CASE inbox' = Told(<<Note("completed", running)>>, subscribed)
    BY <2>2, <2>4, ToldCalm
  <2>5. CASE SrvOtherStarts
    <3>1. inbox' = Told(<<Note("started", turns + 1)>>, subscribed) /\ turns + 1 \in MaybeTurn
      BY <2>5, BoundAssumption DEF SrvOtherStarts, MaybeTurn, Turns, Types, NetTypes
    <3> QED
      BY <3>1, ToldCalm
  <2> QED
    BY <2>3, <2>4, <2>5 DEF SrvCompletes
<1> QED
  BY <1>1, <1>2, <1>3, WireKept DEF Calm

\* A call goes on with a request: nothing of this try is on its way that could run
\* the message, and no answer to a request of this kind.
LEMMA SendSound ==
    ASSUME Types, Types', TryInv, NEW g \in Gens, NEW kind \in Kinds, NEW turn \in MaybeTurn,
           NEW c \in MaybeConn, Send(g, kind, turn, c), UNCHANGED <<inbox, ran, gen, retried>>,
           \/ call[g].step = "open" /\ kind \in {"read", "steer", "start"}
           \/ call[g].step = "read" /\ kind \in {"steer", "start"}
           \/ call[g].step = "steer" /\ call[g].answer = "refused" /\ kind \in {"resteer", "start"}
    PROVE  TryInv' /\ TriesLess /\ MovesLess
<1> DEFINE k == call[g]
           q == Request(g, kind, turn, c)
<1>1. k \in Calls /\ k.step # "idle" /\ call \in [Gens -> Calls]
  BY DEF Types, CallTypes
<1>2. /\ call'[g].step = kind /\ call'[g].msg = k.msg /\ call'[g].try = k.try
      /\ call'[g].answer = "none" /\ kind # "idle"
      /\ \A h \in Gens : h # g => call'[h] = call[h]
  <2>1. call' = [call EXCEPT ![g] = Asking(k, kind, turn, c)]
    BY DEF Send
  <2> QED
    BY <1>1, <2>1, AskingIs DEF Kinds
<1>3. /\ q.msg = k.msg /\ q.gen = g /\ q.try = k.try /\ q.kind = kind
      /\ wire' \subseteq wire \cup {q}
  BY DEF Request, Send
<1>4. \A m, h, t : h \in Gens => (CallTries(m, h, t)' <=> CallTries(m, h, t))
  BY <1>1, <1>2 DEF CallTries
<1>5. \A r \in wire : r.kind # "read" => ~Tries(r, k.msg, g, k.try)
  <2>1. ASSUME NEW r \in wire, r.kind # "read", Tries(r, k.msg, g, k.try)
        PROVE  FALSE
    <3>1. CallTries(r.msg, r.gen, r.try) /\ r.gen = g
      BY <1>1, <2>1 DEF Tries, CallTries
    <3>2. call[g].step = r.kind /\ call[g].answer = "none"
      BY <2>1, <3>1 DEF TryInv, OneRequest
    <3>3. r.kind \in Kinds
      BY RequestIs DEF Types, NetTypes
    <3> QED
      BY <2>1, <3>2, <3>3 DEF Kinds
  <2> QED
    BY <2>1
<1>6. \A x \in Replies : Tries(x.to, k.msg, g, k.try) =>
          /\ kind # "read" => x.to.kind # kind
          /\ kind \in {"read", "steer"} => x.to.kind = "read"
  BY DEF TryInv, OneRequest
<1>7. Replies' = Replies /\ ran' = ran /\ gen' = gen /\ retried' = retried /\ wire \subseteq Requests
  BY DEF Replies, Types, NetTypes
<1> HIDE DEF k, q
<1>8. TriesBounded'
  <2>1. g <= gen /\ k.try <= retried[k.msg]
    BY <1>1 DEF k, TryInv, TriesBounded, Types, CallTypes
  <2> QED
    BY <1>1, <1>2, <1>3, <1>7, <2>1 DEF TryInv, TriesBounded
<1>9. OneRequest'
  <2>1. ASSUME NEW r \in wire', NEW s \in wire', r.kind # "read", s.kind # "read",
               Tries(r, s.msg, s.gen, s.try)
        PROVE  r = s
    BY <1>3, <1>5, <2>1 DEF Tries, TryInv, OneRequest
  <2>2. ASSUME NEW r \in wire', r.kind # "read", CallTries(r.msg, r.gen, r.try)'
        PROVE  call'[r.gen].step = r.kind /\ call'[r.gen].answer = "none"
    <3>1. CASE r = q
      BY <1>2, <1>3, <3>1
    <3>2. CASE r \in wire
      <4>1. r.gen \in Gens /\ CallTries(r.msg, r.gen, r.try)
        BY <1>4, <1>7, <2>2, <3>2, RequestIs
      <4>2. r.gen # g
        BY <1>5, <2>2, <3>2, <4>1 DEF CallTries, Tries, k
      <4> QED
        BY <1>2, <2>2, <3>2, <4>1, <4>2 DEF TryInv, OneRequest
    <3> QED
      BY <1>3, <3>1, <3>2
  <2>3. ASSUME NEW r \in wire', r.kind # "read", NEW x \in Replies, Tries(x.to, r.msg, r.gen, r.try)
        PROVE  x.to.kind # r.kind
    <3>1. CASE r = q
      BY <1>3, <1>6, <2>3, <3>1
    <3>2. CASE r \in wire
      BY <2>3, <3>2 DEF TryInv, OneRequest
    <3> QED
      BY <1>3, <3>1, <3>2
  <2>4. ASSUME NEW h \in Gens, call'[h].step \in {"open", "read"},
               NEW x \in Replies, Tries(x.to, call'[h].msg, h, call'[h].try)
        PROVE  x.to.kind = "read"
    <3>1. CASE h = g
      BY <1>2, <1>6, <2>4, <3>1 DEF Kinds
    <3>2. CASE h # g
      BY <1>2, <2>4, <3>2 DEF TryInv, OneRequest
    <3> QED
      BY <3>1, <3>2
  <2>5. ASSUME NEW h \in Gens, call'[h].step = "steer",
               NEW x \in Replies, Tries(x.to, call'[h].msg, h, call'[h].try)
        PROVE  x.to.kind \notin {"resteer", "start"}
    <3>1. CASE h = g
      BY <1>2, <1>6, <2>5, <3>1
    <3>2. CASE h # g
      BY <1>2, <2>5, <3>2 DEF TryInv, OneRequest
    <3> QED
      BY <3>1, <3>2
  <2> QED
    BY <1>7, <2>1, <2>2, <2>3, <2>4, <2>5 DEF OneRequest, Tries
<1>10. AnswersTrue'
  BY <1>2, <1>7 DEF TryInv, AnswersTrue, Ran
<1>11. CallTries(k.msg, g, k.try)
  BY <1>1 DEF CallTries, k
<1>12. \A m, h, t : Tries(q, m, h, t) => m = k.msg /\ h = g /\ t = k.try
  BY <1>3 DEF Tries
<1>13. TriesLess
  BY <1>3, <1>4, <1>7, <1>11, <1>12 DEF TriesLess, Tried
<1>14. Moves(k.msg, g, k.try)
  BY <1>11 DEF Moves, k
<1>15. MovesLess
  <2>1. ASSUME NEW m \in Msgs, NEW h \in Gens, NEW t \in 0..MaxRetries, Moves(m, h, t)'
        PROVE  Moves(m, h, t)
    <3>1. CASE \E r \in wire' : r.kind # "read" /\ Tries(r, m, h, t)
      <4>1. CASE Tries(q, m, h, t)
        BY <1>12, <1>14, <4>1
      <4>2. CASE \E r \in wire : r.kind # "read" /\ Tries(r, m, h, t)
        BY <4>2 DEF Moves
      <4> QED
        BY <1>3, <3>1, <4>1, <4>2
    <3>2. CASE CallTries(m, h, t)' /\ ~\E r \in wire' : r.kind # "read" /\ Tries(r, m, h, t)
      <4>1. CallTries(m, h, t)
        BY <1>4, <3>2
      <4>2. CASE h = g
        BY <1>14, <4>1, <4>2 DEF CallTries, k
      <4>3. CASE h # g
        BY <1>2, <1>7, <2>1, <3>2, <4>1, <4>3 DEF Moves
      <4> QED
        BY <4>2, <4>3
    <3> QED
      BY <2>1, <3>1, <3>2 DEF Moves
  <2> QED
    BY <2>1 DEF MovesLess
<1> QED
  BY <1>8, <1>9, <1>10, <1>13, <1>15 DEF TryInv

\* A reply comes in: the call it is for has waited for it, so nothing of its kind is
\* on its way any more.
LEMMA ReplySound ==
    ASSUME Types, Types', TryInv, NEW c \in Conns, ReceiveReply(c)
    PROVE  TryInv' /\ TriesLess /\ MovesLess
<1>1. PICK x : x = Head(inbox[c])
  OBVIOUS
<1>2. /\ inbox[c] # <<>> /\ inbox' = [inbox EXCEPT ![c] = Tail(inbox[c])] /\ x.what = "reply"
      /\ UNCHANGED <<wire, ran, gen, retried>>
      /\ \A g \in Gens : call[g].answer # "none" => call[g].chunk > 0
  BY <1>1 DEF ReceiveReply, Receivable
<1>3. inbox[c] \in Seq(Messages)
  BY DEF Types, NetTypes
<1>4. x \in Replies /\ Replies' \subseteq Replies
  <2>1. Elements(Tail(inbox[c])) \subseteq Elements(inbox[c]) /\ x \in Elements(inbox[c])
    BY <1>1, <1>2, <1>3, TailWithin
  <2>2. \A e \in Conns : Elements(inbox'[e]) \subseteq Elements(inbox[e])
    BY <1>2, <2>1 DEF Types, NetTypes
  <2>3. Replies' \subseteq Replies
    BY <2>2, RepliesLess
  <2> QED
    BY <1>2, <2>1, <2>3 DEF Replies
<1>5. \A g \in Gens :
          /\ call'[g].step = call[g].step /\ call'[g].msg = call[g].msg /\ call'[g].try = call[g].try
          /\ IF IsFor(g, x.to) THEN call'[g].answer = x.answer ELSE call'[g].answer = call[g].answer
  <2>1. PICK n \in 0..MaxChunk :
           call' = [g \in Gens |-> IF IsFor(g, x.to) THEN Resumed(call[g], x, n) ELSE Chunked(call[g])]
    BY <1>1 DEF ReceiveReply
  <2>2. x.answer \in {"ok", "refused", "unknown"} /\ x.turn \in MaybeTurn
    BY <1>4, ReplyIs
  <2>3. call \in [Gens -> Calls]
    BY DEF Types, CallTypes
  <2>4. ASSUME NEW g \in Gens
        PROVE  /\ call'[g].step = call[g].step /\ call'[g].msg = call[g].msg /\ call'[g].try = call[g].try
               /\ IF IsFor(g, x.to) THEN call'[g].answer = x.answer ELSE call'[g].answer = call[g].answer
    <3>1. CASE IsFor(g, x.to)
      <4>1. call'[g] = Resumed(call[g], x, n) /\ call[g] \in Calls
        BY <2>1, <2>3, <3>1
      <4> QED
        BY <2>2, <3>1, <4>1, ResumedIs
    <3>2. CASE ~IsFor(g, x.to)
      <4>1. call'[g] = Chunked(call[g]) /\ call[g] \in Calls
        BY <2>1, <2>3, <3>2
      <4> QED
        BY <1>2, <3>2, <4>1, ChunkedIs
    <3> QED
      BY <3>1, <3>2
  <2> QED
    BY <2>4
<1>6. \A g \in Gens : IsFor(g, x.to) =>
          /\ call[g].answer = "none" /\ call[g].step = x.to.kind
          /\ Tries(x.to, call[g].msg, g, call[g].try)
  BY DEF IsFor, Tries
<1>7. \A m, g, t : g \in Gens => (CallTries(m, g, t)' <=> CallTries(m, g, t))
  BY <1>5 DEF CallTries
<1>8. TriesBounded'
  BY <1>2, <1>4, <1>5 DEF TryInv, TriesBounded
<1>9. OneRequest'
  <2>1. ASSUME NEW r \in wire', r.kind # "read", CallTries(r.msg, r.gen, r.try)'
        PROVE  call'[r.gen].step = r.kind /\ call'[r.gen].answer = "none"
    <3>1. r \in wire /\ r.gen \in Gens
      BY <1>2, RequestIs DEF Types, NetTypes
    <3>2. CallTries(r.msg, r.gen, r.try)
      BY <1>7, <2>1, <3>1
    <3>3. call[r.gen].step = r.kind /\ call[r.gen].answer = "none"
      BY <2>1, <3>1, <3>2 DEF TryInv, OneRequest
    <3>4. ~IsFor(r.gen, x.to)
      <4>1. Tries(x.to, r.msg, r.gen, r.try) => x.to.kind # r.kind
        BY <1>4, <2>1, <3>1 DEF TryInv, OneRequest
      <4> QED
        BY <1>6, <3>1, <3>2, <3>3, <4>1 DEF CallTries
    <3> QED
      BY <1>5, <3>1, <3>3, <3>4
  <2> QED
    BY <1>2, <1>4, <1>5, <2>1 DEF TryInv, OneRequest
<1>10. AnswersTrue'
  <2>1. ASSUME NEW g \in Gens, call'[g].answer = "ok", call'[g].step \in {"steer", "resteer", "start"}
        PROVE  \E i \in 1..Len(ran') : ran'[i].msg = call'[g].msg
    <3>1. Ran(call[g].msg)
      <4>1. CASE IsFor(g, x.to)
        <5>1. x.answer = "ok" /\ x.to.kind # "read" /\ x.to.msg = call[g].msg
          BY <1>5, <1>6, <2>1, <4>1 DEF Tries
        <5> QED
          BY <1>4, <5>1 DEF TryInv, AnswersTrue
      <4>2. CASE ~IsFor(g, x.to)
        BY <1>5, <2>1, <4>2 DEF TryInv, AnswersTrue
      <4> QED
        BY <4>1, <4>2
    <3> QED
      BY <1>2, <1>5, <3>1 DEF Ran
  <2> QED
    BY <1>2, <1>4, <2>1 DEF TryInv, AnswersTrue, Ran
<1>11. TriesLess
  BY <1>2, <1>4, <1>7 DEF TriesLess, Tried
<1>12. MovesLess
  <2>1. ASSUME NEW m \in Msgs, NEW g \in Gens, NEW t \in 0..MaxRetries, Moves(m, g, t)'
        PROVE  Moves(m, g, t)
    <3>1. CASE \E r \in wire' : r.kind # "read" /\ Tries(r, m, g, t)
      BY <1>2, <3>1 DEF Moves
    <3>2. CASE CallTries(m, g, t)' /\ ~\E r \in wire' : r.kind # "read" /\ Tries(r, m, g, t)
      <4>1. CallTries(m, g, t)
        BY <1>7, <3>2
      <4>2. CASE IsFor(g, x.to)
        <5>1. Tries(x.to, m, g, t) /\ call[g].answer = "none" /\ x.to.kind = call[g].step
          BY <1>6, <4>1, <4>2 DEF CallTries
        <5> QED
          BY <1>4, <1>5, <2>1, <3>2, <4>1, <4>2, <5>1 DEF Moves
      <4>3. CASE ~IsFor(g, x.to)
        BY <1>4, <1>5, <2>1, <3>2, <4>1, <4>3 DEF Moves
      <4> QED
        BY <4>2, <4>3
    <3> QED
      BY <2>1, <3>1, <3>2 DEF Moves
  <2> QED
    BY <2>1 DEF MovesLess
<1> QED
  BY <1>8, <1>9, <1>10, <1>11, <1>12 DEF TryInv

\* The head of the queue becomes a call.
LEMMA LaunchSound ==
    ASSUME Types, Types', TryInv, QueuedFresh, NEW n \in Msgs, n \in Queued,
           call' = [call EXCEPT ![gen] = CallFor(n)],
           UNCHANGED <<wire, inbox, ran, gen, retried>>
    PROVE  /\ TryInv'
           /\ \A m \in Msgs, g \in Gens, t \in 0..MaxRetries :
                 /\ Tried(m, g, t)' => Tried(m, g, t) \/ (m = n /\ g = gen /\ t = retried[n])
                 /\ Moves(m, g, t)' => Moves(m, g, t) \/ (m = n /\ g = gen /\ t = retried[n])
<1>1. gen \in Gens /\ call \in [Gens -> Calls] /\ retried[n] \in 0..MaxRetries
  BY DEF Types, ActorTypes, CallTypes, CountTypes
<1>2. /\ call'[gen].step = "open" /\ call'[gen].msg = n /\ call'[gen].try = retried[n]
      /\ call'[gen].answer = "none"
      /\ \A h \in Gens : h # gen => call'[h] = call[h]
  BY <1>1, CallForIs
<1>3. Replies' = Replies
  BY DEF Replies
<1>4. /\ \A r \in wire : ~Tries(r, n, gen, retried[n])
      /\ \A x \in Replies : ~Tries(x.to, n, gen, retried[n])
  <2>1. ~Tried(n, gen, retried[n])
    <3>1. Tried(n, gen, retried[n]) => retried[n] < retried[n]
      BY <1>1 DEF QueuedFresh
    <3> QED
      BY <1>1, <3>1
  <2> QED
    BY <2>1 DEF Tried
<1>5. \A m, g, t : g \in Gens =>
          (CallTries(m, g, t)' <=> IF g = gen THEN m = n /\ t = retried[n] ELSE CallTries(m, g, t))
  BY <1>2 DEF CallTries
<1>6. TriesBounded'
  <2>1. retried[n] <= retried[n]
    BY <1>1
  <2> QED
    BY <1>1, <1>2, <1>3, <2>1 DEF TryInv, TriesBounded
<1>7. OneRequest'
  <2>1. ASSUME NEW r \in wire, r.kind # "read", CallTries(r.msg, r.gen, r.try)'
        PROVE  call'[r.gen].step = r.kind /\ call'[r.gen].answer = "none"
    <3>1. r.gen \in Gens
      BY RequestIs DEF Types, NetTypes
    <3>2. r.gen # gen
      BY <1>4, <1>5, <2>1, <3>1 DEF Tries
    <3>3. CallTries(r.msg, r.gen, r.try)
      BY <1>5, <2>1, <3>1, <3>2
    <3> QED
      BY <1>2, <2>1, <3>1, <3>2, <3>3 DEF TryInv, OneRequest
  <2>2. ASSUME NEW h \in Gens, call'[h].step \in {"open", "read"},
               NEW x \in Replies, Tries(x.to, call'[h].msg, h, call'[h].try)
        PROVE  x.to.kind = "read"
    BY <1>2, <1>4, <2>2 DEF TryInv, OneRequest
  <2>3. ASSUME NEW h \in Gens, call'[h].step = "steer",
               NEW x \in Replies, Tries(x.to, call'[h].msg, h, call'[h].try)
        PROVE  x.to.kind \notin {"resteer", "start"}
    BY <1>2, <2>3 DEF TryInv, OneRequest
  <2> QED
    BY <1>3, <2>1, <2>2, <2>3 DEF TryInv, OneRequest
<1>8. AnswersTrue'
  BY <1>2, <1>3 DEF TryInv, AnswersTrue, Ran
<1>9. ASSUME NEW m \in Msgs, NEW g \in Gens, NEW t \in 0..MaxRetries
      PROVE  /\ Tried(m, g, t)' => Tried(m, g, t) \/ (m = n /\ g = gen /\ t = retried[n])
             /\ Moves(m, g, t)' => Moves(m, g, t) \/ (m = n /\ g = gen /\ t = retried[n])
  <2>1. CASE g = gen
    BY <1>3, <1>5, <2>1 DEF Tried, Moves
  <2>2. CASE g # gen
    BY <1>2, <1>3, <1>5, <2>2 DEF Tried, Moves
  <2> QED
    BY <2>1, <2>2
<1> QED
  BY <1>6, <1>7, <1>8, <1>9 DEF TryInv

\* The App Server handles the request r: ok says that it ran the message.
Handles(r, ok) ==
    /\ wire' = wire \ {r} /\ UNCHANGED <<call, gen, retried>>
    /\ IF ok THEN r.kind # "read" /\ ran' = Append(ran, [msg |-> r.msg, gen |-> r.gen])
             ELSE UNCHANGED ran
    /\ \A x \in Replies' :
          \/ x \in Replies
          \/ x.to = r /\ (r.kind # "read" => (x.answer = "ok" <=> ok))

LEMMA ReplyHandled ==
    ASSUME Types, NEW r \in wire, NEW answer \in {"ok", "refused", "unknown"}, NEW turn \in MaybeTurn,
           inbox' = Reply(r, answer, turn)
    PROVE  \A x \in Replies' : x \in Replies \/ (x.to = r /\ x.answer = answer)
<1>1. r \in Requests /\ r.conn \in MaybeConn
  BY RequestIs DEF Types, NetTypes
<1>2. CASE r.conn = NoConn
  BY <1>2 DEF Reply, Replies
<1>3. CASE r.conn # NoConn
  <2>1. PICK y : y = [what |-> "reply", to |-> r, answer |-> answer, turn |-> turn]
    OBVIOUS
  <2>2. y \in Messages /\ y.to = r /\ y.answer = answer
    BY <1>1, <2>1 DEF Messages
  <2>3. r.conn \in Conns /\ inbox[r.conn] \in Seq(Messages) /\ inbox \in [Conns -> Seq(Messages)]
    BY <1>1, <1>3 DEF MaybeConn, Types, NetTypes
  <2>4. inbox' = [inbox EXCEPT ![r.conn] = Append(inbox[r.conn], y)]
    BY <1>3, <2>1 DEF Reply
  <2>5. Elements(Append(inbox[r.conn], y)) = Elements(inbox[r.conn]) \cup {y}
    BY <2>2, <2>3, AppendWithin
  <2>6. \A c \in Conns : Elements(inbox'[c]) \subseteq Elements(inbox[c]) \cup {y}
    BY <2>3, <2>4, <2>5
  <2> QED
    BY <2>2, <2>6 DEF Replies
<1> QED
  BY <1>2, <1>3

LEMMA StartHandled ==
    ASSUME Types, NEW r \in wire, SrvStartsTurn(r)
    PROVE  \A x \in Replies' : x \in Replies \/ (x.to = r /\ x.answer = "ok")
<1>1. r \in Requests
  BY DEF Types, NetTypes
<1>2. PICK n : n = Note("started", turns + 1)
  OBVIOUS
<1>3. PICK y : y = [what |-> "reply", to |-> r, answer |-> "ok", turn |-> turns + 1]
  OBVIOUS
<1>4. turns + 1 \in MaybeTurn
  BY BoundAssumption DEF SrvStartsTurn, MaybeTurn, Turns, Types, NetTypes
<1>5. /\ n \in Messages /\ n.what # "reply" /\ y \in Messages /\ y.to = r /\ y.answer = "ok"
  BY <1>1, <1>2, <1>3, <1>4 DEF Messages, Note
<1>6. inbox' = [c \in Conns |-> IF c = r.conn THEN inbox[c] \o <<y>> \o <<n>>
                                ELSE Told(<<n>>, subscribed)[c]]
  BY <1>2, <1>3 DEF SrvStartsTurn
<1>7. ASSUME NEW c \in Conns
      PROVE  Elements(inbox'[c]) \subseteq Elements(inbox[c]) \cup {y, n}
  <2>1. inbox[c] \in Seq(Messages)
    BY DEF Types, NetTypes
  <2>2. PICK s \in Seq(Messages) : inbox[c] \o <<y>> = s /\ Elements(s) = Elements(inbox[c]) \cup {y}
    <3>1. PICK s : s = inbox[c] \o <<y>>
      OBVIOUS
    <3>2. s \in Seq(Messages) /\ Elements(s) = Elements(inbox[c]) \cup {y}
      BY <1>5, <2>1, <3>1, MoreWithin
    <3> QED
      BY <3>1, <3>2
  <2>3. Elements(s \o <<n>>) = Elements(s) \cup {n}
    BY <1>5, MoreWithin
  <2>4. Elements(inbox[c] \o <<n>>) = Elements(inbox[c]) \cup {n}
    BY <1>5, <2>1, MoreWithin
  <2>5. inbox'[c] \in {inbox[c] \o <<y>> \o <<n>>, inbox[c] \o <<n>>, inbox[c]}
    BY <1>6 DEF Told
  <2> QED
    BY <2>2, <2>3, <2>4, <2>5
<1> QED
  BY <1>5, <1>7 DEF Replies

LEMMA SrvHandled ==
    ASSUME Types, NEW r \in wire, SrvHandles(r)
    PROVE  Handles(r, TRUE) \/ Handles(r, FALSE)
<1>1. wire' = wire \ {r} /\ UNCHANGED <<call, gen, retried>> /\ running \in MaybeTurn /\ NoTurn \in MaybeTurn
  BY DEF SrvHandles, Types, NetTypes, MaybeTurn
<1>2. CASE SrvReads(r)
  <2>1. r.kind = "read" /\ ran' = ran
    BY <1>2 DEF SrvReads
  <2>2. PICK answer \in {"ok", "refused", "unknown"} : inbox' = Reply(r, answer, running)
    BY <1>2 DEF SrvReads
  <2>3. \A x \in Replies' : x \in Replies \/ x.to = r
    BY <1>1, <2>2, ReplyHandled
  <2> QED
    BY <1>1, <2>1, <2>3 DEF Handles
<1>3. CASE SrvSteers(r)
  <2>1. CASE /\ ran' = Append(ran, [msg |-> r.msg, gen |-> r.gen])
             /\ inbox' = Reply(r, "ok", running)
    <3>1. \A x \in Replies' : x \in Replies \/ (x.to = r /\ x.answer = "ok")
      BY <1>1, <2>1, ReplyHandled
    <3>2. r.kind # "read"
      BY <1>3 DEF SrvSteers
    <3> QED
      BY <1>1, <2>1, <3>1, <3>2 DEF Handles
  <2>2. CASE ran' = ran /\ inbox' = Reply(r, "refused", running)
    <3>1. \A x \in Replies' : x \in Replies \/ (x.to = r /\ x.answer = "refused")
      BY <1>1, <2>2, ReplyHandled
    <3> QED
      BY <1>1, <2>2, <3>1 DEF Handles
  <2> QED
    BY <1>3, <2>1, <2>2 DEF SrvSteers
<1>4. CASE SrvStartsTurn(r)
  <2>1. r.kind # "read" /\ ran' = Append(ran, [msg |-> r.msg, gen |-> r.gen])
    BY <1>4 DEF SrvStartsTurn
  <2> QED
    BY <1>1, <1>4, <2>1, StartHandled DEF Handles
<1>5. CASE SrvStartMeetsTurn(r)
  <2>1. CASE /\ ran' = Append(ran, [msg |-> r.msg, gen |-> r.gen])
             /\ inbox' = Reply(r, "ok", running)
    <3>1. \A x \in Replies' : x \in Replies \/ (x.to = r /\ x.answer = "ok")
      BY <1>1, <2>1, ReplyHandled
    <3>2. r.kind # "read"
      BY <1>5 DEF SrvStartMeetsTurn
    <3> QED
      BY <1>1, <2>1, <3>1, <3>2 DEF Handles
  <2>2. CASE ran' = ran /\ inbox' = Reply(r, "refused", NoTurn)
    <3>1. \A x \in Replies' : x \in Replies \/ (x.to = r /\ x.answer = "refused")
      BY <1>1, <2>2, ReplyHandled
    <3> QED
      BY <1>1, <2>2, <3>1 DEF Handles
  <2> QED
    BY <1>5, <2>1, <2>2 DEF SrvStartMeetsTurn
<1> QED
  BY <1>2, <1>3, <1>4, <1>5 DEF SrvHandles

\* What runs.
LEMMA RanMore ==
    ASSUME Types, NEW r \in Requests, ran' = Append(ran, [msg |-> r.msg, gen |-> r.gen])
    PROVE  /\ Len(ran) \in Nat /\ Len(ran') = Len(ran) + 1
           /\ \A i \in 1..Len(ran) : ran'[i] = ran[i]
           /\ ran'[Len(ran) + 1] = [msg |-> r.msg, gen |-> r.gen]
<1>1. PICK T : T = [msg : Msgs, gen : Gens]
  OBVIOUS
<1>2. PICK y : y = [msg |-> r.msg, gen |-> r.gen]
  OBVIOUS
<1>3. y \in T /\ ran \in Seq(T)
  BY <1>1, <1>2, RequestIs DEF Types, NetTypes
<1> QED
  BY <1>2, <1>3

LEMMA HandledSound ==
    ASSUME Types, Types', TryInv, NEW r \in wire, NEW ok \in BOOLEAN, Handles(r, ok)
    PROVE  /\ TryInv' /\ TriesLess /\ MovesLess
           /\ ok => Moves(r.msg, r.gen, r.try) /\ ~Moves(r.msg, r.gen, r.try)'
<1>1. /\ wire' = wire \ {r} /\ UNCHANGED <<call, gen, retried>> /\ r \in Requests
      /\ ok => r.kind # "read" /\ ran' = Append(ran, [msg |-> r.msg, gen |-> r.gen])
      /\ ~ok => ran' = ran
      /\ wire \subseteq Requests
  BY DEF Handles, Types, NetTypes
<1>2. \A x \in Replies' :
          \/ x \in Replies
          \/ x.to = r /\ (r.kind # "read" => (x.answer = "ok" <=> ok))
  BY DEF Handles
<1>3. /\ \A m : Ran(m) => \E i \in 1..Len(ran') : ran'[i].msg = m
      /\ ok => \E i \in 1..Len(ran') : ran'[i].msg = r.msg
      /\ \A i \in 1..Len(ran') :
            (i \in 1..Len(ran) /\ ran'[i] = ran[i]) \/ (ok /\ ran'[i].gen = r.gen)
  <2>1. CASE ok
    <3>1. /\ Len(ran) \in Nat /\ Len(ran') = Len(ran) + 1
          /\ \A i \in 1..Len(ran) : ran'[i] = ran[i]
          /\ ran'[Len(ran) + 1].msg = r.msg /\ ran'[Len(ran) + 1].gen = r.gen
      BY <1>1, <2>1, RanMore
    <3>2. /\ 1..Len(ran) \subseteq 1..Len(ran') /\ Len(ran) + 1 \in 1..Len(ran')
          /\ \A i \in 1..Len(ran') : i \in 1..Len(ran) \/ i = Len(ran) + 1
      BY <3>1
    <3>3. \A m : Ran(m) => \E i \in 1..Len(ran') : ran'[i].msg = m
      BY <3>1, <3>2 DEF Ran
    <3>4. \A i \in 1..Len(ran') :
              (i \in 1..Len(ran) /\ ran'[i] = ran[i]) \/ (ok /\ ran'[i].gen = r.gen)
      BY <2>1, <3>1, <3>2
    <3> QED
      BY <3>1, <3>2, <3>3, <3>4
  <2>2. CASE ~ok
    BY <1>1, <2>2 DEF Ran
  <2> QED
    BY <2>1, <2>2
<1>4. TriesBounded'
  BY <1>1, <1>2, <1>3 DEF TryInv, TriesBounded
<1>5. OneRequest'
  <2>1. ASSUME NEW q \in wire', q.kind # "read", NEW x \in Replies', Tries(x.to, q.msg, q.gen, q.try)
        PROVE  x.to.kind # q.kind
    <3>1. CASE x \in Replies
      BY <1>1, <2>1, <3>1 DEF TryInv, OneRequest
    <3>2. CASE x.to = r
      <4>1. Tries(r, q.msg, q.gen, q.try) /\ q \in wire /\ q # r
        BY <1>1, <2>1, <3>2
      <4>2. r.kind = "read"
        BY <2>1, <4>1 DEF TryInv, OneRequest
      <4> QED
        BY <2>1, <3>2, <4>2
    <3> QED
      BY <1>2, <3>1, <3>2
  <2>2. ASSUME NEW g \in Gens, call[g].step # "idle", Tries(r, call[g].msg, g, call[g].try)
        PROVE  r.kind = "read" \/ (call[g].step = r.kind /\ call[g].answer = "none")
    <3>1. CallTries(r.msg, r.gen, r.try) /\ r.gen = g
      BY <2>2 DEF CallTries, Tries
    <3> QED
      BY <3>1 DEF TryInv, OneRequest
  <2>3. ASSUME NEW g \in Gens, call'[g].step \in {"open", "read"},
               NEW x \in Replies', Tries(x.to, call'[g].msg, g, call'[g].try)
        PROVE  x.to.kind = "read"
    <3>1. CASE x \in Replies
      BY <1>1, <2>3, <3>1 DEF TryInv, OneRequest
    <3>2. CASE x.to = r
      <4>1. call[g].step \in {"open", "read"} /\ Tries(r, call[g].msg, g, call[g].try)
        BY <1>1, <2>3, <3>2
      <4>2. r.kind \in Kinds
        BY <1>1, RequestIs
      <4> QED
        BY <2>2, <3>2, <4>1, <4>2 DEF Kinds
    <3> QED
      BY <1>2, <3>1, <3>2
  <2>4. ASSUME NEW g \in Gens, call'[g].step = "steer",
               NEW x \in Replies', Tries(x.to, call'[g].msg, g, call'[g].try)
        PROVE  x.to.kind \notin {"resteer", "start"}
    BY <1>1, <1>2, <2>2, <2>4 DEF TryInv, OneRequest
  <2>5. /\ \A q, s \in wire' :
            q.kind # "read" /\ s.kind # "read" /\ Tries(q, s.msg, s.gen, s.try) => q = s
        /\ \A q \in wire' : q.kind # "read" /\ CallTries(q.msg, q.gen, q.try) =>
              call[q.gen].step = q.kind /\ call[q.gen].answer = "none"
    BY <1>1 DEF TryInv, OneRequest
  <2> QED
    BY <1>1, <2>1, <2>3, <2>4, <2>5 DEF OneRequest, CallTries, Tries
<1>6. AnswersTrue'
  <2>1. ASSUME NEW x \in Replies', x.answer = "ok", x.to.kind # "read"
        PROVE  \E i \in 1..Len(ran') : ran'[i].msg = x.to.msg
    BY <1>2, <1>3, <2>1 DEF TryInv, AnswersTrue
  <2>2. ASSUME NEW g \in Gens, call[g].answer = "ok", call[g].step \in {"steer", "resteer", "start"}
        PROVE  \E i \in 1..Len(ran') : ran'[i].msg = call[g].msg
    BY <1>3, <2>2 DEF TryInv, AnswersTrue
  <2> QED
    BY <1>1, <2>1, <2>2 DEF AnswersTrue, Ran
<1>7. TriesLess
  <2>1. \A m, g, t : CallTries(m, g, t)' <=> CallTries(m, g, t)
    BY <1>1 DEF CallTries
  <2>2. \A m, g, t : (\E x \in Replies' : Tries(x.to, m, g, t)) =>
            (\E x \in Replies : Tries(x.to, m, g, t)) \/ Tries(r, m, g, t)
    BY <1>2
  <2> QED
    BY <1>1, <2>1, <2>2 DEF TriesLess, Tried
<1>8. MovesLess
  <2>1. ASSUME NEW m \in Msgs, NEW g \in Gens, NEW t \in 0..MaxRetries, Moves(m, g, t)'
        PROVE  Moves(m, g, t)
    <3>1. CallTries(m, g, t)' <=> CallTries(m, g, t)
      BY <1>1 DEF CallTries
    <3>2. ASSUME NEW x \in Replies', Tries(x.to, m, g, t), x.to.kind = "steer", x.answer = "refused"
          PROVE  x \in Replies \/ (r.kind # "read" /\ Tries(r, m, g, t))
      BY <1>2, <3>2
    <3> QED
      BY <1>1, <2>1, <3>1, <3>2 DEF Moves
  <2> QED
    BY <2>1 DEF MovesLess
<1>9. ASSUME ok
      PROVE  Moves(r.msg, r.gen, r.try) /\ ~Moves(r.msg, r.gen, r.try)'
  <2>1. r.kind # "read" /\ Tries(r, r.msg, r.gen, r.try)
    BY <1>1, <1>9 DEF Tries
  <2>2. ~\E q \in wire' : q.kind # "read" /\ Tries(q, r.msg, r.gen, r.try)
    BY <1>1, <2>1 DEF TryInv, OneRequest
  <2>3. CallTries(r.msg, r.gen, r.try) => call[r.gen].step = r.kind /\ call[r.gen].answer = "none"
    BY <2>1 DEF TryInv, OneRequest
  <2>4. r.kind \in Kinds
    BY <1>1, RequestIs
  <2>5. ASSUME r.kind = "steer", NEW x \in Replies', Tries(x.to, r.msg, r.gen, r.try), x.to.kind = "steer"
        PROVE  x.answer # "refused"
    <3>1. x \notin Replies
      BY <2>1, <2>5 DEF TryInv, OneRequest
    <3> QED
      BY <1>2, <1>9, <2>1, <3>1
  <2>6. CallTries(r.msg, r.gen, r.try)' <=> CallTries(r.msg, r.gen, r.try)
    BY <1>1 DEF CallTries
  <2>7. ~Moves(r.msg, r.gen, r.try)'
    BY <1>1, <2>1, <2>2, <2>3, <2>4, <2>5, <2>6 DEF Moves, Kinds
  <2> QED
    BY <2>1, <2>7 DEF Moves
<1> QED
  BY <1>4, <1>5, <1>6, <1>7, <1>8, <1>9 DEF TryInv

\* The head of the queue is handed to startTurn.
Launch == Drain /\ DrainReady /\ Written

LEMMA OnwardStep ==
    ASSUME Types, Next
    PROVE  /\ Onward /\ (gen' = gen \/ Retire)
           /\ retried' = retried \/ \E m \in Msgs : Retry(m) /\ Written
<1>1. gen <= gen /\ gen <= gen + 1 /\ \A m \in Msgs : retried[m] <= retried[m]
  BY DEF Types, ActorTypes, CountTypes, Gens
<1>2. ASSUME NEW m \in Msgs, Retry(m), Written
      PROVE  \A n \in Msgs : retried[n] <= retried'[n]
  <2>1. retried' = [retried EXCEPT ![m] = retried[m] + 1]
    BY <1>2 DEF Retry, Written, WriteFails
  <2>2. \A n \in Msgs : retried[n] \in Int /\ retried[n] <= retried[n] + 1
    BY DEF Types, CountTypes
  <2> QED
    BY <1>1, <2>1, <2>2 DEF Types, CountTypes
<1>3. retried' = retried \/ \E m \in Msgs : Retry(m) /\ Written
  BY DEF Next, Phone, CallStep, OpenStep, SubmitKnown, SubmitPending, SubmitNew, Retry, Delete, Tick,
         OtherSaves, Drain, SubWakes, Resume, ReadHistory, OpenSet, Flush, Opened, HistoryTimesOut,
         OpenFails, CallWakes, ReadAnswered, Accepted, SteerRefused, Refused, RequestTimesOut,
         ReceiveReply, ReceiveNotification, ConnCloses, Disconnect, Reconcile, SrvHandles,
         SrvCompletes, SrvOtherStarts, Watch, Leave, Retire, Crash, Shutdown, Exit, Restart, GoesDown
<1>4. gen' = gen \/ Retire
  BY ZenonT(60) DEF Next, Phone, CallStep, OpenStep, SubmitKnown, SubmitPending, SubmitNew, Retry, Delete, Tick,
         OtherSaves, Drain, SubWakes, Resume, ReadHistory, OpenSet, Flush, Opened, HistoryTimesOut,
         OpenFails, CallWakes, ReadAnswered, Accepted, SteerRefused, Refused, RequestTimesOut,
         ReceiveReply, ReceiveNotification, ConnCloses, Disconnect, Reconcile, SrvHandles,
         SrvCompletes, SrvOtherStarts, Watch, Leave, Retire, Crash, Shutdown, Exit, Restart, GoesDown,
         Fail, Succeed
<1>5. gen <= gen'
  BY <1>1, <1>4 DEF Retire
<1> QED
  BY <1>1, <1>2, <1>3, <1>4, <1>5 DEF Onward

\* startTurn goes on with a request.
LEMMA AsksSound ==
    ASSUME Types, Types', TryInv, NEW g \in Gens,
           CallWakes(g) \/ ReadAnswered(g) \/ SteerRefused(g)
    PROVE  TryInv' /\ TriesLess /\ MovesLess
<1>1. /\ open.active \in MaybeTurn /\ open.conn \in MaybeConn /\ NoTurn \in MaybeTurn
      /\ call[g].found \in MaybeTurn /\ call[g].conn \in MaybeConn
  <2>1. call[g] \in Calls /\ open \in Opens
    BY DEF Types, CallTypes, LinkTypes
  <2> QED
    BY <2>1, Zenon DEF Calls, Opens, MaybeTurn
<1>2. UNCHANGED <<inbox, ran, gen, retried>>
  BY DEF CallWakes, ReadAnswered, SteerRefused
<1>3. {"read", "steer", "resteer", "start"} \subseteq Kinds
  BY DEF Kinds
<1>4. CASE CallWakes(g) /\ open = NoOpen
  <2>1. Still /\ gen' = gen /\ retried' = retried
    BY <1>4 DEF CallWakes, Still
  <2>2. Calm
    BY <2>1, StillCalm DEF TryInv
  <2>3. Onward
    BY <2>1 DEF Onward, Types, ActorTypes, CountTypes, Gens
  <2> QED
    BY <2>2, <2>3, CalmTries
<1>5. CASE CallWakes(g) /\ open # NoOpen
  <2>1. call[g].step = "open"
    BY <1>5 DEF CallWakes, Waits
  <2>2. PICK kind \in {"read", "steer", "start"}, turn \in MaybeTurn : Send(g, kind, turn, open.conn)
    BY <1>1, <1>5 DEF CallWakes, Deliver
  <2> QED
    BY <1>1, <1>2, <1>3, <2>1, <2>2, SendSound
<1>6. CASE ReadAnswered(g)
  <2>1. call[g].step = "read"
    BY <1>6 DEF ReadAnswered
  <2>2. PICK kind \in {"steer", "start"}, turn \in MaybeTurn : Send(g, kind, turn, call[g].conn)
    BY <1>1, <1>6 DEF ReadAnswered, Deliver
  <2> QED
    BY <1>1, <1>2, <1>3, <2>1, <2>2, SendSound
<1>7. CASE SteerRefused(g)
  <2>1. call[g].step = "steer" /\ call[g].answer = "refused"
    BY <1>7 DEF SteerRefused
  <2>2. PICK kind \in {"resteer", "start"}, turn \in MaybeTurn : Send(g, kind, turn, call[g].conn)
    BY <1>1, <1>7 DEF SteerRefused
  <2> QED
    BY <1>1, <1>2, <1>3, <2>1, <2>2, SendSound
<1> QED
  BY <1>4, <1>5, <1>6, <1>7

\* All steps but the launch of a message and those of the App Server.
LEMMA OtherTries ==
    ASSUME Types, Types', TryInv, Next, ~Launch, ~\E r \in wire : SrvHandles(r)
    PROVE  TryInv' /\ TriesLess /\ MovesLess /\ ran' = ran
<1>1. Onward
  BY OnwardStep
<1>2. ASSUME Calm
      PROVE  TryInv' /\ TriesLess /\ MovesLess /\ ran' = ran
  BY <1>1, <1>2, CalmTries DEF Calm
<1>3. CASE \/ \E m \in Msgs : Phone(m)
           \/ Tick \/ OtherSaves \/ Drain \/ OpenStep \/ HistoryTimesOut \/ Reconcile
           \/ Watch \/ Leave \/ Retire \/ Shutdown \/ Restart
           \/ \E w \in subWaits : SubWakes(w)
  <2>1. Still
    BY <1>3
    DEF Phone, SubmitKnown, SubmitPending, SubmitNew, Retry, Delete, Tick, OtherSaves, Drain, Launch,
        OpenStep, Resume, ReadHistory, OpenSet, Flush, Opened, HistoryTimesOut, Reconcile, Watch,
        Leave, Retire, Shutdown, Restart, SubWakes, Still
  <2> QED
    BY <1>2, <2>1, StillCalm DEF TryInv
<1>4. CASE \/ OpenFails \/ Crash \/ Exit
           \/ \E g \in Gens : Accepted(g) \/ Refused(g) \/ RequestTimesOut(g)
           \/ \E c \in Conns : ConnCloses(c) \/ Disconnect(c)
  BY <1>2, <1>4, EndsCalm DEF TryInv
<1>5. ASSUME NEW g \in Gens, CallWakes(g) \/ ReadAnswered(g) \/ SteerRefused(g)
      PROVE  TryInv' /\ TriesLess /\ MovesLess /\ ran' = ran
  BY <1>5, AsksSound DEF CallWakes, ReadAnswered, SteerRefused
<1>6. ASSUME NEW c \in Conns, ReceiveReply(c)
      PROVE  TryInv' /\ TriesLess /\ MovesLess /\ ran' = ran
  BY <1>6, ReplySound DEF ReceiveReply
<1>7. ASSUME NEW c \in Conns, ReceiveNotification(c)
      PROVE  TryInv' /\ TriesLess /\ MovesLess /\ ran' = ran
  BY <1>2, <1>7, NotificationCalm DEF TryInv
<1>8. CASE SrvCompletes \/ SrvOtherStarts
  BY <1>2, <1>8, ServerCalm DEF TryInv
<1> QED
  BY <1>3, <1>4, <1>5, <1>6, <1>7, <1>8 DEF Next, CallStep
-----------------------------------------------------------------------------
(***************************************************************************)
(* The order in which messages are tried.                                  *)
(***************************************************************************)
TouchedLess == \A m \in Msgs : Touched(m)' => Touched(m)

LEMMA TouchedStays ==
    ASSUME Types, TriesLess, UNCHANGED <<gen, ran>>
    PROVE  TouchedLess
BY DEF TouchedLess, Touched, TriesLess, RanNow, Types, ActorTypes

\* What the App Server runs has been tried.
LEMMA TouchedHandled ==
    ASSUME Types, TriesLess, NEW r \in wire, NEW ok \in BOOLEAN, Handles(r, ok)
    PROVE  TouchedLess
<1>1. r \in Requests /\ r.gen \in Gens /\ r.msg \in Msgs /\ r.try \in 0..MaxRetries /\ gen' = gen
  BY RequestIs DEF Types, NetTypes, Handles
<1>2. CASE ~ok
  BY <1>1, <1>2, TouchedStays DEF Handles
<1>3. CASE ok
  <2>1. /\ Len(ran) \in Nat /\ Len(ran') = Len(ran) + 1
        /\ \A i \in 1..Len(ran) : ran'[i] = ran[i]
        /\ ran'[Len(ran) + 1] = [msg |-> r.msg, gen |-> r.gen]
    BY <1>1, <1>3, RanMore DEF Handles
  <2>2. \A i \in 1..Len(ran') : i \in 1..Len(ran) \/ i = Len(ran) + 1
    BY <2>1
  <2>3. ASSUME NEW m \in Msgs, RanNow(m)'
        PROVE  Touched(m)
    <3>1. PICK i \in 1..Len(ran') : ran'[i] = [msg |-> m, gen |-> gen]
      BY <1>1, <2>3 DEF RanNow
    <3>2. CASE i \in 1..Len(ran)
      BY <2>1, <3>1, <3>2 DEF Touched, RanNow
    <3>3. CASE i = Len(ran) + 1
      <4>1. m = r.msg /\ gen = r.gen
        BY <2>1, <3>1, <3>3
      <4>2. Tries(r, m, gen, r.try)
        BY <4>1 DEF Tries
      <4> QED
        BY <1>1, <4>2 DEF Touched, Tried
    <3> QED
      BY <2>2, <3>2, <3>3
  <2>4. gen \in Gens
    BY DEF Types, ActorTypes
  <2> QED
    BY <1>1, <2>3, <2>4 DEF TouchedLess, Touched, TriesLess
<1> QED
  BY <1>2, <1>3

\* A journal that was written now, or not.
LEMMA KnowsSaved ==
    ASSUME Types', journal' = Saved', hub' # "down", HubKnows'
    PROVE  JournalKnows'
<1>1. /\ journal'.gen = gen' /\ journal'.queued = queue' /\ journal'.order = order'
      /\ journal'.starting = Starting' \cup uncertain'
      /\ journal'.delivered = delivered' /\ journal'.deleted = deleted'
  BY DEF Saved
<1>2. Kept' \cup Closed' = Known'
  BY <1>1 DEF Kept, Closed, Known, Pending
<1>3. Kept' \subseteq Msgs
  BY DEF Types, DiskTypes, Journals, Kept, Elements
<1> QED
  BY <1>1, <1>2, <1>3 DEF JournalKnows, HubKnows

LEMMA KnowsUnsaved ==
    ASSUME JournalKnows, TouchedLess, UNCHANGED <<journal, gen>>
    PROVE  JournalKnows'
BY DEF JournalKnows, TouchedLess, Kept, Closed

\* A step that tries nothing new, queues nothing and keeps what is known.
LEMMA OrderStays ==
    ASSUME Types, Types', OrderInv, TriesLess, TouchedLess, UNCHANGED <<gen, retried>>,
           hub' # "down" => hub # "down" /\ Known \subseteq Known',
           \A a, b \in Msgs : Before(order', a, b) => Before(order, a, b),
           Queued' \subseteq Queued,
           journal' = journal \/ (journal' = Saved' /\ hub' # "down")
    PROVE  OrderInv'
<1>1. HubKnows'
  BY DEF OrderInv, HubKnows, TouchedLess
<1>2. JournalKnows'
  BY <1>1, KnowsSaved, KnowsUnsaved DEF OrderInv
<1>3. QueuedFresh'
  <2>1. gen \in Gens /\ Queued \subseteq Msgs
    BY DEF Types, ActorTypes, DiskTypes, Journals, Queued, Left, Elements
  <2> QED
    BY <2>1 DEF OrderInv, QueuedFresh, TriesLess
<1> QED
  BY <1>1, <1>2, <1>3 DEF OrderInv

LEMMA QueuedUp ==
    ASSUME hub' # "down", hub # "down"
    PROVE  Queued' = Elements(queue') /\ Queued = Elements(queue)
BY DEF Queued

LEMMA QueuedKept ==
    ASSUME UNCHANGED <<queue, journal, gen>>, hub' = "down" <=> hub = "down"
    PROVE  Queued' = Queued
BY DEF Queued, Left, Closed

\* Steps of the sockets, the thread, the viewers and the App Server, and of a call
\* that goes on.
LEMMA OrderActorStays ==
    ASSUME QueueInv, QueueInv', OrderInv, TriesLess, TouchedLess, ActorStays, retried' = retried
    PROVE  OrderInv'
<1>1. UNCHANGED <<gen, queue, order, uncertain, delivered, deleted, journal>> /\ (hub' = "down" <=> hub = "down")
  BY DEF ActorStays
<1>2. Starting' = Starting
  BY DEF Starting, ActorStays, CallsGoOn, QueueInv, Types, ActorTypes
<1>3. Known' = Known /\ Queued' = Queued
  BY <1>1, <1>2, QueuedKept DEF Known, Pending
<1> QED
  BY <1>1, <1>3, OrderStays DEF QueueInv

LEMMA OrderFails ==
    ASSUME QueueInv, QueueInv', OrderInv, TriesLess, TouchedLess, NEW F, Fail(F), UNCHANGED <<hub, retried>>,
           hub # "down"
    PROVE  OrderInv'
<1>1. UNCHANGED <<gen, queue, order, delivered, deleted>>
  BY DEF Fail
<1>2. Starting \cup uncertain \subseteq Starting' \cup uncertain'
  BY DEF Fail, Starting, QueueInv, Types, ActorTypes
<1>3. Known \subseteq Known' /\ Queued' = Queued
  BY <1>1, <1>2, QueuedUp DEF Known, Pending
<1>4. journal' = journal \/ journal' = Saved'
  BY DEF Fail, WrittenOrNot, Written, WriteFails
<1> QED
  BY <1>1, <1>3, <1>4, OrderStays DEF QueueInv

LEMMA OrderSucceeds ==
    ASSUME QueueInv, QueueInv', OrderInv, TriesLess, TouchedLess, NEW g \in Gens, Succeed(g),
           UNCHANGED <<hub, retried>>, hub # "down"
    PROVE  OrderInv'
<1>1. UNCHANGED <<gen, queue, uncertain, deleted>> /\ call \in [Gens -> Calls]
  BY DEF Succeed, QueueInv, Types, CallTypes
<1>2. Starting \cup delivered \subseteq Starting' \cup delivered'
  BY <1>1 DEF Succeed, Starting, QueueInv, Types, ActorTypes
<1>3. Known \subseteq Known' /\ Queued' = Queued
  BY <1>1, <1>2, QueuedUp DEF Known, Pending
<1>4. journal' = journal \/ journal' = Saved'
  BY DEF Succeed, WrittenOrNot, Written, WriteFails
<1>5. \A a, b \in Msgs : Before(order', a, b) => Before(order, a, b)
  <2>1. order \in Seq(Msgs) /\ Injective(order) /\ (order' = order \/ order' = Without(order, call[g].msg))
    BY DEF Succeed, QueueInv, QueueSound, Types, ActorTypes
  <2> QED
    BY <2>1, BeforeWithout
<1> QED
  BY <1>1, <1>3, <1>4, <1>5, OrderStays DEF QueueInv

LEMMA OrderPhone ==
    ASSUME QueueInv, QueueInv', TryInv, OrderInv, TriesLess, TouchedLess, NEW m \in Msgs, Phone(m)
    PROVE  OrderInv'
<1>1. /\ queue \in Seq(Msgs) /\ order \in Seq(Msgs) /\ gen \in Gens /\ Injective(order) /\ Injective(queue)
      /\ QueueSound /\ retried \in [Msgs -> 0..MaxRetries]
  BY DEF QueueInv, QueueSound, Types, ActorTypes, CountTypes
<1>2. UNCHANGED <<gen, hub, call, ran>> /\ Starting' = Starting /\ hub # "down"
  BY DEF Phone, SubmitKnown, SubmitPending, SubmitNew, Retry, Delete, Event, Starting
<1>3. Types /\ Types' /\ Queued = Elements(queue) /\ Queued' = Elements(queue')
  BY <1>2, QueuedUp DEF QueueInv
<1>4. \A k \in Msgs : Touched(k)' => k \in Known /\ \A n \in Msgs : ~Before(order, n, k)
  BY <1>2 DEF OrderInv, HubKnows, TouchedLess
<1>5. CASE UNCHANGED <<queue, order, uncertain, delivered, deleted, journal, retried>>
  <2>1. ActorStays
    BY <1>2, <1>5 DEF ActorStays, CallsGoOn
  <2> QED
    BY <1>5, <2>1, OrderActorStays
<1>6. CASE SubmitNew(m) /\ Written
  <2>1. /\ m \notin Pending \cup deleted \cup delivered \cup uncertain
        /\ queue' = Append(queue, m) /\ order' = Append(order, m)
        /\ UNCHANGED <<uncertain, delivered, deleted, retried>> /\ journal' = Saved'
    BY <1>6 DEF SubmitNew, Written, WriteFails
  <2>2. Elements(queue') = Elements(queue) \cup {m}
    BY <1>1, <2>1, AppendWithin
  <2>3. Known' = Known \cup {m} /\ m \notin Known
    BY <1>2, <2>1, <2>2 DEF Known, Pending
  <2>4. HubKnows'
    <3>1. \A a, b : Before(order', a, b) => Before(order, a, b) \/ b = m
      BY <1>1, <2>1, BeforeAppend
    <3> QED
      BY <1>4, <2>3, <3>1 DEF HubKnows
  <2>5. JournalKnows'
    BY <1>2, <1>3, <2>1, <2>4, KnowsSaved
  <2>6. QueuedFresh'
    <3>1. \A t \in 0..MaxRetries : ~Tried(m, gen, t)
      BY <1>2, <2>3 DEF OrderInv, HubKnows, Touched
    <3>2. \A k \in Elements(queue), t \in 0..MaxRetries : Tried(k, gen, t) => t < retried[k]
      BY <1>3 DEF OrderInv, QueuedFresh
    <3>3. Elements(queue') \subseteq Msgs
      <4>1. Elements(queue) \subseteq Msgs
        BY <1>1 DEF Elements
      <4> QED
        BY <2>2, <4>1
    <3> QED
      BY <1>1, <1>2, <1>3, <2>1, <2>2, <3>1, <3>2, <3>3 DEF QueuedFresh, TriesLess
  <2> QED
    BY <2>4, <2>5, <2>6 DEF OrderInv
<1>7. CASE Retry(m) /\ Written
  <2>1. /\ m \in uncertain \ (deleted \cup delivered) /\ queue' = <<m>> \o queue
        /\ uncertain' = uncertain \ {m} /\ retried' = [retried EXCEPT ![m] = retried[m] + 1]
        /\ UNCHANGED <<order, delivered, deleted>> /\ journal' = Saved'
    BY <1>7 DEF Retry, Written, WriteFails
  <2>2. m \notin Elements(queue)
    BY <1>1, <2>1 DEF QueueSound
  <2>3. Elements(queue') = Elements(queue) \cup {m}
    BY <1>1, <2>1, <2>2, FrontElements
  <2>4. Known' = Known
    BY <1>2, <2>1, <2>3 DEF Known, Pending
  <2>5. HubKnows'
    BY <1>4, <2>1, <2>4 DEF HubKnows
  <2>6. JournalKnows'
    BY <1>2, <1>3, <2>1, <2>5, KnowsSaved
  <2>7. QueuedFresh'
    <3>1. \A k \in Elements(queue), t \in 0..MaxRetries : Tried(k, gen, t) => t < retried[k]
      BY <1>3 DEF OrderInv, QueuedFresh
    <3>2. ASSUME NEW t \in 0..MaxRetries, Tried(m, gen, t)
          PROVE  t <= retried[m]
      <4>1. CASE CallTries(m, gen, t)
        BY <1>1, <4>1 DEF TryInv, TriesBounded, CallTries
      <4>2. CASE \E r \in wire : Tries(r, m, gen, t)
        BY <4>2 DEF TryInv, TriesBounded, Tries
      <4>3. CASE \E x \in Replies : Tries(x.to, m, gen, t)
        <5>1. PICK x \in Replies : Tries(x.to, m, gen, t)
          BY <4>3
        <5>2. x.to.try <= retried[x.to.msg]
          BY DEF TryInv, TriesBounded
        <5> QED
          BY <5>1, <5>2 DEF Tries
      <4> QED
        BY <3>2, <4>1, <4>2, <4>3 DEF Tried
    <3>3. \A t \in 0..MaxRetries : t <= retried[m] => t < retried[m] + 1
      BY <1>1
    <3>4. \A k \in Msgs : retried'[k] = IF k = m THEN retried[m] + 1 ELSE retried[k]
      BY <1>1, <2>1
    <3>5. Elements(queue) \subseteq Msgs
      BY <1>1 DEF Elements
    <3> QED
      BY <1>1, <1>2, <1>3, <2>2, <2>3, <3>1, <3>2, <3>3, <3>4, <3>5 DEF QueuedFresh, TriesLess
  <2> QED
    BY <2>5, <2>6, <2>7 DEF OrderInv
<1>8. CASE Delete(m) /\ Written
  <2>1. /\ queue' = Without(queue, m) /\ order' = Without(order, m)
        /\ deleted' = deleted \cup {m} /\ UNCHANGED <<uncertain, delivered, retried>> /\ journal' = Saved'
    BY <1>8 DEF Delete, Written, WriteFails
  <2>2. Elements(queue') = Elements(queue) \ {m}
    BY <1>1, <2>1, WithoutElements
  <2>3. Known \subseteq Known'
    BY <1>2, <2>1, <2>2 DEF Known, Pending
  <2>4. \A a, b \in Msgs : Before(order', a, b) => Before(order, a, b)
    BY <1>1, <2>1, BeforeWithout
  <2> QED
    BY <1>2, <1>3, <2>1, <2>2, <2>3, <2>4, OrderStays
<1>9. \/ UNCHANGED <<queue, order, uncertain, delivered, deleted, journal, retried>>
      \/ (SubmitNew(m) \/ Retry(m) \/ Delete(m)) /\ Written
  BY DEF Phone, SubmitKnown, SubmitPending, SubmitNew, Retry, Delete, WriteFails
<1> QED
  BY <1>5, <1>6, <1>7, <1>8, <1>9

LEMMA OrderTick ==
    ASSUME QueueInv, QueueInv', OrderInv, TriesLess, TouchedLess,
           Tick \/ OtherSaves \/ (Drain /\ ~Launch)
    PROVE  OrderInv'
<1>1. UNCHANGED <<gen, hub, queue, order, uncertain, delivered, deleted, call, retried>>
  BY DEF Tick, OtherSaves, Drain, Launch
<1>2. journal' = journal \/ (journal' = Saved' /\ hub # "down")
  BY DEF Tick, OtherSaves, Drain, Launch, Event, Written, WriteFails
<1>3. CASE journal' = journal
  <2>1. ActorStays
    BY <1>1, <1>3 DEF ActorStays, CallsGoOn
  <2> QED
    BY <1>1, <2>1, OrderActorStays
<1>4. CASE journal' = Saved' /\ hub # "down"
  <2>1. Known' = Known
    BY <1>1 DEF Known, Pending, Starting
  <2>2. Queued' = Queued
    BY <1>1, <1>4, QueuedUp
  <2> QED
    BY <1>1, <1>4, <2>1, <2>2, OrderStays DEF QueueInv
<1> QED
  BY <1>2, <1>3, <1>4

\* Nothing is before the head.
LEMMA HeadFirst ==
    ASSUME NEW s \in Seq(Msgs), s # <<>>, Injective(s), NEW a
    PROVE  ~Before(s, a, Head(s))
<1>1. Len(s) \in Nat /\ 1 \in 1..Len(s) /\ Head(s) = s[1]
  OBVIOUS
<1>2. ASSUME NEW i \in 1..Len(s), NEW j \in 1..Len(s), i < j, s[j] = s[1]
      PROVE  FALSE
  <2>1. j = 1
    BY <1>1, <1>2 DEF Injective
  <2> QED
    BY <1>1, <1>2, <2>1
<1> QED
  BY <1>1, <1>2 DEF Before

LEMMA OrderLaunch ==
    ASSUME QueueInv, QueueInv', TryInv, OrderInv, Launch, NEW n, n = Head(queue),
           \A m \in Msgs, g \in Gens, t \in 0..MaxRetries :
               Tried(m, g, t)' => Tried(m, g, t) \/ (m = n /\ g = gen /\ t = retried[n])
    PROVE  OrderInv'
<1>1. /\ queue \in Seq(Msgs) /\ order \in Seq(Msgs) /\ Injective(order) /\ Injective(queue) /\ gen \in Gens
      /\ call \in [Gens -> Calls]
  BY DEF QueueInv, QueueSound, Types, ActorTypes, CallTypes
<1>2. /\ queue # <<>> /\ hub # "down" /\ call[gen].step = "idle" /\ Head(order) = n
      /\ queue' = Tail(queue) /\ call' = [call EXCEPT ![gen] = CallFor(n)]
      /\ UNCHANGED <<gen, hub, order, uncertain, delivered, deleted, ran, retried>> /\ journal' = Saved'
  BY DEF Launch, Drain, DrainReady, Written, WriteFails
<1>3. n \in Msgs /\ n \in Elements(queue) /\ Elements(queue') = Elements(queue) \ {n}
  BY <1>1, <1>2, TailElements
<1>4. /\ Queued = Elements(queue) /\ Queued' = Elements(queue)  \ {n}
      /\ n \in Elements(order) /\ order # <<>>
  BY <1>2, <1>3, QueuedUp, SMTT(60) DEF QueueInv, QueueSound, Pending, Elements
<1>5. Known \subseteq Known' /\ n \in Known'
  <2>1. CallFor(n).step # "idle" /\ CallFor(n).msg = n
    BY <1>3, CallForIs DEF QueueInv, Types, CountTypes
  <2>2. Starting = {} /\ Starting' = {n}
    BY <1>1, <1>2, <2>1 DEF Starting
  <2> QED
    BY <1>2, <1>3, <2>2 DEF Known, Pending
<1>6. \A m \in Msgs : Touched(m)' => Touched(m) \/ m = n
  BY <1>1, <1>2 DEF Touched, RanNow
<1>7. HubKnows'
  <2>1. \A a : ~Before(order, a, n)
    BY <1>1, <1>2, <1>4, HeadFirst
  <2> QED
    BY <1>2, <1>5, <1>6, <2>1 DEF OrderInv, HubKnows
<1>8. JournalKnows'
  BY <1>2, <1>7, KnowsSaved DEF QueueInv
<1>9. QueuedFresh'
  <2>1. Elements(queue) \subseteq Msgs
    BY <1>1 DEF Elements
  <2> QED
    BY <1>1, <1>2, <1>4, <2>1 DEF OrderInv, QueuedFresh
<1> QED
  BY <1>7, <1>8, <1>9 DEF OrderInv

\* Nothing is tried for an actor that is still to come.
LEMMA NotYetTried ==
    ASSUME Types, TryInv, gen + 1 \in Gens, NEW m \in Msgs
    PROVE  /\ \A t \in 0..MaxRetries : ~Tried(m, gen + 1, t)
           /\ \A i \in 1..Len(ran) : ran[i] # [msg |-> m, gen |-> gen + 1]
<1>1. gen \in Int /\ ~(gen + 1 <= gen)
  BY DEF Types, ActorTypes, Gens
<1>2. ASSUME NEW t \in 0..MaxRetries, Tried(m, gen + 1, t)
      PROVE  FALSE
  <2>1. CASE CallTries(m, gen + 1, t)
    BY <1>1, <2>1 DEF CallTries, Types, CallTypes
  <2>2. CASE \E r \in wire : Tries(r, m, gen + 1, t)
    BY <1>1, <2>2 DEF TryInv, TriesBounded, Tries
  <2>3. CASE \E x \in Replies : Tries(x.to, m, gen + 1, t)
    <3>1. PICK x \in Replies : Tries(x.to, m, gen + 1, t)
      BY <2>3
    <3>2. x.to.gen <= gen
      BY DEF TryInv, TriesBounded
    <3> QED
      BY <1>1, <3>1, <3>2 DEF Tries
  <2> QED
    BY <1>2, <2>1, <2>2, <2>3 DEF Tried
<1>3. ASSUME NEW i \in 1..Len(ran), ran[i] = [msg |-> m, gen |-> gen + 1]
      PROVE  FALSE
  <2>1. ran[i].gen = gen + 1
    BY <1>3
  <2>2. ran[i].gen <= gen
    BY DEF TryInv, TriesBounded
  <2> QED
    BY <1>1, <2>1, <2>2
<1> QED
  BY <1>2, <1>3

LEMMA OrderRetire ==
    ASSUME QueueInv, QueueInv', TryInv, OrderInv, TriesLess, ran' = ran, Retire
    PROVE  OrderInv'
<1>1. gen' = gen + 1 /\ gen + 1 \in Gens /\ queue' = <<>> /\ hub' # "down"
  BY BoundAssumption DEF Retire, Event, Gens, QueueInv, Types, ActorTypes
<1>2. ASSUME NEW m \in Msgs
      PROVE  ~Touched(m)'
  <2>1. PICK g \in Gens : g = gen + 1
    BY <1>1
  <2>2. \A t \in 0..MaxRetries : ~Tried(m, g, t)
    BY <1>1, <2>1, NotYetTried DEF QueueInv
  <2>3. \A t \in 0..MaxRetries : ~Tried(m, g, t)'
    BY <2>2 DEF TriesLess
  <2>4. \A i \in 1..Len(ran) : ran[i] # [msg |-> m, gen |-> gen + 1]
    BY <1>1, NotYetTried DEF QueueInv
  <2>5. gen' = g /\ ran' = ran
    BY <1>1, <2>1
  <2>6. ~RanNow(m)'
    BY <1>1, <2>4, <2>5 DEF RanNow
  <2> QED
    BY <2>3, <2>5, <2>6 DEF Touched
<1>3. Queued' = {}
  BY <1>1 DEF Queued, Elements
<1> QED
  BY <1>2, <1>3 DEF OrderInv, HubKnows, JournalKnows, QueuedFresh

\* The hub ends, having written its journal or not.
LEMMA OrderEnds ==
    ASSUME QueueInv, QueueInv', OrderInv, TriesLess, TouchedLess, Crash \/ Exit, hub # "down"
    PROVE  OrderInv'
<1>1. /\ hub' = "down" /\ UNCHANGED <<gen, retried>> /\ order' = <<>> /\ journal' \in {journal, Saved}
      /\ gen \in Gens
  BY DEF Crash, Exit, GoesDown, QueueInv, Types, ActorTypes
<1>2. \A a, b \in Msgs : ~Before(order', a, b)
  BY <1>1 DEF Before
<1>3. CASE journal' = journal
  <2>1. Queued' \subseteq Queued
    BY <1>1, <1>3 DEF QueueInv, JournalSound, Queued, Left, Closed
  <2> QED
    BY <1>1, <1>2, <1>3, <2>1, OrderStays DEF QueueInv
<1>4. CASE journal' = Saved
  <2>1. /\ journal'.gen = gen /\ journal'.queued = queue /\ journal'.order = order
        /\ journal'.starting = Starting \cup uncertain
        /\ journal'.delivered = delivered /\ journal'.deleted = deleted
    BY <1>4 DEF Saved
  <2>2. Kept' \cup Closed' = Known /\ Kept' \subseteq Msgs
    BY <2>1 DEF Kept, Closed, Known, Pending, Elements, QueueInv, Types, DiskTypes, Journals
  <2>3. HubKnows'
    BY <1>1, <1>2 DEF HubKnows
  <2>4. JournalKnows'
    BY <1>1, <2>1, <2>2 DEF JournalKnows, OrderInv, HubKnows, TouchedLess
  <2>5. QueuedFresh'
    <3>1. Queued' \subseteq Queued /\ Queued \subseteq Msgs
      <4>1. Queued = Elements(queue) /\ Queued \subseteq Msgs
        BY DEF Queued, Elements, QueueInv, Types, ActorTypes
      <4>2. Queued' \subseteq Elements(queue)
        BY <1>1, <2>1 DEF Queued, Left
      <4> QED
        BY <4>1, <4>2
    <3> QED
      BY <1>1, <3>1 DEF OrderInv, QueuedFresh, TriesLess
  <2> QED
    BY <2>3, <2>4, <2>5 DEF OrderInv
<1> QED
  BY <1>1, <1>3, <1>4

\* The order after a restart is that of the journal.
LEMMA RestoredBefore ==
    ASSUME QueueInv, NEW S, S \subseteq Kept, NEW s \in Restore(S), NEW a, NEW b, Before(s, a, b)
    PROVE  a \in S /\ b \in S /\ Before(journal.order, a, b)
<1>1. DiskTypes /\ KeptListed /\ Injective(journal.order) /\ journal.order \in Seq(Msgs)
  BY DEF QueueInv, JournalSound, Types, DiskTypes, Journals
<1>2. Elements(s) = S
  BY <1>1, RestoreTypes
<1>3. a \in S /\ b \in S
  BY <1>2, BeforeElements
<1>4. S \subseteq Elements(journal.order)
  BY <1>1 DEF KeptListed
<1>5. IsFiniteSet(S)
  BY <1>1, <1>4, FiniteElements, FS_Subset
<1>6. Position(journal.order, a) < Position(journal.order, b)
  BY <1>5, BeforeSorted DEF Restore
<1> QED
  BY <1>1, <1>3, <1>4, <1>6, BeforePosition

LEMMA OrderRestart ==
    ASSUME QueueInv, QueueInv', OrderInv, TriesLess, TouchedLess, retried' = retried, Restart
    PROVE  OrderInv'
<1>1. /\ hub = "down" /\ hub' = "up" /\ gen' = gen /\ gen \in Gens
      /\ journal.gen = gen => journal' = journal /\ delivered' = journal.delivered /\ deleted' = journal.deleted
  BY DEF Restart, QueueInv, Types, ActorTypes
<1>2. /\ Elements(queue') = Requeued /\ uncertain' = Unsettled
      /\ order' \in Restore(Requeued \cup Unsettled)
      /\ Requeued \cup Unsettled \subseteq Kept
  BY Restored DEF QueueInv, Types, JournalSound, Requeued, Unsettled, Left, Kept
<1>3. Queued' = Queued /\ Queued \subseteq Msgs
  <2>1. Queued' = Elements(queue') /\ Queued = Requeued
    BY <1>1 DEF Queued, Requeued
  <2>2. queue' \in Seq(Msgs)
    BY DEF QueueInv, Types, ActorTypes
  <2>3. Elements(queue') \subseteq Msgs
    BY <2>2 DEF Elements
  <2> QED
    BY <1>2, <2>1, <2>3
<1>4. QueuedFresh'
  BY <1>1, <1>3 DEF OrderInv, QueuedFresh, TriesLess
<1>5. CASE journal.gen # gen
  <2>1. \A m \in Msgs : ~Touched(m)'
    BY <1>5 DEF OrderInv, JournalKnows, TouchedLess
  <2> QED
    BY <1>4, <2>1 DEF OrderInv, HubKnows, JournalKnows
<1>6. CASE journal.gen = gen
  <2>1. Requeued \cup Unsettled = Kept \ Closed
    BY <1>6 DEF Requeued, Unsettled, Left, Kept
  <2>2. Kept \cup Closed \subseteq Known'
    BY <1>1, <1>2, <1>6, <2>1 DEF Known, Pending, Closed
  <2>3. ASSUME NEW m \in Msgs, Touched(m)'
        PROVE  m \in Known' /\ \A n \in Msgs : ~Before(order', n, m)
    <3>1. /\ m \in Kept \cup Closed
          /\ m \in Kept \ Closed => \A n \in Kept \ Closed : ~Before(journal.order, n, m)
      BY <2>3 DEF OrderInv, JournalKnows, TouchedLess
    <3>2. \A n : Before(order', n, m) => n \in Kept \ Closed /\ m \in Kept \ Closed /\ Before(journal.order, n, m)
      BY <1>2, <2>1, RestoredBefore
    <3> QED
      BY <2>2, <3>1, <3>2
  <2>4. HubKnows'
    BY <2>3 DEF HubKnows
  <2>5. JournalKnows'
    BY <1>1, <1>6, KnowsUnsaved DEF OrderInv
  <2> QED
    BY <1>4, <2>4, <2>5 DEF OrderInv
<1> QED
  BY <1>5, <1>6

\* Steps but the launch and those of the App Server.
LEMMA OrderStep ==
    ASSUME QueueInv, QueueInv', TryInv, OrderInv, Next, ~Launch, ~\E r \in wire : SrvHandles(r)
    PROVE  TryInv' /\ OrderInv'
<1>1. Types /\ Types' /\ TryInv' /\ TriesLess /\ MovesLess /\ ran' = ran
  BY OtherTries DEF QueueInv
<1>2. Retire \/ (gen' = gen /\ TouchedLess)
  BY <1>1, OnwardStep, TouchedStays
<1>3. retried' = retried \/ \E m \in Msgs : Retry(m) /\ Written
  BY <1>1, OnwardStep
<1>4. ASSUME NEW m \in Msgs, Retry(m)
      PROVE  OrderInv'
  <2>1. Phone(m) /\ gen' = gen
    BY <1>4 DEF Phone, Retry, Written, WriteFails
  <2>2. gen # gen + 1
    BY <1>1 DEF Types, ActorTypes, Gens
  <2>3. TouchedLess
    BY <1>2, <2>1, <2>2 DEF Retire
  <2> QED
    BY <1>1, <2>1, <2>3, OrderPhone
<1>5. CASE Retire
  BY <1>1, <1>5, OrderRetire
<1>6. CASE gen' = gen /\ TouchedLess /\ retried' = retried
  <2>1. CASE \E m \in Msgs : Phone(m)
    BY <1>1, <1>6, <2>1, OrderPhone
  <2>2. CASE Tick \/ OtherSaves \/ Drain
    BY <1>1, <1>6, <2>2, OrderTick
  <2>3. CASE \/ OpenStep \/ HistoryTimesOut \/ Reconcile \/ Watch \/ Leave \/ Shutdown
             \/ SrvCompletes \/ SrvOtherStarts
             \/ \E w \in subWaits : SubWakes(w)
    <3>1. ActorStays
      BY <2>3
      DEF OpenStep, Resume, ReadHistory, OpenSet, Flush, Opened, HistoryTimesOut, Reconcile,
          Watch, Leave, Shutdown, SrvCompletes, SrvOtherStarts, SubWakes, ActorStays, CallsGoOn
    <3> QED
      BY <1>1, <1>6, <3>1, OrderActorStays
  <2>4. CASE \/ \E g \in Gens : CallWakes(g) \/ ReadAnswered(g) \/ SteerRefused(g)
             \/ \E c \in Conns : ReceiveReply(c) \/ ReceiveNotification(c)
    <3>1. CallsGoOn
      BY <1>1, <2>4, GoingOn
    <3>2. ActorStays
      BY <2>4, <3>1
      DEF CallWakes, ReadAnswered, SteerRefused, ReceiveReply, ReceiveNotification, ActorStays
    <3> QED
      BY <1>1, <1>6, <3>2, OrderActorStays
  <2>5. ASSUME NEW g \in Gens, Accepted(g)
        PROVE  OrderInv'
    <3>1. Succeed(g) /\ hub' = hub /\ call[g].step # "idle"
      BY <2>5 DEF Accepted
    <3>2. hub # "down"
      BY <3>1 DEF QueueInv, NoCallDown
    <3> QED
      BY <1>1, <1>6, <3>1, <3>2, OrderSucceeds
  <2>6. ASSUME NEW g \in Gens, Refused(g) \/ RequestTimesOut(g)
        PROVE  OrderInv'
    <3>1. call[g].step # "idle" /\ Fail({g}) /\ hub' = hub
      BY <2>6 DEF Refused, RequestTimesOut, Awaits, Kinds
    <3>2. hub # "down"
      BY <3>1 DEF QueueInv, NoCallDown
    <3> QED
      BY <1>1, <1>6, <3>1, <3>2, OrderFails
  <2>7. CASE OpenFails \/ \E c \in Conns : ConnCloses(c) \/ Disconnect(c)
    <3>1. hub' = hub /\ hub # "down" /\ \E F : Fail(F)
      BY <2>7 DEF OpenFails, ConnCloses, Disconnect, Event
    <3> QED
      BY <1>1, <1>6, <3>1, OrderFails
  <2>8. CASE Crash \/ Exit
    <3>1. hub # "down"
      BY <2>8 DEF Crash, Exit
    <3> QED
      BY <1>1, <1>6, <2>8, <3>1, OrderEnds
  <2>9. CASE Restart
    BY <1>1, <1>6, <2>9, OrderRestart
  <2> QED
    BY <1>1, <1>5, <2>1, <2>2, <2>3, <2>4, <2>5, <2>6, <2>7, <2>8, <2>9 DEF Next, CallStep
<1> QED
  BY <1>1, <1>2, <1>3, <1>4, <1>5, <1>6

\* The queue, the tries and their order.
TurnInv == QueueInv /\ TryInv /\ OrderInv

LEMMA TurnInit ==
    ASSUME Init
    PROVE  TurnInv
<1>1. QueueInv /\ gen = 1 /\ ran = <<>> /\ wire = {} /\ call = [g \in Gens |-> NoCall] /\ gen \in Gens
  BY QueueInit DEF Init, QueueInv, Types, ActorTypes
<1>2. Replies = {}
  BY DEF Init, Replies, Elements
<1>3. \A g \in Gens : call[g].step = "idle" /\ call[g].answer = "none"
  BY <1>1, NullRecords
<1>4. TryInv
  BY <1>1, <1>2, <1>3 DEF TryInv, TriesBounded, OneRequest, AnswersTrue
<1>5. \A m \in Msgs, t \in 0..MaxRetries : ~Tried(m, gen, t)
  BY <1>1, <1>2, <1>3 DEF Tried, CallTries
<1>6. \A m \in Msgs : ~Touched(m)
  BY <1>1, <1>5 DEF Touched, RanNow
<1>7. Queued = {}
  BY DEF Init, Queued, Elements
<1>8. OrderInv
  BY <1>6, <1>7 DEF OrderInv, HubKnows, JournalKnows, QueuedFresh
<1> QED
  BY <1>1, <1>4, <1>8 DEF TurnInv

\* The head of the queue is tried: nothing else is new.
LEMMA LaunchTries ==
    ASSUME TurnInv, Types', Launch
    PROVE  /\ TryInv' /\ Head(queue) \in Msgs /\ Head(queue) \in Queued
           /\ \A m \in Msgs, g \in Gens, t \in 0..MaxRetries :
                 /\ Tried(m, g, t)' => Tried(m, g, t) \/ (m = Head(queue) /\ g = gen /\ t = retried[Head(queue)])
                 /\ Moves(m, g, t)' => Moves(m, g, t) \/ (m = Head(queue) /\ g = gen /\ t = retried[Head(queue)])
<1>1. /\ queue \in Seq(Msgs) /\ queue # <<>> /\ hub # "down"
      /\ call' = [call EXCEPT ![gen] = CallFor(Head(queue))]
      /\ UNCHANGED <<wire, inbox, ran, gen, retried>>
  BY DEF Launch, Drain, DrainReady, Written, WriteFails, TurnInv, QueueInv, Types, ActorTypes
<1>2. PICK n : n = Head(queue)
  OBVIOUS
<1>3. n \in Elements(queue) /\ n \in Msgs
  BY <1>1, <1>2, TailWithin
<1>4. n \in Queued
  BY <1>1, <1>3 DEF Queued
<1> QED
  BY <1>1, <1>2, <1>3, <1>4, LaunchSound DEF TurnInv, QueueInv, OrderInv

LEMMA TurnStep ==
    ASSUME TurnInv, [Next]_vars
    PROVE  TurnInv'
<1>1. QueueInv' /\ Types /\ Types'
  BY QueueStep DEF TurnInv, QueueInv
<1>2. CASE UNCHANGED vars
  <2>1. Still /\ ActorStays /\ UNCHANGED <<gen, retried, ran>>
    BY <1>2 DEF vars, Still, ActorStays, CallsGoOn
  <2>2. Onward
    BY <1>1, <2>1 DEF Onward, Types, ActorTypes, CountTypes, Gens
  <2>3. TryInv' /\ TriesLess
    BY <1>1, <2>1, <2>2, StillCalm, CalmTries DEF TurnInv, TryInv
  <2> QED
    BY <1>1, <2>1, <2>3, TouchedStays, OrderActorStays DEF TurnInv
<1>3. CASE Launch
  <2>1. PICK n : n = Head(queue)
    OBVIOUS
  <2>2. /\ TryInv' /\ n \in Msgs
        /\ \A m \in Msgs, g \in Gens, t \in 0..MaxRetries :
               Tried(m, g, t)' => Tried(m, g, t) \/ (m = n /\ g = gen /\ t = retried[n])
    BY <1>1, <1>3, <2>1, LaunchTries
  <2> QED
    BY <1>1, <1>3, <2>1, <2>2, OrderLaunch DEF TurnInv
<1>4. ASSUME NEW r \in wire, SrvHandles(r)
      PROVE  TurnInv'
  <2>1. PICK ok \in BOOLEAN : Handles(r, ok)
    BY <1>1, <1>4, SrvHandled
  <2>2. TryInv' /\ TriesLess /\ TouchedLess
    BY <1>1, <2>1, HandledSound, TouchedHandled DEF TurnInv
  <2>3. ActorStays /\ retried' = retried
    BY <1>4 DEF SrvHandles, ActorStays, CallsGoOn
  <2> QED
    BY <1>1, <2>2, <2>3, OrderActorStays DEF TurnInv
<1>5. CASE Next /\ ~Launch /\ ~\E r \in wire : SrvHandles(r)
  BY <1>1, <1>5, OrderStep DEF TurnInv
<1> QED
  BY <1>2, <1>3, <1>4, <1>5

\* Every reachable state: what is tried, what has run and what is known of it.
THEOREM TurnInvariant == Spec => []TurnInv
BY TurnInit, TurnStep, PTL DEF Spec

\* Messages run in the order they were submitted in: none that runs has one before it
\* that is still queued or uncertain, also when a retry, a restart or a late request
\* of an earlier try comes in between (the head test of drainCodexQueue).
THEOREM TurnsInOrder == Spec => []InOrder
<1>1. ASSUME TurnInv
      PROVE  InOrder
  <2>1. order \in Seq(Msgs)
    BY <1>1 DEF TurnInv, QueueInv, Types, ActorTypes
  <2>2. ASSUME NEW i \in 1..Len(order), NEW j \in 1..Len(order), i < j, RanNow(order[j])
        PROVE  FALSE
    <3>1. order[i] \in Msgs /\ order[j] \in Msgs /\ Before(order, order[i], order[j])
      BY <2>1, <2>2 DEF Before
    <3> QED
      BY <1>1, <2>2, <3>1 DEF TurnInv, OrderInv, HubKnows, Touched
  <2> QED
    BY <2>2 DEF InOrder
<1> QED
  BY <1>1, TurnInvariant, PTL
-----------------------------------------------------------------------------
(***************************************************************************)
(* Receipts: what is called delivered has run.                             *)
(***************************************************************************)
Receipt(m) == m \in delivered \cup journal.delivered \/ told[m] \in {"started", "duplicate"}

\* What has run has run.
RanStays == \A m \in Msgs : Ran(m) => Ran(m)'

LEMMA RanHandled ==
    ASSUME Types, NEW r \in wire, NEW ok \in BOOLEAN, Handles(r, ok)
    PROVE  RanStays
<1>1. CASE ~ok
  BY <1>1 DEF Handles, RanStays, Ran
<1>2. CASE ok
  <2>1. r \in Requests
    BY DEF Types, NetTypes
  <2>2. \A i \in 1..Len(ran) : i \in 1..Len(ran') /\ ran'[i] = ran[i]
    BY <1>2, <2>1, RanMore DEF Handles
  <2> QED
    BY <2>2 DEF RanStays, Ran
<1> QED
  BY <1>1, <1>2

\* The journal is left alone or written.
LEMMA JournalStep ==
    ASSUME Next
    PROVE  journal' \in {journal, Saved} \/ journal' = Saved'
BY ZenonT(60) DEF Next, Phone, CallStep, OpenStep, SubmitKnown, SubmitPending, SubmitNew, Retry, Delete, Tick,
       OtherSaves, Drain, SubWakes, Resume, ReadHistory, OpenSet, Flush, Opened, HistoryTimesOut,
       OpenFails, CallWakes, ReadAnswered, Accepted, SteerRefused, Refused, RequestTimesOut,
       ReceiveReply, ReceiveNotification, ConnCloses, Disconnect, Reconcile, SrvHandles,
       SrvCompletes, SrvOtherStarts, Watch, Leave, Retire, Crash, Shutdown, Exit, Restart, GoesDown,
       Fail, Succeed, WrittenOrNot, Written, WriteFails

\* A message gets into deliveredCodexMessageIds when its call has succeeded.
LEMMA DeliveredStep ==
    ASSUME Next, ~\E g \in Gens : Accepted(g)
    PROVE  delivered' \subseteq delivered \cup journal.delivered
BY ZenonT(60) DEF Next, Phone, CallStep, OpenStep, SubmitKnown, SubmitPending, SubmitNew, Retry, Delete, Tick,
       OtherSaves, Drain, SubWakes, Resume, ReadHistory, OpenSet, Flush, Opened, HistoryTimesOut,
       OpenFails, CallWakes, ReadAnswered, SteerRefused, Refused, RequestTimesOut,
       ReceiveReply, ReceiveNotification, ConnCloses, Disconnect, Reconcile, SrvHandles,
       SrvCompletes, SrvOtherStarts, Watch, Leave, Retire, Crash, Shutdown, Exit, Restart, GoesDown,
       Fail

\* The phone is told "started" when a call has succeeded, "duplicate" of what is delivered.
LEMMA TellStep ==
    ASSUME Next, ~\E g \in Gens : Accepted(g), NEW m \in Msgs,
           told'[m] \in {"started", "duplicate"}
    PROVE  told[m] \in {"started", "duplicate"} \/ m \in delivered
BY ZenonT(60) DEF Next, Phone, CallStep, OpenStep, SubmitKnown, SubmitPending, SubmitNew, Retry, Delete, Tick,
       OtherSaves, Drain, SubWakes, Resume, ReadHistory, OpenSet, Flush, Opened, HistoryTimesOut,
       OpenFails, CallWakes, ReadAnswered, SteerRefused, Refused, RequestTimesOut,
       ReceiveReply, ReceiveNotification, ConnCloses, Disconnect, Reconcile, SrvHandles,
       SrvCompletes, SrvOtherStarts, Watch, Leave, Retire, Crash, Shutdown, Exit, Restart, GoesDown,
       Fail, Tell

LEMMA ReceiptsStep ==
    ASSUME TurnInv, TurnInv', ReceiptsRan, [Next]_vars
    PROVE  ReceiptsRan'
<1>1. Types /\ Types'
  BY DEF TurnInv, QueueInv
<1>2. ReceiptsRan <=> \A m \in Msgs : Receipt(m) => Ran(m)
  BY DEF ReceiptsRan, Receipt
<1>3. CASE UNCHANGED vars
  BY <1>3 DEF vars, ReceiptsRan, Ran
<1>4. CASE Next
  <2>1. RanStays
    <3>1. CASE ran' = ran
      BY <3>1 DEF RanStays, Ran
    <3>2. CASE \E r \in wire : SrvHandles(r)
      BY <1>1, <3>2, SrvHandled, RanHandled
    <3>3. CASE Launch
      BY <3>1, <3>3 DEF Launch, Drain
    <3>4. ran' = ran \/ (\E r \in wire : SrvHandles(r)) \/ Launch
      BY <1>1, <1>4, OtherTries DEF TurnInv
    <3> QED
      BY <3>1, <3>2, <3>3, <3>4
  <2>2. CASE ~\E g \in Gens : Accepted(g)
    <3>1. ASSUME NEW m \in Msgs, Receipt(m)'
          PROVE  Receipt(m)
      <4>1. CASE m \in delivered'
        BY <1>4, <2>2, <4>1, DeliveredStep DEF Receipt
      <4>2. CASE m \in journal'.delivered
        <5>1. m \in journal.delivered \cup delivered \cup delivered'
          BY <1>4, <4>2, JournalStep DEF Saved
        <5> QED
          BY <4>1, <5>1 DEF Receipt
      <4>3. CASE told'[m] \in {"started", "duplicate"}
        BY <1>4, <2>2, <4>3, TellStep DEF Receipt
      <4> QED
        BY <3>1, <4>1, <4>2, <4>3 DEF Receipt
    <3> QED
      BY <1>2, <2>1, <3>1 DEF RanStays, ReceiptsRan, Receipt
  <2>3. ASSUME NEW g \in Gens, Accepted(g)
        PROVE  ReceiptsRan'
    <3>1. Ran(call[g].msg)
      BY <2>3 DEF Accepted, TurnInv, TryInv, AnswersTrue
    <3>2. /\ delivered' \subseteq delivered \cup {call[g].msg}
          /\ told' = told \/ told' = [m \in Msgs |-> IF m \in {call[g].msg} THEN "started" ELSE told[m]]
          /\ journal' = journal \/ journal' = Saved'
      BY <2>3 DEF Accepted, Succeed, Tell, WrittenOrNot, Written, WriteFails
    <3>3. ASSUME NEW m \in Msgs, Receipt(m)'
          PROVE  Receipt(m) \/ m = call[g].msg
      <4>1. m \in delivered' \cup journal.delivered \/ told'[m] \in {"started", "duplicate"}
        BY <3>2, <3>3 DEF Receipt, Saved
      <4> QED
        BY <3>2, <4>1 DEF Receipt
    <3> QED
      BY <1>2, <2>1, <3>1, <3>3 DEF RanStays, ReceiptsRan, Receipt
  <2> QED
    BY <2>2, <2>3
<1> QED
  BY <1>3, <1>4
-----------------------------------------------------------------------------
(***************************************************************************)
(* Counting: each entry of a message pays for one run.                     *)
(***************************************************************************)
Enters(m) == (SubmitNew(m) \/ Retry(m)) /\ Written

LEMMA EnteredStep ==
    ASSUME Next
    PROVE  entered' = entered \/ \E m \in Msgs : Enters(m)
BY DEF Next, Phone, CallStep, OpenStep, SubmitKnown, SubmitPending, SubmitNew, Retry, Delete, Tick,
       OtherSaves, Drain, SubWakes, Resume, ReadHistory, OpenSet, Flush, Opened, HistoryTimesOut,
       OpenFails, CallWakes, ReadAnswered, Accepted, SteerRefused, Refused, RequestTimesOut,
       ReceiveReply, ReceiveNotification, ConnCloses, Disconnect, Reconcile, SrvHandles,
       SrvCompletes, SrvOtherStarts, Watch, Leave, Retire, Crash, Shutdown, Exit, Restart, GoesDown,
       Enters

LEMMA QueueChanges ==
    ASSUME Next
    PROVE  \/ queue' = queue
           \/ \E m \in Msgs : Enters(m) \/ Delete(m)
           \/ Launch \/ Retire \/ Crash \/ Exit \/ Restart
BY ZenonT(60) DEF Next, Phone, CallStep, OpenStep, SubmitKnown, SubmitPending, SubmitNew, Retry, Delete, Tick,
       OtherSaves, Drain, SubWakes, Resume, ReadHistory, OpenSet, Flush, Opened, HistoryTimesOut,
       OpenFails, CallWakes, ReadAnswered, Accepted, SteerRefused, Refused, RequestTimesOut,
       ReceiveReply, ReceiveNotification, ConnCloses, Disconnect, Reconcile, SrvHandles,
       SrvCompletes, SrvOtherStarts, Watch, Leave, Shutdown, Fail, Succeed, Enters, Launch

\* Only Crash, Exit and Restart change whether there is a hub, and without one the
\* journal stays.
LEMMA HubChanges ==
    ASSUME Next, NoCallDown, ~(Crash \/ Exit \/ Restart)
    PROVE  (hub' = "down" <=> hub = "down") /\ (hub = "down" => journal' = journal)
<1>1. hub' = "down" <=> hub = "down"
  BY DEF Next, Phone, CallStep, OpenStep, SubmitKnown, SubmitPending, SubmitNew, Retry, Delete, Tick,
         OtherSaves, Drain, SubWakes, Resume, ReadHistory, OpenSet, Flush, Opened, HistoryTimesOut,
         OpenFails, CallWakes, ReadAnswered, Accepted, SteerRefused, Refused, RequestTimesOut,
         ReceiveReply, ReceiveNotification, ConnCloses, Disconnect, Reconcile, SrvHandles,
         SrvCompletes, SrvOtherStarts, Watch, Leave, Retire, Shutdown, Event
<1>2. CASE hub = "down" /\ \E g \in Gens : CallStep(g) \/ RequestTimesOut(g)
  BY <1>2
  DEF NoCallDown, CallStep, CallWakes, ReadAnswered, Accepted, SteerRefused, Refused,
      RequestTimesOut, Waits, Awaits
<1>3. CASE hub = "down" /\ ~\E g \in Gens : CallStep(g) \/ RequestTimesOut(g)
  BY <1>3
  DEF Next, Phone, OpenStep, SubmitKnown, SubmitPending, SubmitNew, Retry, Delete, Tick,
      OtherSaves, Drain, DrainReady, SubWakes, Resume, ReadHistory, OpenSet, Flush, Opened,
      HistoryTimesOut, OpenFails, ReceiveReply, ReceiveNotification, ConnCloses, Disconnect,
      Reconcile, SrvHandles, SrvCompletes, SrvOtherStarts, Watch, Leave, Retire, Shutdown, Event
<1> QED
  BY <1>1, <1>2, <1>3

\* A message enters the queue.
LEMMA EnterQueued ==
    ASSUME QueueInv, NEW m \in Msgs, Enters(m)
    PROVE  Queued' = Queued \cup {m}
<1>1. queue \in Seq(Msgs) /\ Injective(queue) /\ QueueSound
  BY DEF QueueInv, QueueSound, Types, ActorTypes
<1>2. hub # "down" /\ hub' = hub
  BY DEF Enters, SubmitNew, Retry, Event
<1>3. \/ queue' = Append(queue, m)
      \/ queue' = <<m>> \o queue /\ m \in uncertain
  BY DEF Enters, SubmitNew, Retry, Written, WriteFails
<1>4. m \in uncertain => m \notin Elements(queue)
  BY <1>1 DEF QueueSound
<1>5. Elements(queue') = Elements(queue) \cup {m}
  <2>1. CASE queue' = Append(queue, m)
    BY <1>1, <2>1, AppendWithin
  <2>2. CASE queue' = <<m>> \o queue /\ m \in uncertain
    BY <1>1, <1>4, <2>2, FrontElements
  <2> QED
    BY <1>3, <2>1, <2>2
<1> QED
  BY <1>2, <1>5, QueuedUp

\* What a step does to the queue.
LEMMA QueuedStep ==
    ASSUME QueueInv, QueueInv', Next
    PROVE  \/ Queued' \subseteq Queued
           \/ \E m \in Msgs : Enters(m) /\ Queued' = Queued \cup {m}
<1>1. queue \in Seq(Msgs) /\ Injective(queue) /\ QueueSound /\ Types
  BY DEF QueueInv, QueueSound, Types, ActorTypes
<1>2. CASE Retire
  BY <1>2 DEF Retire, Event, Queued, Elements
<1>3. CASE Crash \/ Exit
  <2>1. /\ hub # "down" /\ hub' = "down" /\ gen' = gen /\ journal' \in {journal, Saved}
    BY <1>3 DEF Crash, Exit, Event, GoesDown
  <2>2. CASE journal' = journal
    BY <2>1, <2>2 DEF QueueInv, JournalSound, Queued, Left, Closed
  <2>3. CASE journal' = Saved
    <3>1. journal'.queued = queue
      BY <2>3 DEF Saved
    <3> QED
      BY <2>1, <3>1 DEF Queued, Left
  <2> QED
    BY <2>1, <2>2, <2>3
<1>4. CASE Restart
  <2>1. hub = "down" /\ hub' # "down" /\ Elements(queue') = Requeued
    BY <1>1, <1>4, Restored DEF Restart, QueueInv, JournalSound, Types
  <2> QED
    BY <2>1 DEF Queued, Requeued
<1>5. CASE ~(Retire \/ Crash \/ Exit \/ Restart)
  <2>1. (hub' = "down" <=> hub = "down") /\ (hub = "down" => journal' = journal)
    BY <1>5, HubChanges DEF QueueInv
  <2>2. gen' = gen
    BY <1>1, <1>5, OnwardStep
  <2>3. CASE queue' = queue
    BY <2>1, <2>2, <2>3 DEF Queued, Left, Closed
  <2>4. \A m \in Msgs : Enters(m) => Queued' = Queued \cup {m}
    BY EnterQueued
  <2>5. ASSUME NEW m \in Msgs, Delete(m)
        PROVE  Queued' \subseteq Queued
    <3>1. hub # "down" /\ (queue' = queue \/ queue' = Without(queue, m))
      BY <2>5 DEF Delete, Event
    <3>2. Elements(queue') \subseteq Elements(queue)
      BY <1>1, <3>1, WithoutElements
    <3> QED
      BY <2>1, <3>1, <3>2, QueuedUp
  <2>6. CASE Launch
    <3>1. hub # "down" /\ queue # <<>> /\ queue' = Tail(queue)
      BY <2>6 DEF Launch, Drain, DrainReady, Written, WriteFails
    <3>2. Elements(queue') \subseteq Elements(queue)
      BY <1>1, <3>1, TailWithin
    <3> QED
      BY <2>1, <3>1, <3>2, QueuedUp
  <2> QED
    BY <1>5, <2>3, <2>4, <2>5, <2>6, QueueChanges
<1> QED
  BY <1>2, <1>3, <1>4, <1>5

\* The tries of a message are finitely many, and so are its runs.
LEMMA TriesFinite ==
    ASSUME NEW S \in SUBSET (Gens \X (0..MaxRetries))
    PROVE  IsFiniteSet(S) /\ Cardinality(S) \in Nat
<1>1. IsFiniteSet(Gens) /\ IsFiniteSet(0..MaxRetries)
  BY BoundAssumption, FS_Interval DEF Gens
<1>2. IsFiniteSet(Gens \X (0..MaxRetries))
  BY <1>1, FS_Product
<1>3. IsFiniteSet(S)
  BY <1>2, FS_Subset
<1> QED
  BY <1>3, FS_CardinalityType

LEMMA RunsFinite ==
    ASSUME Types, NEW m \in Msgs, NEW R, R = {i \in 1..Len(ran) : ran[i].msg = m}
    PROVE  IsFiniteSet(R) /\ Cardinality(R) \in Nat /\ Runs(m) = Cardinality(R)
<1>1. Len(ran) \in Nat
  BY DEF Types, NetTypes
<1>2. IsFiniteSet(1..Len(ran)) /\ R \in SUBSET (1..Len(ran))
  BY <1>1, FS_Interval
<1>3. IsFiniteSet(R)
  BY <1>2, FS_Subset
<1> QED
  BY <1>3, FS_CardinalityType DEF Runs

LEMMA OneMore ==
    ASSUME NEW S, IsFiniteSet(S), Cardinality(S) \in Nat, NEW x, NEW T, T \subseteq S \cup {x}
    PROVE  IsFiniteSet(T) /\ Cardinality(T) \in Nat /\ Cardinality(T) <= Cardinality(S) + 1
<1>1. IsFiniteSet(S \cup {x})
  BY FS_AddElement
<1>2. Cardinality(S \cup {x}) = IF x \in S THEN Cardinality(S) ELSE Cardinality(S) + 1
  BY FS_AddElement
<1>3. IsFiniteSet(T) /\ Cardinality(T) <= Cardinality(S \cup {x})
  BY <1>1, FS_Subset
<1>4. Cardinality(T) \in Nat
  BY <1>3, FS_CardinalityType
<1> QED
  BY <1>2, <1>3, <1>4

\* No more tries of m than before, or one more for one more entry.
LEMMA GoingStays ==
    ASSUME Types, Types', Counted, NEW m \in Msgs, ran' = ran,
           \/ Going(m)' \subseteq Going(m) /\ entered'[m] = entered[m]
           \/ \E p : Going(m)' \subseteq Going(m) \cup {p} /\ entered'[m] = entered[m] + 1
    PROVE  Runs(m)' + Cardinality(Going(m)') <= entered'[m]
<1>1. PICK G : G = Going(m)
  OBVIOUS
<1>2. PICK H : H = Going(m)'
  OBVIOUS
<1>3. /\ IsFiniteSet(G) /\ Cardinality(G) \in Nat /\ Runs(m) \in Nat /\ entered[m] \in Nat
      /\ IsFiniteSet(H) /\ Cardinality(H) \in Nat
  <2>1. G \in SUBSET (Gens \X (0..MaxRetries)) /\ H \in SUBSET (Gens \X (0..MaxRetries))
    BY <1>1, <1>2 DEF Going
  <2>2. Runs(m) \in Nat
    BY RunsFinite
  <2>3. entered[m] \in Nat
    BY BoundAssumption DEF Types, CountTypes
  <2> QED
    BY <2>1, <2>2, <2>3, TriesFinite
<1>4. Runs(m)' = Runs(m) /\ Runs(m) + Cardinality(G) <= entered[m]
  BY <1>1 DEF Runs, Counted
<1>5. CASE H \subseteq G /\ entered'[m] = entered[m]
  <2>1. Cardinality(H) <= Cardinality(G)
    BY <1>3, <1>5, FS_Subset
  <2> QED
    BY <1>2, <1>3, <1>4, <1>5, <2>1
<1>6. ASSUME NEW p, H \subseteq G \cup {p}, entered'[m] = entered[m] + 1
      PROVE  Runs(m)' + Cardinality(H) <= entered'[m]
  <2>1. Cardinality(H) <= Cardinality(G) + 1
    BY <1>3, <1>6, OneMore
  <2> QED
    BY <1>3, <1>4, <1>6, <2>1
<1> QED
  BY <1>1, <1>2, <1>5, <1>6

\* One try less for one more run.
LEMMA GoingRuns ==
    ASSUME Types, Types', Counted, NEW m \in Msgs, NEW p \in Going(m),
           Going(m)' \subseteq Going(m) \ {p}, entered'[m] = entered[m],
           Len(ran') = Len(ran) + 1, \A i \in 1..Len(ran) : ran'[i] = ran[i]
    PROVE  Runs(m)' + Cardinality(Going(m)') <= entered'[m]
<1>1. PICK G : G = Going(m)
  OBVIOUS
<1>2. PICK H : H = Going(m)'
  OBVIOUS
<1>3. /\ IsFiniteSet(G) /\ Cardinality(G) \in Nat /\ entered[m] \in Nat
      /\ IsFiniteSet(H) /\ Cardinality(H) \in Nat
  <2>1. G \in SUBSET (Gens \X (0..MaxRetries)) /\ H \in SUBSET (Gens \X (0..MaxRetries))
    BY <1>1, <1>2 DEF Going
  <2>2. entered[m] \in Nat
    BY BoundAssumption DEF Types, CountTypes
  <2> QED
    BY <2>1, <2>2, TriesFinite
<1>4. Runs(m) + Cardinality(G) <= entered[m]
  BY <1>1 DEF Counted
<1>5. IsFiniteSet(G \ {p}) /\ Cardinality(G \ {p}) = Cardinality(G) - 1
  BY <1>1, <1>3, FS_RemoveElement
<1>6. Cardinality(H) <= Cardinality(G) - 1
  <2>1. H \in SUBSET (G \ {p})
    BY <1>1, <1>2
  <2>2. Cardinality(H) <= Cardinality(G \ {p})
    BY <1>5, <2>1, FS_Subset
  <2> QED
    BY <1>5, <2>2
<1>7. Runs(m) \in Nat /\ Runs(m)' \in Nat /\ Runs(m)' <= Runs(m) + 1
  <2>1. PICK R : R = {i \in 1..Len(ran) : ran[i].msg = m}
    OBVIOUS
  <2>2. PICK S : S = {i \in 1..Len(ran') : ran'[i].msg = m}
    OBVIOUS
  <2>3. Len(ran) \in Nat
    BY DEF Types, NetTypes
  <2>4. IsFiniteSet(R) /\ Cardinality(R) \in Nat /\ Runs(m) = Cardinality(R)
    BY <2>1, RunsFinite
  <2>5. S \subseteq R \cup {Len(ran) + 1}
    BY <2>1, <2>2, <2>3
  <2>6. Cardinality(S) \in Nat /\ Cardinality(S) <= Cardinality(R) + 1
    BY <2>4, <2>5, OneMore
  <2>7. Runs(m)' = Cardinality(S)
    BY <2>2 DEF Runs
  <2> QED
    BY <2>4, <2>6, <2>7
<1> QED
  BY <1>2, <1>3, <1>4, <1>6, <1>7

LEMMA GoingLess ==
    ASSUME NEW k \in Msgs,
           \A g \in Gens, t \in 0..MaxRetries : Moves(k, g, t)' => Goes(k, g, t),
           k \in Queued' => k \in Queued /\ gen' = gen /\ retried'[k] = retried[k]
    PROVE  Going(k)' \subseteq Going(k)
<1>1. ASSUME NEW p \in Gens \X (0..MaxRetries), Goes(k, p[1], p[2])'
      PROVE  Goes(k, p[1], p[2])
  <2>1. PICK g \in Gens, t \in 0..MaxRetries : g = p[1] /\ t = p[2]
    OBVIOUS
  <2>2. CASE Moves(k, g, t)'
    BY <2>1, <2>2
  <2>3. CASE g = gen' /\ t = retried'[k] /\ k \in Queued'
    BY <2>1, <2>3 DEF Goes
  <2> QED
    BY <1>1, <2>1, <2>2, <2>3 DEF Goes
<1> QED
  BY <1>1 DEF Going

\* Its entry is counted.
LEMMA EnterCounts ==
    ASSUME Types, Types', Counted, NEW m \in Msgs, Enters(m), Queued' = Queued \cup {m}, MovesLess,
           ran' = ran
    PROVE  Counted'
<1>1. /\ gen' = gen /\ entered' = [entered EXCEPT ![m] = entered[m] + 1]
      /\ \A k \in Msgs \ {m} : retried'[k] = retried[k]
  BY DEF Enters, SubmitNew, Retry, Written, WriteFails, Types, CountTypes
<1>2. \A k \in Msgs : entered'[k] = IF k = m THEN entered[k] + 1 ELSE entered[k]
  BY <1>1 DEF Types, CountTypes
<1>3. ASSUME NEW k \in Msgs, k # m
      PROVE  Runs(k)' + Cardinality(Going(k)') <= entered'[k]
  <2>1. Going(k)' \subseteq Going(k)
    BY <1>1, <1>3, GoingLess DEF MovesLess, Goes
  <2> QED
    BY <1>2, <1>3, <2>1, GoingStays
<1>4. Going(m)' \subseteq Going(m) \cup {<<gen', retried'[m]>>}
  <2>1. ASSUME NEW p \in Gens \X (0..MaxRetries), Goes(m, p[1], p[2])'
        PROVE  Goes(m, p[1], p[2]) \/ p = <<gen', retried'[m]>>
    <3>1. PICK g \in Gens, t \in 0..MaxRetries : g = p[1] /\ t = p[2] /\ p = <<g, t>>
      OBVIOUS
    <3>2. CASE Moves(m, g, t)'
      BY <3>1, <3>2 DEF MovesLess, Goes
    <3>3. CASE g = gen' /\ t = retried'[m]
      BY <3>1, <3>3
    <3> QED
      BY <2>1, <3>1, <3>2, <3>3 DEF Goes
  <2> QED
    BY <2>1 DEF Going
<1>5. Runs(m)' + Cardinality(Going(m)') <= entered'[m]
  BY <1>2, <1>4, GoingStays
<1> QED
  BY <1>3, <1>5 DEF Counted

\* The App Server handles a request.
LEMMA HandleCounts ==
    ASSUME TurnInv, Types', Counted, NEW r \in wire, NEW ok \in BOOLEAN, Handles(r, ok),
           Queued' = Queued, entered' = entered
    PROVE  Counted'
<1>1. Types /\ r \in Requests /\ gen' = gen /\ retried' = retried /\ MovesLess
  BY HandledSound DEF TurnInv, QueueInv, Types, NetTypes, Handles
<1>2. \A k \in Msgs : Going(k)' \subseteq Going(k)
  BY <1>1, GoingLess DEF MovesLess, Goes
<1>3. CASE ~ok
  <2>1. ran' = ran
    BY <1>3 DEF Handles
  <2> QED
    BY <1>1, <1>2, <2>1, GoingStays DEF Counted
<1>4. CASE ok
  <2>1. /\ Len(ran) \in Nat /\ Len(ran') = Len(ran) + 1
        /\ \A i \in 1..Len(ran) : ran'[i] = ran[i]
        /\ ran'[Len(ran) + 1] = [msg |-> r.msg, gen |-> r.gen]
    BY <1>1, <1>4, RanMore DEF Handles
  <2>2. PICK m \in Msgs, g \in Gens, t \in 0..MaxRetries : m = r.msg /\ g = r.gen /\ t = r.try
    BY <1>1, RequestIs
  <2>3. Moves(m, g, t) /\ ~Moves(m, g, t)'
    BY <1>1, <1>4, <2>2, HandledSound DEF TurnInv
  <2>4. ~Goes(m, g, t)'
    <3>1. ASSUME g = gen, t = retried[m], m \in Queued
          PROVE  FALSE
      <4>1. Tries(r, m, g, t)
        BY <2>2 DEF Tries
      <4>2. Tried(m, gen, t)
        BY <3>1, <4>1 DEF Tried
      <4>3. t < retried[m]
        BY <3>1, <4>2 DEF TurnInv, OrderInv, QueuedFresh
      <4> QED
        BY <3>1, <4>3
    <3> QED
      BY <1>1, <2>3, <3>1 DEF Goes
  <2>5. PICK p \in Gens \X (0..MaxRetries) : p = <<g, t>>
    OBVIOUS
  <2>6. p[1] = g /\ p[2] = t
    BY <2>5
  <2>7. p \in Going(m) /\ p \notin Going(m)'
    BY <2>3, <2>4, <2>6 DEF Going, Goes
  <2>8. Runs(m)' + Cardinality(Going(m)') <= entered'[m]
    BY <1>1, <1>2, <2>1, <2>7, GoingRuns
  <2>9. ASSUME NEW k \in Msgs, k # m
        PROVE  Runs(k)' + Cardinality(Going(k)') <= entered'[k]
    <3>1. Runs(k)' = Runs(k)
      <4>1. {i \in 1..Len(ran') : ran'[i].msg = k} = {i \in 1..Len(ran) : ran[i].msg = k}
        BY <2>1, <2>2, <2>9
      <4> QED
        BY <4>1 DEF Runs
    <3>2. PICK G : G = Going(k)
      OBVIOUS
    <3>3. PICK H : H = Going(k)'
      OBVIOUS
    <3>4. /\ IsFiniteSet(G) /\ Cardinality(G) \in Nat /\ Cardinality(H) \in Nat
          /\ Runs(k) \in Nat /\ entered[k] \in Nat
      <4>1. G \in SUBSET (Gens \X (0..MaxRetries)) /\ H \in SUBSET (Gens \X (0..MaxRetries))
        BY <3>2, <3>3 DEF Going
      <4>2. Runs(k) \in Nat
        BY <1>1, RunsFinite
      <4>3. entered[k] \in Nat
        BY <1>1, BoundAssumption DEF Types, CountTypes
      <4> QED
        BY <4>1, <4>2, <4>3, TriesFinite
    <3>5. H \subseteq G
      BY <1>2, <3>2, <3>3
    <3>6. Cardinality(H) <= Cardinality(G)
      BY <3>4, <3>5, FS_Subset
    <3>7. Runs(k) + Cardinality(G) <= entered[k]
      BY <3>2 DEF Counted
    <3> QED
      BY <3>1, <3>3, <3>4, <3>6, <3>7
  <2> QED
    BY <2>8, <2>9 DEF Counted
<1> QED
  BY <1>3, <1>4

LEMMA CountedStep ==
    ASSUME TurnInv, TurnInv', Counted, [Next]_vars
    PROVE  Counted'
<1>1. Types /\ Types' /\ QueueInv /\ QueueInv' /\ TryInv
  BY DEF TurnInv, QueueInv
<1>2. ASSUME \A k \in Msgs, g \in Gens, t \in 0..MaxRetries : Moves(k, g, t)' => Goes(k, g, t),
             \A k \in Queued' : k \in Queued /\ gen' = gen /\ retried'[k] = retried[k],
             ran' = ran, entered' = entered
      PROVE  Counted'
  <2>1. ASSUME NEW k \in Msgs
        PROVE  Runs(k)' + Cardinality(Going(k)') <= entered'[k]
    <3>1. Going(k)' \subseteq Going(k)
      BY <1>2, GoingLess
    <3> QED
      BY <1>1, <1>2, <3>1, GoingStays
  <2> QED
    BY <2>1 DEF Counted
<1>3. CASE UNCHANGED vars
  <2>1. Still /\ UNCHANGED <<gen, retried, ran, entered, hub, queue, journal>>
    BY <1>3 DEF vars, Still
  <2>2. Onward
    BY <1>1, <2>1 DEF Onward, Types, ActorTypes, CountTypes, Gens
  <2>3. MovesLess
    BY <1>1, <2>1, <2>2, StillCalm, CalmTries DEF TryInv
  <2>4. Queued' = Queued
    BY <2>1, QueuedKept
  <2> QED
    BY <1>2, <2>1, <2>3, <2>4 DEF MovesLess, Goes
<1>4. CASE Launch
  <2>1. UNCHANGED <<gen, retried, ran, entered>> /\ ~\E m \in Msgs : Enters(m)
    BY <1>4 DEF Launch, Drain, Enters, SubmitNew, Retry, Event, Written, WriteFails
  <2>2. Next
    BY <1>4 DEF Launch, Next
  <2>3. Queued' \subseteq Queued
    BY <1>1, <2>1, <2>2, QueuedStep
  <2>4. PICK n : n = Head(queue)
    OBVIOUS
  <2>5. /\ n \in Msgs /\ n \in Queued
        /\ \A m \in Msgs, g \in Gens, t \in 0..MaxRetries :
               Moves(m, g, t)' => Moves(m, g, t) \/ (m = n /\ g = gen /\ t = retried[n])
    BY <1>1, <1>4, <2>4, LaunchTries
  <2>6. \A k \in Msgs, g \in Gens, t \in 0..MaxRetries : Moves(k, g, t)' => Goes(k, g, t)
    BY <2>5 DEF Goes
  <2> QED
    BY <1>2, <2>1, <2>3, <2>6
<1>5. ASSUME NEW r \in wire, SrvHandles(r)
      PROVE  Counted'
  <2>1. PICK ok \in BOOLEAN : Handles(r, ok)
    BY <1>1, <1>5, SrvHandled
  <2>2. entered' = entered /\ UNCHANGED <<queue, journal, gen, hub>>
    BY <1>5 DEF SrvHandles
  <2>3. Queued' = Queued
    BY <2>2, QueuedKept
  <2> QED
    BY <1>1, <2>1, <2>2, <2>3, HandleCounts
<1>6. CASE Next /\ ~Launch /\ ~\E r \in wire : SrvHandles(r)
  <2>1. MovesLess /\ ran' = ran
    BY <1>1, <1>6, OtherTries
  <2>2. ASSUME NEW m \in Msgs, Enters(m)
        PROVE  Counted'
    <3>1. Queued' = Queued \cup {m}
      BY <1>1, <1>6, <2>2, EnterQueued
    <3> QED
      BY <1>1, <2>1, <2>2, <3>1, EnterCounts
  <2>3. CASE ~\E m \in Msgs : Enters(m)
    <3>1. entered' = entered /\ Queued' \subseteq Queued
      BY <1>1, <1>6, <2>3, EnteredStep, QueuedStep
    <3>2. retried' = retried
      BY <1>1, <1>6, <2>3, OnwardStep DEF Enters
    <3>3. gen' = gen \/ Queued' = {}
      <4>1. gen' = gen \/ Retire
        BY <1>1, <1>6, OnwardStep
      <4> QED
        BY <4>1 DEF Retire, Event, Queued, Elements
    <3> QED
      BY <1>2, <2>1, <3>1, <3>2, <3>3 DEF MovesLess, Goes
  <2> QED
    BY <2>2, <2>3
<1> QED
  BY <1>3, <1>4, <1>5, <1>6

\* What has run and what can still run was paid for, and receipts have run.
LEMMA CountInit ==
    ASSUME Init
    PROVE  ReceiptsRan /\ Counted
<1>1. TurnInv /\ ran = <<>> /\ wire = {} /\ call = [g \in Gens |-> NoCall]
  BY TurnInit DEF Init
<1>2. Types
  BY <1>1 DEF TurnInv, QueueInv
<1>3. \A m \in Msgs, g \in Gens, t \in 0..MaxRetries : ~Goes(m, g, t)
  <2>1. \A g \in Gens : call[g].step = "idle"
    BY <1>1, NullRecords
  <2>2. Queued = {}
    BY DEF Init, Queued, Elements
  <2> QED
    BY <1>1, <2>1, <2>2 DEF Goes, Moves, CallTries
<1>4. ASSUME NEW m \in Msgs
      PROVE  Runs(m) + Cardinality(Going(m)) <= entered[m]
  <2>1. Going(m) = {}
    BY <1>3 DEF Going
  <2>2. {i \in 1..Len(ran) : ran[i].msg = m} = {}
    BY <1>1
  <2>3. entered[m] = 0
    BY DEF Init
  <2>4. Runs(m) = 0 /\ Cardinality(Going(m)) = 0
    BY <2>1, <2>2, FS_EmptySet DEF Runs
  <2> QED
    BY <2>3, <2>4
<1>5. ReceiptsRan
  BY DEF Init, ReceiptsRan
<1> QED
  BY <1>4, <1>5 DEF Counted

\* A message runs once for every time it entered the queue, whatever is resent, tried
\* again or lost, and what the hub calls delivered, in memory, in its journal or to
\* the phone, ran (codex_turn_submit, startCodexTurn).
THEOREM RunsAndReceipts == Spec => []RunsMatchReceipts
<1>1. ASSUME TurnInv, ReceiptsRan, Counted
      PROVE  RunsMatchReceipts
  <2>1. Types
    BY <1>1 DEF TurnInv, QueueInv
  <2>2. RunsOncePerEntry
    <3>1. ASSUME NEW m \in Msgs
          PROVE  Runs(m) <= entered[m]
      <4>1. PICK G : G = Going(m)
        OBVIOUS
      <4>2. G \in SUBSET (Gens \X (0..MaxRetries))
        BY <4>1 DEF Going
      <4>3. Cardinality(G) \in Nat /\ Runs(m) \in Nat /\ entered[m] \in Nat
        <5>1. Cardinality(G) \in Nat
          BY <4>2, TriesFinite
        <5>2. Runs(m) \in Nat
          BY <2>1, RunsFinite
        <5>3. entered[m] \in Nat
          BY <2>1, BoundAssumption DEF Types, CountTypes
        <5> QED
          BY <5>1, <5>2, <5>3
      <4>4. Runs(m) + Cardinality(G) <= entered[m]
        BY <1>1, <4>1 DEF Counted
      <4> QED
        BY <4>3, <4>4
    <3> QED
      BY <3>1 DEF RunsOncePerEntry
  <2>3. ASSUME NEW m \in Msgs, Ran(m)
        PROVE  Runs(m) > 0
    <3>1. PICK R : R = {i \in 1..Len(ran) : ran[i].msg = m}
      OBVIOUS
    <3>2. IsFiniteSet(R) /\ Cardinality(R) \in Nat /\ Runs(m) = Cardinality(R)
      BY <2>1, <3>1, RunsFinite
    <3>3. R # {}
      BY <2>3, <3>1 DEF Ran
    <3>4. Cardinality(R) # 0
      BY <3>2, <3>3, FS_EmptySet
    <3> QED
      BY <3>2, <3>4
  <2> QED
    BY <1>1, <2>2, <2>3 DEF RunsMatchReceipts, ReceiptsTrue, ReceiptsRan
<1> QED
  BY <1>1, CountInit, TurnInit, TurnStep, ReceiptsStep, CountedStep, PTL DEF Spec
-----------------------------------------------------------------------------
(***************************************************************************)
(* The end of a turn.  What a connection still has to tell is read from    *)
(* the place i on: q is the inbox, v the turn that runs, a the turn the    *)
(* hub takes for it.                                                       *)
(***************************************************************************)

\* A turn runs, or something of one is still to come.
Tells(q, i, v) == v # NoTurn \/ \E j \in (i + 1)..Len(q) : q[j].what # "reply"

\* Unless another turn is still to start, what ends is a.
Fits(q, i, a, v) ==
    \/ \E j \in (i + 1)..Len(q) : q[j].what = "started"
    \/ /\ \A j \in (i + 1)..Len(q) : q[j].what = "completed" => a \in {NoTurn, q[j].turn}
       /\ v # NoTurn => a \in {NoTurn, v}

StartsIn(q, i, j, t) == \E k \in i..j : q[k].what = "started" /\ q[k].turn = t

\* After a first notification each turn has told of its start when it ends or runs.
NotesAgree(q, v) ==
    \A i \in 1..Len(q) : q[i].what # "reply" =>
        /\ v # NoTurn => StartsIn(q, i, Len(q), v)
        /\ \A j \in (i + 1)..Len(q) :
              q[j].what = "completed" => StartsIn(q, i, j - 1, q[j].turn)
        /\ q[i].what = "started" => Tells(q, i, v)

\* The turn a reply names is the one that ran when it was sent.
ReplyRight(q, i, v) ==
    /\ Fits(q, i, q[i].turn, v)
    /\ (q[i].answer = "ok" /\ q[i].to.kind # "read") => Tells(q, i, v)
RepliesRight(q, v) == \A i \in 1..Len(q) : q[i].what = "reply" => ReplyRight(q, i, v)

\* Less to come.
LEMMA TellsTail ==
    ASSUME NEW S, NEW q \in Seq(S), q # <<>>, NEW v, NEW i \in 0..(Len(q) - 1)
    PROVE  Tells(Tail(q), i, v) <=> Tells(q, i + 1, v)
<1>1. /\ Len(Tail(q)) = Len(q) - 1 /\ Len(q) \in Nat
      /\ \A j \in 1..(Len(q) - 1) : Tail(q)[j] = q[j + 1]
  OBVIOUS
<1>2. ASSUME NEW j \in (i + 1)..Len(Tail(q)), Tail(q)[j].what # "reply"
      PROVE  Tells(q, i + 1, v)
  <2>1. j + 1 \in (i + 1 + 1)..Len(q) /\ q[j + 1].what # "reply"
    BY <1>1, <1>2
  <2> QED
    BY <2>1 DEF Tells
<1>3. ASSUME NEW j \in (i + 1 + 1)..Len(q), q[j].what # "reply"
      PROVE  Tells(Tail(q), i, v)
  <2>1. j - 1 \in (i + 1)..Len(Tail(q)) /\ Tail(q)[j - 1].what # "reply"
    BY <1>1, <1>3
  <2> QED
    BY <2>1 DEF Tells
<1> QED
  BY <1>2, <1>3 DEF Tells

LEMMA FitsTail ==
    ASSUME NEW S, NEW q \in Seq(S), q # <<>>, NEW v, NEW a, NEW i \in 0..(Len(q) - 1),
           Fits(q, i + 1, a, v)
    PROVE  Fits(Tail(q), i, a, v)
<1>1. /\ Len(Tail(q)) = Len(q) - 1 /\ Len(q) \in Nat
      /\ \A j \in 1..(Len(q) - 1) : Tail(q)[j] = q[j + 1]
  OBVIOUS
<1>2. ASSUME NEW j \in (i + 1 + 1)..Len(q), q[j].what = "started"
      PROVE  Fits(Tail(q), i, a, v)
  <2>1. j - 1 \in (i + 1)..Len(Tail(q)) /\ Tail(q)[j - 1].what = "started"
    BY <1>1, <1>2
  <2> QED
    BY <2>1 DEF Fits
<1>3. ASSUME \A j \in (i + 1 + 1)..Len(q) : q[j].what = "completed" => a \in {NoTurn, q[j].turn},
             v # NoTurn => a \in {NoTurn, v}
      PROVE  Fits(Tail(q), i, a, v)
  <2>1. ASSUME NEW j \in (i + 1)..Len(Tail(q)), Tail(q)[j].what = "completed"
        PROVE  a \in {NoTurn, Tail(q)[j].turn}
    <3>1. j + 1 \in (i + 1 + 1)..Len(q) /\ Tail(q)[j] = q[j + 1]
      BY <1>1
    <3> QED
      BY <1>3, <2>1, <3>1
  <2> QED
    BY <1>3, <2>1 DEF Fits
<1> QED
  BY <1>2, <1>3 DEF Fits

LEMMA NotesTail ==
    ASSUME NEW S, NEW q \in Seq(S), q # <<>>, NEW v, NotesAgree(q, v)
    PROVE  NotesAgree(Tail(q), v)
<1>1. /\ Len(Tail(q)) = Len(q) - 1 /\ Len(q) \in Nat
      /\ \A j \in 1..(Len(q) - 1) : Tail(q)[j] = q[j + 1]
  OBVIOUS
<1> SUFFICES ASSUME NEW i \in 1..Len(Tail(q)), Tail(q)[i].what # "reply"
             PROVE  /\ v # NoTurn => StartsIn(Tail(q), i, Len(Tail(q)), v)
                    /\ \A j \in (i + 1)..Len(Tail(q)) :
                          Tail(q)[j].what = "completed" => StartsIn(Tail(q), i, j - 1, Tail(q)[j].turn)
                    /\ Tail(q)[i].what = "started" => Tells(Tail(q), i, v)
  BY DEF NotesAgree
<1>2. i + 1 \in 1..Len(q) /\ q[i + 1] = Tail(q)[i] /\ i \in 0..(Len(q) - 1) /\ i \in 1..(Len(q) - 1)
  BY <1>1
<1>3. /\ v # NoTurn => StartsIn(q, i + 1, Len(q), v)
      /\ \A j \in (i + 1 + 1)..Len(q) : q[j].what = "completed" => StartsIn(q, i + 1, j - 1, q[j].turn)
      /\ q[i + 1].what = "started" => Tells(q, i + 1, v)
  BY <1>2 DEF NotesAgree
<1>4. ASSUME NEW j \in i..(Len(q) - 1), NEW t, StartsIn(q, i + 1, j + 1, t)
      PROVE  StartsIn(Tail(q), i, j, t)
  <2>1. PICK k \in (i + 1)..(j + 1) : q[k].what = "started" /\ q[k].turn = t
    BY <1>4 DEF StartsIn
  <2>2. k - 1 \in i..j /\ Tail(q)[k - 1] = q[k]
    BY <1>1
  <2> QED
    BY <2>1, <2>2 DEF StartsIn
<1>5. v # NoTurn => StartsIn(Tail(q), i, Len(Tail(q)), v)
  <2>1. Len(Tail(q)) \in i..(Len(q) - 1) /\ Len(Tail(q)) + 1 = Len(q)
    BY <1>1
  <2> QED
    BY <1>3, <1>4, <2>1
<1>6. ASSUME NEW j \in (i + 1)..Len(Tail(q)), Tail(q)[j].what = "completed"
      PROVE  StartsIn(Tail(q), i, j - 1, Tail(q)[j].turn)
  <2>1. /\ j + 1 \in (i + 1 + 1)..Len(q) /\ Tail(q)[j] = q[j + 1]
        /\ j - 1 \in i..(Len(q) - 1) /\ (j + 1) - 1 = (j - 1) + 1
    BY <1>1
  <2>2. StartsIn(q, i + 1, (j + 1) - 1, q[j + 1].turn)
    BY <1>3, <1>6, <2>1
  <2> QED
    BY <1>4, <2>1, <2>2
<1>7. Tail(q)[i].what = "started" => Tells(Tail(q), i, v)
  BY <1>2, <1>3, TellsTail
<1> QED
  BY <1>5, <1>6, <1>7

LEMMA RepliesTail ==
    ASSUME NEW S, NEW q \in Seq(S), q # <<>>, NEW v, RepliesRight(q, v)
    PROVE  RepliesRight(Tail(q), v)
<1>1. /\ Len(Tail(q)) = Len(q) - 1 /\ Len(q) \in Nat
      /\ \A j \in 1..(Len(q) - 1) : Tail(q)[j] = q[j + 1]
  OBVIOUS
<1> SUFFICES ASSUME NEW i \in 1..Len(Tail(q)), Tail(q)[i].what = "reply"
             PROVE  ReplyRight(Tail(q), i, v)
  BY DEF RepliesRight
<1>2. i + 1 \in 1..Len(q) /\ q[i + 1] = Tail(q)[i] /\ i \in 0..(Len(q) - 1)
  BY <1>1
<1>3. ReplyRight(q, i + 1, v)
  BY <1>2 DEF RepliesRight
<1>4. Fits(Tail(q), i, q[i + 1].turn, v)
  BY <1>2, <1>3, FitsTail DEF ReplyRight
<1>5. Tells(q, i + 1, v) => Tells(Tail(q), i, v)
  BY <1>2, TellsTail
<1> QED
  BY <1>2, <1>3, <1>4, <1>5 DEF ReplyRight

\* What the App Server sends at the end of an inbox, and the turn that runs before and
\* after.
Change(m, v, w) ==
    \/ m.what = "reply" /\ w = v
    \/ m.what = "completed" /\ m.turn = v /\ v # NoTurn /\ w = NoTurn
    \/ m.what = "started" /\ m.turn = w /\ w # NoTurn /\ v = NoTurn

\* It takes nothing back.
Grown(q, p, v, w) ==
    /\ Len(q) <= Len(p)
    /\ \A i \in 0..Len(q), a \in MaybeTurn :
          /\ Tells(q, i, v) => Tells(p, i, w)
          /\ Fits(q, i, a, v) => Fits(p, i, a, w)

LEMMA GrownOnce ==
    ASSUME NEW S, NEW q \in Seq(S), NEW m \in S, NEW v, NEW w, Change(m, v, w)
    PROVE  Grown(q, Append(q, m), v, w)
<1> DEFINE p == Append(q, m)
<1>1. /\ Len(p) = Len(q) + 1 /\ Len(q) \in Nat /\ p[Len(q) + 1] = m
      /\ \A j \in 1..Len(q) : p[j] = q[j]
  OBVIOUS
<1> HIDE DEF p
<1>2. SUFFICES ASSUME NEW i \in 0..Len(q), NEW a \in MaybeTurn
               PROVE  /\ Tells(q, i, v) => Tells(p, i, w)
                      /\ Fits(q, i, a, v) => Fits(p, i, a, w)
  BY <1>1 DEF Grown, p
<1>3. /\ Len(q) + 1 \in (i + 1)..Len(p)
      /\ \A j \in (i + 1)..Len(q) : j \in (i + 1)..Len(p) /\ p[j] = q[j]
      /\ \A j \in (i + 1)..Len(p) : j = Len(q) + 1 \/ j \in (i + 1)..Len(q)
  BY <1>1
<1>4. Tells(q, i, v) => Tells(p, i, w)
  <2>1. CASE v # NoTurn /\ w = NoTurn
    <3>1. p[Len(q) + 1].what # "reply"
      BY <1>1, <2>1 DEF Change
    <3> QED
      BY <1>3, <3>1 DEF Tells
  <2>2. CASE v = NoTurn \/ w # NoTurn
    BY <1>3, <2>2 DEF Tells
  <2> QED
    BY <2>1, <2>2
<1>5. ASSUME Fits(q, i, a, v)
      PROVE  Fits(p, i, a, w)
  <2>1. ASSUME NEW j \in (i + 1)..Len(q), q[j].what = "started"
        PROVE  Fits(p, i, a, w)
    BY <1>3, <2>1 DEF Fits
  <2>2. CASE m.what = "started"
    BY <1>1, <1>3, <2>2 DEF Fits
  <2>3. ASSUME \A j \in (i + 1)..Len(q) : q[j].what = "completed" => a \in {NoTurn, q[j].turn},
               v # NoTurn => a \in {NoTurn, v}, m.what # "started"
        PROVE  Fits(p, i, a, w)
    <3>1. w # NoTurn => a \in {NoTurn, w}
      BY <2>3 DEF Change
    <3>2. ASSUME NEW j \in (i + 1)..Len(p), p[j].what = "completed"
          PROVE  a \in {NoTurn, p[j].turn}
      <4>1. CASE j = Len(q) + 1
        BY <1>1, <2>3, <3>2, <4>1 DEF Change
      <4>2. CASE j \in (i + 1)..Len(q)
        BY <1>3, <2>3, <3>2, <4>2
      <4> QED
        BY <1>3, <4>1, <4>2
    <3> QED
      BY <3>1, <3>2 DEF Fits
  <2> QED
    BY <1>5, <2>1, <2>2, <2>3 DEF Fits
<1> QED
  BY <1>4, <1>5

LEMMA NotesGrow ==
    ASSUME NEW S, NEW q \in Seq(S), NEW m \in S, NEW v, NEW w, Change(m, v, w),
           NotesAgree(q, v)
    PROVE  NotesAgree(Append(q, m), w)
<1> DEFINE p == Append(q, m)
<1>1. /\ Len(p) = Len(q) + 1 /\ Len(q) \in Nat /\ p[Len(q) + 1] = m
      /\ \A j \in 1..Len(q) : p[j] = q[j]
  OBVIOUS
<1>0. \A i \in 0..Len(q) : Tells(q, i, v) => Tells(p, i, w)
  BY GrownOnce DEF Grown, MaybeTurn
<1> HIDE DEF p
<1>2. SUFFICES ASSUME NEW i \in 1..Len(p), p[i].what # "reply"
               PROVE  /\ w # NoTurn => StartsIn(p, i, Len(p), w)
                      /\ \A j \in (i + 1)..Len(p) :
                            p[j].what = "completed" => StartsIn(p, i, j - 1, p[j].turn)
                      /\ p[i].what = "started" => Tells(p, i, w)
  BY DEF NotesAgree, p
<1>3. CASE i = Len(q) + 1
  <2>1. p[i] = m /\ i = Len(p) /\ i \in i..Len(p)
    BY <1>1, <1>3
  <2>2. w # NoTurn => m.what = "started" /\ m.turn = w
    BY <1>2, <2>1 DEF Change
  <2>3. m.what = "started" => w # NoTurn
    BY DEF Change
  <2> QED
    BY <2>1, <2>2, <2>3 DEF StartsIn, Tells
<1>4. CASE i \in 1..Len(q)
  <2>1. /\ p[i] = q[i] /\ q[i].what # "reply" /\ i \in 0..Len(q)
        /\ v # NoTurn => StartsIn(q, i, Len(q), v)
        /\ \A j \in (i + 1)..Len(q) : q[j].what = "completed" => StartsIn(q, i, j - 1, q[j].turn)
        /\ q[i].what = "started" => Tells(q, i, v)
    BY <1>1, <1>2, <1>4 DEF NotesAgree
  <2>2. ASSUME NEW j \in i..Len(q), NEW t, StartsIn(q, i, j, t)
        PROVE  \A k \in j..Len(p) : StartsIn(p, i, k, t)
    <3>1. PICK l \in i..j : q[l].what = "started" /\ q[l].turn = t
      BY <2>2 DEF StartsIn
    <3>2. p[l] = q[l] /\ \A k \in j..Len(p) : l \in i..k
      BY <1>1
    <3> QED
      BY <3>1, <3>2 DEF StartsIn
  <2>3. w # NoTurn => StartsIn(p, i, Len(p), w)
    <3>1. CASE m.what = "started" /\ m.turn = w
      <4>1. Len(p) \in i..Len(p) /\ p[Len(p)] = m
        BY <1>1
      <4> QED
        BY <3>1, <4>1 DEF StartsIn
    <3>2. CASE w = v
      <4>1. Len(q) \in i..Len(q) /\ Len(p) \in Len(q)..Len(p)
        BY <1>1, <1>4
      <4> QED
        BY <2>1, <2>2, <3>2, <4>1
    <3> QED
      BY <3>1, <3>2 DEF Change
  <2>4. ASSUME NEW j \in (i + 1)..Len(p), p[j].what = "completed"
        PROVE  StartsIn(p, i, j - 1, p[j].turn)
    <3>1. CASE j = Len(q) + 1
      <4>1. m.turn = v /\ v # NoTurn /\ p[j] = m
        BY <1>1, <2>4, <3>1 DEF Change
      <4>2. Len(q) \in i..Len(q) /\ j - 1 \in Len(q)..Len(p)
        BY <1>1, <1>4, <3>1
      <4> QED
        BY <2>1, <2>2, <4>1, <4>2
    <3>2. CASE j \in (i + 1)..Len(q)
      <4>1. p[j] = q[j] /\ j - 1 \in i..Len(q) /\ j - 1 \in (j - 1)..Len(p)
        BY <1>1, <3>2
      <4> QED
        BY <2>1, <2>2, <2>4, <3>2, <4>1
    <3> QED
      BY <1>1, <3>1, <3>2
  <2>5. p[i].what = "started" => Tells(p, i, w)
    BY <1>0, <2>1
  <2> QED
    BY <2>3, <2>4, <2>5
<1> QED
  BY <1>1, <1>3, <1>4

\* Without a notification nothing is said of the turns.
LEMMA NotesOfNone ==
    ASSUME NEW q, NEW v, \A i \in 1..Len(q) : q[i].what = "reply"
    PROVE  NotesAgree(q, v)
BY DEF NotesAgree

LEMMA RepliesGrow ==
    ASSUME NEW q \in Seq(Messages), NEW p \in Seq(Messages), NEW v, NEW w, Grown(q, p, v, w),
           \A i \in 1..Len(q) : p[i] = q[i], RepliesRight(q, v),
           \A i \in (Len(q) + 1)..Len(p) : p[i].what = "reply" => ReplyRight(p, i, w)
    PROVE  RepliesRight(p, w)
<1> SUFFICES ASSUME NEW i \in 1..Len(p), p[i].what = "reply"
             PROVE  ReplyRight(p, i, w)
  BY DEF RepliesRight
<1>1. CASE i \in 1..Len(q)
  <2>1. p[i] = q[i] /\ i \in 0..Len(q) /\ ReplyRight(q, i, v)
    BY <1>1 DEF RepliesRight
  <2>2. q[i].turn \in MaybeTurn
    <3>1. q[i] \in Messages
      BY <1>1
    <3> QED
      BY <3>1 DEF Messages
  <2>3. /\ Tells(q, i, v) => Tells(p, i, w)
        /\ Fits(q, i, q[i].turn, v) => Fits(p, i, q[i].turn, w)
    BY <2>1, <2>2 DEF Grown
  <2> QED
    BY <2>1, <2>3 DEF ReplyRight
<1>2. CASE i \notin 1..Len(q)
  BY <1>2
<1> QED
  BY <1>1, <1>2
-----------------------------------------------------------------------------
\* The hub has not used the connection yet.
Unused(c) ==
    /\ \A i \in 1..Len(inbox[c]) : inbox[c][i].what # "reply"
    /\ \A r \in wire : r.conn # c
    /\ \A g \in Gens : Awaits(g) => call[g].conn # c

\* Who is subscribed is told of all turns; a steer names its turn.
SocketsTell ==
    /\ \A c \in Conns :
          /\ c \notin subscribed => \A i \in 1..Len(inbox[c]) : inbox[c][i].what = "reply"
          /\ c \in subscribed /\ conns[c] = "up" => NotesAgree(inbox[c], running)
          /\ conns[c] = "none" => Unused(c) /\ c \notin subscribed
          /\ \A i \in 1..Len(inbox[c]) : inbox[c][i].what = "reply" => inbox[c][i].to.conn = c
    /\ \A r \in wire : r.kind \in {"steer", "resteer"} => r.turn # NoTurn

\* A thread that is being opened will be told of the end of the turn it was read with.
OpeningTells ==
    /\ opening.stage # "no" => Unused(opening.conn)
    /\ opening.stage \in {"connect", "resumed"} => ~opening.live
    /\ opening.stage = "resumed" => opening.conn \in subscribed
    /\ opening.stage = "read" /\ opening.live =>
          /\ opening.conn \in subscribed
          /\ Fits(inbox[opening.conn], 0, opening.active, running)
          /\ opening.active # NoTurn => Tells(inbox[opening.conn], 0, running)

\* A call on the open thread that has not been told that its message is in a turn.
Asks(g) ==
    /\ Awaits(g) /\ call[g].conn = open.conn
    /\ ~(call[g].answer = "ok" /\ call[g].step # "read")

AnswerFits(k, q, v) == Adopts(k) => Fits(q, 0, k.found, v)

\* What the calls on the open thread have been told fits what is still to come.
CallsFit ==
    \A g \in Gens : Awaits(g) /\ call[g].conn = open.conn =>
        call[g].step # "read" /\ AnswerFits(call[g], inbox[open.conn], running)

\* The open thread: who is busy will be told of an end, or has asked.
OpenTells ==
    open.live =>
        /\ open.conn \in subscribed
        /\ Fits(inbox[open.conn], 0, open.active, running)
        /\ RepliesRight(inbox[open.conn], running)
        /\ CallsFit
        /\ processing => Tells(inbox[open.conn], 0, running) \/ \E g \in Gens : Asks(g)

\* As long as nothing was lost, whoever waits for the end of a turn will be told.
EndInv == faults = 0 /\ ~overtaken => SocketsTell /\ OpeningTells /\ OpenTells

LEMMA InboxIs ==
    ASSUME Types, NEW c \in Conns
    PROVE  inbox[c] \in Seq(Messages) /\ Len(inbox[c]) \in Nat
BY DEF Types, NetTypes

LEMMA ThreadIs ==
    ASSUME Types, LinkInv
    PROVE  /\ open.live => open.conn \in Conns /\ conns[open.conn] = "up"
           /\ opening.stage # "no" => opening.conn \in Conns
           /\ opening.stage \in {"connect", "resumed", "read"} => conns[opening.conn] = "up"
           /\ open.live \in BOOLEAN /\ opening.live \in BOOLEAN
           /\ open.active \in MaybeTurn /\ opening.active \in MaybeTurn
           /\ running \in MaybeTurn /\ processing \in BOOLEAN
           /\ ~NoOpen.live /\ \A g \in Gens : call[g].found \in MaybeTurn
<1>1. open \in Opens /\ opening \in Openings /\ call \in [Gens -> Calls]
  BY DEF Types, LinkTypes, CallTypes
<1>2. ~NoOpen.live
  BY DEF NoOpen
<1>3. open.live => open # NoOpen
  BY <1>2
<1>4. /\ open.conn \in Conns \cup {NoConn} /\ open.live \in BOOLEAN /\ opening.live \in BOOLEAN
      /\ open.active \in MaybeTurn /\ opening.active \in MaybeTurn
  BY <1>1, Zenon DEF Opens, Openings, MaybeConn
<1>5. \A g \in Gens : call[g].found \in MaybeTurn
  BY <1>1, Zenon DEF Calls
<1>6. open.live => conns[open.conn] = "up" /\ open.conn # NoConn
  BY <1>3 DEF LinkInv, NoOrphan, OpeningOwns
<1>7. /\ opening.stage # "no" => opening.conn \in Conns
      /\ opening.stage \in {"connect", "resumed", "read"} => conns[opening.conn] = "up"
  BY DEF Types, LinkTypes, LinkInv, OpeningOwns
<1> QED
  BY <1>2, <1>4, <1>5, <1>6, <1>7 DEF Types, LinkTypes, NetTypes

\* Steps that take nothing from the inboxes and ask for nothing.
LEMMA EndStays ==
    ASSUME Types, LinkInv, EndInv,
           UNCHANGED <<subscribed, inbox, wire, running, faults, overtaken>>,
           \A c \in Conns : /\ conns'[c] = "none" => conns[c] = "none"
                            /\ conns'[c] = "up" => conns[c] \in {"none", "up"},
           \A g \in Gens : Awaits(g)' => Awaits(g) /\ call'[g] = call[g],
           \/ opening'.stage = "no" \/ opening' = opening
           \/ opening.stage # "no" /\ opening'.stage = "set" /\ opening'.conn = opening.conn
           \/ /\ opening'.stage = "connect" /\ ~opening'.live
              /\ opening'.conn \in Conns /\ conns[opening'.conn] = "none",
           \/ ~open'.live
           \/ /\ open'.live = open.live /\ open'.conn = open.conn
              /\ \/ open'.active \in {NoTurn, open.active}
                 \/ open.live => Fits(inbox[open.conn], 0, open'.active, running)
              /\ \/ ~processing'
                 \/ processing' = processing /\ \A g \in Gens : Asks(g) => call'[g] = call[g]
    PROVE  EndInv'
<1> SUFFICES ASSUME faults = 0, ~overtaken
             PROVE  SocketsTell' /\ OpeningTells' /\ OpenTells'
  BY DEF EndInv
<1>1. SocketsTell /\ OpeningTells /\ OpenTells
  BY DEF EndInv
<1>2. \A c : Unused(c) => Unused(c)'
  BY DEF Unused
<1>3. SocketsTell'
  <2>1. SUFFICES ASSUME NEW c \in Conns
                 PROVE  /\ c \in subscribed /\ conns'[c] = "up" => NotesAgree(inbox[c], running)
                        /\ conns'[c] = "none" => Unused(c)' /\ c \notin subscribed
    BY <1>1 DEF SocketsTell
  <2> QED
    BY <1>1, <1>2 DEF SocketsTell
<1>4. OpeningTells'
  <2>1. CASE opening'.stage = "no"
    BY <2>1 DEF OpeningTells
  <2>2. CASE opening' = opening
    BY <1>1, <1>2, <2>2 DEF OpeningTells
  <2>3. CASE opening.stage # "no" /\ opening'.stage = "set" /\ opening'.conn = opening.conn
    BY <1>1, <1>2, <2>3 DEF OpeningTells
  <2>4. CASE /\ opening'.stage = "connect" /\ ~opening'.live
             /\ opening'.conn \in Conns /\ conns[opening'.conn] = "none"
    BY <1>1, <1>2, <2>4 DEF OpeningTells, SocketsTell
  <2> QED
    BY <2>1, <2>2, <2>3, <2>4
<1>5. OpenTells'
  <2> SUFFICES ASSUME open'.live
               PROVE  OpenTells'
    BY DEF OpenTells
  <2>1. /\ open.live /\ open'.conn = open.conn
        /\ \/ open'.active \in {NoTurn, open.active}
           \/ Fits(inbox[open.conn], 0, open'.active, running)
        /\ \/ ~processing'
           \/ processing' = processing /\ \A g \in Gens : Asks(g) => call'[g] = call[g]
    OBVIOUS
  <2>2. Fits(inbox[open.conn], 0, open'.active, running)
    <3>1. Fits(inbox[open.conn], 0, open.active, running)
      BY <1>1, <2>1 DEF OpenTells
    <3> QED
      BY <2>1, <3>1 DEF Fits
  <2>3. CallsFit'
    BY <1>1, <2>1 DEF OpenTells, CallsFit
  <2>4. processing' => Tells(inbox[open.conn], 0, running) \/ (\E g \in Gens : Asks(g))'
    BY <1>1, <2>1 DEF OpenTells, Asks, Awaits
  <2> QED
    BY <1>1, <2>1, <2>2, <2>3, <2>4 DEF OpenTells
<1> QED
  BY <1>3, <1>4, <1>5

\* What the App Server adds to an inbox in one step: nothing, one message, or the answer
\* to a turn/start and its notification.
AnswerTo(c, m) ==
    /\ m.what = "reply" /\ m.to.conn = c /\ m.turn \in {NoTurn, running}
    /\ (m.answer = "ok" /\ m.to.kind # "read") => running # NoTurn
StartsFor(c) ==
    \E m \in Messages, n \in Messages :
        /\ inbox'[c] = Append(Append(inbox[c], m), n)
        /\ m.what = "reply" /\ m.to.conn = c /\ n.what = "started" /\ n.turn = m.turn
        /\ running' = n.turn /\ n.turn # NoTurn /\ running = NoTurn
        /\ c \in subscribed' /\ \E r \in wire : r.conn = c
Hears(c) ==
    \/ inbox'[c] = inbox[c] /\ (running' = running \/ c \notin subscribed \/ conns[c] # "up")
    \/ \E m \in Messages :
          /\ inbox'[c] = Append(inbox[c], m) /\ Change(m, running, running')
          /\ m.what # "reply" => c \in subscribed /\ conns[c] = "up"
          /\ m.what = "reply" => AnswerTo(c, m) /\ \E r \in wire : r.conn = c
    \/ StartsFor(c)

\* A notification to the subscribers.
LEMMA ToldHears ==
    ASSUME Types, NEW n \in Messages, n.what # "reply", Change(n, running, running'),
           NEW c \in Conns, inbox'[c] = Told(<<n>>, subscribed)[c]
    PROVE  Hears(c)
<1>1. inbox[c] \in Seq(Messages)
  BY InboxIs
<1>2. inbox[c] \o <<n>> = Append(inbox[c], n)
  BY <1>1, AppendWithin
<1>3. CASE c \in subscribed /\ conns[c] = "up"
  BY <1>2, <1>3 DEF Told, Hears
<1>4. CASE ~(c \in subscribed /\ conns[c] = "up")
  BY <1>4 DEF Told, Hears
<1> QED
  BY <1>3, <1>4

\* A reply to one request.
LEMMA ReplyHears ==
    ASSUME Types, NEW r \in wire, NEW answer \in {"ok", "refused", "unknown"},
           NEW turn \in {NoTurn, running}, running' = running,
           answer = "ok" /\ r.kind # "read" => running # NoTurn,
           inbox' = Reply(r, answer, turn), NEW c \in Conns
    PROVE  Hears(c)
<1>1. r \in Requests /\ r.conn \in MaybeConn /\ running \in MaybeTurn
  BY RequestIs DEF Types, NetTypes
<1>2. CASE r.conn # c
  <2>1. inbox'[c] = inbox[c]
    BY <1>2 DEF Reply, Types, NetTypes
  <2> QED
    BY <2>1 DEF Hears
<1>3. CASE r.conn = c
  <2>1. PICK y : y = [what |-> "reply", to |-> r, answer |-> answer, turn |-> turn]
    OBVIOUS
  <2>2. /\ y \in Messages /\ y.what = "reply" /\ y.to = r /\ y.answer = answer /\ y.turn = turn
    BY <1>1, <2>1 DEF Messages, MaybeTurn
  <2>3. inbox' = [inbox EXCEPT ![r.conn] = Append(inbox[r.conn], y)]
    BY <1>3, <2>1, NullAssumption DEF Reply
  <2>4. inbox'[c] = Append(inbox[c], y)
    BY <1>3, <2>3 DEF Types, NetTypes
  <2>5. AnswerTo(c, y)
    BY <1>3, <2>2 DEF AnswerTo
  <2>6. Change(y, running, running')
    BY <2>2 DEF Change
  <2> QED
    BY <1>3, <2>2, <2>4, <2>5, <2>6 DEF Hears
<1> QED
  BY <1>2, <1>3

LEMMA StartHears ==
    ASSUME Types, NEW r \in wire, SrvStartsTurn(r), NEW c \in Conns
    PROVE  Hears(c) /\ (c \in subscribed' => c \in subscribed \/ StartsFor(c))
<1>1. r \in Requests /\ r.conn \in MaybeConn
  BY RequestIs DEF Types, NetTypes
<1>2. PICK n : n = Note("started", turns + 1)
  OBVIOUS
<1>3. PICK y : y = [what |-> "reply", to |-> r, answer |-> "ok", turn |-> turns + 1]
  OBVIOUS
<1>4. turns + 1 \in MaybeTurn /\ turns + 1 # NoTurn
  BY BoundAssumption DEF SrvStartsTurn, MaybeTurn, Turns, Types, NetTypes, NoTurn
<1>5. /\ n \in Messages /\ n.what = "started" /\ n.turn = turns + 1
      /\ y \in Messages /\ y.what = "reply" /\ y.to = r /\ y.turn = turns + 1
  BY <1>1, <1>2, <1>3, <1>4 DEF Messages, Note
<1>6. /\ inbox' = [d \in Conns |-> IF d = r.conn THEN inbox[d] \o <<y>> \o <<n>>
                                   ELSE Told(<<n>>, subscribed)[d]]
      /\ running = NoTurn /\ running' = turns + 1
      /\ subscribed' = IF r.conn = NoConn THEN subscribed ELSE subscribed \cup {r.conn}
  BY <1>2, <1>3 DEF SrvStartsTurn
<1>7. CASE c = r.conn
  <2>1. inbox[c] \in Seq(Messages)
    BY InboxIs
  <2>2. PICK s \in Seq(Messages) : inbox[c] \o <<y>> = s /\ s = Append(inbox[c], y)
    <3>1. PICK s : s = inbox[c] \o <<y>>
      OBVIOUS
    <3>2. s \in Seq(Messages) /\ s = Append(inbox[c], y)
      BY <1>5, <2>1, <3>1, AppendWithin
    <3> QED
      BY <3>1, <3>2
  <2>3. s \o <<n>> = Append(s, n)
    BY <1>5, <2>2, AppendWithin
  <2>4. inbox'[c] = Append(Append(inbox[c], y), n)
    BY <1>6, <1>7, <2>2, <2>3
  <2>5. StartsFor(c)
    BY <1>4, <1>5, <1>6, <1>7, <2>4, NullAssumption DEF StartsFor
  <2> QED
    BY <1>7, <2>5 DEF Hears
<1>8. CASE c # r.conn
  <2>1. inbox'[c] = Told(<<n>>, subscribed)[c]
    BY <1>6, <1>8
  <2>2. Change(n, running, running')
    BY <1>4, <1>5, <1>6 DEF Change
  <2>3. Hears(c)
    BY <1>5, <2>1, <2>2, ToldHears
  <2> QED
    BY <1>6, <1>8, <2>3
<1> QED
  BY <1>7, <1>8

LEMMA ServerHears ==
    ASSUME Types, SocketsTell, faults' = faults, NEW c \in Conns,
           SrvCompletes \/ SrvOtherStarts \/ \E r \in wire : SrvHandles(r)
    PROVE  Hears(c) /\ (c \in subscribed' => c \in subscribed \/ StartsFor(c))
<1>1. running \in MaybeTurn /\ turns \in 0..MaxTurns /\ NoTurn = 0
      /\ faults \in Nat
  BY BoundAssumption DEF Types, NetTypes, LinkTypes, NoTurn
<1>2. CASE SrvCompletes
  <2>1. /\ running # NoTurn /\ running' = NoTurn /\ subscribed' = subscribed
        /\ inbox' = Told(<<Note("completed", running)>>, subscribed)
    BY <1>1, <1>2 DEF SrvCompletes
  <2>2. PICK n : n = Note("completed", running)
    OBVIOUS
  <2>3. n \in Messages /\ n.what = "completed" /\ n.turn = running
    BY <1>1, <2>2 DEF Messages, Note
  <2>4. Change(n, running, running') /\ inbox'[c] = Told(<<n>>, subscribed)[c]
    BY <2>1, <2>2, <2>3 DEF Change
  <2> QED
    BY <2>1, <2>3, <2>4, ToldHears
<1>3. CASE SrvOtherStarts
  <2>1. /\ running = NoTurn /\ running' = turns + 1 /\ subscribed' = subscribed
        /\ inbox' = Told(<<Note("started", turns + 1)>>, subscribed)
    BY <1>3 DEF SrvOtherStarts
  <2>2. PICK n : n = Note("started", turns + 1)
    OBVIOUS
  <2>3. turns + 1 \in MaybeTurn /\ turns + 1 # NoTurn
    BY <1>1, <1>3, BoundAssumption DEF SrvOtherStarts, MaybeTurn, Turns
  <2>4. n \in Messages /\ n.what = "started" /\ n.turn = turns + 1
    BY <2>2, <2>3 DEF Messages, Note
  <2>5. Change(n, running, running') /\ inbox'[c] = Told(<<n>>, subscribed)[c]
    BY <2>1, <2>2, <2>3, <2>4 DEF Change
  <2> QED
    BY <2>1, <2>4, <2>5, ToldHears
<1>4. ASSUME NEW r \in wire, SrvHandles(r)
      PROVE  Hears(c) /\ (c \in subscribed' => c \in subscribed \/ StartsFor(c))
  <2>1. CASE SrvReads(r)
    <3>1. r.kind = "read" /\ UNCHANGED <<subscribed, running>>
      BY <2>1 DEF SrvReads
    <3>2. PICK answer \in {"ok", "refused", "unknown"} : inbox' = Reply(r, answer, running)
      BY <2>1 DEF SrvReads
    <3> QED
      BY <3>1, <3>2, ReplyHears
  <2>2. CASE SrvSteers(r)
    <3>1. UNCHANGED <<subscribed, running>> /\ r.turn # NoTurn
      BY <2>2 DEF SrvSteers, SocketsTell
    <3>2. CASE running = r.turn /\ inbox' = Reply(r, "ok", running)
      BY <3>1, <3>2, ReplyHears
    <3>3. CASE inbox' = Reply(r, "refused", running)
      BY <3>1, <3>3, ReplyHears
    <3> QED
      BY <2>2, <3>1, <3>2, <3>3 DEF SrvSteers
  <2>3. CASE SrvStartsTurn(r)
    BY <2>3, StartHears
  <2>4. CASE SrvStartMeetsTurn(r)
    <3>1. UNCHANGED <<subscribed, running>>
      BY <2>4 DEF SrvStartMeetsTurn
    <3>2. CASE running # NoTurn /\ inbox' = Reply(r, "ok", running)
      BY <3>1, <3>2, ReplyHears
    <3>3. CASE inbox' = Reply(r, "refused", NoTurn)
      BY <3>1, <3>3, ReplyHears
    <3> QED
      BY <2>4, <3>1, <3>2, <3>3 DEF SrvStartMeetsTurn
  <2> QED
    BY <1>4, <2>1, <2>2, <2>3, <2>4 DEF SrvHandles
<1> QED
  BY <1>2, <1>3, <1>4

LEMMA HearsRight ==
    ASSUME Types, Types', NEW c \in Conns, c \in subscribed, conns[c] = "up", Hears(c)
    PROVE  /\ Grown(inbox[c], inbox'[c], running, running')
           /\ NotesAgree(inbox[c], running) => NotesAgree(inbox'[c], running')
           /\ RepliesRight(inbox[c], running) => RepliesRight(inbox'[c], running')
<1>1. inbox[c] \in Seq(Messages) /\ Len(inbox[c]) \in Nat /\ inbox'[c] \in Seq(Messages)
  BY DEF Types, NetTypes
<1>2. CASE inbox'[c] = inbox[c] /\ running' = running
  BY <1>1, <1>2 DEF Grown
<1>3. ASSUME NEW m \in Messages, inbox'[c] = Append(inbox[c], m), Change(m, running, running'),
             m.what = "reply" => AnswerTo(c, m)
      PROVE  /\ Grown(inbox[c], inbox'[c], running, running')
             /\ NotesAgree(inbox[c], running) => NotesAgree(inbox'[c], running')
             /\ RepliesRight(inbox[c], running) => RepliesRight(inbox'[c], running')
  <2> DEFINE q == inbox[c]  p == inbox'[c]
  <2>1. /\ Len(p) = Len(q) + 1 /\ p[Len(q) + 1] = m /\ \A i \in 1..Len(q) : p[i] = q[i]
        /\ \A i \in (Len(q) + 1)..Len(p) : i = Len(q) + 1
    BY <1>1, <1>3
  <2>2. Grown(q, p, running, running') /\ (NotesAgree(q, running) => NotesAgree(p, running'))
    BY <1>1, <1>3, GrownOnce, NotesGrow
  <2>3. m.what = "reply" => ReplyRight(p, Len(q) + 1, running')
    <3>1. \A j \in (Len(q) + 1 + 1)..Len(p) : FALSE
      BY <1>1, <2>1
    <3> QED
      BY <1>3, <2>1, <3>1 DEF ReplyRight, Fits, Tells, AnswerTo, Change
  <2> HIDE DEF q, p
  <2>4. RepliesRight(q, running) => RepliesRight(p, running')
    BY <1>1, <2>1, <2>2, <2>3, RepliesGrow DEF q, p
  <2> QED
    BY <2>2, <2>4 DEF q, p
<1>4. ASSUME StartsFor(c)
      PROVE  /\ Grown(inbox[c], inbox'[c], running, running')
             /\ NotesAgree(inbox[c], running) => NotesAgree(inbox'[c], running')
             /\ RepliesRight(inbox[c], running) => RepliesRight(inbox'[c], running')
  <2>1. PICK m \in Messages, n \in Messages :
            /\ inbox'[c] = Append(Append(inbox[c], m), n)
            /\ m.what = "reply" /\ n.what = "started" /\ n.turn = m.turn
            /\ running' = n.turn /\ n.turn # NoTurn /\ running = NoTurn
    BY <1>4 DEF StartsFor
  <2> DEFINE q == inbox[c]  s == Append(inbox[c], m)  p == inbox'[c]
  <2>2. s \in Seq(Messages) /\ p = Append(s, n) /\ s = Append(q, m)
    BY <1>1, <2>1
  <2>3. /\ Len(p) = Len(q) + 2 /\ p[Len(q) + 1] = m /\ p[Len(q) + 2] = n
        /\ \A i \in 1..Len(q) : p[i] = q[i]
        /\ \A i \in (Len(q) + 1)..Len(p) : i = Len(q) + 1 \/ i = Len(q) + 2
    BY <1>1, <2>1
  <2>4. Change(m, running, running) /\ Change(n, running, running')
    BY <2>1 DEF Change
  <2>5. q \in Seq(Messages) /\ p \in Seq(Messages) /\ Len(q) \in Nat /\ Len(s) = Len(q) + 1
    BY <1>1
  <2> HIDE DEF q, s, p
  <2>6. Grown(q, s, running, running) /\ Grown(s, p, running, running')
    BY <2>2, <2>4, <2>5, GrownOnce
  <2>7. Grown(q, p, running, running')
    <3>1. \A i \in 0..Len(q) : i \in 0..Len(s)
      BY <2>5
    <3> QED
      BY <2>3, <2>5, <2>6, <3>1 DEF Grown
  <2>8. NotesAgree(q, running) => NotesAgree(p, running')
    BY <2>2, <2>4, <2>5, NotesGrow
  <2>9. ReplyRight(p, Len(q) + 1, running')
    <3>1. Len(q) + 2 \in (Len(q) + 1 + 1)..Len(p) /\ Len(q) + 1 < Len(p) /\ Len(q) + 1 + 1 = Len(q) + 2
      BY <2>3, <2>5
    <3> QED
      BY <2>1, <2>3, <3>1 DEF ReplyRight, Fits, Tells
  <2>10. RepliesRight(q, running) => RepliesRight(p, running')
    BY <2>1, <2>3, <2>5, <2>7, <2>9, RepliesGrow
  <2> QED
    BY <2>7, <2>8, <2>10 DEF q, p
<1> QED
  BY <1>2, <1>3, <1>4 DEF Hears

\* A connection the App Server has just subscribed.
LEMMA FirstHears ==
    ASSUME Types, NEW c \in Conns, StartsFor(c), \A i \in 1..Len(inbox[c]) : inbox[c][i].what = "reply"
    PROVE  NotesAgree(inbox'[c], running')
<1>1. PICK m \in Messages, n \in Messages :
          /\ inbox'[c] = Append(Append(inbox[c], m), n)
          /\ m.what = "reply" /\ n.what = "started" /\ n.turn = m.turn
          /\ running' = n.turn /\ n.turn # NoTurn /\ running = NoTurn
  BY DEF StartsFor
<1>2. PICK s : s = Append(inbox[c], m)
  OBVIOUS
<1>3. NotesAgree(inbox[c], running) /\ inbox[c] \in Seq(Messages)
  BY NotesOfNone, InboxIs
<1>4. Change(m, running, running) /\ Change(n, running, running')
  BY <1>1 DEF Change
<1>5. s \in Seq(Messages) /\ NotesAgree(s, running)
  BY <1>2, <1>3, <1>4, NotesGrow
<1> QED
  BY <1>1, <1>2, <1>4, <1>5, NotesGrow

\* Replies on a connection are to the requests made on it.
LEMMA RepliesHeard ==
    ASSUME Types, NEW c \in Conns, Hears(c),
           \A i \in 1..Len(inbox[c]) : inbox[c][i].what = "reply" => inbox[c][i].to.conn = c
    PROVE  /\ \A i \in 1..Len(inbox'[c]) : inbox'[c][i].what = "reply" => inbox'[c][i].to.conn = c
           /\ (\A i \in 1..Len(inbox[c]) : inbox[c][i].what # "reply") /\ (\A r \in wire : r.conn # c)
                  => \A i \in 1..Len(inbox'[c]) : inbox'[c][i].what # "reply"
           /\ c \notin subscribed' /\ subscribed \subseteq subscribed'
              /\ (\A i \in 1..Len(inbox[c]) : inbox[c][i].what = "reply")
                  => \A i \in 1..Len(inbox'[c]) : inbox'[c][i].what = "reply"
<1>1. inbox[c] \in Seq(Messages) /\ Len(inbox[c]) \in Nat
  BY InboxIs
<1>2. CASE inbox'[c] = inbox[c]
  BY <1>2
<1>3. ASSUME NEW m \in Messages, inbox'[c] = Append(inbox[c], m),
             m.what # "reply" => c \in subscribed,
             m.what = "reply" => AnswerTo(c, m) /\ \E r \in wire : r.conn = c,
             NEW i \in 1..Len(inbox'[c])
      PROVE  /\ inbox'[c][i].what = "reply" => inbox'[c][i].to.conn = c
             /\ (\A j \in 1..Len(inbox[c]) : inbox[c][j].what # "reply") /\ (\A r \in wire : r.conn # c)
                  => inbox'[c][i].what # "reply"
             /\ c \notin subscribed /\ (\A j \in 1..Len(inbox[c]) : inbox[c][j].what = "reply")
                  => inbox'[c][i].what = "reply"
  <2>1. inbox'[c][i] = m \/ (i \in 1..Len(inbox[c]) /\ inbox'[c][i] = inbox[c][i])
    BY <1>1, <1>3
  <2> QED
    BY <1>3, <2>1 DEF AnswerTo
<1>4. ASSUME StartsFor(c), NEW i \in 1..Len(inbox'[c])
      PROVE  inbox'[c][i].what = "reply" => inbox'[c][i].to.conn = c
  <2>1. PICK m \in Messages, n \in Messages :
            /\ inbox'[c] = Append(Append(inbox[c], m), n)
            /\ m.what = "reply" /\ m.to.conn = c /\ n.what = "started"
    BY <1>4 DEF StartsFor
  <2>2. inbox'[c][i] \in {m, n} \/ (i \in 1..Len(inbox[c]) /\ inbox'[c][i] = inbox[c][i])
    BY <1>1, <1>4, <2>1
  <2> QED
    BY <2>1, <2>2
<1>5. CASE StartsFor(c)
  BY <1>4, <1>5 DEF StartsFor
<1>6. CASE \E m \in Messages :
              /\ inbox'[c] = Append(inbox[c], m)
              /\ m.what # "reply" => c \in subscribed
              /\ m.what = "reply" => AnswerTo(c, m) /\ \E r \in wire : r.conn = c
  BY <1>3, <1>6
<1> QED
  BY <1>2, <1>5, <1>6 DEF Hears

LEMMA ServerTells ==
    ASSUME Types, Types', LinkInv, EndInv,
           SrvCompletes \/ SrvOtherStarts \/ \E r \in wire : SrvHandles(r)
    PROVE  EndInv'
<1> SUFFICES ASSUME faults' = 0, ~overtaken'
             PROVE  SocketsTell' /\ OpeningTells' /\ OpenTells'
  BY DEF EndInv
<1>1. faults = 0 /\ faults' = faults /\ ~overtaken /\ overtaken' = overtaken
  BY BoundAssumption DEF SrvCompletes, SrvOtherStarts, SrvHandles, Types, LinkTypes
<1>2. SocketsTell /\ OpeningTells /\ OpenTells
  BY <1>1 DEF EndInv
<1>3. /\ UNCHANGED <<call, open, opening, conns, processing>>
      /\ wire' \subseteq wire /\ subscribed \subseteq subscribed'
  BY DEF SrvCompletes, SrvOtherStarts, SrvHandles, SrvReads, SrvSteers, SrvStartsTurn,
         SrvStartMeetsTurn
<1>4. \A c \in Conns : Hears(c) /\ (c \in subscribed' => c \in subscribed \/ StartsFor(c))
  BY <1>1, <1>2, ServerHears
<1>5. ASSUME NEW c \in Conns, Unused(c)
      PROVE  Unused(c)'
  <2>1. \A i \in 1..Len(inbox'[c]) : inbox'[c][i].what # "reply"
    BY <1>2, <1>4, <1>5, RepliesHeard DEF SocketsTell, Unused
  <2> QED
    BY <1>3, <1>5, <2>1 DEF Unused, Awaits
<1>6. SocketsTell'
  <2>1. ASSUME NEW c \in Conns
        PROVE  /\ c \notin subscribed' => \A i \in 1..Len(inbox'[c]) : inbox'[c][i].what = "reply"
               /\ c \in subscribed' /\ conns'[c] = "up" => NotesAgree(inbox'[c], running')
               /\ conns'[c] = "none" => Unused(c)' /\ c \notin subscribed'
               /\ \A i \in 1..Len(inbox'[c]) : inbox'[c][i].what = "reply" => inbox'[c][i].to.conn = c
    <3>1. /\ c \notin subscribed => \A i \in 1..Len(inbox[c]) : inbox[c][i].what = "reply"
          /\ c \in subscribed /\ conns[c] = "up" => NotesAgree(inbox[c], running)
          /\ conns[c] = "none" => Unused(c) /\ c \notin subscribed
          /\ \A i \in 1..Len(inbox[c]) : inbox[c][i].what = "reply" => inbox[c][i].to.conn = c
      BY <1>2 DEF SocketsTell
    <3>2. /\ \A i \in 1..Len(inbox'[c]) : inbox'[c][i].what = "reply" => inbox'[c][i].to.conn = c
          /\ c \notin subscribed' => \A i \in 1..Len(inbox'[c]) : inbox'[c][i].what = "reply"
      BY <1>3, <1>4, <3>1, RepliesHeard
    <3>3. c \in subscribed' /\ conns'[c] = "up" => NotesAgree(inbox'[c], running')
      BY <1>3, <1>4, <3>1, HearsRight, FirstHears
    <3>4. conns'[c] = "none" => Unused(c)' /\ c \notin subscribed'
      BY <1>3, <1>4, <1>5, <3>1 DEF StartsFor, Unused
    <3> QED
      BY <3>2, <3>3, <3>4
  <2>2. \A r \in wire' : r.kind \in {"steer", "resteer"} => r.turn # NoTurn
    BY <1>2, <1>3 DEF SocketsTell
  <2> QED
    BY <2>1, <2>2 DEF SocketsTell
<1>7. OpeningTells'
  <2>1. opening.stage # "no" => opening.conn \in Conns /\ Unused(opening.conn)
    BY <1>2, ThreadIs DEF OpeningTells
  <2>2. ASSUME opening.stage # "no"
        PROVE  Unused(opening.conn)'
    <3>1. PICK c \in Conns : c = opening.conn /\ Unused(c)
      BY <2>1, <2>2
    <3>2. Unused(c)' /\ c = opening'.conn
      BY <1>3, <1>5, <3>1
    <3> QED
      BY <3>2
  <2>3. ASSUME opening.stage = "read", opening.live
        PROVE  /\ opening.conn \in subscribed
               /\ Fits(inbox'[opening.conn], 0, opening.active, running')
               /\ opening.active # NoTurn => Tells(inbox'[opening.conn], 0, running')
    <3>1. opening.conn \in Conns /\ conns[opening.conn] = "up" /\ opening.active \in MaybeTurn
      BY <2>3, ThreadIs
    <3>2. /\ opening.conn \in subscribed
          /\ Fits(inbox[opening.conn], 0, opening.active, running)
          /\ opening.active # NoTurn => Tells(inbox[opening.conn], 0, running)
      BY <1>2, <2>3 DEF OpeningTells
    <3>3. Grown(inbox[opening.conn], inbox'[opening.conn], running, running')
      BY <1>4, <3>1, <3>2, HearsRight
    <3>4. 0 \in 0..Len(inbox[opening.conn])
      BY <3>1, InboxIs
    <3> QED
      BY <3>1, <3>2, <3>3, <3>4 DEF Grown
  <2> QED
    BY <1>2, <1>3, <2>2, <2>3 DEF OpeningTells
<1>8. OpenTells'
  <2> SUFFICES ASSUME open.live
               PROVE  OpenTells'
    BY <1>3 DEF OpenTells
  <2>1. /\ open.conn \in subscribed
        /\ Fits(inbox[open.conn], 0, open.active, running)
        /\ RepliesRight(inbox[open.conn], running)
        /\ CallsFit
        /\ processing => Tells(inbox[open.conn], 0, running) \/ \E g \in Gens : Asks(g)
    BY <1>2 DEF OpenTells
  <2>2. open.conn \in Conns /\ conns[open.conn] = "up" /\ open.active \in MaybeTurn
    BY ThreadIs
  <2>3. /\ Grown(inbox[open.conn], inbox'[open.conn], running, running')
        /\ RepliesRight(inbox'[open.conn], running')
    BY <1>4, <2>1, <2>2, HearsRight
  <2>4. 0 \in 0..Len(inbox[open.conn]) /\ Len(inbox[open.conn]) \in Nat /\ Len(inbox'[open.conn]) \in Nat
    BY <2>2, InboxIs DEF Types, NetTypes
  <2>5. /\ Fits(inbox'[open.conn], 0, open.active, running')
        /\ Tells(inbox[open.conn], 0, running) => Tells(inbox'[open.conn], 0, running')
    BY <2>1, <2>2, <2>3, <2>4 DEF Grown
  <2>6. CallsFit'
    <3> SUFFICES ASSUME NEW g \in Gens, Awaits(g), call[g].conn = open.conn
                 PROVE  call[g].step # "read" /\ AnswerFits(call[g], inbox'[open.conn], running')
      BY <1>3 DEF CallsFit, Awaits
    <3>1. call[g].step # "read" /\ AnswerFits(call[g], inbox[open.conn], running)
      BY <2>1 DEF CallsFit
    <3>2. call[g].found \in MaybeTurn
      BY ThreadIs
    <3> QED
      BY <2>3, <2>4, <3>1, <3>2 DEF Grown, AnswerFits
  <2>7. \A g \in Gens : Asks(g)' <=> Asks(g)
    BY <1>3 DEF Asks, Awaits
  <2> QED
    BY <1>3, <2>1, <2>3, <2>5, <2>6, <2>7 DEF OpenTells
<1> QED
  BY <1>6, <1>7, <1>8

LEMMA OpenParts ==
    ASSUME Types, NEW turn
    PROVE  OpenWith(turn).live = open.live /\ OpenWith(turn).active = turn /\ OpenWith(turn).conn = open.conn
BY Zenon DEF OpenWith, Types, LinkTypes, Opens

LEMMA OpeningParts ==
    ASSUME Types
    PROVE  /\ \A stage \in Stages : /\ OpeningAt(stage).stage = stage /\ OpeningAt(stage).conn = opening.conn
                                    /\ OpeningAt(stage).live = opening.live
                                    /\ OpeningAt(stage).active = opening.active
           /\ \A turn \in MaybeTurn : /\ OpeningKnows(turn).stage = "read"
                                      /\ OpeningKnows(turn).conn = opening.conn
                                      /\ OpeningKnows(turn).active = turn
<1>1. opening \in Openings
  BY DEF Types, LinkTypes
<1>2. \A stage \in Stages : /\ OpeningAt(stage).stage = stage /\ OpeningAt(stage).conn = opening.conn
                            /\ OpeningAt(stage).live = opening.live
                            /\ OpeningAt(stage).active = opening.active
  BY <1>1, Zenon DEF OpeningAt, Openings
<1>3. \A turn \in MaybeTurn : /\ OpeningKnows(turn).stage = "read"
                              /\ OpeningKnows(turn).conn = opening.conn
                              /\ OpeningKnows(turn).active = turn
  BY <1>1, Zenon DEF OpeningKnows, Openings
<1> QED
  BY <1>2, <1>3

LEMMA ConnectingParts ==
    ASSUME NEW c, NEW by
    PROVE  /\ Connecting(c, FALSE, by).stage = "connect" /\ Connecting(c, FALSE, by).conn = c
           /\ Connecting(c, FALSE, by).live = FALSE
BY Zenon DEF Connecting, NotOpening

LEMMA NobodyAsks ==
    /\ NoCall.step \notin Kinds /\ "open" \notin Kinds /\ NoOpen.live = FALSE
    /\ NotOpening.stage = "no"
BY DEF NoCall, NoOpen, NotOpening, Kinds

\* Steps of the queue, of the viewers and of the session.
LEMMA QueueTells ==
    ASSUME Types, LinkInv, EndInv,
           \/ UNCHANGED vars \/ \E m \in Msgs : Phone(m)
           \/ Tick \/ OtherSaves \/ Drain \/ Shutdown \/ Restart \/ Watch \/ Leave \/ Retire \/ Reconcile
    PROVE  EndInv'
<1>1. CASE \/ UNCHANGED vars \/ \E m \in Msgs : Phone(m)
           \/ Tick \/ OtherSaves \/ Drain \/ Shutdown \/ Restart \/ Watch
  <2>1. /\ UNCHANGED <<subscribed, inbox, wire, running, faults, overtaken, open, opening, conns, processing>>
        /\ UNCHANGED call \/ Drain
    BY <1>1
    DEF vars, Phone, SubmitKnown, SubmitPending, SubmitNew, Retry, Delete, Tick, OtherSaves, Drain,
        Shutdown, Restart, Watch
  <2>2. \A g \in Gens : (Awaits(g)' => Awaits(g) /\ call'[g] = call[g]) /\ (Awaits(g) => call'[g] = call[g])
    <3>1. CASE UNCHANGED call
      BY <3>1 DEF Awaits
    <3>2. CASE Drain
      <4>1. UNCHANGED call \/ (call[gen].step = "idle" /\ call' = [call EXCEPT ![gen] = CallFor(Head(queue))])
        BY <3>2 DEF Drain, DrainReady
      <4>2. CallFor(Head(queue)).step = "open"
        BY DEF CallFor, NoCall
      <4> QED
        BY <4>1, <4>2 DEF Awaits, Kinds, Types, CallTypes
    <3> QED
      BY <2>1, <3>1, <3>2
  <2> QED
    BY <2>1, <2>2, EndStays DEF Asks
<1>2. CASE Retire \/ (Leave /\ ~processing)
  <2>1. /\ Close(open, conns) /\ processing' = FALSE
        /\ UNCHANGED <<subscribed, inbox, wire, running, faults, overtaken, opening, call>>
    BY <1>2 DEF Retire, Leave, Types, LinkTypes
  <2>2. ~open'.live /\ \A c \in Conns : conns'[c] = conns[c] \/ conns'[c] = "closing"
    BY <2>1, NobodyAsks DEF Close, Types, LinkTypes
  <2> QED
    BY <2>1, <2>2, EndStays DEF Awaits
<1>3. CASE Leave /\ processing
  <2>1. UNCHANGED <<subscribed, inbox, wire, running, faults, overtaken, opening, call, open, conns, processing>>
    BY <1>3 DEF Leave
  <2> QED
    BY <2>1, EndStays DEF Awaits
<1>4. CASE Reconcile
  <2>1. /\ UNCHANGED <<subscribed, inbox, wire, running, faults, overtaken, opening, call, conns>>
        /\ open' = OpenWith(NoTurn) /\ processing' = FALSE
    BY <1>4 DEF Reconcile
  <2> QED
    BY <2>1, OpenParts, EndStays DEF Awaits
<1> QED
  BY <1>1, <1>2, <1>3, <1>4

\* A thread begins to be opened.
LEMMA StartTells ==
    ASSUME Types, LinkInv, EndInv, NEW by, StartOpen(by), open = NoOpen,
           UNCHANGED <<subscribed, inbox, wire, running, faults, overtaken, call, open>>
    PROVE  EndInv'
<1>1. PICK c \in Conns : /\ conns[c] = "none" /\ conns' = [conns EXCEPT ![c] = "up"]
                         /\ opening' = Connecting(c, FALSE, by)
  BY DEF StartOpen
<1>2. opening'.stage = "connect" /\ opening'.conn = c /\ ~opening'.live
  <2>1. /\ Connecting(c, FALSE, by).stage = "connect" /\ Connecting(c, FALSE, by).conn = c
        /\ Connecting(c, FALSE, by).live = FALSE
    BY ConnectingParts, Zenon
  <2> QED
    BY <1>1, <2>1
<1>3. \A d \in Conns : conns'[d] = conns[d] \/ (conns[d] = "none" /\ conns'[d] = "up")
  BY <1>1 DEF Types, LinkTypes
<1>4. ~open'.live
  BY NobodyAsks
<1> QED
  BY <1>1, <1>2, <1>3, <1>4, EndStays DEF Awaits

\* The thread has been opened.
LEMMA OpenedTells ==
    ASSUME Types, LinkInv, EndInv, Flush \/ Opened \/ \E w \in subWaits : SubWakes(w)
    PROVE  EndInv'
<1>1. CASE Flush \/ Opened
  <2>1. /\ UNCHANGED <<subscribed, inbox, wire, running, faults, overtaken, call, open, conns, processing>>
        /\ opening' = opening \/ opening' = NotOpening
    BY <1>1 DEF Flush, Opened
  <2> QED
    BY <2>1, NobodyAsks, EndStays DEF Awaits
<1>2. ASSUME NEW w \in subWaits, SubWakes(w)
      PROVE  EndInv'
  <2>1. UNCHANGED <<subscribed, inbox, wire, running, faults, overtaken, call, open, processing>>
    BY <1>2 DEF SubWakes
  <2>2. CASE open # NoOpen
    <3>1. UNCHANGED <<opening, conns>>
      BY <1>2, <2>2 DEF SubWakes
    <3> QED
      BY <2>1, <3>1, EndStays DEF Awaits
  <2>3. CASE open = NoOpen
    <3>1. StartOpen(w)
      BY <1>2, <2>3 DEF SubWakes
    <3> QED
      BY <2>1, <2>3, <3>1, StartTells
  <2> QED
    BY <2>2, <2>3
<1> QED
  BY <1>1, <1>2

\* A timeout, an opening that fails or a broken connection counts as a fault.
LEMMA FaultTells ==
    ASSUME Types,
           \/ HistoryTimesOut \/ OpenFails \/ \E g \in Gens : RequestTimesOut(g)
           \/ \E c \in Conns : Disconnect(c)
    PROVE  EndInv'
<1>1. faults' = faults + 1
  BY DEF HistoryTimesOut, OpenFails, RequestTimesOut, Disconnect
<1>2. faults \in Nat
  BY BoundAssumption DEF Types, LinkTypes
<1>3. faults' # 0
  BY <1>1, <1>2
<1> QED
  BY <1>3 DEF EndInv

\* The hub is down: no connection is left.
LEMMA DownTells ==
    ASSUME Types, EndInv, GoesDown
    PROVE  EndInv'
<1> SUFFICES ASSUME faults = 0, ~overtaken
             PROVE  SocketsTell' /\ OpeningTells' /\ OpenTells'
  BY DEF EndInv, GoesDown
<1>1. SocketsTell
  BY DEF EndInv
<1>2. /\ call' = [g \in Gens |-> NoCall] /\ open' = NoOpen /\ opening' = NotOpening
      /\ conns' = [c \in Conns |-> "none"] /\ subscribed' = {} /\ inbox' = [c \in Conns |-> <<>>]
      /\ wire' = {OnConn(r, NoConn) : r \in wire}
  BY DEF GoesDown
<1>3. \A r \in wire' : r.conn = NoConn /\ (r.kind \in {"steer", "resteer"} => r.turn # NoTurn)
  <2> TAKE r \in wire'
  <2>1. PICK s \in wire : r = OnConn(s, NoConn)
    BY <1>2
  <2>2. s \in Requests
    BY DEF Types, NetTypes
  <2>3. r.conn = NoConn /\ r.kind = s.kind /\ r.turn = s.turn
    BY <2>1, <2>2, Zenon DEF OnConn, Requests
  <2> QED
    BY <1>1, <2>3 DEF SocketsTell
<1>4. \A c \in Conns : inbox'[c] = <<>> /\ Unused(c)'
  BY <1>2, <1>3, NobodyAsks, NullAssumption DEF Unused, Awaits
<1>5. SocketsTell'
  BY <1>2, <1>3, <1>4 DEF SocketsTell
<1>6. OpeningTells' /\ OpenTells'
  BY <1>2, NobodyAsks DEF OpeningTells, OpenTells
<1> QED
  BY <1>5, <1>6

\* What a thread is read with fits what its connection will tell.
LEMMA ReadFits ==
    ASSUME NEW q \in Seq(Messages), NEW v, NotesAgree(q, v)
    PROVE  Fits(q, 0, v, v)
<1>1. Len(q) \in Nat
  OBVIOUS
<1>2. SUFFICES ASSUME \A j \in 1..Len(q) : q[j].what # "started"
               PROVE  \A j \in 1..Len(q) : q[j].what = "completed" => v = NoTurn
  BY DEF Fits
<1>3. ASSUME NEW j \in 1..Len(q), q[j].what = "completed", v # NoTurn
      PROVE  FALSE
  <2>1. StartsIn(q, j, Len(q), v)
    BY <1>3 DEF NotesAgree
  <2>2. \A k \in j..Len(q) : k \in 1..Len(q)
    BY <1>1
  <2> QED
    BY <1>2, <2>1, <2>2 DEF StartsIn
<1> QED
  BY <1>3

\* A thread is resumed and read.
LEMMA ResumeTells ==
    ASSUME Types, LinkInv, EndInv, Resume \/ ReadHistory
    PROVE  EndInv'
<1>1. /\ UNCHANGED <<faults, overtaken, call, open, conns, inbox, wire, running, processing>>
      /\ opening.stage \in {"connect", "resumed"}
  BY DEF Resume, ReadHistory
<1> SUFFICES ASSUME faults = 0, ~overtaken
             PROVE  SocketsTell' /\ OpeningTells' /\ OpenTells'
  BY <1>1 DEF EndInv
<1>2. SocketsTell /\ OpeningTells /\ OpenTells
  BY DEF EndInv
<1>3. PICK c \in Conns : c = opening.conn /\ conns[c] = "up" /\ Unused(c) /\ inbox[c] \in Seq(Messages)
  BY <1>1, <1>2, ThreadIs, InboxIs DEF OpeningTells
<1>4. open = NoOpen /\ ~opening.live
  BY <1>1, <1>2 DEF OpeningTells, LinkInv, OpeningOwns
<1>5. OpenTells'
  BY <1>1, <1>4, NobodyAsks DEF OpenTells
<1>6. \A d : Unused(d) => Unused(d)'
  BY <1>1 DEF Unused, Awaits
<1>7. {"resumed", "read"} \subseteq Stages /\ running \in MaybeTurn
  BY DEF Stages, Types, NetTypes
<1>8. CASE Resume /\ opening' = OpeningAt("resumed") /\ subscribed' = subscribed \cup {opening.conn}
  <2>1. opening'.stage = "resumed" /\ opening'.conn = c /\ ~opening'.live
    BY <1>3, <1>4, <1>7, <1>8, OpeningParts
  <2>2. NotesAgree(inbox[c], running)
    <3>1. CASE c \in subscribed
      BY <1>2, <1>3, <3>1 DEF SocketsTell
    <3>2. CASE c \notin subscribed
      BY <1>2, <3>2, NotesOfNone DEF SocketsTell
    <3> QED
      BY <3>1, <3>2
  <2>3. ASSUME NEW d \in Conns
        PROVE  /\ d \notin subscribed' => \A i \in 1..Len(inbox[d]) : inbox[d][i].what = "reply"
               /\ d \in subscribed' /\ conns[d] = "up" => NotesAgree(inbox[d], running)
               /\ conns[d] = "none" => Unused(d)' /\ d \notin subscribed'
               /\ \A i \in 1..Len(inbox[d]) : inbox[d][i].what = "reply" => inbox[d][i].to.conn = d
    <3>1. d = c \/ (d \in subscribed' <=> d \in subscribed)
      BY <1>3, <1>8
    <3>2. /\ d \notin subscribed => \A i \in 1..Len(inbox[d]) : inbox[d][i].what = "reply"
          /\ d \in subscribed /\ conns[d] = "up" => NotesAgree(inbox[d], running)
          /\ conns[d] = "none" => Unused(d) /\ d \notin subscribed
          /\ \A i \in 1..Len(inbox[d]) : inbox[d][i].what = "reply" => inbox[d][i].to.conn = d
      BY <1>2 DEF SocketsTell
    <3>3. Unused(d) => Unused(d)'
      BY <1>6
    <3>4. CASE d = c
      BY <1>3, <1>8, <2>2, <3>2, <3>4
    <3>5. CASE d # c
      BY <3>1, <3>2, <3>3, <3>5
    <3> QED
      BY <3>4, <3>5
  <2>4. SocketsTell'
    BY <1>1, <1>2, <2>3 DEF SocketsTell
  <2>5. Unused(c)' /\ c \in subscribed'
    BY <1>3, <1>6, <1>8
  <2>6. OpeningTells'
    BY <2>1, <2>5 DEF OpeningTells
  <2> QED
    BY <1>5, <2>4, <2>6
<1>9. CASE UNCHANGED subscribed /\ opening' = OpeningAt("read")
  <2>1. opening'.stage = "read" /\ opening'.conn = c /\ ~opening'.live
    BY <1>3, <1>4, <1>7, <1>9, OpeningParts
  <2>2. SocketsTell'
    BY <1>1, <1>2, <1>6, <1>9 DEF SocketsTell
  <2>3. Unused(c)'
    BY <1>3, <1>6
  <2>4. OpeningTells'
    BY <2>1, <2>3 DEF OpeningTells
  <2> QED
    BY <1>5, <2>2, <2>4
<1>10. CASE ReadHistory /\ opening' = OpeningKnows(running)
  <2>1. /\ opening'.stage = "read" /\ opening'.conn = c /\ opening'.active = running
        /\ UNCHANGED subscribed /\ opening.stage = "resumed"
    BY <1>3, <1>7, <1>10, OpeningParts DEF ReadHistory
  <2>2. SocketsTell'
    BY <1>1, <1>2, <1>6, <2>1 DEF SocketsTell
  <2>3. Unused(c)' /\ c \in subscribed
    BY <1>2, <1>3, <1>6, <2>1 DEF OpeningTells
  <2>4. Fits(inbox[c], 0, running, running)
    BY <1>2, <1>3, <2>3, ReadFits DEF SocketsTell
  <2>5. running # NoTurn => Tells(inbox[c], 0, running)
    BY DEF Tells
  <2>6. OpeningTells'
    BY <1>1, <2>1, <2>3, <2>4, <2>5 DEF OpeningTells
  <2> QED
    BY <1>5, <2>2, <2>6
<1> QED
  BY <1>8, <1>9, <1>10 DEF Resume, ReadHistory

\* The thread is entered in the map: whatever it was read to run will be told to end.
LEMMA OpenSetTells ==
    ASSUME Types, LinkInv, EndInv, OpenSet
    PROVE  EndInv'
<1>1. /\ opening.stage = "read" /\ open = NoOpen /\ ~processing
      /\ UNCHANGED <<faults, overtaken, call, subscribed, inbox, wire, running>>
  BY DEF OpenSet, LinkInv, OpeningOwns, BusyHasThread
<1>2. CASE closeAsked
  <2>1. /\ open' = NoOpen /\ conns' = [conns EXCEPT ![opening.conn] = "closing"]
        /\ opening' = NotOpening
    BY <1>2 DEF OpenSet
  <2>2. \A c \in Conns : conns'[c] = conns[c] \/ conns'[c] = "closing"
    BY <2>1 DEF Types, LinkTypes
  <2> QED
    BY <1>1, <2>1, <2>2, NobodyAsks, EndStays DEF Awaits
<1>3. CASE ~closeAsked
  <2>1. /\ open' = [conn |-> opening.conn, active |-> opening.active, live |-> opening.live]
        /\ processing' = (processing \/ opening.active # NoTurn)
        /\ opening' = OpeningAt("set") /\ UNCHANGED conns
    BY <1>3 DEF OpenSet
  <2>2. opening'.stage = "set" /\ opening'.conn = opening.conn
    <3>1. "set" \in Stages
      BY DEF Stages
    <3> QED
      BY <2>1, <3>1, OpeningParts
  <2>3. SUFFICES ASSUME faults = 0, ~overtaken
                 PROVE  SocketsTell' /\ OpeningTells' /\ OpenTells'
    BY <1>1 DEF EndInv
  <2>4. SocketsTell /\ OpeningTells
    BY <2>3 DEF EndInv
  <2>5. \A d : Unused(d) => Unused(d)'
    BY <1>1 DEF Unused, Awaits
  <2>6. SocketsTell'
    BY <1>1, <2>1, <2>4, <2>5 DEF SocketsTell
  <2>7. PICK c \in Conns : c = opening.conn /\ Unused(c)
    BY <1>1, <2>4, ThreadIs DEF OpeningTells
  <2>8. OpeningTells'
    BY <2>2, <2>5, <2>7 DEF OpeningTells
  <2>9. OpenTells'
    <3> SUFFICES ASSUME opening.live
                 PROVE  OpenTells'
      BY <2>1 DEF OpenTells
    <3>1. open'.live /\ open'.conn = c /\ open'.active = opening.active
      BY <2>1, <2>7
    <3>2. /\ c \in subscribed /\ Fits(inbox[c], 0, opening.active, running)
          /\ opening.active # NoTurn => Tells(inbox[c], 0, running)
      BY <1>1, <2>4, <2>7 DEF OpeningTells
    <3>3. RepliesRight(inbox[c], running)
      BY <2>7 DEF Unused, RepliesRight
    <3>4. CallsFit'
      BY <1>1, <2>7, <3>1 DEF CallsFit, Unused, Awaits
    <3> QED
      BY <1>1, <2>1, <3>1, <3>2, <3>3, <3>4 DEF OpenTells
  <2> QED
    BY <2>6, <2>8, <2>9
<1> QED
  BY <1>2, <1>3

\* A request of a call.
LEMMA SendTells ==
    ASSUME Types, LinkInv, EndInv, NEW g \in Gens, NEW kind \in Kinds, NEW turn, NEW c,
           Send(g, kind, turn, c), kind \in {"steer", "resteer"} => turn # NoTurn,
           c \in Conns => conns[c] # "none", opening.stage # "no" => opening.conn # c,
           c = open.conn \/ (Awaits(g) /\ call[g].conn = c),
           kind = "read" => ~open.live \/ c # open.conn,
           UNCHANGED <<faults, overtaken, subscribed, inbox, running, opening, conns>>,
           open'.live => /\ open.live /\ open'.conn = open.conn
                         /\ Fits(inbox[open.conn], 0, open'.active, running),
           processing' => processing \/ c = open.conn
    PROVE  EndInv'
<1> SUFFICES ASSUME faults = 0, ~overtaken
             PROVE  SocketsTell' /\ OpeningTells' /\ OpenTells'
  BY DEF EndInv
<1>1. SocketsTell /\ OpeningTells /\ OpenTells
  BY DEF EndInv
<1>2. PICK k : k = Asking(call[g], kind, turn, c)
  OBVIOUS
<1>3. k.step = kind /\ k.conn = c /\ k.answer = "none"
  BY <1>2, Zenon DEF Asking, NoCall
<1>4. /\ call' = [call EXCEPT ![g] = k]
      /\ \A r \in wire' : r \in wire \/ (r.conn = c /\ r.kind = kind /\ r.turn = turn)
  BY <1>2 DEF Send, Request
<1>5. \A h \in Gens : call'[h] = IF h = g THEN k ELSE call[h]
  BY <1>4 DEF Types, CallTypes
<1>6. ASSUME NEW d \in Conns, Unused(d), d # c
      PROVE  Unused(d)'
  BY <1>3, <1>4, <1>5, <1>6 DEF Unused, Awaits
<1>7. SocketsTell'
  <2>1. \A d \in Conns : conns[d] = "none" => Unused(d)' /\ d \notin subscribed
    BY <1>1, <1>6 DEF SocketsTell
  <2>2. \A r \in wire' : r.kind \in {"steer", "resteer"} => r.turn # NoTurn
    BY <1>1, <1>4 DEF SocketsTell
  <2> QED
    BY <1>1, <2>1, <2>2 DEF SocketsTell
<1>8. OpeningTells'
  <2>1. ASSUME opening.stage # "no"
        PROVE  Unused(opening.conn)'
    <3>1. PICK d \in Conns : d = opening.conn /\ d # c /\ Unused(d)
      BY <1>1, <2>1, ThreadIs DEF OpeningTells
    <3>2. Unused(d)' /\ d = opening'.conn
      BY <1>6, <3>1
    <3> QED
      BY <3>2
  <2> QED
    BY <1>1, <2>1 DEF OpeningTells
<1>9. OpenTells'
  <2> SUFFICES ASSUME open'.live
               PROVE  OpenTells'
    BY DEF OpenTells
  <2>1. /\ open.live /\ open'.conn = open.conn /\ open.conn \in subscribed
        /\ Fits(inbox[open.conn], 0, open'.active, running)
        /\ RepliesRight(inbox[open.conn], running)
        /\ CallsFit
        /\ processing => Tells(inbox[open.conn], 0, running) \/ \E h \in Gens : Asks(h)
    BY <1>1 DEF OpenTells
  <2>2. CallsFit'
    <3>1. ASSUME NEW h \in Gens, Awaits(h)', call'[h].conn = open.conn
          PROVE  call'[h].step # "read" /\ AnswerFits(call'[h], inbox[open.conn], running)
      <4>1. CASE h = g
        BY <1>3, <1>5, <2>1, <3>1, <4>1 DEF AnswerFits, Adopts
      <4>2. CASE h # g
        BY <1>5, <2>1, <3>1, <4>2 DEF CallsFit, Awaits
      <4> QED
        BY <4>1, <4>2
    <3> QED
      BY <2>1, <3>1 DEF CallsFit
  <2>3. processing' => Tells(inbox[open.conn], 0, running) \/ \E h \in Gens : Asks(h)'
    <3>1. CASE c = open.conn
      <4>1. Asks(g)'
        BY <1>3, <1>5, <2>1, <3>1 DEF Asks, Awaits
      <4> QED
        BY <4>1
    <3>2. CASE c # open.conn
      <4>1. ASSUME NEW h \in Gens, Asks(h)
            PROVE  Asks(h)'
        <5>1. h # g
          BY <3>2, <4>1 DEF Asks
        <5> QED
          BY <1>5, <2>1, <4>1, <5>1 DEF Asks, Awaits
      <4> QED
        BY <2>1, <3>2, <4>1
    <3> QED
      BY <3>1, <3>2
  <2> QED
    BY <2>1, <2>2, <2>3 DEF OpenTells
<1> QED
  BY <1>7, <1>8, <1>9

\* Input is delivered to the turn the thread is taken to run.
LEMMA DeliverSends ==
    ASSUME NEW g, NEW turn, NEW c, Deliver(g, turn, c)
    PROVE  \E kind \in Kinds, t \in {NoTurn, turn} :
              /\ Send(g, kind, t, c) /\ kind # "read"
              /\ kind \in {"steer", "resteer"} => t # NoTurn
<1>1. CASE turn # NoTurn
  BY <1>1 DEF Deliver, Kinds
<1>2. CASE turn = NoTurn
  BY <1>2 DEF Deliver, Kinds
<1> QED
  BY <1>1, <1>2

\* The steps of startTurn.
LEMMA CallTells ==
    ASSUME Types, LinkInv, EndInv, NEW g \in Gens, CallStep(g)
    PROVE  EndInv'
<1> SUFFICES ASSUME faults = 0, ~overtaken
             PROVE  EndInv'
  BY DEF EndInv, CallStep, CallWakes, ReadAnswered, Accepted, SteerRefused, Refused
<1>1. SocketsTell /\ OpeningTells /\ OpenTells
  BY DEF EndInv
<1>2. /\ open.live => open.conn \in Conns /\ conns[open.conn] = "up"
      /\ opening.stage # "no" => opening.conn \in Conns /\ Unused(opening.conn)
      /\ call[g].found \in MaybeTurn
  BY <1>1, ThreadIs DEF OpeningTells
<1>3. Awaits(g) => /\ call[g].conn \in Conns => conns[call[g].conn] # "none"
                   /\ opening.stage # "no" => opening.conn # call[g].conn
  BY <1>1, <1>2 DEF SocketsTell, Unused
<1>4. open.live /\ Awaits(g) /\ call[g].conn = open.conn =>
          /\ Adopts(call[g]) => Fits(inbox[open.conn], 0, call[g].found, running)
          /\ call[g].step # "read"
  BY <1>1 DEF OpenTells, CallsFit, AnswerFits
<1>5. open.live => Fits(inbox[open.conn], 0, open.active, running)
  BY <1>1 DEF OpenTells
<1>6. ASSUME Awaits(g), (Adopts(call[g]) /\ SetActive(g, call[g].found)) \/ UNCHANGED open
      PROVE  /\ open'.live = open.live /\ open'.conn = open.conn
             /\ open.live => Fits(inbox[open.conn], 0, open'.active, running)
  <2>1. CASE UNCHANGED open
    BY <1>5, <2>1
  <2>2. CASE /\ Adopts(call[g]) /\ SetActive(g, call[g].found)
             /\ open.conn = call[g].conn /\ open # NoOpen
    BY <1>4, <1>6, <2>2, OpenParts DEF SetActive
  <2> QED
    BY <1>6, <2>1, <2>2 DEF SetActive
<1>7. CASE CallWakes(g)
  <2>1. /\ opening.stage = "no" /\ UNCHANGED <<open, subscribed, inbox, running, faults, overtaken>>
    BY <1>7 DEF CallWakes
  <2>2. CASE open = NoOpen
    <3>1. StartOpen(0) /\ UNCHANGED <<call, wire>>
      BY <1>7, <2>2 DEF CallWakes
    <3> QED
      BY <2>1, <2>2, <3>1, StartTells
  <2>3. CASE open # NoOpen
    <3>1. UNCHANGED <<opening, conns>>
      BY <1>7, <2>3 DEF CallWakes
    <3>2. open.conn \in Conns => conns[open.conn] # "none"
      BY <2>3 DEF LinkInv, NoOrphan
    <3>3. CASE Send(g, "read", NoTurn, open.conn) /\ ~open.live
      <4>1. "read" \in Kinds
        BY DEF Kinds
      <4> QED
        BY <2>1, <3>1, <3>2, <3>3, <4>1, SendTells
    <3>4. CASE Deliver(g, open.active, open.conn)
      <4>1. PICK kind \in Kinds, t \in {NoTurn, open.active} :
                  /\ Send(g, kind, t, open.conn) /\ kind # "read"
                  /\ kind \in {"steer", "resteer"} => t # NoTurn
        BY <3>4, DeliverSends
      <4> QED
        BY <1>5, <2>1, <3>1, <3>2, <4>1, SendTells
    <3> QED
      BY <1>7, <2>3, <3>3, <3>4 DEF CallWakes
  <2> QED
    BY <2>2, <2>3
<1>8. CASE ReadAnswered(g)
  <2>1. /\ call[g].step = "read" /\ call[g].answer # "none" /\ Awaits(g)
        /\ UNCHANGED <<opening, conns, subscribed, inbox, running, faults, overtaken, processing>>
        /\ (Adopts(call[g]) /\ SetActive(g, call[g].found)) \/ UNCHANGED open
    BY <1>8 DEF ReadAnswered, Awaits, Kinds, Adopts
  <2>2. PICK turn : Deliver(g, turn, call[g].conn)
    BY <1>8 DEF ReadAnswered
  <2>3. PICK kind \in Kinds, t \in {NoTurn, turn} :
                /\ Send(g, kind, t, call[g].conn) /\ kind # "read"
                /\ kind \in {"steer", "resteer"} => t # NoTurn
    BY <2>2, DeliverSends
  <2> QED
    BY <1>3, <1>6, <2>1, <2>3, SendTells
<1>9. CASE SteerRefused(g)
  <2>1. /\ call[g].step = "steer" /\ call[g].answer # "none" /\ Awaits(g)
        /\ UNCHANGED <<opening, conns, subscribed, inbox, running, faults, overtaken, processing>>
        /\ (Adopts(call[g]) /\ SetActive(g, call[g].found)) \/ UNCHANGED open
    BY <1>9 DEF SteerRefused, Awaits, Kinds, Adopts
  <2>2. PICK kind \in Kinds, t \in {NoTurn, call[g].found} :
                /\ Send(g, kind, t, call[g].conn) /\ kind # "read"
                /\ kind \in {"steer", "resteer"} => t # NoTurn
    BY <1>9 DEF SteerRefused, Kinds
  <2> QED
    BY <1>3, <1>6, <2>1, <2>2, SendTells
<1>10. CASE Accepted(g)
  <2>1. /\ call[g].step \in {"steer", "resteer", "start"} /\ call[g].answer = "ok"
        /\ UNCHANGED <<opening, conns, subscribed, inbox, wire, running, faults, overtaken, processing>>
        /\ (Adopts(call[g]) /\ SetActive(g, call[g].found)) \/ UNCHANGED open
        /\ call' = [call EXCEPT ![g] = NoCall]
    BY <1>10 DEF Accepted, Succeed, Adopts
  <2>2. Awaits(g) /\ ~Asks(g)
    BY <2>1 DEF Awaits, Asks, Kinds
  <2>3. \A h \in Gens : call'[h] = IF h = g THEN NoCall ELSE call[h]
    BY <2>1 DEF Types, CallTypes
  <2>4. \A h \in Gens : Awaits(h)' => Awaits(h) /\ call'[h] = call[h]
    BY <2>3, NobodyAsks DEF Awaits
  <2>5. /\ open'.live = open.live /\ open'.conn = open.conn
        /\ open.live => Fits(inbox[open.conn], 0, open'.active, running)
    BY <1>6, <2>1, <2>2
  <2>6. \A h \in Gens : Asks(h) => call'[h] = call[h]
    BY <2>2, <2>3
  <2> QED
    BY <2>1, <2>4, <2>5, <2>6, EndStays
<1>11. CASE Refused(g)
  <2>1. /\ UNCHANGED <<opening, subscribed, inbox, wire, running, faults, overtaken>>
        /\ call' = [h \in Gens |-> IF h \in {g} THEN NoCall ELSE call[h]]
        /\ Settle(open, conns)
    BY <1>11 DEF Refused, Fail
  <2>2. /\ processing' = FALSE /\ (open' = open \/ ~open'.live)
        /\ \A c \in Conns : conns'[c] = conns[c] \/ conns'[c] = "closing"
    BY <2>1, NobodyAsks DEF Settle, Close, Types, LinkTypes
  <2>3. \A h \in Gens : Awaits(h)' => Awaits(h) /\ call'[h] = call[h]
    BY <2>1, NobodyAsks DEF Awaits
  <2> QED
    BY <2>1, <2>2, <2>3, EndStays
<1> QED
  BY <1>7, <1>8, <1>9, <1>10, <1>11 DEF CallStep

\* The next message of an inbox that is not the start of a turn, and one that is.
LEMMA FitsNext ==
    ASSUME NEW q \in Seq(Messages), q # <<>>, NEW v, NEW a, Fits(q, 0, a, v), q[1].what # "started"
    PROVE  Fits(Tail(q), 0, a, v)
<1>1. Len(q) \in Nat /\ Len(q) > 0 /\ \A j \in 1..Len(q) : j = 1 \/ j \in 2..Len(q)
  OBVIOUS
<1>2. Fits(q, 0 + 1, a, v)
  BY <1>1 DEF Fits
<1>3. 0 \in 0..(Len(q) - 1)
  BY <1>1
<1> QED
  BY <1>2, <1>3, FitsTail

LEMMA FitsStarted ==
    ASSUME NEW q \in Seq(Messages), q # <<>>, NEW v, NotesAgree(q, v), q[1].what = "started"
    PROVE  Fits(Tail(q), 0, q[1].turn, v) /\ Tells(Tail(q), 0, v)
<1>1. /\ Len(q) \in Nat /\ Len(q) > 0 /\ 1 \in 1..Len(q) /\ 0 \in 0..(Len(q) - 1)
      /\ \A j \in 1..Len(q) : j = 1 \/ j \in 2..Len(q)
  OBVIOUS
<1>2. /\ v # NoTurn => StartsIn(q, 1, Len(q), v)
      /\ \A j \in 2..Len(q) : q[j].what = "completed" => StartsIn(q, 1, j - 1, q[j].turn)
      /\ Tells(q, 1, v)
  BY <1>1 DEF NotesAgree
<1>3. Fits(q, 0 + 1, q[1].turn, v)
  <2> SUFFICES ASSUME \A j \in 2..Len(q) : q[j].what # "started"
               PROVE  /\ \A j \in 2..Len(q) : q[j].what = "completed" => q[1].turn = q[j].turn
                      /\ v # NoTurn => q[1].turn = v
    BY DEF Fits
  <2>1. ASSUME NEW j \in 1..Len(q), NEW t, StartsIn(q, 1, j, t)
        PROVE  t = q[1].turn
    <3>1. PICK k \in 1..j : q[k].what = "started" /\ q[k].turn = t
      BY <2>1 DEF StartsIn
    <3>2. k \in 1..Len(q)
      BY <1>1
    <3> QED
      BY <1>1, <3>1, <3>2
  <2>2. ASSUME NEW j \in 2..Len(q), q[j].what = "completed"
        PROVE  q[1].turn = q[j].turn
    <3>1. j - 1 \in 1..Len(q)
      BY <1>1
    <3> QED
      BY <1>2, <2>1, <2>2, <3>1
  <2>3. v # NoTurn => q[1].turn = v
    <3>1. Len(q) \in 1..Len(q)
      BY <1>1
    <3> QED
      BY <1>2, <2>1, <3>1
  <2> QED
    BY <2>2, <2>3
<1> QED
  BY <1>1, <1>2, <1>3, FitsTail, TellsTail

\* The end of the turn before another has started.
LEMMA FitsCompleted ==
    ASSUME NEW q \in Seq(Messages), q # <<>>, NEW v, NEW a, Fits(q, 0, a, v),
           q[1].what = "completed", a \notin {NoTurn, q[1].turn}
    PROVE  Tells(Tail(q), 0, v)
<1>1. /\ Len(q) \in Nat /\ 1 \in 1..Len(q) /\ 0 \in 0..(Len(q) - 1)
      /\ \A j \in 1..Len(q) : j = 1 \/ j \in 2..Len(q)
  OBVIOUS
<1>2. \E j \in 2..Len(q) : q[j].what = "started"
  BY <1>1 DEF Fits
<1>3. Tells(q, 0 + 1, v)
  BY <1>2 DEF Tells
<1> QED
  BY <1>1, <1>3, TellsTail

\* The connection after one message: its inbox is shorter, and a reply has resumed a call.
LEMMA TakenTells ==
    ASSUME Types, SocketsTell, OpeningTells, OpeningOwns, NEW c \in Conns, inbox[c] # <<>>,
           inbox' = [inbox EXCEPT ![c] = Tail(@)],
           c = opening.conn => opening.stage \in {"no", "set"},
           \A g \in Gens : Awaits(g)' => Awaits(g) /\ call'[g].conn = call[g].conn,
           \A d \in Conns : conns'[d] = conns[d] \/ conns'[d] = "closing",
           UNCHANGED <<subscribed, wire, running, opening>>
    PROVE  SocketsTell' /\ OpeningTells'
<1>1. /\ inbox[c] \in Seq(Messages) /\ Len(inbox[c]) \in Nat /\ Len(inbox[c]) > 0
      /\ inbox'[c] = Tail(inbox[c]) /\ \A d \in Conns : d # c => inbox'[d] = inbox[d]
  BY DEF Types, NetTypes
<1>2. /\ Len(inbox'[c]) = Len(inbox[c]) - 1
      /\ \A i \in 1..Len(inbox'[c]) : i + 1 \in 1..Len(inbox[c]) /\ inbox'[c][i] = inbox[c][i + 1]
  <2>1. PICK q \in Seq(Messages) : q = inbox[c] /\ q # <<>>
    BY <1>1
  <2>2. /\ Len(Tail(q)) = Len(q) - 1 /\ Len(q) \in Nat
        /\ \A i \in 1..(Len(q) - 1) : Tail(q)[i] = q[i + 1]
    BY <2>1
  <2>3. \A i \in 1..(Len(q) - 1) : i + 1 \in 1..Len(q)
    BY <2>2
  <2> QED
    BY <1>1, <2>1, <2>2, <2>3
<1>3. ASSUME NEW d \in Conns, Unused(d)
      PROVE  Unused(d)'
  <2>1. \A i \in 1..Len(inbox[d]) : inbox[d][i].what # "reply"
    BY <1>3 DEF Unused
  <2>2. CASE d = c
    BY <1>2, <1>3, <2>1, <2>2 DEF Unused
  <2>3. CASE d # c
    BY <1>1, <1>3, <2>1, <2>3 DEF Unused
  <2> QED
    BY <2>2, <2>3
<1>4. ASSUME NEW d \in Conns
      PROVE  /\ d \notin subscribed => \A i \in 1..Len(inbox'[d]) : inbox'[d][i].what = "reply"
             /\ d \in subscribed /\ conns'[d] = "up" => NotesAgree(inbox'[d], running)
             /\ conns'[d] = "none" => Unused(d)' /\ d \notin subscribed
             /\ \A i \in 1..Len(inbox'[d]) : inbox'[d][i].what = "reply" => inbox'[d][i].to.conn = d
  <2>1. /\ d \notin subscribed => \A i \in 1..Len(inbox[d]) : inbox[d][i].what = "reply"
        /\ d \in subscribed /\ conns[d] = "up" => NotesAgree(inbox[d], running)
        /\ conns[d] = "none" => Unused(d) /\ d \notin subscribed
        /\ \A i \in 1..Len(inbox[d]) : inbox[d][i].what = "reply" => inbox[d][i].to.conn = d
    BY DEF SocketsTell
  <2>2. conns'[d] = "none" => Unused(d)' /\ d \notin subscribed
    BY <1>3, <2>1
  <2>3. CASE d = c
    BY <1>1, <1>2, <2>1, <2>2, <2>3, NotesTail
  <2>4. CASE d # c
    BY <1>1, <2>1, <2>2, <2>4
  <2> QED
    BY <2>3, <2>4
<1>5. SocketsTell'
  BY <1>4 DEF SocketsTell
<1>6. OpeningTells'
  <2>1. ASSUME opening.stage # "no"
        PROVE  Unused(opening.conn)'
    <3>1. PICK d \in Conns : d = opening.conn /\ Unused(d)
      BY <2>1 DEF OpeningTells, Types, LinkTypes
    <3>2. Unused(d)' /\ d = opening'.conn
      BY <1>3, <3>1
    <3> QED
      BY <3>2
  <2>2. opening.stage = "read" => inbox'[opening.conn] = inbox[opening.conn]
    BY <1>1 DEF OpeningOwns
  <2> QED
    BY <2>1, <2>2 DEF OpeningTells
<1> QED
  BY <1>5, <1>6

LEMMA ChunkedParts ==
    ASSUME NEW k \in Calls
    PROVE  /\ Chunked(k).step = k.step /\ Chunked(k).conn = k.conn /\ Chunked(k).answer = k.answer
           /\ Chunked(k).found = k.found
           /\ k.answer # "none" => Chunked(k).chunk = k.chunk - 1
BY DEF Chunked, Calls

LEMMA ResumedParts ==
    ASSUME NEW k \in Calls, NEW m, NEW n
    PROVE  /\ Resumed(k, m, n).step = k.step /\ Resumed(k, m, n).conn = k.conn
           /\ Resumed(k, m, n).answer = m.answer /\ Resumed(k, m, n).found = m.turn
           /\ Resumed(k, m, n).chunk = n
BY DEF Resumed, Calls

\* A call that waits for more of its chunk, unless that is the start of a later turn.
LEMMA ChunkedTells ==
    ASSUME Types, NEW c \in Conns, Receivable(c), open.conn = c, NEW g \in Gens,
           AnswerFits(call[g], inbox[c], running),
           inbox[c][1].what = "started" =>
               /\ NotesAgree(inbox[c], running)
               /\ Adopts(call[g]) => call[g].found \in {NoTurn, inbox[c][1].turn}
    PROVE  AnswerFits(Chunked(call[g]), Tail(inbox[c]), running)
<1>1. call[g] \in Calls /\ inbox[c] \in Seq(Messages) /\ inbox[c] # <<>> /\ Len(inbox[c]) > 0
  BY DEF Types, CallTypes, NetTypes, Receivable
<1>2. Adopts(Chunked(call[g])) <=> Adopts(call[g])
  BY <1>1, ChunkedParts DEF Adopts
<1> SUFFICES ASSUME Adopts(call[g])
             PROVE  Fits(Tail(inbox[c]), 0, call[g].found, running)
  BY <1>1, <1>2, ChunkedParts DEF AnswerFits
<1>3. Fits(inbox[c], 0, call[g].found, running)
  BY DEF AnswerFits
<1>4. CASE inbox[c][1].what = "started"
  <2>1. Fits(Tail(inbox[c]), 0, inbox[c][1].turn, running)
    BY <1>1, <1>4, FitsStarted
  <2> QED
    BY <1>4, <2>1 DEF Fits
<1>5. CASE inbox[c][1].what # "started"
  BY <1>1, <1>3, <1>5, FitsNext
<1> QED
  BY <1>4, <1>5
\* A reply.
LEMMA ReplyTells ==
    ASSUME Types, LinkInv, EndInv, NEW c \in Conns, ReceiveReply(c)
    PROVE  EndInv'
<1> SUFFICES ASSUME faults = 0, ~overtaken
             PROVE  SocketsTell' /\ OpeningTells' /\ OpenTells'
  BY DEF EndInv, ReceiveReply
<1>1. SocketsTell /\ OpeningTells /\ OpenTells
  BY DEF EndInv
<1>0. PICK m : m = Head(inbox[c])
  OBVIOUS
<1>2. PICK n \in 0..MaxChunk :
          /\ m = Head(inbox[c]) /\ m.what = "reply" /\ n < Len(inbox[c])
          /\ call' = [g \in Gens |-> IF IsFor(g, m.to) THEN Resumed(call[g], m, n)
                                                        ELSE Chunked(call[g])]
  BY <1>0 DEF ReceiveReply
<1>3. /\ Receivable(c) /\ inbox' = [inbox EXCEPT ![c] = Tail(@)]
      /\ UNCHANGED <<subscribed, wire, running, opening, open, conns, processing>>
  BY DEF ReceiveReply
<1>4. PICK q \in Seq(Messages) : q = inbox[c] /\ q # <<>> /\ m = q[1] /\ inbox'[c] = Tail(q)
  <2>1. inbox[c] \in Seq(Messages) /\ inbox[c] # <<>>
    BY <1>3, InboxIs DEF Receivable
  <2>2. Head(inbox[c]) = inbox[c][1]
    BY <2>1
  <2> QED
    BY <1>2, <1>3, <2>1, <2>2 DEF Types, NetTypes
<1>5. /\ Len(q) \in Nat /\ Len(q) > 0 /\ Len(Tail(q)) = Len(q) - 1 /\ 1 \in 1..Len(q)
      /\ 0 \in 0..(Len(q) - 1) /\ 0 + 1 = 1
  BY <1>4
<1>6. \A g \in Gens : /\ call[g] \in Calls
                      /\ call'[g].step = call[g].step /\ call'[g].conn = call[g].conn
                      /\ call'[g] = IF IsFor(g, m.to) THEN Resumed(call[g], m, n) ELSE Chunked(call[g])
  BY <1>2, ResumedParts, ChunkedParts DEF Types, CallTypes
<1>7. \A g \in Gens : Awaits(g)' <=> Awaits(g)
  BY <1>6 DEF Awaits
<1>8. SocketsTell' /\ OpeningTells'
  <2>1. c = opening.conn => opening.stage \in {"no", "set"}
    BY <1>3, NullFacts DEF Receivable, LinkInv, OpeningOwns
  <2> QED
    BY <1>1, <1>3, <1>6, <1>7, <2>1, TakenTells DEF Receivable, LinkInv
<1>9. m.to.conn = c
  BY <1>1, <1>2, <1>4, <1>5 DEF SocketsTell
<1>10. OpenTells'
  <2> SUFFICES ASSUME open.live
               PROVE  OpenTells'
    BY <1>3 DEF OpenTells
  <2>1. /\ open.conn \in subscribed
        /\ Fits(inbox[open.conn], 0, open.active, running)
        /\ RepliesRight(inbox[open.conn], running)
        /\ CallsFit
        /\ processing => Tells(inbox[open.conn], 0, running) \/ \E g \in Gens : Asks(g)
    BY <1>1 DEF OpenTells
  <2>2. CASE open.conn # c
    <3>1. open.conn \in Conns /\ inbox'[open.conn] = inbox[open.conn]
      BY <1>3, <2>2, ThreadIs DEF Types, NetTypes
    <3>2. ASSUME NEW g \in Gens, Awaits(g), call[g].conn = open.conn
          PROVE  call'[g] = call[g]
      <4>1. call[g].answer = "none"
        BY <1>3, <2>2, <3>2 DEF Receivable
      <4>2. ~IsFor(g, m.to)
        BY <1>9, <2>2, <3>2 DEF IsFor
      <4> QED
        BY <1>6, <4>1, <4>2 DEF Chunked
    <3>3. CallsFit'
      BY <1>3, <1>6, <1>7, <2>1, <3>1, <3>2 DEF CallsFit
    <3>4. \A g \in Gens : Asks(g) => Asks(g)'
      BY <1>3, <1>7, <3>2 DEF Asks
    <3> QED
      BY <1>3, <2>1, <3>1, <3>3, <3>4 DEF OpenTells
  <2>3. CASE open.conn = c
    <3>1. ReplyRight(q, 1, running)
      BY <1>2, <1>4, <1>5, <2>1, <2>3 DEF RepliesRight
    <3>2. Fits(Tail(q), 0, open.active, running) /\ RepliesRight(Tail(q), running)
      BY <1>2, <1>4, <2>1, <2>3, FitsNext, RepliesTail
    <3>3. /\ Fits(Tail(q), 0, m.turn, running)
          /\ m.answer = "ok" /\ m.to.kind # "read" => Tells(Tail(q), 0, running)
      <4>1. /\ Fits(q, 0 + 1, m.turn, running)
            /\ m.answer = "ok" /\ m.to.kind # "read" => Tells(q, 0 + 1, running)
        BY <1>4, <1>5, <3>1 DEF ReplyRight
      <4> QED
        BY <1>4, <1>5, <4>1, FitsTail, TellsTail
    <3>4. ASSUME NEW g \in Gens, Awaits(g), call[g].conn = c
          PROVE  call'[g].step # "read" /\ AnswerFits(call'[g], Tail(q), running)
      <4>1. call[g].step # "read" /\ AnswerFits(call[g], q, running)
        BY <1>4, <2>1, <2>3, <3>4 DEF CallsFit
      <4>2. CASE IsFor(g, m.to)
        <5>1. call'[g].found = m.turn /\ call'[g].chunk = n
          BY <1>6, <4>2, ResumedParts
        <5>2. n > 0 => Len(Tail(q)) > 0
          BY <1>2, <1>4, <1>5
        <5> QED
          BY <1>6, <3>3, <4>1, <5>1, <5>2 DEF AnswerFits
      <4>3. CASE ~IsFor(g, m.to)
        <5>1. q[1].what # "started"
          BY <1>2, <1>4
        <5>2. AnswerFits(Chunked(call[g]), Tail(q), running)
          BY <1>3, <1>4, <2>3, <3>4, <4>1, <5>1, ChunkedTells
        <5> QED
          BY <1>6, <4>1, <4>3, <5>2
      <4> QED
        BY <4>2, <4>3
    <3>5. CallsFit'
      BY <1>3, <1>4, <1>6, <1>7, <2>3, <3>4 DEF CallsFit
    <3>6. ASSUME Tells(q, 0, running)
          PROVE  Tells(Tail(q), 0, running)
      <4>1. Tells(q, 0 + 1, running)
        <5>1. \A j \in (0 + 1)..Len(q) : j = 1 \/ j \in (0 + 1 + 1)..Len(q)
          BY <1>5
        <5> QED
          BY <1>2, <1>4, <3>6, <5>1 DEF Tells
      <4> QED
        BY <1>4, <1>5, <4>1, TellsTail
    <3>7. ASSUME NEW g \in Gens, Asks(g)
          PROVE  Asks(g)' \/ Tells(Tail(q), 0, running)
      <4>1. CASE IsFor(g, m.to)
        <5>1. call'[g].answer = m.answer /\ m.to.kind = call[g].step
          BY <1>6, <4>1, ResumedParts DEF IsFor
        <5> QED
          BY <1>3, <1>6, <1>7, <3>3, <3>7, <5>1 DEF Asks
      <4>2. CASE ~IsFor(g, m.to)
        <5>1. call'[g].answer = call[g].answer
          BY <1>6, <4>2, ChunkedParts
        <5> QED
          BY <1>3, <1>6, <1>7, <3>7, <5>1 DEF Asks
      <4> QED
        BY <4>1, <4>2
    <3> QED
      BY <1>3, <1>4, <2>1, <2>3, <3>2, <3>5, <3>6, <3>7 DEF OpenTells
  <2> QED
    BY <2>2, <2>3
<1> QED
  BY <1>8, <1>10

\* A notification.
LEMMA NotificationTells ==
    ASSUME Types, LinkInv, EndInv, NEW c \in Conns, ReceiveNotification(c)
    PROVE  EndInv'
<1> SUFFICES ASSUME faults = 0, ~overtaken'
             PROVE  SocketsTell' /\ OpeningTells' /\ OpenTells'
  BY DEF EndInv, ReceiveNotification
<1>0. ~overtaken
  BY DEF ReceiveNotification
<1>1. SocketsTell /\ OpeningTells /\ OpenTells
  BY <1>0 DEF EndInv
<1>2. /\ Receivable(c) /\ inbox' = [inbox EXCEPT ![c] = Tail(@)]
      /\ call' = [g \in Gens |-> Chunked(call[g])]
      /\ UNCHANGED <<subscribed, wire, running, opening>>
  BY DEF ReceiveNotification
<1>3. PICK q \in Seq(Messages) : /\ q = inbox[c] /\ q # <<>> /\ inbox'[c] = Tail(q)
                                 /\ Head(inbox[c]) = q[1] /\ q[1].what # "reply"
  <2>1. inbox[c] \in Seq(Messages) /\ inbox[c] # <<>>
    BY <1>2, InboxIs DEF Receivable
  <2>2. Head(inbox[c]) = inbox[c][1]
    BY <2>1
  <2>3. inbox[c][1].what # "reply"
    BY <2>2 DEF ReceiveNotification
  <2> QED
    BY <1>2, <2>1, <2>2, <2>3 DEF Types, NetTypes
<1>4. \A g \in Gens : /\ call[g] \in Calls /\ call'[g] = Chunked(call[g])
                      /\ call'[g].step = call[g].step /\ call'[g].conn = call[g].conn
                      /\ call'[g].answer = call[g].answer
  BY <1>2, ChunkedParts DEF Types, CallTypes
<1>5. \A g \in Gens : Awaits(g)' <=> Awaits(g)
  BY <1>4 DEF Awaits
<1>6. \/ UNCHANGED <<processing, open, conns>> /\ open.conn # c
      \/ /\ open.conn = c /\ q[1].what = "started" /\ open' = OpenWith(q[1].turn)
         /\ ~Overtakes(q[1].turn) /\ UNCHANGED conns
      \/ /\ open.conn = c /\ q[1].what = "completed" /\ open.active \in {NoTurn, q[1].turn}
         /\ Settle(OpenWith(NoTurn), conns)
      \/ /\ open.conn = c /\ q[1].what = "completed" /\ open.active \notin {NoTurn, q[1].turn}
         /\ UNCHANGED <<processing, open, conns>>
  BY <1>3 DEF ReceiveNotification
<1>7. /\ \A d \in Conns : conns'[d] = conns[d] \/ conns'[d] = "closing"
      /\ open'.live => open.live /\ open'.conn = open.conn
  BY <1>6, OpenParts, NobodyAsks DEF Settle, Close, Types, LinkTypes
<1>8. SocketsTell' /\ OpeningTells'
  <2>1. c = opening.conn => opening.stage \in {"no", "set"}
    BY <1>2, NullFacts DEF Receivable, LinkInv, OpeningOwns
  <2> QED
    BY <1>1, <1>2, <1>4, <1>5, <1>7, <2>1, TakenTells DEF Receivable, LinkInv
<1>9. OpenTells'
  <2> SUFFICES ASSUME open'.live
               PROVE  OpenTells'
    BY DEF OpenTells
  <2>1. /\ open.conn \in subscribed /\ open.live /\ open'.conn = open.conn
        /\ open.conn \in Conns /\ conns[open.conn] = "up"
        /\ Fits(inbox[open.conn], 0, open.active, running)
        /\ RepliesRight(inbox[open.conn], running)
        /\ CallsFit
        /\ processing => Tells(inbox[open.conn], 0, running) \/ \E g \in Gens : Asks(g)
    BY <1>1, <1>7, ThreadIs DEF OpenTells
  <2>2. \A g \in Gens : Asks(g) => Asks(g)'
    BY <1>4, <1>5, <2>1 DEF Asks
  <2>3. CASE open.conn # c
    <3>1. inbox'[open.conn] = inbox[open.conn] /\ UNCHANGED <<processing, open>>
      BY <1>2, <1>6, <2>1, <2>3 DEF Types, NetTypes
    <3>2. ASSUME NEW g \in Gens, Awaits(g), call[g].conn = open.conn
          PROVE  call'[g] = call[g]
      <4>1. call[g].answer = "none"
        BY <1>2, <2>3, <3>2 DEF Receivable
      <4> QED
        BY <1>4, <4>1 DEF Chunked
    <3>3. CallsFit'
      BY <1>4, <1>5, <1>2, <2>1, <3>1, <3>2 DEF CallsFit
    <3> QED
      BY <1>2, <2>1, <2>2, <3>1, <3>3 DEF OpenTells
  <2>4. CASE open.conn = c
    <3>1. NotesAgree(q, running)
      BY <1>1, <1>3, <2>1, <2>4 DEF SocketsTell
    <3>2. RepliesRight(Tail(q), running)
      BY <1>3, <2>1, <2>4, RepliesTail
    <3>3. CallsFit'
      <4>1. ASSUME NEW g \in Gens, Awaits(g), call[g].conn = c
            PROVE  call'[g].step # "read" /\ AnswerFits(call'[g], Tail(q), running)
        <5>1. call[g].step # "read" /\ AnswerFits(call[g], inbox[c], running)
          BY <2>1, <2>4, <4>1 DEF CallsFit
        <5>2. q[1].what = "started" /\ Adopts(call[g]) => call[g].found \in {NoTurn, q[1].turn}
          BY <1>6, <2>4 DEF Overtakes
        <5> QED
          BY <1>2, <1>3, <1>4, <2>4, <3>1, <4>1, <5>1, <5>2, ChunkedTells
      <4> QED
        BY <1>2, <1>3, <1>4, <1>5, <2>1, <2>4, <4>1 DEF CallsFit
    <3>4. Fits(Tail(q), 0, open'.active, running) /\ (processing' => Tells(Tail(q), 0, running))
      <4>1. CASE q[1].what = "started" /\ open' = OpenWith(q[1].turn)
        <5>1. open'.active = q[1].turn
          BY <4>1, OpenParts
        <5> QED
          BY <1>3, <3>1, <4>1, <5>1, FitsStarted
      <4>2. CASE q[1].what = "completed" /\ Settle(OpenWith(NoTurn), conns)
        <5>1. open'.active = NoTurn /\ processing' = FALSE
          BY <2>1, <4>2, OpenParts, NobodyAsks DEF Settle, Close, NoOpen
        <5> QED
          BY <5>1 DEF Fits
      <4>3. CASE /\ q[1].what = "completed" /\ open.active \notin {NoTurn, q[1].turn}
                 /\ UNCHANGED <<processing, open>>
        <5>1. Fits(q, 0, open.active, running)
          BY <1>3, <2>1, <2>4
        <5> QED
          BY <1>3, <4>3, <5>1, FitsNext, FitsCompleted
      <4> QED
        BY <1>6, <2>4, <4>1, <4>2, <4>3
    <3> QED
      BY <1>2, <1>3, <2>1, <2>4, <3>2, <3>3, <3>4 DEF OpenTells
  <2> QED
    BY <2>3, <2>4
<1> QED
  BY <1>8, <1>9

\* A connection the hub closed is closed: it was not that of the open thread.
LEMMA CloseTells ==
    ASSUME Types, LinkInv, EndInv, NEW c \in Conns, ConnCloses(c)
    PROVE  EndInv'
<1> SUFFICES ASSUME faults = 0, ~overtaken
             PROVE  SocketsTell' /\ OpeningTells' /\ OpenTells'
  BY DEF EndInv, ConnCloses
<1>1. SocketsTell /\ OpeningTells /\ OpenTells
  BY DEF EndInv
<1>2. /\ conns[c] = "closing" /\ Gone(c) /\ UNCHANGED <<opening, running>>
      /\ call' = [g \in Gens |-> IF g \in CallsOn(c) THEN NoCall ELSE call[g]]
      /\ \/ CallsOn(c) # {} /\ Settle(open, [conns EXCEPT ![c] = "none"])
         \/ CallsOn(c) = {} /\ conns' = [conns EXCEPT ![c] = "none"] /\ UNCHANGED <<processing, open>>
  BY DEF ConnCloses, Fail
<1>3. /\ inbox' = [inbox EXCEPT ![c] = <<>>] /\ subscribed' = subscribed \ {c}
      /\ inbox'[c] = <<>> /\ \A d \in Conns : d # c => inbox'[d] = inbox[d]
  BY <1>2 DEF Gone, Types, NetTypes
<1>4. \A d \in Conns : \/ d = c /\ conns'[d] # "up"
                       \/ d # c /\ (conns'[d] = conns[d] \/ conns'[d] = "closing")
  BY <1>2 DEF Settle, Close, Types, LinkTypes
<1>5. ASSUME NEW r \in wire'
      PROVE  \E s \in wire : /\ r.kind = s.kind /\ r.turn = s.turn
                             /\ r.conn = IF s.conn = c THEN NoConn ELSE s.conn
  <2>1. PICK s \in wire : r = OnConn(s, IF s.conn = c THEN NoConn ELSE s.conn)
    BY <1>2 DEF Gone
  <2>2. s \in Requests
    BY DEF Types, NetTypes
  <2>3. r.conn = (IF s.conn = c THEN NoConn ELSE s.conn) /\ r.kind = s.kind /\ r.turn = s.turn
    BY <2>1, <2>2, Zenon DEF OnConn, Requests
  <2> QED
    BY <2>3
<1>6. \A g \in Gens : Awaits(g)' => Awaits(g) /\ call'[g] = call[g] /\ call[g].conn # c
  BY <1>2, NobodyAsks DEF Awaits, CallsOn
<1>7. ASSUME NEW d \in Conns, d = c \/ Unused(d)
      PROVE  Unused(d)'
  <2>1. \A i \in 1..Len(inbox'[d]) : inbox'[d][i].what # "reply"
    BY <1>3, <1>7 DEF Unused
  <2>2. \A r \in wire' : r.conn # d
    BY <1>5, <1>7, NullAssumption DEF Unused
  <2> QED
    BY <1>6, <1>7, <2>1, <2>2 DEF Unused
<1>8. SocketsTell'
  <2>1. ASSUME NEW d \in Conns
        PROVE  /\ d \notin subscribed' => \A i \in 1..Len(inbox'[d]) : inbox'[d][i].what = "reply"
               /\ d \in subscribed' /\ conns'[d] = "up" => NotesAgree(inbox'[d], running)
               /\ conns'[d] = "none" => Unused(d)' /\ d \notin subscribed'
               /\ \A i \in 1..Len(inbox'[d]) : inbox'[d][i].what = "reply" => inbox'[d][i].to.conn = d
    <3>1. /\ d \notin subscribed => \A i \in 1..Len(inbox[d]) : inbox[d][i].what = "reply"
          /\ d \in subscribed /\ conns[d] = "up" => NotesAgree(inbox[d], running)
          /\ conns[d] = "none" => Unused(d) /\ d \notin subscribed
          /\ \A i \in 1..Len(inbox[d]) : inbox[d][i].what = "reply" => inbox[d][i].to.conn = d
      BY <1>1 DEF SocketsTell
    <3>2. conns'[d] = "none" => Unused(d)' /\ d \notin subscribed'
      BY <1>3, <1>4, <1>7, <3>1
    <3>3. CASE d = c
      BY <1>3, <1>4, <3>2, <3>3
    <3>4. CASE d # c
      BY <1>3, <1>4, <3>1, <3>2, <3>4
    <3> QED
      BY <3>3, <3>4
  <2>2. \A r \in wire' : r.kind \in {"steer", "resteer"} => r.turn # NoTurn
    BY <1>1, <1>5 DEF SocketsTell
  <2> QED
    BY <1>2, <2>1, <2>2 DEF SocketsTell
<1>9. OpeningTells'
  <2>1. ASSUME opening.stage # "no"
        PROVE  Unused(opening.conn)'
    <3>1. PICK d \in Conns : d = opening.conn /\ Unused(d)
      BY <1>1, <2>1, ThreadIs DEF OpeningTells
    <3>2. Unused(d)' /\ d = opening'.conn
      BY <1>2, <1>7, <3>1
    <3> QED
      BY <3>2
  <2>2. opening.stage \in {"resumed", "read"} => opening.conn \in Conns /\ opening.conn # c
    BY <1>2, ThreadIs
  <2> QED
    BY <1>1, <1>2, <1>3, <2>1, <2>2 DEF OpeningTells
<1>10. OpenTells'
  <2> SUFFICES ASSUME open'.live
               PROVE  OpenTells'
    BY DEF OpenTells
  <2>1. open' = open /\ open.live /\ (processing' = FALSE \/ (processing' = processing /\ CallsOn(c) = {}))
    BY <1>2, NobodyAsks DEF Settle, Close
  <2>2. open.conn \in Conns /\ open.conn # c
    BY <1>2, <2>1, ThreadIs
  <2>3. /\ open.conn \in subscribed
        /\ Fits(inbox[open.conn], 0, open.active, running)
        /\ RepliesRight(inbox[open.conn], running)
        /\ CallsFit
        /\ processing => Tells(inbox[open.conn], 0, running) \/ \E g \in Gens : Asks(g)
    BY <1>1, <2>1 DEF OpenTells
  <2>4. inbox'[open.conn] = inbox[open.conn] /\ open.conn \in subscribed'
    BY <1>3, <2>2, <2>3
  <2>5. CallsFit'
    BY <1>2, <1>6, <2>1, <2>3, <2>4 DEF CallsFit
  <2>6. CallsOn(c) = {} => \A g \in Gens : Asks(g) => Asks(g)'
    BY <1>2, <2>1 DEF Asks, Awaits
  <2> QED
    BY <1>2, <2>1, <2>3, <2>4, <2>5, <2>6 DEF OpenTells
<1> QED
  BY <1>8, <1>9, <1>10

LEMMA EndInit ==
    ASSUME Init
    PROVE  EndInv
<1>1. /\ open = NoOpen /\ opening = NotOpening /\ call = [g \in Gens |-> NoCall]
      /\ conns = [c \in Conns |-> "none"] /\ subscribed = {} /\ wire = {}
      /\ inbox = [c \in Conns |-> <<>>]
  BY DEF Init
<1>2. \A c \in Conns : inbox[c] = <<>> /\ Unused(c)
  BY <1>1, NobodyAsks DEF Unused, Awaits
<1>3. SocketsTell
  BY <1>1, <1>2 DEF SocketsTell
<1> QED
  BY <1>1, <1>3, NobodyAsks DEF EndInv, OpeningTells, OpenTells

LEMMA EndStep ==
    ASSUME Types, Types', LinkInv, EndInv, [Next]_vars
    PROVE  EndInv'
<1>1. CASE \/ UNCHANGED vars \/ \E m \in Msgs : Phone(m)
           \/ Tick \/ OtherSaves \/ Drain \/ Shutdown \/ Restart \/ Watch \/ Leave \/ Retire \/ Reconcile
  BY <1>1, QueueTells
<1>2. CASE OpenStep \/ \E w \in subWaits : SubWakes(w)
  BY <1>2, ResumeTells, OpenSetTells, OpenedTells DEF OpenStep
<1>3. CASE \/ HistoryTimesOut \/ OpenFails \/ \E g \in Gens : RequestTimesOut(g)
           \/ \E c \in Conns : Disconnect(c)
  BY <1>3, FaultTells
<1>4. CASE \E g \in Gens : CallStep(g)
  BY <1>4, CallTells
<1>5. CASE \E c \in Conns : ReceiveReply(c) \/ ReceiveNotification(c) \/ ConnCloses(c)
  BY <1>5, ReplyTells, NotificationTells, CloseTells
<1>6. CASE SrvCompletes \/ SrvOtherStarts \/ \E r \in wire : SrvHandles(r)
  BY <1>6, ServerTells
<1>7. CASE Crash \/ Exit
  BY <1>7, DownTells DEF Crash, Exit
<1> QED
  BY <1>1, <1>2, <1>3, <1>4, <1>5, <1>6, <1>7 DEF Next

LEMMA EndsAreTold ==
    ASSUME Types, LinkInv, EndInv
    PROVE  NeverStuckBusy
<1> SUFFICES ASSUME Quiet, processing, open.live, faults = 0, ~overtaken
             PROVE  running # NoTurn
  BY DEF NeverStuckBusy
<1>1. Tells(inbox[open.conn], 0, running) \/ \E g \in Gens : Asks(g)
  BY DEF EndInv, OpenTells
<1>2. open.conn \in Conns /\ inbox[open.conn] = <<>>
  BY ThreadIs DEF Quiet
<1>3. \A g \in Gens : ~Asks(g)
  BY DEF Quiet, NoCalls, Asks, Awaits, Kinds
<1> QED
  BY <1>1, <1>2, <1>3 DEF Tells

\* When everything has come in over a connection with live notifications, a session
\* that is shown busy has a turn running: no order of turns started and completed by
\* the hub or by another client, of steers refused or replies that meet the end of the
\* turn they name leaves the hub waiting for an end it will not be told of
\* (startTurn, handleNotification and openThreadAttempt), however many notifications
\* come in one piece with a reply, unless one of them starts a later turn than the
\* one the reply makes the active turn.
THEOREM BusyHasTurn == Spec => []NeverStuckBusy
<1>1. Init => LinkInv /\ EndInv
  BY LinkInit, EndInit
<1>2. QueueInv /\ QueueInv' /\ LinkInv /\ EndInv /\ [Next]_vars => LinkInv' /\ EndInv'
  BY LinkStep, EndStep DEF QueueInv
<1>3. QueueInv /\ LinkInv /\ EndInv => NeverStuckBusy
  BY EndsAreTold DEF QueueInv
<1> QED
  BY <1>1, <1>2, <1>3, QueueInvariant, PTL DEF Spec
=============================================================================
