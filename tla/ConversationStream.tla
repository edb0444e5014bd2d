------------------------- MODULE ConversationStream -------------------------
(***************************************************************************)
(* How the text of one conversation reaches the phones.  Claude appends    *)
(* rows to a transcript; the hub follows it with one shared reader per     *)
(* conversation (src/chat/transcriptTailer.ts), numbers what it reads,     *)
(* keeps the last numbers in a ring and sends each event to the engines    *)
(* that subscribe (src/hub/sessionHub.ts).  An engine serves one phone: it *)
(* remembers the last number and the time it passed on, and asks from      *)
(* there when it is connected again (src/engine/engine.ts).                *)
(*                                                                         *)
(* A row is its index in the transcript, log[r] the clock when it was      *)
(* written.  Time is counted in ticks, and no two rows have the same time. *)
(* An event of the history has the number 0 when it is read for one client *)
(* only.  A message to an engine that is no conversation event may         *)
(* overtake those that are (createPrioritizedHubSocketWriter).             *)
(*                                                                         *)
(* The phone is another program.  What the model takes from the code about *)
(* it: it keeps the rows it has, sets the rows between the begin and the   *)
(* done marker aside until done and drops them on cancelled, and opens a   *)
(* conversation again from the time of the last done marker it saw.        *)
(***************************************************************************)
EXTENDS Integers, Sequences, FiniteSets

CONSTANTS
    Clients,      \* engines, each with its phone
    Pictures,     \* rows an engine passes on only for the conversation in front
    None,         \* stands for null
    RingLimit,    \* replayLimit
    Overlap,      \* ticks taken off the time of the last event passed on
    Rewind,       \* ticks taken off the time the connection was lost
    MaxRows, MaxClock,
    MaxRare,      \* what seldom happens: see Rarely
    MaxChannel    \* messages on their way between a hub and an engine

ASSUME StreamAssumption ==
    /\ None \notin Nat /\ Overlap \in Nat /\ Rewind \in Nat
    /\ RingLimit \in Nat \ {0} /\ MaxRows \in Nat /\ Pictures \subseteq 1..MaxRows

Rows == 1..MaxRows
Times == 0..MaxClock
OrNone(S) == S \cup {None}

VARIABLES
    log, clock,   \* the transcript and the time of the host
    \* the hub
    boot,         \* its bootId
    meta,         \* metadataStore knows the session
    processing,   \* processingSince # null
    seq,          \* nextServerSeq
    ring,         \* replayBuffer
    tail,         \* the shared reader, or None
    caughtUp,     \* sharedTailCaughtUp
    retry,        \* the boundary startSharedTail is tried again with, or None
    subs,         \* subscribers
    backfill,     \* backfillTails
    \* between hub and engines
    link,         \* the socket of an engine is connected
    toEng, toHub,
    \* the engines, and the phones
    eng, phone,
    gap,          \* bookkeeping: why a phone may miss a row, see Hazards
    rare

hubVars    == <<seq, ring, tail, caughtUp, retry, subs, backfill>>
hostVars   == <<log, clock, meta>>
wireVars   == <<link, toEng, toHub>>
boundVars  == <<gap, rare>>
vars == <<hubVars, hostVars, boot, processing, wireVars, eng, phone, boundVars>>

\* A reader of the transcript that shows what is newer than cut.  begun: the begin
\* marker is out (only a reading of everything has one); done: so is the done marker.
Reader(cut) == [pos |-> 0, cut |-> cut, begun |-> cut # None, done |-> FALSE]
Readers == [pos : 0..MaxRows, cut : OrNone(Times), begun : BOOLEAN, done : BOOLEAN]

\* What an event carries: a row, or a marker.  A done marker tells the time it was made.
Row(r)     == [kind |-> "row", of |-> r]
Marker(k)  == [kind |-> k, of |-> clock]
Event(n, item)  == [type |-> "event", seq |-> n, item |-> item]
If(c, why)      == IF c THEN {why} ELSE {}
Newer(t, d)     == IF t > d THEN t - d ELSE 0
ToTheEnd(s, n)  == SubSeq(s, n, Len(s))
\* Mutant: one too many is kept.
LastOfAndOne(s, n) == IF Len(s) > n + 1 THEN ToTheEnd(s, Len(s) - n) ELSE s

LastOf(s, n)    == IF Len(s) > n THEN ToTheEnd(s, Len(s) - n + 1) ELSE s

\* An engine on a new channel.
FreshEngine == [boot |-> None, last |-> None, fwd |-> None, downAt |-> None,
                hist |-> FALSE, active |-> FALSE, bg |-> FALSE, floor |-> FALSE,
                pend |-> FALSE, proc |-> FALSE, unw |-> FALSE,
                deferred |-> FALSE, settled |-> FALSE, hint |-> None]

NewPhone == [got |-> {}, aside |-> None, view |-> FALSE, waits |-> FALSE]

FreshActor ==
    /\ seq' = 1 /\ ring' = <<>> /\ tail' = None /\ caughtUp' = FALSE /\ retry' = None
    /\ subs' = [e \in Clients |-> None] /\ backfill' = [e \in Clients |-> None]

Init ==
    /\ log = <<>> /\ clock = 0 /\ meta = FALSE /\ boot = 1 /\ processing = FALSE
    /\ seq = 1 /\ ring = <<>> /\ tail = None /\ caughtUp = FALSE /\ retry = None
    /\ subs = [e \in Clients |-> None] /\ backfill = [e \in Clients |-> None]
    /\ link = [e \in Clients |-> TRUE]
    /\ toEng = [e \in Clients |-> <<>>] /\ toHub = [e \in Clients |-> <<[type |-> "hello"]>>]
    /\ eng = [e \in Clients |-> FreshEngine] /\ phone = [e \in Clients |-> NewPhone]
    /\ gap = [e \in Clients |-> {}]
    /\ rare = 0
\* gap[e] names what may leave a hole in what e gets:
\*   cut        the hub restarts or the session is retired during a replay that is not one
\*              of everything: the engine goes on from the time of the first of its rows
\*   floor      ... while the engine holds its checkpoint back for a picture
\*   unknown    the hub restarts before anything of the conversation was passed on: the
\*              engine goes on from shortly before it lost the connection
\*   dropped    events come in between leaving and opening again; later ones move the checkpoint
\*   overtaken  the retirement overtakes events of the session it retires
\*   ignored    a subscription meets a reading of its client that is under way
\*   stalled    a backfill is given up; a done marker of the ring follows
\* Connections that break, a hub that ends, conversations opened, sessions retired,
\* backfills given up, turns that start and end, and hints are rare: MaxRare in
\* all, and none once a hole is possible.
Rarely == rare < MaxRare /\ (\A e \in Clients : gap[e] = {}) /\ rare' = rare + 1
-----------------------------------------------------------------------------
\* The host writes, and time passes.  A reader at the end of the transcript (it looks every
\* 200 ms) reads, and events reach their engine, within a tick: Overlap stands for seconds.

Late(r) == r \in DOMAIN log /\ log[r] < clock
OnItsWay(e) == \E i \in DOMAIN toEng[e] : toEng[e][i].type = "event"
Prompt ==
    /\ tail # None /\ tail.done => tail.pos = Len(log)
    /\ \A e \in Clients : ~OnItsWay(e)

HostWrites ==
    /\ meta /\ Len(log) < MaxRows /\ clock < MaxClock /\ Prompt
    /\ clock' = clock + 1 /\ log' = Append(log, clock')
    /\ UNCHANGED <<hubVars, meta, boot, processing, wireVars, eng, phone, boundVars>>

TimePasses ==
    /\ clock < MaxClock /\ Prompt /\ clock' = clock + 1
    /\ UNCHANGED <<hubVars, log, meta, boot, processing, wireVars, eng, phone, boundVars>>

\* launchCore stores the metadata of the session.
SessionStored ==
    /\ ~meta /\ meta' = TRUE
    /\ UNCHANGED <<hubVars, log, clock, boot, processing, wireVars, eng, phone, boundVars>>
-----------------------------------------------------------------------------
\* The hub.  Room: the bound on what is on its way.

Room(e) == Len(toEng[e]) < MaxChannel

\* publishConversationEvent
Publish(item) ==
    /\ seq' = seq + 1
    /\ ring' = LastOf(Append(ring, Event(seq, item)), RingLimit)
    /\ toEng' = [e \in Clients |-> IF subs[e] # None /\ ~subs[e].backfilling
                                   THEN Append(toEng[e], Event(seq, item)) ELSE toEng[e]]

\* One turn of the loop of runTail, for the shared reader and then for a backfill.
Shows(t, r) == t.cut = None \/ log[r] > t.cut
SharedReads ==
    /\ tail # None /\ \A e \in Clients : Room(e)
    /\ \/ /\ ~tail.begun
          /\ tail' = [tail EXCEPT !.begun = TRUE] /\ Publish(Marker("begin"))
          /\ UNCHANGED caughtUp
       \/ /\ tail.begun /\ tail.pos < Len(log)
          /\ tail' = [tail EXCEPT !.pos = @ + 1]
          /\ IF Shows(tail, tail.pos + 1) THEN Publish(Row(tail.pos + 1))
                                          ELSE UNCHANGED <<seq, ring, toEng>>
          /\ UNCHANGED caughtUp
       \/ /\ tail.begun /\ tail.pos = Len(log) /\ ~tail.done
          /\ tail' = [tail EXCEPT !.done = TRUE] /\ Publish(Marker("done"))
          /\ caughtUp' = TRUE
    /\ UNCHANGED <<retry, subs, backfill, hostVars, boot, processing, link, toHub, eng, phone,
                   boundVars>>

\* startBackfill: the reading of one client, and its end (finish).
ToOne(e, items) == toEng' = [toEng EXCEPT ![e] = @ \o items]
BackfillReads(e) ==
    LET t == backfill[e] IN
    /\ t # None /\ Room(e)
    /\ \/ /\ ~t.begun /\ ToOne(e, <<Event(0, Marker("begin"))>>)
          /\ backfill' = [backfill EXCEPT ![e].begun = TRUE] /\ UNCHANGED subs
       \/ /\ t.begun /\ t.pos < Len(log)
          /\ ToOne(e, IF Shows(t, t.pos + 1) THEN <<Event(0, Row(t.pos + 1))>> ELSE <<>>)
          /\ backfill' = [backfill EXCEPT ![e].pos = @ + 1] /\ UNCHANGED subs
       \/ /\ t.begun /\ t.pos = Len(log) /\ ToOne(e, <<Event(0, Marker("done"))>>)
          /\ backfill' = [backfill EXCEPT ![e] = None]
          /\ subs' = [subs EXCEPT ![e].backfilling = FALSE]
    /\ UNCHANGED <<seq, ring, tail, caughtUp, retry, hostVars, boot, processing, link, toHub,
                   eng, phone, boundVars>>

RingFrom(n) == SelectSeq(ring, LAMBDA v : v.seq > n)

\* Mutant: the end is not told.
GivenUpSilently(e) == RingFrom(backfill[e].from)

\* A backfill that is given up, and what the client was left out of.
GivenUp(e) == <<Event(0, Marker("cancelled"))>> \o RingFrom(backfill[e].from)

BackfillStalls(e) ==
    /\ backfill[e] # None /\ Room(e) /\ Rarely
    /\ ToOne(e, GivenUp(e))
    /\ backfill' = [backfill EXCEPT ![e] = None]
    /\ subs' = [subs EXCEPT ![e].backfilling = FALSE]
    /\ gap' = [gap EXCEPT ![e] = @ \cup {"stalled"}]
    /\ UNCHANGED <<seq, ring, tail, caughtUp, retry, hostVars, boot, processing, link, toHub,
                   eng, phone>>

\* startSharedTail: without metadata it is tried again after 100 ms.
StartShared(cut) ==
    IF ~meta THEN /\ retry' = IF retry = None THEN [cut |-> cut] ELSE retry
                  /\ UNCHANGED <<tail, caughtUp>>
             ELSE retry' = None /\ tail' = Reader(cut) /\ caughtUp' = FALSE

SharedRetries ==
    /\ retry # None
    /\ IF tail = None /\ \E e \in Clients : subs[e] # None
       THEN IF meta THEN retry' = None /\ tail' = Reader(retry.cut) /\ caughtUp' = FALSE
                    ELSE UNCHANGED <<retry, tail, caughtUp>>
       ELSE retry' = None /\ UNCHANGED <<tail, caughtUp>>
    /\ UNCHANGED <<seq, ring, subs, backfill, hostVars, boot, processing, wireVars, eng, phone,
                   boundVars>>

\* canReplay
First == IF ring = <<>> THEN seq ELSE ring[1].seq
CanReplay(after) == after # None /\ after >= First - 1 /\ after =< seq - 1

NobodySubscribed == \A e \in Clients : subs[e] = None
\* The boundary of a resumed subscription may be used only when the hub can tell that
\* nothing between it and the ring is missing.
\* Mutant: a reader that was stopped halfway is trusted.
TrustedHalfway(after) == NobodySubscribed /\ tail = None /\ CanReplay(after)

Trusted(after) == NobodySubscribed /\ tail = None /\ caughtUp /\ CanReplay(after)
Cut(m) == IF m.after # None /\ m.newer # None /\ ~Trusted(m.after) THEN None ELSE m.newer

BackfillOf(cut) == [pos |-> 0, cut |-> cut, begun |-> cut # None, from |-> seq - 1]

\* subscribe, for a client that is subscribed already and for a new one.
SubscribeAgain(e, m) ==
    LET cut == Cut(m)
        busy == subs[e].backfilling
        reads == ~busy /\ meta /\ (cut # None \/ (m.after # None /\ ~CanReplay(m.after)))
    IN /\ IF tail = None THEN StartShared(cut) ELSE UNCHANGED <<tail, caughtUp, retry>>
       /\ subs' = [subs EXCEPT ![e] = [backfilling |-> busy \/ reads]]
       /\ backfill' = IF reads THEN [backfill EXCEPT ![e] = BackfillOf(cut)] ELSE backfill
       /\ ToOne(e, IF busy \/ reads THEN <<>>
                   ELSE IF cut # None THEN <<Event(0, Marker("cancelled"))>>
                   ELSE IF CanReplay(m.after) THEN RingFrom(m.after) ELSE <<>>)

SubscribeAnew(e, m) ==
    LET cut == Cut(m)
        first == NobodySubscribed
        reads == ~first /\ ~CanReplay(m.after) /\ meta
    IN /\ IF first THEN StartShared(cut) ELSE UNCHANGED <<tail, caughtUp, retry>>
       /\ subs' = [subs EXCEPT ![e] = [backfilling |-> reads]]
       /\ backfill' = IF reads THEN [backfill EXCEPT ![e] = BackfillOf(cut)] ELSE backfill
       /\ ToOne(e, IF CanReplay(m.after) THEN RingFrom(m.after) ELSE <<>>)

Subscribe(e, m) ==
    /\ IF subs[e] # None THEN SubscribeAgain(e, m) ELSE SubscribeAnew(e, m)
    /\ UNCHANGED <<seq, ring, processing>>

\* Mutant: the backfill goes on.
UnsubscribeKeepsReader(E) ==
    LET rest == [e \in Clients |-> IF e \in E THEN None ELSE subs[e]]
        last == (\E e \in E : subs[e] # None) /\ \A e \in Clients : rest[e] = None
    IN /\ subs' = rest
       /\ IF last THEN tail' = None /\ retry' = None ELSE UNCHANGED <<tail, retry>>
       /\ UNCHANGED <<seq, ring, caughtUp, backfill, processing>>

\* unsubscribe; who loses the connection is unsubscribed too.
Unsubscribe(E) ==
    LET rest == [e \in Clients |-> IF e \in E THEN None ELSE subs[e]]
        last == (\E e \in E : subs[e] # None) /\ \A e \in Clients : rest[e] = None
    IN /\ subs' = rest
       /\ backfill' = [e \in Clients |-> IF e \in E THEN None ELSE backfill[e]]
       /\ IF last THEN tail' = None /\ retry' = None ELSE UNCHANGED <<tail, retry>>
       /\ UNCHANGED <<seq, ring, caughtUp, processing>>

Old(m) == m.type = "event" /\ (m.item.kind = "row" => Late(m.item.of))
\* A replay for e is under way, other than one of everything.
ReplayCut(e) ==
    /\ link[e] /\ subs[e] # None /\ ~subs[e].backfilling
    /\ \/ tail # None /\ ~tail.done
       \/ \E i \in DOMAIN toEng[e] : Old(toEng[e][i])

\* retireSession
Retire ==
    /\ FreshActor /\ processing' = FALSE
    /\ toEng' = [e \in Clients |-> IF subs[e] # None THEN Append(toEng[e], [type |-> "retired"])
                                   ELSE toEng[e]]

\* A subscription that finds a reading of its client under way changes nothing.
Ignored(e, m) == m.type = "subscribe" /\ subs[e] # None /\ subs[e].backfilling

\* A message of an engine arrives.  The answer to a hello tells what is processing.
HubTakes(e) ==
    /\ link[e] /\ toHub[e] # <<>> /\ Room(e)
    /\ toHub' = [toHub EXCEPT ![e] = Tail(@)]
    /\ LET m == Head(toHub[e]) IN
       \/ /\ m.type = "subscribe" /\ Subscribe(e, m)
       \/ /\ m.type = "unsubscribe" /\ Unsubscribe({e}) /\ UNCHANGED toEng
       \/ /\ m.type = "hello"
          /\ ToOne(e, <<[type |-> "hello", boot |-> boot, on |-> processing]>>)
          /\ UNCHANGED <<hubVars, processing>>
    /\ gap' = [gap EXCEPT ![e] = @ \cup If(Ignored(e, Head(toHub[e])), "ignored")]
    /\ UNCHANGED <<hostVars, boot, link, eng, phone, rare>>

SessionRetires ==
    /\ Rarely /\ \A e \in Clients : Room(e)
    /\ Retire
    /\ gap' = [e \in Clients |-> gap[e] \cup If(ReplayCut(e), "cut") \cup If(eng[e].floor, "floor")]
    /\ UNCHANGED <<hostVars, boot, link, toHub, eng, phone>>

\* applyProcessing: a turn starts or ends, and every engine is told.
ProcessingChanges ==
    /\ meta /\ Rarely /\ \A e \in Clients : Room(e)
    /\ processing' = ~processing
    /\ toEng' = [e \in Clients |-> IF link[e] THEN Append(toEng[e], [type |-> "processing",
                                                                   on |-> processing'])
                                   ELSE toEng[e]]
    /\ UNCHANGED <<hubVars, hostVars, boot, link, toHub, eng, phone, gap>>
-----------------------------------------------------------------------------
\* The engine.  g is its state before, h after; it sends msgs.

Sub(after, newer) ==
    [type |-> "subscribe", after |-> after, newer |-> newer]
Send(e, msgs) == toHub' = [toHub EXCEPT ![e] = IF link[e] THEN @ \o msgs ELSE @]

\* backgroundSubscribeBoundary; h.settled: hints are no longer waited for.
Forwarded(g) == IF g.fwd = None THEN None ELSE Newer(g.fwd, Overlap)
Resumed(g) == IF g.last # None /\ g.hist THEN None ELSE Forwarded(g)

\* sendBackgroundSubscribe
Waits(g, after, newer) == after = None /\ newer = None /\ ~g.settled
SubscribedInBack(g, after, newer) ==
    IF Waits(g, after, newer) THEN [g EXCEPT !.deferred = TRUE]
    ELSE [g EXCEPT !.hint = None, !.deferred = FALSE]
BackSubscription(g, after, newer) ==
    IF Waits(g, after, newer) THEN <<>>
    ELSE <<Sub(after, IF after = None /\ newer = None THEN g.hint ELSE newer)>>

\* watchBackgroundSession
Watched(g) ==
    LET w == [g EXCEPT !.unw = FALSE, !.bg = ~g.active] IN
    IF g.active \/ g.bg THEN [g EXCEPT !.unw = FALSE]
    ELSE SubscribedInBack(w, g.last, Resumed(g))
WatchMessages(g) ==
    IF g.active \/ g.bg THEN <<>> ELSE BackSubscription(g, g.last, Resumed(g))

\* finishWatchingBackgroundSession
Finished(g) == IF g.bg /\ ~g.active THEN [g EXCEPT !.unw = TRUE] ELSE g

\* A conversation event: what of it the phone can be shown, and the checkpoint.
Routed(g, v) == g.active \/ (g.bg /\ ~(v.item.kind = "row" /\ v.item.of \in Pictures))
Checkpoint(g, v) ==
    IF ~Routed(g, v)
    THEN IF g.bg /\ ~g.floor
         THEN [g EXCEPT !.floor = TRUE,
                        !.last = IF @ = None THEN Newer(v.seq, 1) ELSE @]
         ELSE g
    ELSE IF v.seq = 0
    THEN [g EXCEPT !.hist = v.item.kind \notin {"done", "cancelled"}]
    ELSE [g EXCEPT !.hist = CASE v.item.kind = "begin" -> TRUE
                              [] v.item.kind = "done" -> FALSE
                              [] OTHER -> @,
                   !.fwd = clock,
                   !.last = IF g.active \/ ~g.floor THEN v.seq ELSE @,
                   !.floor = IF g.active THEN FALSE ELSE @]

\* The phone takes what the engine writes.
Shown(p, v) ==
    CASE v.item.kind = "begin" -> [p EXCEPT !.aside = {}]
      [] v.item.kind = "cancelled" -> [p EXCEPT !.aside = None, !.waits = FALSE]
      [] v.item.kind = "done" ->
            [p EXCEPT !.got = IF p.aside = None THEN @ ELSE @ \cup p.aside, !.aside = None,
                      !.waits = FALSE]
      [] OTHER -> IF p.aside = None THEN [p EXCEPT !.got = @ \cup {v.item.of}]
                  ELSE [p EXCEPT !.aside = @ \cup {v.item.of}]

TakesEvent(e, v) ==
    /\ eng' = [eng EXCEPT ![e] = Checkpoint(@, v)]
    /\ phone' = [phone EXCEPT ![e] = IF Routed(eng[e], v) THEN Shown(@, v) ELSE @]
    /\ UNCHANGED toHub

TakesProcessing(e, on) ==
    LET g == [eng[e] EXCEPT !.proc = on]
        again == on /\ g.active /\ g.pend
        h == [Watched(g) EXCEPT !.pend = FALSE, !.hint = None]
    IN /\ eng' = [eng EXCEPT ![e] = IF ~on THEN Finished(g) ELSE IF again THEN h ELSE Watched(g)]
       /\ Send(e, IF ~on THEN <<>>
                  ELSE IF again THEN <<Sub(None, IF g.hist THEN None ELSE Forwarded(g))>>
                  ELSE WatchMessages(g))
       /\ UNCHANGED phone

TakesRetired(e) ==
    /\ eng' = [eng EXCEPT ![e] = [@ EXCEPT !.unw = FALSE, !.bg = FALSE, !.last = None,
                                           !.floor = FALSE, !.proc = FALSE,
                                           !.pend = @ \/ eng[e].active]]
    /\ UNCHANGED <<toHub, phone>>

\* onReconnect: the snapshot of the hello, then every subscription anew.
Snapshot(g, on) ==
    IF on THEN [g EXCEPT !.proc = TRUE, !.unw = FALSE, !.bg = @ \/ ~g.active]
    ELSE IF g.proc THEN [Finished(g) EXCEPT !.proc = FALSE] ELSE g
TakesHello(e, m) ==
    LET g == eng[e]
        restarted == g.boot # None /\ g.boot # m.boot
        c == [g EXCEPT !.boot = m.boot, !.pend = FALSE, !.downAt = None,
                       !.last = IF restarted THEN None ELSE @,
                       !.floor = IF restarted THEN FALSE ELSE @,
                       !.hist = IF restarted THEN FALSE ELSE @]
        h == Snapshot(c, m.on)
        afresh == IF g.hist THEN None
                  ELSE IF g.fwd # None THEN Forwarded(g)
                  ELSE IF g.downAt # None THEN Newer(g.downAt, Rewind) ELSE None
        resumed == IF h.last = None \/ h.hist THEN None ELSE Forwarded(h)
        back == ~h.active /\ h.bg /\ ~h.deferred
    IN /\ eng' = [eng EXCEPT ![e] = IF back /\ ~restarted THEN SubscribedInBack(h, h.last, resumed)
                                    ELSE h]
       /\ Send(e, IF ~h.active /\ ~back THEN <<>>
                  ELSE IF restarted THEN <<Sub(None, afresh)>>
                  ELSE IF h.active THEN <<Sub(h.last, resumed)>>
                  ELSE BackSubscription(h, h.last, resumed))
       /\ UNCHANGED phone

\* A conversation nothing of which was passed on is read from shortly before the connection
\* was lost.
Unknown(e, m) == m.type = "hello" /\ eng[e].boot \notin {None, m.boot} /\ eng[e].fwd = None
\* Events of a conversation that was left are dropped, those that come in after it is
\* opened again move the checkpoint.
Dropped(e, m) == m.type = "event" /\ ~eng[e].active /\ ~eng[e].bg
\* The retirement overtakes events of the session it retires.
Overtaken(e, i) == toEng[e][i].type = "retired" /\ i > 1

\* The next message, or the first one that is no event.
EngineTakes(e) ==
    /\ link[e]
    /\ \E i \in DOMAIN toEng[e] :
        /\ i = 1 \/ (toEng[e][i].type # "event" /\ \A j \in 1..(i - 1) : toEng[e][j].type = "event")
        /\ toEng' = [toEng EXCEPT ![e] = SubSeq(@, 1, i - 1) \o ToTheEnd(@, i + 1)]
        /\ LET m == toEng[e][i] IN
           CASE m.type = "event" -> TakesEvent(e, m)
             [] m.type = "processing" -> TakesProcessing(e, m.on)
             [] m.type = "retired" -> TakesRetired(e)
             [] m.type = "hello" -> TakesHello(e, m)
        /\ gap' = [gap EXCEPT ![e] = @ \cup If(Unknown(e, toEng[e][i]), "unknown")
                                      \cup If(Dropped(e, toEng[e][i]), "dropped")
                                      \cup If(Overtaken(e, i), "overtaken")]
    /\ UNCHANGED <<hubVars, hostVars, boot, processing, link, rare>>

EngineKeeps == UNCHANGED <<hubVars, hostVars, boot, processing, link, toEng>>

\* subscribeConversation: the phone opens the conversation, again from the time its cache
\* was complete (session_reattach), or without (chat_send on an engine that has nothing in
\* front).
InFront(g) == [g EXCEPT !.active = TRUE, !.bg = FALSE, !.hint = None]
Opens(e, newer) ==
    /\ eng' = [eng EXCEPT ![e] = InFront(@)]
    /\ Send(e, <<Sub(IF newer = None THEN eng[e].last ELSE None, newer)>>)

\* The time until which the phone has every row, if it has any.
Synced(e) ==
    LET n == CHOOSE k \in 0..Len(log) : 1..k \subseteq phone[e].got /\ k + 1 \notin phone[e].got
    IN IF n = 0 THEN None ELSE log[n]

PhoneOpens(e) ==
    /\ Rarely
    /\ Opens(e, Synced(e))
    /\ phone' = [phone EXCEPT ![e].view = TRUE, ![e].waits = Synced(e) # None]
    /\ EngineKeeps /\ UNCHANGED gap

PhoneSends(e) ==
    /\ phone[e].view /\ ~eng[e].active /\ Opens(e, None)
    /\ EngineKeeps /\ UNCHANGED <<phone, boundVars>>

\* session_idle_hint, or another conversation is opened.
PhoneLeaves(e) ==
    LET g == [eng[e] EXCEPT !.active = FALSE] IN
    /\ eng[e].active
    /\ eng' = [eng EXCEPT ![e] = IF g.proc THEN Watched(g) ELSE [g EXCEPT !.bg = FALSE]]
    /\ Send(e, IF g.proc THEN WatchMessages(g) ELSE <<[type |-> "unsubscribe"]>>)
    /\ phone' = [phone EXCEPT ![e].view = FALSE, ![e].waits = FALSE]
    /\ EngineKeeps /\ UNCHANGED boundVars

\* unwatchBackgroundSession, two seconds after the turn ended.
Unwatches(e) ==
    LET g == eng[e] IN
    /\ g.unw
    /\ eng' = [eng EXCEPT ![e] = [g EXCEPT !.unw = FALSE, !.bg = FALSE,
                                           !.deferred = IF g.bg THEN FALSE ELSE @]]
    /\ Send(e, IF g.bg /\ ~g.deferred /\ ~g.active THEN <<[type |-> "unsubscribe"]>> ELSE <<>>)
    /\ EngineKeeps /\ UNCHANGED <<phone, boundVars>>

\* background_sync_hints of the phone, or the end of the wait for it.
HintsSettle(e) ==
    \E hint \in {None, Synced(e)} :
        LET g == [eng[e] EXCEPT !.settled = TRUE, !.hint = hint]
            goes == g.deferred /\ ~g.active /\ g.bg
            f == [g EXCEPT !.deferred = FALSE]
        IN /\ ~eng[e].settled /\ Rarely
           /\ eng' = [eng EXCEPT ![e] = IF goes THEN SubscribedInBack(f, f.last, Resumed(f)) ELSE f]
           /\ Send(e, IF goes THEN BackSubscription(f, f.last, Resumed(f)) ELSE <<>>)
           /\ EngineKeeps /\ UNCHANGED <<phone, gap>>
-----------------------------------------------------------------------------
\* Connections.

\* connect: the socket of an engine, and its hello.
Connects(e) ==
    /\ ~link[e]
    /\ link' = [link EXCEPT ![e] = TRUE]
    /\ toHub' = [toHub EXCEPT ![e] = <<[type |-> "hello"]>>]
    /\ UNCHANGED <<hubVars, hostVars, boot, processing, toEng, eng, phone, boundVars>>

Severed(E) ==
    /\ link' = [e \in Clients |-> link[e] /\ e \notin E]
    /\ toEng' = [e \in Clients |-> IF e \in E THEN <<>> ELSE toEng[e]]
    /\ toHub' = [e \in Clients |-> IF e \in E THEN <<>> ELSE toHub[e]]
Noted(g) == IF g.downAt = None THEN [g EXCEPT !.downAt = clock] ELSE g

\* The connection breaks, or the hub gives up a client that does not read.
ConnectionLost(e) ==
    /\ link[e] /\ Rarely
    /\ Severed({e}) /\ Unsubscribe({e}) /\ eng' = [eng EXCEPT ![e] = Noted(@)]
    /\ UNCHANGED <<hostVars, boot, phone, gap>>

\* The phone loses its channel: the engine ends, and another one serves it.
ChannelLost(e) ==
    /\ Rarely
    /\ Severed({e}) /\ Unsubscribe({e}) /\ eng' = [eng EXCEPT ![e] = FreshEngine]
    /\ phone' = [phone EXCEPT ![e].aside = None]
    /\ UNCHANGED <<hostVars, boot, gap>>

\* The hub ends and another one starts.  restoreFromHeartbeats keeps what was processing.
HubRestarts ==
    /\ Rarely /\ boot' = boot + 1
    /\ Severed(Clients) /\ FreshActor
    /\ gap' = [e \in Clients |-> gap[e] \cup If(ReplayCut(e), "cut") \cup If(eng[e].floor, "floor")]
    /\ eng' = [e \in Clients |-> IF link[e] THEN Noted(eng[e]) ELSE eng[e]]
    /\ UNCHANGED <<hostVars, processing, phone>>
-----------------------------------------------------------------------------
Next ==
    \/ HostWrites \/ TimePasses \/ SessionStored
    \/ SharedReads \/ SharedRetries \/ SessionRetires \/ ProcessingChanges
    \/ HubRestarts
    \/ \E e \in Clients :
        \/ BackfillReads(e) \/ BackfillStalls(e) \/ HubTakes(e) \/ EngineTakes(e)
        \/ PhoneOpens(e) \/ PhoneSends(e) \/ PhoneLeaves(e) \/ Unwatches(e) \/ HintsSettle(e)
        \/ Connects(e) \/ ConnectionLost(e) \/ ChannelLost(e)

Spec == Init /\ [][Next]_vars
-----------------------------------------------------------------------------
\* Properties.

Items  == [kind : {"row"}, of : Rows] \cup [kind : {"begin", "done", "cancelled"}, of : Times]
Events == [type : {"event"}, seq : Nat, item : Items]
ToEngine == Events \cup [type : {"retired"}] \cup [type : {"processing"}, on : BOOLEAN]
                   \cup [type : {"hello"}, boot : 1..(MaxRare + 1), on : BOOLEAN]
FromEngine == [type : {"hello", "unsubscribe"}]
                   \cup [type : {"subscribe"}, after : OrNone(Nat), newer : OrNone(Times)]
Reasons == {"cut", "floor", "unknown", "dropped", "overtaken", "ignored", "stalled"}

\* The state has its types, and the ring its limit.
TypeOK ==
    /\ log \in Seq(Times) /\ Len(log) =< MaxRows /\ clock \in Times
    /\ meta \in BOOLEAN /\ processing \in BOOLEAN
    /\ boot \in 1..(MaxRare + 1) /\ rare \in 0..MaxRare
    /\ seq \in Nat /\ ring \in Seq(Events) /\ Len(ring) =< RingLimit
    /\ tail \in OrNone(Readers) /\ caughtUp \in BOOLEAN
    /\ retry \in OrNone([cut : OrNone(Times)])
    /\ subs \in [Clients -> OrNone([backfilling : BOOLEAN])]
    /\ backfill \in [Clients -> OrNone([pos : 0..MaxRows, cut : OrNone(Times), begun : BOOLEAN,
                                       from : Nat])]
    /\ link \in [Clients -> BOOLEAN]
    /\ toEng \in [Clients -> Seq(ToEngine)] /\ toHub \in [Clients -> Seq(FromEngine)]
    /\ eng \in [Clients -> [boot : OrNone(1..(MaxRare + 1)), last : OrNone(Nat),
                            fwd : OrNone(Times), downAt : OrNone(Times), hist : BOOLEAN,
                            active : BOOLEAN, bg : BOOLEAN, floor : BOOLEAN, pend : BOOLEAN,
                            proc : BOOLEAN, unw : BOOLEAN, deferred : BOOLEAN,
                            settled : BOOLEAN, hint : OrNone(Times)]]
    /\ phone \in [Clients -> [got : SUBSET Rows, aside : OrNone(SUBSET Rows), view : BOOLEAN,
                              waits : BOOLEAN]]
    /\ gap \in [Clients -> SUBSET Reasons]

\* Whoever is subscribed is fed, and nothing reads for nobody: a client is left out of the
\* shared events as long as a reader of its own runs and no longer, and the shared reader
\* runs, or waits for the metadata, exactly while somebody is subscribed, through lost
\* connections, retirements and backfills given up (startBackfill, unsubscribe,
\* startSharedTail).
ReadersOwned ==
    /\ \A e \in Clients : backfill[e] # None <=> subs[e] # None /\ subs[e].backfilling
    /\ tail # None \/ retry # None <=> ~NobodySubscribed

\* All that was written has been read, and all that was sent has arrived.
Quiet(e) ==
    /\ tail # None /\ tail.done /\ tail.pos = Len(log)
    /\ link[e] /\ toEng[e] = <<>> /\ toHub[e] = <<>>
    /\ subs[e] # None /\ ~subs[e].backfilling

\* A phone that has the conversation in front has all its rows when it is quiet, however
\* often the connection was lost, the hub restarted, the session was retired and the
\* conversation opened, left and opened again, and from whichever number or time the
\* engine and the phone asked to go on.  gap names the cases in which that is not so.
NothingMissing ==
    \A e \in Clients :
        Quiet(e) /\ eng[e].active /\ gap[e] = {} => phone[e].got = DOMAIN log

\* A phone that sets rows aside, or opened the conversation from a time, has been told the
\* end of the history when it is quiet ("the latest part is being fetched" goes away).
ImportEnds ==
    \A e \in Clients :
        Quiet(e) /\ eng[e].active => phone[e].aside = None /\ ~phone[e].waits

\* Pictures that were not passed on in the background are made up for when the conversation
\* comes to the front ("even an existing subscription is not a no-op", subscribe).
PicturesRecovered ==
    \A e \in Clients :
        Quiet(e) /\ eng[e].active /\ gap[e] \subseteq {"ignored"}
            => Pictures \cap DOMAIN log \subseteq phone[e].got
=============================================================================
