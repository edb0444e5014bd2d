----------------------- MODULE SessionActivityProofs -----------------------
(***************************************************************************)
(* Theorems about SessionActivity, for all budgets and every timeout: what *)
(* the hub shows of a session is true, no turn is taken for over, and the  *)
(* reaper spares a running one.                                            *)
(***************************************************************************)
EXTENDS SessionActivity, TLAPS
-----------------------------------------------------------------------------
(* The inductive invariant: types.                                         *)

Agent == [proc : {"run", "dead", "gone"}, turn : Nat, phase : {"off", "asked", "on"},
          tool : BOOLEAN, echo : Nat, end : {"none", "stop", "interrupted", "error", "died"},
          work : BOOLEAN, reports : BOOLEAN]
Line == [kind : Lines, at : Nat \ {0}]
Hook == [event : Events, turn : Nat, at : Nat, wrote : BOOLEAN]
HeartBeat == [state : {"none", "active", "idle"}, event : Events \cup {"hub"}, since : Nat,
              age : 0 .. Timeout]
Actor == [up : BOOLEAN, busy : BOOLEAN, since : Nat, fired : Nat, end : Nat, start : Nat,
          window : BOOLEAN]
Reader == [read : Nat, passed : Nat, told : Nat]
Reaping == [step : {"none", "judge", "agent", "keep", "recheck", "kill", "retire"},
            live : BOOLEAN]

Typed ==
    /\ left \in Budget /\ claude \in Agent /\ log \in Seq(Line) /\ hooks \subseteq Hook
    /\ hb \in HeartBeat /\ hub \in Actor /\ sub \in {"none", "back", "front"}
    /\ tail \in Reader /\ reap \in Reaping /\ due \in BOOLEAN /\ now \in Nat
    /\ gap \subseteq {"lost", "early", "restart", "bumped", "retired", "relaunched"}

(* Nothing is newer than the present, and no reader ahead of the log.      *)
HooksPast == \A h \in hooks : h.at <= now
LinesPast == \A i \in 1 .. Len(log) : log[i].at <= now
HubPast == hub.fired <= now /\ hub.since <= now /\ hb.since <= now
Places == tail.read <= Len(log) /\ tail.passed <= Len(log) /\ tail.told <= Len(log)
LastAt == IF log = <<>> THEN 0 ELSE log[Len(log)].at
LinesInOrder ==
    /\ \A i \in 1 .. Len(log) : log[i].at <= LastAt
    /\ hub.start <= LastAt /\ hub.end <= LastAt

(* What the agent has at each phase of a turn.                             *)
AgentInTurn ==
    /\ claude.turn <= left.turns /\ claude.echo <= claude.turn
    /\ claude.proc # "run" => ~InTurn /\ claude.echo = 0 /\ ~claude.work
    /\ InTurn => claude.turn # 0
    /\ claude.tool => claude.phase = "on"
PromptLast == claude.phase = "on" => log # <<>> /\ log[Len(log)].kind = "prompt"

-----------------------------------------------------------------------------
(* The order of the hooks that are on their way.                           *)

IsPrompt(h) == h.event = "UserPromptSubmit"
IsStop(h) == h.event = "Stop"
Own(h) == h.turn = claude.turn
Tools == {h \in hooks : Continues(h.event)}

(* Prompts and Stops of earlier turns are older than a prompt; a Stop is   *)
(* the last of its turn, and of the turns before it no hook is left; no    *)
(* tool is used before the prompts are through.                            *)
TurnsPast == \A h \in hooks : 1 <= h.turn /\ h.turn <= claude.turn
PromptsInOrder ==
    \A g, h \in hooks :
        g.turn < h.turn /\ (IsPrompt(g) \/ IsStop(g)) /\ IsPrompt(h) => g.at < h.at
StopsLast ==
    \A s, h \in hooks :
        IsStop(s) => s.turn <= h.turn /\ (h.turn = s.turn /\ h # s => h.at < s.at)
ToolsAfterPrompts == \A p \in hooks, h \in Tools : IsPrompt(p) => h.turn < p.turn
StopsAreEnds == InTurn => \A h \in hooks : IsStop(h) => ~Own(h)
EchoInOrder ==
    claude.echo # 0 =>
        \A h \in hooks : /\ IsPrompt(h) => claude.echo < h.turn
                         /\ IsStop(h) => h.turn < claude.echo
PromptsGone == Arrived => \A h \in hooks : ~IsPrompt(h)

(* What ended a turn before this one is older than its prompt.             *)
EndsBefore(t) == \A i \in 1 .. Len(log) : log[i].kind # "prompt" => log[i].at < t
PromptAfterEnds ==
    InTurn => \A h \in hooks : IsPrompt(h) /\ Own(h) => hub.end < h.at /\ EndsBefore(h.at)

Order ==
    /\ HooksPast /\ LinesPast /\ HubPast /\ Places /\ LinesInOrder /\ AgentInTurn
    /\ PromptLast
Hooks ==
    /\ TurnsPast /\ PromptsInOrder /\ StopsLast /\ ToolsAfterPrompts /\ StopsAreEnds
    /\ EchoInOrder /\ PromptsGone /\ PromptAfterEnds

-----------------------------------------------------------------------------
(* The heartbeat, the hub and the reaper.                                  *)

HubSane ==
    /\ hub.busy <=> hub.since # 0
    /\ ~hub.busy => hub.fired = 0
    /\ ~hub.up => ~hub.busy /\ sub = "none"
Fresh == (\E h \in hooks : h.wrote) => hb.age = 0
BeatOfHook ==
    /\ hb.state = "none" => hb.since = 0
    /\ hb.event # "hub" =>
           hb.since = 0 /\ hb.state # "none" /\ (hb.state = "active" <=> hb.event # "Stop")

(* An old heartbeat that the reaper is looking at is idle, ...             *)
Judged ==
    /\ reap.step \in {"agent", "keep", "recheck"} => hb.state # "none"
    /\ reap.step \in {"keep", "recheck"} /\ Timeout <= hb.age => hb.state = "idle"
(* ... and what Claude did since it was asked has a hook to write.         *)
Asked ==
    reap.step = "recheck" /\ Timeout <= hb.age /\ claude.reports =>
        Unwritten \/ (~InTurn /\ ~claude.work)
Heart == HubSane /\ Fresh /\ BeatOfHook /\ Judged /\ Asked

-----------------------------------------------------------------------------
(* A turn whose prompt has arrived: the hub is busy, nothing pending can   *)
(* end it, and the heartbeat shows it, but for a Stop that will be undone. *)
BeatOn ==
    \/ hb.state = "active" /\ (hb.since = 0 \/ EndsBefore(hb.since))
    \/ hb.state = "idle" /\ hb.event = "Stop" /\ \E h \in hooks : h.wrote /\ IsStop(h)
BusyOn == hub.busy /\ EndsBefore(hub.since) /\ \A s \in hooks : IsStop(s) => s.at < hub.fired
TurnSeen == Arrived /\ gap = {} => BeatOn /\ (hub.up => BusyOn)

(* While the hub is not busy, what a tool tells is too late; while it is,  *)
(* this will be so after any end it may still learn of.                    *)
Live == gap = {} /\ claude.proc = "run"
ToolsLate ==
    Live /\ hub.up /\ ~hub.busy =>
        /\ \A h \in Tools : h.at < hub.end \/ hub.window
        /\ claude.echo # 0 => hub.window
LineEnds(i) == log[i].kind # "prompt" /\ hub.since <= log[i].at
ToolsThenLate ==
    Live /\ hub.busy =>
        \A i \in 1 .. Len(log), h \in Tools :
            LineEnds(i) => h.at < log[i].at \/ log[i].kind = "interrupted"
EchoThenLate ==
    Live /\ hub.busy /\ claude.echo # 0 =>
        \A i \in 1 .. Len(log) : LineEnds(i) => log[i].kind = "interrupted"
StopsStale ==
    Live /\ hub.busy =>
        \A s \in hooks : IsStop(s) =>
            /\ \A h \in Tools : s.at < hub.fired \/ h.turn = s.turn
            /\ claude.echo # 0 => s.at < hub.fired

(* An active heartbeat of a hub that is not busy will be taken back.       *)
BeatOfLate ==
    Live /\ hub.up /\ ~hub.busy /\ hb.state = "active" =>
        Unwritten \/ \E h \in hooks : h.wrote /\ h.event = hb.event

(* Between two turns all is quiet, or the Stop is on its way, or the line  *)
(* of the end is, or it was told and only what is too late comes.          *)
Rest == ~hub.busy /\ hooks = {} /\ hb.state # "active" /\ claude.echo = 0
StopComes ==
    /\ claude.echo = 0
    /\ \E s \in hooks : /\ IsStop(s) /\ hub.fired < s.at
                        /\ \A h \in hooks : Own(h) /\ (h # s => h.at < s.at)
LineComes ==
    /\ log # <<>> /\ log[Len(log)].kind # "prompt"
    /\ hub.busy => hub.since <= LastAt /\ tail.told < Len(log)
    /\ hub.up /\ tail.told = Len(log) => hub.end = LastAt
    /\ hb.state = "active" => hb.since <= LastAt
    /\ \A p \in hooks : IsPrompt(p) => p.at < LastAt
Over ==
    Live /\ ~InTurn =>
        \/ Rest
        \/ claude.end = "stop" /\ StopComes
        \/ claude.end \in {"interrupted", "error"} /\ LineComes

Turn ==
    /\ TurnSeen /\ ToolsLate /\ ToolsThenLate /\ EchoThenLate /\ StopsStale /\ BeatOfLate
    /\ Over
ActivityInv == Typed /\ Order /\ Hooks /\ Heart /\ Turn
-----------------------------------------------------------------------------
(* What the parts of the actions do.                                       *)

(* Every number is one, every flag a flag.                                 *)
LEMMA Numbers ==
    ASSUME Typed
    PROVE  /\ now \in Nat /\ claude.turn \in Nat /\ claude.echo \in Nat
           /\ claude.tool \in BOOLEAN /\ claude.work \in BOOLEAN /\ claude.reports \in BOOLEAN
           /\ \A h \in hooks : /\ h.event \in Events /\ h.turn \in Nat /\ h.at \in Nat
                               /\ h.wrote \in BOOLEAN
           /\ Len(log) \in Nat /\ (log = <<>> <=> Len(log) = 0)
           /\ \A i \in 1 .. Len(log) : log[i].at \in Nat /\ log[i].kind \in Lines
           /\ \A i \in 1 .. Len(log) : log[i].at # 0
           /\ hub.since \in Nat /\ hub.fired \in Nat /\ hub.end \in Nat /\ hub.start \in Nat
           /\ hub.up \in BOOLEAN /\ hub.busy \in BOOLEAN /\ hub.window \in BOOLEAN
           /\ hb.since \in Nat /\ hb.age \in 0 .. Timeout /\ hb.event \in Events \cup {"hub"}
           /\ hb.state \in {"none", "active", "idle"}
           /\ tail.read \in Nat /\ tail.passed \in Nat /\ tail.told \in Nat
           /\ reap.live \in BOOLEAN
<1>1. log \in Seq(Line)
  BY DEF Typed
<1>2. Len(log) \in Nat /\ (log = <<>> <=> Len(log) = 0)
  <2>1. Len(log) \in Nat
    BY <1>1
  <2>2. log # <<>> => Len(log) # 0
    BY <1>1
  <2>3. log = <<>> => Len(log) = 0
    OBVIOUS
  <2> QED
    BY <2>1, <2>2, <2>3
<1>3. \A i \in 1 .. Len(log) : log[i].at \in Nat /\ log[i].at # 0 /\ log[i].kind \in Lines
  <2>1. \A i \in 1 .. Len(log) : log[i] \in Line
    BY <1>1
  <2> QED
    BY <2>1 DEF Line
<1>4. \A h \in hooks : /\ h.event \in Events /\ h.turn \in Nat /\ h.at \in Nat
                       /\ h.wrote \in BOOLEAN
  BY DEF Typed, Hook
<1>5. /\ hb.since \in Nat /\ hb.age \in 0 .. Timeout /\ hb.event \in Events \cup {"hub"}
      /\ hb.state \in {"none", "active", "idle"}
  BY DEF Typed, HeartBeat
<1>6. /\ hub.since \in Nat /\ hub.fired \in Nat /\ hub.end \in Nat /\ hub.start \in Nat
      /\ hub.up \in BOOLEAN /\ hub.busy \in BOOLEAN /\ hub.window \in BOOLEAN
  BY DEF Typed, Actor
<1>7. /\ now \in Nat /\ claude.turn \in Nat /\ claude.echo \in Nat
      /\ claude.tool \in BOOLEAN /\ claude.work \in BOOLEAN /\ claude.reports \in BOOLEAN
  BY DEF Typed, Agent
<1>8. /\ tail.read \in Nat /\ tail.passed \in Nat /\ tail.told \in Nat
      /\ reap.live \in BOOLEAN
  BY DEF Typed, Reader, Reaping
<1> QED
  BY <1>2, <1>3, <1>4, <1>5, <1>6, <1>7, <1>8, Zenon

(* What is used of the budget leaves the rest of it.                       *)
LEMMA UseStep ==
    ASSUME Typed, NEW b \in {"tools", "lost", "crash", "sub", "ends", "work"}, Use(b)
    PROVE  left' \in Budget /\ left'.turns = left.turns /\ left'.minutes = left.minutes
<1> DEFINE r == [left EXCEPT ![b] = @ - 1]
<1>1. left[b] > 0 /\ left \in Budget /\ left' = r
  BY DEF Use, Typed
<1>2. left[b] \in Nat
  BY <1>1 DEF Budget
<1>3. left[b] - 1 \in Nat
  BY <1>1, <1>2
<1>4. r \in Budget /\ r.turns = left.turns /\ r.minutes = left.minutes
  BY <1>1, <1>3, Zenon DEF Budget
<1> QED
  BY <1>1, <1>4

(* A hook is fired, a line written.                                        *)
Fired(h, event, turn) ==
    /\ hooks' = hooks \cup {h} /\ h \in Hook
    /\ h.event = event /\ h.turn = turn /\ h.at = now + 1 /\ ~h.wrote
LEMMA FiresStep ==
    ASSUME Typed, NEW event \in Events, NEW turn \in Nat, Fires(event, turn)
    PROVE  \E h : Fired(h, event, turn)
<1> DEFINE k == [event |-> event, turn |-> turn, at |-> now + 1, wrote |-> FALSE]
<1>1. now + 1 \in Nat
  BY DEF Typed
<1>2. k \in Hook /\ k.event = event /\ k.turn = turn /\ k.at = now + 1 /\ ~k.wrote
  BY <1>1 DEF Hook
<1>3. hooks' = hooks \cup {k}
  BY DEF Fires
<1> QED
  BY <1>2, <1>3 DEF Fired

Logged(kind) ==
    /\ log' \in Seq(Line) /\ Len(log') = Len(log) + 1 /\ log' # <<>>
    /\ log'[Len(log')].kind = kind /\ log'[Len(log')].at = now + 1
    /\ \A i \in 1 .. Len(log') :
          \/ i \in 1 .. Len(log) /\ log'[i] = log[i]
          \/ log'[i].kind = kind /\ log'[i].at = now + 1
LEMMA ToLogStep ==
    ASSUME Typed, NEW kind \in Lines, ToLog(kind)
    PROVE  Logged(kind)
<1> DEFINE l == [kind |-> kind, at |-> now + 1]
<1>1. now + 1 \in Nat \ {0}
  BY DEF Typed
<1>2. l \in Line /\ l.kind = kind /\ l.at = now + 1
  BY <1>1 DEF Line
<1>3. log' = Append(log, l) /\ log \in Seq(Line)
  BY DEF ToLog, Typed
<1> HIDE DEF l
<1>4. /\ log' \in Seq(Line) /\ Len(log') = Len(log) + 1 /\ log' # <<>>
      /\ log'[Len(log')] = l /\ \A i \in 1 .. Len(log) : log'[i] = log[i]
  BY <1>2, <1>3
<1>5. \A i \in 1 .. Len(log') : i \in 1 .. Len(log) \/ i = Len(log')
  BY <1>3, <1>4
<1> QED
  BY <1>2, <1>4, <1>5 DEF Logged

(* The heartbeat file is written.                                          *)
Beats(state, event, since) ==
    /\ hb' \in HeartBeat /\ hb'.state = state /\ hb'.event = event /\ hb'.since = since
    /\ hb'.age = 0
LEMMA BeatStep ==
    ASSUME NEW state \in {"none", "active", "idle"}, NEW event \in Events \cup {"hub"},
           NEW since \in Nat, hb' = Beat(state, event, since)
    PROVE  Beats(state, event, since)
BY TimeoutIsPositive DEF Beat, Beats, HeartBeat

Bumps(fallback) ==
    /\ hb' \in HeartBeat /\ hb'.state = (IF hb.state = "none" THEN fallback ELSE hb.state)
    /\ hb'.event = "hub" /\ hb'.since = hb.since /\ hb'.age = 0
LEMMA BumpStep ==
    ASSUME Typed, NEW fallback \in {"active", "idle"}
    PROVE  hb' = Bumped(hb, fallback) => Bumps(fallback)
<1> SUFFICES ASSUME hb' = Bumped(hb, fallback) PROVE Bumps(fallback)
  OBVIOUS
<1> DEFINE s == IF hb.state = "none" THEN fallback ELSE hb.state
           r == [hb EXCEPT !.state = s, !.event = "hub", !.age = 0]
<1>1. hb \in HeartBeat /\ 0 \in 0 .. Timeout
  BY TimeoutIsPositive DEF Typed
<1>2. s \in {"none", "active", "idle"}
  BY <1>1 DEF HeartBeat
<1>3. hb' = r
  BY <1>1 DEF Bumped
<1> HIDE DEF s
<1>4. r \in HeartBeat /\ r.state = s /\ r.event = "hub" /\ r.since = hb.since /\ r.age = 0
  BY <1>1, <1>2, Zenon DEF HeartBeat
<1> QED
  BY <1>3, <1>4 DEF Bumps, s

Refreshed(fallback) ==
    \/ hb' = hb /\ gap' = gap
    \/ /\ Bumps(fallback) /\ gap \subseteq gap' /\ gap' \subseteq gap \cup {"bumped"}
       /\ gap' = {} => \A h \in hooks : ~h.wrote
LEMMA RefreshStep ==
    ASSUME Typed, NEW fallback \in {"active", "idle"}, Refreshes(Bumped(hb, fallback))
    PROVE  Refreshed(fallback)
BY BumpStep DEF Refreshes, Refreshed
LEMMA NoRefresh ==
    ASSUME Refreshes(hb)
    PROVE  hb' = hb /\ gap' = gap
BY DEF Refreshes

(* Refreshed twice: by a subscription and by a hub that is busy.           *)
LEMMA BumpTwice ==
    ASSUME Typed, hb' = Bumped(Bumped(hb, "idle"), "active")
    PROVE  Bumps("idle")
<1> DEFINE s == IF hb.state = "none" THEN "idle" ELSE hb.state
           b == [hb EXCEPT !.state = s, !.event = "hub", !.age = 0]
           r == [b EXCEPT !.state = s, !.event = "hub", !.age = 0]
<1>1. hb \in HeartBeat /\ 0 \in 0 .. Timeout
  BY TimeoutIsPositive DEF Typed
<1>2. s \in {"none", "active", "idle"} /\ s # "none"
  BY <1>1 DEF HeartBeat
<1>3. Bumped(hb, "idle") = b
  BY <1>1 DEF Bumped
<1>4. b \in HeartBeat /\ b.state = s /\ b.since = hb.since
  <2> HIDE DEF s
  <2> QED
    BY <1>1, <1>2, Zenon DEF HeartBeat
<1>5. hb' = r
  <2> HIDE DEF b
  <2>1. hb' = Bumped(b, "active")
    BY <1>3
  <2> HIDE DEF s
  <2> QED
    BY <1>2, <1>4, <2>1 DEF Bumped
<1> HIDE DEF b, s
<1>6. r \in HeartBeat /\ r.state = s /\ r.event = "hub" /\ r.since = b.since /\ r.age = 0
  BY <1>1, <1>2, <1>4, Zenon DEF HeartBeat
<1> QED
  BY <1>4, <1>5, <1>6 DEF Bumps, s

TickRefreshed == Refreshed("idle") \/ (hub.busy /\ Refreshed("active"))
LEMMA TickBumpStep ==
    ASSUME Typed, Refreshes(TickBump(hb))
    PROVE  TickRefreshed
<1>1. CASE sub = "front" /\ hub.busy
  <2>1. TickBump(hb) = Bumped(Bumped(hb, "idle"), "active")
    BY <1>1 DEF TickBump
  <2> QED
    BY <2>1, BumpTwice DEF Refreshes, Refreshed, TickRefreshed
<1>2. CASE sub = "front" /\ ~hub.busy
  BY <1>2, RefreshStep DEF TickBump, TickRefreshed
<1>3. CASE sub # "front" /\ hub.busy
  BY <1>3, RefreshStep DEF TickBump, TickRefreshed
<1>4. CASE sub # "front" /\ ~hub.busy
  BY <1>4, NoRefresh DEF TickBump, TickRefreshed, Refreshed
<1> QED
  BY <1>1, <1>2, <1>3, <1>4

(* A hook process writes the heartbeat.                                    *)
Wrote(h, k) ==
    /\ hooks' = (hooks \ {h}) \cup {k}
    /\ k \in Hook /\ k.event = h.event /\ k.turn = h.turn /\ k.at = h.at /\ k.wrote
    /\ Beats(IF IsStop(h) THEN "idle" ELSE "active", h.event, 0)
LEMMA WritesStep ==
    ASSUME Typed, NEW h \in hooks, HookWrites(h)
    PROVE  \E k : Wrote(h, k)
<1> DEFINE k == [h EXCEPT !.wrote = TRUE]
           s == IF h.event = "Stop" THEN "idle" ELSE "active"
<1>1. h \in Hook /\ h.event \in Events
  BY DEF Typed, Hook
<1>2. k \in Hook /\ k.event = h.event /\ k.turn = h.turn /\ k.at = h.at /\ k.wrote
  BY <1>1, Zenon DEF Hook
<1>3. hooks' = (hooks \ {h}) \cup {k} /\ hb' = Beat(s, h.event, 0)
  BY DEF HookWrites
<1>4. Beats(s, h.event, 0)
  BY <1>1, <1>3, BeatStep
<1> HIDE DEF k
<1> QED
  BY <1>2, <1>3, <1>4 DEF Wrote, IsStop

(* What the hub notes.                                                     *)
Acts(up, busy, since, fired, end, start, window) ==
    /\ hub' \in Actor /\ hub'.up = up /\ hub'.busy = busy /\ hub'.since = since
    /\ hub'.fired = fired /\ hub'.end = end /\ hub'.start = start /\ hub'.window = window

(* A hook that is not a Stop is too late, and taken back, or is believed.  *)
Reverts(h) ==
    /\ TooLate(h) /\ hub' = hub /\ gap' = gap /\ now' = now
    /\ \/ hb.state = "active" /\ hb.event = h.event /\ Beats("idle", "hub", 0)
       \/ ~(hb.state = "active" /\ hb.event = h.event) /\ hb' = hb
Marks(h, since) ==
    /\ ~TooLate(h) /\ now' = now + 1
    /\ IsPrompt(h) \/ hub.since = 0 => since = now + 1
    /\ ~IsPrompt(h) /\ hub.since # 0 => since = hub.since
    /\ Acts(hub.up, TRUE, since, IF IsPrompt(h) THEN h.at ELSE hub.fired, hub.end, hub.start,
            hub.window)
    /\ Beats("active", "hub", since)
    /\ gap' = IF IsPrompt(h) /\ EndWaits(h) THEN gap \cup {"early"} ELSE gap
LEMMA ActiveStep ==
    ASSUME Typed, NEW h \in hooks, HookActive(h)
    PROVE  Reverts(h) \/ \E since \in Nat : Marks(h, since)
<1>1. h.at \in Nat /\ now + 1 \in Nat /\ hub.since \in Nat /\ hub \in Actor
  BY Numbers DEF Typed
<1>2. CASE TooLate(h)
  <2>1. hb' = Reverted(h) /\ hub' = hub /\ gap' = gap /\ now' = now
    BY <1>2 DEF HookActive
  <2>2. CASE hb.state = "active" /\ hb.event = h.event
    <3>1. hb' = Beat("idle", "hub", 0)
      BY <2>1, <2>2 DEF Reverted
    <3> QED
      BY <1>2, <2>1, <2>2, <3>1, BeatStep DEF Reverts
  <2>3. CASE ~(hb.state = "active" /\ hb.event = h.event)
    BY <1>2, <2>1, <2>3 DEF Reverted, Reverts
  <2> QED
    BY <2>2, <2>3
<1>3. CASE ~TooLate(h)
  <2> DEFINE t == IF h.event = "UserPromptSubmit" \/ hub.since = 0 THEN now + 1 ELSE hub.since
             f == IF h.event = "UserPromptSubmit" THEN h.at ELSE hub.fired
             r == [hub EXCEPT !.busy = TRUE, !.since = t, !.fired = f]
  <2>1. t \in Nat /\ f \in Nat
    BY <1>1 DEF Actor
  <2>2. hub' = r /\ hb' = Beat("active", "hub", t) /\ now' = now + 1
    BY <1>1, <1>3 DEF HookActive, MarksActive, Tick1
  <2>3. gap' = IF IsPrompt(h) /\ EndWaits(h) THEN gap \cup {"early"} ELSE gap
    BY <1>3 DEF HookActive, IsPrompt
  <2>4. Beats("active", "hub", t)
    <3> HIDE DEF t
    <3> QED
      BY <2>1, <2>2, BeatStep
  <2>5. r \in Actor /\ Acts(hub.up, TRUE, t, f, hub.end, hub.start, hub.window)
    <3> HIDE DEF t, f
    <3>1. /\ r \in Actor /\ r.up = hub.up /\ r.busy = TRUE /\ r.since = t /\ r.fired = f
          /\ r.end = hub.end /\ r.start = hub.start /\ r.window = hub.window
      BY <1>1, <2>1, Zenon DEF Actor
    <3> QED
      BY <2>2, <3>1 DEF Acts
  <2>6. Marks(h, t)
    BY <1>3, <2>2, <2>3, <2>4, <2>5 DEF Marks, IsPrompt
  <2> QED
    BY <2>1, <2>6
<1> QED
  BY <1>2, <1>3

(* A turn is over.                                                         *)
LEMMA DoneStep ==
    ASSUME Typed
    PROVE  /\ Done \in Actor /\ Done.up = hub.up /\ ~Done.busy /\ Done.since = 0
           /\ Done.fired = 0 /\ Done.end = hub.end /\ Done.start = hub.start
           /\ Done.window = hub.window /\ Done.busy = FALSE
<1>1. hub \in Actor
  BY DEF Typed
<1> QED
  BY <1>1, Zenon DEF Done, Actor

Undoes(h) ==
    /\ StaleStop(h) /\ hub' = hub /\ gap' = gap /\ now' = now
    /\ \/ hb.state = "idle" /\ hb.event = "Stop" /\ Beats("active", "hub", hub.since)
       \/ ~(hb.state = "idle" /\ hb.event = "Stop") /\ hb' = hb
EndsTurn(h) ==
    /\ ~StaleStop(h) /\ gap' = gap /\ now' = now
    /\ Acts(hub.up, FALSE, 0, 0, hub.end, hub.start, hub.window) /\ Beats("idle", "hub", 0)
LEMMA StopStep ==
    ASSUME Typed, NEW h \in hooks, HookStop(h)
    PROVE  Undoes(h) \/ EndsTurn(h)
<1>1. hub.since \in Nat
  BY Numbers
<1>2. CASE StaleStop(h)
  BY <1>1, <1>2, BeatStep DEF HookStop, Undoes
<1>3. CASE ~StaleStop(h)
  <2>1. hub' = Done /\ hb' = Beat("idle", "hub", 0) /\ gap' = gap /\ now' = now
    BY <1>3 DEF HookStop, MarksDone
  <2> QED
    BY <1>3, <2>1, BeatStep, DoneStep DEF EndsTurn, Acts
<1> QED
  BY <1>2, <1>3

(* The reader of the transcript passes a line on.                          *)
Passes(n) ==
    /\ n = tail.read + 1 /\ n \in 1 .. Len(log)
    /\ tail' \in Reader /\ tail'.read = n
    /\ tail'.passed = Later(tail.passed, n) /\ tail'.told = Later(tail.told, n)
Reads(n) ==
    \/ /\ log[n].kind = "prompt" /\ hb' = hb
       /\ Acts(hub.up, hub.busy, hub.since, hub.fired, hub.end, Later(hub.start, log[n].at),
               hub.window)
    \/ /\ log[n].kind # "prompt" /\ ~hub.busy /\ hb' = hb
       /\ Acts(hub.up, hub.busy, hub.since, hub.fired, Later(hub.end, log[n].at), hub.start,
               hub.window)
    \/ log[n].kind # "prompt" /\ hub.busy /\ log[n].at < hub.since /\ hub' = hub /\ hb' = hb
    \/ /\ log[n].kind # "prompt" /\ hub.busy /\ hub.since <= log[n].at
       /\ Beats("idle", "hub", 0)
       /\ Acts(hub.up, FALSE, 0, 0, Later(hub.end, log[n].at), hub.start,
               hub.window \/ log[n].kind = "interrupted")
LEMMA ReadsStep ==
    ASSUME Typed, TailReads
    PROVE  \E n : Passes(n) /\ Reads(n)
<1> DEFINE n == tail.read + 1
<1>1. /\ hub \in Actor /\ hub.since \in Nat /\ hub.end \in Nat /\ hub.start \in Nat
      /\ tail.read \in Nat /\ tail.passed \in Nat /\ tail.told \in Nat /\ Len(log) \in Nat
  BY Numbers DEF Typed
<1>2. n \in 1 .. Len(log) /\ n \in Nat
  BY <1>1 DEF TailReads
<1>3. log[n].at \in Nat /\ log[n].kind \in Lines
  BY <1>2, Numbers
<1>4. Later(tail.passed, n) \in Nat /\ Later(tail.told, n) \in Nat
  BY <1>1, <1>2 DEF Later
<1>5. Passes(n)
  BY <1>2, <1>4 DEF TailReads, Passes, Reader
<1>6. Lifecycle(log[n])
  BY DEF TailReads
<1> HIDE DEF n
<1>7. CASE log[n].kind = "prompt"
  <2> DEFINE t == Later(hub.start, log[n].at)
             r == [hub EXCEPT !.start = t]
  <2>1. t \in Nat /\ hub' = r /\ hb' = hb
    BY <1>1, <1>3, <1>6, <1>7 DEF Lifecycle, Later
  <2> HIDE DEF t
  <2>2. /\ r \in Actor /\ r.up = hub.up /\ r.busy = hub.busy /\ r.since = hub.since
        /\ r.fired = hub.fired /\ r.end = hub.end /\ r.start = t /\ r.window = hub.window
    BY <1>1, <2>1, Zenon DEF Actor
  <2> QED
    BY <1>5, <1>7, <2>1, <2>2 DEF Reads, Acts, t
<1>8. CASE log[n].kind # "prompt" /\ ~hub.busy
  <2> DEFINE t == Later(hub.end, log[n].at)
             r == [hub EXCEPT !.end = t]
  <2>1. t \in Nat /\ hub' = r /\ hb' = hb
    BY <1>1, <1>3, <1>6, <1>8 DEF Lifecycle, Later
  <2> HIDE DEF t
  <2>2. /\ r \in Actor /\ r.up = hub.up /\ r.busy = hub.busy /\ r.since = hub.since
        /\ r.fired = hub.fired /\ r.end = t /\ r.start = hub.start /\ r.window = hub.window
    BY <1>1, <2>1, Zenon DEF Actor
  <2> QED
    BY <1>5, <1>8, <2>1, <2>2 DEF Reads, Acts, t
<1>9. CASE log[n].kind # "prompt" /\ hub.busy /\ log[n].at < hub.since
  BY <1>5, <1>6, <1>9 DEF Lifecycle, Reads
<1>10. CASE log[n].kind # "prompt" /\ hub.busy /\ ~(log[n].at < hub.since)
  <2> DEFINE t == Later(Done.end, log[n].at)
             w == Done.window \/ log[n].kind = "interrupted"
             r == [Done EXCEPT !.end = t, !.window = w]
  <2>1. /\ Done \in Actor /\ Done.up = hub.up /\ Done.busy = FALSE /\ Done.since = 0
        /\ Done.fired = 0 /\ Done.end = hub.end /\ Done.start = hub.start
        /\ Done.window = hub.window
    BY DoneStep
  <2>2. t \in Nat /\ w \in BOOLEAN
    BY <1>1, <1>3, <2>1 DEF Later
  <2>3. hub' = r /\ hb' = Beat("idle", "hub", 0)
    BY <1>6, <1>10, <2>1 DEF Lifecycle, MarksDone
  <2>4. t = Later(hub.end, log[n].at) /\ w = (hub.window \/ log[n].kind = "interrupted")
    BY <2>1
  <2> HIDE DEF t, w
  <2>5. /\ r \in Actor /\ r.up = Done.up /\ r.busy = Done.busy /\ r.since = Done.since
        /\ r.fired = Done.fired /\ r.end = t /\ r.start = Done.start /\ r.window = w
    BY <2>1, <2>2, Zenon DEF Actor
  <2>6. Acts(hub.up, FALSE, 0, 0, t, hub.start, w)
    BY <2>1, <2>3, <2>5 DEF Acts
  <2>7. Beats("idle", "hub", 0)
    BY <2>3, BeatStep
  <2>8. hub.since <= log[n].at
    BY <1>1, <1>3, <1>10
  <2> QED
    BY <1>5, <1>10, <2>4, <2>6, <2>7, <2>8 DEF Reads
<1> QED
  BY <1>7, <1>8, <1>9, <1>10

(* The hub starts, with what the heartbeat and the transcript tell.        *)
Starts ==
    /\ now' = now + 1
    /\ \/ /\ hb.state # "active" /\ hb' = hb
          /\ Acts(TRUE, FALSE, 0, 0, 0, 0, FALSE)
       \/ /\ hb.state = "active" /\ ~Restorable /\ hb' = hb
          /\ Acts(TRUE, FALSE, 0, 0, 0, 0, FALSE)
       \/ /\ Restorable /\ EndedMeanwhile /\ Beats("idle", "hub", 0)
          /\ Acts(TRUE, FALSE, 0, 0, 0, 0, FALSE)
       \/ /\ Restorable /\ ~EndedMeanwhile /\ hb' = hb
          /\ Acts(TRUE, TRUE, IF hb.since = 0 THEN now + 1 ELSE hb.since, 0, 0, 0, FALSE)
LEMMA FreshActorType ==
    /\ FreshActor \in Actor /\ FreshActor.up = TRUE /\ FreshActor.busy = FALSE
    /\ FreshActor.since = 0 /\ FreshActor.fired = 0 /\ FreshActor.end = 0
    /\ FreshActor.start = 0
    /\ FreshActor.window = FALSE
BY DEF FreshActor, Actor
LEMMA StartsStep ==
    ASSUME Typed, HubStarts
    PROVE  Starts
<1>1. now + 1 \in Nat /\ hb.since \in Nat /\ now' = now + 1
  BY Numbers DEF HubStarts, Tick1
<1>2. CASE ~Restorable
  <2>1. hub' = FreshActor /\ hb' = hb
    BY <1>2 DEF HubStarts
  <2> QED
    BY <1>1, <1>2, <2>1, FreshActorType DEF Starts, Acts
<1>3. CASE Restorable /\ EndedMeanwhile
  <2>1. hub' = FreshActor /\ hb' = Beat("idle", "hub", 0)
    BY <1>3 DEF HubStarts
  <2>2. Beats("idle", "hub", 0)
    BY <2>1, BeatStep
  <2> QED
    BY <1>1, <1>3, <2>1, <2>2, FreshActorType DEF Starts, Acts
<1>4. CASE Restorable /\ ~EndedMeanwhile
  <2> DEFINE t == IF hb.since = 0 THEN now + 1 ELSE hb.since
             r == [FreshActor EXCEPT !.busy = TRUE, !.since = t]
  <2>1. t \in Nat /\ hub' = r /\ hb' = hb
    BY <1>1, <1>4 DEF HubStarts
  <2> HIDE DEF t
  <2>2. /\ r \in Actor /\ r.up = FreshActor.up /\ r.busy = TRUE /\ r.since = t
        /\ r.fired = FreshActor.fired /\ r.end = FreshActor.end /\ r.start = FreshActor.start
        /\ r.window = FreshActor.window
    BY <2>1, FreshActorType, Zenon DEF Actor
  <2>3. Acts(TRUE, TRUE, t, 0, 0, 0, FALSE)
    BY <2>1, <2>2, FreshActorType DEF Acts
  <2> QED
    BY <1>1, <1>4, <2>1, <2>3 DEF Starts, t
<1> QED
  BY <1>2, <1>3, <1>4

(* A line is written, the newest of all.                                   *)
LEMMA LinesStep ==
    ASSUME ActivityInv, NEW kind, Logged(kind), now' = now + 1, hub' = hub
    PROVE  LinesPast' /\ LinesInOrder'
<1>1. LinesPast /\ LinesInOrder /\ Typed
  BY DEF ActivityInv, Order
<1>2. LastAt' = now + 1 /\ LastAt <= now /\ LastAt \in Nat /\ now \in Nat
  BY <1>1, Numbers DEF LastAt, Logged, LinesPast
<1>3. \A i \in 1 .. Len(log') : log'[i].at <= now + 1
  <2> SUFFICES ASSUME NEW i \in 1 .. Len(log') PROVE log'[i].at <= now + 1
    OBVIOUS
  <2>1. CASE i \in 1 .. Len(log) /\ log'[i] = log[i]
    <3>1. log[i].at \in Nat /\ log[i].at <= now
      BY <1>1, <2>1, Numbers DEF LinesPast
    <3> QED
      BY <1>2, <2>1, <3>1
  <2>2. CASE log'[i].at = now + 1
    BY <1>2, <2>2
  <2> QED
    BY <2>1, <2>2 DEF Logged
<1>4. hub'.start <= LastAt' /\ hub'.end <= LastAt'
  BY <1>1, <1>2, Numbers DEF LinesInOrder
<1> QED
  BY <1>2, <1>3, <1>4 DEF LinesPast, LinesInOrder

(* The Stop that is awaited is through only after all others.              *)
LEMMA StopComesStep ==
    ASSUME ActivityInv, NEW h \in hooks, InOrder(h), hooks' = hooks \ {h}, claude' = claude,
           StopComes
    PROVE  \/ hooks' = {} /\ IsStop(h) /\ hub.fired < h.at
           \/ /\ ~(IsStop(h) /\ hooks' = {})
              /\ hub'.fired = hub.fired \/ hub'.fired = h.at \/ hub'.fired = 0 => StopComes'
<1>1. PICK s \in hooks : /\ IsStop(s) /\ hub.fired < s.at
                         /\ \A g \in hooks : Own(g) /\ (g # s => g.at < s.at)
  BY DEF StopComes
<1>2. \A g \in hooks : g.at \in Nat
  BY Numbers DEF ActivityInv
<1>3. CASE h = s
  <2>1. \A g \in hooks : g.at >= h.at
    BY <1>1 DEF InOrder, Own
  <2>2. \A g \in hooks : g = s
    BY <1>1, <1>2, <1>3, <2>1
  <2> QED
    BY <1>1, <1>3, <2>2
<1>4. CASE h # s
  <2>1. s \in hooks'
    BY <1>1, <1>4
  <2>2. ASSUME hub'.fired = hub.fired \/ hub'.fired = h.at \/ hub'.fired = 0 PROVE StopComes'
    <3>1. 0 < s.at
      BY <1>1, <1>2, Numbers DEF ActivityInv
    <3>2. hub'.fired < s.at
      BY <1>1, <1>4, <2>2, <3>1
    <3>3. claude'.echo = 0
      BY DEF StopComes
    <3> QED
      BY <1>1, <2>1, <3>2, <3>3 DEF StopComes, Own, IsStop
  <2> QED
    BY <2>1, <2>2
<1> QED
  BY <1>3, <1>4

(* A hook is through: it was the oldest of the prompts, if it was one.     *)
LEMMA PromptsGoneStep ==
    ASSUME ActivityInv, NEW h \in hooks, InOrder(h), hooks' = hooks \ {h}, claude' = claude
    PROVE  PromptsGone'
<1> SUFFICES ASSUME Arrived', NEW g \in hooks, g # h, IsPrompt(g) PROVE FALSE
  BY DEF PromptsGone, IsPrompt
<1>1. PromptsGone /\ PromptsInOrder /\ TurnsPast
  BY DEF ActivityInv, Hooks
<1>2. InTurn /\ IsPrompt(h) /\ Own(h) /\ ~Own(g)
  BY <1>1 DEF Arrived, InTurn, PromptsGone, IsPrompt, Own
<1>3. g.turn < h.turn
  BY <1>1, <1>2, Numbers DEF ActivityInv, TurnsPast, Own
<1>4. g.at < h.at
  BY <1>1, <1>2, <1>3 DEF PromptsInOrder
<1>5. g.at >= h.at
  BY <1>2 DEF InOrder, IsPrompt
<1> QED
  BY <1>4, <1>5, Numbers DEF ActivityInv

(* Only a tool of a turn that the hub knows of is believed.                *)
LEMMA MarksTool ==
    ASSUME ActivityInv, Live, hub.up, NEW h \in hooks, ~IsStop(h), ~IsPrompt(h), ~TooLate(h)
    PROVE  hub.busy
<1>1. h \in Tools /\ Continues(h.event)
  BY Numbers DEF ActivityInv, Tools, Continues, IsStop, IsPrompt, Events
<1>2. ToolsLate
  BY DEF ActivityInv, Turn
<1> QED
  BY <1>1, <1>2 DEF ToolsLate, TooLate, BeforeTurnEnd, AfterInterrupt, IsPrompt

(* Where the reaper goes.                                                  *)
LEMMA GoesStep ==
    ASSUME Typed,
           NEW step \in {"none", "judge", "agent", "keep", "recheck", "kill", "retire"}
    PROVE  Goes(step) => reap' \in Reaping /\ reap'.step = step /\ reap'.live = reap.live
BY Zenon DEF Typed, Goes, Reaping

-----------------------------------------------------------------------------
(* Every action keeps the invariant: Claude.                               *)

(* A prompt begins a turn: the hub has not heard of it yet.                *)
LEMMA PromptSafe ==
    ASSUME ActivityInv, Prompt
    PROVE  ActivityInv'
<1>1. claude.turn + 1 \in Nat /\ "UserPromptSubmit" \in Events
  BY Numbers DEF ActivityInv, Events
<1>2. PICK k : Fired(k, "UserPromptSubmit", claude.turn + 1)
  BY <1>1, FiresStep DEF ActivityInv, Prompt
<1>3. /\ claude' \in Agent /\ claude'.proc = claude.proc /\ claude'.turn = claude.turn + 1
      /\ claude'.phase = "asked" /\ claude'.tool = claude.tool /\ claude'.echo = claude.echo
      /\ claude'.end = "none" /\ claude'.work = claude.work /\ claude'.reports = claude.reports
  BY <1>1 DEF ActivityInv, Typed, Agent, Prompt
<1>4. /\ now' = now + 1 /\ claude.proc = "run" /\ ~InTurn /\ claude.turn < left.turns
      /\ gap' = (IF hooks = {} /\ claude.echo = 0 THEN {} ELSE gap)
      /\ UNCHANGED <<log, hb, hub, sub, tail, reap, due, left>>
  BY DEF Prompt, Tick1, Answered, Lasts
<1>5. /\ left' \in Budget /\ claude' \in Agent /\ log' \in Seq(Line) /\ hooks' \subseteq Hook
      /\ hb' \in HeartBeat /\ hub' \in Actor
  BY <1>1, <1>2, <1>3, <1>4 DEF ActivityInv, Typed, Fired
<1>6. sub' \in {"none", "back", "front"} /\ tail' \in Reader /\ reap' \in Reaping
  BY <1>1, <1>2, <1>3, <1>4 DEF ActivityInv, Typed, Fired
<1>7. due' \in BOOLEAN
  BY <1>1, <1>2, <1>3, <1>4 DEF ActivityInv, Typed, Fired
<1>8. now' \in Nat
  BY <1>1, <1>2, <1>3, <1>4 DEF ActivityInv, Typed, Fired
<1>9. gap' \subseteq {"lost", "early", "restart", "bumped", "retired", "relaunched"}
  BY <1>1, <1>2, <1>3, <1>4 DEF ActivityInv, Typed, Fired
<1>10. Places' /\ LinesInOrder' /\ PromptLast'
  BY <1>1, <1>2, <1>3, <1>4, SMT
     DEF ActivityInv, Order, Places, Fired, LinesInOrder, LastAt, PromptLast
<1>11. HooksPast'
  BY <1>1, <1>2, <1>3, <1>4, Numbers, SMT DEF ActivityInv, Order, HooksPast, Fired
<1>12. LinesPast'
  BY <1>1, <1>2, <1>3, <1>4, Numbers, SMTT(60) DEF ActivityInv, Order, LinesPast, Fired
<1>13. HubPast'
  BY <1>1, <1>2, <1>3, <1>4, Numbers, SMTT(60) DEF ActivityInv, Order, HubPast, Fired
<1>14. AgentInTurn'
  <2>1. AgentInTurn /\ claude.turn \in Nat /\ claude.echo \in Nat /\ left.turns \in Nat
    BY Numbers DEF ActivityInv, Order, Typed, Budget
  <2>2. claude'.turn <= left'.turns /\ claude'.echo <= claude'.turn /\ claude'.turn # 0
    BY <1>1, <1>2, <1>3, <1>4, <2>1 DEF AgentInTurn
  <2> QED
    BY <1>1, <1>2, <1>3, <1>4, <2>1, <2>2 DEF AgentInTurn, InTurn
<1>15. PromptsGone'
  BY <1>1, <1>2, <1>3, <1>4, SMT DEF ActivityInv, Hooks, PromptsGone, Arrived, Fired
<1>16. TurnsPast'
  BY <1>1, <1>2, <1>3, <1>4, Numbers, SMTT(60) DEF ActivityInv, Hooks, TurnsPast, InTurn, Fired
<1>17. PromptsInOrder'
  BY <1>1, <1>2, <1>3, <1>4, Numbers, SMTT(60)
     DEF ActivityInv, Hooks, Order, PromptsInOrder, HooksPast, TurnsPast, StopsAreEnds,
         IsPrompt, IsStop, Own, Fired
<1>18. StopsLast'
  BY <1>1, <1>2, <1>3, <1>4, Numbers, SMTT(60)
     DEF ActivityInv, Hooks, Order, StopsLast, HooksPast, TurnsPast, EchoInOrder, StopsAreEnds,
         IsStop, Own, InTurn, AgentInTurn, Fired
<1>19. ToolsAfterPrompts'
  BY <1>1, <1>2, <1>3, <1>4, Numbers, SMTT(60)
     DEF ActivityInv, Hooks, Order, ToolsAfterPrompts, TurnsPast, Tools, IsPrompt, Continues,
         EchoInOrder, PromptsGone, Arrived, InTurn, AgentInTurn, Fired
<1>20. StopsAreEnds'
  BY <1>1, <1>2, <1>3, <1>4, Numbers, SMT
     DEF ActivityInv, Hooks, StopsAreEnds, TurnsPast, IsStop, Own, Fired
<1>21. EchoInOrder'
  BY <1>1, <1>2, <1>3, <1>4, Numbers, SMT
     DEF ActivityInv, Hooks, Order, EchoInOrder, StopsAreEnds, AgentInTurn, IsPrompt, IsStop,
         Own, InTurn, Fired
<1>22. PromptAfterEnds'
  <2> SUFFICES ASSUME NEW h \in hooks', IsPrompt(h), Own(h)'
               PROVE  hub'.end < h.at /\ EndsBefore(h.at)'
    BY DEF PromptAfterEnds, IsPrompt
  <2>1. TurnsPast /\ LinesPast /\ LinesInOrder /\ Typed
    BY DEF ActivityInv, Order, Hooks
  <2>2. h = k
    BY <1>1, <1>2, <1>3, <1>4, <2>1, Numbers DEF TurnsPast, Own, Fired
  <2>3. LastAt <= now /\ LastAt \in Nat
    BY <2>1, Numbers DEF LastAt, LinesPast
  <2>4. hub.end < h.at
    BY <1>1, <1>2, <1>3, <1>4, <2>1, <2>2, <2>3, Numbers DEF LinesInOrder, Fired
  <2>5. \A i \in 1 .. Len(log) : log[i].at < h.at
    BY <1>1, <1>2, <1>3, <1>4, <2>1, <2>2, Numbers, SMTT(60) DEF LinesPast, Fired
  <2> QED
    BY <1>1, <1>2, <1>3, <1>4, <2>4, <2>5 DEF EndsBefore
<1>23. Heart'
  BY <1>1, <1>2, <1>3, <1>4, SMT
     DEF ActivityInv, Heart, HubSane, Fired, Fresh, BeatOfHook, IsStop, Judged, Asked,
         Unwritten
<1>24. Turn'
  BY <1>1, <1>2, <1>3, <1>4, SMT
     DEF ActivityInv, Turn, TurnSeen, Arrived, InTurn, IsStop, Fired, ToolsLate, Live, Tools,
         Continues, LineEnds, ToolsThenLate, EchoThenLate, StopsStale, BeatOfLate, Unwritten,
         Over
<1> QED
  BY <1>5, <1>6, <1>7, <1>8, <1>9, <1>10, <1>11, <1>12, <1>13, <1>14, <1>15, <1>16, <1>17,
     <1>18, <1>19, <1>20, <1>21, <1>22, <1>23, <1>24
     DEF ActivityInv, Typed, Order, Hooks, Heart, Turn

(* A tool is used by a turn whose prompt has arrived.                      *)
LEMMA UsesToolSafe ==
    ASSUME ActivityInv, UsesTool
    PROVE  ActivityInv'
<1>1. claude.turn \in Nat /\ "PreToolUse" \in Events
  BY Numbers DEF ActivityInv, Events
<1>2. PICK k : Fired(k, "PreToolUse", claude.turn)
  BY <1>1, FiresStep DEF ActivityInv, UsesTool
<1>3. /\ claude' \in Agent /\ claude'.proc = claude.proc /\ claude'.turn = claude.turn
      /\ claude'.phase = claude.phase /\ claude'.tool = TRUE /\ claude'.echo = claude.echo
      /\ claude'.end = claude.end /\ claude'.work = claude.work
      /\ claude'.reports = claude.reports
  BY <1>1 DEF ActivityInv, Typed, Agent, UsesTool
<1>4. /\ now' = now + 1 /\ claude.phase = "on" /\ (\A h \in hooks : h.turn # claude.turn)
      /\ UNCHANGED <<log, hb, hub, sub, tail, reap, due, gap>>
  BY DEF UsesTool, Tick1, Answered, Lasts
<1>5. left' \in Budget /\ left'.turns = left.turns
  BY UseStep DEF ActivityInv, UsesTool
<1>6. Typed'
  BY <1>1, <1>2, <1>3, <1>4, <1>5 DEF ActivityInv, Typed, Fired
<1>7. Places' /\ LinesInOrder' /\ AgentInTurn' /\ PromptLast'
  BY <1>1, <1>2, <1>3, <1>4, <1>5, SMT
     DEF ActivityInv, Order, Places, LinesInOrder, LastAt, AgentInTurn, InTurn, PromptLast
<1>8. HooksPast'
  BY <1>1, <1>2, <1>3, <1>4, <1>5, Numbers, SMT DEF ActivityInv, Order, HooksPast, Fired
<1>9. LinesPast'
  BY <1>1, <1>2, <1>3, <1>4, <1>5, Numbers, SMT DEF ActivityInv, Order, LinesPast, Fired
<1>10. HubPast'
  BY <1>1, <1>2, <1>3, <1>4, <1>5, Numbers, SMTT(60) DEF ActivityInv, Order, HubPast, Fired
<1>11. PromptsInOrder' /\ StopsAreEnds' /\ EchoInOrder' /\ PromptsGone' /\ PromptAfterEnds'
  BY <1>1, <1>2, <1>3, <1>4, <1>5, SMT
     DEF ActivityInv, Hooks, PromptsInOrder, IsPrompt, IsStop, Own, Fired, StopsAreEnds, InTurn,
         EchoInOrder, Arrived, PromptsGone, PromptAfterEnds, LastAt
<1>12. TurnsPast'
  BY <1>1, <1>2, <1>3, <1>4, <1>5, Numbers, SMT
     DEF ActivityInv, Hooks, Order, TurnsPast, AgentInTurn, InTurn, Fired
<1>13. StopsLast'
  BY <1>1, <1>2, <1>3, <1>4, <1>5, Numbers, SMT
     DEF ActivityInv, Hooks, Order, StopsLast, TurnsPast, EchoInOrder, StopsAreEnds, IsStop,
         InTurn, Fired
<1>14. ToolsAfterPrompts'
  BY <1>1, <1>2, <1>3, <1>4, <1>5, Numbers, SMT
     DEF ActivityInv, Hooks, Order, ToolsAfterPrompts, IsPrompt, PromptsGone, Arrived, InTurn,
         Fired
<1>15. Heart'
  BY <1>1, <1>2, <1>3, <1>4, <1>5, SMT
     DEF ActivityInv, Heart, HubSane, Fired, Fresh, BeatOfHook, IsStop, Judged, Asked,
         Unwritten, InTurn
<1>16. TurnSeen' /\ EchoThenLate' /\ BeatOfLate' /\ Over'
  BY <1>1, <1>2, <1>3, <1>4, <1>5, SMT
     DEF ActivityInv, Turn, TurnSeen, BeatOn, BusyOn, Arrived, InTurn, EndsBefore, IsStop,
         Fired, EchoThenLate, LineEnds, Live, BeatOfLate, Over
<1>17. ToolsLate'
  BY <1>1, <1>2, <1>3, <1>4, <1>5, Numbers, SMT
     DEF ActivityInv, Turn, Hooks, Order, Heart, ToolsLate, Live, InTurn, Arrived, TurnSeen,
         BusyOn
<1>18. ToolsThenLate'
  <2> SUFFICES ASSUME Live', hub.busy', NEW i \in 1 .. Len(log'), LineEnds(i)'
               PROVE  FALSE
    BY DEF ToolsThenLate
  <2>1. /\ Live /\ hub.busy /\ i \in 1 .. Len(log)
        /\ log[i].kind # "prompt" /\ hub.since <= log[i].at
    BY <1>3, <1>4 DEF Live, LineEnds
  <2>2. Arrived /\ hub.up
    BY <1>4, <2>1 DEF ActivityInv, Heart, HubSane, Arrived, InTurn
  <2>3. log[i].at < hub.since
    BY <2>1, <2>2 DEF ActivityInv, Turn, TurnSeen, BusyOn, EndsBefore, Live
  <2> QED
    BY <2>1, <2>3, Numbers, SMTT(60) DEF ActivityInv
<1>19. StopsStale'
  BY <1>1, <1>2, <1>3, <1>4, <1>5, Numbers, SMT
     DEF ActivityInv, Turn, Hooks, Order, Heart, StopsStale, Live, InTurn, Arrived, TurnSeen,
         BusyOn, AgentInTurn, HubSane, StopsAreEnds, IsStop, Fired
<1> QED
  BY <1>6, <1>7, <1>8, <1>9, <1>10, <1>11, <1>12, <1>13, <1>14, <1>15, <1>16, <1>17, <1>18,
     <1>19 DEF ActivityInv, Typed, Order, Hooks, Heart, Turn

(* So it is when the tool ends.                                            *)
LEMMA ToolEndsSafe ==
    ASSUME ActivityInv, ToolEnds
    PROVE  ActivityInv'
<1>1. claude.turn \in Nat /\ "PostToolUse" \in Events
  BY Numbers DEF ActivityInv, Events
<1>2. PICK k : Fired(k, "PostToolUse", claude.turn)
  BY <1>1, FiresStep DEF ActivityInv, ToolEnds
<1>3. /\ claude' \in Agent /\ claude'.proc = claude.proc /\ claude'.turn = claude.turn
      /\ claude'.phase = claude.phase /\ claude'.tool = FALSE /\ claude'.echo = claude.echo
      /\ claude'.end = claude.end /\ claude'.work = claude.work
      /\ claude'.reports = claude.reports
  BY <1>1 DEF ActivityInv, Typed, Agent, ToolEnds
<1>4. /\ now' = now + 1 /\ claude.tool /\ (\A h \in hooks : h.turn # claude.turn)
      /\ UNCHANGED <<log, hb, hub, sub, tail, reap, due, gap, left>>
  BY DEF ToolEnds, Tick1, Answered, Lasts
<1>5. Typed'
  BY <1>1, <1>2, <1>3, <1>4 DEF ActivityInv, Typed, Fired
<1>6. Places' /\ LinesInOrder' /\ AgentInTurn' /\ PromptLast'
  BY <1>1, <1>2, <1>3, <1>4, SMT
     DEF ActivityInv, Order, Places, LinesInOrder, LastAt, AgentInTurn, InTurn, PromptLast
<1>7. HooksPast'
  BY <1>1, <1>2, <1>3, <1>4, Numbers, SMT DEF ActivityInv, Order, HooksPast, Fired
<1>8. LinesPast'
  BY <1>1, <1>2, <1>3, <1>4, Numbers, SMT DEF ActivityInv, Order, LinesPast, Fired
<1>9. HubPast'
  BY <1>1, <1>2, <1>3, <1>4, Numbers, SMTT(60) DEF ActivityInv, Order, HubPast, Fired
<1>10. PromptsInOrder' /\ StopsAreEnds' /\ EchoInOrder' /\ PromptsGone' /\ PromptAfterEnds'
  BY <1>1, <1>2, <1>3, <1>4, SMT
     DEF ActivityInv, Hooks, PromptsInOrder, IsPrompt, IsStop, Own, Fired, StopsAreEnds, InTurn,
         EchoInOrder, Arrived, PromptsGone, PromptAfterEnds, LastAt
<1>11. TurnsPast'
  BY <1>1, <1>2, <1>3, <1>4, Numbers, SMT
     DEF ActivityInv, Hooks, Order, TurnsPast, AgentInTurn, InTurn, Fired
<1>12. StopsLast'
  BY <1>1, <1>2, <1>3, <1>4, Numbers, SMT
     DEF ActivityInv, Hooks, Order, StopsLast, TurnsPast, IsStop, InTurn, AgentInTurn, Fired
<1>13. ToolsAfterPrompts'
  BY <1>1, <1>2, <1>3, <1>4, Numbers, SMT
     DEF ActivityInv, Hooks, Order, ToolsAfterPrompts, IsPrompt, PromptsGone, Arrived, InTurn,
         AgentInTurn, Fired
<1>14. Heart'
  BY <1>1, <1>2, <1>3, <1>4, SMT
     DEF ActivityInv, Heart, HubSane, Fired, Fresh, BeatOfHook, IsStop, Judged, Asked,
         Unwritten, InTurn
<1>15. TurnSeen' /\ EchoThenLate' /\ BeatOfLate'
  BY <1>1, <1>2, <1>3, <1>4, SMT
     DEF ActivityInv, Turn, TurnSeen, BeatOn, BusyOn, Arrived, InTurn, EndsBefore, IsStop,
         IsPrompt, Own, Fired, EchoThenLate, LineEnds, Live, BeatOfLate, Unwritten
<1>16. ToolsLate'
  BY <1>1, <1>2, <1>3, <1>4, Numbers, SMT
     DEF ActivityInv, Turn, Hooks, Order, Heart, ToolsLate, Live, InTurn, Arrived, TurnSeen,
         BusyOn, AgentInTurn
<1>17. ToolsThenLate'
  BY <1>1, <1>2, <1>3, <1>4, Numbers, TimeoutIsPositive, SMTT(60)
     DEF ActivityInv, Turn, Order, Heart, ToolsThenLate, LineEnds, Live, Tools, Continues,
         InTurn, Arrived, TurnSeen, BusyOn, EndsBefore, EchoThenLate, AgentInTurn, HooksPast,
         LinesPast, HubSane, ToolsLate, Fired
<1>18. StopsStale'
  BY <1>1, <1>2, <1>3, <1>4, Numbers, SMT
     DEF ActivityInv, Turn, Hooks, Order, Heart, StopsStale, Live, InTurn, Arrived, TurnSeen,
         BusyOn, EchoInOrder, AgentInTurn, HubSane, TurnsPast, ToolsLate, IsStop, Fired
<1>19. Over'
  BY <1>1, <1>2, <1>3, <1>4, Numbers, SMT
     DEF ActivityInv, Turn, Order, Heart, Hooks, Over, InTurn, AgentInTurn
<1> QED
  BY <1>5, <1>6, <1>7, <1>8, <1>9, <1>10, <1>11, <1>12, <1>13, <1>14, <1>15, <1>16, <1>17,
     <1>18, <1>19 DEF ActivityInv, Typed, Order, Hooks, Heart, Turn

(* A Stop hook is fired after all others of its turn.                      *)
LEMMA StopsSafe ==
    ASSUME ActivityInv, Stops
    PROVE  ActivityInv'
<1>1. claude.turn \in Nat /\ "Stop" \in Events
  BY Numbers DEF ActivityInv, Events
<1>2. PICK k : Fired(k, "Stop", claude.turn)
  BY <1>1, FiresStep DEF ActivityInv, Stops
<1>3. /\ claude' \in Agent /\ claude'.proc = claude.proc /\ claude'.turn = claude.turn
      /\ claude'.phase = "off" /\ claude'.tool = claude.tool /\ claude'.echo = claude.echo
      /\ claude'.end = "stop" /\ claude'.work \in BOOLEAN /\ claude'.reports = claude.reports
  BY <1>1 DEF ActivityInv, Typed, Agent, Stops
<1>4. /\ now' = now + 1 /\ claude.phase = "on" /\ ~claude.tool /\ claude.echo = 0
      /\ (\A h \in hooks : h.turn = claude.turn)
      /\ UNCHANGED <<log, hb, hub, sub, tail, reap, due, gap>>
  BY DEF Stops, Tick1, Answered, Lasts
<1>5. left' \in Budget /\ left'.turns = left.turns
  BY UseStep DEF ActivityInv, Stops, Typed
<1>6. Typed'
  BY <1>1, <1>2, <1>3, <1>4, <1>5 DEF ActivityInv, Typed, Fired
<1>7. Places' /\ LinesInOrder' /\ AgentInTurn' /\ PromptLast'
  BY <1>1, <1>2, <1>3, <1>4, <1>5, SMT
     DEF ActivityInv, Order, Places, LinesInOrder, LastAt, AgentInTurn, InTurn, PromptLast
<1>8. HooksPast'
  BY <1>1, <1>2, <1>3, <1>4, <1>5, Numbers, SMT DEF ActivityInv, Order, HooksPast, Fired
<1>9. LinesPast'
  BY <1>1, <1>2, <1>3, <1>4, <1>5, Numbers, SMT DEF ActivityInv, Order, LinesPast, Fired
<1>10. HubPast'
  BY <1>1, <1>2, <1>3, <1>4, <1>5, Numbers, SMT DEF ActivityInv, Order, HubPast, Fired
<1>11. /\ PromptsInOrder' /\ ToolsAfterPrompts' /\ StopsAreEnds' /\ EchoInOrder' /\ PromptsGone'
       /\ PromptAfterEnds'
  BY <1>1, <1>2, <1>3, <1>4, <1>5, SMT
     DEF ActivityInv, Hooks, PromptsInOrder, IsPrompt, Fired, ToolsAfterPrompts, Tools,
         Continues, Arrived, InTurn, StopsAreEnds, EchoInOrder, PromptsGone, PromptAfterEnds
<1>12. TurnsPast'
  BY <1>1, <1>2, <1>3, <1>4, <1>5, Numbers, SMT
     DEF ActivityInv, Hooks, Order, TurnsPast, AgentInTurn, InTurn, Fired
<1>13. StopsLast'
  BY <1>1, <1>2, <1>3, <1>4, <1>5, Numbers, SMT
     DEF ActivityInv, Hooks, Order, StopsLast, HooksPast, StopsAreEnds, Own, InTurn, Fired
<1>14. Heart'
  BY <1>1, <1>2, <1>3, <1>4, <1>5, SMT
     DEF ActivityInv, Heart, HubSane, Fired, Fresh, BeatOfHook, IsStop, Judged, Asked,
         Unwritten, InTurn
<1>15. TurnSeen' /\ ToolsLate' /\ ToolsThenLate' /\ EchoThenLate' /\ StopsStale' /\ BeatOfLate'
  BY <1>1, <1>2, <1>3, <1>4, <1>5, SMT
     DEF ActivityInv, Turn, TurnSeen, Arrived, InTurn, Fired, ToolsLate, Live, Tools, Continues,
         LineEnds, ToolsThenLate, EchoThenLate, StopsStale, BeatOfLate, Unwritten
<1>16. Over'
  BY <1>1, <1>2, <1>3, <1>4, <1>5, Numbers, SMTT(60)
     DEF ActivityInv, Turn, Order, Heart, Hooks, Over, InTurn, Rest, StopComes, LineComes,
         LastAt, HooksPast, LinesPast, HubPast, Places, BeatOfHook, BeatOfLate, Judged,
         TurnsPast, StopsLast, IsStop, Own, Fired
<1> QED
  BY <1>6, <1>7, <1>8, <1>9, <1>10, <1>11, <1>12, <1>13, <1>14, <1>15, <1>16
     DEF ActivityInv, Typed, Order, Hooks, Heart, Turn

(* The hook of an interrupted tool comes after the line of its end.        *)
LEMMA EchoesSafe ==
    ASSUME ActivityInv, Echoes
    PROVE  ActivityInv'
<1>1. claude.echo \in Nat /\ "PostToolUse" \in Events
  BY Numbers DEF ActivityInv, Events
<1>2. PICK k : Fired(k, "PostToolUse", claude.echo)
  BY <1>1, FiresStep DEF ActivityInv, Echoes
<1>3. /\ claude' \in Agent /\ claude'.proc = claude.proc /\ claude'.turn = claude.turn
      /\ claude'.phase = claude.phase /\ claude'.tool = claude.tool /\ claude'.echo = 0
      /\ claude'.end = claude.end /\ claude'.work = claude.work
      /\ claude'.reports = claude.reports
  BY <1>1 DEF ActivityInv, Typed, Agent, Echoes
<1>4. /\ now' = now + 1 /\ claude.echo # 0
      /\ UNCHANGED <<log, hb, hub, sub, tail, reap, due, gap, left>>
  BY DEF Echoes, Tick1, Answered, Lasts
<1>5. Typed'
  BY <1>1, <1>2, <1>3, <1>4 DEF ActivityInv, Typed, Fired
<1>6. Places' /\ LinesInOrder' /\ PromptLast'
  BY <1>1, <1>2, <1>3, <1>4, SMT
     DEF ActivityInv, Order, Places, Fired, LinesInOrder, LastAt, PromptLast
<1>7. HooksPast'
  BY <1>1, <1>2, <1>3, <1>4, Numbers, SMT DEF ActivityInv, Order, HooksPast, Fired
<1>8. LinesPast'
  BY <1>1, <1>2, <1>3, <1>4, Numbers, SMT DEF ActivityInv, Order, LinesPast, Fired
<1>9. HubPast'
  BY <1>1, <1>2, <1>3, <1>4, Numbers, SMTT(60) DEF ActivityInv, Order, HubPast, Fired
<1>10. AgentInTurn'
  BY <1>1, <1>2, <1>3, <1>4, Numbers, SMT DEF ActivityInv, Order, AgentInTurn, InTurn, Fired
<1>11. PromptsInOrder' /\ StopsAreEnds' /\ EchoInOrder' /\ PromptsGone' /\ PromptAfterEnds'
  BY <1>1, <1>2, <1>3, <1>4, SMT
     DEF ActivityInv, Hooks, PromptsInOrder, IsPrompt, IsStop, Own, Fired, StopsAreEnds, InTurn,
         EchoInOrder, Arrived, PromptsGone, PromptAfterEnds, LastAt, EndsBefore
<1>12. TurnsPast'
  BY <1>1, <1>2, <1>3, <1>4, Numbers, SMT
     DEF ActivityInv, Hooks, Order, TurnsPast, AgentInTurn, InTurn, Fired
<1>13. StopsLast'
  BY <1>1, <1>2, <1>3, <1>4, Numbers, SMTT(60)
     DEF ActivityInv, Hooks, Order, StopsLast, HooksPast, TurnsPast, EchoInOrder, StopsAreEnds,
         IsStop, Own, InTurn, AgentInTurn, Fired
<1>14. ToolsAfterPrompts'
  BY <1>1, <1>2, <1>3, <1>4, Numbers, SMT
     DEF ActivityInv, Hooks, Order, ToolsAfterPrompts, Tools, IsPrompt, EchoInOrder, Fired
<1>15. Heart'
  BY <1>1, <1>2, <1>3, <1>4, SMT
     DEF ActivityInv, Heart, HubSane, Fired, Fresh, BeatOfHook, IsStop, Judged, Asked,
         Unwritten, InTurn
<1>16. TurnSeen' /\ ToolsLate' /\ EchoThenLate' /\ StopsStale' /\ BeatOfLate' /\ Over'
  BY <1>1, <1>2, <1>3, <1>4, SMT
     DEF ActivityInv, Turn, TurnSeen, BeatOn, BusyOn, Arrived, InTurn, EndsBefore, IsStop,
         IsPrompt, Fired, ToolsLate, Live, EchoThenLate, StopsStale, BeatOfLate, Unwritten,
         Over, Rest, StopComes, LineComes, LastAt
<1>17. ToolsThenLate'
  BY <1>1, <1>2, <1>3, <1>4, Numbers, SMTT(60)
     DEF ActivityInv, Turn, Order, Heart, ToolsThenLate, LineEnds, Live, Tools, Continues,
         InTurn, EchoThenLate, HooksPast, LinesPast, HubSane, ToolsLate, Fired
<1> QED
  BY <1>5, <1>6, <1>7, <1>8, <1>9, <1>10, <1>11, <1>12, <1>13, <1>14, <1>15, <1>16, <1>17
     DEF ActivityInv, Typed, Order, Hooks, Heart, Turn

(* The line of a prompt ends no turn.                                      *)
LEMMA BeginsSafe ==
    ASSUME ActivityInv, Begins
    PROVE  ActivityInv'
<1>1. Logged("prompt")
  BY ToLogStep DEF ActivityInv, Begins, Lines
<1>2. /\ claude' \in Agent /\ claude'.proc = claude.proc /\ claude'.turn = claude.turn
      /\ claude'.phase = "on" /\ claude'.tool = claude.tool /\ claude'.echo = claude.echo
      /\ claude'.end = claude.end /\ claude'.work = claude.work
      /\ claude'.reports = claude.reports
  BY DEF ActivityInv, Typed, Agent, Begins
<1>3. /\ now' = now + 1 /\ claude.phase = "asked"
      /\ UNCHANGED <<hooks, hb, hub, sub, tail, reap, due, gap, left>>
  BY DEF Begins, Tick1
<1>4. Typed'
  BY <1>1, <1>2, <1>3 DEF ActivityInv, Typed, Logged
<1>5. AgentInTurn' /\ PromptLast'
  BY <1>1, <1>2, <1>3, SMT DEF ActivityInv, Order, AgentInTurn, InTurn, Logged, PromptLast
<1>6. HooksPast'
  BY <1>1, <1>2, <1>3, Numbers, SMT DEF ActivityInv, Order, HooksPast, Logged
<1>7. HubPast'
  BY <1>1, <1>2, <1>3, Numbers, SMTT(60) DEF ActivityInv, Order, HubPast, Logged
<1>8. Places'
  BY <1>1, <1>2, <1>3, Numbers, SMTT(60) DEF ActivityInv, Order, Places, Logged
<1>9. LinesPast'
  BY <1>1, <1>2, <1>3, LinesStep
<1>10. LinesInOrder'
  BY <1>1, <1>2, <1>3, LinesStep
<1>11. Hooks'
  BY <1>1, <1>2, <1>3, SMT
     DEF ActivityInv, Hooks, TurnsPast, InTurn, Logged, PromptsInOrder, Own, StopsLast,
         ToolsAfterPrompts, Tools, Arrived, StopsAreEnds, EchoInOrder, PromptsGone,
         PromptAfterEnds, EndsBefore
<1>12. Heart'
  BY <1>1, <1>2, <1>3, SMT
     DEF ActivityInv, Heart, HubSane, Fresh, BeatOfHook, Judged, Asked, Unwritten, InTurn
<1>13. Turn'
  BY <1>1, <1>2, <1>3, SMT
     DEF ActivityInv, Turn, TurnSeen, BeatOn, BusyOn, Arrived, InTurn, EndsBefore, Logged,
         ToolsLate, Live, Tools, LineEnds, ToolsThenLate, EchoThenLate, StopsStale, BeatOfLate,
         Unwritten, Over
<1> QED
  BY <1>4, <1>5, <1>6, <1>7, <1>8, <1>9, <1>10, <1>11, <1>12, <1>13
     DEF ActivityInv, Typed, Order, Hooks, Heart, Turn

(* A turn without a Stop: the line tells the hub of its end.               *)
LEMMA EndsUnstoppedSafe ==
    ASSUME ActivityInv, NEW kind \in {"interrupted", "error"}, EndsUnstopped(kind)
    PROVE  ActivityInv'
<1>1. Logged(kind)
  BY ToLogStep DEF ActivityInv, EndsUnstopped, Lines
<1>2. /\ claude' \in Agent /\ claude'.proc = claude.proc /\ claude'.turn = claude.turn
      /\ claude'.phase = "off" /\ claude'.tool = FALSE
      /\ claude'.echo = (IF claude.tool /\ Answered THEN claude.turn ELSE 0)
      /\ claude'.end = kind /\ claude'.work = claude.work /\ claude'.reports = claude.reports
  BY DEF ActivityInv, Typed, Agent, EndsUnstopped
<1>3. /\ now' = now + 1 /\ claude.phase = "on" /\ claude.echo = 0
      /\ (claude.tool => kind = "interrupted")
      /\ UNCHANGED <<hooks, hb, hub, sub, tail, reap, due, gap, left>>
  BY DEF EndsUnstopped, Tick1
<1>4. Typed'
  BY <1>1, <1>2, <1>3 DEF ActivityInv, Typed, Logged, Answered
<1>5. PromptLast'
  BY <1>1, <1>2, <1>3, SMT DEF ActivityInv, Order, PromptLast, Logged, Answered
<1>6. HooksPast'
  BY <1>1, <1>2, <1>3, Numbers, SMT DEF ActivityInv, Order, HooksPast, Logged, Answered
<1>7. HubPast'
  BY <1>1, <1>2, <1>3, Numbers, SMTT(60) DEF ActivityInv, Order, HubPast, Logged, Answered
<1>8. Places'
  BY <1>1, <1>2, <1>3, Numbers, SMT DEF ActivityInv, Order, Places, Logged, Answered
<1>9. AgentInTurn'
  BY <1>1, <1>2, <1>3, Numbers, SMT
     DEF ActivityInv, Order, AgentInTurn, InTurn, Logged, Answered
<1>10. LinesPast'
  BY <1>1, <1>2, <1>3, LinesStep
<1>11. LinesInOrder'
  BY <1>1, <1>2, <1>3, LinesStep
<1>12. /\ TurnsPast' /\ PromptsInOrder' /\ StopsLast' /\ ToolsAfterPrompts' /\ StopsAreEnds'
       /\ PromptsGone' /\ PromptAfterEnds'
  BY <1>1, <1>2, <1>3, SMT
     DEF ActivityInv, Hooks, TurnsPast, InTurn, PromptsInOrder, StopsLast, ToolsAfterPrompts,
         Tools, Arrived, StopsAreEnds, PromptsGone, PromptAfterEnds
<1>13. EchoInOrder'
  BY <1>1, <1>2, <1>3, Numbers, SMT
     DEF ActivityInv, Hooks, Order, EchoInOrder, TurnsPast, StopsAreEnds, AgentInTurn,
         PromptsGone, Arrived, InTurn, Answered
<1>14. Heart'
  BY <1>1, <1>2, <1>3, SMT
     DEF ActivityInv, Heart, HubSane, Fresh, BeatOfHook, Judged, Asked, Unwritten, InTurn
<1>15. TurnSeen' /\ BeatOfLate'
  BY <1>1, <1>2, <1>3, SMT
     DEF ActivityInv, Turn, TurnSeen, Arrived, InTurn, BeatOfLate, Live, Unwritten
<1>16. ToolsLate'
  BY <1>1, <1>2, <1>3, Numbers, SMT
     DEF ActivityInv, Turn, Hooks, Order, Heart, ToolsLate, Live, Tools, InTurn, Arrived,
         TurnSeen, BusyOn, Answered
<1>17. StopsStale'
  BY <1>1, <1>2, <1>3, Numbers, SMTT(60)
     DEF ActivityInv, Turn, Hooks, Order, Heart, StopsStale, Live, Tools, Continues, InTurn,
         Arrived, TurnSeen, BusyOn, AgentInTurn, HubSane, PromptsInOrder, ToolsAfterPrompts,
         StopsAreEnds, Own, Answered
<1>18. ToolsThenLate'
  <2>1. Typed /\ HooksPast /\ LinesPast /\ HubPast
    BY DEF ActivityInv, Order
  <2>2. ToolsThenLate
    BY DEF ActivityInv, Turn
  <2> SUFFICES ASSUME Live', hub'.busy, NEW i \in 1 .. Len(log'), NEW h \in Tools', LineEnds(i)'
               PROVE  h.at < log'[i].at \/ log'[i].kind = "interrupted"
    BY DEF ToolsThenLate
  <2>3. h \in Tools /\ h \in hooks /\ Live /\ hub.busy
    BY <1>1, <1>2, <1>3 DEF Tools, Live
  <2>4. CASE i \in 1 .. Len(log) /\ log'[i] = log[i]
    BY <1>1, <1>2, <1>3, <2>2, <2>3, <2>4 DEF ToolsThenLate, LineEnds
  <2>5. CASE log'[i].at = now + 1
    BY <2>1, <2>3, <2>5, Numbers, SMTT(60) DEF HooksPast
  <2> QED
    BY <2>4, <2>5, <1>1 DEF Logged
<1>19. EchoThenLate'
  <2> SUFFICES ASSUME Live', hub'.busy, claude'.echo # 0, NEW i \in 1 .. Len(log'), LineEnds(i)'
               PROVE  log'[i].kind = "interrupted"
    BY DEF EchoThenLate
  <2>1. claude.tool /\ Answered /\ InTurn /\ Live /\ kind = "interrupted"
    BY <1>1, <1>2, <1>3 DEF Live, InTurn
  <2>2. Arrived /\ TurnSeen /\ HubSane
    BY <2>1 DEF Arrived, Answered, ActivityInv, Turn, Heart
  <2>3. EndsBefore(hub.since)
    BY <1>1, <1>2, <1>3, <2>1, <2>2 DEF TurnSeen, BusyOn, HubSane, Live
  <2>4. CASE i \in 1 .. Len(log) /\ log'[i] = log[i]
    <3>1. log[i].at \in Nat /\ hub.since \in Nat
      BY <2>4, Numbers DEF ActivityInv
    <3> QED
      BY <1>1, <1>2, <1>3, <2>3, <2>4, <3>1 DEF EndsBefore, LineEnds
  <2>5. CASE log'[i].kind = kind
    BY <2>1, <2>5
  <2> QED
    BY <2>4, <2>5, <1>1 DEF Logged
<1>20. Over'
  <2>1. HooksPast /\ HubPast /\ Places /\ BeatOfLate /\ Typed
    BY DEF ActivityInv, Order, Turn
  <2>2. LastAt' = now + 1 /\ log' # <<>> /\ log'[Len(log')].kind # "prompt"
    BY <1>1, <1>2, <1>3 DEF LastAt, Logged
  <2>3. tail'.told < Len(log')
    BY <1>1, <1>2, <1>3, <2>1, Numbers DEF Places, Logged
  <2>4. hub'.since <= LastAt' /\ hb'.since <= LastAt'
    BY <1>1, <1>2, <1>3, <2>1, <2>2, Numbers DEF HubPast
  <2>5. \A p \in hooks' : IsPrompt(p) => p.at < LastAt'
    BY <1>1, <1>2, <1>3, <2>1, <2>2, Numbers DEF HooksPast
  <2>6. LineComes'
    BY <2>2, <2>3, <2>4, <2>5, Numbers DEF LineComes, IsPrompt
  <2> QED
    BY <1>1, <1>2, <1>3, <2>6 DEF Over
<1> QED
  BY <1>4, <1>5, <1>6, <1>7, <1>8, <1>9, <1>10, <1>11, <1>12, <1>13, <1>14, <1>15, <1>16, <1>17,
     <1>18, <1>19, <1>20 DEF ActivityInv, Typed, Order, Hooks, Heart, Turn

(* Work in the background ends.                                            *)
LEMMA WorkEndsSafe ==
    ASSUME ActivityInv, WorkEnds
    PROVE  ActivityInv'
<1>1. /\ claude' \in Agent /\ claude'.proc = claude.proc /\ claude'.turn = claude.turn
      /\ claude'.phase = claude.phase /\ claude'.tool = claude.tool
      /\ claude'.echo = claude.echo /\ claude'.end = claude.end /\ claude'.work = FALSE
      /\ claude'.reports = claude.reports
  BY DEF ActivityInv, Typed, Agent, WorkEnds
<1>2. UNCHANGED <<log, hooks, hb, hub, sub, tail, reap, due, gap, left, now>>
  BY DEF WorkEnds
<1>3. Typed'
  BY <1>1, <1>2 DEF ActivityInv, Typed
<1>4. Order'
  BY <1>1, <1>2, SMT
     DEF ActivityInv, Order, HooksPast, LinesPast, HubPast, Places, LinesInOrder, LastAt,
         AgentInTurn, InTurn, PromptLast
<1>5. Hooks'
  BY <1>1, <1>2, SMT
     DEF ActivityInv, Hooks, TurnsPast, InTurn, PromptsInOrder, Own, StopsLast,
         ToolsAfterPrompts, Tools, Arrived, StopsAreEnds, EchoInOrder, PromptsGone,
         PromptAfterEnds, EndsBefore
<1>6. Heart'
  BY <1>1, <1>2, SMT
     DEF ActivityInv, Heart, HubSane, Fresh, BeatOfHook, IsStop, Judged, Asked, Unwritten,
         InTurn
<1>7. Turn'
  BY <1>1, <1>2, SMT
     DEF ActivityInv, Turn, TurnSeen, BeatOn, BusyOn, Arrived, InTurn, EndsBefore, Own,
         ToolsLate, Live, Tools, LineEnds, ToolsThenLate, EchoThenLate, StopsStale, BeatOfLate,
         Unwritten, Over, Rest, StopComes, LineComes, LastAt
<1> QED
  BY <1>3, <1>4, <1>5, <1>6, <1>7 DEF ActivityInv, Typed, Order, Hooks, Heart, Turn

(* An agent that died has nothing more to tell.                            *)
LEMMA DiesSafe ==
    ASSUME ActivityInv, NEW proc \in {"dead", "gone"}, Dies(proc)
    PROVE  ActivityInv'
<1>1. left' \in Budget /\ left'.turns = left.turns
  BY UseStep DEF ActivityInv, Dies
<1>2. /\ claude' \in Agent /\ claude'.proc = proc /\ claude'.turn = claude.turn
      /\ claude'.phase = "off" /\ claude'.tool = FALSE /\ claude'.echo = 0
      /\ claude'.end = (IF InTurn THEN "died" ELSE claude.end) /\ claude'.work = FALSE
      /\ claude'.reports = claude.reports
  BY DEF ActivityInv, Typed, Agent, Dies, Ended, InTurn
<1>3. /\ claude.proc = "run"
      /\ UNCHANGED <<log, hooks, hb, hub, sub, tail, reap, due, gap, now>>
  BY DEF Dies
<1>4. Typed'
  BY <1>1, <1>2, <1>3 DEF ActivityInv, Typed
<1>5. HooksPast' /\ LinesPast' /\ HubPast' /\ Places' /\ LinesInOrder' /\ PromptLast'
  BY <1>1, <1>2, <1>3, SMT
     DEF ActivityInv, Order, HooksPast, LinesPast, HubPast, Places, LinesInOrder, LastAt,
         PromptLast
<1>6. AgentInTurn'
  BY <1>1, <1>2, <1>3, Numbers, SMT DEF ActivityInv, Order, AgentInTurn, InTurn
<1>7. Hooks'
  BY <1>1, <1>2, <1>3, SMT
     DEF ActivityInv, Hooks, TurnsPast, InTurn, PromptsInOrder, StopsLast, ToolsAfterPrompts,
         Tools, Arrived, StopsAreEnds, EchoInOrder, PromptsGone, PromptAfterEnds
<1>8. Heart'
  BY <1>1, <1>2, <1>3, SMT
     DEF ActivityInv, Heart, HubSane, Fresh, BeatOfHook, IsStop, Judged, Asked, InTurn
<1>9. Turn'
  BY <1>1, <1>2, <1>3, SMT
     DEF ActivityInv, Turn, TurnSeen, Arrived, InTurn, ToolsLate, Live, ToolsThenLate,
         EchoThenLate, StopsStale, BeatOfLate, Over
<1> QED
  BY <1>4, <1>5, <1>6, <1>7, <1>8, <1>9 DEF ActivityInv, Typed, Order, Hooks, Heart, Turn

(* Launched again over what the turn before left behind: a gap.            *)
LEMMA LaunchesSafe ==
    ASSUME ActivityInv, Launches
    PROVE  ActivityInv'
<1>1. /\ claude' \in Agent /\ claude'.proc = "run" /\ claude'.turn = claude.turn
      /\ claude'.phase = claude.phase /\ claude'.tool = claude.tool
      /\ claude'.echo = claude.echo /\ claude'.end = claude.end /\ claude'.work = claude.work
      /\ claude'.reports = claude.reports
  BY DEF ActivityInv, Typed, Agent, Launches
<1>2. /\ claude.proc # "run"
      /\ gap' = (IF hub.busy \/ hb.state = "active" \/ hooks # {}
                 THEN gap \cup {"relaunched"}
                 ELSE gap)
      /\ UNCHANGED <<log, hooks, hb, hub, sub, tail, reap, due, left, now>>
  BY DEF Launches
<1>3. Typed'
  BY <1>1, <1>2 DEF ActivityInv, Typed
<1>4. Order'
  BY <1>1, <1>2, SMT
     DEF ActivityInv, Order, HooksPast, LinesPast, HubPast, Places, LinesInOrder, LastAt,
         AgentInTurn, InTurn, PromptLast
<1>5. Hooks'
  BY <1>1, <1>2, SMT
     DEF ActivityInv, Hooks, TurnsPast, InTurn, PromptsInOrder, Own, StopsLast,
         ToolsAfterPrompts, Tools, Arrived, StopsAreEnds, EchoInOrder, PromptsGone,
         PromptAfterEnds, EndsBefore
<1>6. Heart'
  BY <1>1, <1>2, SMT
     DEF ActivityInv, Heart, HubSane, Fresh, BeatOfHook, IsStop, Judged, Asked, Unwritten,
         InTurn
<1>7. TurnSeen'
  BY <1>1, <1>2, SMT DEF ActivityInv, Turn, TurnSeen, BeatOn, BusyOn, Arrived, InTurn
<1>8. ToolsThenLate'
  BY <1>1, <1>2, Zenon DEF ActivityInv, Turn, ToolsThenLate, LineEnds, Live, EndsBefore
<1>9. StopsStale' /\ BeatOfLate'
  BY <1>1, <1>2, SMT DEF ActivityInv, Turn, StopsStale, Live, BeatOfLate
<1>10. EchoThenLate'
  BY <1>1, <1>2, Numbers, SMT DEF ActivityInv, Turn, Order, Heart, EchoThenLate, AgentInTurn
<1>11. ToolsLate'
  <2>1. AgentInTurn
    BY DEF ActivityInv, Order
  <2>2. Live' => hooks = {} /\ claude'.echo = 0
    BY <1>1, <1>2, <2>1 DEF Live, AgentInTurn
  <2> QED
    BY <1>1, <1>2, <2>2 DEF ToolsLate, Tools
<1>12. Over'
  <2>1. AgentInTurn
    BY DEF ActivityInv, Order
  <2>2. Live' => Rest'
    BY <1>1, <1>2, <2>1 DEF Live, AgentInTurn, Rest
  <2> QED
    BY <2>2 DEF Over
<1> QED
  BY <1>3, <1>4, <1>5, <1>6, <1>7, <1>8, <1>9, <1>10, <1>11, <1>12
     DEF ActivityInv, Typed, Order, Hooks, Heart, Turn

-----------------------------------------------------------------------------
(* The hooks and the transcript.                                           *)

(* A hook writes the heartbeat: an active one, or the idle one of a Stop.  *)
LEMMA HookWritesSafe ==
    ASSUME ActivityInv, NEW h \in hooks, HookWrites(h)
    PROVE  ActivityInv'
<1>1. PICK k : Wrote(h, k)
  BY WritesStep DEF ActivityInv
<1>2. /\ InOrder(h) /\ ~h.wrote
      /\ UNCHANGED <<claude, log, hub, sub, tail, reap, due, gap, left, now>>
  BY DEF HookWrites
<1>3. Typed'
  BY <1>1, <1>2 DEF ActivityInv, Typed, InOrder, Wrote, Beats
<1>4. HooksPast' /\ LinesPast' /\ Places' /\ LinesInOrder' /\ AgentInTurn' /\ PromptLast'
  BY <1>1, <1>2, SMT
     DEF ActivityInv, Order, HooksPast, Wrote, LinesPast, Places, LinesInOrder, LastAt,
         AgentInTurn, InTurn, PromptLast
<1>5. HubPast'
  BY <1>1, <1>2, Numbers, SMT DEF ActivityInv, Order, HubPast, InOrder, Wrote, Beats
<1>6. Hooks'
  BY <1>1, <1>2, SMT
     DEF ActivityInv, Hooks, TurnsPast, InTurn, Wrote, PromptsInOrder, IsPrompt, IsStop, Own,
         StopsLast, ToolsAfterPrompts, Tools, Arrived, StopsAreEnds, EchoInOrder, PromptsGone,
         PromptAfterEnds, EndsBefore
<1>7. HubSane' /\ Fresh' /\ BeatOfHook'
  BY <1>1, <1>2, SMT DEF ActivityInv, Heart, HubSane, Wrote, Beats, Fresh, BeatOfHook, IsStop
<1>8. Judged'
  BY <1>1, <1>2, Numbers, TimeoutIsPositive, SMT
     DEF ActivityInv, Heart, Judged, InOrder, Wrote, Beats
<1>9. Asked'
  BY <1>1, <1>2, Numbers, TimeoutIsPositive, SMT DEF ActivityInv, Heart, Asked, Wrote, Beats
<1>10. TurnSeen' /\ ToolsLate' /\ ToolsThenLate' /\ EchoThenLate' /\ StopsStale' /\ BeatOfLate'
  BY <1>1, <1>2, SMT
     DEF ActivityInv, Turn, TurnSeen, BeatOn, BusyOn, Arrived, InTurn, EndsBefore, IsStop,
         IsPrompt, Own, Wrote, Beats, ToolsLate, Live, Tools, LineEnds, ToolsThenLate,
         EchoThenLate, StopsStale, BeatOfLate
<1>11. Over'
  BY <1>1, <1>2, Numbers, SMTT(60)
     DEF ActivityInv, Turn, Over, Live, InTurn, Rest, StopComes, LineComes, LastAt, Tools,
         Continues, IsStop, IsPrompt, Own, Unwritten, Events, InOrder, Wrote, Beats
<1> QED
  BY <1>3, <1>4, <1>5, <1>6, <1>7, <1>8, <1>9, <1>10, <1>11
     DEF ActivityInv, Typed, Order, Hooks, Heart, Turn

(* A hook that is given up: good if the heartbeat is its own.              *)
LEMMA HookLostSafe ==
    ASSUME ActivityInv, NEW h \in hooks, HookLost(h)
    PROVE  ActivityInv'
<1>1. left' \in Budget /\ left'.turns = left.turns
  BY UseStep DEF ActivityInv, HookLost, Typed
<1>2. /\ h.wrote /\ InOrder(h) /\ hooks' = hooks \ {h}
      /\ gap' = (IF hub.up \/ h.turn # claude.turn \/ h.event # hb.event
                 THEN gap \cup {"lost"}
                 ELSE gap)
      /\ UNCHANGED <<claude, log, hb, hub, sub, tail, reap, due, now>>
  BY DEF HookLost
<1>3. Typed'
  BY <1>1, <1>2 DEF ActivityInv, Typed, InOrder
<1>4. Order'
  BY <1>1, <1>2, SMT
     DEF ActivityInv, Order, HooksPast, LinesPast, HubPast, Places, LinesInOrder, LastAt,
         AgentInTurn, InTurn, PromptLast
<1>5. /\ TurnsPast' /\ PromptsInOrder' /\ StopsLast' /\ ToolsAfterPrompts' /\ StopsAreEnds'
      /\ EchoInOrder' /\ PromptAfterEnds'
  BY <1>1, <1>2, SMT
     DEF ActivityInv, Hooks, TurnsPast, InTurn, PromptsInOrder, Own, StopsLast,
         ToolsAfterPrompts, Tools, StopsAreEnds, EchoInOrder, PromptAfterEnds, EndsBefore
<1>6. PromptsGone'
  BY <1>1, <1>2, PromptsGoneStep
<1>7. Heart'
  BY <1>1, <1>2, SMT
     DEF ActivityInv, Heart, HubSane, Fresh, BeatOfHook, Judged, Asked, Unwritten, InTurn
<1>8. ToolsLate' /\ ToolsThenLate' /\ EchoThenLate' /\ StopsStale' /\ BeatOfLate'
  BY <1>1, <1>2, SMTT(60)
     DEF ActivityInv, Turn, ToolsLate, Live, Tools, Continues, InTurn, Arrived, BusyOn,
         LineEnds, ToolsThenLate, EchoThenLate, StopsStale, BeatOfLate
<1>9. TurnSeen'
  <2> SUFFICES ASSUME Arrived', gap' = {} PROVE BeatOn' /\ (hub'.up => BusyOn')
    BY DEF TurnSeen
  <2>1. ~hub.up /\ Own(h) /\ h.event = hb.event /\ gap = {} /\ InTurn
    BY <1>1, <1>2 DEF Own, Arrived, InTurn
  <2>2. BeatOfHook /\ StopsAreEnds /\ Typed
    BY DEF ActivityInv, Heart, Hooks
  <2>3. ~IsStop(h) /\ h.event # "hub"
    BY <2>1, <2>2, Numbers DEF StopsAreEnds, Events
  <2>4. hb'.state = "active" /\ hb'.since = 0
    BY <1>1, <1>2, <2>1, <2>2, <2>3 DEF BeatOfHook, IsStop
  <2> QED
    BY <1>1, <1>2, <2>1, <2>4 DEF BeatOn
<1>10. Over'
  <2> SUFFICES ASSUME Live', ~InTurn'
               PROVE  \/ Rest'
                      \/ claude'.end = "stop" /\ StopComes'
                      \/ claude'.end \in {"interrupted", "error"} /\ LineComes'
    BY DEF Over
  <2>1. ~hub.up /\ Own(h) /\ h.event = hb.event /\ Live /\ ~InTurn
    BY <1>1, <1>2 DEF Own, Live, InTurn
  <2>2. Over /\ BeatOfHook /\ HubSane
    BY DEF ActivityInv, Heart, Turn
  <2>3. CASE claude.end = "stop" /\ StopComes
    <3>1. CASE hooks' = {} /\ IsStop(h)
      <4>1. hb.state # "active" /\ ~hub.busy
        BY <2>1, <2>2, <3>1, Numbers DEF BeatOfHook, HubSane, IsStop, ActivityInv, Events
      <4>2. claude.echo = 0
        BY <2>3 DEF StopComes
      <4>3. Rest'
        BY <1>1, <1>2, <3>1, <4>1, <4>2 DEF Rest
      <4> QED
        BY <4>3
    <3>2. CASE ~(hooks' = {} /\ IsStop(h))
      <4>1. StopComes'
        BY <1>1, <1>2, <2>3, <3>2, StopComesStep
      <4> QED
        BY <1>1, <1>2, <2>3, <4>1
    <3> QED
      BY <3>1, <3>2
  <2>4. CASE claude.end \in {"interrupted", "error"} /\ LineComes
    <3>1. LineComes'
      BY <1>1, <1>2, <2>4 DEF LineComes, LastAt, IsPrompt
    <3> QED
      BY <1>1, <1>2, <2>4, <3>1
  <2> QED
    BY <1>1, <2>1, <2>2, <2>3, <2>4 DEF Over, Rest
<1> QED
  BY <1>3, <1>4, <1>5, <1>6, <1>7, <1>8, <1>9, <1>10
     DEF ActivityInv, Typed, Order, Hooks, Heart, Turn

(* A line that ends a turn is believed if the turn began before it.        *)
LEMMA TailReadsSafe ==
    ASSUME ActivityInv, TailReads
    PROVE  ActivityInv'
<1>1. PICK n : Passes(n) /\ Reads(n)
  BY ReadsStep DEF ActivityInv
<1>2. /\ hub.up /\ UNCHANGED <<claude, log, hooks, sub, reap, due, gap, left, now>>
  BY DEF TailReads
<1>3. Typed'
  BY <1>1, <1>2 DEF ActivityInv, Typed, Passes, Reads, Acts, Beats, Later
<1>4. HooksPast' /\ LinesPast' /\ Places'
  BY <1>1, <1>2, SMT DEF ActivityInv, Order, HooksPast, Passes, Later, LinesPast, Places
<1>5. LinesInOrder'
  BY <1>1, <1>2, Zenon DEF ActivityInv, Order, LinesInOrder, LastAt, Passes, Reads, Acts, Later
<1>6. AgentInTurn' /\ PromptLast'
  BY <1>1, <1>2, SMT DEF ActivityInv, Order, AgentInTurn, InTurn, PromptLast
<1>7. HubPast'
  <2>1. /\ hub'.fired \in {hub.fired, 0} /\ hub'.since \in {hub.since, 0}
        /\ hb'.since \in {hb.since, 0}
    BY <1>1, <1>2 DEF Reads, Acts, Beats
  <2>2. HubPast /\ Typed
    BY DEF ActivityInv, Order
  <2> QED
    BY <1>1, <1>2, <2>1, <2>2, Numbers DEF HubPast
<1>8. TurnsPast' /\ PromptsInOrder' /\ StopsLast' /\ ToolsAfterPrompts'
  BY <1>1, <1>2, SMT
     DEF ActivityInv, Hooks, TurnsPast, InTurn, PromptsInOrder, StopsLast, ToolsAfterPrompts,
         Tools
<1>9. StopsAreEnds' /\ EchoInOrder'
  BY <1>1, <1>2, SMT DEF ActivityInv, Hooks, StopsAreEnds, InTurn, Own, EchoInOrder
<1>10. PromptsGone'
  BY <1>1, <1>2, SMT DEF ActivityInv, Hooks, PromptsGone, Arrived, InTurn, IsPrompt
<1>11. PromptAfterEnds'
  BY <1>1, <1>2, Zenon
     DEF ActivityInv, Hooks, PromptAfterEnds, LastAt, InTurn, Own, EndsBefore, Passes, Reads,
         Acts, Later
<1>12. HubSane'
  BY <1>1, <1>2, Zenon DEF ActivityInv, Heart, HubSane, Reads, Acts
<1>13. Fresh'
  BY <1>1, <1>2, Zenon DEF ActivityInv, Heart, Fresh, Reads, Beats
<1>14. BeatOfHook'
  BY <1>1, <1>2, Zenon DEF ActivityInv, Heart, BeatOfHook, IsStop, Reads, Beats
<1>15. Judged'
  BY <1>1, <1>2, Zenon DEF ActivityInv, Heart, Judged, Reads, Beats
<1>16. Asked'
  <2>1. hb' = hb \/ hb'.age = 0
    BY <1>1, <1>2 DEF Reads, Beats
  <2>2. Asked
    BY DEF ActivityInv, Heart
  <2> QED
    BY <1>1, <1>2, <2>1, <2>2, TimeoutIsPositive DEF Asked, Unwritten, InTurn
<1>17. ToolsThenLate'
  BY <1>1, <1>2, Zenon DEF ActivityInv, Turn, ToolsThenLate, LineEnds, Live, Tools, Reads, Acts
<1>18. EchoThenLate'
  BY <1>1, <1>2, Zenon
     DEF ActivityInv, Turn, EchoThenLate, LineEnds, Live, InTurn, Arrived, BusyOn, EndsBefore,
         Reads, Acts
<1>19. StopsStale'
  BY <1>1, <1>2, Zenon DEF ActivityInv, Turn, StopsStale, Live, Tools, Reads, Acts
<1>20. BeatOfLate'
  BY <1>1, <1>2, SMT
     DEF ActivityInv, Turn, BeatOfLate, Live, Unwritten, InTurn, Own, IsPrompt, IsStop, Reads,
         Acts, Beats
<1>21. TurnSeen'
  <2> SUFFICES ASSUME Arrived', gap' = {} PROVE BeatOn' /\ BusyOn'
    BY DEF TurnSeen
  <2>1. Arrived /\ gap = {}
    BY <1>1, <1>2 DEF Arrived, InTurn
  <2>2. BeatOn /\ BusyOn
    BY <1>1, <1>2, <2>1 DEF ActivityInv, Turn, TurnSeen
  <2>3. log[n].kind # "prompt" => log[n].at < hub.since
    BY <1>1, <1>2, <2>2 DEF Passes, BusyOn, EndsBefore
  <2>4. log[n].at \in Nat /\ hub.since \in Nat
    BY <1>1, <1>2, Numbers DEF ActivityInv, Passes
  <2>5. /\ hb' = hb /\ hub'.busy = hub.busy /\ hub'.since = hub.since
        /\ hub'.fired = hub.fired
    <3>1. hub.busy
      BY <2>2 DEF BusyOn
    <3>2. CASE log[n].kind = "prompt"
      BY <1>1, <3>2 DEF Reads, Acts
    <3>3. CASE log[n].kind # "prompt"
      <4>1. ~(hub.since <= log[n].at)
        BY <2>3, <2>4, <3>3
      <4> QED
        BY <1>1, <3>1, <3>3, <4>1 DEF Reads
    <3> QED
      BY <3>2, <3>3
  <2> QED
    BY <1>1, <1>2, <2>2, <2>5 DEF BeatOn, BusyOn, EndsBefore, IsStop
<1>22. ToolsLate'
  <2> SUFFICES ASSUME Live', ~hub'.busy
               PROVE  /\ \A h \in Tools : h.at < hub'.end \/ hub'.window
                      /\ claude.echo # 0 => hub'.window
    BY <1>1, <1>2 DEF ToolsLate, Tools
  <2>1. Live /\ hub.up
    BY <1>1, <1>2 DEF Live
  <2>2. ToolsLate /\ ToolsThenLate /\ EchoThenLate
    BY DEF ActivityInv, Turn
  <2>3. /\ n \in 1 .. Len(log) /\ log[n].at \in Nat /\ hub.since \in Nat /\ hub.end \in Nat
        /\ \A h \in Tools : h.at \in Nat
    BY <1>1, <1>2, Numbers DEF ActivityInv, Passes, Tools
  <2>4. CASE ~hub.busy
    <3>1. hub'.end \in Nat /\ hub.end <= hub'.end /\ hub'.window = hub.window
      <4>1. hub'.end \in {hub.end, Later(hub.end, log[n].at)} /\ hub'.window = hub.window
        BY <1>1, <2>4 DEF Reads, Acts
      <4> QED
        BY <2>3, <4>1 DEF Later
    <3>2. /\ \A h \in Tools : h.at < hub.end \/ hub.window
          /\ claude.echo # 0 => hub.window
      BY <2>1, <2>2, <2>4 DEF ToolsLate
    <3> QED
      BY <2>3, <3>1, <3>2
  <2>5. CASE hub.busy
    <3>1. /\ log[n].kind # "prompt" /\ hub.since <= log[n].at
          /\ hub'.end = Later(hub.end, log[n].at)
          /\ log[n].kind = "interrupted" => hub'.window
      BY <1>1, <1>2, <2>5 DEF Reads, Acts
    <3>2. hub'.end \in Nat /\ log[n].at <= hub'.end /\ LineEnds(n)
      BY <2>3, <3>1 DEF Later, LineEnds
    <3>3. \A h \in Tools : h.at < log[n].at \/ log[n].kind = "interrupted"
      BY <2>1, <2>2, <2>3, <2>5, <3>2 DEF ToolsThenLate
    <3>4. claude.echo # 0 => log[n].kind = "interrupted"
      BY <2>1, <2>2, <2>3, <2>5, <3>2 DEF EchoThenLate
    <3> QED
      BY <2>3, <3>1, <3>2, <3>3, <3>4
  <2> QED
    BY <2>4, <2>5
<1>23. Over'
  <2> SUFFICES ASSUME Live', ~InTurn'
               PROVE  \/ Rest'
                      \/ claude'.end = "stop" /\ StopComes'
                      \/ claude'.end \in {"interrupted", "error"} /\ LineComes'
    BY DEF Over
  <2>1. Live /\ ~InTurn /\ Over
    BY <1>1, <1>2 DEF Live, InTurn, ActivityInv, Turn
  <2>2. /\ n \in 1 .. Len(log) /\ log[n].at \in Nat /\ hub.since \in Nat /\ hub.end \in Nat
        /\ hub.fired \in Nat /\ tail.told \in Nat /\ Len(log) \in Nat
        /\ \A h \in hooks : h.at \in Nat
    BY <1>1, <1>2, Numbers DEF ActivityInv, Passes
  <2>3. CASE Rest
    <3>1. Rest'
      BY <1>1, <1>2, <2>3 DEF Rest, Reads, Acts
    <3> QED
      BY <3>1
  <2>4. CASE claude.end = "stop" /\ StopComes
    <3>1. hub'.fired \in {hub.fired, 0}
      BY <1>1, <1>2 DEF Reads, Acts
    <3>2. StopComes'
      BY <1>1, <1>2, <2>2, <2>4, <3>1 DEF StopComes, IsStop, Own
    <3> QED
      BY <1>1, <1>2, <2>4, <3>2
  <2>5. CASE claude.end \in {"interrupted", "error"} /\ LineComes
    <3>1. log' = log /\ LastAt' = LastAt /\ LastAt = log[Len(log)].at /\ LastAt \in Nat
      BY <1>1, <1>2, <2>2, <2>5, Numbers DEF LastAt, LineComes, ActivityInv
    <3>2. hub.end <= LastAt /\ log[n].at <= LastAt /\ tail.told <= Len(log)
      BY <2>2 DEF ActivityInv, Order, LinesInOrder, Places
    <3>3. tail'.told = Later(tail.told, n)
      BY <1>1, <1>2 DEF Passes
    <3>4. hub'.busy => hub'.since <= LastAt /\ tail'.told < Len(log)
      <4> SUFFICES ASSUME hub'.busy PROVE hub'.since <= LastAt /\ tail'.told < Len(log)
        OBVIOUS
      <4>1. /\ hub.busy /\ hub'.since = hub.since
            /\ log[n].kind = "prompt" \/ log[n].at < hub.since
        BY <1>1 DEF Reads, Acts
      <4>2. hub.since <= LastAt /\ tail.told < Len(log)
        BY <2>5, <4>1 DEF LineComes
      <4>3. n # Len(log)
        BY <2>2, <2>5, <3>1, <4>1, <4>2 DEF LineComes
      <4> QED
        BY <2>2, <3>3, <4>1, <4>2, <4>3 DEF Later
    <3>5. tail'.told = Len(log) => hub'.end = LastAt
      <4> SUFFICES ASSUME tail'.told = Len(log) PROVE hub'.end = LastAt
        OBVIOUS
      <4>1. CASE tail.told = Len(log)
        <5>1. ~hub.busy /\ hub.end = LastAt
          BY <1>1, <1>2, <2>2, <2>5, <4>1 DEF LineComes
        <5>2. hub'.end \in {hub.end, Later(hub.end, log[n].at)}
          BY <1>1, <5>1 DEF Reads, Acts
        <5> QED
          BY <2>2, <3>1, <3>2, <5>1, <5>2 DEF Later
      <4>2. CASE tail.told # Len(log)
        <5>1. n = Len(log) /\ log[n].kind # "prompt" /\ log[n].at = LastAt
          BY <2>2, <2>5, <3>1, <3>2, <3>3, <4>2 DEF Later, LineComes
        <5>2. hub.busy => ~(log[n].at < hub.since)
          BY <2>2, <2>5, <3>1, <5>1 DEF LineComes
        <5>3. hub'.end = Later(hub.end, log[n].at)
          BY <1>1, <5>1, <5>2 DEF Reads, Acts
        <5> QED
          BY <2>2, <3>1, <3>2, <5>1, <5>3 DEF Later
      <4> QED
        BY <4>1, <4>2
    <3>6. hb'.state = "active" => hb'.since <= LastAt
      BY <1>1, <1>2, <2>5 DEF LineComes, Reads, Beats
    <3>7. LineComes'
      BY <1>1, <1>2, <2>5, <3>1, <3>4, <3>5, <3>6 DEF LineComes, IsPrompt
    <3> QED
      BY <1>1, <1>2, <2>5, <3>7
  <2> QED
    BY <2>1, <2>3, <2>4, <2>5 DEF Over
<1> QED
  BY <1>3, <1>4, <1>5, <1>6, <1>7, <1>8, <1>9, <1>10, <1>11, <1>12, <1>13, <1>14, <1>15, <1>16,
     <1>17, <1>18, <1>19, <1>20, <1>21, <1>22, <1>23
     DEF ActivityInv, Typed, Order, Hooks, Heart, Turn

-----------------------------------------------------------------------------
(* Engines, and a hub that ends and starts again.                          *)

(* A subscription refreshes the heartbeat of a session in front.           *)
LEMMA SubscribesSafe ==
    ASSUME ActivityInv, NEW kind \in {"back", "front"}, Subscribes(kind)
    PROVE  ActivityInv'
<1>1. Refreshed("idle")
  BY RefreshStep, NoRefresh DEF ActivityInv, Subscribes, Refreshed
<1>2. /\ hub.up /\ UNCHANGED <<claude, log, hooks, hub, reap, due, now>> /\ left' \in Budget
      /\ left'.turns = left.turns /\ tail' \in Reader /\ sub' \in {"none", "back", "front"}
      /\ tail'.read \in {0, tail.read, tail.passed} /\ tail'.passed = tail.passed
      /\ tail'.told = tail.told
  <2>1. left' \in Budget /\ left'.turns = left.turns
    BY UseStep DEF ActivityInv, Subscribes
  <2>2. PICK n \in {0, tail.passed} : tail' = [tail EXCEPT !.read = n]
    BY DEF Subscribes
  <2>3. n \in Nat /\ tail \in Reader
    BY <2>2, Numbers DEF ActivityInv, Typed
  <2>4. /\ tail' \in Reader /\ tail'.read = n /\ tail'.passed = tail.passed
        /\ tail'.told = tail.told
    BY <2>2, <2>3, Zenon DEF Reader
  <2> QED
    BY <2>1, <2>2, <2>4 DEF Subscribes
<1>3. Typed'
  BY <1>1, <1>2 DEF ActivityInv, Typed, Refreshed, Bumps
<1>4. Order'
  BY <1>1, <1>2, SMT
     DEF ActivityInv, Order, HooksPast, Refreshed, Bumps, LinesPast, HubPast, Places,
         LinesInOrder, LastAt, AgentInTurn, InTurn, PromptLast
<1>5. Hooks'
  BY <1>1, <1>2, SMT
     DEF ActivityInv, Hooks, TurnsPast, InTurn, PromptsInOrder, Own, StopsLast,
         ToolsAfterPrompts, Tools, Arrived, StopsAreEnds, EchoInOrder, PromptsGone,
         PromptAfterEnds, EndsBefore
<1>6. HubSane' /\ Fresh' /\ BeatOfHook'
  BY <1>1, <1>2, SMT
     DEF ActivityInv, Heart, HubSane, Refreshed, Bumps, Fresh, BeatOfHook, IsStop
<1>7. Judged'
  BY <1>1, <1>2, Numbers, TimeoutIsPositive, SMT
     DEF ActivityInv, Heart, Judged, Refreshed, Bumps
<1>8. Asked'
  BY <1>1, <1>2, Numbers, TimeoutIsPositive, SMT
     DEF ActivityInv, Heart, Asked, Unwritten, InTurn, Refreshed, Bumps
<1>9. Turn'
  BY <1>1, <1>2, SMT
     DEF ActivityInv, Turn, TurnSeen, BeatOn, BusyOn, Arrived, InTurn, EndsBefore, Own,
         Refreshed, Bumps, ToolsLate, Live, Tools, LineEnds, ToolsThenLate, EchoThenLate,
         StopsStale, BeatOfLate, Unwritten, Over, Rest, StopComes, LineComes, LastAt
<1> QED
  BY <1>3, <1>4, <1>5, <1>6, <1>7, <1>8, <1>9 DEF ActivityInv, Typed, Order, Hooks, Heart, Turn

(* So does one that comes to the front ...                                 *)
LEMMA ComesToFrontSafe ==
    ASSUME ActivityInv, ComesToFront
    PROVE  ActivityInv'
<1>1. Refreshed("idle")
  BY RefreshStep, NoRefresh DEF ActivityInv, ComesToFront, Refreshed
<1>2. /\ hub.up /\ UNCHANGED <<claude, log, hooks, hub, reap, due, now>> /\ left' \in Budget
      /\ left'.turns = left.turns /\ tail' \in Reader /\ sub' \in {"none", "back", "front"}
      /\ tail'.read \in {0, tail.read, tail.passed} /\ tail'.passed = tail.passed
      /\ tail'.told = tail.told
  BY UseStep, Numbers DEF ActivityInv, ComesToFront, Typed, Reader
<1>3. Typed'
  BY <1>1, <1>2 DEF ActivityInv, Typed, Refreshed, Bumps
<1>4. Order'
  BY <1>1, <1>2, SMT
     DEF ActivityInv, Order, HooksPast, Refreshed, Bumps, LinesPast, HubPast, Places,
         LinesInOrder, LastAt, AgentInTurn, InTurn, PromptLast
<1>5. Hooks'
  BY <1>1, <1>2, SMT
     DEF ActivityInv, Hooks, TurnsPast, InTurn, PromptsInOrder, Own, StopsLast,
         ToolsAfterPrompts, Tools, Arrived, StopsAreEnds, EchoInOrder, PromptsGone,
         PromptAfterEnds, EndsBefore
<1>6. HubSane' /\ Fresh' /\ BeatOfHook'
  BY <1>1, <1>2, SMT
     DEF ActivityInv, Heart, HubSane, Refreshed, Bumps, Fresh, BeatOfHook, IsStop
<1>7. Judged'
  BY <1>1, <1>2, Numbers, TimeoutIsPositive, SMT
     DEF ActivityInv, Heart, Judged, Refreshed, Bumps
<1>8. Asked'
  BY <1>1, <1>2, Numbers, TimeoutIsPositive, SMT
     DEF ActivityInv, Heart, Asked, Unwritten, InTurn, Refreshed, Bumps
<1>9. Turn'
  BY <1>1, <1>2, SMT
     DEF ActivityInv, Turn, TurnSeen, BeatOn, BusyOn, Arrived, InTurn, EndsBefore, Own,
         Refreshed, Bumps, ToolsLate, Live, Tools, LineEnds, ToolsThenLate, EchoThenLate,
         StopsStale, BeatOfLate, Unwritten, Over, Rest, StopComes, LineComes, LastAt
<1> QED
  BY <1>3, <1>4, <1>5, <1>6, <1>7, <1>8, <1>9 DEF ActivityInv, Typed, Order, Hooks, Heart, Turn

(* ... and one that goes.                                                  *)
LEMMA LeavesSafe ==
    ASSUME ActivityInv, Leaves
    PROVE  ActivityInv'
<1>1. Refreshed("idle")
  BY RefreshStep, NoRefresh DEF ActivityInv, Leaves, Refreshed
<1>2. /\ hub.up /\ UNCHANGED <<claude, log, hooks, hub, reap, due, now>> /\ left' \in Budget
      /\ left'.turns = left.turns /\ tail' \in Reader /\ sub' \in {"none", "back", "front"}
      /\ tail'.read \in {0, tail.read, tail.passed} /\ tail'.passed = tail.passed
      /\ tail'.told = tail.told
  BY UseStep, Numbers DEF ActivityInv, Leaves, Typed, Reader
<1>3. Typed'
  BY <1>1, <1>2 DEF ActivityInv, Typed, Refreshed, Bumps
<1>4. Order'
  BY <1>1, <1>2, SMT
     DEF ActivityInv, Order, HooksPast, Refreshed, Bumps, LinesPast, HubPast, Places,
         LinesInOrder, LastAt, AgentInTurn, InTurn, PromptLast
<1>5. Hooks'
  BY <1>1, <1>2, SMT
     DEF ActivityInv, Hooks, TurnsPast, InTurn, PromptsInOrder, Own, StopsLast,
         ToolsAfterPrompts, Tools, Arrived, StopsAreEnds, EchoInOrder, PromptsGone,
         PromptAfterEnds, EndsBefore
<1>6. HubSane' /\ Fresh' /\ BeatOfHook'
  BY <1>1, <1>2, SMT
     DEF ActivityInv, Heart, HubSane, Refreshed, Bumps, Fresh, BeatOfHook, IsStop
<1>7. Judged'
  BY <1>1, <1>2, Numbers, TimeoutIsPositive, SMT
     DEF ActivityInv, Heart, Judged, Refreshed, Bumps
<1>8. Asked'
  BY <1>1, <1>2, Numbers, TimeoutIsPositive, SMT
     DEF ActivityInv, Heart, Asked, Unwritten, InTurn, Refreshed, Bumps
<1>9. Turn'
  BY <1>1, <1>2, SMT
     DEF ActivityInv, Turn, TurnSeen, BeatOn, BusyOn, Arrived, InTurn, EndsBefore, Own,
         Refreshed, Bumps, ToolsLate, Live, Tools, LineEnds, ToolsThenLate, EchoThenLate,
         StopsStale, BeatOfLate, Unwritten, Over, Rest, StopComes, LineComes, LastAt
<1> QED
  BY <1>3, <1>4, <1>5, <1>6, <1>7, <1>8, <1>9 DEF ActivityInv, Typed, Order, Hooks, Heart, Turn

(* The heartbeat outlives the hub.                                         *)
LEMMA HubEndsSafe ==
    ASSUME ActivityInv, HubEnds
    PROVE  ActivityInv'
<1>1. /\ left' \in Budget /\ left'.turns = left.turns
  BY UseStep DEF ActivityInv, HubEnds
<1>2. Acts(FALSE, FALSE, 0, 0, 0, 0, FALSE)
  BY DEF HubEnds, FreshActor, Acts, Actor
<1>3. /\ hub.up /\ sub' = "none" /\ tail' \in Reader /\ tail'.read = 0
      /\ tail'.passed = tail.passed /\ tail'.told = tail.told /\ reap' \in Reaping
      /\ reap'.step = "none" /\ due' = FALSE /\ UNCHANGED <<claude, log, hooks, hb, gap, now>>
  BY Numbers DEF ActivityInv, HubEnds, Typed, Reader, Reaping
<1>4. Typed'
  BY <1>1, <1>2, <1>3 DEF ActivityInv, Typed, Acts
<1>5. HooksPast' /\ LinesPast' /\ Places' /\ AgentInTurn' /\ PromptLast'
  BY <1>1, <1>2, <1>3, SMT
     DEF ActivityInv, Order, HooksPast, LinesPast, Places, AgentInTurn, InTurn, PromptLast
<1>6. HubPast'
  BY <1>1, <1>2, <1>3, Numbers, SMT DEF ActivityInv, Order, HubPast, Acts
<1>7. LinesInOrder'
  BY <1>1, <1>2, <1>3, Numbers, SMT DEF ActivityInv, Order, LinesInOrder, LastAt, Acts
<1>8. /\ TurnsPast' /\ PromptsInOrder' /\ StopsLast' /\ ToolsAfterPrompts' /\ StopsAreEnds'
      /\ EchoInOrder' /\ PromptsGone'
  BY <1>1, <1>2, <1>3, SMT
     DEF ActivityInv, Hooks, TurnsPast, InTurn, PromptsInOrder, Own, StopsLast,
         ToolsAfterPrompts, Tools, Arrived, StopsAreEnds, EchoInOrder, PromptsGone
<1>9. PromptAfterEnds'
  BY <1>1, <1>2, <1>3, Numbers, SMT
     DEF ActivityInv, Hooks, PromptAfterEnds, LastAt, InTurn, Own, EndsBefore, Acts
<1>10. Heart'
  BY <1>1, <1>2, <1>3, SMT
     DEF ActivityInv, Heart, HubSane, Acts, Fresh, BeatOfHook, IsStop, Judged, Asked
<1>11. TurnSeen' /\ ToolsLate' /\ ToolsThenLate' /\ EchoThenLate' /\ StopsStale' /\ BeatOfLate'
  BY <1>1, <1>2, <1>3, SMT
     DEF ActivityInv, Turn, TurnSeen, BeatOn, Arrived, InTurn, EndsBefore, Acts, ToolsLate,
         ToolsThenLate, EchoThenLate, StopsStale, BeatOfLate
<1>12. Over'
  BY <1>1, <1>2, <1>3, Numbers, SMTT(60)
     DEF ActivityInv, Turn, Over, Live, InTurn, Rest, StopComes, LineComes, LastAt, Tools,
         Continues, IsStop, IsPrompt, Own, Unwritten, Events, Acts
<1> QED
  BY <1>4, <1>5, <1>6, <1>7, <1>8, <1>9, <1>10, <1>11, <1>12
     DEF ActivityInv, Typed, Order, Hooks, Heart, Turn

(* The new hub goes by the heartbeat and by the last line.                 *)
LEMMA HubStartsSafe ==
    ASSUME ActivityInv, HubStarts
    PROVE  ActivityInv'
<1>1. Starts
  BY StartsStep DEF ActivityInv
<1>2. /\ tail' \in Reader /\ tail'.told = Len(log) /\ tail'.read = tail.read
      /\ tail'.passed = tail.passed
  BY Numbers DEF ActivityInv, HubStarts, Typed, Reader
<1>3. /\ ~hub.up
      /\ gap' = (IF hooks # {} \/ claude.echo # 0 \/ claude.phase = "asked"
                    \/ (hb.state = "active" /\ ~Restorable)
                 THEN gap \cup {"restart"}
                 ELSE gap)
      /\ due' \in BOOLEAN /\ UNCHANGED <<claude, log, hooks, sub, reap, left>>
  BY DEF ActivityInv, Typed, HubStarts, Budget
<1>4. Typed'
  BY <1>1, <1>2, <1>3 DEF ActivityInv, Typed, Starts, Acts, Beats, EndedMeanwhile, TrailingEnd
<1>5. Places' /\ AgentInTurn' /\ PromptLast'
  BY <1>1, <1>2, <1>3, SMT DEF ActivityInv, Order, Places, AgentInTurn, InTurn, PromptLast
<1>6. HooksPast'
  BY <1>1, <1>2, <1>3, Numbers, SMT DEF ActivityInv, Order, HooksPast, Starts
<1>7. LinesPast'
  BY <1>1, <1>2, <1>3, Numbers, SMT
     DEF ActivityInv, Order, LinesPast, Starts, EndedMeanwhile, TrailingEnd
<1>8. HubPast'
  BY <1>1, <1>2, <1>3, Numbers, SMT DEF ActivityInv, Order, HubPast, Starts, Acts, Beats
<1>9. LinesInOrder'
  BY <1>1, <1>2, <1>3, Numbers, SMT
     DEF ActivityInv, Order, LinesInOrder, LastAt, Starts, Acts, Beats, EndedMeanwhile
<1>10. /\ TurnsPast' /\ PromptsInOrder' /\ StopsLast' /\ ToolsAfterPrompts' /\ StopsAreEnds'
       /\ EchoInOrder' /\ PromptsGone'
  BY <1>1, <1>2, <1>3, SMT
     DEF ActivityInv, Hooks, TurnsPast, InTurn, PromptsInOrder, Own, StopsLast,
         ToolsAfterPrompts, Tools, Arrived, StopsAreEnds, EchoInOrder, PromptsGone
<1>11. PromptAfterEnds'
  <2>1. PromptAfterEnds /\ TurnsPast /\ Typed
    BY DEF ActivityInv, Hooks
  <2>2. hub'.end = 0
    BY <1>1, <1>2, <1>3 DEF Starts, Acts
  <2> SUFFICES ASSUME InTurn', NEW h \in hooks, IsPrompt(h), Own(h)'
               PROVE  hub'.end < h.at /\ EndsBefore(h.at)'
    BY <1>1, <1>2, <1>3 DEF PromptAfterEnds, IsPrompt
  <2>3. hub.end < h.at /\ EndsBefore(h.at) /\ h.at \in Nat /\ hub.end \in Nat
    BY <1>1, <1>2, <1>3, <2>1, Numbers DEF PromptAfterEnds, InTurn, Own
  <2> QED
    BY <1>1, <1>2, <1>3, <2>2, <2>3 DEF EndsBefore
<1>12. Fresh' /\ BeatOfHook' /\ Judged'
  BY <1>1, <1>2, <1>3, SMT
     DEF ActivityInv, Heart, Fresh, Starts, Acts, Beats, BeatOfHook, Judged
<1>13. HubSane'
  BY <1>1, <1>2, <1>3, Numbers, SMT DEF ActivityInv, Heart, HubSane, Starts, Acts
<1>14. Asked'
  BY <1>1, <1>2, <1>3, Numbers, TimeoutIsPositive, SMT
     DEF ActivityInv, Heart, Asked, Unwritten, InTurn, Starts, Acts, Beats
<1>15. ToolsLate'
  BY <1>1, <1>2, <1>3, Zenon DEF ActivityInv, Turn, ToolsLate, Live, Tools
<1>16. ToolsThenLate'
  BY <1>1, <1>2, <1>3, Zenon DEF ActivityInv, Turn, ToolsThenLate, Live, Tools
<1>17. EchoThenLate'
  BY <1>1, <1>2, <1>3, Zenon
     DEF ActivityInv, Turn, EchoThenLate, LineEnds, Live, InTurn, Arrived
<1>18. StopsStale'
  BY <1>1, <1>2, <1>3, Zenon DEF ActivityInv, Turn, StopsStale, Live
<1>19. BeatOfLate'
  BY <1>1, <1>2, <1>3, Zenon DEF ActivityInv, Turn, BeatOfLate, Live, Starts, Acts, Beats
<1>20. TurnSeen'
  <2> SUFFICES ASSUME Arrived', gap' = {} PROVE BeatOn' /\ BusyOn'
    BY DEF TurnSeen
  <2>1. /\ Arrived /\ gap = {} /\ hooks = {} /\ claude.phase # "asked"
        /\ hb.state = "active" => Restorable
    BY <1>1, <1>2, <1>3 DEF Arrived, InTurn
  <2>2. TurnSeen /\ PromptLast /\ Typed /\ LinesPast
    BY DEF ActivityInv, Turn, Order
  <2>3. hb.state = "active" /\ (hb.since = 0 \/ EndsBefore(hb.since))
    BY <2>1, <2>2 DEF TurnSeen, BeatOn
  <2>4. claude.phase = "on"
    BY <2>1, <2>2 DEF Arrived, InTurn, Typed, Agent
  <2>5. ~EndedMeanwhile
    BY <2>2, <2>4 DEF PromptLast, EndedMeanwhile, TrailingEnd
  <2>6. /\ hb' = hb /\ hub'.busy
        /\ hub'.since = IF hb.since = 0 THEN now + 1 ELSE hb.since
    BY <1>1, <1>2, <1>3, <2>1, <2>3, <2>5 DEF Starts, Acts
  <2>7. EndsBefore(now + 1)
    BY <2>2, Numbers DEF EndsBefore, LinesPast
  <2>8. EndsBefore(hub'.since)
    BY <2>3, <2>6, <2>7
  <2> QED
    BY <1>1, <1>2, <1>3, <2>1, <2>3, <2>6, <2>8 DEF BeatOn, BusyOn, EndsBefore
<1>21. Over'
  <2> SUFFICES ASSUME Live', ~InTurn'
               PROVE  \/ Rest'
                      \/ claude'.end = "stop" /\ StopComes'
                      \/ claude'.end \in {"interrupted", "error"} /\ LineComes'
    BY DEF Over
  <2>1. /\ Live /\ ~InTurn /\ hooks = {} /\ claude.echo = 0
        /\ hb.state = "active" => Restorable
    BY <1>1, <1>2, <1>3 DEF Live, InTurn
  <2>2. Over /\ Typed
    BY DEF ActivityInv, Turn
  <2>3. CASE hb.state = "active"
    <3>1. LineComes /\ hb.since <= LastAt
      BY <2>1, <2>2, <2>3 DEF Over, Rest, StopComes, LineComes
    <3>2. TrailingEnd = LastAt /\ LastAt \in Nat \ {0} /\ hb.since \in Nat
      BY <2>2, <3>1, Numbers DEF TrailingEnd, LastAt, LineComes
    <3>3. EndedMeanwhile
      BY <3>1, <3>2 DEF EndedMeanwhile
    <3>4. ~hub'.busy /\ hb'.state = "idle"
      BY <1>1, <1>2, <1>3, <2>1, <2>3, <3>3 DEF Starts, Acts, Beats
    <3>5. Rest'
      BY <1>1, <1>2, <1>3, <2>1, <3>4 DEF Rest
    <3> QED
      BY <3>5
  <2>4. CASE hb.state # "active"
    <3>1. ~hub'.busy /\ hb' = hb
      BY <1>1, <1>2, <1>3, <2>4 DEF Starts, Acts, Restorable
    <3>2. Rest'
      BY <1>1, <1>2, <1>3, <2>1, <2>4, <3>1 DEF Rest
    <3> QED
      BY <3>2
  <2> QED
    BY <2>3, <2>4
<1> QED
  BY <1>4, <1>5, <1>6, <1>7, <1>8, <1>9, <1>10, <1>11, <1>12, <1>13, <1>14, <1>15, <1>16, <1>17,
     <1>18, <1>19, <1>20, <1>21 DEF ActivityInv, Typed, Order, Hooks, Heart, Turn

-----------------------------------------------------------------------------
(* The reaper, and time.                                                   *)

(* The tick refreshes the heartbeats of sessions that are busy or watched. *)
LEMMA TickSafe ==
    ASSUME ActivityInv, Tick
    PROVE  ActivityInv'
<1>1. TickRefreshed
  BY TickBumpStep DEF ActivityInv, Tick
<1>2. /\ hub.up /\ due' = FALSE /\ reap' \in Reaping /\ reap'.step = "judge"
      /\ UNCHANGED <<claude, log, hooks, hub, sub, tail, left, now>>
  BY DEF Tick, At, Reaping
<1>3. Typed'
  BY <1>1, <1>2 DEF ActivityInv, Typed, TickRefreshed, Refreshed, Bumps
<1>4. Order'
  BY <1>1, <1>2, SMT
     DEF ActivityInv, Order, HooksPast, TickRefreshed, Refreshed, Bumps, LinesPast, HubPast,
         Places, LinesInOrder, LastAt, AgentInTurn, InTurn, PromptLast
<1>5. Hooks'
  BY <1>1, <1>2, SMT
     DEF ActivityInv, Hooks, TurnsPast, InTurn, PromptsInOrder, Own, StopsLast,
         ToolsAfterPrompts, Tools, Arrived, StopsAreEnds, EchoInOrder, PromptsGone,
         PromptAfterEnds, EndsBefore
<1>6. Heart'
  BY <1>1, <1>2, SMT
     DEF ActivityInv, Heart, HubSane, TickRefreshed, Refreshed, Bumps, Fresh, BeatOfHook,
         IsStop, Judged, Asked
<1>7. TurnSeen' /\ ToolsLate' /\ ToolsThenLate' /\ EchoThenLate' /\ StopsStale' /\ BeatOfLate'
  BY <1>1, <1>2, SMT
     DEF ActivityInv, Turn, TurnSeen, BeatOn, BusyOn, Arrived, InTurn, EndsBefore,
         TickRefreshed, Refreshed, Bumps, ToolsLate, Live, Tools, LineEnds, ToolsThenLate,
         EchoThenLate, StopsStale, BeatOfLate, Unwritten
<1>8. Over'
  <2> SUFFICES ASSUME Live', ~InTurn'
               PROVE  \/ Rest'
                      \/ claude'.end = "stop" /\ StopComes'
                      \/ claude'.end \in {"interrupted", "error"} /\ LineComes'
    BY DEF Over
  <2>1. gap \subseteq gap'
    BY <1>1, <1>2 DEF TickRefreshed, Refreshed
  <2>2. Live /\ ~InTurn /\ Over /\ BeatOfHook /\ Typed
    BY <1>1, <1>2, <2>1 DEF Live, InTurn, ActivityInv, Turn, Heart
  <2>3. CASE Rest
    <3>1. hb'.state # "active"
      BY <1>1, <1>2, <2>3 DEF Rest, TickRefreshed, Refreshed, Bumps
    <3>2. Rest'
      BY <1>1, <1>2, <2>3, <3>1 DEF Rest
    <3> QED
      BY <3>2
  <2>4. CASE claude.end = "stop" /\ StopComes
    <3>1. StopComes'
      BY <1>1, <1>2, <2>4 DEF StopComes, IsStop, Own
    <3> QED
      BY <1>1, <1>2, <2>4, <3>1
  <2>5. CASE claude.end \in {"interrupted", "error"} /\ LineComes
    <3>1. LastAt \in Nat /\ LastAt' = LastAt
      BY <1>1, <1>2, <2>2, <2>5, Numbers DEF LastAt, LineComes
    <3>2. /\ hb'.since = hb.since
          /\ hb'.state = "active" => hb.state = "active" \/ hb.state = "none"
      BY <1>1, <1>2 DEF TickRefreshed, Refreshed, Bumps
    <3>3. hb'.state = "active" => hb'.since <= LastAt
      BY <2>2, <2>5, <3>1, <3>2 DEF BeatOfHook, LineComes
    <3>4. LineComes'
      BY <1>1, <1>2, <2>5, <3>1, <3>3 DEF LineComes, IsPrompt
    <3> QED
      BY <1>1, <1>2, <2>5, <3>4
  <2> QED
    BY <2>2, <2>3, <2>4, <2>5 DEF Over
<1> QED
  BY <1>3, <1>4, <1>5, <1>6, <1>7, <1>8 DEF ActivityInv, Typed, Order, Hooks, Heart, Turn

(* An active heartbeat sends the reaper to the agent, an old one further.  *)
LEMMA JudgeSafe ==
    ASSUME ActivityInv, Judge
    PROVE  ActivityInv'
<1>1. \/ ~reap.live /\ hb.state # "none" /\ Beats("none", "hub", 0) /\ reap'.step = "retire"
      \/ ~reap.live /\ hb.state = "none" /\ hb' = hb /\ reap'.step = "none"
      \/ reap.live /\ hb.state = "none" /\ Beats("idle", "hub", 0) /\ reap'.step = "none"
      \/ reap.live /\ hb.state = "active" /\ hb' = hb /\ reap'.step = "agent"
      \/ /\ reap.live /\ hb.state = "idle" /\ hb' = hb
         /\ reap'.step = (IF hb.age < Timeout THEN "none" ELSE "keep")
  <2>1. Typed
    BY DEF ActivityInv
  <2>2. CASE ~reap.live /\ hb.state # "none" /\ hb' = NoBeat /\ Goes("retire")
    <3>1. Beats("none", "hub", 0)
      BY <2>2, BeatStep DEF NoBeat, Beat
    <3> QED
      BY <2>1, <2>2, <3>1, GoesStep
  <2>3. CASE ~reap.live /\ hb.state = "none" /\ UNCHANGED hb /\ Goes("none")
    BY <2>1, <2>3, GoesStep
  <2>4. CASE reap.live /\ hb.state = "none" /\ hb' = Beat("idle", "hub", 0) /\ Goes("none")
    <3>1. Beats("idle", "hub", 0)
      BY <2>4, BeatStep
    <3> QED
      BY <2>1, <2>4, <3>1, GoesStep
  <2>5. CASE reap.live /\ hb.state = "active" /\ UNCHANGED hb /\ Goes("agent")
    BY <2>1, <2>5, GoesStep
  <2>6. CASE /\ reap.live /\ hb.state = "idle" /\ UNCHANGED hb
             /\ Goes(IF hb.age < Timeout THEN "none" ELSE "keep")
    <3>1. reap'.step = (IF hb.age < Timeout THEN "none" ELSE "keep")
      BY <2>1, <2>6, GoesStep
    <3> QED
      BY <2>6, <3>1
  <2> QED
    BY <2>2, <2>3, <2>4, <2>5, <2>6 DEF Judge
<1>2. reap' \in Reaping /\ reap'.live = reap.live
  BY GoesStep DEF ActivityInv, Judge
<1>3. /\ reap.step = "judge" /\ hub.up
      /\ gap' = (IF ~reap.live /\ claude.proc = "run" THEN gap \cup {"retired"} ELSE gap)
      /\ UNCHANGED <<claude, log, hooks, sub, due, left, now, hub, tail>>
  BY DEF Judge, At, ReapOnly
<1>4. Typed'
  BY <1>1, <1>2, <1>3 DEF ActivityInv, Typed, Beats
<1>5. HooksPast' /\ LinesPast' /\ Places' /\ LinesInOrder' /\ AgentInTurn' /\ PromptLast'
  BY <1>1, <1>2, <1>3, SMT
     DEF ActivityInv, Order, HooksPast, LinesPast, Places, LinesInOrder, LastAt, AgentInTurn,
         InTurn, PromptLast
<1>6. HubPast'
  BY <1>1, <1>2, <1>3, Numbers, SMT DEF ActivityInv, Order, HubPast, Beats
<1>7. Hooks'
  BY <1>1, <1>2, <1>3, SMT
     DEF ActivityInv, Hooks, TurnsPast, InTurn, PromptsInOrder, Own, StopsLast,
         ToolsAfterPrompts, Tools, Arrived, StopsAreEnds, EchoInOrder, PromptsGone,
         PromptAfterEnds, EndsBefore
<1>8. Heart'
  BY <1>1, <1>2, <1>3, SMT
     DEF ActivityInv, Heart, HubSane, Beats, Fresh, BeatOfHook, IsStop, Judged, Asked
<1>9. ToolsLate' /\ ToolsThenLate' /\ EchoThenLate' /\ StopsStale' /\ BeatOfLate' /\ Over'
  BY <1>1, <1>2, <1>3, SMT
     DEF ActivityInv, Turn, ToolsLate, Live, Tools, InTurn, LineEnds, Own, Beats, ToolsThenLate,
         EchoThenLate, StopsStale, BeatOfLate, Unwritten, Over, Rest, StopComes, LineComes,
         LastAt
<1>10. TurnSeen'
  <2> SUFFICES ASSUME Arrived', gap' = {} PROVE BeatOn' /\ (hub'.up => BusyOn')
    BY DEF TurnSeen
  <2>1. Arrived /\ gap = {} /\ (~reap.live => claude.proc # "run")
    BY <1>1, <1>2, <1>3 DEF Arrived, InTurn
  <2>2. BeatOn /\ (hub.up => BusyOn) /\ claude.proc = "run"
    BY <2>1 DEF ActivityInv, Turn, TurnSeen, Order, AgentInTurn, Arrived
  <2>3. hb' = hb
    <3>1. reap.live /\ hb.state # "none"
      BY <2>1, <2>2 DEF BeatOn
    <3> QED
      BY <1>1, <3>1
  <2> QED
    BY <1>1, <1>2, <1>3, <2>2, <2>3 DEF BeatOn, BusyOn, EndsBefore, IsStop
<1> QED
  BY <1>4, <1>5, <1>6, <1>7, <1>8, <1>9, <1>10 DEF ActivityInv, Typed, Order, Hooks, Heart, Turn

(* Only a dead agent has its heartbeat put to idle.                        *)
LEMMA JudgeAgentSafe ==
    ASSUME ActivityInv, JudgeAgent
    PROVE  ActivityInv'
<1>1. \/ claude.proc = "dead" /\ Beats("idle", "hub", 0) /\ gap' = gap /\ reap'.step = "retire"
      \/ claude.proc # "dead" /\ Refreshed("active") /\ reap'.step = "none"
  <2>1. Typed
    BY DEF ActivityInv
  <2>2. CASE claude.proc = "dead"
    <3>1. hb' = Beat("idle", "hub", 0) /\ gap' = gap /\ Goes("retire")
      BY <2>2 DEF JudgeAgent
    <3>2. Beats("idle", "hub", 0)
      BY <3>1, BeatStep
    <3> QED
      BY <2>1, <2>2, <3>1, <3>2, GoesStep
  <2>3. CASE claude.proc # "dead"
    <3>1. Refreshes(Bumped(hb, "active")) /\ Goes("none")
      BY <2>3 DEF JudgeAgent
    <3>2. Refreshed("active")
      BY <2>1, <3>1, RefreshStep
    <3> QED
      BY <2>1, <2>3, <3>1, <3>2, GoesStep
  <2> QED
    BY <2>2, <2>3
<1>2. reap' \in Reaping /\ reap'.live = reap.live
  BY GoesStep DEF ActivityInv, JudgeAgent
<1>3. /\ hub.up /\ reap.step = "agent"
      /\ UNCHANGED <<claude, log, hooks, hub, tail, sub, due, left, now>>
  BY DEF JudgeAgent, At, ReapOnly
<1>4. Typed'
  BY <1>1, <1>2, <1>3 DEF ActivityInv, Typed, Refreshed, Beats, Bumps
<1>5. HooksPast' /\ LinesPast' /\ Places' /\ LinesInOrder' /\ AgentInTurn' /\ PromptLast'
  BY <1>1, <1>2, <1>3, SMT
     DEF ActivityInv, Order, HooksPast, LinesPast, Places, LinesInOrder, LastAt, AgentInTurn,
         InTurn, PromptLast
<1>6. HubPast'
  BY <1>1, <1>2, <1>3, Numbers, SMT DEF ActivityInv, Order, HubPast, Refreshed, Beats, Bumps
<1>7. Hooks'
  BY <1>1, <1>2, <1>3, SMT
     DEF ActivityInv, Hooks, TurnsPast, InTurn, PromptsInOrder, Own, StopsLast,
         ToolsAfterPrompts, Tools, Arrived, StopsAreEnds, EchoInOrder, PromptsGone,
         PromptAfterEnds, EndsBefore
<1>8. Heart'
  BY <1>1, <1>2, <1>3, SMT
     DEF ActivityInv, Heart, HubSane, Refreshed, Beats, Bumps, Fresh, BeatOfHook, IsStop,
         Judged, Asked
<1>9. ToolsLate' /\ ToolsThenLate' /\ EchoThenLate' /\ StopsStale'
  BY <1>1, <1>2, <1>3, SMT
     DEF ActivityInv, Turn, ToolsLate, Live, Tools, LineEnds, Refreshed, ToolsThenLate,
         EchoThenLate, StopsStale
<1>10. TurnSeen'
  BY <1>1, <1>2, <1>3, Numbers, SMT
     DEF ActivityInv, Turn, Hooks, Order, Heart, TurnSeen, BeatOn, BusyOn, Arrived, InTurn,
         EndsBefore, IsPrompt, StopsAreEnds, PromptsInOrder, PromptsGone, AgentInTurn,
         LinesPast, HubPast, Refreshed, Beats, Bumps
<1>11. BeatOfLate'
  BY <1>1, <1>2, <1>3, Numbers, SMT
     DEF ActivityInv, Turn, Heart, Order, BeatOfLate, Live, Unwritten, Judged, Refreshed, Bumps
<1>12. Over'
  BY <1>1, <1>2, <1>3, Numbers, SMT
     DEF ActivityInv, Turn, Order, Heart, Hooks, Over, Live, InTurn, Rest, StopComes, LineComes,
         LastAt, Judged, Own, Refreshed, Bumps
<1> QED
  BY <1>4, <1>5, <1>6, <1>7, <1>8, <1>9, <1>10, <1>11, <1>12
     DEF ActivityInv, Typed, Order, Hooks, Heart, Turn

(* An agent that says that it works is kept.                               *)
LEMMA JudgeKeepsSafe ==
    ASSUME ActivityInv, JudgeKeeps
    PROVE  ActivityInv'
<1>1. \/ Refreshed("idle") /\ reap'.step = "none"
      \/ ~Working /\ hb' = hb /\ gap' = gap /\ reap'.step = "recheck"
  <2>1. Typed
    BY DEF ActivityInv
  <2>2. CASE Working
    <3>1. Refreshes(Bumped(hb, "idle")) /\ Goes("none")
      BY <2>2 DEF JudgeKeeps
    <3>2. Refreshed("idle")
      BY <2>1, <3>1, RefreshStep
    <3> QED
      BY <2>1, <3>1, <3>2, GoesStep
  <2>3. CASE ~Working
    <3>1. hb' = hb /\ gap' = gap /\ Goes("recheck")
      BY <2>3 DEF JudgeKeeps
    <3> QED
      BY <2>1, <2>3, <3>1, GoesStep
  <2> QED
    BY <2>2, <2>3
<1>2. reap' \in Reaping /\ reap'.live = reap.live
  BY GoesStep DEF ActivityInv, JudgeKeeps
<1>3. /\ hub.up /\ reap.step = "keep"
      /\ UNCHANGED <<claude, log, hooks, hub, tail, sub, due, left, now>>
  BY DEF JudgeKeeps, At, ReapOnly
<1>4. Typed'
  BY <1>1, <1>2, <1>3 DEF ActivityInv, Typed, Refreshed, Bumps, Working
<1>5. Order'
  BY <1>1, <1>2, <1>3, SMT
     DEF ActivityInv, Order, HooksPast, Refreshed, Bumps, LinesPast, HubPast, Places,
         LinesInOrder, LastAt, AgentInTurn, InTurn, PromptLast
<1>6. Hooks'
  BY <1>1, <1>2, <1>3, SMT
     DEF ActivityInv, Hooks, TurnsPast, InTurn, PromptsInOrder, Own, StopsLast,
         ToolsAfterPrompts, Tools, Arrived, StopsAreEnds, EchoInOrder, PromptsGone,
         PromptAfterEnds, EndsBefore
<1>7. HubSane' /\ Fresh' /\ BeatOfHook' /\ Judged'
  BY <1>1, <1>2, <1>3, SMT
     DEF ActivityInv, Heart, HubSane, Refreshed, Bumps, Fresh, BeatOfHook, Judged
<1>8. Asked'
  <2>1. AgentInTurn
    BY DEF ActivityInv, Order
  <2> SUFFICES ASSUME reap'.step = "recheck", claude'.reports
               PROVE  ~InTurn' /\ ~claude'.work
    BY DEF Asked
  <2>2. ~Working /\ claude.reports
    BY <1>1, <1>2, <1>3
  <2>3. ~InTurn /\ ~claude.work
    BY <2>1, <2>2 DEF Working, AgentInTurn
  <2> QED
    BY <1>1, <1>2, <1>3, <2>3 DEF InTurn
<1>9. Turn'
  BY <1>1, <1>2, <1>3, SMT
     DEF ActivityInv, Turn, TurnSeen, BeatOn, BusyOn, Arrived, InTurn, EndsBefore, Own,
         Refreshed, Bumps, ToolsLate, Live, Tools, LineEnds, ToolsThenLate, EchoThenLate,
         StopsStale, BeatOfLate, Unwritten, Over, Rest, StopComes, LineComes, LastAt
<1> QED
  BY <1>4, <1>5, <1>6, <1>7, <1>8, <1>9 DEF ActivityInv, Typed, Order, Hooks, Heart, Turn

(* The heartbeat is read again.                                            *)
LEMMA RecheckSafe ==
    ASSUME ActivityInv, Recheck
    PROVE  ActivityInv'
<1>1. reap' \in Reaping /\ reap'.live = reap.live
  BY GoesStep DEF ActivityInv, Recheck
<1>2. /\ reap.step = "recheck" /\ reap'.step \in {"kill", "none"}
      /\ UNCHANGED <<claude, log, hooks, sub, due, left, now, hb, hub, tail, gap>>
  BY GoesStep DEF ActivityInv, Recheck, At, ReapOnly
<1>3. Typed'
  BY <1>1, <1>2 DEF ActivityInv, Typed
<1>4. Order'
  BY <1>1, <1>2, SMT
     DEF ActivityInv, Order, HooksPast, LinesPast, HubPast, Places, LinesInOrder, LastAt,
         AgentInTurn, InTurn, PromptLast
<1>5. Hooks'
  BY <1>1, <1>2, SMT
     DEF ActivityInv, Hooks, TurnsPast, InTurn, PromptsInOrder, Own, StopsLast,
         ToolsAfterPrompts, Tools, Arrived, StopsAreEnds, EchoInOrder, PromptsGone,
         PromptAfterEnds, EndsBefore
<1>6. Heart'
  BY <1>1, <1>2, SMT DEF ActivityInv, Heart, HubSane, Fresh, BeatOfHook, IsStop, Judged, Asked
<1>7. Turn'
  BY <1>1, <1>2, SMT
     DEF ActivityInv, Turn, TurnSeen, BeatOn, BusyOn, Arrived, InTurn, EndsBefore, Own,
         ToolsLate, Live, Tools, LineEnds, ToolsThenLate, EchoThenLate, StopsStale, BeatOfLate,
         Unwritten, Over, Rest, StopComes, LineComes, LastAt
<1> QED
  BY <1>3, <1>4, <1>5, <1>6, <1>7 DEF ActivityInv, Typed, Order, Hooks, Heart, Turn

(* A pane that is killed is no longer in a turn.                           *)
LEMMA KillSafe ==
    ASSUME ActivityInv, Kill
    PROVE  ActivityInv'
<1>1. reap' \in Reaping /\ reap'.live = reap.live
  BY GoesStep DEF ActivityInv, Kill
<1>2. Beats("none", "hub", 0)
  BY BeatStep DEF Kill, NoBeat, Beat
<1>3. /\ claude' \in Agent /\ claude'.proc = "gone" /\ claude'.turn = claude.turn
      /\ claude'.phase = "off" /\ claude'.tool = FALSE /\ claude'.echo = 0
      /\ claude'.end = (IF InTurn THEN "died" ELSE claude.end) /\ claude'.work = FALSE
      /\ claude'.reports = claude.reports
  BY DEF ActivityInv, Typed, Agent, Kill, Ended, InTurn
<1>4. /\ hub.up /\ reap.step = "kill" /\ reap'.step = "retire"
      /\ UNCHANGED <<log, hooks, hub, sub, tail, due, gap, left, now>>
  BY DEF ActivityInv, Typed, Reaping, Kill, At, Goes
<1>5. Typed'
  BY <1>1, <1>2, <1>3, <1>4 DEF ActivityInv, Typed, Beats
<1>6. HooksPast' /\ LinesPast' /\ Places' /\ LinesInOrder' /\ PromptLast'
  BY <1>1, <1>2, <1>3, <1>4, SMT
     DEF ActivityInv, Order, HooksPast, LinesPast, Places, LinesInOrder, LastAt, PromptLast
<1>7. HubPast'
  BY <1>1, <1>2, <1>3, <1>4, Numbers, SMT DEF ActivityInv, Order, HubPast, Beats
<1>8. AgentInTurn'
  BY <1>1, <1>2, <1>3, <1>4, Numbers, SMT DEF ActivityInv, Order, AgentInTurn, InTurn, Beats
<1>9. Hooks'
  BY <1>1, <1>2, <1>3, <1>4, SMT
     DEF ActivityInv, Hooks, TurnsPast, InTurn, PromptsInOrder, StopsLast, ToolsAfterPrompts,
         Tools, Arrived, StopsAreEnds, EchoInOrder, PromptsGone, PromptAfterEnds
<1>10. Heart'
  BY <1>1, <1>2, <1>3, <1>4, SMT
     DEF ActivityInv, Heart, HubSane, Beats, Fresh, BeatOfHook, IsStop, Judged, Asked
<1>11. Turn'
  BY <1>1, <1>2, <1>3, <1>4, SMT
     DEF ActivityInv, Turn, TurnSeen, Arrived, InTurn, ToolsLate, Live, ToolsThenLate,
         EchoThenLate, StopsStale, BeatOfLate, Over
<1> QED
  BY <1>5, <1>6, <1>7, <1>8, <1>9, <1>10, <1>11
     DEF ActivityInv, Typed, Order, Hooks, Heart, Turn

(* A session that is gone is forgotten.                                    *)
LEMMA RetireSafe ==
    ASSUME ActivityInv, Retire
    PROVE  ActivityInv'
<1>1. reap' \in Reaping /\ reap'.live = reap.live
  BY GoesStep DEF ActivityInv, Retire
<1>2. Acts(TRUE, FALSE, 0, 0, 0, 0, FALSE)
  BY DEF Retire, FreshActor, Acts, Actor
<1>3. /\ tail' \in Reader /\ tail'.told = Len(log) /\ tail'.read = 0
      /\ tail'.passed = tail.passed
  BY Numbers DEF ActivityInv, Retire, Typed, Reader
<1>4. /\ hub.up /\ reap.step = "retire" /\ sub' = "none" /\ reap'.step = "none"
      /\ gap' = (IF claude.proc = "run" \/ hooks # {} THEN gap \cup {"retired"} ELSE gap)
      /\ UNCHANGED <<claude, log, hooks, hb, due, left, now>>
  BY DEF ActivityInv, Typed, Reaping, Retire, At, Goes
<1>5. Typed'
  BY <1>1, <1>2, <1>3, <1>4 DEF ActivityInv, Typed, Acts
<1>6. HooksPast' /\ LinesPast' /\ Places' /\ AgentInTurn' /\ PromptLast'
  BY <1>1, <1>2, <1>3, <1>4, SMT
     DEF ActivityInv, Order, HooksPast, LinesPast, Places, AgentInTurn, InTurn, PromptLast
<1>7. HubPast'
  BY <1>1, <1>2, <1>3, <1>4, Numbers, SMT DEF ActivityInv, Order, HubPast, Acts
<1>8. LinesInOrder'
  BY <1>1, <1>2, <1>3, <1>4, Numbers, SMT DEF ActivityInv, Order, LinesInOrder, LastAt, Acts
<1>9. /\ TurnsPast' /\ PromptsInOrder' /\ StopsLast' /\ ToolsAfterPrompts' /\ StopsAreEnds'
      /\ EchoInOrder' /\ PromptsGone'
  BY <1>1, <1>2, <1>3, <1>4, SMT
     DEF ActivityInv, Hooks, TurnsPast, InTurn, PromptsInOrder, Own, StopsLast,
         ToolsAfterPrompts, Tools, Arrived, StopsAreEnds, EchoInOrder, PromptsGone
<1>10. PromptAfterEnds'
  BY <1>1, <1>2, <1>3, <1>4, Numbers, SMT
     DEF ActivityInv, Hooks, PromptAfterEnds, LastAt, InTurn, Own, EndsBefore, Acts
<1>11. Heart'
  BY <1>1, <1>2, <1>3, <1>4, SMT
     DEF ActivityInv, Heart, HubSane, Acts, Fresh, BeatOfHook, IsStop, Judged, Asked
<1>12. ToolsLate'
  BY <1>1, <1>2, <1>3, <1>4, Zenon
     DEF ActivityInv, Turn, ToolsLate, Live, Tools, Continues, InTurn
<1>13. ToolsThenLate' /\ EchoThenLate'
  BY <1>1, <1>2, <1>3, <1>4, SMT DEF ActivityInv, Turn, ToolsThenLate, Acts, EchoThenLate
<1>14. StopsStale'
  BY <1>1, <1>2, <1>3, <1>4, SMT DEF ActivityInv, Turn, StopsStale, Live, Tools, Continues, Acts
<1>15. BeatOfLate'
  BY <1>1, <1>2, <1>3, <1>4, SMT DEF ActivityInv, Turn, BeatOfLate, Live, Unwritten
<1>16. Over'
  BY <1>1, <1>2, <1>3, <1>4, Zenon DEF ActivityInv, Turn, Over, Live
<1>17. TurnSeen'
  <2>1. AgentInTurn
    BY DEF ActivityInv, Order
  <2>2. Arrived' => claude.proc = "run"
    BY <1>1, <1>2, <1>3, <1>4, <2>1 DEF Arrived, InTurn, AgentInTurn
  <2> QED
    BY <1>1, <1>2, <1>3, <1>4, <2>2 DEF TurnSeen
<1> QED
  BY <1>5, <1>6, <1>7, <1>8, <1>9, <1>10, <1>11, <1>12, <1>13, <1>14, <1>15, <1>16, <1>17
     DEF ActivityInv, Typed, Order, Hooks, Heart, Turn

(* The window after an interruption closes when nothing is on its way.     *)
LEMMA SecondsSafe ==
    ASSUME ActivityInv, Seconds
    PROVE  ActivityInv'
<1>1. /\ claude' \in Agent /\ claude'.proc = claude.proc /\ claude'.turn = claude.turn
      /\ claude'.phase = claude.phase /\ claude'.tool = claude.tool /\ claude'.echo = 0
      /\ claude'.end = claude.end /\ claude'.work = claude.work
      /\ claude'.reports = claude.reports
  BY DEF ActivityInv, Typed, Agent, Seconds
<1>2. /\ hub' \in Actor /\ hub'.up = hub.up /\ hub'.busy = hub.busy /\ hub'.since = hub.since
      /\ hub'.fired = hub.fired /\ hub'.end = hub.end /\ hub'.start = hub.start
      /\ hub'.window = FALSE
  BY DEF ActivityInv, Typed, Actor, Seconds
<1>3. hooks = {} /\ UNCHANGED <<log, hooks, hb, sub, tail, reap, due, gap, left, now>>
  BY DEF Seconds, Settled
<1>4. Typed'
  BY <1>1, <1>2, <1>3 DEF ActivityInv, Typed
<1>5. HooksPast' /\ LinesPast' /\ HubPast' /\ Places' /\ LinesInOrder' /\ PromptLast'
  BY <1>1, <1>2, <1>3, SMT
     DEF ActivityInv, Order, HooksPast, LinesPast, HubPast, Places, LinesInOrder, LastAt,
         PromptLast
<1>6. AgentInTurn'
  BY <1>1, <1>2, <1>3, Numbers, SMT DEF ActivityInv, Order, AgentInTurn, InTurn
<1>7. Hooks'
  BY <1>1, <1>2, <1>3, SMT
     DEF ActivityInv, Hooks, TurnsPast, PromptsInOrder, StopsLast, ToolsAfterPrompts,
         StopsAreEnds, EchoInOrder, PromptsGone, PromptAfterEnds
<1>8. Heart'
  BY <1>1, <1>2, <1>3, SMT
     DEF ActivityInv, Heart, HubSane, Fresh, BeatOfHook, IsStop, Judged, Asked, Unwritten,
         InTurn
<1>9. Turn'
  BY <1>1, <1>2, <1>3, SMT
     DEF ActivityInv, Turn, TurnSeen, BeatOn, BusyOn, Arrived, InTurn, EndsBefore, ToolsLate,
         Live, Tools, ToolsThenLate, EchoThenLate, StopsStale, BeatOfLate, Unwritten, Over,
         Rest, StopComes, LineComes, LastAt
<1> QED
  BY <1>4, <1>5, <1>6, <1>7, <1>8, <1>9 DEF ActivityInv, Typed, Order, Hooks, Heart, Turn

(* A minute ages the heartbeat when nothing is on its way.                 *)
LEMMA MinuteSafe ==
    ASSUME ActivityInv, Minute
    PROVE  ActivityInv'
<1>1. /\ claude' \in Agent /\ claude'.proc = claude.proc /\ claude'.turn = claude.turn
      /\ claude'.phase = claude.phase /\ claude'.tool = claude.tool /\ claude'.echo = 0
      /\ claude'.end = claude.end /\ claude'.work = claude.work
      /\ claude'.reports = claude.reports
  BY DEF ActivityInv, Typed, Agent, Minute
<1>2. /\ hub' \in Actor /\ hub'.up = hub.up /\ hub'.busy = hub.busy /\ hub'.since = hub.since
      /\ hub'.fired = hub.fired /\ hub'.end = hub.end /\ hub'.start = hub.start
      /\ hub'.window = FALSE
  BY DEF ActivityInv, Typed, Actor, Minute
<1>3. hb' \in HeartBeat /\ hb'.state = hb.state /\ hb'.event = hb.event /\ hb'.since = hb.since
  BY TimeoutIsPositive DEF ActivityInv, Typed, HeartBeat, Minute
<1>4. /\ hooks = {} /\ reap.step = "none" /\ due' \in BOOLEAN
      /\ UNCHANGED <<log, hooks, sub, tail, reap, gap, left, now>>
  BY DEF ActivityInv, Typed, Actor, Minute, Settled
<1>5. Typed'
  BY <1>1, <1>2, <1>3, <1>4 DEF ActivityInv, Typed
<1>6. HooksPast' /\ LinesPast' /\ HubPast' /\ Places' /\ LinesInOrder' /\ PromptLast'
  BY <1>1, <1>2, <1>3, <1>4, SMT
     DEF ActivityInv, Order, HooksPast, LinesPast, HubPast, Places, LinesInOrder, LastAt,
         PromptLast
<1>7. AgentInTurn'
  BY <1>1, <1>2, <1>3, <1>4, Numbers, SMT DEF ActivityInv, Order, AgentInTurn, InTurn
<1>8. Hooks'
  BY <1>1, <1>2, <1>3, <1>4, SMT
     DEF ActivityInv, Hooks, TurnsPast, PromptsInOrder, StopsLast, ToolsAfterPrompts,
         StopsAreEnds, EchoInOrder, PromptsGone, PromptAfterEnds
<1>9. Heart'
  BY <1>1, <1>2, <1>3, <1>4, SMT
     DEF ActivityInv, Heart, HubSane, Fresh, BeatOfHook, IsStop, Judged, Asked
<1>10. Turn'
  BY <1>1, <1>2, <1>3, <1>4, SMT
     DEF ActivityInv, Turn, TurnSeen, BeatOn, BusyOn, Arrived, InTurn, EndsBefore, ToolsLate,
         Live, Tools, ToolsThenLate, EchoThenLate, StopsStale, BeatOfLate, Unwritten, Over,
         Rest, StopComes, LineComes, LastAt
<1> QED
  BY <1>5, <1>6, <1>7, <1>8, <1>9, <1>10 DEF ActivityInv, Typed, Order, Hooks, Heart, Turn

-----------------------------------------------------------------------------
(* What a hook tells the hub.                                              *)

(* A hook of a turn that is over takes back what it wrote.                 *)
LEMMA HookRevertsSafe ==
    ASSUME ActivityInv, NEW h \in hooks, HookTells(h), ~IsStop(h), Reverts(h)
    PROVE  ActivityInv'
<1>1. /\ h.wrote /\ InOrder(h) /\ hub.up /\ hooks' = hooks \ {h}
      /\ UNCHANGED <<claude, log, sub, tail, reap, due, left>>
  BY DEF HookTells
<1>2. Typed'
  BY <1>1 DEF ActivityInv, Typed, Reverts, Beats
<1>3. HooksPast' /\ LinesPast' /\ Places' /\ LinesInOrder' /\ AgentInTurn' /\ PromptLast'
  BY <1>1, SMT
     DEF ActivityInv, Order, HooksPast, Reverts, LinesPast, Places, LinesInOrder, LastAt,
         AgentInTurn, InTurn, PromptLast
<1>4. HubPast'
  BY <1>1, Numbers, SMT DEF ActivityInv, Order, HubPast, Reverts, Beats
<1>5. /\ TurnsPast' /\ PromptsInOrder' /\ StopsLast' /\ ToolsAfterPrompts' /\ StopsAreEnds'
      /\ EchoInOrder' /\ PromptAfterEnds'
  BY <1>1, SMT
     DEF ActivityInv, Hooks, TurnsPast, InTurn, Reverts, PromptsInOrder, Own, StopsLast,
         ToolsAfterPrompts, Tools, StopsAreEnds, EchoInOrder, PromptAfterEnds, EndsBefore
<1>6. PromptsGone'
  BY <1>1, PromptsGoneStep
<1>7. HubSane' /\ Fresh' /\ BeatOfHook' /\ Judged'
  BY <1>1, SMT DEF ActivityInv, Heart, HubSane, Reverts, Beats, Fresh, BeatOfHook, Judged
<1>8. Asked'
  BY <1>1, Numbers, SMT DEF ActivityInv, Heart, Asked, Unwritten, InTurn, Fresh, Reverts, Beats
<1>9. ToolsLate' /\ ToolsThenLate' /\ EchoThenLate' /\ StopsStale' /\ BeatOfLate' /\ Over'
  BY <1>1, SMT
     DEF ActivityInv, Turn, ToolsLate, Live, Tools, InTurn, Own, Reverts, Beats, TooLate,
         BeforeTurnEnd, AfterInterrupt, ToolsThenLate, EchoThenLate, StopsStale, BeatOfLate,
         Unwritten, Over, Rest, StopComes, LineComes, LastAt
<1>10. TurnSeen'
  <2> SUFFICES ASSUME Arrived', gap' = {} PROVE FALSE
    BY DEF TurnSeen
  <2>1. Typed /\ TurnSeen /\ PromptAfterEnds
    BY DEF ActivityInv, Turn, Hooks
  <2>2. hub.end \in Nat /\ h.at \in Nat
    BY <2>1, Numbers
  <2>3. CASE IsPrompt(h) /\ Own(h)
    <3>1. hub.end < h.at
      BY <1>1, <2>1, <2>3 DEF Arrived, InTurn, PromptAfterEnds
    <3> QED
      BY <1>1, <2>2, <2>3, <3>1
         DEF Reverts, TooLate, BeforeTurnEnd, AfterInterrupt, Continues, IsPrompt
  <2>4. CASE ~(IsPrompt(h) /\ Own(h))
    <3>1. Arrived /\ gap = {}
      BY <1>1, <2>4 DEF Arrived, InTurn, IsPrompt, Own, Reverts
    <3> QED
      BY <1>1, <2>1, <3>1 DEF TurnSeen, BusyOn, Reverts, TooLate, BeforeTurnEnd, AfterInterrupt
  <2> QED
    BY <2>3, <2>4
<1> QED
  BY <1>2, <1>3, <1>4, <1>5, <1>6, <1>7, <1>8, <1>9, <1>10
     DEF ActivityInv, Typed, Order, Hooks, Heart, Turn

(* A prompt, or a tool of a turn the hub knows of, makes it busy.          *)
LEMMA HookMarksSafe ==
    ASSUME ActivityInv, NEW h \in hooks, HookTells(h), ~IsStop(h), NEW since \in Nat,
           Marks(h, since)
    PROVE  ActivityInv'
<1>1. /\ h.wrote /\ InOrder(h) /\ hub.up /\ hooks' = hooks \ {h}
      /\ UNCHANGED <<claude, log, sub, tail, reap, due, left>>
  BY DEF HookTells
<1>2. Typed'
  BY <1>1 DEF ActivityInv, Typed, Marks, Acts, Beats
<1>3. Places' /\ LinesInOrder' /\ AgentInTurn' /\ PromptLast'
  BY <1>1, SMT
     DEF ActivityInv, Order, Places, Marks, Acts, LinesInOrder, LastAt, AgentInTurn, InTurn,
         PromptLast
<1>4. HooksPast'
  BY <1>1, Numbers, SMT DEF ActivityInv, Order, HooksPast, InOrder, Marks, EndWaits
<1>5. LinesPast'
  BY <1>1, Numbers, SMTT(60) DEF ActivityInv, Order, LinesPast, InOrder, Marks, EndWaits
<1>6. HubPast'
  BY <1>1, Numbers, SMTT(60)
     DEF ActivityInv, Order, HubPast, HooksPast, InOrder, Marks, Acts, Beats, TooLate,
         BeforeTurnEnd, AfterInterrupt
<1>7. /\ TurnsPast' /\ PromptsInOrder' /\ StopsLast' /\ ToolsAfterPrompts' /\ StopsAreEnds'
      /\ EchoInOrder' /\ PromptAfterEnds'
  BY <1>1, SMT
     DEF ActivityInv, Hooks, TurnsPast, InTurn, Marks, Acts, PromptsInOrder, Own, StopsLast,
         ToolsAfterPrompts, Tools, StopsAreEnds, EchoInOrder, PromptAfterEnds, EndsBefore
<1>8. PromptsGone'
  BY <1>1, PromptsGoneStep
<1>9. Fresh' /\ BeatOfHook'
  BY <1>1, SMT DEF ActivityInv, Heart, Fresh, Marks, Beats, BeatOfHook
<1>10. HubSane'
  BY <1>1, Numbers, SMT DEF ActivityInv, Heart, HubSane, Marks, Acts
<1>11. Judged'
  BY <1>1, Numbers, TimeoutIsPositive, SMT DEF ActivityInv, Heart, Judged, Marks, Beats
<1>12. Asked'
  BY <1>1, Numbers, SMT DEF ActivityInv, Heart, Asked, Unwritten, InTurn, Fresh, Marks, Beats
<1>13. ToolsLate' /\ BeatOfLate'
  BY <1>1, SMT DEF ActivityInv, Turn, ToolsLate, Marks, Acts, BeatOfLate
<1>14. TurnSeen'
  <2> SUFFICES ASSUME Arrived', gap' = {} PROVE BeatOn' /\ BusyOn'
    BY DEF TurnSeen
  <2>1. /\ Typed /\ TurnSeen /\ LinesPast /\ PromptsGone /\ StopsAreEnds /\ TurnsPast
        /\ PromptsInOrder /\ HubSane
    BY DEF ActivityInv, Turn, Order, Hooks, Heart
  <2>2. /\ hub'.busy /\ hub'.since = since /\ hb'.since = since /\ hb'.state = "active"
        /\ hub'.fired = IF IsPrompt(h) THEN h.at ELSE hub.fired
    BY <1>1 DEF Marks, Acts, Beats
  <2>3. CASE IsPrompt(h)
    <3>1. since = now + 1
      BY <1>1, <2>3 DEF Marks
    <3>2. EndsBefore(since)
      <4>1. EndsBefore(now + 1)
        BY <2>1, Numbers, SMTT(60) DEF EndsBefore, LinesPast
      <4> QED
        BY <3>1, <4>1
    <3>3. InTurn /\ Own(h)
      BY <1>1, <2>1, <2>3 DEF Arrived, InTurn, PromptsGone, IsPrompt, Own
    <3>4. ASSUME NEW s \in hooks, IsStop(s) PROVE s.at < h.at
      <4>1. s.turn < h.turn
        BY <2>1, <3>3, <3>4, Numbers DEF StopsAreEnds, TurnsPast, Own
      <4> QED
        BY <2>1, <2>3, <3>4, <4>1 DEF PromptsInOrder
    <3> QED
      BY <1>1, <2>2, <2>3, <3>2, <3>4 DEF BeatOn, BusyOn, EndsBefore, IsStop
  <2>4. CASE ~IsPrompt(h)
    <3>1. Arrived /\ gap = {}
      BY <1>1, <2>4 DEF Arrived, InTurn, IsPrompt, Own, Marks
    <3>2. BusyOn
      BY <1>1, <2>1, <3>1 DEF TurnSeen
    <3>3. since = hub.since
      BY <1>1, <2>1, <2>4, <3>2 DEF Marks, BusyOn, HubSane
    <3> QED
      BY <1>1, <2>2, <2>4, <3>2, <3>3 DEF BeatOn, BusyOn, EndsBefore, IsStop
  <2> QED
    BY <2>3, <2>4
<1>15. ToolsThenLate'
  <2> SUFFICES ASSUME Live', NEW i \in 1 .. Len(log), NEW t \in Tools', LineEnds(i)'
               PROVE  t.at < log[i].at \/ log[i].kind = "interrupted"
    BY <1>1 DEF ToolsThenLate
  <2>1. Live /\ gap' = {} /\ (IsPrompt(h) => ~EndWaits(h))
    BY <1>1 DEF Live, Marks
  <2>2. /\ Typed /\ ToolsLate /\ ToolsThenLate /\ EchoThenLate /\ StopsStale /\ LinesPast
        /\ HubSane
    BY DEF ActivityInv, Turn, Order, Heart
  <2>3. hub'.since = since /\ hub'.fired = (IF IsPrompt(h) THEN h.at ELSE hub.fired)
    BY <1>1 DEF Marks, Acts
  <2>4. ~IsPrompt(h) => hub.busy
    <3>1. ~TooLate(h) /\ hub.up
      BY <1>1 DEF Marks
    <3> QED
      BY <2>1, <3>1, MarksTool
  <2>5. log[i].at <= now /\ log[i].at \in Nat /\ since <= log[i].at /\ now \in Nat
    BY <1>1, <2>2, <2>3, Numbers DEF LinesPast, LineEnds
  <2>6. since = hub.since /\ hub.busy
    BY <1>1, <2>2, <2>4, <2>5 DEF Marks, HubSane
  <2> QED
    BY <1>1, <2>1, <2>2, <2>3, <2>6 DEF ToolsThenLate, LineEnds, Tools
<1>16. EchoThenLate'
  <2> SUFFICES ASSUME Live', claude.echo # 0, NEW i \in 1 .. Len(log), LineEnds(i)'
               PROVE  log[i].kind = "interrupted"
    BY <1>1 DEF EchoThenLate
  <2>1. Live /\ gap' = {} /\ (IsPrompt(h) => ~EndWaits(h))
    BY <1>1 DEF Live, Marks
  <2>2. /\ Typed /\ ToolsLate /\ ToolsThenLate /\ EchoThenLate /\ StopsStale /\ LinesPast
        /\ HubSane
    BY DEF ActivityInv, Turn, Order, Heart
  <2>3. hub'.since = since /\ hub'.fired = (IF IsPrompt(h) THEN h.at ELSE hub.fired)
    BY <1>1 DEF Marks, Acts
  <2>4. ~IsPrompt(h) => hub.busy
    <3>1. ~TooLate(h) /\ hub.up
      BY <1>1 DEF Marks
    <3> QED
      BY <2>1, <3>1, MarksTool
  <2>5. log[i].at <= now /\ log[i].at \in Nat /\ since <= log[i].at /\ now \in Nat
    BY <1>1, <2>2, <2>3, Numbers DEF LinesPast, LineEnds
  <2>6. since = hub.since /\ hub.busy
    BY <1>1, <2>2, <2>4, <2>5 DEF Marks, HubSane
  <2> QED
    BY <1>1, <2>1, <2>2, <2>3, <2>6 DEF EchoThenLate, LineEnds
<1>17. StopsStale'
  <2> SUFFICES ASSUME Live', NEW s \in hooks', IsStop(s)
               PROVE  /\ \A t \in Tools' : s.at < hub'.fired \/ t.turn = s.turn
                      /\ claude'.echo # 0 => s.at < hub'.fired
    BY DEF StopsStale, IsStop
  <2>1. Live /\ gap' = {} /\ (IsPrompt(h) => ~EndWaits(h))
    BY <1>1 DEF Live, Marks
  <2>2. /\ Typed /\ ToolsLate /\ ToolsThenLate /\ EchoThenLate /\ StopsStale /\ LinesPast
        /\ HubSane
    BY DEF ActivityInv, Turn, Order, Heart
  <2>3. hub'.since = since /\ hub'.fired = (IF IsPrompt(h) THEN h.at ELSE hub.fired)
    BY <1>1 DEF Marks, Acts
  <2>4. ~IsPrompt(h) => hub.busy
    <3>1. ~TooLate(h) /\ hub.up
      BY <1>1 DEF Marks
    <3> QED
      BY <2>1, <3>1, MarksTool
  <2>5. CASE ~IsPrompt(h)
    BY <1>1, <2>1, <2>2, <2>3, <2>4, <2>5 DEF StopsStale, Tools
  <2>6. CASE IsPrompt(h)
    <3>1. PromptsInOrder /\ ToolsAfterPrompts /\ StopsLast /\ EchoInOrder
      BY DEF ActivityInv, Hooks
    <3>2. s \in hooks /\ s.turn \in Nat /\ h.turn \in Nat /\ claude.echo \in Nat
      BY <1>1, <2>2, Numbers
    <3>3. s.turn < h.turn => s.at < h.at
      BY <2>6, <3>1, <3>2 DEF PromptsInOrder
    <3>4. ASSUME NEW t \in Tools' PROVE s.at < h.at
      <4>1. t \in Tools /\ t \in hooks /\ t.turn \in Nat
        BY <1>1, <2>2, Numbers DEF Tools
      <4>2. t.turn < h.turn /\ s.turn <= t.turn
        BY <2>6, <3>1, <3>2, <4>1 DEF ToolsAfterPrompts, StopsLast
      <4> QED
        BY <3>2, <3>3, <4>1, <4>2
    <3>5. claude.echo # 0 => s.at < h.at
      BY <2>6, <3>1, <3>2, <3>3 DEF EchoInOrder
    <3> QED
      BY <1>1, <2>3, <2>6, <3>4, <3>5
  <2> QED
    BY <2>5, <2>6
<1>18. Over'
  <2> SUFFICES ASSUME Live', ~InTurn'
               PROVE  \/ Rest'
                      \/ claude'.end = "stop" /\ StopComes'
                      \/ claude'.end \in {"interrupted", "error"} /\ LineComes'
    BY DEF Over
  <2>1. Live /\ gap' = {} /\ (IsPrompt(h) => ~EndWaits(h))
    BY <1>1 DEF Live, Marks
  <2>2. /\ Typed /\ ToolsLate /\ ToolsThenLate /\ EchoThenLate /\ StopsStale /\ LinesPast
        /\ HubSane
    BY DEF ActivityInv, Turn, Order, Heart
  <2>3. hub'.since = since /\ hub'.fired = (IF IsPrompt(h) THEN h.at ELSE hub.fired)
    BY <1>1 DEF Marks, Acts
  <2>4. ~IsPrompt(h) => hub.busy
    <3>1. ~TooLate(h) /\ hub.up
      BY <1>1 DEF Marks
    <3> QED
      BY <2>1, <3>1, MarksTool
  <2>5. ~InTurn /\ Over
    BY <1>1 DEF InTurn, ActivityInv, Turn
  <2>6. CASE claude.end = "stop" /\ StopComes
    <3>1. StopComes'
      BY <1>1, <2>3, <2>6, StopComesStep
    <3> QED
      BY <1>1, <2>6, <3>1
  <2>7. CASE claude.end \in {"interrupted", "error"} /\ LineComes
    <3>1. /\ LastAt' = LastAt /\ LastAt = log[Len(log)].at /\ LastAt \in Nat
          /\ log # <<>> /\ log[Len(log)].kind # "prompt" /\ Len(log) \in 1 .. Len(log)
      BY <1>1, <2>2, <2>7, Numbers, SMTT(60) DEF LastAt, LineComes
    <3>2. ~IsPrompt(h)
      <4> SUFFICES ASSUME IsPrompt(h) PROVE FALSE
        OBVIOUS
      <4>1. h.at < LastAt
        BY <2>7 DEF LineComes
      <4>2. tail.told = Len(log)
        BY <2>1, <2>2, <3>1, <4>1, Numbers, SMTT(60) DEF EndWaits, Places, ActivityInv, Order
      <4>3. ~hub.busy /\ hub.end = LastAt /\ hub.start <= hub.end
        BY <1>1, <2>7, <4>2, Numbers DEF LineComes, ActivityInv, Order, LinesInOrder
      <4>4. BeforeTurnEnd(h)
        BY <2>2, <4>1, <4>3, Numbers DEF BeforeTurnEnd
      <4> QED
        BY <1>1, <4>4 DEF Marks, TooLate
    <3>3. hub.busy /\ since = hub.since
      BY <1>1, <2>2, <2>4, <3>2 DEF Marks, HubSane
    <3>4. hb'.since = since
      BY <1>1 DEF Marks, Beats
    <3>5. hub.since <= LastAt /\ tail.told < Len(log)
      BY <2>7, <3>3 DEF LineComes
    <3>6. LineComes'
      BY <1>1, <2>2, <2>3, <2>7, <3>1, <3>3, <3>4, <3>5, Numbers, SMTT(60) DEF LineComes, IsPrompt
    <3> QED
      BY <1>1, <2>7, <3>6
  <2> QED
    BY <2>1, <2>5, <2>6, <2>7 DEF Over, Rest
<1> QED
  BY <1>2, <1>3, <1>4, <1>5, <1>6, <1>7, <1>8, <1>9, <1>10, <1>11, <1>12, <1>13, <1>14, <1>15,
     <1>16, <1>17, <1>18 DEF ActivityInv, Typed, Order, Hooks, Heart, Turn

(* A Stop older than the last prompt is undone.                            *)
LEMMA HookUndoesSafe ==
    ASSUME ActivityInv, NEW h \in hooks, HookTells(h), IsStop(h), Undoes(h)
    PROVE  ActivityInv'
<1>1. /\ h.wrote /\ InOrder(h) /\ hub.up /\ hooks' = hooks \ {h}
      /\ UNCHANGED <<claude, log, sub, tail, reap, due, left>>
  BY DEF HookTells
<1>2. Typed'
  BY <1>1 DEF ActivityInv, Typed, InOrder, Undoes, Beats, StaleStop
<1>3. Order'
  BY <1>1, SMT
     DEF ActivityInv, Order, HooksPast, Undoes, Beats, LinesPast, HubPast, Places, LinesInOrder,
         LastAt, AgentInTurn, InTurn, PromptLast
<1>4. /\ TurnsPast' /\ PromptsInOrder' /\ StopsLast' /\ ToolsAfterPrompts' /\ StopsAreEnds'
      /\ EchoInOrder' /\ PromptAfterEnds'
  BY <1>1, SMT
     DEF ActivityInv, Hooks, TurnsPast, InTurn, Undoes, PromptsInOrder, Own, StopsLast,
         ToolsAfterPrompts, Tools, StopsAreEnds, EchoInOrder, PromptAfterEnds, EndsBefore
<1>5. PromptsGone'
  BY <1>1, PromptsGoneStep
<1>6. HubSane' /\ Fresh' /\ BeatOfHook'
  BY <1>1, SMT DEF ActivityInv, Heart, HubSane, Undoes, Beats, Fresh, BeatOfHook
<1>7. Judged'
  BY <1>1, Numbers, TimeoutIsPositive, SMT
     DEF ActivityInv, Heart, Judged, InOrder, Undoes, Beats, StaleStop
<1>8. Asked'
  BY <1>1, Numbers, SMT DEF ActivityInv, Heart, Asked, Unwritten, InTurn, Fresh, Undoes, Beats
<1>9. TurnSeen' /\ ToolsLate' /\ ToolsThenLate' /\ EchoThenLate' /\ StopsStale'
  BY <1>1, SMT
     DEF ActivityInv, Turn, TurnSeen, BeatOn, BusyOn, Arrived, InTurn, EndsBefore, IsStop,
         IsPrompt, Own, Undoes, Beats, ToolsLate, Live, Tools, LineEnds, ToolsThenLate,
         EchoThenLate, StopsStale
<1>10. BeatOfLate'
  BY <1>1, Numbers, SMT
     DEF ActivityInv, Turn, Heart, Order, BeatOfLate, HubSane, Undoes, StaleStop
<1>11. Over'
  BY <1>1, Numbers, SMTT(60)
     DEF ActivityInv, Turn, Order, Heart, Hooks, Over, Live, InTurn, Rest, StopComes, LineComes,
         LastAt, AgentInTurn, HubSane, BeatOfHook, Judged, StopsLast, ToolsLate, Tools,
         Continues, IsPrompt, Own, Events, InOrder, Undoes, Beats, StaleStop
<1> QED
  BY <1>2, <1>3, <1>4, <1>5, <1>6, <1>7, <1>8, <1>9, <1>10, <1>11
     DEF ActivityInv, Typed, Order, Hooks, Heart, Turn

(* Any other Stop ends the turn.                                           *)
LEMMA HookEndsTurnSafe ==
    ASSUME ActivityInv, NEW h \in hooks, HookTells(h), IsStop(h), EndsTurn(h)
    PROVE  ActivityInv'
<1>1. /\ h.wrote /\ InOrder(h) /\ hub.up /\ hooks' = hooks \ {h}
      /\ UNCHANGED <<claude, log, sub, tail, reap, due, left>>
  BY DEF HookTells
<1>2. Typed'
  BY <1>1 DEF ActivityInv, Typed, InOrder, EndsTurn, Acts, Beats, StaleStop
<1>3. HooksPast' /\ LinesPast' /\ Places' /\ LinesInOrder' /\ AgentInTurn' /\ PromptLast'
  BY <1>1, SMT
     DEF ActivityInv, Order, HooksPast, EndsTurn, Acts, LinesPast, Places, LinesInOrder, LastAt,
         AgentInTurn, InTurn, PromptLast
<1>4. HubPast'
  BY <1>1, Numbers, SMT DEF ActivityInv, Order, HubPast, EndsTurn, Acts, Beats
<1>5. /\ TurnsPast' /\ PromptsInOrder' /\ StopsLast' /\ ToolsAfterPrompts' /\ StopsAreEnds'
      /\ EchoInOrder' /\ PromptAfterEnds'
  BY <1>1, SMT
     DEF ActivityInv, Hooks, TurnsPast, InTurn, EndsTurn, Acts, PromptsInOrder, Own, StopsLast,
         ToolsAfterPrompts, Tools, StopsAreEnds, EchoInOrder, PromptAfterEnds, EndsBefore
<1>6. PromptsGone'
  BY <1>1, PromptsGoneStep
<1>7. HubSane' /\ Fresh' /\ BeatOfHook' /\ Judged'
  BY <1>1, SMT DEF ActivityInv, Heart, HubSane, EndsTurn, Acts, Beats, Fresh, BeatOfHook, Judged
<1>8. Asked'
  BY <1>1, Numbers, SMT DEF ActivityInv, Heart, Asked, Unwritten, InTurn, Fresh, EndsTurn, Beats
<1>9. TurnSeen' /\ ToolsThenLate' /\ EchoThenLate' /\ StopsStale' /\ BeatOfLate'
  BY <1>1, SMT
     DEF ActivityInv, Turn, TurnSeen, BusyOn, Arrived, InTurn, IsStop, EndsTurn, Acts, Beats,
         StaleStop, ToolsThenLate, EchoThenLate, StopsStale, BeatOfLate
<1>10. ToolsLate'
  BY <1>1, Numbers, SMT
     DEF ActivityInv, Turn, Hooks, Order, Heart, ToolsLate, Live, Tools, Arrived, StopsLast,
         EchoThenLate, StopsStale, LineEnds, HubSane, IsStop, InOrder, EndsTurn, Acts, Beats,
         StaleStop
<1>11. Over'
  <2> SUFFICES ASSUME Live', ~InTurn'
               PROVE  \/ Rest'
                      \/ claude'.end = "stop" /\ StopComes'
                      \/ claude'.end \in {"interrupted", "error"} /\ LineComes'
    BY DEF Over
  <2>1. /\ Live /\ ~InTurn /\ claude' = claude /\ log' = log /\ tail' = tail
        /\ hub'.up = hub.up /\ ~hub'.busy /\ hub'.fired = 0 /\ hub'.end = hub.end
        /\ hb'.state = "idle" /\ hooks' \subseteq hooks
    BY <1>1 DEF EndsTurn, Acts, Beats, Live, InTurn
  <2>2. CASE claude.end = "stop" /\ StopComes
    <3>1. hooks' = {} \/ StopComes'
      BY <1>1, <2>1, <2>2, StopComesStep
    <3>2. claude'.echo = 0 /\ claude'.end = "stop"
      BY <2>1, <2>2 DEF StopComes
    <3>3. hooks' = {} => Rest'
      BY <2>1, <3>2 DEF Rest
    <3> QED
      BY <3>1, <3>2, <3>3
  <2>3. CASE claude.end \in {"interrupted", "error"} /\ LineComes
    <3>1. LastAt' = LastAt
      BY <2>1 DEF LastAt
    <3>2. LineComes'
      BY <2>1, <2>3, <3>1 DEF LineComes, IsPrompt
    <3> QED
      BY <2>1, <2>3, <3>2
  <2>4. ~Rest
    BY DEF Rest
  <2> QED
    BY <2>1, <2>2, <2>3, <2>4 DEF ActivityInv, Turn, Over
<1> QED
  BY <1>2, <1>3, <1>4, <1>5, <1>6, <1>7, <1>8, <1>9, <1>10, <1>11
     DEF ActivityInv, Typed, Order, Hooks, Heart, Turn

(* Nothing changes.                                                        *)
LEMMA StutterSafe ==
    ASSUME ActivityInv, UNCHANGED vars
    PROVE  ActivityInv'
<1>1. Typed'
  BY Numbers, TimeoutIsPositive DEF ActivityInv, Typed, vars
<1>2. HooksPast'
  BY Numbers, SMT DEF ActivityInv, Order, HooksPast, vars
<1>3. LinesPast'
  BY Numbers, SMT DEF ActivityInv, Order, LinesPast, vars
<1>4. HubPast'
  BY Numbers, SMT DEF ActivityInv, Order, HubPast, HooksPast, vars
<1>5. Places'
  BY Numbers, SMT DEF ActivityInv, Order, Places, vars
<1>6. LinesInOrder'
  BY Numbers, SMT DEF ActivityInv, Order, LinesInOrder, LastAt, LinesPast, vars
<1>7. AgentInTurn'
  BY Numbers, SMT DEF ActivityInv, Order, AgentInTurn, InTurn, vars
<1>8. PromptLast'
  BY Numbers, SMT DEF ActivityInv, Order, PromptLast, vars
<1>9. TurnsPast'
  BY Numbers, SMT DEF ActivityInv, Hooks, Order, TurnsPast, AgentInTurn, InTurn, vars
<1>10. PromptsInOrder'
  BY Numbers, SMT DEF ActivityInv, Hooks, Order, PromptsInOrder, HooksPast, vars
<1>11. StopsLast'
  BY Numbers, SMT DEF ActivityInv, Hooks, Order, StopsLast, HooksPast, TurnsPast, vars
<1>12. ToolsAfterPrompts'
  BY Numbers, SMT DEF ActivityInv, Hooks, Order, ToolsAfterPrompts, Tools, vars
<1>13. StopsAreEnds'
  BY Numbers, SMT DEF ActivityInv, Hooks, StopsAreEnds, InTurn, Own, vars
<1>14. EchoInOrder'
  BY Numbers, SMT DEF ActivityInv, Hooks, Order, EchoInOrder, vars
<1>15. PromptsGone'
  BY Numbers, SMT DEF ActivityInv, Hooks, PromptsGone, Arrived, InTurn, vars
<1>16. PromptAfterEnds'
  BY Numbers, SMT DEF ActivityInv, Hooks, Order, PromptAfterEnds, InTurn, Own, EndsBefore, vars
<1>17. HubSane'
  BY Numbers, SMT DEF ActivityInv, Heart, HubSane, vars
<1>18. Fresh'
  BY Numbers, SMT DEF ActivityInv, Heart, Fresh, vars
<1>19. BeatOfHook'
  BY Numbers, SMT DEF ActivityInv, Heart, BeatOfHook, IsStop, vars
<1>20. Judged'
  BY Numbers, SMT DEF ActivityInv, Heart, Judged, vars
<1>21. Asked'
  BY Numbers, SMT DEF ActivityInv, Heart, Asked, Unwritten, InTurn, vars
<1>22. TurnSeen'
  BY Numbers, SMT
     DEF ActivityInv, Turn, Hooks, Order, Heart, TurnSeen, BeatOn, BusyOn, Arrived, InTurn,
         EndsBefore, vars
<1>23. ToolsLate'
  BY Numbers, SMT DEF ActivityInv, Turn, Hooks, Order, Heart, ToolsLate, Live, Tools, vars
<1>24. ToolsThenLate'
  BY Numbers, SMT
     DEF ActivityInv, Turn, Order, Heart, ToolsThenLate, LineEnds, Live, Tools, Arrived,
         TurnSeen, BusyOn, EndsBefore, vars
<1>25. EchoThenLate'
  BY Numbers, SMT
     DEF ActivityInv, Turn, Order, Heart, EchoThenLate, LineEnds, Live, InTurn, vars
<1>26. StopsStale'
  BY Numbers, SMT
     DEF ActivityInv, Turn, Hooks, Order, Heart, StopsStale, Live, Tools, TurnSeen,
         ToolsAfterPrompts, vars
<1>27. BeatOfLate'
  BY Numbers, SMT DEF ActivityInv, Turn, Heart, Order, BeatOfLate, Live, Unwritten, vars
<1>28. Over'
  BY Numbers, SMT
     DEF ActivityInv, Turn, Order, Heart, Hooks, Over, Live, InTurn, Rest, StopComes, LineComes,
         LastAt, Own, vars
<1> QED
  BY <1>1, <1>2, <1>3, <1>4, <1>5, <1>6, <1>7, <1>8, <1>9, <1>10, <1>11, <1>12, <1>13, <1>14,
     <1>15, <1>16, <1>17, <1>18, <1>19, <1>20, <1>21, <1>22, <1>23, <1>24, <1>25, <1>26, <1>27,
     <1>28 DEF ActivityInv, Typed, Order, Hooks, Heart, Turn
-----------------------------------------------------------------------------
(* Every step.                                                             *)

LEMMA HookTellsSafe ==
    ASSUME ActivityInv, NEW h \in hooks, HookTells(h)
    PROVE  ActivityInv'
<1>1. CASE HookActive(h)
  <2>1. ~IsStop(h)
    BY <1>1 DEF HookActive, IsStop
  <2>2. Reverts(h) \/ \E since \in Nat : Marks(h, since)
    BY <1>1, ActiveStep DEF ActivityInv
  <2> QED
    BY <2>1, <2>2, HookRevertsSafe, HookMarksSafe
<1>2. CASE HookStop(h)
  <2>1. IsStop(h)
    BY <1>2 DEF HookStop, IsStop
  <2>2. Undoes(h) \/ EndsTurn(h)
    BY <1>2, StopStep DEF ActivityInv
  <2> QED
    BY <2>1, <2>2, HookUndoesSafe, HookEndsTurnSafe
<1> QED
  BY <1>1, <1>2 DEF HookTells

(* The invariant holds of a hub that has just been started.                *)
LEMMA ActivityInit ==
    ASSUME Init
    PROVE  ActivityInv
<1>1. Typed
  <2>1. 0 \in 0 .. Timeout
    BY TimeoutIsPositive
  <2>2. left \in Budget
    BY BudgetsAssumption DEF Init
  <2>3. left.reports \in BOOLEAN
    BY <2>2 DEF Budget
  <2>4. log \in Seq(Line)
    BY DEF Init
  <2>5. claude \in Agent /\ reap \in Reaping /\ tail \in Reader
    BY <2>3 DEF Init, Agent, Reaping, Reader
  <2>6. hb \in HeartBeat /\ hub \in Actor
    BY <2>1 DEF Init, NoBeat, HeartBeat, FreshActor, Actor
  <2> QED
    BY <2>2, <2>4, <2>5, <2>6 DEF Init, Typed
<1>2. /\ hooks = {} /\ log = <<>> /\ Len(log) = 0 /\ now = 0 /\ gap = {}
      /\ claude.proc = "run" /\ claude.turn = 0 /\ claude.phase = "off" /\ claude.echo = 0
      /\ claude.tool = FALSE /\ claude.work = FALSE
      /\ hb.state = "none" /\ hb.event = "hub" /\ hb.since = 0 /\ hb.age = 0
      /\ hub.up = TRUE /\ hub.busy = FALSE /\ hub.since = 0 /\ hub.fired = 0
      /\ hub.end = 0 /\ hub.start = 0 /\ sub = "none" /\ reap.step = "none"
      /\ tail.read = 0 /\ tail.passed = 0 /\ tail.told = 0
  BY DEF Init, NoBeat, FreshActor
<1>3. left.turns \in Nat
  BY <1>1 DEF Typed, Budget
<1>4. Order
  BY <1>2, <1>3
     DEF Order, HooksPast, LinesPast, HubPast, Places, LinesInOrder, LastAt, AgentInTurn,
         InTurn, PromptLast
<1>5. Hooks
  BY <1>2
     DEF Hooks, TurnsPast, PromptsInOrder, StopsLast, ToolsAfterPrompts, StopsAreEnds,
         EchoInOrder, PromptsGone, PromptAfterEnds, Tools
<1>6. Heart
  BY <1>2 DEF Heart, HubSane, Fresh, BeatOfHook, Judged, Asked
<1>7. Turn
  BY <1>2
     DEF Turn, TurnSeen, Arrived, InTurn, ToolsLate, Tools, ToolsThenLate, EchoThenLate,
         StopsStale, BeatOfLate, Over, Rest
<1> QED
  BY <1>1, <1>4, <1>5, <1>6, <1>7 DEF ActivityInv

(* No step breaks it.                                                      *)
LEMMA ActivityStep ==
    ASSUME ActivityInv, [Next]_vars
    PROVE  ActivityInv'
<1>1. CASE ClaudeSteps
  BY <1>1, PromptSafe, BeginsSafe, UsesToolSafe, ToolEndsSafe, StopsSafe, EchoesSafe,
     WorkEndsSafe, LaunchesSafe, EndsUnstoppedSafe, DiesSafe DEF ClaudeSteps
<1>2. CASE HookSteps
  BY <1>2, HookWritesSafe, HookTellsSafe, HookLostSafe DEF HookSteps
<1>3. CASE EngineSteps
  BY <1>3, SubscribesSafe, ComesToFrontSafe, LeavesSafe DEF EngineSteps
<1>4. CASE TailReads
  BY <1>4, TailReadsSafe
<1>5. CASE HubEnds \/ HubStarts
  BY <1>5, HubEndsSafe, HubStartsSafe
<1>6. CASE ReaperSteps
  BY <1>6, TickSafe, JudgeSafe, JudgeAgentSafe, JudgeKeepsSafe, RecheckSafe, KillSafe,
     RetireSafe DEF ReaperSteps
<1>7. CASE Seconds \/ Minute
  BY <1>7, SecondsSafe, MinuteSafe
<1>8. CASE UNCHANGED vars
  BY <1>8, StutterSafe
<1> QED
  BY <1>1, <1>2, <1>3, <1>4, <1>5, <1>6, <1>7, <1>8 DEF Next

(* Every reachable state: what is on its way, and what it can still do.    *)
THEOREM ActivityInvariant == Spec => []ActivityInv
BY ActivityInit, ActivityStep, PTL DEF Spec

-----------------------------------------------------------------------------
(* What follows from it.                                                   *)

(* Every variable has its type, and nothing is newer than the present.     *)
THEOREM ActivityTypes == Spec => []TypeOK
<1>1. ASSUME ActivityInv
      PROVE  TypeOK
  <2>1. Typed /\ Order /\ HubSane /\ TurnsPast
    BY <1>1 DEF ActivityInv, Heart, Hooks
  <2>2. LastAt \in Nat /\ LastAt <= now /\ now \in Nat
    <3>1. log # <<>> => Len(log) \in 1 .. Len(log)
      BY <2>1, Numbers
    <3> QED
      BY <2>1, <3>1, Numbers DEF LastAt, Order, LinesPast
  <2>3. log \in Seq([kind : Lines, at : Stamps])
    <3> DEFINE R == [kind : Lines, at : Stamps]
    <3>1. \A i \in 1 .. Len(log) : log[i] \in Line /\ log[i].at <= now
      BY <2>1 DEF Typed, Order, LinesPast
    <3>2. \A i \in 1 .. Len(log) : log[i] \in R
      BY <2>1, <3>1, Numbers DEF Line, Stamps
    <3>3. log \in [1 .. Len(log) -> Line] /\ Len(log) \in Nat
      BY <2>1 DEF Typed
    <3> HIDE DEF R
    <3>4. log \in [1 .. Len(log) -> R]
      BY <3>2, <3>3
    <3>5. log \in Seq(R)
      BY <3>2, <3>3, <3>4
    <3> QED
      BY <3>5 DEF R
  <2>4. claude \in [proc : {"run", "dead", "gone"}, turn : 0 .. left.turns,
                    phase : {"off", "asked", "on"}, tool : BOOLEAN, echo : 0 .. left.turns,
                    end : {"none", "stop", "interrupted", "error", "died"},
                    work : BOOLEAN, reports : BOOLEAN]
    <3> DEFINE T == 0 .. left.turns
    <3>1. claude.turn \in T /\ claude.echo \in T
      BY <2>1, Numbers, SMTT(60) DEF Typed, Budget, Order, AgentInTurn
    <3>2. claude \in Agent
      BY <2>1 DEF Typed
    <3> HIDE DEF T
    <3>3. claude \in [proc : {"run", "dead", "gone"}, turn : T,
                      phase : {"off", "asked", "on"}, tool : BOOLEAN, echo : T,
                      end : {"none", "stop", "interrupted", "error", "died"},
                      work : BOOLEAN, reports : BOOLEAN]
      BY <3>1, <3>2 DEF Agent
    <3> QED
      BY <3>3 DEF T
  <2>5. hooks \subseteq [event : Events, turn : 1 .. left.turns, at : Stamps, wrote : BOOLEAN]
    <3> DEFINE T == 1 .. left.turns
    <3>1. \A h \in hooks : h \in Hook /\ h.at \in Stamps /\ h.turn \in T
      <4> SUFFICES ASSUME NEW h \in hooks PROVE h \in Hook /\ h.at \in Stamps /\ h.turn \in T
        OBVIOUS
      <4>1. /\ h \in Hook /\ h.at \in Nat /\ h.at <= now
            /\ h.turn \in Nat /\ 1 <= h.turn /\ h.turn <= claude.turn
        BY <2>1, Numbers DEF Typed, Order, HooksPast, TurnsPast
      <4>2. left.turns \in Nat /\ claude.turn \in Nat /\ claude.turn <= left.turns
        BY <2>1, Numbers DEF Typed, Budget, Order, AgentInTurn
      <4> QED
        BY <2>2, <4>1, <4>2 DEF Stamps
    <3> HIDE DEF T
    <3>2. hooks \subseteq [event : Events, turn : T, at : Stamps, wrote : BOOLEAN]
      BY <3>1 DEF Hook
    <3> QED
      BY <3>2 DEF T
  <2>6. hb \in [state : {"none", "active", "idle"}, event : Events \cup {"hub"},
                since : Stamps, age : 0 .. Timeout]
    <3>1. hb.since \in Stamps
      BY <2>1, Numbers DEF Order, HubPast, Stamps
    <3> QED
      BY <2>1, <3>1 DEF Typed, HeartBeat
  <2>7. hub \in [up : BOOLEAN, busy : BOOLEAN, since : Stamps, fired : Stamps, end : Stamps,
                 start : Stamps, window : BOOLEAN]
    <3>1. hub.since \in Stamps /\ hub.fired \in Stamps
      BY <2>1, Numbers DEF Order, HubPast, Stamps
    <3>2. hub.end \in Stamps /\ hub.start \in Stamps
      BY <2>1, <2>2, Numbers DEF Order, LinesInOrder, Stamps
    <3> QED
      BY <2>1, <3>1, <3>2 DEF Typed, Actor
  <2>8. tail \in [read : 0 .. Len(log), passed : 0 .. Len(log), told : 0 .. Len(log)]
    <3>1. /\ tail.read \in 0 .. Len(log) /\ tail.passed \in 0 .. Len(log)
          /\ tail.told \in 0 .. Len(log)
      BY <2>1, Numbers DEF Order, Places
    <3> QED
      BY <2>1, <3>1 DEF Typed, Reader
  <2> QED
    BY <2>1, <2>3, <2>4, <2>5, <2>6, <2>7, <2>8 DEF TypeOK, Typed, HubSane, Reaping
<1> QED
  BY <1>1, ActivityInvariant, PTL

(* When every hook has arrived and the end of the last turn has been read, *)
(* the hub and the heartbeat show a session as busy exactly while a turn   *)
(* runs (applyProcessing, handleClaudeTurnLifecycle, restoreFromHeartbeats *)
(* and revertLateHookHeartbeat, in any order of hooks, lines, restarts).   *)
THEOREM SessionShownRight == Spec => []ShownRight
<1>1. ASSUME ActivityInv
      PROVE  ShownRight
  <2> SUFFICES ASSUME Quiet
               PROVE  (hub.busy <=> InTurn) /\ (hb.state = "active" <=> InTurn)
    BY DEF ShownRight
  <2>1. hub.up /\ hooks = {} /\ claude.proc = "run" /\ gap = {} /\ EndTold
    BY DEF Quiet
  <2>2. CASE InTurn
    <3>1. Arrived
      BY <2>1, <2>2 DEF Arrived
    <3>2. BeatOn /\ BusyOn
      BY <1>1, <2>1, <3>1 DEF ActivityInv, Turn, TurnSeen
    <3> QED
      BY <2>1, <2>2, <3>2 DEF BeatOn, BusyOn
  <2>3. CASE ~InTurn
    <3>1. Live /\ Over /\ BeatOfLate
      BY <1>1, <2>1 DEF Live, ActivityInv, Turn
    <3>2. ~hub.busy
      BY <2>1, <2>3, <3>1 DEF Over, Rest, StopComes, LineComes, EndTold
    <3>3. hb.state # "active"
      BY <2>1, <3>1, <3>2 DEF BeatOfLate, Unwritten
    <3> QED
      BY <2>3, <3>2, <3>3
  <2> QED
    BY <2>2, <2>3
<1> QED
  BY <1>1, ActivityInvariant, PTL

(* Once the prompt of the running turn has arrived, no step makes the hub  *)
(* take the session for idle: no late hook, and no line of an earlier turn *)
(* (StaleStop of applyProcessing, the times of handleClaudeTurnLifecycle). *)
THEOREM RunningTurnKept == Spec => TurnNotDropped
<1>1. ASSUME ActivityInv, ActivityInv', [Next]_vars, Arrived, gap = {}, gap' = {}, hub.busy,
             hub'.up
      PROVE  hub'.busy
  <2>1. Arrived' => hub'.busy
    BY <1>1 DEF ActivityInv, Turn, TurnSeen, BusyOn
  <2>2. InTurn /\ claude.proc = "run" /\ hub.up
    BY <1>1 DEF Arrived, ActivityInv, Order, AgentInTurn, Heart, HubSane
  <2>3. CASE ClaudeSteps \/ UNCHANGED vars
    <3>1. hub' = hub
      BY <2>3
         DEF ClaudeSteps, Prompt, Begins, UsesTool, ToolEnds, Stops, Echoes, WorkEnds, Launches,
             EndsUnstopped, Dies, vars
    <3> QED
      BY <1>1, <3>1
  <2>4. CASE HookSteps
    <3>1. PICK h \in hooks : HookWrites(h) \/ HookTells(h) \/ HookLost(h)
      BY <2>4 DEF HookSteps
    <3>2. CASE HookWrites(h) \/ HookLost(h)
      BY <1>1, <3>2 DEF HookWrites, HookLost
    <3>3. CASE HookTells(h)
      <4>1. Arrived'
        BY <1>1, <3>3 DEF HookTells, Arrived, InTurn
      <4> QED
        BY <2>1, <4>1
    <3> QED
      BY <3>1, <3>2, <3>3
  <2>5. CASE EngineSteps
    BY <1>1, <2>5 DEF EngineSteps, Subscribes, ComesToFront, Leaves
  <2>6. CASE TailReads
    <3>1. Arrived'
      BY <1>1, <2>6 DEF TailReads, Arrived, InTurn
    <3> QED
      BY <2>1, <3>1
  <2>7. CASE HubEnds \/ HubStarts
    <3>1. CASE HubEnds
      <4>1. hub' = [FreshActor EXCEPT !.up = FALSE]
        BY <3>1 DEF HubEnds
      <4> QED
        BY <1>1, <4>1 DEF FreshActor
    <3>2. CASE HubStarts
      BY <2>2, <3>2 DEF HubStarts
    <3> QED
      BY <2>7, <3>1, <3>2
  <2>8. CASE ReaperSteps
    <3>1. CASE Retire
      <4>1. "retired" \in gap'
        BY <2>2, <3>1 DEF Retire
      <4> QED
        BY <1>1, <4>1
    <3>2. CASE Tick \/ Judge \/ JudgeAgent \/ JudgeKeeps \/ Recheck \/ Kill
      <4>1. hub' = hub
        BY <3>2 DEF Tick, Judge, JudgeAgent, JudgeKeeps, Recheck, Kill
      <4> QED
        BY <1>1, <4>1
    <3> QED
      BY <2>8, <3>1, <3>2 DEF ReaperSteps
  <2>9. CASE Seconds \/ Minute
    <3>1. hub' = [hub EXCEPT !.window = FALSE] /\ hub \in Actor
      BY <1>1, <2>9 DEF Seconds, Minute, ActivityInv, Typed
    <3>2. hub'.busy = hub.busy
      BY <3>1 DEF Actor
    <3> QED
      BY <1>1, <3>2
  <2> QED
    BY <1>1, <2>3, <2>4, <2>5, <2>6, <2>7, <2>8, <2>9 DEF Next
<1>2. ASSUME ActivityInv, ActivityInv', [Next]_vars
      PROVE  [Arrived /\ gap = {} /\ gap' = {} /\ hub.busy /\ hub'.up => hub'.busy]_vars
  BY <1>1, <1>2
<1> QED
  BY <1>2, ActivityInvariant, PTL DEF Spec, TurnNotDropped

(* The reaper decides to close a pane only when no turn runs whose hook    *)
(* has written, and no background work that Claude reports (reap, its      *)
(* second look at the heartbeat, and claudeKeepAliveReason).               *)
THEOREM RunningPaneSpared == Spec => RunningSpared
<1>1. ASSUME ActivityInv, Recheck, reap'.step = "kill"
      PROVE  \/ Unwritten
             \/ ~InTurn /\ ~claude.work
             \/ ~claude.reports /\ (InTurn => gap # {})
  <2>1. Typed /\ Fresh /\ Judged /\ Asked /\ TurnSeen
    BY <1>1 DEF ActivityInv, Heart, Turn
  <2>2. reap.step = "recheck"
    BY <1>1 DEF Recheck, At
  <2>3. Unchanged
    <3> SUFFICES ASSUME ~Unchanged PROVE FALSE
      OBVIOUS
    <3>1. Goes("none")
      BY <1>1 DEF Recheck
    <3> QED
      BY <1>1, <2>1, <3>1, GoesStep
  <2>4. Timeout <= hb.age /\ hb.age # 0 /\ hb.state = "idle"
    BY <2>1, <2>2, <2>3, TimeoutIsPositive, Numbers DEF Unchanged, Judged
  <2>5. CASE claude.reports
    BY <2>1, <2>2, <2>4, <2>5 DEF Asked
  <2>6. CASE ~claude.reports
    <3> SUFFICES ASSUME InTurn, gap = {} PROVE Unwritten
      BY <2>6
    <3>1. \A h \in hooks : ~h.wrote
      BY <2>1, <2>4 DEF Fresh
    <3>2. ~Arrived
      BY <2>1, <2>4, <3>1 DEF TurnSeen, BeatOn
    <3> QED
      BY <3>1, <3>2 DEF Arrived, Unwritten
  <2> QED
    BY <2>5, <2>6
<1>2. ASSUME ActivityInv
      PROVE  [Recheck /\ reap'.step = "kill" =>
                 \/ Unwritten
                 \/ ~InTurn /\ ~claude.work
                 \/ ~claude.reports /\ (InTurn => gap # {})]_vars
  BY <1>1, <1>2
<1> QED
  BY <1>2, ActivityInvariant, PTL DEF RunningSpared
=============================================================================
