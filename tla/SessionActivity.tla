-------------------------- MODULE SessionActivity --------------------------
(***************************************************************************)
(* Is Claude at work, and may its pane be closed?  One session, as the hub *)
(* sees it (src/src/hub/sessionHub.ts, src/src/hub/reaper.ts).             *)
(*                                                                         *)
(* Claude fires a hook process when a turn starts, at every tool and when  *)
(* a turn stops; a hook writes the heartbeat file and then tells the hub.  *)
(* A turn that is interrupted or fails fires nothing: the hub learns it    *)
(* from a line of the transcript, which it reads only while somebody has   *)
(* subscribed to the conversation.  Every minute the hub refreshes the     *)
(* heartbeats of sessions in use and then closes the panes whose heartbeat *)
(* is idle and old.                                                        *)
(*                                                                         *)
(* Time.  `now` counts the events whose times the code compares (times in  *)
(* milliseconds, never equal here).  Windows of seconds are over in the    *)
(* action Seconds, the minutes of the heartbeat pass in Minute.            *)
(***************************************************************************)
EXTENDS Integers, Sequences, FiniteSets

CONSTANTS
    Budgets,     \* what may happen in one behaviour (see Budget)
    Timeout      \* minutes after which an idle session is closed

Budget == [turns : Nat,       \* turns of Claude
           tools : Nat,       \* tools it uses
           lost : Nat,        \* hooks that fail to reach a running hub
           crash : Nat,       \* times the hub ends
           sub : Nat,         \* subscriptions
           ends : Nat,        \* times the agent or its pane ends by itself
           work : Nat,        \* turns that leave work running in the background
           reports : BOOLEAN, \* does Claude write a status file?
           minutes : BOOLEAN] \* do minutes pass, or is it all over within one?

ASSUME BudgetsAssumption == Budgets \subseteq Budget
ASSUME TimeoutIsPositive == Timeout \in Nat \ {0}

VARIABLES
    claude,   \* the agent: its pane, its present turn and what it leaves running
    log,      \* the lines of its transcript that begin or end a turn
    hooks,    \* hook processes on their way
    hb,       \* the heartbeat file
    hub,      \* the actor of the session in the hub
    sub,      \* the subscription of an engine
    tail,     \* the shared reader of the transcript
    reap,     \* where the reaper is
    due,      \* a tick of the hub is due
    gap,      \* what happened since the turn began that the hub does not make good
    left,     \* what is left of the budget
    now

vars == <<claude, log, hooks, hb, hub, sub, tail, reap, due, gap, left, now>>

Lines == {"prompt", "interrupted", "error"}
Events == {"UserPromptSubmit", "PreToolUse", "PostToolUse", "Stop"}
Continues(event) == event \in {"PreToolUse", "PostToolUse"}
NoBeat == [state |-> "none", event |-> "hub", since |-> 0, age |-> 0]
FreshActor == [up |-> TRUE, busy |-> FALSE, since |-> 0, fired |-> 0, end |-> 0,
               start |-> 0, window |-> FALSE]
Use(b) == left[b] > 0 /\ left' = [left EXCEPT ![b] = @ - 1]

Later(a, b) == IF a < b THEN b ELSE a
Tick1 == now' = now + 1
InTurn == claude.phase # "off"

Init ==
    /\ left \in Budgets
    /\ claude = [proc |-> "run", turn |-> 0, phase |-> "off", end |-> "none", tool |-> FALSE,
                 echo |-> 0, work |-> FALSE, reports |-> left.reports]
    /\ log = <<>> /\ hooks = {} /\ hb = NoBeat /\ hub = FreshActor /\ sub = "none"
    /\ tail = [read |-> 0, passed |-> 0, told |-> 0]
    /\ reap = [step |-> "none", live |-> FALSE]
    /\ due = FALSE /\ gap = {} /\ now = 0

----------------------------------------------------------------------------
(* Claude (external). *)

Fires(event, turn) ==
    hooks' = hooks \cup {[event |-> event, turn |-> turn, at |-> now + 1, wrote |-> FALSE]}
ToLog(kind) == log' = Append(log, [kind |-> kind, at |-> now + 1])

(* A prompt: its hook is fired, its line is written afterwards. *)
Prompt ==
    /\ claude.proc = "run" /\ ~InTurn /\ claude.turn < left.turns
    /\ claude' = [claude EXCEPT !.phase = "asked", !.turn = @ + 1, !.end = "none"]
    /\ Fires("UserPromptSubmit", claude.turn + 1) /\ Tick1
    /\ gap' = IF hooks = {} /\ claude.echo = 0 THEN {} ELSE gap
    /\ UNCHANGED <<log, hb, hub, sub, tail, reap, due, left>>

Begins ==
    /\ claude.phase = "asked"
    /\ claude' = [claude EXCEPT !.phase = "on"]
    /\ ToLog("prompt") /\ Tick1
    /\ UNCHANGED <<hooks, hb, hub, sub, tail, reap, due, gap, left>>

(* Claude needs the answers of the hooks of its turn before it uses a tool  *)
(* and before the tool runs.                                                *)
Answered == \A h \in hooks : h.turn # claude.turn

UsesTool ==
    /\ claude.phase = "on" /\ ~claude.tool /\ Answered /\ Use("tools")
    /\ claude' = [claude EXCEPT !.tool = TRUE]
    /\ Fires("PreToolUse", claude.turn) /\ Tick1
    /\ UNCHANGED <<log, hb, hub, sub, tail, reap, due, gap>>

ToolEnds ==
    /\ claude.tool /\ Answered
    /\ claude' = [claude EXCEPT !.tool = FALSE]
    /\ Fires("PostToolUse", claude.turn) /\ Tick1
    /\ UNCHANGED <<log, hb, hub, sub, tail, reap, due, gap, left>>

(* A turn lasts longer than a hook of the turn before it is on its way.     *)
Lasts == claude.echo = 0 /\ \A h \in hooks : h.turn = claude.turn

Stops ==
    /\ claude.phase = "on" /\ ~claude.tool /\ Lasts
    /\ \E work \in BOOLEAN :
        /\ IF work THEN Use("work") ELSE UNCHANGED left
        /\ claude' = [claude EXCEPT !.phase = "off", !.end = "stop", !.work = @ \/ work]
    /\ Fires("Stop", claude.turn) /\ Tick1
    /\ UNCHANGED <<log, hb, hub, sub, tail, reap, due, gap>>

(* No hook: an interruption, also of a tool, or an error of the API.        *)
EndsUnstopped(kind) ==
    /\ claude.phase = "on" /\ claude.echo = 0
    /\ claude.tool => kind = "interrupted"
    /\ claude' = [claude EXCEPT !.phase = "off", !.end = kind, !.tool = FALSE,
                                !.echo = IF claude.tool /\ Answered THEN claude.turn ELSE 0]
    /\ ToLog(kind) /\ Tick1
    /\ UNCHANGED <<hooks, hb, hub, sub, tail, reap, due, gap, left>>

(* The tool that was interrupted ends after the line of the interruption.   *)
Echoes ==
    /\ claude.echo # 0
    /\ Fires("PostToolUse", claude.echo) /\ Tick1
    /\ claude' = [claude EXCEPT !.echo = 0]
    /\ UNCHANGED <<log, hb, hub, sub, tail, reap, due, gap, left>>

WorkEnds ==
    /\ claude.work
    /\ claude' = [claude EXCEPT !.work = FALSE]
    /\ UNCHANGED <<log, hooks, hb, hub, sub, tail, reap, due, gap, left, now>>

Ended(proc) == [claude EXCEPT !.proc = proc, !.phase = "off", !.tool = FALSE, !.echo = 0,
                              !.work = FALSE, !.end = IF InTurn THEN "died" ELSE @]

(* The agent dies and leaves its pane, or the pane is closed.               *)
Dies(proc) ==
    /\ claude.proc = "run" /\ Use("ends")
    /\ claude' = Ended(proc)
    /\ UNCHANGED <<log, hooks, hb, hub, sub, tail, reap, due, gap, now>>

(* The session is launched again under its name, perhaps before a tick has  *)
(* cleared away what the turn that died left behind.                        *)
Launches ==
    /\ claude.proc # "run" /\ claude.turn < left.turns
    /\ claude' = [claude EXCEPT !.proc = "run"]
    /\ gap' = IF hub.busy \/ hb.state = "active" \/ hooks # {}
              THEN gap \cup {"relaunched"} ELSE gap
    /\ UNCHANGED <<log, hooks, hb, hub, sub, tail, reap, due, left, now>>

----------------------------------------------------------------------------
(* The heartbeat file. *)

Beat(state, event, since) == [state |-> state, event |-> event, since |-> since, age |-> 0]
Bumped(b, fallback) ==
    [b EXCEPT !.state = IF @ = "none" THEN fallback ELSE @, !.event = "hub", !.age = 0]

(* A refresh between the two steps of a hook hides whose write it was.      *)
Refreshes(b) ==
    /\ hb' = b
    /\ gap' = IF b # hb /\ \E h \in hooks : h.wrote THEN gap \cup {"bumped"} ELSE gap

----------------------------------------------------------------------------
(* Hook processes: the heartbeat first, then the hub, in 60 ms.  The hooks  *)
(* of one turn, and those of prompts, arrive in the order of their firing;  *)
(* a Stop or a tool may come after the next prompt.                         *)

InOrder(h) ==
    \A g \in hooks : g.turn = h.turn \/ {g.event, h.event} = {"UserPromptSubmit"} => g.at >= h.at

HookWrites(h) ==
    /\ ~h.wrote /\ InOrder(h)
    /\ hb' = Beat(IF h.event = "Stop" THEN "idle" ELSE "active", h.event, 0)
    /\ hooks' = (hooks \ {h}) \cup {[h EXCEPT !.wrote = TRUE]}
    /\ UNCHANGED <<claude, log, hub, sub, tail, reap, due, gap, left, now>>

(* The relay is given up, or there is no hub to tell: it will go by the     *)
(* heartbeat, good if it is what this hook of the last turn wrote.          *)
HookLost(h) ==
    /\ h.wrote /\ InOrder(h)
    /\ IF hub.up THEN Use("lost") ELSE UNCHANGED left
    /\ gap' = IF hub.up \/ h.turn # claude.turn \/ h.event # hb.event THEN gap \cup {"lost"} ELSE gap
    /\ hooks' = hooks \ {h}
    /\ UNCHANGED <<claude, log, hb, hub, sub, tail, reap, due, now>>

(* applyProcessing("active"): is the hook of a turn that has ended?         *)
BeforeTurnEnd(h) ==
    /\ ~hub.busy /\ h.at < hub.end
    /\ ~(h.event = "UserPromptSubmit" /\ hub.start > hub.end)
AfterInterrupt(h) == Continues(h.event) /\ ~hub.busy /\ hub.window
(* Mutant: no window after an interruption.                                 *)
TooLateWithoutWindow(h) == BeforeTurnEnd(h)
TooLate(h) == BeforeTurnEnd(h) \/ AfterInterrupt(h)

(* revertLateHookHeartbeat: only what this hook wrote is taken back.        *)
(* Mutant: it is left as the late hook wrote it.                            *)
NotReverted(h) == hb
Reverted(h) ==
    IF hb.state = "active" /\ hb.event = h.event THEN Beat("idle", "hub", 0) ELSE hb

MarksActive(h) ==
    LET since == IF h.event = "UserPromptSubmit" \/ hub.since = 0 THEN now + 1 ELSE hub.since
    IN /\ hub' = [hub EXCEPT !.busy = TRUE, !.since = since,
                             !.fired = IF h.event = "UserPromptSubmit" THEN h.at ELSE @]
       /\ hb' = Beat("active", "hub", since)
       /\ Tick1

(* A turn of its own whose end is in the transcript, not yet read: the line *)
(* will be older than the start the hub now notes, and be refused.          *)
EndWaits(h) ==
    \E i \in 1 .. Len(log) : i > tail.told /\ log[i].kind # "prompt" /\ log[i].at > h.at

HookActive(h) ==
    /\ h.event # "Stop"
    /\ IF TooLate(h)
       THEN hb' = Reverted(h) /\ UNCHANGED <<hub, gap, now>>
       ELSE /\ MarksActive(h)
            /\ gap' = IF h.event = "UserPromptSubmit" /\ EndWaits(h) THEN gap \cup {"early"} ELSE gap

(* applyProcessing("done").                                                 *)
(* Mutant: the start of the turn is kept.                                   *)
DoneKeepsStart == [hub EXCEPT !.busy = FALSE, !.fired = 0]
Done == [hub EXCEPT !.busy = FALSE, !.since = 0, !.fired = 0]
MarksDone(h0) == hub' = h0 /\ hb' = Beat("idle", "hub", 0)
(* Mutant: a Stop is believed whatever turn it is of.                       *)
NeverStale(h) == FALSE
StaleStop(h) == h.at < hub.fired

HookStop(h) ==
    /\ h.event = "Stop" /\ UNCHANGED <<gap, now>>
    /\ IF StaleStop(h)
       THEN /\ hb' = IF hb.state = "idle" /\ hb.event = "Stop" THEN Beat("active", "hub", hub.since) ELSE hb
            /\ UNCHANGED hub
       ELSE MarksDone(Done)

HookTells(h) ==
    /\ h.wrote /\ InOrder(h) /\ hub.up
    /\ HookActive(h) \/ HookStop(h)
    /\ hooks' = hooks \ {h}
    /\ UNCHANGED <<claude, log, sub, tail, reap, due, left>>

----------------------------------------------------------------------------
(* The transcript, read while somebody has subscribed. *)

(* handleClaudeTurnLifecycle.                                               *)
Lifecycle(l) ==
    IF l.kind = "prompt"
    THEN hub' = [hub EXCEPT !.start = Later(@, l.at)] /\ UNCHANGED hb
    ELSE IF ~hub.busy
    THEN hub' = [hub EXCEPT !.end = Later(@, l.at)] /\ UNCHANGED hb
    ELSE IF l.at < hub.since
    THEN UNCHANGED <<hub, hb>>
    ELSE MarksDone([Done EXCEPT !.end = Later(@, l.at), !.window = @ \/ l.kind = "interrupted"])

TailReads ==
    /\ hub.up /\ sub # "none" /\ tail.read < Len(log)
    /\ LET n == tail.read + 1 IN
        /\ tail' = [read |-> n, passed |-> Later(tail.passed, n), told |-> Later(tail.told, n)]
        /\ Lifecycle(log[n])
    /\ UNCHANGED <<claude, log, hooks, sub, reap, due, gap, left, now>>

(* The first subscription starts the reader: from the beginning, or from    *)
(* the time of what the engine has passed on (what it skips tells nothing). *)
Subscribes(kind) ==
    /\ hub.up /\ sub = "none" /\ Use("sub")
    /\ sub' = kind
    /\ \E n \in {0, tail.passed} : tail' = [tail EXCEPT !.read = n]
    /\ Refreshes(IF kind = "front" THEN Bumped(hb, "idle") ELSE hb)
    /\ UNCHANGED <<claude, log, hooks, hub, reap, due, now>>

ComesToFront ==
    /\ hub.up /\ sub = "back"
    /\ sub' = "front" /\ Refreshes(Bumped(hb, "idle"))
    /\ UNCHANGED <<claude, log, hooks, hub, tail, reap, due, left, now>>

Leaves ==
    /\ hub.up /\ sub # "none"
    /\ sub' = "none" /\ Refreshes(IF sub = "front" THEN Bumped(hb, "idle") ELSE hb)
    /\ tail' = [tail EXCEPT !.read = 0]
    /\ UNCHANGED <<claude, log, hooks, hub, reap, due, left, now>>

----------------------------------------------------------------------------
(* The hub ends and is started again. *)

HubEnds ==
    /\ hub.up /\ Use("crash")
    /\ hub' = [FreshActor EXCEPT !.up = FALSE]
    /\ sub' = "none" /\ tail' = [tail EXCEPT !.read = 0]
    /\ reap' = [step |-> "none", live |-> FALSE] /\ due' = FALSE
    /\ UNCHANGED <<claude, log, hooks, hb, gap, now>>

(* findTrailingTurnEndMarkerMs: 0 unless the last line ends a turn.         *)
TrailingEnd ==
    IF log # <<>> /\ log[Len(log)].kind # "prompt" THEN log[Len(log)].at ELSE 0

Restorable == hb.state = "active" /\ hb.age < Timeout
EndedMeanwhile == TrailingEnd # 0 /\ TrailingEnd >= hb.since

(* restoreFromHeartbeats.                                                   *)
HubStarts ==
    /\ ~hub.up
    /\ hub' = IF Restorable /\ ~EndedMeanwhile
              THEN [FreshActor EXCEPT !.busy = TRUE,
                                      !.since = IF hb.since = 0 THEN now + 1 ELSE hb.since]
              ELSE FreshActor
    /\ hb' = IF Restorable /\ EndedMeanwhile THEN Beat("idle", "hub", 0) ELSE hb
    /\ tail' = [tail EXCEPT !.told = Len(log)]
    /\ gap' = IF hooks # {} \/ claude.echo # 0 \/ claude.phase = "asked"
                 \/ (hb.state = "active" /\ ~Restorable)
              THEN gap \cup {"restart"} ELSE gap
    /\ due' = left.minutes /\ Tick1
    /\ UNCHANGED <<claude, log, hooks, sub, reap, left>>

----------------------------------------------------------------------------
(* The minute's tick of the hub, and the reaper.  It waits between its      *)
(* steps, and others go on.                                                 *)

At(step) == hub.up /\ reap.step = step
Goes(step) == reap' = [reap EXCEPT !.step = step]
ReapOnly == UNCHANGED <<claude, log, hooks, sub, due, left, now>>

(* Mutant: every subscription refreshes the heartbeat, not only a front one. *)
TickBumpSubscribed(b) ==
    LET b1 == IF sub # "none" THEN Bumped(b, "idle") ELSE b
    IN IF hub.busy THEN Bumped(b1, "active") ELSE b1
TickBump(b) ==
    LET b1 == IF sub = "front" THEN Bumped(b, "idle") ELSE b
    IN IF hub.busy THEN Bumped(b1, "active") ELSE b1

Tick ==
    /\ At("none") /\ due
    /\ due' = FALSE
    /\ Refreshes(TickBump(hb))
    /\ reap' = [step |-> "judge", live |-> claude.proc # "gone"]
    /\ UNCHANGED <<claude, log, hooks, hub, sub, tail, left, now>>

(* judge: adopt a session without a heartbeat, ask about an active one,     *)
(* leave a young one alone.  A heartbeat without a session is removed.      *)
Judge ==
    /\ At("judge")
    /\ \/ ~reap.live /\ hb.state # "none" /\ hb' = NoBeat /\ Goes("retire")
       \/ ~reap.live /\ hb.state = "none" /\ UNCHANGED hb /\ Goes("none")
       \/ reap.live /\ hb.state = "none" /\ hb' = Beat("idle", "hub", 0) /\ Goes("none")
       \/ reap.live /\ hb.state = "active" /\ UNCHANGED hb /\ Goes("agent")
       \/ /\ reap.live /\ hb.state = "idle" /\ UNCHANGED hb
          /\ Goes(IF hb.age < Timeout THEN "none" ELSE "keep")
    /\ gap' = IF ~reap.live /\ claude.proc = "run" THEN gap \cup {"retired"} ELSE gap
    /\ ReapOnly /\ UNCHANGED <<hub, tail>>

(* agentProcessAlive says yes of a pane that cannot be asked.               *)
JudgeAgent ==
    /\ At("agent")
    /\ IF claude.proc = "dead"
       THEN hb' = Beat("idle", "hub", 0) /\ UNCHANGED gap /\ Goes("retire")
       ELSE Refreshes(Bumped(hb, "active")) /\ Goes("none")
    /\ ReapOnly /\ UNCHANGED <<hub, tail>>

(* claudeKeepAliveReason: Claude's own status file says that it works.      *)
Working == claude.reports /\ claude.proc = "run" /\ (InTurn \/ claude.work)
JudgeKeeps ==
    /\ At("keep")
    /\ IF Working
       THEN Refreshes(Bumped(hb, "idle")) /\ Goes("none")
       ELSE UNCHANGED <<hb, gap>> /\ Goes("recheck")
    /\ ReapOnly /\ UNCHANGED <<hub, tail>>

(* Mutant: the heartbeat is not read again before the kill.                 *)
NotReadAgain == TRUE
Unchanged == hb.state = "none" \/ hb.age >= Timeout
Recheck ==
    /\ At("recheck")
    /\ Goes(IF Unchanged THEN "kill" ELSE "none")
    /\ ReapOnly /\ UNCHANGED <<hb, hub, tail, gap>>

Kill ==
    /\ At("kill")
    /\ claude' = Ended("gone") /\ hb' = NoBeat /\ Goes("retire")
    /\ UNCHANGED <<log, hooks, hub, sub, tail, due, gap, left, now>>

(* retireSession, at the end of the tick: also of a session that has been   *)
(* launched again since.                                                    *)
Retire ==
    /\ At("retire")
    /\ hub' = FreshActor /\ sub' = "none" /\ Goes("none")
    /\ tail' = [tail EXCEPT !.told = Len(log), !.read = 0]
    /\ gap' = IF claude.proc = "run" \/ hooks # {} THEN gap \cup {"retired"} ELSE gap
    /\ UNCHANGED <<claude, log, hooks, hb, due, left, now>>

----------------------------------------------------------------------------
(* Time.  A hook reaches the hub, and a line its reader, within the windows *)
(* of 3 s (LATE_HOOK_MAX_AGE_MS); a tick ends before the next minute.       *)

Settled == hooks = {} /\ (hub.up /\ sub # "none" => tail.read = Len(log))

Seconds ==
    /\ Settled /\ (hub.window \/ claude.echo # 0)
    /\ hub' = [hub EXCEPT !.window = FALSE]
    /\ claude' = [claude EXCEPT !.echo = 0]
    /\ UNCHANGED <<log, hooks, hb, sub, tail, reap, due, gap, left, now>>

Minute ==
    /\ left.minutes /\ Settled /\ reap.step = "none" /\ ~due
    /\ hb.state # "none" \/ claude.proc # "gone"
    /\ hub' = [hub EXCEPT !.window = FALSE]
    /\ claude' = [claude EXCEPT !.echo = 0]
    /\ hb' = [hb EXCEPT !.age = IF hb.state = "none" THEN 0 ELSE IF @ < Timeout THEN @ + 1 ELSE @]
    /\ due' = hub.up
    /\ UNCHANGED <<log, hooks, sub, tail, reap, gap, left, now>>

----------------------------------------------------------------------------
HookSteps == \E h \in hooks : HookWrites(h) \/ HookTells(h) \/ HookLost(h)
ReaperSteps == Tick \/ Judge \/ JudgeAgent \/ JudgeKeeps \/ Recheck \/ Kill \/ Retire
ClaudeSteps ==
    \/ Prompt \/ Begins \/ UsesTool \/ ToolEnds \/ Stops \/ Echoes \/ WorkEnds \/ Launches
    \/ \E kind \in {"interrupted", "error"} : EndsUnstopped(kind)
    \/ \E proc \in {"dead", "gone"} : Dies(proc)
EngineSteps == (\E kind \in {"back", "front"} : Subscribes(kind)) \/ ComesToFront \/ Leaves

Next ==
    \/ ClaudeSteps \/ HookSteps \/ EngineSteps \/ TailReads
    \/ HubEnds \/ HubStarts \/ ReaperSteps \/ Seconds \/ Minute

Spec == Init /\ [][Next]_vars

(* Hook processes and the reader end their work, the hub goes through its   *)
(* ticks, and minutes pass.  Nothing is assumed of Claude, of the phone, or *)
(* of anybody who starts the hub again.                                     *)
FairSpec ==
    /\ Spec
    /\ WF_vars(HookSteps) /\ WF_vars(TailReads)
    /\ WF_vars(ReaperSteps) /\ WF_vars(Minute)

----------------------------------------------------------------------------
Stamps == 0 .. now + 1

(* Every variable has its type, and nothing is newer than the present.      *)
TypeOK ==
    /\ claude \in [proc : {"run", "dead", "gone"}, turn : 0 .. left.turns,
                   phase : {"off", "asked", "on"}, tool : BOOLEAN, echo : 0 .. left.turns,
                   end : {"none", "stop", "interrupted", "error", "died"},
                   work : BOOLEAN, reports : BOOLEAN]
    /\ log \in Seq([kind : Lines, at : Stamps])
    /\ hooks \subseteq [event : Events, turn : 1 .. left.turns, at : Stamps, wrote : BOOLEAN]
    /\ hb \in [state : {"none", "active", "idle"}, event : Events \cup {"hub"},
               since : Stamps, age : 0 .. Timeout]
    /\ hub \in [up : BOOLEAN, busy : BOOLEAN, since : Stamps, fired : Stamps, end : Stamps,
                start : Stamps, window : BOOLEAN]
    /\ hub.busy <=> hub.since # 0
    /\ sub \in {"none", "back", "front"} /\ (~hub.up => sub = "none")
    /\ tail \in [read : 0 .. Len(log), passed : 0 .. Len(log), told : 0 .. Len(log)]
    /\ reap \in [step : {"none", "judge", "agent", "keep", "recheck", "kill", "retire"}, live : BOOLEAN]
    /\ due \in BOOLEAN /\ gap \subseteq {"lost", "early", "restart", "bumped", "retired", "relaunched"}
    /\ now \in Nat

(* The hub was told how the last turn ended: by a hook, or by a line that   *)
(* its reader has read or that was looked at when it started.               *)
EndTold ==
    claude.end \in {"interrupted", "error"} => tail.told = Len(log)
Quiet == hub.up /\ hooks = {} /\ claude.proc = "run" /\ reap.step = "none" /\ gap = {} /\ EndTold

(* When every hook has arrived and the end of the last turn has been read,  *)
(* the hub shows a session as busy exactly while a turn runs, whatever the  *)
(* order of hooks, lines, subscriptions and restarts was (3077, 2931, 501), *)
(* and the heartbeat file says the same: an active one is never left behind *)
(* (it would keep the pane for ever), nor an idle one in a turn.            *)
ShownRight ==
    Quiet =>
        /\ hub.busy <=> InTurn
        /\ claude.turn # 0 => (hb.state = "active" <=> InTurn)

(* Once the hook of the running turn has arrived, no late hook and no line  *)
(* of an earlier turn makes the hub take the session for idle.              *)
Arrived == InTurn /\ \A h \in hooks : ~(h.event = "UserPromptSubmit" /\ h.turn = claude.turn)
TurnNotDropped ==
    [][Arrived /\ gap = {} /\ gap' = {} /\ hub.busy /\ hub'.up => hub'.busy]_vars

(* The reaper decides to close a pane only when no turn runs whose hook has *)
(* written the heartbeat, and no background work that Claude reports: two   *)
(* things must fail, the hub's picture of the turn and Claude's report.     *)
Unwritten == \E h \in hooks : h.event = "UserPromptSubmit" /\ h.turn = claude.turn /\ ~h.wrote
RunningSpared ==
    [][Recheck /\ reap'.step = "kill" =>
        \/ Unwritten
        \/ ~InTurn /\ ~claude.work
        \/ ~claude.reports /\ (InTurn => gap # {})]_vars

(* A session nobody looks at, without turn and background work, is closed   *)
(* in the end: no refresh keeps it for ever.                                *)
Unattended ==
    /\ hub.up /\ claude.proc # "gone" /\ ~InTurn /\ sub # "front" /\ gap = {} /\ EndTold
    /\ ~(claude.work /\ claude.reports)
IdleReaped == left.minutes => []<>~Unattended
============================================================================
