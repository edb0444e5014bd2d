# Verification of tailii-host

tailii-host runs on a computer next to Claude Code and Codex sessions, each in a
terminal pane (tmux or herdr), and connects them to an iPhone app. This directory
holds TLA+ models of its core, configurations that check them with TLC, and
theorems about them that TLAPS proves. Paths below are relative to `src/` of the
TypeScript package (`src/src/`).

## 1. Inventory

| Component | State it keeps | Operations |
|---|---|---|
| Hub, `hub/sessionHub.ts` | one `SessionActor` per session: chat queue, receipts, pending question, send-now waiters, turn state, subscribers, ring buffer; a journal of receipts and a file of questions on disk | messages of clients (`handleClientMessage`), relayed hook events (`handleRelayMessage`), a periodic `tick`, start-up restores, shutdown |
| Hub daemon, `hub/hubDaemon.ts` | the Unix socket, a lock file, the build it runs | election of one daemon, takeover by a newer build, shutdown |
| Hub client, `hub/hubClient.ts` | connection, messages kept while offline | reconnect, hello, replay |
| Reaper, `hub/reaper.ts`, `sessions/heartbeat.ts` | heartbeat files, session records | find dead sessions, kill silent ones, reclaim their data |
| Pane preview pump | last screen per pane, subscribers | capture, compare, send |
| Approval hook and broker, `approval/*` | a request with its deadline; connected hooks, the socket | ask, wait, reconnect, relay, hand over |
| Engine, `engine/*` | one connection to the phone, a checkpoint per conversation, relay of pending items | dispatch of requests to handlers, conversion of hub events |
| Codex, `codex/*` | app-server process and its requests, native turns, rollout offsets | JSON-RPC, submit and delete a turn, tail rollouts |
| Transcript tailers, `chat/*` | file offsets, partial lines, subagents | follow a transcript, emit messages |
| Backends, `backend/*` | the panes (in tmux or herdr) | type text, press keys, capture the screen |
| Session stores, `sessions/*` | session records, prewarmed sessions | list, record, claim, delete |
| Push, `push/*` | device tokens, a log of what was sent | notify of a request the phone cannot see |
| Services and commands | mostly files and external programs | one operation each |

How they interact. Hook processes and the engine reach the hub over Unix sockets,
with one message per line. The phone talks to an engine over SSH or QUIC; the engine
is a client of the hub. The hub types into panes through a backend and watches
transcripts through the tailers. The reaper runs inside the hub's tick and calls back
into it. Sessions are identified by name, and a name is used again after its session
has ended; records on disk survive both the session and the hub.

What is hard. Everything in the hub runs on one thread, so a handler is atomic up to
its next `await`; the hard part is what other handlers do during an `await`: a dialog
comes up while a message is being typed, an answer arrives while Esc is being pressed,
a session ends and comes back between the verdict of the reaper and what follows from
it. The journal is written on nearly every change and each write may fail, in which
case memory must be rolled back. The hub is restarted at any time (updates, crashes)
and must neither lose what it has taken on nor execute it twice. Hooks outlive the
engines and brokers they talk to, each has its own deadline, and they arrive late or
out of order. Text reaches a phone over connections that break, from a ring, a file
and a live reader that must add up to all of it.

What makes each component correct, in short: the hub executes a message once, in order,
in the right session, and answers for it later; a pane has one user at a time; a
question on the screen is the one the hub thinks is pending; every request gets an
answer; a conversation on a phone has no holes; a session is shown as working exactly
while it works, and its pane is closed only when it does not. The daemon: one hub at a
time writes the journal. The broker and hook: a tool runs only on a decision made for
that very request, and a session is not left waiting. The connection to Codex: nobody
waits on one that is gone, and none is left open for nobody.
## 2. Modules

| Module | Models |
|---|---|
| `ChatDelivery` | delivery of chat messages to one session: queue, journal, drain loop, injection, questions and answers as far as they hold the queue, send-now, retirement, restart |
| `MessageLife` | the abstract specification `ChatDelivery` implements: the life of a message, what the disk keeps of it, how often it was submitted |
| `PaneInput` | typing one of these messages into the pane, key by key: the injector of `ChatDelivery` from the inside |
| `CodexTurns` | turns of a Codex thread: queue, journal, the shared connection to the App Server, steer and start, viewers |
| `ApprovalGate` | approval of tool calls: the PreToolUse hooks of one session and the brokers its phones start, with their socket |
| `ConversationStream` | how the rows of a transcript reach a phone: shared reader, ring, replay, backfill, checkpoint of the engine, reconnection |
| `TranscriptTail` | what one reader makes of a transcript that is written meanwhile: pieces of lines, cards, limits, pictures |
| `AgentTree` | the background agents of a conversation: which of them are shown as running, from what is told and from silence |
| `CommandStop` | the stop of a background command: signals, the record that the user stopped it, what is shown of its end |
| `SessionActivity` | whether Claude works: hooks, the heartbeat file, the ends of turns in the transcript, the restart, the reaper |
| `HubElection` | which process is the hub: the lock, the socket, takeover by a new version, the end of a hub |
| `LoginRefresh` | the refresh of the login of Claude by several processes: two locks, the request, rotation of tokens |
| `OrderedIds` | what the hub does to arrays of message ids (`Without`, `Sorted`), used by the two queues |
| `MC...` | instances for TLC, where constants need more than the cfg can say |
| `...Proofs` | theorems about the module of that name; those about `ChatDelivery` are in three parts, the journal and the ledger, the pane, and order, restart and refinement |

The state of the hub appears in several modules, each with the part of `SessionActor` that
belongs together. They meet in few places, which each module has in its own terms:
retirement (`Retire`, `SessionRetires`), the restart, the tick of the reaper
(`ReaperFinds` in the one, `Judge` to `Kill` in the other), the processing flag, and the
injection, whose outcomes (`InjectSucceeds`, `InjectRejected`, `InjectDeferred`,
`InjectFails`) are the verdicts of `PaneInput`. That one hub at a time has the journal is what
`HubElection` shows and `ChatDelivery` assumes.

### ChatDelivery

The state is that of a `SessionActor` (queue, `chatOrder`, the four ledgers of
receipts), the message in the hands of the injector, the pending question with the
answers in flight, the send-now chord, the journal entry on disk, and the session
outside (`alive`, `generation`, the identity on record). A step is one handler, or one
stretch of it between two awaits. `pc` names what the present stretch goes on with; it
is `"idle"` when the event loop can take another event. An injection has three awaits
(`phase`): the probe and Esc on an open question, the typing, and what comes after the
submit key. A backend that fails says whether it failed before or after the submit
key; the model has both.

| Source | Actions |
|---|---|
| `chat_send` | `SendAnswered`, `SendJoins`, `SendRetry`, `SendNew` |
| `pending_message_delete` | `DeleteMissing`, `DeleteQueued` |
| `drainChatQueue` | `DrainCall`, `LoopExit`, `LoopInject`, `LoopWriteFails`, `InjectSucceeds`, `InjectRejected`, `InjectDeferred`, `InjectFails` |
| `sendTextSubmit` of a backend | `ChoiceCancelled`, `BeginTyping`, `PaneSubmit` |
| questions | `QuestionAsked`, `RelayDismiss`, `QuestionClosed`, `AnswerSubmit`, `AnswerProbed`, `AnswerStale`, `AnswerDone`, `AnswerFails`, `RecheckFires` |
| `chat_send_now` | `SendNowRequest`, `SendNowWaits`, `SendNowRefused`, `SendNowAnswered`, `SendNowBegins`, `SendNowDone` |
| the session's end | `SessionKilled`, `SessionDies`, `EngineRetires`, `ReaperFinds`, `ReaperRetires`, `RetireLost` |
| launch | `SessionLaunched`, `SessionRerecorded` |
| the hub process | `TickSaves`, `Shutdown`, `Stop`, `Crash`, `RestoreReceipts`, `RestoreDiscards` |

### MessageLife and the refinement

`MessageLife` forgets queue, order, waiters, questions and handlers. A message is
`waiting`, in the injector (`taken`, `typing`, `typed`) or settled (`unsure`,
`delivered`, `deleted`), and the disk has a record of it in which whatever is in the
injector counts as `unsure`. It promises a journal that is written ahead: a user's
change is in effect when the disk has it (`Accept`, `Delete`, `Retry`), the disk calls a
message unsure before the first key (`Take`), only what comes out of the injector may
be recorded later (`Settle`), and a new process knows what the disk has (`Restart`).

`ChatDelivery!Life` maps to it: `kept` is read off the journal, `life` off the ledgers and the
phase of the injector while a hub is up, and off the journal while none is. `LifeKept` is
`Life!Spec`, checked by `ChatJournal` and proved (section 4): a step of the hub (a write with its rollback, a
crash, a restore, a retirement) is for every message a step of its life or none.

### CodexTurns

A message for Codex goes from the queue of the hub through `startTurn` of the
`CodexNativeTurnController` to the App Server. The hub has one connection per thread,
shared with those who watch the conversation; opening it takes several requests, during
which notifications are kept back, and a call on behalf of an actor may outlive it. A
step is one stretch between two awaits; `pc` says which stretch is due and `Event` that the
event loop takes the next event. `call[g]` is the `startTurn` of the g-th actor of the name,
`open` and `opening` the thread, `conns`, `wire` and `inbox` the sockets, with order kept
per connection.

| Source | Actions |
|---|---|
| `codex_turn_submit` and its retry | `SubmitKnown`, `SubmitPending`, `SubmitNew`, `Retry` |
| `deletePendingCodexTurn`, `drainCodexQueue` | `Delete`, `Drain` |
| `threadFor`, `openThreadAttempt`, `openThread` | `SubWakes`, `CallWakes`, `Resume`, `ReadHistory`, `HistoryTimesOut`, `OpenSet`, `Flush`, `Opened`, `OpenFails` |
| `startTurn` (start, steer, a refused steer, timeouts) | `ReadAnswered`, `Accepted`, `SteerRefused`, `Refused`, `RequestTimesOut` |
| `handleNotification`, `reconcileCompletedTurn`, `onDisconnect`, `degradeToTranscript` | `ReceiveReply`, `ReceiveNotification`, `Reconcile`, `Disconnect`, `ConnCloses` |
| `subscribe`, `unsubscribe`, `retireSession`, `tick`, shutdown, restore | `Watch`, `Leave`, `Retire`, `Tick`, `OtherSaves`, `Shutdown`, `Exit`, `Crash`, `Restart` |
| outside (the App Server and its other clients) | `SrvHandles`, `SrvCompletes`, `SrvOtherStarts` |

The App Server is another program. Taken from how the code uses it: a connection keeps
its order, `turn/start` names its turn, `turn/steer` names the turn it expects and is
refused otherwise, other clients start turns of the same thread, and `turn/completed` can
get lost. Goals, interrupts, sub-agents, questions and approvals, which travel on the
same connection, are left out, and so are the caps of receipts.

### ApprovalGate

Every hook and every broker is a process, so any step of one may come between two steps
of another. A hook (`hook.ts`) goes from `connecting` to `waiting` for a decision, or
to `publishing` its request through the engine and `retrying`, and ends through
`clearing`. A broker (`broker.ts`) goes from `looking` (the inode of the socket file)
through `probing` (does anybody listen?) to `handing` over, `waiting`, or `refused` and
`unlinking` a dead file, and `binding` until it is `listening`. The refused probe, the second
look at the inode and the removal of the file are three system calls and three steps. The inode of a file is the broker that
bound it, which leaves out the reuse of inode numbers. Lines on their way are `asked`,
`offers`, `toBroker` and `inbox`.

| Source | Actions |
|---|---|
| `runHookCore`, `sendRequestAndReflect`, `publishPendingAndAwaitReconnect`, `retryConnect` | `HookStart`, `HookConnects`, `HookUnreachable`, `HookPublishes`, `HookGivesUp`, `HookClears`, `DeadlinePasses` |
| `waitForDecision`, `evaluateLine` | `HookDecides`, `HookSkips`, `HookDisconnected`, `HookTimesOut` |
| `runActiveBroker` until it listens, `isSocketAlive`, `requestHandoff` | `BrokerStarts`, `Looks`, `ProbeFindsAlive`, `ProbeFindsDead`, `Compares`, `LooksAgain`, `Unlinks`, `Binds` |
| the handlers of its connections and of standard input, `finishBroker` | `Accepts`, `RelaysRequest`, `Broadcasts`, `ClientGone`, `VisitorGone`, `HandoffServed`, `InputEnds` |
| outside | `Taps` and `ChannelEnds` (the phone), `BrokerKilled`, `VersionInstalled` |

The phone is not in this repository. It shows each request that reaches it and sends
each decision once, on a channel whose broker has said hello. Images, the push of a
request and brokers without a socket are left out; hooks of other events are in
`SessionActivity`.

### ConversationStream

A row is its index in the transcript. The hub reads the transcript with one shared reader
per conversation, numbers what it reads, keeps the last `RingLimit` events and sends each
to the engines that have subscribed. A subscription names the last number the engine
passed on, or a time; the hub answers from the ring when it still can, and otherwise with
a backfill, a reader for that engine alone. An engine keeps a checkpoint (number, time),
drops pictures of conversations in the background, and asks again after a reconnection.

| Source | Actions |
|---|---|
| `runTail`, `startSharedTail`, its retry | `SharedReads`, `SharedRetries` |
| `startBackfill` | `BackfillReads`, `BackfillStalls` |
| `subscribe`, `unsubscribe`, `unregisterClient`, `hello` | `HubTakes`, `ConnectionLost` |
| `retireSession`, `applyProcessing`, the process | `SessionRetires`, `ProcessingChanges`, `HubRestarts` |
| `engine.ts`: `onMessage`, `onReconnect`, background subscriptions and hints | `EngineTakes`, `Connects`, `Unwatches`, `HintsSettle` |
| handlers `session_reattach`, `chat_send`, `session_idle_hint` | `PhoneOpens`, `PhoneSends`, `PhoneLeaves` |
| outside | `HostWrites`, `TimePasses`, `SessionStored`, `ChannelLost` |

The phone keeps the rows it has, sets those between the begin and the done marker aside until
done, and opens a conversation again from the time of the last done marker it saw. A
message that is no conversation event may overtake those that are
(`createPrioritizedHubSocketWriter`).

Timing. Checkpoints in time are safe because the code goes back some seconds from them;
the model keeps one tick (`Overlap`, `Rewind`) and lets the host write only when a reader at
the end has read and events are not on their way (`Prompt`): readers look every 200 ms.

`gap` records, for each phone, why it may miss a row although all is quiet:

| `gap` | What happens |
|---|---|
| `cut` | the hub restarts or the session is retired during a replay that is not one of everything: the engine goes on from the time of the last row it got (`engine.ts` 984) |
| `floor` | the same while the checkpoint is held back for a picture |
| `unknown` | the hub restarts before anything was passed on |
| `dropped` | events between leaving and opening again are dropped, later ones move the checkpoint past them (`engine.ts` 815) |
| `overtaken` | a retirement overtakes events of its session (`hubDaemon.ts` 331) |
| `ignored` | a subscription meets a backfill of the same client (`sessionHub.ts` 1460) |
| `stalled` | a backfill is given up and a done marker of the ring follows |

Each was allowed alone (`floor`, `overtaken` and `stalled` with four rare events, `stalled`
also with a ring of one): TLC then finds a phone that misses a row.

### SessionActivity

The hub learns of a turn in two ways. Hooks are processes that write the heartbeat file
and then tell the hub, which makes two steps each, with everything in between; they
arrive late, and a Stop may come after the next prompt. A turn that is interrupted or
fails fires no hook, and its end is a line of the transcript, read only while somebody has
subscribed. The hub compares times of both: when a hook was fired, when a line was
written, when a turn was shown as begun. `now` counts the events whose times are
compared. Every minute the tick refreshes the heartbeats of sessions in use and runs the
reaper, which waits between its steps.

| Source | Actions |
|---|---|
| `notifySessionProcessing` (`hook.ts`) | `HookWrites`, `HookTells`, `HookLost` |
| `applyProcessing`, `revertLateHookHeartbeat` | `HookActive`, `HookStop` within `HookTells` |
| `handleClaudeTurnLifecycle` | `TailReads` |
| `subscribe`, `unsubscribe` | `Subscribes`, `ComesToFront`, `Leaves` |
| `restoreFromHeartbeats`, `close` | `HubStarts`, `HubEnds` |
| `tick`, `reaperTick`, `retireSession` | `Tick`, `Judge`, `JudgeAgent`, `JudgeKeeps`, `Recheck`, `Kill`, `Retire` |
| outside | `Prompt`, `Begins`, `UsesTool`, `ToolEnds`, `Stops`, `EndsUnstopped`, `Echoes`, `WorkEnds`, `Dies`, `Launches` (Claude and its user), `Seconds`, `Minute` |

Timing. The windows of the code (`LATE_HOOK_MAX_AGE_MS`, `LATE_HOOK_AFTER_INTERRUPT_MS`, 3 s) are
taken to be long enough for a hook to arrive and a line to be read: `Seconds` and `Minute`
wait for that (`Settled`). Claude waits for its hooks before it uses a tool (`Answered`), a
turn is longer than a hook of the turn before is on its way (`Lasts`), hooks of one turn
and those of prompts arrive in order (`InOrder`), and a tick ends before the next minute.

`gap` records what the hub does not make good, and the properties speak of the time until
then; a prompt that finds nothing on its way empties it:

| `gap` | What happens |
|---|---|
| `lost` | the relay of a hook fails while a hub runs, or while none does and the heartbeat is no longer what this hook wrote |
| `early` | the end of a turn is read before the hook of its prompt has arrived: the hub then notes a start that is later than the line, and refuses it (2961) |
| `restart` | the hub is started while a hook is on its way or the prompt's line is unwritten |
| `bumped` | a refresh between the two writes of a hook changes `event`; a late hook (3067) or a late Stop (3139) is then not recognised, and the heartbeat stays active for ever |
| `retired` | a tick retires or reclaims a session that was launched again meanwhile (1275), or whose last hooks are on their way |
| `relaunched` | the agent died in a turn and was launched again before a tick cleared what it left |

Each reason was allowed alone as well: TLC then violates `ShownRight` or `IdleReaped`
(`relaunched` needs two turns).

Two more limits: an interruption nobody is subscribed to see is unknown until somebody is
(`EndTold`), and hooks that arrive between the restore and the start of the relay socket
(`hubDaemon.ts` 717 to 735) are not seen, while `HubStarts` is one step.

### PaneInput

The hub presses keys and reads the screen. Claude takes the keys in order; dialogs come and
go between any two steps of the hub; the input box may hold a draft of the Mac, the prompt an
interruption put back, or what the hub typed before. `inj` is the injection under way
(`sendTextSubmit`, and the chord of send-now), `own` the text the backend remembers to have typed
and not seen submitted, `Frame` what `classifySubmitFrame` makes of the screen. tmux and herdr are
one module: where they differ, `herdr` says which.

| Source | Actions |
|---|---|
| `sendTextSubmit`, the first look and the question to be closed | `Begins`, `Reads`, `PressesEsc`, `Defers` |
| `clearTypedInput`, `clearInputBox` | `Clears` |
| typing and pasting, with their checks | `Types`, `Checks`, `Fails` |
| `submitTypedText` | `LooksBefore`, `PressesEnter`, `LooksAfter` |
| `sendQueuedNow` | `AsksNow`, `ReadsNow`, `PressesChord` |
| outside | `Opens`, `Closes`, `Outputs`, `Restores`, `TypesDraft`, `TakesKey`, `Restarts` |

A text is one piece, or two for one that is pasted. The Mac and the interruptions keep to no
turn: a draft is begun (`TypesDraft`) and a prompt put back (`Restores`) at any step, also between a
look of the hub and its next key, as `tmux.ts` 2636 and `herdr.ts` 1194 expect. `unseen` names the
texts that got into the box behind a look that way, and those that stood in a box the hub went
on to use without having seen the composer (an unreadable screen, or a dialog after its own
Enter): about those it can promise nothing, and the properties except just them. A put-back prompt
comes into an empty box, and `Restores` behind a look counts as one of `MaxGlitches`.
Left out: a user at the Mac who edits or submits what is in the box, and a Claude that
has stalled (it takes every key before the hub looks again).

### TranscriptTail

The file grows in pieces, and the reader may meet its end inside a line (`ReadsPiece`, `ReadsLine`,
`ReachesEnd` of `runTail`). What a line gives depends on those before it, also on lines in front of
the time the reader starts from, which it interprets and does not pass on (`Interpreted`,
`Passed` of `emitLineAfter`): cards wait for bodies, links and refusals in lists that keep the last
few, a limit that was hit makes the prompt Claude writes itself a note (`ArmedAfter`). A line is
what its record is about and the card or picture it names. The reference (`State`, `All`) reads each
line whole and from the first. `images` is the pump of `chatTailController`.

### AgentTree

Each agent writes a transcript; that it has ended is told in the transcript of its owner, queued when
it ends and delivered when the owner comes to it, and never when the owner ended before. `Reads` takes
the files as they are, `Settles` is one settling of `streamSession` (`Holds` for two lines about one
agent, `Status` as in `resolveAgentStatus`, `Orphaned` and `Swept` for what is concluded from silence),
`Probes` the look for the session. Claude and its agents are external (`Starts`, `Works`, `Ends`,
`Delivers`, `Resumes`, `StoppedByTool`, `StoppedByUser`, `SessionDies`).

`now` counts moments of about a minute; the reader looks twenty times a second, so it has read
everything, and settled, before a moment passes (`UpToDate` in `Passes`); `Partial` allows rounds that
fall between two writes. An end is queued only when the one before was delivered. Background commands as
owners, and agents that run in the same turn as their owner, are left out.

### CommandStop

The stop of a background command runs through `look` (who holds the output file?), `signal`, `term` and
`kill` (`Looks`, `NotRunning`, `Terminates`, `Stopped`, `Kills`, `Fails`); `record` and `disk` say when the
user stopped the command (`Notes`, `Forgets`, `Loaded`); the reader shows its end (`Reads`, `Status`,
`Concluded`), and forgets everything when the conversation is closed or the hub ends (`Opens`, `Closes`,
`Crashes`). Children of the shell may hold the output file without it, ignore SIGTERM or outlive it.

The shell leads its process group. Process numbers used again, writes of the record that fail, and the
limits of the record (500 entries, 30 days) are left out. A hub that goes down in the middle of a stop
leaves the note there (`RunningShown` excepts that).

### HubElection

A system call is one step. Clients start a process when they find no hub or an old one (`Ensure`,
`Reconnect` of `ensureHubDaemon`); it looks, takes the lock (`Take` to `Confirm`, `acquireHubLock`) and
the socket (`ProbeAgain` to `Listen`, `startHubSocket`), writes the lock again (`Claim`, `Serve`) and
serves until a signal, a new version or lack of work (`Leave`, `NothingToDo`); it ends with
`CloseSocket`, `SocketClosed`, `Release`, `Unlock`. Any process may be killed at any call (`Crash`), and
process numbers are used again.

`straddle` says whether steps of others come between reading a dead lock and removing it, and while the
winner writes the lock again. Then starts must not overlap (`MayOverlap`): with both, two hubs win
(section 3, disagreements). A start takes far less than the 250 ms between two tries of a client, so
either alone is the rule already.

### LoginRefresh

A refresh is a task: it takes two directories as locks (`Takes`, steals of one that is stale in two steps,
`Steals` and `Remakes`), reads the file again (`Holds`), asks the server (`Replies`, `Breaks`), saves
(`Receives`) or, when its locks were stolen while the machine slept, takes them again first (`Regains`). A
request for the usage tries the token of the keychain and that of the file, and may refresh once
(`Begins`, `Prepared`, `Tries`, `Retries`). The n-th login has the n-th tokens.

A lock is named after the task that made it, which leaves out the reuse of inode numbers. Claude's own
refresh is one of the tasks; its `/login`, the copy in the keychain of what was refreshed, and an access
token that ends within a request are left out.

## 3. Runs

Bounds on counters are constants with names (`MaxCrashes`, `MaxWriteFailures`, ...)
and appear in guards, so that liveness is checked on unpruned behaviours; the exceptions are the
constraints `FewTroubles` of `ChatJournal` and `FewEvents` of `Codex`, which check safety only.

| Run | Instance | Shows |
|---|---|---|
| `ChatJournal` | 2 messages, any three of: 1 crash, 1 failed write, 1 retry of each message, a second session, 1 new record of a session | no message is executed twice (`AtMostOnce`), or after the user was told of its deletion while the session and its receipts are kept (`ErasedNeverTyped`); queue, order, maps and journal are one state (`QueueMatchesMaps`, `QueueOrdered`, `Durable`); a restart gives a session nothing that was sent to an earlier one of its name (`RestoredBelongs`); every step is one of `MessageLife` (`LifeKept`) |
| `ChatLive` | 1 message, a dialog, a question of a hook, send-now, 1 crash, an unannounced end | no injection meets the chord, or the answer to the question it closes with Esc, and nobody is forgotten (`PaneSound`; other answers are not covered, see below); injections wait for questions and answers, an old question never overwrites a newer one (`PaneSteps`); the queue moves (`QueueMoves`) |
| `Codex` | 2 messages, 2 turns, 2 connections, 2 viewings, up to 3 more messages in one piece with a reply, any three of: an entry, a viewing, a fault, a crash, a failed write (an end of the session counts for two) | a message runs once per entry, and what is called delivered has run (`RunsMatchReceipts`); in order (`InOrder`); no socket is forgotten, a thread nobody needs is closed (`ConnectionsOwned`); busy only as long as somebody will tell of the end, unless a reply came in one piece with the start of a later turn than its own (`NeverStuckBusy`) |
| `Approval` | 1 call and 2 brokers of 2 devices, with a kill or a new version; 1 call, 1 broker and a lost line; or 2 calls and 1 broker with room for one hook (`MCBounds`) | a call is allowed only by its own decision (`GateSound`); a broker that listens owns its socket (`SocketReachable`) and is not closed by another device (`ListenerKept`); a hook answers after its deadline, and a call over a later connection when earlier ones are lost (`Served`) |
| `StreamComplete` | 1 engine and phone, 2 rows of which one is a picture, a ring of 2, 3 rare events, channels of 2 | readers run exactly for those subscribed (`ReadersOwned`); when all is quiet the phone has every row (`NothingMissing`) |
| `Tail` | 3 lines of any kind in 3 pieces each (half a record, the whole record without the line end, the line end), a reader from the first line or behind it that may meet the end of the file after any piece, lists of 1 | what is passed on is what the lines mean (`RowsTrue`); a prompt becomes a note only after a limit, and then always (`NotesRight`); a picture that was attached is not shown again (`AttachedOnce`) |
| `Agent` | an agent with an agent of its own that ends with an error, 4 moments, 2 notifications | an agent that works is not shown as ended (`WorkingShown`); when all have rested for the long grace, one is shown running only for an end that is still to come, its own or that of the agent above or below it (`NothingStuck`) |
| `Stop` | a command with a child, 2 stops one after the other, 4 moments, 1 crash | what the user stopped is not shown as failed, nor a failure as a stop (`FailuresTold`); every end is shown (`EndShown`) |
| `Activity` | 2 turns within a minute with two of a tool, a restart and a subscription; or 1 turn with background work, minutes, a restart and a subscription (`MCBudgets`) | hub and heartbeat say that a turn runs exactly while one does (`ShownRight`); no late hook and no old line ends a running turn (`TurnNotDropped`); the reaper does not decide to close a pane at work (`RunningSpared`) and closes an unused one in the end (`IdleReaped`) |
| `Hub` | 3 processes, 2 kills, 2 versions, 2 overlapping starts or none and interleaving at every call | one hub at a time injects (`OneServes`), it can be reached (`ServerReachable`), and again and again it is one of the version installed last (`Renewed`) |
| `Login` | a request for the usage and 2 other refreshes, 2 refreshed logins, 1 retry for the locks, 1 sleep of the machine, 1 failed request, locks of a crash or none | a login the server has given out is not lost to an older one (`LoginKept`), no refresh token is used twice unless a lock was stolen (`UsedOnce`) |
| `Pane` | 2 messages, one pasted and sent past a question, one with invisible characters, a draft begun at any step, both backends, 1 unreadable screen, failed key, restart or prompt put back behind a look | a prompt is one message and nothing else (`Apart`), submitted once per try (`OncePerTry`); what was typed is not lost without a word (`NothingLost`); what is given back as not delivered is not with Claude and cannot get there, also when a paste broke off (`GivenBackWhole`); the first three except what the hub could not see in the box |

Why the bounds are enough. Two messages are enough for order, overtaking and rollback,
since the code compares messages only with the head of the queue. Two generations are
enough for "this session or an earlier one of its name". One crash at any step and one failed
write at any write meet in every order, with a third trouble; with all at once `ChatJournal` has 3 million
states, and was checked as well. Messages are symmetric where no liveness
is checked. In `CodexTurns` two connections are what one more than the open one needs, two viewings are
two viewers that overlap or one that comes back, and three events are what its hazards need: an
entry, what disturbs it, and a second one or a retry. In the gate a second hook matters only
for the broadcast of decisions and the limit of connections, which is 1 instead of 16. In the stream a
row is before or after a checkpoint, in the ring or behind it, so two rows and a ring of two reach
every comparison; `MaxRare` counts connections that break, restarts, retirements, openings and
backfills given up, three in all and in any order, and none once a hole is possible.
A line of a transcript depends on the state the lines before it left, which two lines bring about; lists of
one are full with one. Of agents, one that owns and one that is owned are every relation the code asks
for; four moments are one more than the longest grace. `Hub` has one process more than the two that
compete, `Login` two tasks beside the one that sleeps. `Activity` needs two turns, the one a hook is late of
and the next; it was also run with tool, restart and subscription at once (3.9 million states), with two
tools (15 million) and with two subscriptions (12 million). `Agent` was also run with either agent ending
in either way (7.5 million), `Approval` with a kill and a lost line together. `Pane` was
also run with each message alone, two tries and two troubles.

Fairness. `FairSpec` of `ChatDelivery` (`ChatLive`): weak fairness of the drain and the send-now call, which
the event loop runs by itself; strong fairness of what ends in the pane (`PaneSettles`), because the
backend's commands have time limits, of a question that is closed, of the stop, which waits
with a deadline, and weak fairness of the restart by the next client that needs the hub. Users and
sessions need not do anything. `QueueMoves` is claimed for runs in which the hub eventually stays up.

`FairSpec` of `ApprovalGate` (`Approval`): `FairProcesses`, the event
loops of hooks and brokers serve every event, and a start goes on; `FairUser`, the user
answers what the phone shows. Time limits, kills, the end of a channel and the start of
a broker are not fair. `RequestServed` is claimed for calls whose deadline does not
pass and for behaviours in which one broker in the end stays connected.

`FairSpec` of `SessionActivity` (`Activity`): hook processes end, the reader reads, the
tick and the reaper go on, and minutes pass. Nothing is assumed of Claude, of the phone
or of anybody who starts the hub again. `IdleReaped` says that a session is not for ever
unattended (nobody looks, no turn, no reported work, no `gap`).

`FairSpec` of `HubElection` (`Hub`): processes run, and a client that cannot connect tries again (the
reconnection of `hubClient.ts`). Kills, versions and `NothingToDo` are not fair.

`FairSpec` of `CommandStop` (`Stop`): time passes, the hub handles its requests, the conversation is opened
again, and the question who holds the output file, which is asked in every round and may go unanswered, is
answered if it is asked again and again (strong).

### Disagreements between code and comments

These are known from the models. None of them is kept as a run: the first column of the table says where
it is, the last what TLC shows when the instance or the formula is changed as told.

| Where | What | To see it |
|---|---|---|
| `sessionHub.ts` 1458 | pictures an engine could not pass on in the background are to be made up for when the conversation comes to the front; while the backfill of the background subscription runs, the subscription is ignored (1460) | `StreamComplete`, `RingLimit = 1`: `PicturesRecovered` |
| `hubDaemon.ts` 711 | whatever the race, one process is to be the hub; when two straddle the removal of a dead lock (144) or socket (367), both win | `Hub`, `MayOverlap` without `~straddle`: `OneServes`, `ServerReachable` |
| `chatTailController.ts` 198 | a picture the user attached is not to be shown again when Claude reads it; it is by a reader that starts behind the message (204) | `Tail`, `1` for `tail.floor + 1`: `AttachedOnce` |
| `subagentTailer.ts` 200 | what the user stopped is to be shown as completed; a stop that fails takes the note back while another is under way (`chatTailController.ts` 139) | `Stop`, `Overlap = TRUE`: `FailuresTold` |
| `planUsageFetcher.ts` 161 | who could not reach the server is to be told so; after a refresh that failed that way (365) the user is told to log in | `Login`: `TroubleTold` |
| `tmux.ts` 2490 | no key of a message is to reach a dialog; one that opens behind the look gets the message, and after Enter on the text of an earlier message has opened one, the text is typed all the same (2661) | `Pane`: the invariant `fell = {}` fails |
| `tmux.ts` 2514, 2533 | what is removed from the box is to be told; a draft begun between the look (2446) and the C-u goes without a word | `Pane`, `NothingLost` without `\ unseen` |
| `tmux.ts` 2636 (which says so) | a draft begun at the Mac while the hub presses Enter is sent with the message, or in place of it | `Pane`, `Apart` without `unseen` |
| `tmux.ts` 2500 | a prompt an interruption put back is to be recognised and not sent again; one put back behind the look, when the box was still empty, goes out with the message (`herdr.ts` 1194 names the overlap for the clearing) | `Pane`, `OncePerTry` without `\ unseen` |
| `sessionHub.ts` 1281 | a queue blocked by a failed write is to be resumed after the disk recovers; a later successful write of any handler clears `chatReceiptsDirty` first, and no tick resumes it | `ChatJournal`: the invariant `hub = "up" /\ pc = "idle" /\ blocked /\ queue # <<>> => dirty` fails |
| `sessionHub.ts` 169, 824 | the chord is not to overlap answer keys; an answer submitted while it is being sent starts at once | `ChatLive`: the invariant `sendNowRunning => Answering = {}` fails |
| `sessionHub.ts` 1276 | no queue is to be carried over to a session created again under the name; it is when the session dies unannounced and is launched again between two ticks | `ChatLive` with 2 generations: at rest the queue of a live session holds only what was sent to it; fails with `MaxUnannounced = 1`, holds with 0 |
| `sessionHub.ts` 586, 600 | messages taken on are to be restored after a restart; not when a launch that finds the session alive (`commands/launch.ts` 768) has rewritten `createdAt` | `ChatJournal`: `RestartRestores` fails, and holds with `MaxRerecords = 0` |
| `approval/broker.ts` 222, 191 | a broker that listens is to be the one owner of the path; two that start over the file of a killed one both listen | `Approval` with three brokers and a kill: `SocketReachable` without its premise fails |
| `codexNativeTurnController.ts` 518 | a reply, the end of its turn and the start of the next in one piece: `activeTurnId` is set to the turn that is over, and the session stays busy | `Codex`: `NeverStuckBusy` without `~overtaken` |
| `codexNativeTurnController.ts` 1003 | a subscription that joins an opening whose thread is closed at once opens it again though nobody watches | `reopened` of `CodexTurns` |
| `sessionHub.ts` 1369, 602 | a retirement, and a restart that takes the receipts for another session's, drop the tombstones of deleted messages: one that is sent again afterwards is executed although the user was told that it is deleted | in the model they clear `erased` (`NewLedger`); `ChatJournal` without that: `ErasedNeverTyped` |
| `sessionHub.ts` 1370 | a retirement keeps delivered chat receipts but none of Codex: a submit sent again afterwards runs again | in the model `entered` counts it as an entry of its own |

Read in the code while modelling, and part of the models: the drain loop does not wait for the tick when the
queue is blocked (`sessionHub.ts` 2548, `LoopWriteFails`), `drainCodexQueue` does; a resent message lifts a
failed cancellation (1081, `ForgetFailure`); a retired actor whose call waits for the thread opens it again
and starts the turn (`codexNativeTurnController.ts` 1014). Not in the models: the answer to an asynchronous
question is steered into the turn that runs now, which need not be the one that asked
(`codexNativeTurnController.ts` 804); the loser of a start-up race restores receipts, and may write the journal, before
it finds the socket taken (`sessionHub.ts` 687).
## 4. Proofs

All theorems hold for every value of the constants that the named assumptions of the modules allow: any
sets of messages, questions, connections, hooks, brokers and processes, and any bounds. Proofs are in
modules of their own, one step per action and one below it per conjunct the action can disturb.

| Theorem | Says | Property |
|---|---|---|
| `Invariant`, `TypeCorrect` | the inductive invariant of the ledger and the journal | |
| `ExecutedOnce`, `MapsMatch`, `TakenOnIsDurable` | at most one execution per request of the user; one state; in the journal | `AtMostOnce`, `QueueMatchesMaps`, `Durable` |
| `TombstonesStay`, `ErasedStaysErased` | a deletion the user was told of stays in the journal and is respected, until the session is retired or its receipts are discarded | `ErasedNeverTyped` |
| `DeliveriesKnown`, `DeliveriesKept` | what a delivery in the journal stands for | |
| `OrderInvariant`, `QueueInOrder` | queue, order and journal name the messages in one sequence | `QueueOrdered` |
| `BelongInvariant`, `RestoredIsMine` | a restart brings back only what belongs to the session | `RestoredBelongs` |
| `LivesAreKept` | `ChatDelivery` implements `MessageLife` | `LifeKept` |
| `PaneInvariant`, `PaneIsSound`, `PaneStepsSound` | injection, chord and the answer to the question being closed exclude each other, nobody is forgotten; what an injection starts over | `PaneSound`, `PaneSteps` |
| `QueueInvariant`, `TurnTypes`, `TurnQueueSound` | the queue of Codex turns, its order and its journal agree | |
| `TurnInvariant`, `TurnsInOrder`, `RunsAndReceipts` | turns run in order, once per entry, and what is called delivered has run | `InOrder`, `RunsMatchReceipts` |
| `EveryConnectionOwned` | no connection is forgotten | `ConnectionsOwned` |
| `BusyHasTurn` | busy only as long as a turn runs whose end will be told, but for the overlap of section 3 | `NeverStuckBusy` |
| `GateInvariant`, `GateTypes`, `AllowedByTheUser`, `ListenersReachable`, `ListenersStay` | a tool runs on its own decision; a listener keeps its socket | `GateSound`, `SocketReachable`, `ListenerKept` |
| `HubInvariant`, `OneHubServes`, `HubReachable`, `LockNamesHub` | one hub, that can be reached, and whom the lock names | `OneServes`, `ServerReachable` |
| `ActivityInvariant`, `ActivityTypes`, `SessionShownRight`, `RunningTurnKept`, `RunningPaneSpared` | a session is shown as busy exactly while a turn runs; no turn is taken for over; the reaper spares it | `ShownRight`, `TurnNotDropped`, `RunningSpared` |
| `InputInvariant`, `PromptsApart`, `NoneLost`, `GivenBack` | a prompt is one whole message; nothing typed is lost in silence; what is given back as not delivered is not with Claude; the first two up to what the hub could not see | `Apart`, `NothingLost`, `GivenBackWhole` |
| `LoginInvariant`, `LoginTypes`, `NoLoginLost`, `TokensUsedOnce` | no login is lost, no token used twice | `LoginKept`, `UsedOnce` |

### Arguments

*Ledger and journal* (`ChatDeliveryProofs`). "At most once" is not inductive: what matters is that a
message that may have been executed is never *queued* again without a retry. So `Ledger` says that a
message with no execution left to spend (`Spent`) is among the settled ones (uncertain, delivered,
deleted, or submitted and still in the injector), and `SafeJournal` says the same of the journal, where it
must not be in `queued`. A step from the one to the other is a write, and memory is restored from the
journal only. `JournalMarks` is what makes the middle of an injection safe: while a message is in the
injector the journal has it as inflight, because the mark is written before the first key.
What the user was told is deleted has its tombstone in memory, in the journal and in neither queue
(`Tombstones`), which every step keeps that does not drop the receipts as a whole.
`DownIsEmpty` and `LoopAlone` exclude states in which a dead hub, or a loop at its head, still has a
message in hand. `Durable` and `ReceiptAnswered` are inductive with these.

*Order*. The queue is sorted by the order of the hub, and so is the order in the
journal. What keeps it so is that the message in the injector is the oldest (`HeadInHands`), since a
deferred or rejected one goes back to the front, and that the journal lists what it has (`Listed`), since a
restart sorts by that list. Comparisons of positions go through `Before` (`OrderedIdsProofs`), which a
removal, a message at the end and a sort keep.

*Belonging*. `Mine` says of a message that it was sent to no session yet, or to this one, which is alive or
about to be retired. The journal may keep messages of an earlier session, but only under its
identity (`Identified`), and the restart compares that.

*Refinement*. The mapping is read off the state (`Kept`, `LifeOf` of `ChatDelivery`). Each step of the hub is
a step of one message, a restart, a fresh ledger or a stutter of `MessageLife`; `Inv` says which of them it
can be: a message that is taken is queued, one in the injector is in the journal, and so on.

*Pane*. No wake-up is lost because every stretch that goes on (`pc`) is owed a reason why
its end calls who waits: the loop owns the pane (`LoopOwnsPane`), send-now is called when somebody waits or
nothing can be drained (`CalledForAReason`), the second half of the tick follows a retirement.

*Codex queue* (`CodexTurnsProofs`). What has a place in the order is exactly what is queued, being started or
uncertain, once; the journal is that of this actor or of an earlier one, and lists what it keeps.

*Codex turns*. A message is *tried* by a call, a request on the wire or a reply not yet read, for one
actor and one retry (`Tried`). Nothing is tried for what is still to come (`TriesBounded`), and of the
requests of one try at most one can run it (`OneRequest`): a refused steer is followed by a start only when
the refusal was read. From that: what was tried is known to the hub and the journal and is the
first in their order (`HubKnows`, `JournalKnows`), and what is queued has not been tried since it entered
(`QueuedFresh`), which is `InOrder`. For the count each entry pays for one run, had or still possible:
`Runs(m) + Cardinality(Going(m)) <= entered[m]` (`Counted`); a step that lets a message run takes one
element from `Going(m)`, a step that adds one adds to `entered`. `ReceiptsRan` follows from the answers (`AnswersTrue`).

*Codex connections*. The thread that is being opened has a connection that is up, or nobody waits for it
(`OpeningOwns`, `ViewersWait`); every connection that is up is the open one or the one being opened, or is
being closed (`NoOrphan`).

*Ends of turns*. `NeverStuckBusy` speaks of empty inboxes, so the invariant (`EndInv`) says what an inbox
and the turn that runs still have to tell, as long as nothing was lost (`faults = 0`). Whoever is busy will hear of a turn (`Tells`) or has a call that
was not answered yet (`Asks`), and what ends next is the turn the hub takes for the running one, unless
another starts first (`Fits`); both also for a thread that is still being opened (`OpeningTells`). It is kept because after
a connection's first notification every turn tells of its start (`NotesAgree`), and because the turn a reply
names is the one that ran when it was sent (`RepliesRight`). Whatever the App Server sends at
the end of an inbox leaves all that true (`Grown`). A call goes on after the messages that came in one
piece with its reply, however many (`MaxChunk` is arbitrary), and then makes the turn of the reply the active
one (`Adopts`). That fits what is still to come unless one of those messages started a later turn: there the
code goes wrong (section 3), and the history variable `overtaken` says that it has happened. Everything but
that overlap is proved.

*Activity* (`SessionActivityProofs`). `ShownRight` speaks of a quiet session, so the invariant says what
everything still on its way can do. `Hooks` orders what is under way: prompts and Stops arrive in the order of
their turns, a Stop is the last hook of its turn, no tool is used before the prompts are through, and what
ended an earlier turn is older than the prompt. `Turn` has the two halves. In a turn that has arrived
(`TurnSeen`) the hub is busy since after every end in the transcript, no Stop pending is newer than its
prompt, and the heartbeat is active, or idle by a Stop that will be undone. Between turns (`Over`) all is
quiet, or the Stop that ends it is the last that comes (`StopComes`), or the line that ends it will be read
and believed (`LineComes`); and what tools still tell then is refused (`ToolsLate`, before and after:
`ToolsThenLate`, `EchoThenLate`, `StopsStale`), with the heartbeat they wrote taken back (`BeatOfLate`).
`Heart` has the reaper: a heartbeat that is still old when it is read again is idle (`Judged`), and what
Claude began after it was asked has a hook that has still to write (`Asked`). All of it holds as far as
`gap` is empty, that is, but for the events the hub does not make good (a lost hook, a restart in the middle
of a turn), which the properties except by name.

*Typing* (`PaneInputProofs`). Keys are in the pipe while the injection is steps ahead, and drafts and
put-back prompts come in at any step, so a statement about the box is one about the box and the keys
together (`Ahead`), and can only be made of a box in which nothing is `unseen` (`Tainted`). `Flow` holds
always: one message is in hands and not yet called sent (`Alone`), what each stage of the injection can have
done (`Steps`), and that keys under way are those of one message or a single control key (`Pressed`). `Known`
holds of a box that is not tainted and follows a message through its stages:
while it is typed the box and the keys are its beginning (`Typing`, `Underway`), when Enter is pressed they
are all of it or nothing (`Typeset`, `Entered`, `Owned`, `EnterWhole`, `ChordAlone`), and so each prompt is whole
or has a text in it the hub did not see (`AllWhole`, which gives `Apart`). A box loses its taint
only with the text that tainted it, by Enter or C-u. The rest holds of any box. `FirstHalf`
is why a suffix seen in the box betrays what a dialog swallowed; `Mine`, that from typing on the box has
only the message and what is unseen. For `NothingLost` the clearing must account for a piece before the key
that removes it (`Killing`), and the message in hands must have its first piece somewhere (`Somewhere`), since
it is called sent when the box is empty. `GivenBackWhole` rests on `Fresh`: of a message no try of which ended
in doubt there is nothing in the box, under way or with Claude unless it is being typed, so that whoever gives
it back must have seen the box empty first. `KeysAreNoTexts` is assumed: that no message or draft has the
name of a control key.

*Gate* (`ApprovalGateProofs`). `GateSound` speaks of the answers of hooks only, but an answer comes from a line,
and a line from a line: `Received` and `Sent` say that each line on its way to a hook or to a broker is a
decision the user has made for the request it names; that the user never takes back what he said keeps them
true. `SocketReachable` needs what a broker knows while it starts: `StartsAlone`, that one which is about to
bind finds no listener when brokers start one at a time, and `NoneKilled`, that a file always has a listener,
and so is never removed, when none was killed. Without either the race at 191 breaks it. Between a refused probe and the
removal others may come; `SeenListened` says that the file seen before is by then of one that has closed.

*Election* (`HubElectionProofs`). Who has confirmed the lock keeps it until it lets go (`LockNames`), because who
finds a dead lock removes it in the same step, or because starts do not overlap (`StartsAlone`); whoever is
behind `Bind` owns the socket (`SocketOwned`).

*Login* (`LoginRefreshProofs`). A task with an answer carries the newest login, and the file still has the one it
was asked for with (`CarriesNewest`); there is one such task (`OneCarries`), because a second request would
need the login the first carries. While nothing is stolen the locks exclude (`LocksExclude`).

### Only model-checked

Liveness under fairness and `ENABLED` are out of the provers' reach: `QueueMoves`, `Served`, `IdleReaped`,
`Renewed`, `EndShown`. So is what recursive definitions compute for every input: `RowsTrue`, `NotesRight`
and `AttachedOnce` (folds over the lines), `WorkingShown` and `NothingStuck` (a fold over the notes),
`OncePerTry` (`SelectSeq`). Not proved yet, and safety: `NothingMissing` and
`ReadersOwned` of `ConversationStream`, and `FailuresTold` of `CommandStop`.

## 5. Not modelled

Chat: expiry and caps of receipts and tombstones; replies to single clients; the text of
messages (an id resent with another text is answered, not queued: `SendAnswered`);
failed writes of the file of questions; an injector that outlives the retirement of its actor.
`RestoredBelongs` claims that nothing of an earlier session comes back when every end of a session
was announced and no write failed: a retirement whose write fails, a crash, and a relaunch
under the name together bring the old queue back, since its entry on disk then matches the
session's record. The other direction, that a restart brings back all that belongs to the
session, holds until the record of a living session is rewritten (section 3).

Activity: prewarmed sessions, attached terminals, scheduled prompts, local servers, the
usage-limit watch, the refresh by a pending question, herdr, and sessions of Codex.

Stream: pages of older history, previews of text in progress, streams that come from the
connection to Codex (`CodexTurns` has the choice of the source), more than one engine at
a time. When the phone leaves a conversation whose session is idle, the engine also asks the hub for its state
(`hub_state_request`, `engine.ts` 1086) and sends a second `conversation_unsubscribe` unless that made it watch the
session (`handlers/session.ts` 316): the answer does to the engine what a change of `processing` does
(`TakesProcessing`), the phone is not read meanwhile, and no subscription can lie between the two
unsubscriptions, so neither is in the model. Each engine has a subscription, a backfill and a channel of its own; what two share
is the reader, the ring and the numbers.

Codex: goals, interrupts, titles, questions and approvals, the caps of receipts.

The recognition of dialogs on the screen, the encoding of messages, pushes, wrappers of external
programs, the gateway and the dispatch of requests in the engine are left out as text
processing and I/O: they keep no state that survives a call, or state nobody else depends on.

Other hazards no property covers: a hook that gives up without a connection never takes its request off the
phone's list (`hook.ts` 511), and the relay of a stop is given up after 60 ms (364); receipts and tombstones
that expire or are capped may be asked for later (`sessionHub.ts` 3562); a message deleted while its turn is
being started (2364); a backfill given up leaves the phone waiting for the end of the history (1957); events are
dropped between leaving and opening a conversation (`engine.ts` 815).

## 6. Plan

Next, in this order:

1. `ReadersOwned` and `FailuresTold`.
2. `NothingMissing`: what a phone lacks is in the ring, on its way, or behind the checkpoint the engine asks from.
