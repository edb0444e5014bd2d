----------------------------- MODULE ApprovalGate -----------------------------
(***************************************************************************)
(* Approval of tool calls in one session: src/approval/hook.ts, the        *)
(* process Claude Code starts before each tool call, and                   *)
(* src/approval/broker.ts, the process the phone starts over SSH for each  *)
(* chat it opens.  A broker listens on the socket of the session, passes   *)
(* the lines of the hooks to the phone, and the lines of the phone to all  *)
(* hooks.                                                                  *)
(*                                                                         *)
(* The processes run concurrently.  A step is what one of them does        *)
(* between two waits, except that a broker's check and removal of the      *)
(* socket file are two steps: another broker's system calls can come in    *)
(* between.  The inode of a socket file is the broker that bound it.       *)
(* Lines on their way are asked (to a broker), inbox (to a hook) and       *)
(* toBroker (from the phone).  The phone itself is external: it shows      *)
(* every request that reaches it and sends one decision each time.         *)
(***************************************************************************)
EXTENDS Integers, Sequences, FiniteSets

CONSTANTS
    Requests,       \* PreToolUse hooks, one process and one request id each
    EditRequests,   \* those for a tool of ACCEPT_EDITS_TOOLS
    Brokers,        \* serve processes, in any order
    NoBroker,       \* stands for "no file", "not connected"
    DeviceOf,       \* the --client-id a broker was started with
    NoDevice,       \* a broker without one
    Modes,          \* permission modes hooks are started in
    MaxConnections, \* server.maxConnections (16 in the code)
    OneAtATime,     \* no broker starts while another one is starting
    Bounds          \* which hooks and brokers, and how many kills, new versions
                    \* and lines to an engine that is not there, one history may have

ASSUME RequestAssumption == EditRequests \subseteq Requests
ASSUME BrokerAssumption == NoBroker \notin Brokers
ASSUME ModeAssumption == Modes \subseteq {"default", "acceptEdits", "auto", "unknown"}
ASSUME GateBoundAssumption ==
    /\ MaxConnections \in Nat \ {0} /\ OneAtATime \in BOOLEAN
    /\ Bounds \subseteq [hooks : SUBSET Requests, brokers : SUBSET Brokers,
                      kills : Nat, updates : Nat, losses : Nat]

Verdicts == {"allow", "deny"}
Eof == <<NoBroker, "eof">>

VARIABLES
    \* the hook processes
    hook,       \* what it is doing
    mode,       \* permission_mode it was started with
    answer,     \* permissionDecision it will print, "none" before
    late,       \* its internal deadline has passed
    conn,       \* the broker its socket is connected to
    inbox,      \* what it has not read yet from that socket
    \* the broker processes
    broker,     \* what it is doing
    seen,       \* inode it saw before its probe (observed)
    handed,     \* handoffRequested
    clients,    \* hooks accepted
    stale,      \* a newer version than its own is installed
    leaving,    \* shutdownRequested
    channel,    \* its SSH channel to the phone is open
    \* the host
    file,       \* the broker whose socket is at the path
    asked,      \* request lines on their way to a broker
    offers,     \* hand-over lines on their way from a broker to a broker
    toBroker,   \* decision lines on their way from the phone
    badges,     \* approvals the phone's list shows as waiting
    \* the phone
    shown,      \* requests it asks the user about
    \* bookkeeping of the properties and bounds
    said,       \* what the user has ever decided
    updates, kills, losses

hookVars   == <<hook, mode, answer, late>>
wireVars   == <<conn, inbox, asked>>
startVars  == <<seen, handed, offers>>
brokerVars == <<broker, clients, stale, leaving, file>>
phoneVars  == <<channel, toBroker, shown, said>>
relayVars  == <<badges, losses>>
boundVars  == <<updates, kills>>
vars == <<hookVars, wireVars, startVars, brokerVars, phoneVars, relayVars, boundVars>>

\* The history stays within one of the bounds: more kills, say, with fewer hooks.
Within(hooks, brokers, k, u, l) ==
    \E x \in Bounds :
        /\ hooks \subseteq x.hooks /\ brokers \subseteq x.brokers
        /\ k <= x.kills /\ u <= x.updates /\ l <= x.losses
HooksStarted == {r \in Requests : hook[r] # "none"}
BrokersStarted == {b \in Brokers : broker[b] # "off"}

Starting == {"looking", "probing", "refused", "handing", "waiting", "unlinking", "binding"}
Listening(b) == b \in Brokers /\ broker[b] = "listening"

Init ==
    /\ hook = [r \in Requests |-> "none"] /\ mode = [r \in Requests |-> "none"]
    /\ answer = [r \in Requests |-> "none"] /\ late = [r \in Requests |-> FALSE]
    /\ conn = [r \in Requests |-> NoBroker] /\ inbox = [r \in Requests |-> <<>>]
    /\ broker = [b \in Brokers |-> "off"] /\ seen = [b \in Brokers |-> NoBroker]
    /\ handed = [b \in Brokers |-> FALSE] /\ clients = [b \in Brokers |-> {}]
    /\ stale = [b \in Brokers |-> FALSE] /\ leaving = [b \in Brokers |-> FALSE]
    /\ channel = [b \in Brokers |-> FALSE]
    /\ file = NoBroker /\ asked = {} /\ offers = {}
    /\ toBroker = [b \in Brokers |-> <<>>]
    /\ badges = {} /\ shown = {}
    /\ said = [r \in Requests |-> {}]
    /\ updates = 0 /\ kills = 0 /\ losses = 0
-----------------------------------------------------------------------------
\* The hook: runHookCore for PreToolUse.

\* autoAllowReasonForMode
AutoAllowed(r, m) == m = "auto" \/ (m = "acceptEdits" /\ r \in EditRequests)

HookStart(r, m) ==
    /\ hook[r] = "none"
    /\ Within(HooksStarted \cup {r}, BrokersStarted, kills, updates, losses)
    /\ mode' = [mode EXCEPT ![r] = m]
    /\ IF AutoAllowed(r, m)
       THEN /\ hook' = [hook EXCEPT ![r] = "done"]
            /\ answer' = [answer EXCEPT ![r] = "allow"]
       ELSE /\ hook' = [hook EXCEPT ![r] = "connecting"]
            /\ UNCHANGED answer
    /\ UNCHANGED <<late, wireVars, startVars, brokerVars, phoneVars, relayVars, boundVars>>

\* Mutant of Connects: the request is not sent again.
ConnectsSilently(r) ==
    /\ conn' = [conn EXCEPT ![r] = file]
    /\ inbox' = [inbox EXCEPT ![r] = <<>>]
    /\ asked' = IF hook[r] = "connecting" THEN asked \cup {<<r, file>>} ELSE asked

\* A new socket, and sendRequestAndReflect up to its first wait: the request
\* goes out under the id it always had.
Connects(r) ==
    /\ conn' = [conn EXCEPT ![r] = file]
    /\ inbox' = [inbox EXCEPT ![r] = <<>>]
    /\ asked' = asked \cup {<<r, file>>}

\* connectUnixSocket, at first or within retryConnect.  waitForDecision does not
\* wait when the deadline has passed.
HookConnects(r) ==
    /\ hook[r] \in {"connecting", "retrying"}
    /\ Listening(file)
    /\ Connects(r)
    /\ IF late[r]
       THEN /\ hook' = [hook EXCEPT ![r] = "clearing"]
            /\ answer' = [answer EXCEPT ![r] = "deny"]
       ELSE /\ hook' = [hook EXCEPT ![r] = "waiting"]
            /\ UNCHANGED answer
    /\ UNCHANGED <<mode, late, startVars, brokerVars, phoneVars, relayVars, boundVars>>

HookUnreachable(r) ==
    /\ hook[r] = "connecting"
    /\ ~Listening(file)
    /\ hook' = [hook EXCEPT ![r] = "publishing"]
    /\ UNCHANGED <<mode, answer, late, wireVars, startVars, brokerVars, phoneVars, relayVars,
                   boundVars>>

\* sendRemotePendingToEngine: the line arrives, or no engine or hub is there in time.
Relays(set, ok) ==
    IF ok THEN badges' = set /\ UNCHANGED losses
          ELSE /\ Within(HooksStarted, BrokersStarted, kills, updates, losses + 1)
               /\ losses' = losses + 1
               /\ UNCHANGED badges

\* publishPendingAndAwaitReconnect up to retryConnect; the push has no effect here.
HookPublishes(r, ok) ==
    /\ hook[r] = "publishing"
    /\ Relays(badges \cup {r}, ok)
    /\ hook' = [hook EXCEPT ![r] = "retrying"]
    /\ UNCHANGED <<mode, answer, late, wireVars, startVars, brokerVars, phoneVars, boundVars>>

\* Mutant of OutOfTime: retryConnect goes on for ever.
OutOfTimeNever(r) == FALSE

OutOfTime(r) == late[r]

\* retryConnect fails at the deadline.
HookGivesUp(r) ==
    /\ hook[r] = "retrying"
    /\ ~Listening(file)
    /\ OutOfTime(r)
    /\ hook' = [hook EXCEPT ![r] = "done"]
    /\ answer' = [answer EXCEPT ![r] = "deny"]
    /\ UNCHANGED <<mode, late, wireVars, startVars, brokerVars, phoneVars, relayVars, boundVars>>

\* Mutant of Meant: the type of the line is not looked at.
MeantOfAnyType(r, line) == line # Eof => line[1] = r

\* Mutant of Meant: every decision that is broadcast is taken.
MeantForAny(r, line) == line # Eof

\* evaluateLine: only the decision with the request's own id counts.
Meant(r, line) == line # Eof /\ line[1] = r

HookDecides(r) ==
    /\ hook[r] = "waiting"
    /\ inbox[r] # <<>>
    /\ Meant(r, Head(inbox[r]))
    /\ answer' = [answer EXCEPT ![r] = Head(inbox[r])[2]]
    /\ hook' = [hook EXCEPT ![r] = "clearing"]
    /\ inbox' = [inbox EXCEPT ![r] = Tail(@)]
    /\ UNCHANGED <<mode, late, conn, asked, startVars, brokerVars, phoneVars, relayVars, boundVars>>

\* A decision for another hook: read on.
HookSkips(r) ==
    /\ hook[r] = "waiting"
    /\ inbox[r] # <<>>
    /\ Head(inbox[r]) # Eof /\ ~Meant(r, Head(inbox[r]))
    /\ inbox' = [inbox EXCEPT ![r] = Tail(@)]
    /\ UNCHANGED <<hookVars, conn, asked, startVars, brokerVars, phoneVars, relayVars, boundVars>>

\* The connection ends: the request is published and asked again later.
HookDisconnected(r) ==
    /\ hook[r] = "waiting"
    /\ inbox[r] # <<>> /\ Head(inbox[r]) = Eof
    /\ conn' = [conn EXCEPT ![r] = NoBroker]
    /\ inbox' = [inbox EXCEPT ![r] = <<>>]
    /\ hook' = [hook EXCEPT ![r] = "publishing"]
    /\ UNCHANGED <<mode, answer, late, asked, startVars, brokerVars, phoneVars, relayVars, boundVars>>

HookTimesOut(r) ==
    /\ hook[r] = "waiting"
    /\ late[r]
    /\ answer' = [answer EXCEPT ![r] = "deny"]
    /\ hook' = [hook EXCEPT ![r] = "clearing"]
    /\ UNCHANGED <<mode, late, wireVars, startVars, brokerVars, phoneVars, relayVars, boundVars>>

\* Mutant of Cleared: a refusal leaves the badge.
ClearedIfAllowed(r) == IF answer[r] = "allow" THEN badges \ {r} ELSE badges

Cleared(r) == badges \ {r}

\* clearRemotePendingIfNeeded, the output and the end of the process.
HookClears(r, ok) ==
    /\ hook[r] = "clearing"
    /\ Relays(Cleared(r), ok)
    /\ hook' = [hook EXCEPT ![r] = "done"]
    /\ conn' = [conn EXCEPT ![r] = NoBroker]
    /\ inbox' = [inbox EXCEPT ![r] = <<>>]
    /\ UNCHANGED <<mode, answer, late, asked, startVars, brokerVars, phoneVars, boundVars>>

\* HOOK_INTERNAL_DEADLINE_SECONDS after it began to ask.
DeadlinePasses(r) ==
    /\ hook[r] \notin {"none", "done"}
    /\ ~late[r]
    /\ late' = [late EXCEPT ![r] = TRUE]
    /\ UNCHANGED <<hook, mode, answer, wireVars, startVars, brokerVars, phoneVars, relayVars,
                   boundVars>>
-----------------------------------------------------------------------------
\* The broker: runActiveBroker up to listen.

BrokerStarts(b) ==
    /\ broker[b] = "off"
    /\ OneAtATime => \A c \in Brokers : broker[c] \notin Starting
    /\ Within(HooksStarted, BrokersStarted \cup {b}, kills, updates, losses)
    /\ broker' = [broker EXCEPT ![b] = "looking"]
    /\ channel' = [channel EXCEPT ![b] = TRUE]
    /\ UNCHANGED <<hookVars, wireVars, startVars, clients, stale, leaving, file,
                   toBroker, shown, said, relayVars, boundVars>>

\* The inode before the probe.
Looks(b) ==
    /\ broker[b] = "looking"
    /\ seen' = [seen EXCEPT ![b] = file]
    /\ broker' = [broker EXCEPT ![b] = "probing"]
    /\ UNCHANGED <<hookVars, wireVars, handed, offers, clients, stale, leaving, file,
                   phoneVars, relayVars, boundVars>>

\* Mutant of Alive: the socket is taken without a probe.
AliveNever(b) == FALSE

\* isSocketAlive
Alive(b) == Listening(file)

\* A visit to broker c is a connection too, and makes a stale one leave.
Visited(c) == [leaving EXCEPT ![c] = @ \/ stale[c]]

\* The socket is in use: ask for it once, if the broker has a client id, then
\* wait for it, or fail when the grace period is over.
ProbeFindsAlive(b, next) ==
    /\ broker[b] = "probing"
    /\ Alive(b)
    /\ next \in IF DeviceOf[b] # NoDevice /\ ~handed[b] THEN {"handing"} ELSE {"waiting", "closed"}
    /\ broker' = [broker EXCEPT ![b] = next]
    /\ leaving' = Visited(file)
    /\ IF next = "handing"
       THEN /\ handed' = [handed EXCEPT ![b] = TRUE]
            /\ offers' = offers \cup {<<b, file>>}
       ELSE UNCHANGED <<handed, offers>>
    /\ UNCHANGED <<hookVars, wireVars, seen, clients, stale, file, phoneVars, relayVars, boundVars>>

\* Nobody answers.
ProbeFindsDead(b) ==
    /\ broker[b] = "probing"
    /\ ~Alive(b)
    /\ broker' = [broker EXCEPT ![b] = "refused"]
    /\ UNCHANGED <<hookVars, wireVars, startVars, clients, stale, leaving, file,
                   phoneVars, relayVars, boundVars>>

\* The second lstat: remove the file if it is still the one seen before.
Compares(b) ==
    /\ broker[b] = "refused"
    /\ broker' = [broker EXCEPT ![b] = IF file # NoBroker /\ file = seen[b]
                                       THEN "unlinking" ELSE "binding"]
    /\ UNCHANGED <<hookVars, wireVars, startVars, clients, stale, leaving, file,
                   phoneVars, relayVars, boundVars>>

\* requestHandoff returns, answered or not, or the pause between two probes ends.
LooksAgain(b) ==
    /\ broker[b] \in {"handing", "waiting"}
    /\ broker' = [broker EXCEPT ![b] = "looking"]
    /\ UNCHANGED <<hookVars, wireVars, startVars, clients, stale, leaving, file,
                   phoneVars, relayVars, boundVars>>

\* fs.rmSync: by name, whatever is there by now.
Unlinks(b) ==
    /\ broker[b] = "unlinking"
    /\ file' = NoBroker
    /\ broker' = [broker EXCEPT ![b] = "binding"]
    /\ UNCHANGED <<hookVars, wireVars, startVars, clients, stale, leaving,
                   phoneVars, relayVars, boundVars>>

\* server.listen, and its callback, which closes a stale broker at once.
Binds(b) ==
    /\ broker[b] = "binding"
    /\ IF file = NoBroker /\ ~stale[b]
       THEN file' = b /\ broker' = [broker EXCEPT ![b] = "listening"]
       ELSE UNCHANGED file /\ broker' = [broker EXCEPT ![b] = "closed"]
    /\ UNCHANGED <<hookVars, wireVars, startVars, clients, stale, leaving,
                   phoneVars, relayVars, boundVars>>
-----------------------------------------------------------------------------
\* The broker: relaying.

\* What the end of broker b means to the others: every hook on it, accepted or
\* not, reads the end of its connection; lines nobody has read are gone.
Disconnects(b) ==
    /\ inbox' = [r \in Requests |-> IF conn[r] = b THEN Append(inbox[r], Eof) ELSE inbox[r]]
    /\ clients' = [clients EXCEPT ![b] = {}]
    /\ asked' = {a \in asked : a[2] # b}
    /\ offers' = {o \in offers : o[2] # b}
    /\ toBroker' = [toBroker EXCEPT ![b] = <<>>]
    /\ broker' = [broker EXCEPT ![b] = "closed"]

\* finishBroker: server.close removes the socket file, by name.
Finishes(b) == Disconnects(b) /\ file' = NoBroker

\* The connection handler.  Beyond maxConnections a connection is dropped.
Accepts(b, r) ==
    /\ Listening(b)
    /\ conn[r] = b /\ r \notin clients[b] /\ inbox[r] = <<>>
    /\ IF Cardinality(clients[b]) < MaxConnections
       THEN /\ clients' = [clients EXCEPT ![b] = @ \cup {r}]
            /\ leaving' = Visited(b)
            /\ UNCHANGED <<inbox, asked>>
       ELSE /\ inbox' = [inbox EXCEPT ![r] = <<Eof>>]
            /\ asked' = asked \ {<<r, b>>}
            /\ UNCHANGED <<clients, leaving>>
    /\ UNCHANGED <<hookVars, conn, startVars, broker, stale, file, phoneVars, relayVars, boundVars>>

\* writeLineToSSH; without the channel the line is lost.
RelaysRequest(b, r) ==
    /\ Listening(b)
    /\ r \in clients[b] /\ <<r, b>> \in asked
    /\ asked' = asked \ {<<r, b>>}
    /\ shown' = IF channel[b] THEN shown \cup {r} ELSE shown
    /\ UNCHANGED <<hookVars, conn, inbox, startVars, brokerVars, channel, toBroker, said,
                   relayVars, boundVars>>

\* broadcast: to every hook connected, and to nobody when there is none.
Broadcasts(b) ==
    /\ Listening(b)
    /\ toBroker[b] # <<>>
    /\ inbox' = [r \in Requests |-> IF r \in clients[b] THEN Append(inbox[r], Head(toBroker[b]))
                                                        ELSE inbox[r]]
    /\ toBroker' = [toBroker EXCEPT ![b] = Tail(@)]
    /\ UNCHANGED <<hookVars, conn, asked, startVars, brokerVars, channel, shown, said,
                   relayVars, boundVars>>

\* A hook has closed its connection.  A stale broker leaves with its last client.
ClientGone(b, r) ==
    /\ Listening(b)
    /\ r \in clients[b] /\ conn[r] # b /\ <<r, b>> \notin asked
    /\ IF leaving[b] /\ clients[b] = {r}
       THEN Finishes(b)
       ELSE /\ clients' = [clients EXCEPT ![b] = @ \ {r}]
            /\ UNCHANGED <<inbox, asked, offers, toBroker, broker, file>>
    /\ UNCHANGED <<hookVars, conn, seen, handed, stale, leaving, channel, shown, said,
                   relayVars, boundVars>>

\* A probe or a hand-over line was the only client of a stale broker.
VisitorGone(b) ==
    /\ Listening(b)
    /\ leaving[b] /\ clients[b] = {}
    /\ Finishes(b)
    /\ UNCHANGED <<hookVars, conn, seen, handed, stale, leaving, channel, shown, said,
                   relayVars, boundVars>>

\* Mutant of Yields: any broker that asks gets the socket.
YieldsToAny(b, c) == DeviceOf[b] # NoDevice

\* The hand-over line: only the same installation of the app gets the socket.
Yields(b, c) == DeviceOf[b] # NoDevice /\ DeviceOf[b] = DeviceOf[c]

HandoffServed(b, c) ==
    /\ Listening(b)
    /\ <<c, b>> \in offers
    /\ IF Yields(b, c)
       THEN Finishes(b) /\ UNCHANGED leaving
       ELSE /\ offers' = offers \ {<<c, b>>}
            /\ leaving' = Visited(b)
            /\ UNCHANGED <<inbox, clients, asked, toBroker, broker, file>>
    /\ UNCHANGED <<hookVars, conn, seen, handed, stale, channel, shown, said,
                   relayVars, boundVars>>

\* The end of standard input.  While starting, the broker ends at its next check
\* of the signal and leaves the file alone.
InputEnds(b) ==
    /\ ~channel[b] /\ toBroker[b] = <<>>
    /\ \/ /\ broker[b] \in {"looking", "probing", "refused", "handing", "waiting"}
          /\ broker' = [broker EXCEPT ![b] = "closed"]
          /\ UNCHANGED <<inbox, clients, asked, offers, toBroker, file>>
       \/ Listening(b) /\ Finishes(b)
    /\ UNCHANGED <<hookVars, conn, seen, handed, stale, leaving, channel, shown, said,
                   relayVars, boundVars>>

\* The process is killed: its socket file stays.
BrokerKilled(b) ==
    /\ broker[b] \in Starting \cup {"listening"}
    /\ Within(HooksStarted, BrokersStarted, kills + 1, updates, losses)
    /\ kills' = kills + 1
    /\ Disconnects(b)
    /\ channel' = [channel EXCEPT ![b] = FALSE]
    /\ UNCHANGED <<hookVars, conn, seen, handed, stale, leaving, file, shown, said,
                   relayVars, updates>>

\* A new version is installed: isStaleDist of every process started before.
VersionInstalled ==
    /\ Within(HooksStarted, BrokersStarted, kills, updates + 1, losses)
    /\ updates' = updates + 1
    /\ stale' = [b \in Brokers |-> broker[b] # "off"]
    /\ UNCHANGED <<hookVars, wireVars, startVars, broker, clients, leaving, file, phoneVars,
                   relayVars, kills>>
-----------------------------------------------------------------------------
\* The phone.

\* The user decides; the app sends the decision on a channel that has said hello.
Taps(b, r, d) ==
    /\ r \in shown
    /\ channel[b] /\ Listening(b)
    /\ shown' = shown \ {r}
    /\ said' = [said EXCEPT ![r] = @ \cup {d}]
    /\ toBroker' = [toBroker EXCEPT ![b] = Append(@, <<r, d>>)]
    /\ UNCHANGED <<hookVars, wireVars, startVars, brokerVars, channel, relayVars, boundVars>>

\* The chat is left, or the connection breaks: lines on their way may be lost.
ChannelEnds(b, lost) ==
    /\ channel[b]
    /\ channel' = [channel EXCEPT ![b] = FALSE]
    /\ toBroker' = IF lost THEN [toBroker EXCEPT ![b] = <<>>] ELSE toBroker
    /\ UNCHANGED <<hookVars, wireVars, startVars, brokerVars, shown, said, relayVars, boundVars>>
-----------------------------------------------------------------------------
HookStep(r) ==
    \/ HookConnects(r) \/ HookUnreachable(r) \/ HookGivesUp(r)
    \/ HookDecides(r) \/ HookSkips(r) \/ HookDisconnected(r) \/ HookTimesOut(r)
    \/ \E ok \in BOOLEAN : HookPublishes(r, ok) \/ HookClears(r, ok)

StartStep(b) ==
    \/ Looks(b) \/ ProbeFindsDead(b) \/ Compares(b) \/ LooksAgain(b) \/ Unlinks(b) \/ Binds(b)
    \/ \E next \in {"handing", "waiting", "closed"} : ProbeFindsAlive(b, next)

RelayStep(b) ==
    \/ Broadcasts(b) \/ VisitorGone(b) \/ InputEnds(b)
    \/ \E r \in Requests : Accepts(b, r) \/ RelaysRequest(b, r) \/ ClientGone(b, r)
    \/ \E c \in Brokers : HandoffServed(b, c)

PhoneStep ==
    \/ \E b \in Brokers : BrokerStarts(b)
    \/ \E b \in Brokers, r \in Requests, d \in Verdicts : Taps(b, r, d)
    \/ \E b \in Brokers, lost \in BOOLEAN : ChannelEnds(b, lost)

HostStep ==
    \/ \E r \in Requests, m \in Modes : HookStart(r, m)
    \/ \E r \in Requests : DeadlinePasses(r)
    \/ \E b \in Brokers : BrokerKilled(b)
    \/ VersionInstalled

Next ==
    \/ \E r \in Requests : HookStep(r)
    \/ \E b \in Brokers : StartStep(b) \/ RelayStep(b)
    \/ PhoneStep
    \/ HostStep

Spec == Init /\ [][Next]_vars

\* The event loops of the processes serve every event.
FairProcesses ==
    /\ \A r \in Requests : WF_vars(HookStep(r))
    /\ \A b \in Brokers :
        /\ WF_vars(StartStep(b)) /\ WF_vars(Broadcasts(b))
        /\ WF_vars(VisitorGone(b)) /\ WF_vars(InputEnds(b))
        /\ \A r \in Requests :
            WF_vars(Accepts(b, r)) /\ WF_vars(RelaysRequest(b, r)) /\ WF_vars(ClientGone(b, r))
        /\ \A c \in Brokers : WF_vars(HandoffServed(b, c))

\* The user answers every request the phone shows.
FairUser == \A r \in Requests : WF_vars(\E b \in Brokers, d \in Verdicts : Taps(b, r, d))

FairSpec == Spec /\ FairProcesses /\ FairUser
-----------------------------------------------------------------------------
Lines == (Requests \X Verdicts) \cup {Eof}

TypeOK ==
    /\ hook \in [Requests -> {"none", "connecting", "publishing", "retrying", "waiting",
                              "clearing", "done"}]
    /\ mode \in [Requests -> Modes \cup {"none"}]
    /\ answer \in [Requests -> Verdicts \cup {"none"}]
    /\ late \in [Requests -> BOOLEAN]
    /\ conn \in [Requests -> Brokers \cup {NoBroker}]
    /\ inbox \in [Requests -> Seq(Lines)]
    /\ broker \in [Brokers -> Starting \cup {"off", "listening", "closed"}]
    /\ seen \in [Brokers -> Brokers \cup {NoBroker}]
    /\ handed \in [Brokers -> BOOLEAN]
    /\ clients \in [Brokers -> SUBSET Requests]
    /\ stale \in [Brokers -> BOOLEAN] /\ leaving \in [Brokers -> BOOLEAN]
    /\ channel \in [Brokers -> BOOLEAN]
    /\ file \in Brokers \cup {NoBroker}
    /\ asked \subseteq Requests \X Brokers /\ offers \subseteq Brokers \X Brokers
    /\ toBroker \in [Brokers -> Seq(Requests \X Verdicts)]
    /\ badges \subseteq Requests /\ shown \subseteq Requests
    /\ said \in [Requests -> SUBSET Verdicts]
    /\ updates \in Nat /\ kills \in Nat /\ losses \in Nat
    /\ \A r \in Requests : answer[r] # "none" <=> hook[r] \in {"clearing", "done"}

\* A tool runs without the terminal's own question only if its mode allows it or
\* the user allowed this very request: decisions are broadcast to all hooks, sent
\* again over other brokers, and may come late (evaluateLine, waitForDecision).
GateSound ==
    \A r \in Requests :
        answer[r] = "allow" => AutoAllowed(r, mode[r]) \/ "allow" \in said[r]

\* Hooks can reach a broker that listens: nobody removes its socket file, as long
\* as no broker was killed or brokers do not start at the same time
\* (isSocketAlive, the inode check, and the unlink of server.close).
SocketReachable ==
    OneAtATime \/ kills = 0 => \A b \in Brokers : Listening(b) => file = b

\* When an engine is there for every line, an approval that is over stays on the
\* phone's list only when it ended at the deadline (clearRemotePendingIfNeeded).
BadgeCleared ==
    losses = 0 =>
        \A r \in badges : hook[r] = "done" => late[r] /\ answer[r] = "deny"

\* A broker that listens stops only when its phone leaves, a new version is
\* installed, it is killed, or the same installation of the app asks for its
\* socket (runActiveBroker, requestHandoff).
ListenerKept ==
    [][\A b \in Brokers : Listening(b) /\ ~Listening(b)' =>
          \/ ~channel[b]
          \/ leaving[b]
          \/ kills' # kills
          \/ \E c \in Brokers : <<c, b>> \in offers /\ DeviceOf[c] = DeviceOf[b] /\ handed[c]]_vars

\* A hook past its deadline answers Claude Code, even when connections break
\* again and again (waitForDecision, retryConnect).
HookAnswers == \A r \in Requests : late[r] ~> hook[r] = "done"

\* With time enough, a user who answers what the phone shows, and in the end a
\* broker that stays connected, a request is answered although earlier
\* connections, requests and decisions were lost (the request is sent again under
\* the same id).
Attended(b) == Listening(b) /\ file = b /\ channel[b]
RequestServed ==
    \A r \in Requests :
        <>[](\E b \in Brokers : Attended(b)) /\ []~late[r] =>
            (hook[r] = "connecting" ~> hook[r] = "done")

\* Nobody waits for ever: neither Claude Code for its hook nor a hook for the user.
Served == HookAnswers /\ RequestServed
=============================================================================
