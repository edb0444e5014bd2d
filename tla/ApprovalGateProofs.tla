-------------------------- MODULE ApprovalGateProofs --------------------------
(***************************************************************************)
(* Theorems about ApprovalGate, for every set of requests and brokers and  *)
(* every bound.                                                            *)
(***************************************************************************)
EXTENDS ApprovalGate, TLAPS
-----------------------------------------------------------------------------
\* The inductive invariant.

\* Whatever is on its way to a hook, or printed by one, the user has said.
SaidIn(s, w) == \A i \in 1..Len(s) : s[i] # Eof => s[i][2] \in w[s[i][1]]
Received == \A r \in Requests : SaidIn(inbox[r], said)
Sent == \A b \in Brokers : SaidIn(toBroker[b], said)
Honest == GateSound /\ Received /\ Sent

\* When brokers start one at a time, the one that will bind finds nobody.
StartsAlone ==
    OneAtATime =>
        /\ \A b, c \in Brokers : broker[b] \in Starting /\ broker[c] \in Starting => b = c
        /\ \A b, c \in Brokers : broker[b] \in {"refused", "unlinking", "binding"} => ~Listening(c)

\* When none was killed, a socket file has a listener, and none is removed.
NoneKilled ==
    kills = 0 =>
        /\ file # NoBroker => Listening(file)
        /\ \A b \in Brokers : broker[b] # "unlinking"

\* Whose socket a broker has seen has listened, and when none was killed it has
\* gone by the time nobody answers there: a file that is there now is another's.
SeenListened ==
    /\ \A b \in Brokers : seen[b] # NoBroker => broker[seen[b]] \in {"listening", "closed"}
    /\ file # NoBroker => broker[file] \in {"listening", "closed"}
    /\ kills = 0 =>
         \A b \in Brokers :
           broker[b] = "refused" /\ seen[b] # NoBroker => broker[seen[b]] = "closed"

Files == SocketReachable /\ StartsAlone /\ NoneKilled
Sockets == Files /\ SeenListened

GateInv == TypeOK /\ Honest /\ Sockets
-----------------------------------------------------------------------------
LEMMA GateInit == Init => GateInv
<1> SUFFICES ASSUME Init PROVE GateInv
  OBVIOUS
<1>1. TypeOK
  <2>1. <<>> \in Seq(Lines) /\ <<>> \in Seq(Requests \X Verdicts)
    OBVIOUS
  <2>2. /\ inbox \in [Requests -> Seq(Lines)]
        /\ toBroker \in [Brokers -> Seq(Requests \X Verdicts)]
    BY <2>1 DEF Init
  <2> QED
    BY <2>2, GateBoundAssumption DEF Init, TypeOK, Starting
<1>2. Honest
  BY DEF Init, Honest, GateSound, Received, Sent, SaidIn
<1>3. Sockets
  BY DEF Init, Sockets, Files, SeenListened, SocketReachable, StartsAlone, NoneKilled, Listening, Starting
<1> QED
  BY <1>1, <1>2, <1>3 DEF GateInv

\* The flag that makes a stale broker leave stays a flag.
LEMMA VisitedType == ASSUME TypeOK, NEW c \in Brokers PROVE Visited(c) \in [Brokers -> BOOLEAN]
<1>1. (leaving[c] \/ stale[c]) \in BOOLEAN
  BY DEF TypeOK
<1> QED
  BY <1>1 DEF Visited, TypeOK

HookType == [Requests -> {"none", "connecting", "publishing", "retrying", "waiting", "clearing",
                          "done"}]
Answering ==
    /\ hook \in HookType /\ answer \in [Requests -> Verdicts \cup {"none"}]
    /\ \A r \in Requests : answer[r] # "none" <=> hook[r] \in {"clearing", "done"}

\* A hook goes on asking, or is through with an answer.
LEMMA AsksOn ==
    ASSUME Answering, NEW r \in Requests, answer' = answer,
           hook[r] \notin {"clearing", "done"},
           NEW h \in {"connecting", "publishing", "retrying", "waiting"},
           hook' = [hook EXCEPT ![r] = h]
    PROVE  Answering'
BY DEF Answering, HookType

LEMMA Answers ==
    ASSUME Answering, NEW r \in Requests, NEW v \in Verdicts,
           answer' = [answer EXCEPT ![r] = v],
           NEW h \in {"clearing", "done"}, hook' = [hook EXCEPT ![r] = h]
    PROVE  Answering'
<1>1. hook' \in HookType
  BY DEF Answering, HookType
<1>2. answer' \in [Requests -> Verdicts \cup {"none"}]
  BY DEF Answering
<1>3. ASSUME NEW q \in Requests PROVE answer'[q] # "none" <=> hook'[q] \in {"clearing", "done"}
  BY DEF Answering, HookType, Verdicts
<1> QED
  BY <1>1, <1>2, <1>3 DEF Answering

\* Each step keeps the types.
LEMMA GateTypeStep == TypeOK /\ [Next]_vars => TypeOK'
<1> SUFFICES ASSUME TypeOK, [Next]_vars PROVE TypeOK'
  OBVIOUS
<1> USE BrokerAssumption, GateBoundAssumption
<1>1. ASSUME NEW r \in Requests, HookStep(r) PROVE TypeOK'
  <2>1. CASE HookConnects(r)
    <3>1. file \in Brokers /\ <<>> \in Seq(Lines)
      BY <2>1 DEF HookConnects, Listening
    <3>2. /\ conn' \in [Requests -> Brokers \cup {NoBroker}]
          /\ inbox' \in [Requests -> Seq(Lines)]
          /\ asked' \subseteq Requests \X Brokers
      BY <2>1, <3>1 DEF HookConnects, Connects, TypeOK
    <3>3. Answering'
      <4>1. Answering /\ hook[r] \notin {"clearing", "done"}
        BY <2>1 DEF HookConnects, TypeOK, Answering, HookType
      <4> QED
        BY <2>1, <4>1, AsksOn, Answers DEF HookConnects, Verdicts
    <3> QED
      BY <2>1, <3>2, <3>3 DEF HookConnects, Answering, HookType, TypeOK, startVars, brokerVars,
         phoneVars, relayVars, boundVars
  <2>2. CASE HookUnreachable(r)
    BY <2>2 DEF HookUnreachable, TypeOK, wireVars, startVars, brokerVars, phoneVars,
       relayVars, boundVars
  <2>3. CASE HookGivesUp(r)
    BY <2>3 DEF HookGivesUp, TypeOK, Verdicts, wireVars, startVars, brokerVars, phoneVars,
       relayVars, boundVars
  <2>4. CASE HookDecides(r)
    <3>1. Head(inbox[r])[2] \in Verdicts /\ Tail(inbox[r]) \in Seq(Lines)
      BY <2>4 DEF HookDecides, Meant, TypeOK, Lines
    <3> QED
      BY <2>4, <3>1 DEF HookDecides, TypeOK, startVars, brokerVars, phoneVars, relayVars,
         boundVars, Verdicts
  <2>5. CASE HookSkips(r)
    <3>1. Tail(inbox[r]) \in Seq(Lines)
      BY <2>5 DEF HookSkips, TypeOK
    <3> QED
      BY <2>5, <3>1 DEF HookSkips, TypeOK, hookVars, startVars, brokerVars, phoneVars,
         relayVars, boundVars
  <2>6. CASE HookDisconnected(r)
    <3>1. <<>> \in Seq(Lines)
      OBVIOUS
    <3> QED
      BY <2>6, <3>1 DEF HookDisconnected, TypeOK, startVars, brokerVars, phoneVars, relayVars,
         boundVars
  <2>7. CASE HookTimesOut(r)
    BY <2>7 DEF HookTimesOut, TypeOK, Verdicts, wireVars, startVars, brokerVars, phoneVars,
       relayVars, boundVars
  <2>8. ASSUME NEW ok \in BOOLEAN, HookPublishes(r, ok) PROVE TypeOK'
    BY <2>8 DEF HookPublishes, Relays, TypeOK, wireVars, startVars, brokerVars, phoneVars,
       boundVars
  <2>9. ASSUME NEW ok \in BOOLEAN, HookClears(r, ok) PROVE TypeOK'
    <3>1. <<>> \in Seq(Lines)
      OBVIOUS
    <3> QED
      BY <2>9, <3>1 DEF HookClears, Relays, Cleared, TypeOK, startVars, brokerVars, phoneVars,
         boundVars
  <2> QED
    BY <1>1, <2>1, <2>2, <2>3, <2>4, <2>5, <2>6, <2>7, <2>8, <2>9 DEF HookStep
<1>2. ASSUME NEW b \in Brokers, StartStep(b) PROVE TypeOK'
  <2>1. ASSUME NEW next \in {"handing", "waiting", "closed"}, ProbeFindsAlive(b, next)
        PROVE TypeOK'
    <3>1. file \in Brokers /\ Visited(file) \in [Brokers -> BOOLEAN]
      BY <2>1, VisitedType DEF ProbeFindsAlive, Alive, Listening
    <3>2. offers' \subseteq Brokers \X Brokers /\ handed' \in [Brokers -> BOOLEAN]
      <4>1. CASE next = "handing"
        <5>1. offers' = offers \cup {<<b, file>>} /\ handed' = [handed EXCEPT ![b] = TRUE]
          BY <2>1, <4>1 DEF ProbeFindsAlive
        <5> QED
          BY <3>1, <5>1 DEF TypeOK
      <4>2. CASE next # "handing"
        BY <2>1, <4>2 DEF ProbeFindsAlive, TypeOK
      <4> QED
        BY <4>1, <4>2
    <3>3. broker' \in [Brokers -> Starting \cup {"off", "listening", "closed"}]
      BY <2>1 DEF ProbeFindsAlive, TypeOK, Starting
    <3> QED
      BY <2>1, <3>1, <3>2, <3>3 DEF ProbeFindsAlive, TypeOK, hookVars, wireVars, phoneVars,
         relayVars, boundVars
  <2>2. CASE Looks(b)
    BY <2>2 DEF Looks, Starting, TypeOK, hookVars, wireVars, phoneVars, relayVars, boundVars
  <2>3. CASE LooksAgain(b) \/ Unlinks(b)
    BY <2>3, ZenonT(60) DEF LooksAgain, Unlinks, Starting, TypeOK, hookVars, wireVars, startVars, phoneVars,
       relayVars, boundVars
  <2>4. CASE ProbeFindsDead(b) \/ Compares(b)
    BY <2>4 DEF ProbeFindsDead, Compares, Starting, TypeOK, hookVars, wireVars, startVars, phoneVars,
       relayVars, boundVars
  <2>5. CASE Binds(b)
    <3>1. file' \in Brokers \cup {NoBroker}
      BY <2>5 DEF Binds, TypeOK
    <3>2. broker' \in [Brokers -> Starting \cup {"off", "listening", "closed"}]
      BY <2>5 DEF Binds, TypeOK
    <3> QED
      BY <2>5, <3>1, <3>2 DEF Binds, TypeOK, hookVars, wireVars, startVars, phoneVars, relayVars,
         boundVars
  <2> QED
    BY <1>2, <2>1, <2>2, <2>3, <2>4, <2>5 DEF StartStep
<1>3. ASSUME NEW b \in Brokers, Disconnects(b)
      PROVE  /\ inbox' \in [Requests -> Seq(Lines)]
             /\ clients' \in [Brokers -> SUBSET Requests]
             /\ asked' \subseteq Requests \X Brokers /\ offers' \subseteq Brokers \X Brokers
             /\ toBroker' \in [Brokers -> Seq(Requests \X Verdicts)]
             /\ broker' \in [Brokers -> Starting \cup {"off", "listening", "closed"}]
  <2>1. \A r \in Requests : Append(inbox[r], Eof) \in Seq(Lines)
    BY DEF TypeOK, Lines
  <2>2. inbox' \in [Requests -> Seq(Lines)]
    BY <1>3, <2>1 DEF Disconnects, TypeOK
  <2>3. toBroker' \in [Brokers -> Seq(Requests \X Verdicts)]
    BY <1>3 DEF Disconnects, TypeOK
  <2> QED
    BY <1>3, <2>2, <2>3 DEF Disconnects, TypeOK
<1>4. ASSUME NEW b \in Brokers, RelayStep(b) PROVE TypeOK'
  <2>1. CASE Broadcasts(b)
    <3>1. Head(toBroker[b]) \in Lines /\ Tail(toBroker[b]) \in Seq(Requests \X Verdicts)
      BY <2>1 DEF Broadcasts, TypeOK, Lines
    <3>2. \A r \in Requests : Append(inbox[r], Head(toBroker[b])) \in Seq(Lines)
      BY <3>1 DEF TypeOK
    <3>3. inbox' \in [Requests -> Seq(Lines)]
      BY <2>1, <3>2 DEF Broadcasts, TypeOK
    <3>4. toBroker' \in [Brokers -> Seq(Requests \X Verdicts)]
      BY <2>1, <3>1 DEF Broadcasts, TypeOK
    <3> QED
      BY <2>1, <3>3, <3>4 DEF Broadcasts, TypeOK, hookVars, startVars, brokerVars, relayVars,
         boundVars
  <2>2. CASE VisitorGone(b)
    BY <2>2, <1>3 DEF VisitorGone, Finishes, TypeOK, hookVars, relayVars, boundVars
  <2>3. CASE InputEnds(b)
    <3>1. CASE Listening(b) /\ Finishes(b)
      BY <2>3, <3>1, <1>3 DEF InputEnds, Finishes, TypeOK, hookVars, relayVars, boundVars
    <3>2. CASE /\ broker' = [broker EXCEPT ![b] = "closed"]
               /\ UNCHANGED <<inbox, clients, asked, offers, toBroker, file>>
      BY <2>3, <3>2 DEF InputEnds, TypeOK, hookVars, relayVars, boundVars
    <3> QED
      BY <2>3, <3>1, <3>2 DEF InputEnds
  <2>4. ASSUME NEW r \in Requests, Accepts(b, r) PROVE TypeOK'
    <3>1. inbox' \in [Requests -> Seq(Lines)]
      <4>1. <<Eof>> \in Seq(Lines)
        BY DEF Lines
      <4>2. inbox' = inbox \/ inbox' = [inbox EXCEPT ![r] = <<Eof>>]
        BY <2>4 DEF Accepts
      <4> QED
        BY <4>1, <4>2 DEF TypeOK
    <3>2. clients' \in [Brokers -> SUBSET Requests]
      <4>1. clients[b] \cup {r} \in SUBSET Requests
        BY DEF TypeOK
      <4>2. clients' = clients \/ clients' = [clients EXCEPT ![b] = clients[b] \cup {r}]
        BY <2>4 DEF Accepts
      <4>3. clients \in [Brokers -> SUBSET Requests]
        BY DEF TypeOK
      <4> QED
        BY <4>1, <4>2, <4>3
    <3>3. leaving' \in [Brokers -> BOOLEAN]
      <4>1. leaving' = leaving \/ leaving' = Visited(b)
        BY <2>4 DEF Accepts
      <4> QED
        BY <4>1, VisitedType DEF TypeOK
    <3>4. asked' \subseteq Requests \X Brokers
      BY <2>4 DEF Accepts, TypeOK
    <3> QED
      BY <2>4, <3>1, <3>2, <3>3, <3>4 DEF Accepts, TypeOK, hookVars, startVars, phoneVars,
         relayVars, boundVars
  <2>5. ASSUME NEW r \in Requests, RelaysRequest(b, r) PROVE TypeOK'
    BY <2>5 DEF RelaysRequest, TypeOK, hookVars, startVars, brokerVars, relayVars, boundVars
  <2>6. ASSUME NEW r \in Requests, ClientGone(b, r) PROVE TypeOK'
    <3>1. CASE Finishes(b)
      BY <2>6, <3>1, <1>3 DEF ClientGone, Finishes, TypeOK, hookVars, relayVars, boundVars
    <3>2. CASE /\ clients' = [clients EXCEPT ![b] = @ \ {r}]
               /\ UNCHANGED <<inbox, asked, offers, toBroker, broker, file>>
      BY <2>6, <3>2 DEF ClientGone, TypeOK, hookVars, relayVars, boundVars
    <3> QED
      BY <2>6, <3>1, <3>2 DEF ClientGone
  <2>7. ASSUME NEW c \in Brokers, HandoffServed(b, c) PROVE TypeOK'
    <3>1. CASE Finishes(b) /\ UNCHANGED leaving
      BY <2>7, <3>1, <1>3 DEF HandoffServed, Finishes, TypeOK, hookVars, relayVars, boundVars
    <3>2. CASE /\ offers' = offers \ {<<c, b>>} /\ leaving' = Visited(b)
               /\ UNCHANGED <<inbox, clients, asked, toBroker, broker, file>>
      BY <2>7, <3>2 DEF HandoffServed, Visited, TypeOK, hookVars, relayVars, boundVars
    <3> QED
      BY <2>7, <3>1, <3>2 DEF HandoffServed
  <2> QED
    BY <1>4, <2>1, <2>2, <2>3, <2>4, <2>5, <2>6, <2>7 DEF RelayStep
<1>5. CASE PhoneStep
  <2>1. ASSUME NEW b \in Brokers, BrokerStarts(b) PROVE TypeOK'
    BY <2>1 DEF BrokerStarts, Starting, TypeOK, hookVars, wireVars, startVars, relayVars, boundVars
  <2>2. ASSUME NEW b \in Brokers, NEW r \in Requests, NEW d \in Verdicts, Taps(b, r, d)
        PROVE TypeOK'
    <3>1. Append(toBroker[b], <<r, d>>) \in Seq(Requests \X Verdicts)
      BY DEF TypeOK
    <3> QED
      BY <2>2, <3>1 DEF Taps, TypeOK, hookVars, wireVars, startVars, brokerVars, relayVars,
         boundVars
  <2>3. ASSUME NEW b \in Brokers, NEW lost \in BOOLEAN, ChannelEnds(b, lost) PROVE TypeOK'
    <3>1. <<>> \in Seq(Requests \X Verdicts)
      OBVIOUS
    <3> QED
      BY <2>3, <3>1 DEF ChannelEnds, TypeOK, hookVars, wireVars, startVars, brokerVars, relayVars,
         boundVars
  <2> QED
    BY <1>5, <2>1, <2>2, <2>3 DEF PhoneStep
<1>6. CASE HostStep
  <2>1. ASSUME NEW r \in Requests, NEW m \in Modes, HookStart(r, m) PROVE TypeOK'
    <3>1. Answering'
      <4>1. Answering /\ hook[r] \notin {"clearing", "done"}
        BY <2>1 DEF HookStart, TypeOK, Answering, HookType
      <4> QED
        BY <2>1, <4>1, AsksOn, Answers DEF HookStart, Verdicts
    <3>2. mode' \in [Requests -> Modes \cup {"none"}]
      BY <2>1 DEF HookStart, TypeOK
    <3> QED
      BY <2>1, <3>1, <3>2 DEF HookStart, Answering, HookType, TypeOK, wireVars, startVars,
         brokerVars, phoneVars, relayVars, boundVars
  <2>2. ASSUME NEW r \in Requests, DeadlinePasses(r) PROVE TypeOK'
    BY <2>2 DEF DeadlinePasses, TypeOK, wireVars, startVars, brokerVars, phoneVars,
       relayVars, boundVars
  <2>3. ASSUME NEW b \in Brokers, BrokerKilled(b) PROVE TypeOK'
    BY <2>3, <1>3 DEF BrokerKilled, TypeOK, hookVars, relayVars
  <2>4. CASE VersionInstalled
    BY <2>4 DEF VersionInstalled, TypeOK, hookVars, wireVars, startVars, phoneVars, relayVars
  <2> QED
    BY <1>6, <2>1, <2>2, <2>3, <2>4 DEF HostStep
<1>7. CASE UNCHANGED vars
  BY <1>7 DEF TypeOK, vars, hookVars, wireVars, startVars, brokerVars, phoneVars, relayVars,
     boundVars
<1> QED
  BY <1>1, <1>2, <1>4, <1>5, <1>6, <1>7 DEF Next

-----------------------------------------------------------------------------
\* Lines of decisions that were said.

LEMMA SaidTail ==
    ASSUME NEW w, NEW s \in Seq(Lines), s # <<>>, SaidIn(s, w)
    PROVE  SaidIn(Tail(s), w)
<1>1. Len(Tail(s)) = Len(s) - 1 /\ \A i \in 1..Len(Tail(s)) : Tail(s)[i] = s[i + 1]
  OBVIOUS
<1> QED
  BY <1>1 DEF SaidIn

LEMMA SaidAppend ==
    ASSUME NEW w, NEW s \in Seq(Lines), NEW l \in Lines, SaidIn(s, w),
           l # Eof => l[2] \in w[l[1]]
    PROVE  SaidIn(Append(s, l), w)
<1>1. /\ Len(Append(s, l)) = Len(s) + 1
      /\ \A i \in 1..Len(s) : Append(s, l)[i] = s[i]
      /\ Append(s, l)[Len(s) + 1] = l
  OBVIOUS
<1> QED
  BY <1>1 DEF SaidIn

LEMMA SaidMore ==
    ASSUME NEW w, NEW v, NEW s \in Seq(Lines), SaidIn(s, w),
           \A r \in Requests : w[r] \subseteq v[r]
    PROVE  SaidIn(s, v)
<1>1. ASSUME NEW i \in 1..Len(s), s[i] # Eof PROVE s[i][1] \in Requests
  BY <1>1 DEF Lines
<1> QED
  BY <1>1 DEF SaidIn
-----------------------------------------------------------------------------
\* The user never takes back what he said.
LEMMA SaidGrows == TypeOK /\ [Next]_vars => \A r \in Requests : said[r] \subseteq said'[r]
<1> SUFFICES ASSUME TypeOK, [Next]_vars, NEW q \in Requests PROVE said[q] \subseteq said'[q]
  OBVIOUS
<1>1. CASE PhoneStep
  <2>1. ASSUME NEW b \in Brokers, NEW r \in Requests, NEW d \in Verdicts, Taps(b, r, d)
        PROVE said[q] \subseteq said'[q]
    BY <2>1 DEF Taps, TypeOK
  <2>2. ASSUME NEW b \in Brokers, BrokerStarts(b) PROVE said' = said
    BY <2>2 DEF BrokerStarts
  <2>3. ASSUME NEW b \in Brokers, NEW lost \in BOOLEAN, ChannelEnds(b, lost) PROVE said' = said
    BY <2>3 DEF ChannelEnds
  <2> QED
    BY <1>1, <2>1, <2>2, <2>3 DEF PhoneStep
<1>2. ASSUME NEW r \in Requests, HookStep(r) PROVE said' = said
  BY <1>2 DEF HookStep, HookConnects, HookUnreachable, HookGivesUp, HookDecides, HookSkips,
     HookDisconnected, HookTimesOut, HookPublishes, HookClears, phoneVars
<1>3. ASSUME NEW b \in Brokers, StartStep(b) PROVE said' = said
  BY <1>3 DEF StartStep, Looks, ProbeFindsDead, Compares, LooksAgain, Unlinks, Binds, ProbeFindsAlive,
     phoneVars
<1>4. ASSUME NEW b \in Brokers, RelayStep(b) PROVE said' = said
  BY <1>4 DEF RelayStep, Broadcasts, VisitorGone, InputEnds, Accepts, RelaysRequest, ClientGone,
     HandoffServed, phoneVars
<1>5. CASE HostStep
  BY <1>5 DEF HostStep, HookStart, DeadlinePasses, BrokerKilled, VersionInstalled, phoneVars
<1>6. CASE UNCHANGED vars
  BY <1>6 DEF vars, phoneVars
<1> QED
  BY <1>1, <1>2, <1>3, <1>4, <1>5, <1>6 DEF Next

\* What goes to a broker is what the user says on the phone.
LEMMA SentStep == TypeOK /\ Sent /\ [Next]_vars => Sent'
<1> SUFFICES ASSUME TypeOK, Sent, [Next]_vars, NEW c \in Brokers
             PROVE  SaidIn(toBroker'[c], said')
  BY DEF Sent
<1> DEFINE More == \A r \in Requests : said[r] \subseteq said'[r]
<1>1. More /\ toBroker[c] \in Seq(Lines) /\ SaidIn(toBroker[c], said)
  BY SaidGrows DEF Sent, TypeOK, Lines
<1>2. SaidIn(toBroker[c], said')
  BY <1>1, SaidMore
<1>3. ASSUME toBroker'[c] \in {toBroker[c], <<>>} PROVE SaidIn(toBroker'[c], said')
  BY <1>2, <1>3 DEF SaidIn
<1>4. ASSUME NEW b \in Brokers, Disconnects(b) PROVE toBroker'[c] \in {toBroker[c], <<>>}
  BY <1>4 DEF Disconnects, TypeOK
<1>5. ASSUME NEW r \in Requests, HookStep(r) PROVE toBroker' = toBroker
  BY <1>5 DEF HookStep, HookConnects, HookUnreachable, HookGivesUp, HookDecides, HookSkips,
     HookDisconnected, HookTimesOut, HookPublishes, HookClears, phoneVars
<1>6. ASSUME NEW b \in Brokers, StartStep(b) PROVE toBroker' = toBroker
  BY <1>6 DEF StartStep, Looks, ProbeFindsDead, Compares, LooksAgain, Unlinks, Binds, ProbeFindsAlive,
     phoneVars
<1>7. ASSUME NEW b \in Brokers, RelayStep(b) PROVE SaidIn(toBroker'[c], said')
  <2>1. CASE Broadcasts(b)
    <3>1. toBroker'[c] = IF c = b THEN Tail(toBroker[c]) ELSE toBroker[c]
      BY <2>1 DEF Broadcasts, TypeOK
    <3>2. c = b => toBroker[c] # <<>>
      BY <2>1 DEF Broadcasts
    <3> QED
      BY <1>1, <1>2, <3>1, <3>2, SaidTail
  <2>2. CASE VisitorGone(b)
    BY <2>2, <1>3, <1>4 DEF VisitorGone, Finishes
  <2>3. CASE InputEnds(b)
    BY <2>3, <1>3, <1>4 DEF InputEnds, Finishes
  <2>4. ASSUME NEW r \in Requests, Accepts(b, r) \/ RelaysRequest(b, r) \/ ClientGone(b, r)
        PROVE  SaidIn(toBroker'[c], said')
    BY <2>4, <1>3, <1>4 DEF Accepts, RelaysRequest, ClientGone, Finishes, phoneVars
  <2>5. ASSUME NEW d \in Brokers, HandoffServed(b, d) PROVE SaidIn(toBroker'[c], said')
    BY <2>5, <1>3, <1>4 DEF HandoffServed, Finishes
  <2> QED
    BY <1>7, <2>1, <2>2, <2>3, <2>4, <2>5 DEF RelayStep
<1>8. CASE PhoneStep
  <2>1. ASSUME NEW b \in Brokers, NEW r \in Requests, NEW d \in Verdicts, Taps(b, r, d)
        PROVE  SaidIn(toBroker'[c], said')
    <3>1. toBroker'[c] = IF c = b THEN Append(toBroker[c], <<r, d>>) ELSE toBroker[c]
      BY <2>1 DEF Taps, TypeOK
    <3>2. <<r, d>> \in Lines /\ d \in said'[r]
      BY <2>1 DEF Taps, TypeOK, Lines
    <3> QED
      BY <1>1, <1>2, <3>1, <3>2, SaidAppend
  <2>2. ASSUME NEW b \in Brokers, BrokerStarts(b) PROVE toBroker' = toBroker
    BY <2>2 DEF BrokerStarts
  <2>3. ASSUME NEW b \in Brokers, NEW lost \in BOOLEAN, ChannelEnds(b, lost)
        PROVE  toBroker'[c] \in {toBroker[c], <<>>}
    BY <2>3 DEF ChannelEnds, TypeOK
  <2> QED
    BY <1>3, <1>8, <2>1, <2>2, <2>3 DEF PhoneStep
<1>9. CASE HostStep
  <2>1. ASSUME NEW b \in Brokers, BrokerKilled(b) PROVE toBroker'[c] \in {toBroker[c], <<>>}
    BY <2>1, <1>4 DEF BrokerKilled
  <2>2. CASE \/ VersionInstalled
             \/ \E r \in Requests : DeadlinePasses(r) \/ \E m \in Modes : HookStart(r, m)
    BY <2>2, <1>3 DEF VersionInstalled, DeadlinePasses, HookStart, phoneVars
  <2> QED
    BY <1>3, <1>9, <2>1, <2>2 DEF HostStep
<1>10. CASE UNCHANGED vars
  BY <1>3, <1>10 DEF vars, phoneVars
<1> QED
  BY <1>3, <1>5, <1>6, <1>7, <1>8, <1>9, <1>10 DEF Next

\* What goes to a hook is what a broker got from the phone.
LEMMA ReceivedStep == TypeOK /\ Received /\ Sent /\ [Next]_vars => Received'
<1> SUFFICES ASSUME TypeOK, Received, Sent, [Next]_vars, NEW q \in Requests
             PROVE  SaidIn(inbox'[q], said')
  BY DEF Received
<1>1. inbox[q] \in Seq(Lines) /\ Eof \in Lines
  BY DEF TypeOK, Lines
<1>2. SaidIn(inbox[q], said')
  BY <1>1, SaidGrows, SaidMore DEF Received
<1>3. ASSUME inbox'[q] \in {inbox[q], <<>>, Append(inbox[q], Eof), <<Eof>>}
      PROVE SaidIn(inbox'[q], said')
  <2>1. SaidIn(Append(inbox[q], Eof), said')
    BY <1>1, <1>2, SaidAppend
  <2>2. SaidIn(<<>>, said') /\ SaidIn(<<Eof>>, said')
    BY DEF SaidIn
  <2> QED
    BY <1>2, <1>3, <2>1, <2>2
<1>4. ASSUME NEW b \in Brokers, Disconnects(b) PROVE inbox'[q] \in {inbox[q], Append(inbox[q], Eof)}
  BY <1>4 DEF Disconnects
<1>5. ASSUME NEW r \in Requests, HookStep(r) PROVE SaidIn(inbox'[q], said')
  <2>1. CASE HookDecides(r) \/ HookSkips(r)
    <3>1. inbox'[q] = IF q = r THEN Tail(inbox[q]) ELSE inbox[q]
      BY <2>1, ZenonT(60) DEF HookDecides, HookSkips, TypeOK
    <3>2. q = r => inbox[q] # <<>>
      BY <2>1 DEF HookDecides, HookSkips
    <3> QED
      BY <1>1, <1>2, <3>1, <3>2, SaidTail
  <2>2. CASE HookConnects(r) \/ HookDisconnected(r) \/ \E ok \in BOOLEAN : HookClears(r, ok)
    <3>1. inbox'[q] \in {inbox[q], <<>>}
      BY <2>2 DEF HookConnects, Connects, HookDisconnected, HookClears, TypeOK
    <3> QED
      BY <1>3, <3>1
  <2>3. CASE \/ HookUnreachable(r) \/ HookGivesUp(r) \/ HookTimesOut(r)
             \/ \E ok \in BOOLEAN : HookPublishes(r, ok)
    <3>1. inbox' = inbox
      BY <2>3 DEF HookUnreachable, HookGivesUp, HookTimesOut, HookPublishes, wireVars
    <3> QED
      BY <1>3, <3>1
  <2> QED
    BY <1>5, <2>1, <2>2, <2>3 DEF HookStep
<1>6. ASSUME NEW b \in Brokers, StartStep(b) PROVE inbox' = inbox
  BY <1>6 DEF StartStep, Looks, ProbeFindsDead, Compares, LooksAgain, Unlinks, Binds, ProbeFindsAlive,
     wireVars
<1>7. ASSUME NEW b \in Brokers, RelayStep(b) PROVE SaidIn(inbox'[q], said')
  <2>1. CASE Broadcasts(b)
    <3>1. toBroker[b] # <<>> /\ toBroker[b] \in Seq(Requests \X Verdicts) /\ said' = said
      BY <2>1 DEF Broadcasts, TypeOK
    <3>2. /\ Head(toBroker[b]) = toBroker[b][1] /\ 1 \in 1..Len(toBroker[b])
          /\ Head(toBroker[b]) \in Lines
      BY <3>1 DEF Lines
    <3>3. Head(toBroker[b]) # Eof => Head(toBroker[b])[2] \in said'[Head(toBroker[b])[1]]
      BY <3>1, <3>2 DEF Sent, SaidIn
    <3>4. inbox'[q] \in {inbox[q], Append(inbox[q], Head(toBroker[b]))}
      BY <2>1 DEF Broadcasts
    <3> QED
      BY <1>1, <1>2, <3>2, <3>3, <3>4, SaidAppend
  <2>2. CASE VisitorGone(b)
    BY <2>2, <1>3, <1>4 DEF VisitorGone, Finishes
  <2>3. CASE InputEnds(b)
    BY <2>3, <1>3, <1>4 DEF InputEnds, Finishes
  <2>4. ASSUME NEW r \in Requests, Accepts(b, r) PROVE SaidIn(inbox'[q], said')
    <3>1. inbox'[q] \in {inbox[q], <<Eof>>}
      BY <2>4 DEF Accepts, TypeOK
    <3> QED
      BY <1>3, <3>1
  <2>5. ASSUME NEW r \in Requests, RelaysRequest(b, r) \/ ClientGone(b, r)
        PROVE  SaidIn(inbox'[q], said')
    BY <2>5, <1>3, <1>4 DEF RelaysRequest, ClientGone, Finishes
  <2>6. ASSUME NEW d \in Brokers, HandoffServed(b, d) PROVE SaidIn(inbox'[q], said')
    BY <2>6, <1>3, <1>4 DEF HandoffServed, Finishes
  <2> QED
    BY <1>7, <2>1, <2>2, <2>3, <2>4, <2>5, <2>6 DEF RelayStep
<1>8. CASE PhoneStep
  <2>1. inbox' = inbox
    BY <1>8 DEF PhoneStep, Taps, BrokerStarts, ChannelEnds, wireVars
  <2> QED
    BY <1>3, <2>1
<1>9. CASE HostStep
  <2>1. ASSUME NEW b \in Brokers, BrokerKilled(b) PROVE SaidIn(inbox'[q], said')
    BY <2>1, <1>3, <1>4 DEF BrokerKilled
  <2>2. CASE \/ VersionInstalled
             \/ \E r \in Requests : DeadlinePasses(r) \/ \E m \in Modes : HookStart(r, m)
    BY <2>2, <1>3 DEF VersionInstalled, DeadlinePasses, HookStart, wireVars
  <2> QED
    BY <1>9, <2>1, <2>2 DEF HostStep
<1>10. CASE UNCHANGED vars
  BY <1>3, <1>10 DEF vars, wireVars
<1> QED
  BY <1>3, <1>5, <1>6, <1>7, <1>8, <1>9, <1>10 DEF Next

\* A hook allows a call for its mode, or takes the decision on its own request.
LEMMA GateStep == TypeOK /\ GateSound /\ Received /\ [Next]_vars => GateSound'
<1> SUFFICES ASSUME TypeOK, GateSound, Received, [Next]_vars, NEW q \in Requests,
                    answer'[q] = "allow"
             PROVE  AutoAllowed(q, mode'[q]) \/ "allow" \in said'[q]
  BY DEF GateSound
<1>1. "allow" \in said[q] => "allow" \in said'[q]
  BY SaidGrows
<1>2. ASSUME answer[q] = "allow", mode'[q] = mode[q]
      PROVE AutoAllowed(q, mode'[q]) \/ "allow" \in said'[q]
  BY <1>1, <1>2 DEF GateSound
<1>3. ASSUME NEW r \in Requests, HookStep(r)
      PROVE AutoAllowed(q, mode'[q]) \/ "allow" \in said'[q]
  <2>1. CASE HookDecides(r)
    <3>1. CASE q = r
      <4>1. inbox[q] \in Seq(Lines) /\ inbox[q] # <<>> /\ said' = said
        BY <2>1, <3>1 DEF HookDecides, TypeOK, phoneVars
      <4>2. Head(inbox[q]) = inbox[q][1] /\ 1 \in 1..Len(inbox[q])
        BY <4>1
      <4>3. inbox[q][1] # Eof /\ inbox[q][1][1] = q /\ inbox[q][1][2] = "allow"
        BY <2>1, <3>1, <4>2 DEF HookDecides, Meant, TypeOK
      <4> QED
        BY <4>1, <4>2, <4>3 DEF Received, SaidIn
    <3>2. CASE q # r
      BY <1>2, <2>1, <3>2 DEF HookDecides, TypeOK
    <3> QED
      BY <3>1, <3>2
  <2>2. CASE \/ HookConnects(r) \/ HookGivesUp(r) \/ HookTimesOut(r)
    <3>1. mode' = mode /\ (answer' = answer \/ answer' = [answer EXCEPT ![r] = "deny"])
      BY <2>2 DEF HookConnects, HookGivesUp, HookTimesOut
    <3> QED
      BY <1>2, <3>1 DEF TypeOK
  <2>3. CASE \/ HookUnreachable(r) \/ HookSkips(r) \/ HookDisconnected(r)
             \/ \E ok \in BOOLEAN : HookPublishes(r, ok) \/ HookClears(r, ok)
    BY <1>2, <2>3 DEF HookUnreachable, HookSkips, HookDisconnected, HookPublishes, HookClears,
       hookVars
  <2> QED
    BY <1>3, <2>1, <2>2, <2>3 DEF HookStep
<1>4. ASSUME NEW b \in Brokers, StartStep(b) PROVE answer' = answer /\ mode' = mode
  BY <1>4 DEF StartStep, Looks, ProbeFindsDead, Compares, LooksAgain, Unlinks, Binds, ProbeFindsAlive,
     hookVars
<1>5. ASSUME NEW b \in Brokers, RelayStep(b) PROVE answer' = answer /\ mode' = mode
  BY <1>5 DEF RelayStep, Broadcasts, VisitorGone, InputEnds, Accepts, RelaysRequest, ClientGone,
     HandoffServed, hookVars
<1>6. CASE PhoneStep
  BY <1>2, <1>6 DEF PhoneStep, Taps, BrokerStarts, ChannelEnds, hookVars
<1>7. CASE HostStep
  <2>1. ASSUME NEW r \in Requests, NEW m \in Modes, HookStart(r, m)
        PROVE AutoAllowed(q, mode'[q]) \/ "allow" \in said'[q]
    <3>1. CASE q = r
      <4>1. answer[r] # "allow"
        BY <2>1 DEF HookStart, TypeOK
      <4>2. AutoAllowed(r, m) /\ mode'[r] = m
        BY <2>1, <3>1, <4>1 DEF HookStart, TypeOK
      <4> QED
        BY <3>1, <4>2
    <3>2. CASE q # r
      <4>1. answer'[q] = answer[q] /\ mode'[q] = mode[q]
        BY <2>1, <3>2 DEF HookStart, TypeOK
      <4> QED
        BY <1>2, <4>1
    <3> QED
      BY <3>1, <3>2
  <2>2. CASE VersionInstalled \/ (\E r \in Requests : DeadlinePasses(r))
             \/ (\E b \in Brokers : BrokerKilled(b))
    BY <1>2, <2>2 DEF VersionInstalled, DeadlinePasses, BrokerKilled, hookVars
  <2> QED
    BY <1>7, <2>1, <2>2 DEF HostStep
<1>8. CASE UNCHANGED vars
  BY <1>2, <1>8 DEF vars, hookVars
<1> QED
  BY <1>2, <1>3, <1>4, <1>5, <1>6, <1>7, <1>8 DEF Next
-----------------------------------------------------------------------------
\* The socket file.

\* A broker that stops while it is still starting leaves the file alone.
LEMMA StopsStarting ==
    ASSUME TypeOK, Files, NEW b \in Brokers, broker[b] \in Starting,
           NEW k \in {"looking", "probing", "handing", "waiting", "closed"},
           broker' = [broker EXCEPT ![b] = k], file' = file, kills' = kills
    PROVE  Files'
<1>1. \A c \in Brokers : Listening(c)' <=> Listening(c)
  BY DEF Listening, TypeOK, Starting
<1>2. \A c \in Brokers : broker'[c] \in Starting => broker[c] \in Starting
  BY DEF TypeOK
<1>3. \A c \in Brokers :
        broker'[c] \in {"unlinking", "binding"} => broker[c] \in {"unlinking", "binding"}
  BY DEF TypeOK
<1>4. Listening(file)' <=> Listening(file)
  BY DEF Listening, TypeOK, Starting
<1> QED
  BY <1>1, <1>2, <1>3, <1>4 DEF Files, SocketReachable, StartsAlone, NoneKilled, TypeOK

\* A listener that ends removes its own file and no other's.
LEMMA ListenerEnds ==
    ASSUME TypeOK, Files, NEW b \in Brokers, Listening(b), Finishes(b), kills' = kills
    PROVE  Files'
<1>1. broker' = [broker EXCEPT ![b] = "closed"] /\ file' = NoBroker
  BY DEF Finishes, Disconnects
<1>2. \A c \in Brokers :
        broker'[c] \in Starting \cup {"listening"} => c # b /\ broker'[c] = broker[c]
  BY <1>1 DEF TypeOK, Starting
<1>3. SocketReachable'
  BY <1>1, <1>2 DEF Files, SocketReachable, Listening
<1>4. StartsAlone'
  BY <1>2 DEF Files, StartsAlone, Listening, Starting
<1>5. NoneKilled'
  BY <1>1, <1>2 DEF Files, NoneKilled, Starting
<1> QED
  BY <1>3, <1>4, <1>5 DEF Files

LEMMA FilesStep == TypeOK /\ Sockets /\ [Next]_vars => Files'
<1> SUFFICES ASSUME TypeOK, Sockets, [Next]_vars PROVE Files'
  OBVIOUS
<1>0. Files /\ SeenListened
  BY DEF Sockets
<1> USE BrokerAssumption, GateBoundAssumption
<1>1. ASSUME broker' = broker, file' = file, kills' = kills PROVE Files'
  BY <1>0, <1>1 DEF Files, SocketReachable, StartsAlone, NoneKilled, Listening
<1>2. ASSUME NEW r \in Requests, HookStep(r)
      PROVE broker' = broker /\ file' = file /\ kills' = kills
  BY <1>2 DEF HookStep, HookConnects, HookUnreachable, HookGivesUp, HookDecides, HookSkips,
     HookDisconnected, HookTimesOut, HookPublishes, HookClears, brokerVars, boundVars
<1>3. ASSUME NEW b \in Brokers, StartStep(b) PROVE Files'
  <2>1. CASE Looks(b)
    BY <2>1, <1>0, StopsStarting DEF Looks, Starting, boundVars
  <2>2. CASE LooksAgain(b)
    BY <2>2, <1>0, StopsStarting DEF LooksAgain, Starting, boundVars
  <2>3. ASSUME NEW next \in {"handing", "waiting", "closed"}, ProbeFindsAlive(b, next)
        PROVE Files'
    BY <2>3, <1>0, StopsStarting DEF ProbeFindsAlive, Starting, boundVars
  <2>4. CASE ProbeFindsDead(b)
    <3>1. /\ broker[b] = "probing" /\ file' = file /\ kills' = kills /\ ~Listening(file)
          /\ broker' = [broker EXCEPT ![b] = "refused"]
      BY <2>4 DEF ProbeFindsDead, Alive, boundVars
    <3>2. \A c \in Brokers : Listening(c)' <=> Listening(c)
      BY <3>1 DEF Listening, TypeOK
    <3>3. \A c \in Brokers : c # b => broker'[c] = broker[c]
      BY <3>1 DEF TypeOK
    <3>4. OneAtATime \/ kills = 0 => \A c \in Brokers : ~Listening(c)
      BY <1>0, <3>1 DEF Files, SocketReachable
    <3>5. SocketReachable'
      BY <3>1, <3>2, <3>4 DEF SocketReachable
    <3>6. StartsAlone'
      BY <1>0, <3>1, <3>2, <3>3, <3>4 DEF Files, StartsAlone, Starting
    <3>7. kills = 0 => file = NoBroker
      BY <1>0, <3>1 DEF Files, NoneKilled
    <3>8. NoneKilled'
      BY <1>0, <3>1, <3>3, <3>7 DEF Files, NoneKilled, TypeOK
    <3> QED
      BY <3>5, <3>6, <3>8 DEF Files
  <2>7. CASE Compares(b)
    <3>1. /\ broker[b] = "refused" /\ file' = file /\ kills' = kills
          /\ \/ /\ broker' = [broker EXCEPT ![b] = "unlinking"]
                /\ file # NoBroker /\ file = seen[b]
             \/ broker' = [broker EXCEPT ![b] = "binding"]
      BY <2>7 DEF Compares, boundVars
    <3>2. \A c \in Brokers : Listening(c)' <=> Listening(c)
      BY <3>1 DEF Listening, TypeOK
    <3>3. \A c \in Brokers : c # b => broker'[c] = broker[c]
      BY <3>1 DEF TypeOK
    <3>4. OneAtATime => \A c \in Brokers : ~Listening(c)
      BY <1>0, <3>1 DEF Files, StartsAlone
    <3>5. SocketReachable'
      BY <1>0, <3>1, <3>2 DEF Files, SocketReachable
    <3>6. StartsAlone'
      BY <1>0, <3>1, <3>2, <3>3, <3>4 DEF Files, StartsAlone, Starting
    <3>7. kills = 0 => broker'[b] = "binding"
      BY <1>0, <3>1 DEF Files, NoneKilled, SeenListened, Listening, TypeOK
    <3>8. (Listening(file))' <=> Listening(file)
      BY <3>1 DEF Listening, TypeOK
    <3>9. NoneKilled'
      BY <1>0, <3>1, <3>3, <3>7, <3>8 DEF Files, NoneKilled
    <3> QED
      BY <3>5, <3>6, <3>9 DEF Files
  <2>5. CASE Unlinks(b)
    <3>1. /\ broker[b] = "unlinking" /\ file' = NoBroker /\ kills' = kills
          /\ broker' = [broker EXCEPT ![b] = "binding"]
      BY <2>5 DEF Unlinks, boundVars
    <3>2. kills # 0
      BY <1>0, <3>1 DEF Files, NoneKilled
    <3>3. \A c \in Brokers : Listening(c)' <=> Listening(c)
      BY <3>1 DEF Listening, TypeOK
    <3>4. \A c \in Brokers : c # b => broker'[c] = broker[c]
      BY <3>1 DEF TypeOK
    <3>5. OneAtATime => \A c \in Brokers : ~Listening(c)
      BY <1>0, <3>1 DEF Files, StartsAlone
    <3>6. StartsAlone'
      BY <1>0, <3>1, <3>3, <3>4, <3>5 DEF Files, StartsAlone, Starting
    <3> QED
      BY <1>0, <3>1, <3>2, <3>3, <3>5, <3>6 DEF Files, SocketReachable, NoneKilled
  <2>6. CASE Binds(b)
    <3>1. broker[b] = "binding" /\ kills' = kills
      BY <2>6 DEF Binds, boundVars
    <3>2. CASE file' = file /\ broker' = [broker EXCEPT ![b] = "closed"]
      BY <3>1, <3>2, <1>0, StopsStarting DEF Starting
    <3>3. CASE file = NoBroker /\ file' = b /\ broker' = [broker EXCEPT ![b] = "listening"]
      <4>1. \A c \in Brokers : c # b => broker'[c] = broker[c]
        BY <3>3 DEF TypeOK
      <4>2. broker'[b] = "listening"
        BY <3>3 DEF TypeOK
      <4>3. SocketReachable'
        BY <1>0, <3>1, <3>3, <4>1 DEF Files, SocketReachable, Listening
      <4>4. StartsAlone'
        BY <1>0, <3>1, <4>1, <4>2 DEF Files, StartsAlone, Listening, Starting
      <4>5. NoneKilled'
        BY <1>0, <3>1, <3>3, <4>1, <4>2 DEF Files, NoneKilled, Listening
      <4> QED
        BY <1>0, <4>3, <4>4, <4>5 DEF Files
    <3> QED
      BY <2>6, <3>2, <3>3 DEF Binds
  <2> QED
    BY <1>3, <2>1, <2>2, <2>3, <2>4, <2>5, <2>6, <2>7 DEF StartStep
<1>4. ASSUME NEW b \in Brokers, RelayStep(b) PROVE Files'
  <2>1. CASE Broadcasts(b)
    BY <2>1, <1>1 DEF Broadcasts, brokerVars, boundVars
  <2>2. CASE VisitorGone(b)
    BY <2>2, <1>0, ListenerEnds DEF VisitorGone, boundVars
  <2>3. CASE InputEnds(b)
    BY <2>3, ListenerEnds, <1>0, StopsStarting DEF InputEnds, Starting, boundVars
  <2>4. ASSUME NEW r \in Requests, Accepts(b, r) \/ RelaysRequest(b, r) PROVE Files'
    BY <2>4, <1>1 DEF Accepts, RelaysRequest, brokerVars, boundVars
  <2>5. ASSUME NEW r \in Requests, ClientGone(b, r) PROVE Files'
    BY <2>5, <1>1, <1>0, ListenerEnds DEF ClientGone, boundVars
  <2>6. ASSUME NEW c \in Brokers, HandoffServed(b, c) PROVE Files'
    BY <2>6, <1>1, <1>0, ListenerEnds DEF HandoffServed, boundVars
  <2> QED
    BY <1>4, <2>1, <2>2, <2>3, <2>4, <2>5, <2>6 DEF RelayStep
<1>5. CASE PhoneStep
  <2>1. ASSUME NEW b \in Brokers, BrokerStarts(b) PROVE Files'
    <3>1. /\ broker[b] = "off" /\ broker' = [broker EXCEPT ![b] = "looking"]
          /\ file' = file /\ kills' = kills
          /\ OneAtATime => \A c \in Brokers : broker[c] \notin Starting
      BY <2>1 DEF BrokerStarts, boundVars
    <3>2. \A c \in Brokers : Listening(c)' <=> Listening(c)
      BY <3>1 DEF Listening, TypeOK
    <3>3. \A c \in Brokers : c # b => broker'[c] = broker[c]
      BY <3>1 DEF TypeOK
    <3>4. broker'[b] = "looking" /\ (Listening(file)' <=> Listening(file))
      BY <3>1 DEF Listening, TypeOK
    <3> QED
      BY <1>0, <3>1, <3>2, <3>3, <3>4 DEF Files, SocketReachable, StartsAlone, NoneKilled, Starting
  <2>2. ASSUME NEW b \in Brokers, NEW r \in Requests, NEW d \in Verdicts, Taps(b, r, d)
        PROVE Files'
    BY <2>2, <1>1 DEF Taps, brokerVars, boundVars
  <2>3. ASSUME NEW b \in Brokers, NEW lost \in BOOLEAN, ChannelEnds(b, lost) PROVE Files'
    BY <2>3, <1>1 DEF ChannelEnds, brokerVars, boundVars
  <2> QED
    BY <1>5, <2>1, <2>2, <2>3 DEF PhoneStep
<1>6. CASE HostStep
  <2>1. ASSUME NEW b \in Brokers, BrokerKilled(b) PROVE Files'
    <3>1. broker' = [broker EXCEPT ![b] = "closed"] /\ file' = file /\ kills' = kills + 1
      BY <2>1 DEF BrokerKilled, Disconnects
    <3>2. kills' # 0
      BY <3>1 DEF TypeOK
    <3>3. \A c \in Brokers : broker'[c] # "closed" => broker'[c] = broker[c]
      BY <3>1 DEF TypeOK
    <3>4. SocketReachable'
      BY <1>0, <3>1, <3>2, <3>3 DEF Files, SocketReachable, Listening
    <3>5. StartsAlone'
      BY <1>0, <3>3 DEF Files, StartsAlone, Listening, Starting
    <3> QED
      BY <1>0, <3>2, <3>4, <3>5 DEF Files, NoneKilled
  <2>2. CASE \/ VersionInstalled
             \/ \E r \in Requests : DeadlinePasses(r) \/ \E m \in Modes : HookStart(r, m)
    BY <2>2, <1>1 DEF VersionInstalled, DeadlinePasses, HookStart, brokerVars, boundVars
  <2> QED
    BY <1>6, <2>1, <2>2 DEF HostStep
<1>7. CASE UNCHANGED vars
  BY <1>7, <1>1 DEF vars, brokerVars, boundVars
<1> QED
  BY <1>1, <1>2, <1>3, <1>4, <1>5, <1>6, <1>7 DEF Next

\* Nobody listens again who has closed, and the file names who has listened.
LEMMA SeenStep == TypeOK /\ Sockets /\ [Next]_vars => SeenListened'
<1> SUFFICES ASSUME TypeOK, Sockets, [Next]_vars PROVE SeenListened'
  OBVIOUS
<1> USE BrokerAssumption, GateBoundAssumption
<1>0. Files /\ SeenListened
  BY DEF Sockets
<1> DEFINE Lasts == \A c \in Brokers :
                     /\ broker[c] \in {"listening", "closed"} => broker'[c] \in {"listening", "closed"}
                     /\ broker[c] = "closed" => broker'[c] = "closed"
           Fresh == \A c \in Brokers : broker'[c] = "refused" => broker[c] = "refused"
           Kept == file' \in {file, NoBroker} /\ seen' = seen /\ kills' \in {kills, kills + 1}
<1>1. ASSUME Lasts, Fresh, Kept PROVE SeenListened'
  BY <1>0, <1>1 DEF SeenListened, TypeOK
<1>2. ASSUME broker' = broker, file' = file, seen' = seen, kills' = kills PROVE SeenListened'
  BY <1>0, <1>2 DEF SeenListened
<1>3. ASSUME NEW b \in Brokers, NEW k \in {"looking", "handing", "waiting", "unlinking", "binding", "closed"},
             broker[b] \in Starting \cup {"off", "listening"}, broker[b] # "listening" \/ k = "closed",
             broker' = [broker EXCEPT ![b] = k], Kept
      PROVE  SeenListened'
  <2>1. Lasts /\ Fresh
    BY <1>3 DEF Starting, TypeOK
  <2> QED
    BY <1>1, <1>3, <2>1
<1>4. ASSUME NEW r \in Requests, HookStep(r)
      PROVE broker' = broker /\ file' = file /\ seen' = seen /\ kills' = kills
  BY <1>4 DEF HookStep, HookConnects, HookUnreachable, HookGivesUp, HookDecides, HookSkips,
     HookDisconnected, HookTimesOut, HookPublishes, HookClears, brokerVars, startVars, boundVars
<1>5. ASSUME NEW b \in Brokers, StartStep(b) PROVE SeenListened'
  <2>1. CASE Looks(b)
    <3>1. /\ broker' = [broker EXCEPT ![b] = "probing"] /\ broker[b] = "looking"
          /\ seen' = [seen EXCEPT ![b] = file] /\ file' = file /\ kills' = kills
      BY <2>1 DEF Looks, boundVars
    <3>2. Lasts /\ Fresh /\ \A c \in Brokers : broker'[c] = "refused" => c # b
      BY <3>1 DEF TypeOK
    <3>3. \A c \in Brokers : seen'[c] = IF c = b THEN file ELSE seen[c]
      BY <3>1 DEF TypeOK
    <3> QED
      BY <1>0, <3>1, <3>2, <3>3 DEF SeenListened, TypeOK
  <2>2. CASE ProbeFindsDead(b)
    <3>1. /\ broker' = [broker EXCEPT ![b] = "refused"] /\ broker[b] = "probing"
          /\ seen' = seen /\ file' = file /\ kills' = kills /\ ~Listening(file)
      BY <2>2 DEF ProbeFindsDead, Alive, startVars, boundVars
    <3>2. Lasts /\ \A c \in Brokers : broker'[c] = "refused" => c = b \/ broker[c] = "refused"
      BY <3>1 DEF TypeOK
    <3>3. kills = 0 /\ seen[b] # NoBroker => broker[seen[b]] = "closed"
      BY <1>0, <3>1 DEF SeenListened, Files, SocketReachable, Listening, TypeOK
    <3> QED
      BY <1>0, <3>1, <3>2, <3>3 DEF SeenListened, TypeOK
  <2>3. CASE Compares(b)
    BY <2>3, <1>3 DEF Compares, Starting, startVars, boundVars
  <2>4. CASE LooksAgain(b)
    BY <2>4, <1>3 DEF LooksAgain, Starting, startVars, boundVars
  <2>5. CASE Unlinks(b)
    BY <2>5, <1>3 DEF Unlinks, Starting, startVars, boundVars
  <2>6. ASSUME NEW next \in {"handing", "waiting", "closed"}, ProbeFindsAlive(b, next)
        PROVE SeenListened'
    BY <2>6, <1>3 DEF ProbeFindsAlive, Starting, boundVars
  <2>7. CASE Binds(b)
    <3>1. broker[b] = "binding" /\ seen' = seen /\ kills' = kills
      BY <2>7 DEF Binds, startVars, boundVars
    <3>2. CASE file' = file /\ broker' = [broker EXCEPT ![b] = "closed"]
      BY <1>3, <3>1, <3>2 DEF Starting
    <3>3. CASE file' = b /\ broker' = [broker EXCEPT ![b] = "listening"]
      <4>1. Lasts /\ Fresh /\ broker'[b] = "listening"
        BY <3>1, <3>3 DEF TypeOK
      <4> QED
        BY <1>0, <3>1, <3>3, <4>1 DEF SeenListened, TypeOK
    <3> QED
      BY <2>7, <3>2, <3>3 DEF Binds
  <2> QED
    BY <1>5, <2>1, <2>2, <2>3, <2>4, <2>5, <2>6, <2>7 DEF StartStep
<1>6. ASSUME NEW b \in Brokers, Finishes(b), broker[b] = "listening", seen' = seen, kills' = kills
      PROVE SeenListened'
  BY <1>6, <1>3 DEF Finishes, Disconnects
<1>7. ASSUME NEW b \in Brokers, RelayStep(b) PROVE SeenListened'
  <2>1. CASE Broadcasts(b)
    BY <2>1, <1>2 DEF Broadcasts, brokerVars, startVars, boundVars
  <2>2. CASE VisitorGone(b)
    BY <2>2, <1>6 DEF VisitorGone, Listening, boundVars
  <2>3. CASE InputEnds(b)
    BY <2>3, <1>3, <1>6 DEF InputEnds, Starting, Listening, boundVars
  <2>4. ASSUME NEW r \in Requests, Accepts(b, r) \/ RelaysRequest(b, r) PROVE SeenListened'
    BY <2>4, <1>2 DEF Accepts, RelaysRequest, brokerVars, startVars, boundVars
  <2>5. ASSUME NEW r \in Requests, ClientGone(b, r) PROVE SeenListened'
    BY <2>5, <1>2, <1>6 DEF ClientGone, Listening, boundVars
  <2>6. ASSUME NEW c \in Brokers, HandoffServed(b, c) PROVE SeenListened'
    BY <2>6, <1>2, <1>6 DEF HandoffServed, Listening, boundVars
  <2> QED
    BY <1>7, <2>1, <2>2, <2>3, <2>4, <2>5, <2>6 DEF RelayStep
<1>8. CASE PhoneStep
  <2>1. ASSUME NEW b \in Brokers, BrokerStarts(b) PROVE SeenListened'
    BY <2>1, <1>3 DEF BrokerStarts, startVars, boundVars
  <2>2. ASSUME NEW b \in Brokers, NEW r \in Requests, NEW d \in Verdicts, Taps(b, r, d)
        PROVE SeenListened'
    BY <2>2, <1>2 DEF Taps, brokerVars, startVars, boundVars
  <2>3. ASSUME NEW b \in Brokers, NEW lost \in BOOLEAN, ChannelEnds(b, lost) PROVE SeenListened'
    BY <2>3, <1>2 DEF ChannelEnds, brokerVars, startVars, boundVars
  <2> QED
    BY <1>8, <2>1, <2>2, <2>3 DEF PhoneStep
<1>9. CASE HostStep
  <2>1. ASSUME NEW b \in Brokers, BrokerKilled(b) PROVE SeenListened'
    BY <2>1, <1>3 DEF BrokerKilled, Disconnects
  <2>2. CASE \/ VersionInstalled
             \/ \E r \in Requests : DeadlinePasses(r) \/ \E m \in Modes : HookStart(r, m)
    BY <2>2, <1>2 DEF VersionInstalled, DeadlinePasses, HookStart, brokerVars, startVars, boundVars
  <2> QED
    BY <1>9, <2>1, <2>2 DEF HostStep
<1>10. CASE UNCHANGED vars
  BY <1>10, <1>2 DEF vars, brokerVars, startVars, boundVars
<1> QED
  BY <1>2, <1>4, <1>5, <1>7, <1>8, <1>9, <1>10 DEF Next

LEMMA SocketsStep == TypeOK /\ Sockets /\ [Next]_vars => Sockets'
BY FilesStep, SeenStep DEF Sockets
-----------------------------------------------------------------------------
\* The parts together are inductive.
THEOREM GateInvariant == Spec => []GateInv
<1>1. GateInv /\ [Next]_vars => GateInv'
  BY GateTypeStep, GateStep, ReceivedStep, SentStep, SocketsStep DEF GateInv, Honest
<1> QED
  BY <1>1, GateInit, PTL DEF Spec

\* Every variable keeps its type, and a hook has an answer exactly when it is
\* through (runHookCore).
THEOREM GateTypes == Spec => []TypeOK
<1>1. GateInv => TypeOK
  BY DEF GateInv
<1> QED
  BY <1>1, GateInvariant, PTL

\* However decisions are broadcast, repeated and delayed, a tool call is allowed
\* only by its mode or by the user's decision on that call (evaluateLine).
THEOREM AllowedByTheUser == Spec => []GateSound
<1>1. GateInv => GateSound
  BY DEF GateInv, Honest
<1> QED
  BY <1>1, GateInvariant, PTL

\* A listening broker owns its socket file when none was killed, or when brokers
\* start one at a time (runActiveBroker).
THEOREM ListenersReachable == Spec => []SocketReachable
<1>1. GateInv => SocketReachable
  BY DEF GateInv, Sockets, Files
<1> QED
  BY <1>1, GateInvariant, PTL
-----------------------------------------------------------------------------
\* The socket changes hands.

\* Whoever has a hand-over line on its way has noted that it sent one.
OffersNoted == \A b, c \in Brokers : <<c, b>> \in offers => handed[c]

LEMMA OffersStep == TypeOK /\ OffersNoted /\ [Next]_vars => OffersNoted'
<1> SUFFICES ASSUME TypeOK, OffersNoted, [Next]_vars PROVE OffersNoted'
  OBVIOUS
<1>1. ASSUME offers' \subseteq offers, handed' = handed PROVE OffersNoted'
  BY <1>1 DEF OffersNoted
<1>2. ASSUME NEW r \in Requests, HookStep(r) PROVE OffersNoted'
  BY <1>1, <1>2 DEF HookStep, HookConnects, HookUnreachable, HookGivesUp, HookDecides, HookSkips,
     HookDisconnected, HookTimesOut, HookPublishes, HookClears, startVars
<1>3. ASSUME NEW b \in Brokers, StartStep(b) PROVE OffersNoted'
  <2>1. ASSUME NEW next \in {"handing", "waiting", "closed"}, ProbeFindsAlive(b, next)
        PROVE  OffersNoted'
    <3>1. CASE next = "handing"
      <4>1. handed' = [handed EXCEPT ![b] = TRUE] /\ offers' = offers \cup {<<b, file>>}
        BY <2>1, <3>1 DEF ProbeFindsAlive
      <4> QED
        BY <4>1 DEF OffersNoted, TypeOK
    <3>2. CASE next # "handing"
      BY <1>1, <2>1, <3>2 DEF ProbeFindsAlive
    <3> QED
      BY <3>1, <3>2
  <2>2. CASE Looks(b) \/ ProbeFindsDead(b) \/ Compares(b) \/ LooksAgain(b) \/ Unlinks(b) \/ Binds(b)
    BY <1>1, <2>2 DEF Looks, ProbeFindsDead, Compares, LooksAgain, Unlinks, Binds, startVars
  <2> QED
    BY <1>3, <2>1, <2>2 DEF StartStep
<1>4. ASSUME NEW b \in Brokers, RelayStep(b) PROVE OffersNoted'
  BY <1>1, <1>4 DEF RelayStep, Broadcasts, VisitorGone, InputEnds, Accepts, RelaysRequest, ClientGone,
     HandoffServed, Finishes, Disconnects, startVars
<1>5. CASE PhoneStep
  BY <1>1, <1>5 DEF PhoneStep, BrokerStarts, Taps, ChannelEnds, startVars
<1>6. CASE HostStep
  BY <1>1, <1>6 DEF HostStep, HookStart, DeadlinePasses, BrokerKilled, VersionInstalled, Disconnects,
     startVars
<1>7. CASE UNCHANGED vars
  BY <1>1, <1>7 DEF vars, startVars
<1> QED
  BY <1>2, <1>3, <1>4, <1>5, <1>6, <1>7 DEF Next

\* What may end a broker that listens.
Excused(b) ==
    \/ ~channel[b] \/ leaving[b] \/ kills' # kills
    \/ \E c \in Brokers : <<c, b>> \in offers /\ DeviceOf[c] = DeviceOf[b] /\ handed[c]

LEMMA ListenerEndsExcused ==
    ASSUME TypeOK, OffersNoted, [Next]_vars, NEW b \in Brokers, Listening(b), ~Listening(b)'
    PROVE  Excused(b)
<1>1. broker[b] = "listening" /\ broker'[b] # "listening"
  BY DEF Listening
<1>2. broker' # broker
  BY <1>1
<1>3. ASSUME NEW c \in Brokers, NEW k, broker' = [broker EXCEPT ![c] = k] PROVE c = b
  BY <1>1, <1>3 DEF TypeOK
<1>4. ASSUME NEW c \in Brokers, StartStep(c) PROVE FALSE
  <2>1. broker[c] # "listening"
    BY <1>4 DEF StartStep, Looks, ProbeFindsDead, Compares, LooksAgain, Unlinks, Binds, ProbeFindsAlive
  <2>2. \E k : broker' = [broker EXCEPT ![c] = k]
    BY <1>4 DEF StartStep, Looks, ProbeFindsDead, Compares, LooksAgain, Unlinks, Binds, ProbeFindsAlive
  <2> QED
    BY <1>1, <1>3, <2>1, <2>2
<1>5. ASSUME NEW c \in Brokers, RelayStep(c) PROVE Excused(b)
  <2>1. Finishes(c) => c = b
    BY <1>3 DEF Finishes, Disconnects
  <2>2. CASE VisitorGone(c)
    BY <2>1, <2>2 DEF VisitorGone, Excused
  <2>3. CASE InputEnds(c)
    BY <1>3, <2>1, <2>3 DEF InputEnds, Excused
  <2>4. ASSUME NEW r \in Requests, ClientGone(c, r) PROVE Excused(b)
    BY <1>2, <2>1, <2>4 DEF ClientGone, Excused
  <2>5. ASSUME NEW d \in Brokers, HandoffServed(c, d) PROVE Excused(b)
    BY <1>2, <2>1, <2>5 DEF HandoffServed, Yields, OffersNoted, Excused
  <2>6. CASE Broadcasts(c) \/ \E r \in Requests : Accepts(c, r) \/ RelaysRequest(c, r)
    BY <1>2, <2>6 DEF Broadcasts, Accepts, RelaysRequest, brokerVars
  <2> QED
    BY <1>5, <2>2, <2>3, <2>4, <2>5, <2>6 DEF RelayStep
<1>6. ASSUME NEW r \in Requests, HookStep(r) PROVE FALSE
  BY <1>2, <1>6 DEF HookStep, HookConnects, HookUnreachable, HookGivesUp, HookDecides, HookSkips,
     HookDisconnected, HookTimesOut, HookPublishes, HookClears, brokerVars
<1>7. ~PhoneStep
  <2>1. ASSUME NEW c \in Brokers PROVE ~BrokerStarts(c)
    BY <1>1, <1>3 DEF BrokerStarts
  <2> QED
    BY <1>2, <2>1 DEF PhoneStep, Taps, ChannelEnds, brokerVars
<1>8. CASE HostStep
  <2>1. ASSUME NEW c \in Brokers, BrokerKilled(c) PROVE Excused(b)
    BY <2>1 DEF BrokerKilled, Excused, TypeOK
  <2> QED
    BY <1>2, <1>8, <2>1 DEF HostStep, HookStart, DeadlinePasses, VersionInstalled, brokerVars
<1>9. ~UNCHANGED vars
  BY <1>2 DEF vars, brokerVars
<1> QED
  BY <1>4, <1>5, <1>6, <1>7, <1>8, <1>9 DEF Next

\* Nothing but its phone's leaving, a new version, a kill or the same
\* installation of the app ends a broker that listens (requestHandoff,
\* isStaleDist).
THEOREM ListenersStay == Spec => ListenerKept
<1>1. Init => OffersNoted
  BY DEF Init, OffersNoted
<1>2. TypeOK /\ OffersNoted /\ [Next]_vars
        => [\A b \in Brokers : Listening(b) /\ ~Listening(b)' =>
              \/ ~channel[b]
              \/ leaving[b]
              \/ kills' # kills
              \/ \E c \in Brokers : <<c, b>> \in offers /\ DeviceOf[c] = DeviceOf[b] /\ handed[c]]_vars
  BY ListenerEndsExcused DEF Excused
<1> QED
  BY <1>1, <1>2, OffersStep, GateTypes, PTL DEF Spec, ListenerKept
=============================================================================
