-------------------------- MODULE HubElectionProofs --------------------------
(***************************************************************************)
(* Theorems about HubElection, for any number of processes, versions,      *)
(* crashes and overlapping starts.                                         *)
(***************************************************************************)
EXTENDS HubElection, TLAPS
-----------------------------------------------------------------------------
(* The inductive invariant.                                                *)

(* A process that has confirmed the lock, and has not let go of it.        *)
Confirming == {"probeAgain", "clear", "bind", "listen"}
Winning == Confirming \cup {"claim", "claimed"}
Ending == {"serve", "drain", "closed", "release", "unlock"}
Acquiring == {"probe", "take", "clearLock", "create", "write", "confirm"}

(* Where reading and removing a dead lock is one step, the lock names who  *)
(* has confirmed it, and nobody else takes it.                             *)
LockNames ==
    ~straddle =>
        \A p \in Pid :
            /\ proc[p].at \notin {"clearLock", "claimed"}
            /\ proc[p].at \in Winning \cup Ending => Owner = p

(* Where it is not, starts do not overlap: who is past the first look at   *)
(* the lock is alone, and the lock names it from when it has confirmed it, *)
(* save for the moment in which it writes it again.                        *)
StartsAlone ==
    straddle =>
        /\ \A p, q \in Pid :
             /\ proc[p].at \in {"look"} \cup Acquiring \cup Winning
             /\ proc[q].at \in {"look"} \cup Acquiring \cup Winning
             => p = q
        /\ \A p, q \in Pid :
             proc[p].at \in Acquiring \cup Winning /\ Alive(q) => p = q
        /\ \A p \in Pid : proc[p].at \in Confirming \cup {"claim"} \cup Ending => Owner = p
        /\ \A p \in Pid : proc[p].at = "claimed" => lock.pid = p

(* The socket is that of the process that has bound it, until it closes it. *)
SocketOwned ==
    \A p \in Pid :
        proc[p].at \in {"listen", "claim", "claimed", "serve", "drain"} => sock = p

(* An attempt at the lock is under way only while one is left.             *)
Attempts ==
    \A p \in Pid : proc[p].at \in {"clearLock", "create", "write", "confirm"} => proc[p].tries > 0

HubInv == TypeOK /\ Attempts /\ LockNames /\ StartsAlone /\ SocketOwned
-----------------------------------------------------------------------------
LEMMA HubInit == Init => HubInv
BY BoundsAreNaturals, NobodyIsNoProcess DEF Init, HubInv, Attempts, TypeOK, Process, Places, LockNames,
   StartsAlone, SocketOwned, Off, NoLock, Alive, Winning, Confirming, Ending, Acquiring

(* A process that goes on, tries again or dies leaves the others as they   *)
(* are.                                                                    *)
LEMMA Moves ==
    ASSUME TypeOK, NEW p \in Pid, NEW w \in Places, Goes(p, w)
    PROVE  /\ proc' \in [Pid -> Process]
           /\ proc'[p].at = w /\ proc'[p].tries = proc[p].tries /\ proc'[p].ver = proc[p].ver
           /\ \A q \in Pid : q # p => proc'[q] = proc[q]
<1>1. proc[p] \in Process
  BY DEF TypeOK
<1>2. [proc[p] EXCEPT !.at = w] = [at |-> w, ver |-> proc[p].ver, tries |-> proc[p].tries,
                                   abort |-> proc[p].abort]
  BY <1>1 DEF Process
<1>3. proc' = [proc EXCEPT ![p] = [at |-> w, ver |-> proc[p].ver, tries |-> proc[p].tries,
                                   abort |-> proc[p].abort]]
  BY <1>2 DEF TypeOK, Goes
<1> QED
  BY <1>1, <1>3 DEF TypeOK, Process

LEMMA Retries ==
    ASSUME TypeOK, NEW p \in Pid, proc[p].tries > 0, TriesAgain(p)
    PROVE  /\ proc' \in [Pid -> Process]
           /\ proc'[p].at = "take"
           /\ \A q \in Pid : q # p => proc'[q] = proc[q]
<1>1. proc[p] \in Process /\ proc[p].tries \in 1 .. 2
  BY DEF TypeOK, Process
<1> QED
  BY <1>1 DEF TypeOK, Process, Places, TriesAgain

LEMMA Departs ==
    ASSUME TypeOK, NEW p \in Pid, Dies(p)
    PROVE  /\ proc' \in [Pid -> Process]
           /\ proc'[p] = Off /\ proc'[p].at = "off"
           /\ \A q \in Pid : q # p => proc'[q] = proc[q]
BY BoundsAreNaturals DEF TypeOK, Dies, Off, Process, Places

Locks == [pid : Pid \cup {Nobody}, ver : 0 .. MaxVersion, empty : BOOLEAN]
LEMMA LockWritten ==
    ASSUME TypeOK, NEW p \in Pid
    PROVE  /\ NoLock \in Locks
           /\ Fill(p) => lock' \in Locks
           /\ Create(p) => lock' \in Locks
           /\ [pid |-> p, ver |-> proc[p].ver, empty |-> FALSE] \in Locks
<1>1. proc[p] \in Process /\ lock \in Locks
  BY DEF TypeOK, Locks
<1>2. \A b \in BOOLEAN : [pid |-> p, ver |-> proc[p].ver, empty |-> b] \in Locks
  BY <1>1 DEF Process, Locks
<1>3. NoLock \in Locks
  BY BoundsAreNaturals DEF NoLock, Locks
<1> QED
  BY <1>1, <1>2, <1>3 DEF Fill, Create

(* Each step keeps the types, and an attempt at the lock starts with one    *)
(* left.                                                                    *)
LEMMA HubTypeStep == TypeOK /\ Attempts /\ [Next]_vars => TypeOK' /\ Attempts'
<1> SUFFICES ASSUME TypeOK, Attempts, [Next]_vars PROVE TypeOK' /\ Attempts'
  OBVIOUS
<1> USE BoundsAreNaturals
<1>1. Off \in Process /\ Starting \in Process /\ \A v \in Pid : proc[v] \in Process
  BY DEF Off, Starting, Process, Places, TypeOK
<1>2. CASE Ensure
  <2>1. ASSUME NEW q \in Pid
        PROVE  Signalled(q) \in Process /\ Signalled(q).tries \in {proc[q].tries, 0}
                                        /\ Signalled(q).at \in {proc[q].at, "off"}
                                        /\ (Signalled(q).at # "off" => Signalled(q).tries = proc[q].tries)
    BY <1>1 DEF Signalled, Process, Off
  <2>2. /\ proc' \in [Pid -> Process]
        /\ \A q \in Pid : proc'[q] \in {Starting, Signalled(q), proc[q]}
    BY <1>1, <1>2, <2>1 DEF Ensure, TypeOK
  <2>3. Attempts'
    BY <2>1, <2>2 DEF Attempts, Starting
  <2> QED
    BY <1>2, <2>2, <2>3 DEF Ensure, MayOverlap, TypeOK
<1>3. CASE Install
  BY <1>3 DEF Install, TypeOK, Attempts
<1>4. ASSUME NEW p \in Pid, Start(p) PROVE TypeOK' /\ Attempts'
  <2>1. CASE Look(p)
    BY <2>1, Moves, Departs DEF Look, TypeOK, Places, Attempts
  <2>2. CASE Probe(p)
    <3>1. CASE Dies(p)
      BY <2>2, <3>1, Departs DEF Probe, TypeOK, Attempts
    <3>2. CASE proc' = [proc EXCEPT ![p] = [at |-> "take", ver |-> dist, tries |-> 2, abort |-> FALSE]]
      BY <1>1, <2>2, <3>2 DEF Probe, TypeOK, Process, Places, Attempts
    <3> QED
      BY <2>2, <3>1, <3>2 DEF Probe
  <2> QED
    BY <1>4, <2>1, <2>2 DEF Start
<1>5. ASSUME NEW p \in Pid, Acquire(p) PROVE TypeOK' /\ Attempts'
  <2>1. CASE Take(p)
    <3>1. CASE Dies(p) /\ UNCHANGED lock
      BY <2>1, <3>1, Departs DEF Take, TypeOK, Attempts
    <3>2. CASE Fill(p) /\ Goes(p, "probeAgain")
      BY <2>1, <3>2, Moves, LockWritten DEF Take, TypeOK, Places, Attempts, Locks
    <3>3. CASE ~OutOfTries(p) /\ Goes(p, "clearLock") /\ UNCHANGED lock
      <4>1. proc[p].tries > 0
        BY <1>1, <3>3 DEF OutOfTries, Process
      <4> QED
        BY <2>1, <3>3, <4>1, Moves DEF Take, TypeOK, Places, Attempts
    <3>4. CASE ~OutOfTries(p) /\ Goes(p, "create") /\ lock' = NoLock
      <4>1. proc[p].tries > 0
        BY <1>1, <3>4 DEF OutOfTries, Process
      <4> QED
        BY <2>1, <3>4, <4>1, Moves, LockWritten DEF Take, TypeOK, Places, Attempts, Locks
    <3> QED
      BY <2>1, <3>1, <3>2, <3>3, <3>4 DEF Take
  <2>2. CASE ClearLock(p)
    BY <2>2, Moves DEF ClearLock, TypeOK, Places, NoLock, Attempts
  <2>3. CASE CreateLock(p)
    <3>1. CASE Create(p) /\ Goes(p, "write")
      BY <2>3, <3>1, Moves, LockWritten DEF CreateLock, TypeOK, Places, Attempts, Locks
    <3>2. CASE TriesAgain(p) /\ UNCHANGED lock
      BY <2>3, <3>2, Retries DEF CreateLock, TypeOK, Attempts
    <3> QED
      BY <2>3, <3>1, <3>2 DEF CreateLock
  <2>4. CASE WriteLock(p)
    BY <2>4, Moves, LockWritten DEF WriteLock, TypeOK, Places, Attempts, Locks
  <2>5. CASE Confirm(p)
    BY <2>5, Moves, Retries DEF Confirm, TypeOK, Places, Attempts
  <2> QED
    BY <1>5, <2>1, <2>2, <2>3, <2>4, <2>5 DEF Acquire
<1>6. ASSUME NEW p \in Pid, WinSocket(p) PROVE TypeOK' /\ Attempts'
  <2>1. CASE ProbeAgain(p) \/ ClearSocket(p) \/ Bind(p) \/ Listen(p)
    BY <2>1, Moves DEF ProbeAgain, ClearSocket, Bind, Listen, TypeOK, Places, Attempts
  <2>2. CASE Claim(p) \/ Serve(p)
    BY <2>2, Moves, LockWritten DEF Claim, Serve, TypeOK, Places, Attempts, Locks
  <2> QED
    BY <1>6, <2>1, <2>2 DEF WinSocket
<1>7. ASSUME NEW p \in Pid, End(p) PROVE TypeOK' /\ Attempts'
  BY <1>7, Moves, Departs, LockWritten DEF End, Leave, CloseSocket, SocketClosed, Release, Unlock, TypeOK,
     Places, Attempts, Locks
<1>8. ASSUME NEW p \in Pid, NothingToDo(p) \/ Crash(p) PROVE TypeOK' /\ Attempts'
  BY <1>8, Moves, Departs DEF NothingToDo, Crash, TypeOK, Places, Attempts
<1>9. CASE UNCHANGED vars
  BY <1>9 DEF vars, TypeOK, Attempts
<1> QED
  BY <1>2, <1>3, <1>4, <1>5, <1>6, <1>7, <1>8, <1>9 DEF Next, Runs

(* One process at most has confirmed the lock and not let go of it.        *)
LEMMA OneConfirmed ==
    ASSUME HubInv, NEW p \in Pid, NEW q \in Pid,
           proc[p].at \in Winning \cup Ending, proc[q].at \in Winning \cup Ending
    PROVE  p = q
<1>1. proc[p].at # "off" /\ proc[q].at # "off"
  BY DEF Winning, Confirming, Ending
<1>2. CASE ~straddle
  BY <1>2 DEF HubInv, LockNames
<1>3. CASE straddle
  BY <1>1, <1>3 DEF HubInv, TypeOK, StartsAlone, Alive
<1> QED
  BY <1>2, <1>3 DEF HubInv, TypeOK

(* A hub that a client signals ends only where the signal is fatal.        *)
LEMMA Ensured ==
    ASSUME TypeOK, Ensure
    PROVE  \E s \in Pid : /\ ~Alive(s) /\ proc'[s].at = "look"
                          /\ \A q \in Pid : q # s => proc'[q].at \in {proc[q].at, "off"}
<1>1. PICK s \in {q \in Pid : ~Alive(q)} :
        proc' = [q \in Pid |-> IF q = s THEN Starting
                               ELSE IF q = Owner /\ Alive(q) THEN Signalled(q) ELSE proc[q]]
  BY DEF Ensure
<1>2. \A q \in Pid : Signalled(q).at \in {proc[q].at, "off"}
  BY DEF Signalled, Off
<1> QED
  BY <1>1, <1>2 DEF Starting

(* The socket stays the one of the process that has bound it: only that    *)
(* process has the lock, and only who has it touches the socket.           *)
LEMMA SocketStep == HubInv /\ [Next]_vars => SocketOwned'
<1> SUFFICES ASSUME HubInv, [Next]_vars PROVE SocketOwned'
  OBVIOUS
<1> DEFINE Bound == {"listen", "claim", "claimed", "serve", "drain"}
<1>1. TypeOK /\ SocketOwned
  BY DEF HubInv
<1>2. \A p, q \in Pid : proc[p].at \in Winning \cup Ending /\ proc[q].at \in Bound => p = q
  BY OneConfirmed DEF Winning, Confirming, Ending
<1>3. CASE Ensure
  BY <1>1, <1>3, Ensured DEF Ensure, SocketOwned
<1>4. CASE Install
  BY <1>1, <1>4 DEF Install, SocketOwned
<1>5. ASSUME NEW p \in Pid, Start(p) PROVE SocketOwned'
  BY <1>1, <1>5, Moves, Departs DEF Start, Look, Probe, SocketOwned, TypeOK, Places
<1>6. ASSUME NEW p \in Pid, Acquire(p) PROVE SocketOwned'
  <2>1. CASE Take(p)
    BY <1>1, <2>1, Moves, Departs DEF Take, SocketOwned, Places
  <2>2. CASE ClearLock(p) \/ WriteLock(p)
    BY <1>1, <2>2, Moves DEF ClearLock, WriteLock, SocketOwned, Places
  <2>3. CASE CreateLock(p) \/ Confirm(p)
    BY <1>1, <2>3, Moves, Retries DEF CreateLock, Confirm, SocketOwned, Places, HubInv, Attempts
  <2> QED
    BY <1>6, <2>1, <2>2, <2>3 DEF Acquire
<1>7. ASSUME NEW p \in Pid, WinSocket(p) PROVE SocketOwned'
  <2>1. CASE ProbeAgain(p) \/ Listen(p) \/ Claim(p) \/ Serve(p)
    BY <1>1, <2>1, Moves DEF ProbeAgain, Listen, Claim, Serve, SocketOwned, Places
  <2>2. CASE ClearSocket(p)
    BY <1>1, <1>2, <2>2, Moves DEF ClearSocket, SocketOwned, Places, Winning, Confirming
  <2>3. CASE Bind(p)
    BY <1>1, <1>2, <2>3, Moves DEF Bind, SocketOwned, Places, Winning, Confirming
  <2> QED
    BY <1>7, <2>1, <2>2, <2>3 DEF WinSocket
<1>8. ASSUME NEW p \in Pid, End(p) PROVE SocketOwned'
  <2>1. CASE CloseSocket(p) \/ SocketClosed(p)
    BY <1>1, <1>2, <2>1, Moves DEF CloseSocket, SocketClosed, SocketOwned, Places, Ending
  <2>2. CASE Leave(p) \/ Release(p) \/ Unlock(p)
    BY <1>1, <2>2, Moves, Departs DEF Leave, Release, Unlock, SocketOwned, Places
  <2> QED
    BY <1>8, <2>1, <2>2 DEF End
<1>9. ASSUME NEW p \in Pid, NothingToDo(p) \/ Crash(p) PROVE SocketOwned'
  BY <1>1, <1>9, Moves, Departs DEF NothingToDo, Crash, SocketOwned, Places
<1>10. CASE UNCHANGED vars
  BY <1>1, <1>10 DEF vars, SocketOwned
<1> QED
  BY <1>3, <1>4, <1>5, <1>6, <1>7, <1>8, <1>9, <1>10 DEF Next, Runs

(* The lock keeps naming who has confirmed it: a lock is created only      *)
(* where there is none, removed only when its owner is dead, and let go of *)
(* only by its owner.                                                      *)
LEMMA NamesStep == HubInv /\ [Next]_vars => LockNames'
<1> SUFFICES ASSUME HubInv, [Next]_vars, ~straddle' PROVE LockNames'
  BY DEF LockNames
<1> DEFINE Has == Winning \cup Ending
<1>1. TypeOK /\ Attempts
  BY DEF HubInv
<1>a. ~straddle
  BY DEF Next, Ensure, Install, Runs, Start, Look, Probe, Acquire, Take, ClearLock, CreateLock, WriteLock,
     Confirm, WinSocket, ProbeAgain, ClearSocket, Bind, Listen, Claim, Serve, End, Leave, CloseSocket,
     SocketClosed, Release, Unlock, NothingToDo, Crash, vars
<1>b. \A q \in Pid : /\ proc[q].at \notin {"clearLock", "claimed"}
                     /\ proc[q].at \in Has => Owner = q
  BY <1>a DEF HubInv, LockNames
<1> SUFFICES \A q \in Pid : /\ proc'[q].at \notin {"clearLock", "claimed"}
                            /\ proc'[q].at \in Has => Owner' = q
  BY DEF LockNames
<1>2. CASE Ensure
  <2>1. Owner' = Owner
    BY <1>2 DEF Ensure, Owner
  <2> QED
    BY <1>1, <1>2, <1>b, <2>1, Ensured DEF Winning, Confirming, Ending
<1>3. CASE Install
  BY <1>3, <1>b DEF Install, Owner
<1>4. ASSUME NEW p \in Pid, Start(p)
      PROVE  \A q \in Pid : /\ proc'[q].at \notin {"clearLock", "claimed"}
                            /\ proc'[q].at \in Has => Owner' = q
  BY <1>1, <1>4, <1>b, Moves, Departs DEF Start, Look, Probe, TypeOK, Places, Winning, Confirming, Ending,
     Owner
<1>5. ASSUME NEW p \in Pid, Acquire(p)
      PROVE  \A q \in Pid : /\ proc'[q].at \notin {"clearLock", "claimed"}
                            /\ proc'[q].at \in Has => Owner' = q
  <2>1. CASE Take(p)
    <3>1. CASE Dies(p) /\ UNCHANGED lock
      BY <1>1, <1>b, <3>1, Departs DEF Winning, Confirming, Ending, Owner
    <3>2. CASE Owner = p /\ Fill(p) /\ Goes(p, "probeAgain")
      BY <1>1, <1>b, <3>2, Moves, NobodyIsNoProcess DEF Fill, Owner, Places
    <3>3. CASE ~Alive(Owner) /\ Goes(p, "create") /\ lock' = NoLock
      <4>1. \A q \in Pid : proc[q].at \notin Has
        BY <1>b, <3>3 DEF Alive, Winning, Confirming, Ending
      <4> QED
        BY <1>1, <1>b, <3>3, <4>1, Moves DEF Places, Winning, Confirming, Ending
    <3> QED
      BY <1>a, <2>1, <3>1, <3>2, <3>3 DEF Take
  <2>2. CASE CreateLock(p)
    <3>1. CASE lock = NoLock /\ Goes(p, "write")
      <4>1. \A q \in Pid : proc[q].at \notin Has
        BY <1>b, <3>1, NobodyIsNoProcess DEF NoLock, Owner
      <4> QED
        BY <1>1, <1>b, <3>1, <4>1, Moves DEF Places, Winning, Confirming, Ending
    <3>2. CASE TriesAgain(p) /\ UNCHANGED lock
      BY <1>1, <1>b, <2>2, <3>2, Retries DEF CreateLock, Attempts, Owner, Winning, Confirming, Ending
    <3> QED
      BY <2>2, <3>1, <3>2 DEF CreateLock
  <2>3. CASE WriteLock(p)
    <3>1. \A q \in Pid : Owner = q => Owner' = q
      BY <2>3, NobodyIsNoProcess DEF WriteLock, Fill, Owner
    <3> QED
      BY <1>1, <1>b, <2>3, <3>1, Moves DEF WriteLock, Places, Winning, Confirming, Ending
  <2>4. CASE Confirm(p)
    BY <1>1, <1>b, <2>4, Moves, Retries DEF Confirm, Confirmed, Attempts, Owner, Places, Winning, Confirming,
       Ending
  <2> QED
    BY <1>5, <1>b, <2>1, <2>2, <2>3, <2>4 DEF Acquire, ClearLock
<1>6. ASSUME NEW p \in Pid, WinSocket(p)
      PROVE  \A q \in Pid : /\ proc'[q].at \notin {"clearLock", "claimed"}
                            /\ proc'[q].at \in Has => Owner' = q
  <2>1. CASE ProbeAgain(p) \/ ClearSocket(p) \/ Bind(p) \/ Listen(p)
    BY <1>1, <1>b, <2>1, Moves DEF ProbeAgain, ClearSocket, Bind, Listen, Places, Winning, Confirming, Ending,
       Owner
  <2>2. CASE Serve(p)
    <3>1. proc[p].at = "claim" /\ Owner = p /\ lock' = [pid |-> p, ver |-> proc[p].ver, empty |-> FALSE]
      BY <1>a, <1>b, <2>2 DEF Serve, Winning, Confirming
    <3>2. Owner' = p
      BY <3>1 DEF Owner
    <3> QED
      BY <1>1, <1>b, <2>2, <3>1, <3>2, Moves DEF Serve, Places
  <2> QED
    BY <1>6, <1>a, <2>1, <2>2 DEF WinSocket, Claim
<1>7. ASSUME NEW p \in Pid, End(p)
      PROVE  \A q \in Pid : /\ proc'[q].at \notin {"clearLock", "claimed"}
                            /\ proc'[q].at \in Has => Owner' = q
  <2>1. CASE Unlock(p)
    <3>1. \A q \in Pid : q # p => proc[q].at \notin Has
      BY <1>b, <2>1 DEF Unlock, Ending
    <3> QED
      BY <1>1, <1>b, <2>1, <3>1, Departs DEF Unlock, Winning, Confirming, Ending
  <2>2. CASE Leave(p) \/ CloseSocket(p) \/ SocketClosed(p) \/ Release(p)
    BY <1>1, <1>b, <2>2, Moves, Departs DEF Leave, CloseSocket, SocketClosed, Release, Places, Winning,
       Confirming, Ending, Owner
  <2> QED
    BY <1>7, <2>1, <2>2 DEF End
<1>8. ASSUME NEW p \in Pid, NothingToDo(p) \/ Crash(p)
      PROVE  \A q \in Pid : /\ proc'[q].at \notin {"clearLock", "claimed"}
                            /\ proc'[q].at \in Has => Owner' = q
  BY <1>1, <1>b, <1>8, Moves, Departs DEF NothingToDo, Crash, Places, Winning, Confirming, Ending, Owner
<1>9. CASE UNCHANGED vars
  BY <1>b, <1>9 DEF vars, Owner
<1> QED
  BY <1>2, <1>3, <1>4, <1>5, <1>6, <1>7, <1>8, <1>9 DEF Next, Runs

(* A start that straddles stays alone: clients start a process only when   *)
(* none is starting or ending, and it goes on only when the owner of the   *)
(* lock, which every process that ends still is, has ended.                *)
LEMMA AloneStep == HubInv /\ [Next]_vars => StartsAlone'
<1> SUFFICES ASSUME HubInv, [Next]_vars, straddle' PROVE StartsAlone'
  BY DEF StartsAlone
<1> DEFINE Past == Acquiring \cup Winning
           Owns == Confirming \cup {"claim"} \cup Ending
<1>1. TypeOK /\ Attempts
  BY DEF HubInv
<1>a. straddle
  BY DEF Next, Ensure, Install, Runs, Start, Look, Probe, Acquire, Take, ClearLock, CreateLock, WriteLock,
     Confirm, WinSocket, ProbeAgain, ClearSocket, Bind, Listen, Claim, Serve, End, Leave, CloseSocket,
     SocketClosed, Release, Unlock, NothingToDo, Crash, vars
<1>b. /\ \A p, q \in Pid : proc[p].at \in {"look"} \cup Past /\ proc[q].at \in {"look"} \cup Past => p = q
      /\ \A p, q \in Pid : proc[p].at \in Past /\ Alive(q) => p = q
      /\ \A p \in Pid : proc[p].at \in Owns => Owner = p
      /\ \A p \in Pid : proc[p].at = "claimed" => lock.pid = p
  BY <1>a DEF HubInv, StartsAlone
<1>d. ASSUME NEW p \in Pid, \A q \in Pid : q # p => proc'[q].at = "off",
             proc'[p].at \in Owns => Owner' = p, proc'[p].at = "claimed" => lock'.pid = p
      PROVE  StartsAlone'
  BY <1>d DEF StartsAlone, Alive, Acquiring, Winning, Confirming, Ending
<1>e. ASSUME NEW p \in Pid, proc[p].at \in Past PROVE \A q \in Pid : q # p => proc[q].at = "off"
  BY <1>b, <1>e DEF Alive
<1>2. CASE Ensure
  <2>1. Owner' = Owner /\ lock' = lock
    BY <1>2 DEF Ensure, Owner
  <2>2. \A q \in Pid : proc[q].at \in {"off", "serve"}
    BY <1>2, <1>a DEF Ensure, MayOverlap, Settled
  <2>3. PICK s \in Pid : /\ ~Alive(s) /\ proc'[s].at = "look"
                         /\ \A q \in Pid : q # s => proc'[q].at \in {proc[q].at, "off"}
    BY <1>1, <1>2, Ensured
  <2>4. \A q \in Pid : q # s => proc'[q].at \in {"off", "serve"}
    BY <2>2, <2>3
  <2> QED
    BY <1>b, <2>1, <2>3, <2>4 DEF StartsAlone, Acquiring, Winning, Confirming, Ending
<1>3. CASE Install
  BY <1>3, <1>b DEF Install, Owner, StartsAlone, Alive
<1>4. ASSUME NEW p \in Pid, Start(p) PROVE StartsAlone'
  <2>1. CASE Look(p) /\ Goes(p, "probe")
    <3>1. \A q \in Pid : q # p => proc[q].at \notin {"look"} \cup Past
      BY <1>b, <2>1 DEF Look
    <3>2. \A q \in Pid : q # p => proc[q].at \notin Ending
      <4> SUFFICES ASSUME NEW q \in Pid, q # p, proc[q].at \in Ending PROVE FALSE
        OBVIOUS
      <4>1. Owner = q /\ Alive(q)
        BY <1>b DEF Ending, Alive
      <4>2. ~(Alive(Owner) /\ Owner # p)
        <5>1. proc'[p].at = "probe"
          BY <1>1, <2>1, Moves DEF Places
        <5>2. ~Dies(p)
          BY <1>1, <5>1, Departs
        <5> QED
          BY <2>1, <5>2 DEF Look
      <4> QED
        BY <4>1, <4>2
    <3>3. \A q \in Pid : proc[q].at \in Places
      BY <1>1 DEF TypeOK, Process
    <3>4. \A q \in Pid : q # p => proc[q].at = "off"
      BY <3>1, <3>2, <3>3 DEF Places, Acquiring, Winning, Confirming, Ending
    <3> QED
      BY <1>1, <1>d, <2>1, <3>4, Moves DEF Places, Confirming, Ending
  <2>2. CASE Dies(p) /\ UNCHANGED lock
    BY <1>1, <1>b, <2>2, Departs DEF StartsAlone, Alive, Owner, Acquiring, Winning, Confirming, Ending
  <2>3. CASE Probe(p)
    <3>1. \A q \in Pid : q # p => proc[q].at = "off"
      BY <1>e, <2>3 DEF Probe, Acquiring
    <3>2. proc'[p].at \in {"off", "take"} /\ \A q \in Pid : q # p => proc'[q].at = "off"
      BY <1>1, <2>3, <3>1, Departs DEF Probe, TypeOK
    <3> QED
      BY <1>d, <3>2 DEF Confirming, Ending
  <2> QED
    BY <1>4, <2>1, <2>2, <2>3 DEF Start, Look
<1>5. ASSUME NEW p \in Pid, Acquire(p) PROVE StartsAlone'
  <2>1. \A q \in Pid : q # p => proc[q].at = "off"
    BY <1>e, <1>5 DEF Acquire, Take, ClearLock, CreateLock, WriteLock, Confirm, Acquiring
  <2>2. CASE Take(p)
    <3>1. CASE Dies(p)
      BY <1>1, <1>d, <2>1, <3>1, Departs DEF Confirming, Ending
    <3>2. CASE Owner = p /\ Fill(p) /\ Goes(p, "probeAgain")
      <4>1. Owner' = p
        BY <3>2, NobodyIsNoProcess DEF Fill, Owner
      <4> QED
        BY <1>1, <1>d, <2>1, <3>2, <4>1, Moves DEF Places
    <3>3. CASE Goes(p, "clearLock") \/ Goes(p, "create")
      BY <1>1, <1>d, <2>1, <3>3, Moves DEF Places, Confirming, Ending
    <3> QED
      BY <2>2, <3>1, <3>2, <3>3 DEF Take
  <2>3. CASE ClearLock(p) \/ WriteLock(p)
    <3>1. proc'[p].at \in {"create", "confirm"} /\ \A q \in Pid : q # p => proc'[q] = proc[q]
      BY <1>1, <2>3, Moves DEF ClearLock, WriteLock, Places
    <3> QED
      BY <1>d, <2>1, <3>1 DEF Confirming, Ending
  <2>4. CASE CreateLock(p)
    BY <1>1, <1>d, <2>1, <2>4, Moves, Retries DEF CreateLock, Attempts, Places, Confirming, Ending
  <2>5. CASE Confirm(p)
    BY <1>1, <1>d, <2>1, <2>5, Moves, Retries DEF Confirm, Confirmed, Attempts, Owner, Places, Confirming, Ending
  <2> QED
    BY <1>5, <2>2, <2>3, <2>4, <2>5 DEF Acquire
<1>6. ASSUME NEW p \in Pid, WinSocket(p) PROVE StartsAlone'
  <2>1. \A q \in Pid : q # p => proc[q].at = "off"
    BY <1>e, <1>6 DEF WinSocket, ProbeAgain, ClearSocket, Bind, Listen, Claim, Serve, Winning, Confirming
  <2>2. CASE ProbeAgain(p) \/ ClearSocket(p) \/ Bind(p) \/ Listen(p)
    BY <1>1, <1>b, <1>d, <2>1, <2>2, Moves, ZenonT(60) DEF ProbeAgain, ClearSocket, Bind, Listen, Places, Confirming,
       Ending, Owner
  <2>3. CASE Claim(p)
    BY <1>1, <1>d, <2>1, <2>3, Moves DEF Claim, Create, Places, Confirming, Ending
  <2>4. CASE Serve(p)
    <3>1. proc[p].at = "claimed" /\ Fill(p) /\ lock.pid = p
      BY <1>a, <1>b, <2>4 DEF Serve
    <3>2. Owner' = p
      BY <3>1 DEF Fill, Owner
    <3> QED
      BY <1>1, <1>d, <2>1, <2>4, <3>2, Moves DEF Serve, Places
  <2> QED
    BY <1>6, <2>2, <2>3, <2>4 DEF WinSocket
<1>7. ASSUME NEW p \in Pid, End(p) PROVE StartsAlone'
  <2>1. Owner = p /\ \A q \in Pid : q # p => proc[q].at \notin Ending \cup Past
    BY <1>b, <1>7 DEF End, Leave, CloseSocket, SocketClosed, Release, Unlock, Alive, Ending
  <2>2. \A q \in Pid : q # p => proc[q].at \in {"off", "look"}
    BY <1>1, <2>1 DEF TypeOK, Process, Places, Acquiring, Winning, Confirming, Ending
  <2>3. /\ proc'[p].at \in Ending \cup {"off"} /\ \A q \in Pid : q # p => proc'[q] = proc[q]
        /\ proc'[p].at # "off" => lock' = lock
    BY <1>1, <1>7, Moves, Departs DEF End, Leave, CloseSocket, SocketClosed, Release, Unlock, Places, Ending
  <2> QED
    BY <1>b, <2>1, <2>2, <2>3 DEF StartsAlone, Alive, Owner, Acquiring, Winning, Confirming, Ending
<1>8. ASSUME NEW p \in Pid, NothingToDo(p) \/ Crash(p) PROVE StartsAlone'
  <2>1. lock' = lock /\ Owner' = Owner
    BY <1>8 DEF NothingToDo, Crash, Owner
  <2>2. CASE NothingToDo(p)
    BY <1>1, <1>b, <2>1, <2>2, Moves DEF NothingToDo, Places, StartsAlone, Alive, Acquiring, Winning,
       Confirming, Ending
  <2>3. CASE Crash(p)
    BY <1>1, <1>b, <2>1, <2>3, Departs DEF Crash, StartsAlone, Alive, Acquiring, Winning, Confirming, Ending
  <2> QED
    BY <1>8, <2>2, <2>3
<1>9. CASE UNCHANGED vars
  BY <1>b, <1>9 DEF vars, Owner, StartsAlone, Alive
<1> QED
  BY <1>2, <1>3, <1>4, <1>5, <1>6, <1>7, <1>8, <1>9 DEF Next, Runs
-----------------------------------------------------------------------------
(* Who has confirmed the lock keeps it, whatever starts, ends or is killed *)
(* around it (acquireHubLock, startHubSocket, releaseOwnHubLock).          *)
THEOREM HubInvariant == Spec => []HubInv
<1>1. HubInv /\ [Next]_vars => HubInv'
  BY HubTypeStep, NamesStep, AloneStep, SocketStep DEF HubInv
<1> QED
  BY HubInit, <1>1, PTL DEF Spec

(* One hub at most types the queued messages (startRestoredDrains).        *)
THEOREM OneHubServes == Spec => []OneServes
<1>1. HubInv => OneServes
  BY OneConfirmed DEF OneServes, Injects, Ending
<1> QED
  BY HubInvariant, <1>1, PTL

(* Nobody but the hub that serves removes the socket it listens on: its    *)
(* clients reach it.                                                       *)
THEOREM HubReachable == Spec => []ServerReachable
<1>1. HubInv => ServerReachable
  BY DEF HubInv, SocketOwned, ServerReachable
<1> QED
  BY HubInvariant, <1>1, PTL

(* When nobody is starting or ending, the lock names the hub that serves:  *)
(* the next client asks that one, and starts no second (ensureHubDaemon).  *)
THEOREM LockNamesHub == Spec => []LockAgrees
<1>1. HubInv => LockAgrees
  BY DEF HubInv, LockNames, StartsAlone, LockAgrees, TypeOK, Ending
<1> QED
  BY HubInvariant, <1>1, PTL
=============================================================================
