---------------------------- MODULE HubElection ----------------------------
(***************************************************************************)
(* Which process is the hub?  Engines and hooks start one whenever they    *)
(* find none (ensureHubDaemon); the processes started settle it through    *)
(* two files, the lock and the socket (src/src/hub/hubDaemon.ts).          *)
(*                                                                         *)
(* A system call is one step: processes interleave between any two.  A     *)
(* file that is written in place is empty for a moment, and a write to a   *)
(* file that was removed meanwhile goes nowhere.  A start takes far less    *)
(* than the 250 ms between two tries of a client: starts overlap seldom    *)
(* (MaxOverlap).                                                           *)
(***************************************************************************)
EXTENDS Naturals

CONSTANTS
    Pid,         \* process numbers, used again when a process has ended
    MaxVersion,  \* versions installed one after the other
    MaxCrash,    \* processes that are killed
    MaxOverlap   \* times a process is started while another is starting or ending

ASSUME BoundsAreNaturals == MaxVersion \in Nat \ {0} /\ {MaxCrash, MaxOverlap} \subseteq Nat

VARIABLES
    proc,    \* each process: where it is, its version, its attempts at the lock
    lock,    \* the lock file
    sock,    \* the process that bound the file at the socket's path
    dist,    \* the version installed
    crashes, \* processes killed so far
    overlaps,\* and started while another was starting or ending
    straddle \* do steps come between reading a dead lock and removing it, and
             \* while the winner of the socket writes the lock again?

vars == <<proc, lock, sock, dist, crashes, overlaps, straddle>>

Nobody == "nobody"
ASSUME NobodyIsNoProcess == Nobody \notin Pid
NoLock == [pid |-> Nobody, ver |-> 0, empty |-> FALSE]
Off == [at |-> "off", ver |-> 0, tries |-> 0, abort |-> FALSE]
Alive(p) == p \in Pid /\ proc[p].at # "off"
(* SIGTERM is fatal until the handlers are there (580).                     *)
Handles(p) == proc[p].at \in {"probeAgain", "clear", "bind", "listen", "claim", "claimed",
                              "serve", "drain", "closed", "release", "unlock"}
Listens(p) == proc[p].at \in {"claim", "claimed", "serve", "drain"}
(* Mutant: a file at the path of the socket is taken for a live hub.        *)
FileThere == sock \in Pid
Reachable == sock \in Pid /\ Listens(sock)

Settled == \A p \in Pid : proc[p].at \in {"off", "serve"}

Init ==
    /\ proc = [p \in Pid |-> Off] /\ lock = NoLock /\ sock = Nobody
    /\ dist = 1 /\ crashes = 0 /\ overlaps = 0 /\ straddle \in BOOLEAN

Goes(p, where) == proc' = [proc EXCEPT ![p].at = where]
Dies(p) == proc' = [proc EXCEPT ![p] = Off]
(* What readHubLock returns: null for a file that is empty.                 *)
Owner == IF lock.empty THEN Nobody ELSE lock.pid
Create(p) == lock' = [pid |-> p, ver |-> proc[p].ver, empty |-> TRUE]
Fill(p) == lock' = IF lock.pid = p THEN [pid |-> p, ver |-> proc[p].ver, empty |-> FALSE] ELSE lock

----------------------------------------------------------------------------
(* ensureHubDaemon: nothing to do for a live owner of the present version.  *)
UpToDate == Alive(Owner) /\ lock.ver = dist
(* Two starts that both straddle may both win: such behaviours are left out *)
(* (README, known disagreements).                                           *)
MayOverlap == ~straddle /\ overlaps < MaxOverlap
Starting == [at |-> "look", ver |-> 0, tries |-> 0, abort |-> FALSE]
Signalled(p) ==
    IF Handles(p) THEN [at |-> proc[p].at, ver |-> proc[p].ver, tries |-> proc[p].tries, abort |-> TRUE]
    ELSE Off
Ensure ==
    /\ ~UpToDate
    /\ IF Settled THEN UNCHANGED overlaps ELSE MayOverlap /\ overlaps' = overlaps + 1
    /\ \E p \in {q \in Pid : ~Alive(q)} :
        proc' = [q \in Pid |-> IF q = p THEN Starting
                               ELSE IF q = Owner /\ Alive(q) THEN Signalled(q) ELSE proc[q]]
    /\ UNCHANGED <<lock, sock, dist, crashes, straddle>>
(* A client that cannot connect asks for a hub and tries again.             *)
Reconnect == ~Reachable /\ Ensure

(* runHubCommand up to the lock: another live owner, or a live socket.      *)
Look(p) ==
    /\ proc[p].at = "look"
    /\ IF Alive(Owner) /\ Owner # p THEN Dies(p) ELSE Goes(p, "probe")
    /\ UNCHANGED <<lock, sock, dist, crashes, overlaps, straddle>>
Probe(p) ==
    /\ proc[p].at = "probe"
    /\ IF Reachable THEN Dies(p)
       ELSE proc' = [proc EXCEPT ![p] = [at |-> "take", ver |-> dist, tries |-> 2, abort |-> FALSE]]
    /\ UNCHANGED <<lock, sock, dist, crashes, overlaps, straddle>>

(* acquireHubLock, two attempts.                                            *)
(* Mutant: the attempts are not counted.                                    *)
NeverOut(p) == FALSE
OutOfTries(p) == proc[p].tries = 0
Take(p) ==
    /\ proc[p].at = "take"
    /\ \/ /\ OutOfTries(p) \/ (Alive(Owner) /\ Owner # p)
          /\ Dies(p) /\ UNCHANGED lock
       \/ /\ ~OutOfTries(p) /\ Owner = p
          /\ Fill(p) /\ Goes(p, "probeAgain")
       \/ /\ ~OutOfTries(p) /\ ~Alive(Owner)
          /\ IF straddle THEN Goes(p, "clearLock") /\ UNCHANGED lock
             ELSE Goes(p, "create") /\ lock' = NoLock
    /\ UNCHANGED <<sock, dist, crashes, overlaps, straddle>>
ClearLock(p) ==
    /\ proc[p].at = "clearLock" /\ lock' = NoLock /\ Goes(p, "create")
    /\ UNCHANGED <<sock, dist, crashes, overlaps, straddle>>
TriesAgain(p) ==
    proc' = [proc EXCEPT ![p] = [at |-> "take", ver |-> @.ver, tries |-> @.tries - 1, abort |-> @.abort]]
CreateLock(p) ==
    /\ proc[p].at = "create"
    /\ IF lock = NoLock THEN Create(p) /\ Goes(p, "write") ELSE TriesAgain(p) /\ UNCHANGED lock
    /\ UNCHANGED <<sock, dist, crashes, overlaps, straddle>>
WriteLock(p) ==
    /\ proc[p].at = "write" /\ Fill(p) /\ Goes(p, "confirm")
    /\ UNCHANGED <<sock, dist, crashes, overlaps, straddle>>
(* Mutant: who created the file has it.                                     *)
NotConfirmed(p) == TRUE
Confirmed(p) == Owner = p
Confirm(p) ==
    /\ proc[p].at = "confirm"
    /\ IF Confirmed(p) THEN Goes(p, "probeAgain") ELSE TriesAgain(p)
    /\ UNCHANGED <<lock, sock, dist, crashes, overlaps, straddle>>

(* startHubSocket: a live socket or a name in use means another has won.    *)
ProbeAgain(p) ==
    /\ proc[p].at = "probeAgain" /\ Goes(p, IF Reachable THEN "release" ELSE "clear")
    /\ UNCHANGED <<lock, sock, dist, crashes, overlaps, straddle>>
ClearSocket(p) ==
    /\ proc[p].at = "clear" /\ sock' = Nobody /\ Goes(p, "bind")
    /\ UNCHANGED <<lock, dist, crashes, overlaps, straddle>>
Bind(p) ==
    /\ proc[p].at = "bind"
    /\ IF sock = Nobody THEN sock' = p /\ Goes(p, "listen") ELSE Goes(p, "release") /\ UNCHANGED sock
    /\ UNCHANGED <<lock, dist, crashes, overlaps, straddle>>
Listen(p) ==
    /\ proc[p].at = "listen" /\ Goes(p, "claim")
    /\ UNCHANGED <<lock, sock, dist, crashes, overlaps, straddle>>

(* The winner of the socket writes the lock again and starts to inject.     *)
Claim(p) ==
    /\ proc[p].at = "claim" /\ Create(p) /\ Goes(p, "claimed") /\ straddle
    /\ UNCHANGED <<sock, dist, crashes, overlaps, straddle>>
Serve(p) ==
    /\ \/ proc[p].at = "claimed" /\ Fill(p)
       \/ proc[p].at = "claim" /\ ~straddle
          /\ lock' = [pid |-> p, ver |-> proc[p].ver, empty |-> FALSE]
    /\ Goes(p, "serve")
    /\ UNCHANGED <<sock, dist, crashes, overlaps, straddle>>

(* The loop ends on a signal, on a new version, or with nothing left to do. *)
(* Mutant: the version is compared at the start only.                       *)
NeverStale(p) == FALSE
Stale(p) == dist # proc[p].ver
Leave(p) ==
    /\ proc[p].at = "serve" /\ (proc[p].abort \/ Stale(p)) /\ Goes(p, "drain")
    /\ UNCHANGED <<lock, sock, dist, crashes, overlaps, straddle>>
NothingToDo(p) ==
    /\ proc[p].at = "serve" /\ Goes(p, "drain")
    /\ UNCHANGED <<lock, sock, dist, crashes, overlaps, straddle>>

(* shutdownHub: injections end, the socket is closed, which removes         *)
(* whatever is at its path (twice: server.close does, and rmSync), and the  *)
(* lock goes last.                                                          *)
(* Mutant: the lock goes before the socket is closed.                       *)
CloseSocketLast(p) ==
    /\ proc[p].at = "drain" /\ sock' = Nobody /\ Goes(p, "closed")
    /\ lock' = IF Owner = p THEN NoLock ELSE lock
    /\ UNCHANGED <<dist, crashes, overlaps, straddle>>
CloseSocket(p) ==
    /\ proc[p].at = "drain" /\ sock' = Nobody /\ Goes(p, "closed")
    /\ UNCHANGED <<lock, dist, crashes, overlaps, straddle>>
SocketClosed(p) ==
    /\ proc[p].at = "closed" /\ sock' = Nobody /\ Goes(p, "release")
    /\ UNCHANGED <<lock, dist, crashes, overlaps, straddle>>
(* releaseOwnHubLock.                                                       *)
Release(p) ==
    /\ proc[p].at = "release"
    /\ IF Owner = p THEN Goes(p, "unlock") ELSE Dies(p)
    /\ UNCHANGED <<lock, sock, dist, crashes, overlaps, straddle>>
Unlock(p) ==
    /\ proc[p].at = "unlock" /\ lock' = NoLock /\ Dies(p)
    /\ UNCHANGED <<sock, dist, crashes, overlaps, straddle>>

Crash(p) ==
    /\ Alive(p) /\ crashes < MaxCrash /\ Dies(p) /\ crashes' = crashes + 1
    /\ UNCHANGED <<lock, sock, dist, overlaps, straddle>>
Install ==
    /\ dist < MaxVersion /\ dist' = dist + 1
    /\ UNCHANGED <<proc, lock, sock, crashes, overlaps, straddle>>

Start(p) == Look(p) \/ Probe(p)
Acquire(p) == Take(p) \/ ClearLock(p) \/ CreateLock(p) \/ WriteLock(p) \/ Confirm(p)
WinSocket(p) == ProbeAgain(p) \/ ClearSocket(p) \/ Bind(p) \/ Listen(p) \/ Claim(p) \/ Serve(p)
End(p) == Leave(p) \/ CloseSocket(p) \/ SocketClosed(p) \/ Release(p) \/ Unlock(p)
Runs(p) == Start(p) \/ Acquire(p) \/ WinSocket(p) \/ End(p)

Next == Ensure \/ Install \/ \E p \in Pid : Runs(p) \/ NothingToDo(p) \/ Crash(p)
Spec == Init /\ [][Next]_vars
(* Processes run, and a client that cannot connect keeps trying.            *)
FairSpec == Spec /\ WF_vars(Reconnect) /\ \A p \in Pid : WF_vars(Runs(p))

----------------------------------------------------------------------------
Places == {"off", "look", "probe", "take", "clearLock", "create", "write", "confirm",
           "probeAgain", "clear", "bind", "listen", "claim", "claimed", "serve", "drain",
           "closed", "release", "unlock"}
Process == [at : Places, ver : 0 .. MaxVersion, tries : 0 .. 2, abort : BOOLEAN]
TypeOK ==
    /\ proc \in [Pid -> Process]
    /\ lock \in [pid : Pid \cup {Nobody}, ver : 0 .. MaxVersion, empty : BOOLEAN]
    /\ sock \in Pid \cup {Nobody} /\ dist \in 1 .. MaxVersion /\ crashes \in 0 .. MaxCrash
    /\ overlaps \in 0 .. MaxOverlap /\ straddle \in BOOLEAN

(* Two hubs would type the same queued messages: a hub injects only when it *)
(* has won the socket, and only one wins it (startRestoredDrains, 734).     *)
Injects(p) == proc[p].at \in {"serve", "drain"}
OneServes == \A p, q \in Pid : Injects(p) /\ Injects(q) => p = q

(* The hub that serves can be reached: neither a process that lost nor one  *)
(* that ends removes its socket (730, 424).                                 *)
ServerReachable == \A p \in Pid : proc[p].at = "serve" => sock = p

(* When no process is starting or ending, the lock names the hub that       *)
(* serves (733).                                                            *)
LockAgrees == Settled => \A p \in Pid : proc[p].at = "serve" => Owner = p

(* A hub serves again and again, and in the end one of the version that is  *)
(* installed, whatever was killed on the way.                               *)
Served == []<>(\E p \in Pid : proc[p].at = "serve" /\ sock = p)
Renewed == []<>(\E p \in Pid : proc[p].at = "serve" /\ proc[p].ver = dist)
============================================================================
