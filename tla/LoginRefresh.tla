---------------------------- MODULE LoginRefresh ---------------------------
(***************************************************************************)
(* The login of Claude, refreshed by several processes for the display of  *)
(* the plan usage (src/src/services/claudeCredentialRefresh.ts,            *)
(* planUsageFetcher.ts).                                                   *)
(*                                                                         *)
(* The login is a file with an access token and a refresh token, which     *)
(* the server replaces on every use.  Engines and Claude itself refresh    *)
(* it, one after the other: each takes two directories as locks, steals    *)
(* one that nobody touched for a minute, reads the file again, asks the    *)
(* server and replaces the file.  A request for the usage tries the token  *)
(* of the keychain and that of the file, and may refresh the file once.    *)
(*                                                                         *)
(* The n-th login has the n-th tokens.  A lock is named after the task     *)
(* that made it: no directory gets the inode of one that was removed.      *)
(***************************************************************************)
EXTENDS Integers, Sequences

CONSTANTS
    Requests,   \* for the usage
    Others,     \* refreshes in the background, and those of Claude
    MaxLogin,   \* how often the login is refreshed
    MaxTries,   \* attempts to get the locks
    MaxSleeps,  \* of the machine, for more than a minute
    MaxTrouble  \* requests to the server that fail

ASSUME BoundsAreNatural == MaxLogin \in Nat \ {0} /\ {MaxTries, MaxSleeps, MaxTrouble} \subseteq Nat
ASSUME TasksDiffer == Requests \cap Others = {} /\ {"nobody", "crashed"} \cap (Requests \cup Others) = {}

VARIABLES
    file,    \* the login in the file
    server,  \* the login whose refresh token the server takes
    good,    \* logins whose access token it takes
    due,     \* logins that are to be refreshed by their date
    keychain,\* 0, or a token of another session: "good", "bad"
    lock,    \* who made the directory
    stale,   \* directories nobody has touched for a minute
    task,    \* the refreshes
    ask,     \* the requests for the usage
    lost,    \* has the answer with a new login got lost?
    reused,  \* did the server see a refresh token again?
    stolen,  \* was a lock stolen?
    blocked, \* did a task not get the locks?
    sleeps, trouble

login == <<file, server, good, due, keychain>>
locks == <<lock, stale>>
ghosts == <<lost, reused, stolen, blocked>>
vars == <<login, locks, task, ask, ghosts, sleeps, trouble>>

Tasks == Requests \cup Others
Nobody == "nobody"
Off == [at |-> "off", first |-> 0, sent |-> 0, reply |-> 0, tries |-> 0, again |-> FALSE]
Unasked == [at |-> "idle", left |-> <<>>, token |-> 0, attempted |-> FALSE, failed |-> FALSE,
            troubled |-> FALSE, answer |-> "none"]
Init ==
    /\ file = 1 /\ server = 1 /\ good = {1} /\ due = {}
    /\ keychain \in {"none", "good", "bad"}
    /\ lock \in {[l \in 1..2 |-> Nobody], [l \in 1..2 |-> "crashed"]}
    /\ stale = {l \in 1..2 : lock[l] # Nobody}
    /\ task = [t \in Tasks |-> Off] /\ ask = [p \in Requests |-> Unasked]
    /\ lost = FALSE /\ reused = FALSE /\ stolen = FALSE /\ blocked = FALSE /\ sleeps = 0 /\ trouble = 0

----------------------------------------------------------------------------
(* Time.                                                                    *)
ComesDue ==
    /\ file \notin due /\ file < MaxLogin /\ due' = due \cup {file}
    /\ UNCHANGED <<file, server, good, keychain, locks, task, ask, ghosts, sleeps, trouble>>
(* With its date, or before: revoked, or by a clock that is wrong.  A login *)
(* lasts longer than a request.                                             *)
Expires ==
    /\ \A p \in Requests : ask[p].at \in {"idle", "done"} \/ (ask[p].token = file /\ ~ask[p].attempted)
    /\ file \in good /\ file < MaxLogin /\ good' = good \ {file}
    /\ UNCHANGED <<file, server, due, keychain, locks, task, ask, ghosts, sleeps, trouble>>
Sleeps ==
    /\ sleeps < MaxSleeps /\ sleeps' = sleeps + 1
    /\ stale' = {l \in 1..2 : lock[l] # Nobody}
    /\ UNCHANGED <<login, lock, task, ask, ghosts, trouble>>
Owns(t, l) == lock[l] = t
OwnsAll(t) == \A l \in 1..2 : Owns(t, l)
(* The heartbeat runs while the locks are held, on the event loop of their  *)
(* holder: it can beat only where that waits, for the server and for the    *)
(* body of its answer.  What is done at "hold" is done in one go.           *)
Beats(t) ==
    /\ task[t].at \in {"post", "wait"} /\ \E l \in stale : Owns(t, l)
    /\ stale' = {l \in stale : ~Owns(t, l)}
    /\ UNCHANGED <<login, lock, task, ask, ghosts, sleeps, trouble>>

----------------------------------------------------------------------------
(* The locks.                                                               *)
Steps(t, r) == task' = [task EXCEPT ![t] = r]
At(t, s) == Steps(t, [task[t] EXCEPT !.at = s])
(* Mutant: the second is left. *)
ReleasesFirst(t) == lock' = [lock EXCEPT ![1] = IF Owns(t, 1) THEN Nobody ELSE @] /\ stale' = {l \in stale : ~Owns(t, l)}
Releases(t) ==
    /\ lock' = [l \in 1..2 |-> IF Owns(t, l) THEN Nobody ELSE lock[l]]
    /\ stale' = {l \in stale : ~Owns(t, l)}
Taken(l) == IF l = 1 THEN "take2" ELSE "hold"
Makes(t, l) == lock' = [lock EXCEPT ![l] = t] /\ stale' = stale \ {l} /\ At(t, Taken(l))
(* Another holds one: what was taken is released for a while.               *)
BacksOff(t) ==
    /\ Releases(t)
    /\ IF task[t].tries < MaxTries
       THEN Steps(t, [task[t] EXCEPT !.at = "take1", !.tries = @ + 1])
       ELSE Steps(t, [task[t] EXCEPT !.at = "over", !.reply = 0])
TakeAt(l) == <<"take1", "take2">>[l]
StealAt(l) == <<"steal1", "steal2">>[l]
RemakeAt(l) == <<"remake1", "remake2">>[l]
GivesUp(t) == task[t].tries = MaxTries /\ task'[t].at = "over"
LosesAnswer(t) ==
    /\ lost' = (lost \/ (GivesUp(t) /\ task[t].again)) /\ blocked' = (blocked \/ GivesUp(t))
    /\ UNCHANGED reused
Takes(t, l) ==
    /\ task[t].at = TakeAt(l)
    /\ IF lock[l] = Nobody THEN Makes(t, l)
       ELSE IF l \in stale THEN At(t, StealAt(l)) /\ UNCHANGED locks
       ELSE BacksOff(t)
    /\ LosesAnswer(t) /\ UNCHANGED stolen
    /\ UNCHANGED <<login, ask, sleeps, trouble>>
(* Whatever is there by now is removed.                                     *)
Steals(t, l) ==
    /\ task[t].at = StealAt(l)
    /\ IF lock[l] = Nobody THEN BacksOff(t)
       ELSE lock' = [lock EXCEPT ![l] = Nobody] /\ stale' = stale \ {l} /\ At(t, RemakeAt(l))
    /\ LosesAnswer(t) /\ stolen' = TRUE
    /\ UNCHANGED <<login, ask, sleeps, trouble>>
Remakes(t, l) ==
    /\ task[t].at = RemakeAt(l)
    /\ IF lock[l] = Nobody THEN Makes(t, l) ELSE BacksOff(t)
    /\ LosesAnswer(t) /\ UNCHANGED stolen
    /\ UNCHANGED <<login, ask, sleeps, trouble>>

----------------------------------------------------------------------------
(* A refresh.  reply: the login it ends with, 0 for none.                   *)
Refresh == [Off EXCEPT !.at = "take1", !.first = file]
Ends(t, n) == Releases(t) /\ Steps(t, [task[t] EXCEPT !.at = "over", !.reply = n])
Starts(t) ==
    /\ t \in Others /\ task[t].at = "off" /\ file \in due /\ Steps(t, Refresh)
    /\ UNCHANGED <<login, locks, ask, ghosts, sleeps, trouble>>
(* Mutant: with the token read before the lock. *)
SendsFirst(t) ==
    IF ~OwnsAll(t) THEN Ends(t, 0)
    ELSE Steps(t, [task[t] EXCEPT !.at = "post", !.sent = task[t].first]) /\ UNCHANGED locks
(* Another has refreshed it while this one waited: its login is taken.      *)
Sends(t) ==
    IF file # task[t].first THEN Ends(t, file)
    ELSE IF ~OwnsAll(t) THEN Ends(t, 0)
    ELSE Steps(t, [task[t] EXCEPT !.at = "post", !.sent = file]) /\ UNCHANGED locks
Holds(t) ==
    /\ task[t].at = "hold" /\ ~task[t].again
    /\ Sends(t)
    /\ UNCHANGED <<login, ask, ghosts, sleeps, trouble>>
Replies(t) ==
    /\ task[t].at = "post"
    /\ reused' = (reused \/ task[t].sent # server)
    /\ IF task[t].sent = server
       THEN /\ server < MaxLogin /\ server' = server + 1 /\ good' = good \cup {server + 1}
            /\ Steps(t, [task[t] EXCEPT !.at = "wait", !.reply = server + 1])
       ELSE Steps(t, [task[t] EXCEPT !.at = "wait", !.reply = 0]) /\ UNCHANGED <<server, good>>
    /\ UNCHANGED <<file, due, keychain, locks, ask, lost, stolen, blocked, sleeps, trouble>>
Troubled(t) ==
    IF t \in Requests THEN ask' = [ask EXCEPT ![t].troubled = TRUE] ELSE UNCHANGED ask
(* No answer within five seconds, or one that tells of an error.            *)
Breaks(t) ==
    /\ task[t].at \in {"post", "wait"} /\ trouble < MaxTrouble /\ trouble' = trouble + 1
    /\ Ends(t, 0) /\ Troubled(t)
    /\ lost' = (lost \/ (task[t].at = "wait" /\ task[t].reply # 0))
    /\ UNCHANGED <<login, reused, stolen, blocked, sleeps>>
(* Mutant: a login whose lock was lost is not saved. *)
DropsUnlocked(t) ==
    IF task[t].reply = 0 \/ ~OwnsAll(t) THEN Ends(t, 0) /\ UNCHANGED file
    ELSE file' = task[t].reply /\ Ends(t, task[t].reply)
(* The lock was lost: it is taken again.                                    *)
Saves(t) ==
    IF task[t].reply = 0 THEN Ends(t, 0) /\ UNCHANGED file
    ELSE IF OwnsAll(t) THEN file' = task[t].reply /\ Ends(t, task[t].reply)
    ELSE /\ Releases(t) /\ UNCHANGED file
         /\ Steps(t, [task[t] EXCEPT !.at = "take1", !.again = TRUE, !.tries = 0])
Receives(t) ==
    /\ task[t].at = "wait" /\ Saves(t)
    /\ UNCHANGED <<server, good, due, keychain, ask, ghosts, sleeps, trouble>>
Regains(t) ==
    /\ task[t].at = "hold" /\ task[t].again
    /\ IF file # task[t].sent THEN Ends(t, file) /\ UNCHANGED <<file, lost>>
       ELSE IF ~OwnsAll(t) THEN Ends(t, 0) /\ lost' = TRUE /\ UNCHANGED file
       ELSE file' = task[t].reply /\ Ends(t, task[t].reply) /\ UNCHANGED lost
    /\ UNCHANGED <<server, good, due, keychain, ask, reused, stolen, blocked, sleeps, trouble>>

----------------------------------------------------------------------------
(* A request for the usage.                                                 *)
Asks(p, r) == ask' = [ask EXCEPT ![p] = r]
(* The token of the keychain comes first, unless it is out of date: that is *)
(* not told from its being refused here.  What is due is refreshed before,  *)
(* in the background where the keychain serves.                             *)
Candidates == (IF keychain = "none" THEN <<>> ELSE <<"keychain">>) \o <<"file">>
Begins(p) ==
    /\ ask[p].at = "idle"
    /\ IF file \in due /\ keychain = "none"
       THEN /\ Asks(p, [Unasked EXCEPT !.at = "prepare", !.left = Candidates, !.token = file])
            /\ Steps(p, Refresh)
       ELSE Asks(p, [Unasked EXCEPT !.at = "try", !.left = Candidates, !.token = file]) /\ UNCHANGED task
    /\ UNCHANGED <<login, locks, ghosts, sleeps, trouble>>
Prepared(p) ==
    /\ ask[p].at = "prepare" /\ task[p].at = "over"
    /\ Asks(p, IF task[p].reply = 0 THEN [ask[p] EXCEPT !.at = "try"]
               ELSE [ask[p] EXCEPT !.at = "try", !.token = task[p].reply, !.attempted = TRUE])
    /\ Steps(p, Off)
    /\ UNCHANGED <<login, locks, ghosts, sleeps, trouble>>
Accepted(p) == IF Head(ask[p].left) = "keychain" THEN keychain = "good" ELSE ask[p].token \in good
Next1(p, r) ==
    IF Len(r.left) > 1 THEN [r EXCEPT !.left = Tail(@), !.at = "try"]
    ELSE [r EXCEPT !.at = "done", !.answer = IF r.failed THEN "unavailable" ELSE "login"]
Tries(p) ==
    /\ ask[p].at \in {"try", "retry"}
    /\ \/ Accepted(p) /\ Asks(p, [ask[p] EXCEPT !.at = "done", !.answer = "usage"])
          /\ UNCHANGED <<task, trouble>>
       \/ trouble < MaxTrouble /\ trouble' = trouble + 1 /\ UNCHANGED task
          /\ Asks(p, Next1(p, [ask[p] EXCEPT !.failed = TRUE, !.troubled = TRUE]))
       \/ ~Accepted(p) /\ UNCHANGED trouble
          /\ IF Head(ask[p].left) = "keychain" \/ ask[p].attempted
             THEN Asks(p, Next1(p, ask[p])) /\ UNCHANGED task
             ELSE Asks(p, [ask[p] EXCEPT !.at = "refresh", !.attempted = TRUE]) /\ Steps(p, Refresh)
    /\ UNCHANGED <<login, locks, ghosts, sleeps>>
(* Mutant: what was tried before is tried again. *)
SameToken(p) ==
    IF task[p].reply = 0 THEN Next1(p, ask[p]) ELSE [ask[p] EXCEPT !.at = "retry"]
Refreshed(p) ==
    IF task[p].reply = 0 THEN Next1(p, ask[p])
    ELSE [ask[p] EXCEPT !.at = "retry", !.token = task[p].reply]
Retries(p) ==
    /\ ask[p].at = "refresh" /\ task[p].at = "over"
    /\ Asks(p, Refreshed(p)) /\ Steps(p, Off)
    /\ UNCHANGED <<login, locks, ghosts, sleeps, trouble>>

Refreshes(t) ==
    \/ Beats(t) \/ Starts(t) \/ Holds(t) \/ Replies(t) \/ Breaks(t) \/ Receives(t) \/ Regains(t)
    \/ \E l \in 1..2 : Takes(t, l) \/ Steals(t, l) \/ Remakes(t, l)
Next ==
    \/ ComesDue \/ Expires \/ Sleeps
    \/ \E t \in Tasks : Refreshes(t)
    \/ \E p \in Requests : Begins(p) \/ Prepared(p) \/ Tries(p) \/ Retries(p)
Spec == Init /\ [][Next]_vars
(* Every process goes on; what can break need not.                          *)
Goes(t) ==
    \/ Holds(t) \/ Replies(t) \/ Receives(t) \/ Regains(t)
    \/ \E l \in 1..2 : Takes(t, l) \/ Steals(t, l) \/ Remakes(t, l)
FairSpec ==
    /\ Spec /\ \A t \in Tasks : WF_vars(Goes(t))
    /\ \A p \in Requests : WF_vars(Begins(p) \/ Prepared(p) \/ Tries(p) \/ Retries(p))
----------------------------------------------------------------------------
Places == {"off", "take1", "steal1", "remake1", "take2", "steal2", "remake2", "hold", "post", "wait", "over"}
Task == [at : Places, first : 0..MaxLogin, sent : 0..MaxLogin, reply : 0..MaxLogin, tries : 0..MaxTries,
         again : BOOLEAN]
Asking == [at : {"idle", "prepare", "try", "refresh", "retry", "done"}, left : Seq({"keychain", "file"}),
           token : 0..MaxLogin, attempted : BOOLEAN, failed : BOOLEAN, troubled : BOOLEAN,
           answer : {"none", "usage", "login", "unavailable"}]
TypeOK ==
    /\ file \in 1..MaxLogin /\ server \in 1..MaxLogin /\ file <= server
    /\ good \subseteq 1..MaxLogin /\ due \subseteq 1..MaxLogin /\ keychain \in {"none", "good", "bad"}
    /\ lock \in [1..2 -> Tasks \cup {Nobody, "crashed"}] /\ stale \subseteq 1..2
    /\ task \in [Tasks -> Task] /\ ask \in [Requests -> Asking]
    /\ lost \in BOOLEAN /\ reused \in BOOLEAN /\ stolen \in BOOLEAN /\ blocked \in BOOLEAN
    /\ sleeps \in 0..MaxSleeps /\ trouble \in 0..MaxTrouble

(* However locks are stolen, a login the server has given out is in the     *)
(* file or in the hands of the task that asked for it, unless its answer    *)
(* got lost on the way or nobody lets the task take the lock again          *)
(* (claudeCredentialRefresh.ts:126-151).                                    *)
LoginKept ==
    lost \/ file = server \/ \E t \in Tasks : task[t].reply = server /\ task[t].at \notin {"off", "over"}
(* While no lock is stolen, no refresh token is used twice (claude-         *)
(* CredentialRefresh.ts:4-7).                                               *)
UsedOnce == reused => lost \/ stolen
(* Nobody is told to log in again while the login in the file can be        *)
(* refreshed and every request gets through (planUsageFetcher.ts:347-376).  *)
NoNeedlessLogin ==
    trouble = 0 /\ ~stolen /\ ~blocked => \A p \in Requests : ask[p].answer # "login"
(* Who was in trouble with the server is told so, not to log in again       *)
(* (planUsageFetcher.ts:161-163).                                           *)
TroubleTold == \A p \in Requests : ask[p].answer = "login" => ~ask[p].troubled
=============================================================================
