------------------------- MODULE LoginRefreshProofs -------------------------
(***************************************************************************)
(* Theorems about LoginRefresh, for any number of requests, refreshes,     *)
(* logins, sleeps and failures.                                            *)
(***************************************************************************)
EXTENDS LoginRefresh, TLAPS
-----------------------------------------------------------------------------
(* The inductive invariant.                                                *)

Locking == {"take1", "steal1", "remake1", "take2", "steal2", "remake2", "hold"}
Working == Locking \cup {"post", "wait"}

(* A task that is at work and has an answer carries the newest login, and  *)
(* the file still has the one it was asked for with.                       *)
Carries(t) == task[t].at \in Working /\ task[t].reply # 0
CarriesNewest ==
    \A t \in Tasks : Carries(t) => /\ task[t].reply = server
                                   /\ task[t].sent = file /\ server = file + 1
OneCarries == \A t, u \in Tasks : Carries(t) /\ Carries(u) => t = u

(* A task has an answer between asking the server and its end, and takes   *)
(* the locks again only with one.                                          *)
AnswerComes ==
    \A t \in Tasks :
        /\ task[t].at = "post" => task[t].reply = 0 /\ ~task[t].again /\ task[t].sent <= file
        /\ task[t].at = "wait" => ~task[t].again
        /\ task[t].at \in Locking => (task[t].again <=> task[t].reply # 0)

(* The login of the server is somewhere.                                   *)
Somewhere == lost \/ file = server \/ \E t \in Tasks : Carries(t)

(* A request refreshes only while it waits for that.                       *)
AsksWaiting ==
    \A p \in Requests : ask[p].at \in {"idle", "try", "retry", "done"} => task[p].at = "off"

(* While nothing is stolen, the locks exclude: what a task read in the     *)
(* file is there until it has written it.                                  *)
Excluded(t) ==
    /\ task[t].at \notin {"remake1", "remake2"} /\ ~task[t].again
    /\ task[t].at \in {"take2", "steal2"} => Owns(t, 1)
    /\ task[t].at \in {"hold", "post", "wait"} => OwnsAll(t)
    /\ task[t].at = "post" => task[t].sent = file
LocksExclude == ~stolen => \A t \in Tasks : Excluded(t)

Flow == CarriesNewest /\ OneCarries /\ AnswerComes /\ Somewhere
LoginInv == TypeOK /\ Flow /\ AsksWaiting /\ LocksExclude /\ UsedOnce
-----------------------------------------------------------------------------
LEMMA LoginInit == Init => LoginInv
<1> SUFFICES ASSUME Init PROVE LoginInv
  OBVIOUS
<1>1. Off \in Task /\ Off.at = "off" /\ Off.reply = 0 /\ ~Off.again
  BY BoundsAreNatural DEF Off, Task, Places
<1>2. Unasked \in Asking
  BY BoundsAreNatural DEF Unasked, Asking
<1>3. TypeOK
  <2>1. lock \in [1..2 -> Tasks \cup {Nobody, "crashed"}]
    BY DEF Init
  <2>2. task \in [Tasks -> Task] /\ ask \in [Requests -> Asking]
    BY <1>1, <1>2 DEF Init
  <2>3. 1 \in 1..MaxLogin /\ 0 \in 0..MaxSleeps /\ 0 \in 0..MaxTrouble /\ stale \subseteq 1..2
    BY BoundsAreNatural DEF Init
  <2>4. /\ lost \in BOOLEAN /\ reused \in BOOLEAN /\ stolen \in BOOLEAN /\ blocked \in BOOLEAN
        /\ keychain \in {"none", "good", "bad"}
    BY DEF Init
  <2>5. /\ file \in 1..MaxLogin /\ server \in 1..MaxLogin /\ file <= server
        /\ good \subseteq 1..MaxLogin /\ due \subseteq 1..MaxLogin
        /\ sleeps \in 0..MaxSleeps /\ trouble \in 0..MaxTrouble
    BY <2>3 DEF Init
  <2> QED
    BY <2>1, <2>2, <2>3, <2>4, <2>5 DEF TypeOK
<1>4. \A t \in Tasks : task[t] = Off
  BY DEF Init
<1> QED
  BY <1>1, <1>3, <1>4 DEF Init, LoginInv, Flow, CarriesNewest, OneCarries, AnswerComes, Somewhere,
     AsksWaiting, LocksExclude, Excluded, UsedOnce, Carries, Locking, Working, Tasks
-----------------------------------------------------------------------------
(* What the steps of a task do to it and to the locks.                     *)

Aside(t) == task' \in [Tasks -> Task] /\ \A u \in Tasks : u # t => task'[u] = task[u]
Same(t) == /\ task'[t].sent = task[t].sent /\ task'[t].reply = task[t].reply
           /\ task'[t].again = task[t].again

LEMMA StepsTo ==
    ASSUME TypeOK, NEW t \in Tasks, NEW r \in Task, Steps(t, r)
    PROVE  Aside(t) /\ task'[t] = r
BY DEF TypeOK, Steps, Aside

LEMMA AtStep ==
    ASSUME TypeOK, NEW t \in Tasks, NEW s \in Places, At(t, s)
    PROVE  Aside(t) /\ Same(t) /\ task'[t].at = s
<1> DEFINE r == [task[t] EXCEPT !.at = s]
<1>1. task[t] \in Task
  BY DEF TypeOK
<1>2. /\ r \in Task /\ r.at = s /\ r.sent = task[t].sent /\ r.reply = task[t].reply
      /\ r.again = task[t].again
  BY <1>1, Zenon DEF Task
<1>3. Steps(t, r)
  BY DEF At
<1> HIDE DEF r
<1> QED
  BY <1>2, <1>3, StepsTo DEF Same

LEMMA Released ==
    ASSUME TypeOK, NEW t \in Tasks, Releases(t)
    PROVE  /\ lock' \in [1..2 -> Tasks \cup {Nobody, "crashed"}] /\ stale' \subseteq 1..2
           /\ \A u \in Tasks, l \in 1..2 : u # t /\ Owns(u, l) => Owns(u, l)'
BY DEF TypeOK, Releases, Owns

LEMMA EndsStep ==
    ASSUME TypeOK, NEW t \in Tasks, NEW n \in 0..MaxLogin, Ends(t, n)
    PROVE  Aside(t) /\ task'[t].at = "over" /\ task'[t].again = task[t].again /\ Releases(t)
<1> DEFINE r == [task[t] EXCEPT !.at = "over", !.reply = n]
<1>1. task[t] \in Task /\ "over" \in Places
  BY DEF TypeOK, Places
<1>2. r \in Task /\ r.at = "over" /\ r.again = task[t].again
  BY <1>1, Zenon DEF Task
<1>3. Steps(t, r) /\ Releases(t)
  BY DEF Ends
<1> HIDE DEF r
<1> QED
  BY <1>2, <1>3, StepsTo

LEMMA BacksOffStep ==
    ASSUME TypeOK, NEW t \in Tasks, BacksOff(t)
    PROVE  /\ Aside(t) /\ Releases(t) /\ task'[t].again = task[t].again
           /\ \/ task'[t].at = "take1" /\ Same(t)
              \/ task'[t].at = "over" /\ GivesUp(t)
<1>1. task[t] \in Task /\ {"over", "take1"} \subseteq Places /\ 0 \in 0..MaxLogin
  BY BoundsAreNatural DEF TypeOK, Places
<1>2. Releases(t)
  BY DEF BacksOff
<1>3. CASE task[t].tries < MaxTries
  <2> DEFINE n == task[t].tries + 1
             r == [task[t] EXCEPT !.at = "take1", !.tries = n]
  <2>1. n \in 0..MaxTries
    BY <1>1, <1>3, BoundsAreNatural DEF Task
  <2>2. Steps(t, r)
    BY <1>3 DEF BacksOff
  <2> HIDE DEF n
  <2>3. /\ r \in Task /\ r.at = "take1" /\ r.sent = task[t].sent /\ r.reply = task[t].reply
        /\ r.again = task[t].again
    BY <1>1, <2>1, Zenon DEF Task
  <2> HIDE DEF r
  <2> QED
    BY <1>2, <2>2, <2>3, StepsTo DEF Same
<1>4. CASE ~(task[t].tries < MaxTries)
  <2> DEFINE r == [task[t] EXCEPT !.at = "over", !.reply = 0]
  <2>1. Steps(t, r)
    BY <1>4 DEF BacksOff
  <2>2. r \in Task /\ r.at = "over" /\ r.again = task[t].again
    BY <1>1, Zenon DEF Task
  <2>3. task[t].tries = MaxTries
    BY <1>1, <1>4, BoundsAreNatural DEF Task
  <2> HIDE DEF r
  <2> QED
    BY <1>2, <2>1, <2>2, <2>3, StepsTo DEF GivesUp
<1> QED
  BY <1>3, <1>4
-----------------------------------------------------------------------------
(* A task that goes on with the locks, ends or begins leaves the way of    *)
(* the login as it was; it ends with an answer only when that got lost.    *)
LEMMA FlowKept ==
    ASSUME TypeOK, Flow, NEW t \in Tasks, Aside(t), file' = file, server' = server, lost => lost',
           \/ /\ task[t].at \in Locking /\ task'[t].at \in Locking /\ Same(t)
           \/ /\ task'[t].at \notin Working /\ (Carries(t) => lost')
           \/ /\ task[t].at \notin Working /\ task'[t].at = "take1" /\ task'[t].reply = 0
              /\ ~task'[t].again
    PROVE  Flow'
<1>1. \A u \in Tasks : u # t => task'[u] = task[u]
  BY DEF Aside
<1>2. CASE task[t].at \in Locking /\ task'[t].at \in Locking /\ Same(t)
  <2>1. \A u \in Tasks : Carries(u)' <=> Carries(u)
    BY <1>1, <1>2 DEF Carries, Same, Working, Locking
  <2>2. \A u \in Tasks : task'[u].reply = task[u].reply /\ task'[u].sent = task[u].sent
    BY <1>1, <1>2 DEF Same
  <2>3. AnswerComes'
    BY <1>1, <1>2 DEF Flow, AnswerComes, Same, Locking
  <2> QED
    BY <2>1, <2>2, <2>3 DEF Flow, CarriesNewest, OneCarries, Somewhere
<1>3. CASE task'[t].at \notin Working /\ (Carries(t) => lost')
  <2>1. \A u \in Tasks : Carries(u)' <=> Carries(u) /\ u # t
    BY <1>1, <1>3 DEF Carries
  <2>2. AnswerComes'
    BY <1>1, <1>3 DEF Flow, AnswerComes, Working, Locking
  <2> QED
    BY <1>1, <1>3, <2>1, <2>2 DEF Flow, CarriesNewest, OneCarries, Somewhere
<1>4. CASE /\ task[t].at \notin Working /\ task'[t].at = "take1" /\ task'[t].reply = 0
           /\ ~task'[t].again
  <2>1. \A u \in Tasks : Carries(u)' <=> Carries(u)
    BY <1>1, <1>4 DEF Carries
  <2>2. \A u \in Tasks : Carries(u) => u # t
    BY <1>4 DEF Carries
  <2>3. AnswerComes'
    BY <1>1, <1>4 DEF Flow, AnswerComes, Locking
  <2> QED
    BY <1>1, <2>1, <2>2, <2>3 DEF Flow, CarriesNewest, OneCarries, Somewhere
<1> QED
  BY <1>2, <1>3, <1>4

(* While nothing is stolen, the locks of the others stay theirs.           *)
LEMMA ExcludeKept ==
    ASSUME LocksExclude, NEW t \in Tasks, Aside(t), stolen => stolen',
           \A u \in Tasks, l \in 1..2 : u # t /\ Owns(u, l) => Owns(u, l)',
           \/ file' = file
           \/ \A u \in Tasks : u # t /\ ~stolen' => task[u].at # "post",
           ~stolen' => Excluded(t)'
    PROVE  LocksExclude'
<1> SUFFICES ASSUME ~stolen', NEW u \in Tasks, u # t PROVE Excluded(u)'
  BY DEF LocksExclude
<1>1. Excluded(u) /\ task'[u] = task[u]
  BY DEF LocksExclude, Aside
<1>2. Owns(u, 1) => Owns(u, 1)'
  OBVIOUS
<1>3. OwnsAll(u) => OwnsAll(u)'
  BY DEF OwnsAll
<1> QED
  BY <1>1, <1>2, <1>3 DEF Excluded

(* Only a request that waits for it has a task at work.                    *)
LEMMA WaitingKept ==
    ASSUME TypeOK, AsksWaiting, NEW t \in Tasks, Aside(t), task[t].at # "off" \/ t \in Others,
           \A p \in Requests : ask'[p].at = ask[p].at
    PROVE  AsksWaiting'
BY TasksDiffer DEF AsksWaiting, Aside, Tasks
-----------------------------------------------------------------------------
(* The locks are taken, stolen and left.                                   *)

LEMMA LockActions ==
    ASSUME LoginInv, NEW t \in Tasks, NEW l \in 1..2, Takes(t, l) \/ Steals(t, l) \/ Remakes(t, l)
    PROVE  LoginInv'
<1>1. TypeOK /\ Flow /\ AsksWaiting /\ LocksExclude /\ UsedOnce
  BY DEF LoginInv
<1>2. \/ task[t].at \in {"take1", "steal1", "remake1"} /\ l = 1
      \/ task[t].at \in {"take2", "steal2", "remake2"} /\ l = 2
  BY DEF Takes, Steals, Remakes, TakeAt, StealAt, RemakeAt
<1>3. /\ login' = login /\ ask' = ask /\ sleeps' = sleeps /\ trouble' = trouble
      /\ lost' = (lost \/ (GivesUp(t) /\ task[t].again))
      /\ blocked' = (blocked \/ GivesUp(t)) /\ reused' = reused
      /\ \/ stolen' = stolen /\ ~Steals(t, l)
         \/ stolen' = TRUE
  <2>1. CASE Takes(t, l)
    BY <2>1, Zenon DEF Takes, LosesAnswer, Steals, TakeAt, StealAt
  <2>2. CASE Steals(t, l)
    BY <2>2, Zenon DEF Steals, LosesAnswer
  <2>3. CASE Remakes(t, l)
    BY <2>3, Zenon DEF Remakes, LosesAnswer, Steals
  <2> QED
    BY <2>1, <2>2, <2>3
<1>4. (lost => lost') /\ (stolen => stolen') /\ (Steals(t, l) => stolen')
  <2>1. lost => lost'
    BY <1>3, Zenon
  <2>2. (stolen => stolen') /\ (Steals(t, l) => stolen')
    <3>1. CASE stolen' = stolen /\ ~Steals(t, l)
      BY <3>1
    <3>2. CASE stolen' = TRUE
      BY <3>2
    <3> QED
      BY <1>3, <3>1, <3>2
  <2> QED
    BY <2>1, <2>2
<1>5. lost' \in BOOLEAN /\ blocked' \in BOOLEAN /\ stolen' \in BOOLEAN
  BY <1>1, <1>3 DEF TypeOK
<1>6. /\ {"take1", "take2", "hold", "steal1", "steal2", "remake1", "remake2"} \subseteq Places
      /\ Taken(l) \in {"take2", "hold"} /\ StealAt(l) \in {"steal1", "steal2"}
      /\ RemakeAt(l) \in {"remake1", "remake2"}
  BY DEF Places, Taken, StealAt, RemakeAt
<1>7. ASSUME Aside(t), lock' \in [1..2 -> Tasks \cup {Nobody, "crashed"}], stale' \subseteq 1..2,
             \/ task'[t].at \in Locking /\ Same(t)
             \/ task'[t].at = "over" /\ GivesUp(t),
             \A u \in Tasks, k \in 1..2 : u # t /\ Owns(u, k) => Owns(u, k)',
             ~stolen' => Excluded(t)'
      PROVE  LoginInv'
  <2>1. TypeOK'
    BY <1>1, <1>3, <1>5, <1>7 DEF TypeOK, login, Aside
  <2>2. Carries(t) => task[t].again
    BY <1>1, <1>2 DEF Flow, AnswerComes, Carries, Locking
  <2>3. Flow'
    <3>1. task[t].at \in Locking
      BY <1>2 DEF Locking
    <3> QED
      BY <1>1, <1>3, <1>4, <1>7, <2>2, <3>1, FlowKept DEF login, Working, Locking
  <2>4. LocksExclude'
    BY <1>1, <1>3, <1>4, <1>7, ExcludeKept DEF login
  <2>5. AsksWaiting'
    BY <1>1, <1>2, <1>3, <1>7, WaitingKept
  <2> QED
    BY <1>1, <1>3, <1>4, <2>1, <2>3, <2>4, <2>5 DEF LoginInv, UsedOnce
<1>8. CASE lock[l] = Nobody /\ Makes(t, l) /\ ~Steals(t, l)
  <2>1. Aside(t) /\ Same(t) /\ task'[t].at = Taken(l)
    BY <1>1, <1>6, <1>8, AtStep DEF Makes
  <2>2. /\ lock' \in [1..2 -> Tasks \cup {Nobody, "crashed"}] /\ stale' \subseteq 1..2
        /\ Owns(t, l)' /\ \A k \in 1..2 : Owns(t, k) => Owns(t, k)'
    BY <1>1, <1>8 DEF Makes, TypeOK, Owns
  <2>3. \A u \in Tasks, k \in 1..2 : u # t /\ Owns(u, k) => Owns(u, k)'
    BY <1>1, <1>8, TasksDiffer DEF Makes, TypeOK, Owns, Nobody, Tasks
  <2>4. ASSUME ~stolen' PROVE Excluded(t)'
    <3>1. Excluded(t)
      BY <1>1, <1>4, <2>4 DEF LocksExclude
    <3>2. \/ l = 1 /\ task'[t].at = "take2"
          \/ l = 2 /\ task'[t].at = "hold" /\ task[t].at \in {"take2", "steal2"}
      BY <1>2, <2>1, <3>1 DEF Taken, Excluded
    <3>3. l = 2 => Owns(t, 1)' /\ Owns(t, 2)'
      BY <2>2, <3>1, <3>2 DEF Excluded
    <3> QED
      BY <2>1, <2>2, <3>1, <3>2, <3>3 DEF Excluded, OwnsAll, Same
  <2> QED
    BY <1>6, <1>7, <2>1, <2>2, <2>3, <2>4 DEF Locking
<1>9. CASE Takes(t, l) /\ At(t, StealAt(l)) /\ UNCHANGED locks
  <2>1. Aside(t) /\ Same(t) /\ task'[t].at = StealAt(l)
    BY <1>1, <1>6, <1>9, AtStep
  <2>2. lock' = lock /\ stale' = stale /\ \A u \in Tasks, k \in 1..2 : Owns(u, k)' <=> Owns(u, k)
    BY <1>9 DEF locks, Owns
  <2>3. ASSUME ~stolen' PROVE Excluded(t)'
    <3>1. Excluded(t)
      BY <1>1, <1>4, <2>3 DEF LocksExclude
    <3>2. \/ l = 1 /\ task'[t].at = "steal1"
          \/ l = 2 /\ task'[t].at = "steal2" /\ task[t].at = "take2"
      BY <1>9, <2>1 DEF Takes, TakeAt, StealAt
    <3> QED
      BY <2>1, <2>2, <3>1, <3>2 DEF Excluded, Same
  <2> QED
    BY <1>1, <1>6, <1>7, <2>1, <2>2, <2>3 DEF Locking, TypeOK
<1>10. CASE BacksOff(t)
  <2>1. /\ Aside(t) /\ Releases(t) /\ task'[t].again = task[t].again
        /\ \/ task'[t].at = "take1" /\ Same(t)
           \/ task'[t].at = "over" /\ GivesUp(t)
    BY <1>1, <1>10, BacksOffStep
  <2>2. ~stolen' => Excluded(t)'
    BY <1>1, <1>4, <2>1 DEF LocksExclude, Excluded
  <2> QED
    BY <1>1, <1>7, <2>1, <2>2, Released DEF Locking
<1>11. CASE Steals(t, l) /\ lock' = [lock EXCEPT ![l] = Nobody] /\ stale' = stale \ {l} /\ At(t, RemakeAt(l))
  <2>1. Aside(t) /\ Same(t) /\ task'[t].at = RemakeAt(l)
    BY <1>1, <1>6, <1>11, AtStep
  <2>2. lock' \in [1..2 -> Tasks \cup {Nobody, "crashed"}] /\ stale' \subseteq 1..2
    BY <1>1, <1>11 DEF TypeOK
  <2>3. TypeOK'
    BY <1>1, <1>3, <1>5, <2>1, <2>2 DEF TypeOK, login, Aside
  <2>4. Flow'
    BY <1>1, <1>2, <1>3, <1>4, <1>6, <2>1, FlowKept DEF login, Locking
  <2>5. AsksWaiting'
    BY <1>1, <1>2, <1>3, <2>1, WaitingKept
  <2>6. stolen'
    BY <1>4, <1>11
  <2> QED
    BY <2>3, <2>4, <2>5, <2>6 DEF LoginInv, LocksExclude, UsedOnce
<1> QED
  BY <1>8, <1>9, <1>10, <1>11 DEF Takes, Steals, Remakes, TakeAt, StealAt, RemakeAt
-----------------------------------------------------------------------------
(* A refresh begins, asks the server and ends.                             *)

LEMMA RefreshBegins ==
    ASSUME TypeOK
    PROVE  Refresh \in Task /\ Refresh.at = "take1" /\ Refresh.reply = 0 /\ ~Refresh.again
<1>1. Off \in Task /\ "take1" \in Places /\ file \in 0..MaxLogin /\ Off.reply = 0 /\ ~Off.again
  BY BoundsAreNatural DEF Off, Task, Places, TypeOK
<1> QED
  BY <1>1, Zenon DEF Refresh, Task

LEMMA EndsKeep ==
    ASSUME LoginInv, NEW t \in Tasks, NEW n \in 0..MaxLogin, task[t].at \in Working, Ends(t, n),
           file' = file, server' = server, good' = good, due' = due, keychain' = keychain,
           reused' = reused, stolen' = stolen, blocked' = blocked, sleeps' = sleeps,
           trouble' \in 0..MaxTrouble, ask' \in [Requests -> Asking],
           \A p \in Requests : ask'[p].at = ask[p].at,
           lost' \in BOOLEAN, lost => lost', Carries(t) => lost'
    PROVE  LoginInv'
<1>1. TypeOK /\ Flow /\ AsksWaiting /\ LocksExclude /\ UsedOnce
  BY DEF LoginInv
<1>2. /\ Aside(t) /\ task'[t].at = "over" /\ task'[t].again = task[t].again /\ Releases(t)
  BY <1>1, EndsStep
<1>3. TypeOK'
  BY <1>1, <1>2, Released DEF TypeOK, Aside
<1>4. Flow'
  BY <1>1, <1>2, FlowKept DEF Working, Locking
<1>5. AsksWaiting'
  BY <1>1, <1>2, WaitingKept DEF Working, Locking
<1>6. LocksExclude'
  <2>1. ~stolen' => Excluded(t)'
    BY <1>1, <1>2 DEF LocksExclude, Excluded
  <2> QED
    BY <1>1, <1>2, <2>1, Released, ExcludeKept
<1> QED
  BY <1>1, <1>3, <1>4, <1>5, <1>6 DEF LoginInv, UsedOnce

LEMMA SendStep ==
    ASSUME LoginInv, NEW t \in Tasks, Holds(t)
    PROVE  LoginInv'
<1>1. TypeOK /\ Flow /\ AsksWaiting /\ LocksExclude /\ UsedOnce
  BY DEF LoginInv
<1>2. /\ task[t].at = "hold" /\ ~task[t].again /\ ~Carries(t) /\ task[t].reply = 0
      /\ login' = login /\ ask' = ask /\ ghosts' = ghosts /\ sleeps' = sleeps /\ trouble' = trouble
  BY <1>1 DEF Holds, Flow, AnswerComes, Locking, Carries
<1>3. file \in 0..MaxLogin /\ 0 \in 0..MaxLogin
  BY <1>1, BoundsAreNatural DEF TypeOK
<1>4. ASSUME NEW n \in 0..MaxLogin, Ends(t, n) PROVE LoginInv'
  BY <1>1, <1>2, <1>4, EndsKeep DEF login, ghosts, TypeOK, Working, Locking
<1>5. CASE /\ OwnsAll(t) /\ UNCHANGED locks
           /\ Steps(t, [task[t] EXCEPT !.at = "post", !.sent = file])
  <2> DEFINE r == [task[t] EXCEPT !.at = "post", !.sent = file]
  <2>1. task[t] \in Task /\ "post" \in Places
    BY <1>1 DEF TypeOK, Places
  <2>2. /\ r \in Task /\ r.at = "post" /\ r.sent = file /\ r.reply = task[t].reply
        /\ r.again = task[t].again
    BY <1>3, <2>1, Zenon DEF Task
  <2>3. Steps(t, r)
    BY <1>5
  <2> HIDE DEF r
  <2>4. /\ Aside(t) /\ task'[t].at = "post" /\ task'[t].sent = file /\ task'[t].reply = 0
        /\ ~task'[t].again /\ \A u \in Tasks : u # t => task'[u] = task[u]
    BY <1>1, <1>2, <2>2, <2>3, StepsTo DEF Aside
  <2>5. TypeOK'
    BY <1>1, <1>2, <1>5, <2>4 DEF TypeOK, login, ghosts, locks, Aside
  <2>6. Flow'
    <3>1. \A u \in Tasks : Carries(u)' <=> Carries(u)
      BY <1>2, <2>4 DEF Carries
    <3>2. AnswerComes'
      BY <1>1, <1>2, <1>3, <2>4 DEF Flow, AnswerComes, login, Locking, TypeOK
    <3> QED
      BY <1>1, <1>2, <2>4, <3>1, <3>2 DEF Flow, CarriesNewest, OneCarries, Somewhere, login, ghosts,
         Carries
  <2>7. AsksWaiting'
    BY <1>1, <1>2, <2>4, WaitingKept
  <2>8. LocksExclude'
    <3>1. \A u \in Tasks, k \in 1..2 : Owns(u, k)' <=> Owns(u, k)
      BY <1>5 DEF locks, Owns
    <3>2. Excluded(t)'
      BY <1>2, <1>5, <2>4, <3>1 DEF Excluded, OwnsAll, login
    <3> QED
      BY <1>1, <1>2, <2>4, <3>1, <3>2, ExcludeKept DEF login, ghosts
  <2> QED
    BY <1>1, <1>2, <2>5, <2>6, <2>7, <2>8 DEF LoginInv, UsedOnce, ghosts
<1> QED
  BY <1>3, <1>4, <1>5 DEF Holds, Sends

(* The server gives out a new login only for the newest: nobody carries    *)
(* one then, and the file has it.                                          *)
LEMMA ReplyStep ==
    ASSUME LoginInv, NEW t \in Tasks, Replies(t)
    PROVE  LoginInv'
<1>1. TypeOK /\ Flow /\ AsksWaiting /\ LocksExclude /\ UsedOnce
  BY DEF LoginInv
<1>2. /\ task[t].at = "post" /\ task[t].reply = 0 /\ ~task[t].again /\ task[t].sent <= file
      /\ file' = file /\ due' = due /\ keychain' = keychain /\ locks' = locks /\ ask' = ask
      /\ lost' = lost /\ stolen' = stolen /\ blocked' = blocked /\ sleeps' = sleeps
      /\ trouble' = trouble /\ reused' = (reused \/ task[t].sent # server)
  BY <1>1 DEF Replies, Flow, AnswerComes
<1>3. task[t] \in Task /\ "wait" \in Places /\ {file, server} \subseteq 1..MaxLogin /\ file <= server
  BY <1>1 DEF TypeOK, Places
<1>4. \A u \in Tasks, k \in 1..2 : Owns(u, k)' <=> Owns(u, k)
  BY <1>2 DEF locks, Owns
<1>5. ASSUME NEW n \in 0..MaxLogin, Steps(t, [task[t] EXCEPT !.at = "wait", !.reply = n])
      PROVE  /\ Aside(t) /\ task'[t].at = "wait" /\ task'[t].reply = n /\ ~task'[t].again
             /\ task'[t].sent = task[t].sent /\ \A u \in Tasks : u # t => task'[u] = task[u]
             /\ AsksWaiting' /\ LocksExclude' /\ AnswerComes'
  <2> DEFINE r == [task[t] EXCEPT !.at = "wait", !.reply = n]
  <2>1. /\ r \in Task /\ r.at = "wait" /\ r.reply = n /\ r.again = task[t].again
        /\ r.sent = task[t].sent
    BY <1>3, Zenon DEF Task
  <2>2. Steps(t, r)
    BY <1>5
  <2> HIDE DEF r
  <2>3. /\ Aside(t) /\ task'[t].at = "wait" /\ task'[t].reply = n /\ ~task'[t].again
        /\ task'[t].sent = task[t].sent /\ \A u \in Tasks : u # t => task'[u] = task[u]
    BY <1>1, <1>2, <2>1, <2>2, StepsTo DEF Aside
  <2>4. AsksWaiting'
    BY <1>1, <1>2, <2>3, WaitingKept
  <2>5. ASSUME ~stolen' PROVE Excluded(t)'
    BY <1>1, <1>2, <1>4, <2>3, <2>5 DEF LocksExclude, Excluded, OwnsAll
  <2>6. LocksExclude'
    BY <1>1, <1>2, <1>4, <2>3, <2>5, ExcludeKept
  <2>7. AnswerComes'
    BY <1>1, <1>2, <2>3 DEF Flow, AnswerComes, Locking
  <2> QED
    BY <2>3, <2>4, <2>6, <2>7
<1>6. reused' \in BOOLEAN
  BY <1>1, <1>2 DEF TypeOK
<1>7. CASE task[t].sent = server
  <2>1. /\ file = server /\ server' = server + 1 /\ server < MaxLogin /\ good' = good \cup {server + 1}
        /\ Steps(t, [task[t] EXCEPT !.at = "wait", !.reply = server + 1])
    BY <1>2, <1>3, <1>7 DEF Replies
  <2>2. server + 1 \in 0..MaxLogin /\ server + 1 \in 1..MaxLogin
    BY <1>3, <2>1, BoundsAreNatural
  <2>3. /\ Aside(t) /\ task'[t].at = "wait" /\ task'[t].reply = server + 1
        /\ task'[t].sent = task[t].sent /\ \A u \in Tasks : u # t => task'[u] = task[u]
        /\ AsksWaiting' /\ LocksExclude' /\ AnswerComes'
    BY <1>5, <2>1, <2>2
  <2>4. TypeOK'
    BY <1>1, <1>2, <1>3, <1>6, <2>1, <2>2, <2>3 DEF TypeOK, locks, Aside
  <2>5. \A u \in Tasks : ~Carries(u)
    BY <1>1, <1>3, <2>1 DEF Flow, CarriesNewest
  <2>6. \A u \in Tasks : Carries(u)' <=> u = t
    BY <1>3, <2>3, <2>5 DEF Carries, Working
  <2>7. CarriesNewest' /\ OneCarries' /\ Somewhere'
    BY <1>2, <1>7, <2>1, <2>3, <2>6 DEF CarriesNewest, OneCarries, Somewhere
  <2>8. UsedOnce'
    BY <1>1, <1>2, <1>7 DEF UsedOnce
  <2> QED
    BY <2>3, <2>4, <2>7, <2>8 DEF LoginInv, Flow
<1>8. CASE task[t].sent # server
  <2>1. /\ server' = server /\ good' = good
        /\ Steps(t, [task[t] EXCEPT !.at = "wait", !.reply = 0])
    BY <1>8 DEF Replies
  <2>2. 0 \in 0..MaxLogin
    BY BoundsAreNatural
  <2>3. /\ Aside(t) /\ task'[t].at = "wait" /\ task'[t].reply = 0
        /\ \A u \in Tasks : u # t => task'[u] = task[u]
        /\ AsksWaiting' /\ LocksExclude' /\ AnswerComes'
    BY <1>5, <2>1, <2>2
  <2>4. TypeOK'
    BY <1>1, <1>2, <1>6, <2>1, <2>3 DEF TypeOK, locks, Aside
  <2>5. \A u \in Tasks : Carries(u)' <=> Carries(u)
    BY <1>2, <2>3 DEF Carries
  <2>6. CarriesNewest' /\ OneCarries' /\ Somewhere'
    BY <1>1, <1>2, <2>1, <2>3, <2>5 DEF Flow, CarriesNewest, OneCarries, Somewhere, Carries
  <2>7. lost \/ stolen
    <3> SUFFICES ASSUME ~lost, ~stolen PROVE FALSE
      OBVIOUS
    <3>1. \A u \in Tasks : Excluded(u)
      BY <1>1 DEF LocksExclude
    <3>2. task[t].sent = file /\ OwnsAll(t)
      BY <1>2, <3>1 DEF Excluded
    <3>3. PICK u \in Tasks : Carries(u)
      BY <1>1, <1>8, <3>2 DEF Flow, Somewhere
    <3>4. task[u].at = "wait"
      BY <1>1, <3>1, <3>3 DEF Flow, AnswerComes, Excluded, Carries, Working
    <3>5. OwnsAll(u)
      BY <3>1, <3>4 DEF Excluded
    <3>6. u = t
      BY <3>2, <3>5 DEF OwnsAll, Owns
    <3> QED
      BY <1>2, <3>4, <3>6
  <2> QED
    BY <1>2, <2>3, <2>4, <2>6, <2>7 DEF LoginInv, Flow, UsedOnce
<1> QED
  BY <1>7, <1>8

(* A request to the server that fails loses the login it was to bring.     *)
LEMMA BreakStep ==
    ASSUME LoginInv, NEW t \in Tasks, Breaks(t)
    PROVE  LoginInv'
<1>1. TypeOK /\ Flow
  BY DEF LoginInv
<1>2. /\ task[t].at \in {"post", "wait"} /\ Ends(t, 0) /\ login' = login /\ trouble' = trouble + 1
      /\ trouble < MaxTrouble /\ reused' = reused /\ stolen' = stolen /\ blocked' = blocked
      /\ sleeps' = sleeps /\ lost' = (lost \/ (task[t].at = "wait" /\ task[t].reply # 0))
  BY DEF Breaks
<1>3. ask' \in [Requests -> Asking] /\ \A p \in Requests : ask'[p].at = ask[p].at
  <2>1. CASE t \in Requests
    <3> DEFINE r == [ask[t] EXCEPT !.troubled = TRUE]
    <3>1. ask[t] \in Asking
      BY <1>1, <2>1 DEF TypeOK
    <3>2. r \in Asking /\ r.at = ask[t].at
      BY <3>1, Zenon DEF Asking
    <3>3. ask' = [ask EXCEPT ![t] = r]
      BY <2>1 DEF Breaks, Troubled
    <3> HIDE DEF r
    <3> QED
      BY <1>1, <2>1, <3>2, <3>3 DEF TypeOK
  <2>2. CASE t \notin Requests
    BY <1>1, <2>2 DEF Breaks, Troubled, TypeOK
  <2> QED
    BY <2>1, <2>2
<1>4. (lost => lost') /\ (Carries(t) => lost')
  BY <1>1, <1>2 DEF Flow, AnswerComes, Carries
<1>5. lost' \in BOOLEAN
  BY <1>1, <1>2 DEF TypeOK
<1>6. trouble' \in 0..MaxTrouble /\ 0 \in 0..MaxLogin
  BY <1>1, <1>2, BoundsAreNatural DEF TypeOK
<1> QED
  BY <1>2, <1>3, <1>4, <1>5, <1>6, EndsKeep DEF login, Working

(* Who carries the login and has the locks brings it into the file.        *)
LEMMA SaveStep ==
    ASSUME LoginInv, NEW t \in Tasks, Carries(t), OwnsAll(t), file' = task[t].reply,
           Ends(t, task[t].reply),
           server' = server, good' = good, due' = due, keychain' = keychain, ask' = ask,
           ghosts' = ghosts, sleeps' = sleeps, trouble' = trouble
    PROVE  LoginInv'
<1>1. TypeOK /\ Flow /\ AsksWaiting /\ LocksExclude /\ UsedOnce
  BY DEF LoginInv
<1>2. file' = server /\ task[t].reply \in 0..MaxLogin /\ server \in 1..MaxLogin /\ file <= server
  BY <1>1 DEF Flow, CarriesNewest, TypeOK
<1>3. /\ Aside(t) /\ task'[t].at = "over" /\ task'[t].again = task[t].again /\ Releases(t)
      /\ \A u \in Tasks : u # t => task'[u] = task[u]
  BY <1>1, <1>2, EndsStep DEF Aside
<1>4. \A u \in Tasks : ~Carries(u)'
  BY <1>1, <1>3 DEF Flow, OneCarries, Carries, Working, Locking
<1>5. TypeOK'
  BY <1>1, <1>2, <1>3, Released DEF TypeOK, Aside, ghosts
<1>6. AnswerComes'
  <2>1. \A u \in Tasks : task[u].at = "post" => task[u].sent <= file'
    BY <1>1, <1>2, BoundsAreNatural DEF Flow, AnswerComes, TypeOK, Task
  <2> QED
    BY <1>1, <1>3, <2>1 DEF Flow, AnswerComes, Locking
<1>7. Flow'
  BY <1>2, <1>4, <1>6 DEF Flow, CarriesNewest, OneCarries, Somewhere
<1>8. AsksWaiting'
  BY <1>1, <1>3, WaitingKept DEF Carries, Working, Locking
<1>9. LocksExclude'
  <2>1. ~stolen => \A u \in Tasks : u # t => task[u].at # "post"
    BY <1>1 DEF LocksExclude, Excluded, OwnsAll, Owns
  <2>2. ~stolen' => Excluded(t)'
    BY <1>1, <1>3 DEF LocksExclude, Excluded, ghosts
  <2> QED
    BY <1>3, <2>1, <2>2, Released, ExcludeKept, <1>1 DEF ghosts
<1> QED
  BY <1>1, <1>5, <1>7, <1>8, <1>9 DEF LoginInv, UsedOnce, ghosts

LEMMA ReceiveStep ==
    ASSUME LoginInv, NEW t \in Tasks, Receives(t)
    PROVE  LoginInv'
<1>1. TypeOK /\ Flow /\ AsksWaiting /\ LocksExclude /\ UsedOnce
  BY DEF LoginInv
<1>2. /\ task[t].at = "wait" /\ server' = server /\ good' = good /\ due' = due /\ keychain' = keychain
      /\ ask' = ask /\ ghosts' = ghosts /\ sleeps' = sleeps /\ trouble' = trouble
  BY DEF Receives
<1>3. 0 \in 0..MaxLogin
  BY BoundsAreNatural
<1>4. CASE task[t].reply = 0 /\ Ends(t, 0) /\ file' = file
  BY <1>1, <1>2, <1>3, <1>4, EndsKeep DEF TypeOK, ghosts, Carries, Working
<1>5. CASE task[t].reply # 0 /\ OwnsAll(t) /\ file' = task[t].reply /\ Ends(t, task[t].reply)
  BY <1>2, <1>5, SaveStep DEF Carries, Working
<1>6. CASE /\ task[t].reply # 0 /\ ~OwnsAll(t) /\ Releases(t) /\ file' = file
           /\ Steps(t, [task[t] EXCEPT !.at = "take1", !.again = TRUE, !.tries = 0])
  <2> DEFINE r == [task[t] EXCEPT !.at = "take1", !.again = TRUE, !.tries = 0]
  <2>1. task[t] \in Task /\ "take1" \in Places /\ 0 \in 0..MaxTries
    BY <1>1, BoundsAreNatural DEF TypeOK, Places
  <2>2. /\ r \in Task /\ r.at = "take1" /\ r.reply = task[t].reply /\ r.again = TRUE
        /\ r.sent = task[t].sent
    BY <2>1, Zenon DEF Task
  <2>3. Steps(t, r)
    BY <1>6
  <2> HIDE DEF r
  <2>4. /\ Aside(t) /\ task'[t].at = "take1" /\ task'[t].reply = task[t].reply /\ task'[t].again
        /\ task'[t].sent = task[t].sent /\ \A u \in Tasks : u # t => task'[u] = task[u]
    BY <1>1, <2>2, <2>3, StepsTo DEF Aside
  <2>5. TypeOK'
    BY <1>1, <1>2, <1>6, <2>4, Released DEF TypeOK, Aside, ghosts
  <2>6. Flow'
    <3>1. \A u \in Tasks : Carries(u)' <=> Carries(u)
      BY <1>2, <1>6, <2>4 DEF Carries, Working, Locking
    <3>2. \A u \in Tasks : task'[u].reply = task[u].reply /\ task'[u].sent = task[u].sent
      BY <2>4
    <3>3. AnswerComes'
      BY <1>1, <1>6, <2>4 DEF Flow, AnswerComes, Locking
    <3> QED
      BY <1>1, <1>2, <1>6, <3>1, <3>2, <3>3 DEF Flow, CarriesNewest, OneCarries, Somewhere, ghosts
  <2>7. AsksWaiting'
    BY <1>1, <1>2, <2>4, WaitingKept
  <2>8. stolen
    BY <1>1, <1>2, <1>6 DEF LocksExclude, Excluded
  <2> QED
    BY <1>2, <2>5, <2>6, <2>7, <2>8 DEF LoginInv, LocksExclude, UsedOnce, ghosts
<1> QED
  BY <1>4, <1>5, <1>6 DEF Receives, Saves

LEMMA RegainStep ==
    ASSUME LoginInv, NEW t \in Tasks, Regains(t)
    PROVE  LoginInv'
<1>1. TypeOK /\ Flow /\ AsksWaiting /\ LocksExclude /\ UsedOnce
  BY DEF LoginInv
<1>2. /\ task[t].at = "hold" /\ task[t].again /\ server' = server /\ good' = good /\ due' = due
      /\ keychain' = keychain /\ ask' = ask /\ reused' = reused /\ stolen' = stolen
      /\ blocked' = blocked /\ sleeps' = sleeps /\ trouble' = trouble
  BY DEF Regains
<1>3. Carries(t) /\ file = task[t].sent
  BY <1>1, <1>2 DEF Flow, AnswerComes, CarriesNewest, Carries, Working, Locking
<1>4. 0 \in 0..MaxLogin
  BY BoundsAreNatural
<1>5. CASE ~OwnsAll(t) /\ Ends(t, 0) /\ lost' = TRUE /\ file' = file
  BY <1>1, <1>2, <1>4, <1>5, EndsKeep DEF TypeOK, Working, Locking
<1>6. CASE OwnsAll(t) /\ file' = task[t].reply /\ Ends(t, task[t].reply) /\ lost' = lost
  BY <1>2, <1>3, <1>6, SaveStep DEF ghosts
<1> QED
  BY <1>3, <1>5, <1>6 DEF Regains
-----------------------------------------------------------------------------
(* The requests for the usage.                                             *)

(* A request leaves the refreshes of others alone, begins its own, or      *)
(* takes note of its end.                                                  *)
LEMMA AskKeeps ==
    ASSUME LoginInv, NEW p \in Requests, NEW a \in Asking, Asks(p, a),
           login' = login, locks' = locks, ghosts' = ghosts, sleeps' = sleeps,
           trouble' \in 0..MaxTrouble,
           \/ task' = task /\ task[p].at = "off"
           \/ Steps(p, Refresh) /\ task[p].at = "off" /\ a.at \in {"prepare", "refresh"}
           \/ Steps(p, Off) /\ task[p].at = "over"
    PROVE  LoginInv'
<1>1. TypeOK /\ Flow /\ AsksWaiting /\ LocksExclude /\ UsedOnce /\ p \in Tasks
  BY DEF LoginInv, Tasks
<1>2. /\ ask' \in [Requests -> Asking] /\ ask'[p] = a
      /\ \A q \in Requests : q # p => ask'[q] = ask[q]
  BY <1>1 DEF Asks, TypeOK
<1>3. /\ Aside(p)
      /\ \/ task'[p] = task[p] /\ task[p].at = "off"
         \/ task'[p] = Refresh /\ task[p].at = "off" /\ a.at \in {"prepare", "refresh"}
         \/ task'[p] = Off /\ task[p].at = "over"
  <2>1. Off \in Task
    BY BoundsAreNatural DEF Off, Task, Places
  <2> QED
    BY <1>1, <2>1, RefreshBegins, StepsTo DEF Aside, TypeOK
<1>4. /\ task[p].at \notin Working /\ Off.at = "off" /\ ~Off.again
      /\ Refresh.at = "take1" /\ Refresh.reply = 0 /\ ~Refresh.again
  BY <1>1, <1>3, RefreshBegins DEF Off, Working, Locking
<1>5. TypeOK'
  BY <1>1, <1>2, <1>3 DEF TypeOK, login, locks, ghosts, Aside
<1>6. Flow'
  <2>1. ~Carries(p)
    BY <1>4 DEF Carries
  <2>2. /\ \/ task'[p].at \notin Working
           \/ task'[p].at = "take1" /\ task'[p].reply = 0 /\ ~task'[p].again
        /\ lost' = lost /\ file' = file /\ server' = server
    BY <1>3, <1>4 DEF Working, Locking, login, ghosts
  <2> QED
    BY <1>1, <1>3, <1>4, <2>1, <2>2, FlowKept
<1>7. AsksWaiting'
  <2> SUFFICES ASSUME NEW q \in Requests, ask'[q].at \in {"idle", "try", "retry", "done"}
               PROVE  task'[q].at = "off"
    BY DEF AsksWaiting
  <2>1. CASE q = p
    BY <1>2, <1>3, <1>4, <2>1
  <2>2. CASE q # p
    BY <1>1, <1>2, <1>3, <2>2 DEF AsksWaiting, Aside, Tasks
  <2> QED
    BY <2>1, <2>2
<1>8. LocksExclude'
  <2>1. \A u \in Tasks, l \in 1..2 : Owns(u, l)' <=> Owns(u, l)
    BY DEF locks, Owns
  <2>2. ASSUME ~stolen' PROVE Excluded(p)'
    <3>1. ~task[p].again
      BY <1>1, <2>2 DEF LocksExclude, Excluded, ghosts
    <3>2. task'[p].at \in {"off", "take1"} /\ ~task'[p].again
      BY <1>3, <1>4, <3>1
    <3> QED
      BY <3>2 DEF Excluded
  <2> QED
    BY <1>1, <1>3, <2>1, <2>2, ExcludeKept DEF login, ghosts
<1> QED
  BY <1>1, <1>5, <1>6, <1>7, <1>8 DEF LoginInv, UsedOnce, ghosts

LEMMA CandidatesType == Candidates \in Seq({"keychain", "file"})
<1>1. <<>> \in Seq({"keychain", "file"}) /\ <<"keychain">> \in Seq({"keychain", "file"})
      /\ <<"file">> \in Seq({"keychain", "file"})
  OBVIOUS
<1>2. \A s, u \in Seq({"keychain", "file"}) : s \o u \in Seq({"keychain", "file"})
  OBVIOUS
<1> QED
  BY <1>1, <1>2, Zenon DEF Candidates

LEMMA BeginStep == ASSUME LoginInv, NEW p \in Requests, Begins(p) PROVE LoginInv'
<1>1. TypeOK /\ AsksWaiting
  BY DEF LoginInv
<1>2. file \in 0..MaxLogin /\ Unasked \in Asking /\ task[p].at = "off"
  BY <1>1, BoundsAreNatural DEF TypeOK, Unasked, Asking, AsksWaiting, Begins
<1> DEFINE a == [Unasked EXCEPT !.at = "prepare", !.left = Candidates, !.token = file]
           b == [Unasked EXCEPT !.at = "try", !.left = Candidates, !.token = file]
<1>3. a \in Asking /\ b \in Asking /\ a.at = "prepare"
  BY <1>2, CandidatesType, Zenon DEF Asking
<1>4. \/ Asks(p, a) /\ Steps(p, Refresh)
      \/ Asks(p, b) /\ task' = task
  BY DEF Begins
<1>5. login' = login /\ locks' = locks /\ ghosts' = ghosts /\ sleeps' = sleeps /\ trouble' = trouble
  BY DEF Begins
<1> HIDE DEF a, b
<1> QED
  BY <1>1, <1>2, <1>3, <1>4, <1>5, AskKeeps DEF TypeOK

LEMMA PreparedStep == ASSUME LoginInv, NEW p \in Requests, Prepared(p) PROVE LoginInv'
<1>1. TypeOK /\ p \in Tasks
  BY DEF LoginInv, Tasks
<1> DEFINE n == task[p].reply
           a == [ask[p] EXCEPT !.at = "try"]
           b == [ask[p] EXCEPT !.at = "try", !.token = n, !.attempted = TRUE]
<1>2. ask[p] \in Asking /\ n \in 0..MaxLogin
  BY <1>1 DEF TypeOK, Task
<1>3. (Asks(p, a) \/ Asks(p, b)) /\ Steps(p, Off) /\ task[p].at = "over"
  BY DEF Prepared
<1> HIDE DEF n
<1>4. a \in Asking /\ b \in Asking
  BY <1>2, Zenon DEF Asking
<1>5. login' = login /\ locks' = locks /\ ghosts' = ghosts /\ sleeps' = sleeps /\ trouble' = trouble
  BY DEF Prepared
<1> HIDE DEF a, b
<1> QED
  BY <1>1, <1>3, <1>4, <1>5, AskKeeps DEF TypeOK

LEMMA NextType == ASSUME NEW p, NEW r \in Asking PROVE Next1(p, r) \in Asking
<1>1. CASE Len(r.left) > 1
  <2>1. Tail(r.left) \in Seq({"keychain", "file"})
    BY <1>1 DEF Asking
  <2>2. Next1(p, r) = [r EXCEPT !.left = Tail(r.left), !.at = "try"]
    BY <1>1 DEF Next1
  <2>3. [r EXCEPT !.left = Tail(r.left), !.at = "try"] \in Asking
    BY <2>1, Zenon DEF Asking
  <2> QED
    BY <2>2, <2>3
<1>2. CASE ~(Len(r.left) > 1)
  <2> DEFINE v == IF r.failed THEN "unavailable" ELSE "login"
  <2>1. Next1(p, r) = [r EXCEPT !.at = "done", !.answer = v]
    BY <1>2 DEF Next1
  <2>2. v \in {"none", "usage", "login", "unavailable"}
    OBVIOUS
  <2> HIDE DEF v
  <2>3. [r EXCEPT !.at = "done", !.answer = v] \in Asking
    BY <2>2, Zenon DEF Asking
  <2> QED
    BY <2>1, <2>3
<1> QED
  BY <1>1, <1>2

LEMMA TryStep == ASSUME LoginInv, NEW p \in Requests, Tries(p) PROVE LoginInv'
<1>1. TypeOK /\ AsksWaiting
  BY DEF LoginInv
<1>2. ask[p] \in Asking /\ task[p].at = "off"
  BY <1>1 DEF TypeOK, AsksWaiting, Tries
<1> DEFINE a == [ask[p] EXCEPT !.at = "done", !.answer = "usage"]
           f == [ask[p] EXCEPT !.failed = TRUE, !.troubled = TRUE]
           b == [ask[p] EXCEPT !.at = "refresh", !.attempted = TRUE]
<1>3. a \in Asking /\ f \in Asking /\ b \in Asking /\ b.at = "refresh"
  BY <1>2, Zenon DEF Asking
<1>4. Next1(p, f) \in Asking /\ Next1(p, ask[p]) \in Asking
  BY <1>2, <1>3, NextType
<1>5. /\ \/ Asks(p, a) /\ task' = task /\ trouble' = trouble
         \/ Asks(p, Next1(p, f)) /\ task' = task /\ trouble' = trouble + 1 /\ trouble < MaxTrouble
         \/ Asks(p, Next1(p, ask[p])) /\ task' = task /\ trouble' = trouble
         \/ Asks(p, b) /\ Steps(p, Refresh) /\ trouble' = trouble
      /\ login' = login /\ locks' = locks /\ ghosts' = ghosts /\ sleeps' = sleeps
  BY DEF Tries
<1>6. trouble' \in 0..MaxTrouble
  BY <1>1, <1>5, BoundsAreNatural DEF TypeOK
<1> HIDE DEF a, f, b
<1> QED
  BY <1>2, <1>3, <1>4, <1>5, <1>6, AskKeeps

LEMMA RetryStep == ASSUME LoginInv, NEW p \in Requests, Retries(p) PROVE LoginInv'
<1>1. TypeOK /\ p \in Tasks
  BY DEF LoginInv, Tasks
<1> DEFINE n == task[p].reply
           b == [ask[p] EXCEPT !.at = "retry", !.token = n]
<1>2. ask[p] \in Asking /\ n \in 0..MaxLogin
  BY <1>1 DEF TypeOK, Task
<1>3. (Asks(p, Next1(p, ask[p])) \/ Asks(p, b)) /\ Steps(p, Off) /\ task[p].at = "over"
  BY DEF Retries, Refreshed
<1> HIDE DEF n
<1>4. Next1(p, ask[p]) \in Asking /\ b \in Asking
  <2>1. b \in Asking
    BY <1>2, Zenon DEF Asking
  <2> QED
    BY <1>2, <2>1, NextType
<1>5. login' = login /\ locks' = locks /\ ghosts' = ghosts /\ sleeps' = sleeps /\ trouble' = trouble
  BY DEF Retries
<1> HIDE DEF b
<1> QED
  BY <1>1, <1>3, <1>4, <1>5, AskKeeps DEF TypeOK
-----------------------------------------------------------------------------
(* Time, and a refresh in the background.                                  *)

LEMMA StartStep == ASSUME LoginInv, NEW t \in Tasks, Starts(t) PROVE LoginInv'
<1>1. TypeOK /\ Flow /\ AsksWaiting /\ LocksExclude /\ UsedOnce
  BY DEF LoginInv
<1>2. /\ Aside(t) /\ task'[t] = Refresh /\ task[t].at = "off" /\ t \in Others
      /\ login' = login /\ locks' = locks /\ ask' = ask /\ ghosts' = ghosts /\ sleeps' = sleeps
      /\ trouble' = trouble
  BY <1>1, RefreshBegins, StepsTo DEF Starts
<1>3. Refresh.at = "take1" /\ Refresh.reply = 0 /\ ~Refresh.again
  BY <1>1, RefreshBegins
<1>4. TypeOK'
  BY <1>1, <1>2 DEF TypeOK, login, locks, ghosts, Aside
<1>5. Flow'
  BY <1>1, <1>2, <1>3, FlowKept DEF Working, Locking, login, ghosts
<1>6. AsksWaiting'
  BY <1>1, <1>2, WaitingKept
<1>7. LocksExclude'
  <2>1. \A u \in Tasks, l \in 1..2 : Owns(u, l)' <=> Owns(u, l)
    BY <1>2 DEF locks, Owns
  <2>2. Excluded(t)'
    BY <1>2, <1>3 DEF Excluded
  <2> QED
    BY <1>1, <1>2, <2>1, <2>2, ExcludeKept DEF login, ghosts
<1> QED
  BY <1>1, <1>2, <1>4, <1>5, <1>6, <1>7 DEF LoginInv, UsedOnce, ghosts

LEMMA TimeStep ==
    ASSUME LoginInv, \/ ComesDue \/ Expires \/ Sleeps \/ UNCHANGED vars
                     \/ \E t \in Tasks : Beats(t)
    PROVE  LoginInv'
<1>1. TypeOK /\ Flow /\ AsksWaiting /\ LocksExclude /\ UsedOnce
  BY DEF LoginInv
<1>2. /\ file' = file /\ server' = server /\ task' = task /\ ask' = ask /\ lock' = lock
      /\ ghosts' = ghosts
  BY DEF ComesDue, Expires, Sleeps, Beats, vars, login, locks, ghosts
<1>3. TypeOK'
  <2>1. CASE ComesDue
    BY <1>1, <2>1 DEF ComesDue, TypeOK, locks, ghosts
  <2>2. CASE Expires
    BY <1>1, <2>2 DEF Expires, TypeOK, locks, ghosts
  <2>3. CASE Sleeps
    BY <1>1, <2>3, BoundsAreNatural DEF Sleeps, TypeOK, login, ghosts
  <2>4. CASE \E t \in Tasks : Beats(t)
    BY <1>1, <2>4 DEF Beats, TypeOK, login, ghosts
  <2>5. CASE UNCHANGED vars
    BY <1>1, <2>5 DEF vars, TypeOK, login, locks, ghosts
  <2> QED
    BY <2>1, <2>2, <2>3, <2>4, <2>5
<1>4. (\A t \in Tasks : Carries(t)' <=> Carries(t)) /\ (\A t \in Tasks : Excluded(t)' <=> Excluded(t))
  BY <1>2 DEF Carries, Excluded, OwnsAll, Owns
<1>5. Flow' /\ AsksWaiting'
  BY <1>1, <1>2, <1>4 DEF Flow, CarriesNewest, OneCarries, AnswerComes, Somewhere, AsksWaiting, ghosts
<1> QED
  BY <1>1, <1>2, <1>3, <1>4, <1>5 DEF LoginInv, LocksExclude, UsedOnce, ghosts
-----------------------------------------------------------------------------
(* A login that the server has given out is in the file or in one pair of  *)
(* hands, and nobody refreshes before it is in the file.                   *)
THEOREM LoginInvariant == Spec => []LoginInv
<1>1. LoginInv /\ [Next]_vars => LoginInv'
  <2> SUFFICES ASSUME LoginInv, [Next]_vars PROVE LoginInv'
    OBVIOUS
  <2>1. ASSUME NEW t \in Tasks, Refreshes(t) PROVE LoginInv'
    BY <2>1, TimeStep, StartStep, SendStep, ReplyStep, BreakStep, ReceiveStep, RegainStep, LockActions
       DEF Refreshes
  <2>2. ASSUME NEW p \in Requests, Begins(p) \/ Prepared(p) \/ Tries(p) \/ Retries(p) PROVE LoginInv'
    BY <2>2, BeginStep, PreparedStep, TryStep, RetryStep
  <2> QED
    BY <2>1, <2>2, TimeStep DEF Next
<1> QED
  BY LoginInit, <1>1, PTL DEF Spec

(* Every variable keeps its type; the file is never newer than the server. *)
THEOREM LoginTypes == Spec => []TypeOK
<1>1. LoginInv => TypeOK
  BY DEF LoginInv
<1> QED
  BY LoginInvariant, <1>1, PTL

(* Whatever locks are stolen from whom, a login is lost only on the way    *)
(* from the server or by a task that cannot get the locks again            *)
(* (refreshClaudeCredentialFile).                                          *)
THEOREM NoLoginLost == Spec => []LoginKept
<1>1. LoginInv => LoginKept
  BY DEF LoginInv, Flow, Somewhere, CarriesNewest, Carries, Working, Locking, LoginKept
<1> QED
  BY LoginInvariant, <1>1, PTL

(* The locks keep a refresh token from being used twice, as long as none   *)
(* is stolen and no answer gets lost (acquireOAuthRefreshLocks).           *)
THEOREM TokensUsedOnce == Spec => []UsedOnce
<1>1. LoginInv => UsedOnce
  BY DEF LoginInv
<1> QED
  BY LoginInvariant, <1>1, PTL
=============================================================================
