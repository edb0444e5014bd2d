---------------------------- MODULE CommandStop ----------------------------
(***************************************************************************)
(* Stopping a background command from the phone                            *)
(* (src/src/chat/backgroundCommandStop.ts, backgroundStopRecords.ts, the   *)
(* commands of subagentTailer.ts, chatTailController.ts).                  *)
(*                                                                         *)
(* A command is a shell that leads a group of processes.  Claude writes    *)
(* how it ended into the transcript, or never does.  The hub looks who     *)
(* writes the output file, notes that the user stops the command, sends    *)
(* SIGTERM, and SIGKILL to what is left.  The reader shows what was told,  *)
(* but a command that the user stopped as completed, and takes the note    *)
(* back when the stop fails.  Times are moments; no process number is used *)
(* again.                                                                  *)
(***************************************************************************)
EXTENDS Integers, FiniteSets

CONSTANTS
    Stops,      \* requests of the user
    Children,   \* processes the shell may start
    Overlap,    \* may a stop be asked for while another is under way?
    TermGrace,  \* 3 seconds
    KillGrace,  \* 2 seconds
    OrphanGrace,\* 60 seconds
    MaxTime,    \* moments
    MaxCrashes  \* of the hub

ASSUME GracesArePositive == {TermGrace, KillGrace, OrphanGrace} \subseteq Nat \ {0}
ASSUME OverlapIsBoolean == Overlap \in BOOLEAN

VARIABLES
    now,
    alive, writing, \* processes that live, that hold the output file
    ended,   \* how the shell ended: "" while it runs
    told,    \* the line in the transcript: its time, and does it tell a failure?
    early,   \* was a failure told before any stop?
    stop,    \* the stops of the user
    record, disk,   \* when the user stopped the command (0: not), in memory and on disk
    open,    \* is the conversation being read?
    read, orphan, shown, \* what the reader has read, concluded and passed on
    looked,  \* has it looked since anything changed?
    crashes

processes == <<alive, writing, ended>>
records == <<record, disk>>
reader == <<read, orphan, shown>>
vars == <<now, processes, told, early, stop, records, open, reader, looked, crashes>>

Shell == "shell"
Untold == [at |-> 0, failed |-> FALSE]
Idle == [at |-> "idle", since |-> 0, targets |-> {}, marked |-> FALSE,
         whole |-> FALSE, answer |-> "none"]
Init ==
    /\ now = 1 /\ alive = {Shell} /\ writing = {Shell} /\ ended = ""
    /\ told = Untold /\ early = FALSE /\ stop = [r \in Stops |-> Idle]
    /\ record = 0 /\ disk = 0 /\ open = FALSE
    /\ read = Untold /\ orphan = 0 /\ shown = "none" /\ looked = FALSE /\ crashes = 0

----------------------------------------------------------------------------
(* The command and Claude.                                                  *)
Changed == looked' = FALSE
Passes ==
    /\ now < MaxTime /\ now' = now + 1 /\ Changed
    /\ UNCHANGED <<processes, told, early, stop, records, open, reader, crashes>>
(* A child inherits the output file, or is started without it.              *)
Forks(p) ==
    /\ p \in Children \ alive /\ alive # {} /\ alive' = alive \cup {p}
    /\ writing' \in {writing} \cup {writing \cup {p} : q \in writing} /\ Changed
    /\ UNCHANGED <<now, ended, told, early, stop, records, open, reader, crashes>>
(* By itself, or by a signal; a process may ignore SIGTERM, and one that    *)
(* waits for a device SIGKILL for a while.                                  *)
Dies(p) ==
    /\ p \in alive /\ alive' = alive \ {p} /\ writing' = writing \ {p}
    /\ ended' \in IF p = Shell THEN {"well", "badly"} ELSE {ended}
    /\ Changed
    /\ UNCHANGED <<now, told, early, stop, records, open, reader, crashes>>
Busy == \E r \in Stops : stop[r].at # "idle" /\ stop[r].answer = "none"
Touched == \E r \in Stops : stop[r].at # "idle"
Tells ==
    /\ ended # "" /\ told = Untold
    /\ told' = [at |-> now, failed |-> ended = "badly"]
    /\ early' = (ended = "badly" /\ ~Touched)
    /\ Changed
    /\ UNCHANGED <<now, processes, stop, records, open, reader, crashes>>

----------------------------------------------------------------------------
(* The records: the first time is kept.                                     *)
(* Mutant: the time at which the grace is over. *)
NotesLate(t) ==
    IF record # 0 THEN UNCHANGED records ELSE record' = t + TermGrace /\ disk' = record'
Notes(t) == IF record # 0 THEN UNCHANGED records ELSE record' = t /\ disk' = t
Forgets == record' = 0 /\ disk' = 0

(* The group of a writer that leads it, or the writers one by one.          *)
Group == {Shell} \cup Children
(* Mutant: the writers only. *)
OnlyWriters(writers) == writers
Targets(writers) == IF Shell \in writers THEN Group ELSE writers

(* The request reaches the hub while the conversation is read; a moment     *)
(* after what was told before.                                              *)
Asks(r) ==
    /\ stop[r].at = "idle" /\ open /\ (Busy => Overlap) /\ told.at < now
    /\ stop' = [stop EXCEPT ![r].at = "look"] /\ Changed
    /\ UNCHANGED <<now, processes, told, early, records, open, reader, crashes>>
(* Who holds the file is asked of other programs, which may fail.           *)
Looks(r) ==
    /\ stop[r].at = "look" /\ stop[r].answer = "none"
    /\ \/ stop' = [stop EXCEPT ![r].answer = "failed"]
       \/ stop' = [stop EXCEPT ![r].at = "signal", ![r].targets = Targets(writing)]
    /\ Changed
    /\ UNCHANGED <<now, processes, told, early, records, open, reader, crashes>>
NotRunning(r) ==
    /\ stop[r].at = "signal" /\ stop[r].answer = "none" /\ stop[r].targets = {}
    /\ Notes(now) /\ stop' = [stop EXCEPT ![r].answer = "not_running"] /\ Changed
    /\ UNCHANGED <<now, processes, told, early, open, reader, crashes>>
Terminates(r) ==
    /\ stop[r].at = "signal" /\ stop[r].targets # {}
    /\ Notes(now)
    /\ stop' = [stop EXCEPT ![r].at = "term", ![r].since = now, ![r].marked = (record = 0),
                     ![r].whole = Shell \in stop[r].targets \cap alive]
    /\ Changed
    /\ UNCHANGED <<now, processes, told, early, open, reader, crashes>>
Left(r) == stop[r].targets \cap alive
Remaining(r) == IF stop[r].targets = Group THEN Group ELSE Left(r)
Waits(r) == stop[r].at \in {"term", "kill"} /\ stop[r].answer = "none"
Stopped(r) ==
    /\ Waits(r) /\ Left(r) = {}
    /\ stop' = [stop EXCEPT ![r].answer = "stopped"] /\ Changed
    /\ UNCHANGED <<now, processes, told, early, records, open, reader, crashes>>
Kills(r) ==
    /\ Waits(r) /\ stop[r].at = "term" /\ Left(r) # {} /\ now >= stop[r].since + TermGrace
    /\ stop' = [stop EXCEPT ![r].at = "kill", ![r].since = now, ![r].targets = Remaining(r)] /\ Changed
    /\ UNCHANGED <<now, processes, told, early, records, open, reader, crashes>>
(* Mutant: the note stays. *)
KeepsNote(r) ==
    /\ Waits(r) /\ stop[r].at = "kill" /\ Left(r) # {} /\ now >= stop[r].since + KillGrace
    /\ stop' = [stop EXCEPT ![r].answer = "failed"] /\ Changed
    /\ UNCHANGED <<now, processes, told, early, records, open, reader, crashes>>
Fails(r) ==
    /\ Waits(r) /\ stop[r].at = "kill" /\ Left(r) # {} /\ now >= stop[r].since + KillGrace
    /\ stop' = [stop EXCEPT ![r].answer = "failed"] /\ Changed
    /\ IF stop[r].marked THEN Forgets ELSE UNCHANGED records
    /\ UNCHANGED <<now, processes, told, early, open, reader, crashes>>

----------------------------------------------------------------------------
(* The reader of the conversation.                                          *)
Opens ==
    /\ ~open /\ open' = TRUE /\ read' = Untold /\ orphan' = 0 /\ shown' = "none" /\ Changed
    /\ UNCHANGED <<now, processes, told, early, stop, records, crashes>>
Closes ==
    /\ open /\ open' = FALSE /\ Changed
    /\ UNCHANGED <<now, processes, told, early, stop, records, reader, crashes>>
ByUser(note) == record # 0 /\ (note = Untold \/ note.at >= record)
(* Mutant: whatever was told before. *)
AnyOfUser(note, lost) ==
    IF record # 0 THEN "completed"
    ELSE IF note # Untold THEN (IF note.failed THEN "error" ELSE "completed")
    ELSE IF lost # 0 THEN "completed" ELSE "running"
Status(note, lost) ==
    IF ByUser(note) THEN "completed"
    ELSE IF note # Untold THEN (IF note.failed THEN "error" ELSE "completed")
    ELSE IF lost # 0 THEN "completed" ELSE "running"
(* After a while, one whose output nobody holds is taken for ended.  The    *)
(* question may not be answered.                                            *)
(* Mutant: never asked. *)
NeverAsked(note) == {orphan}
Concluded(note) ==
    IF note # Untold \/ orphan # 0 \/ now < 1 + OrphanGrace \/ writing # {} THEN {orphan} ELSE {now}
Reads ==
    /\ open /\ read' = told
    /\ orphan' \in Concluded(told) \cup {orphan}
    /\ shown' = Status(told, orphan') /\ looked' = TRUE
    /\ UNCHANGED <<now, processes, told, early, stop, records, open, crashes>>
(* The hub ends, with the stops under way, and starts again.                *)
(* Mutant: what was in memory is lost. *)
InMemory == 0
Loaded == disk
Crashes ==
    /\ crashes < MaxCrashes /\ crashes' = crashes + 1
    /\ record' = Loaded /\ open' = FALSE /\ Changed
    /\ stop' = [r \in Stops |-> IF stop[r].at # "idle" /\ stop[r].answer = "none"
                                THEN [stop[r] EXCEPT !.answer = "cut"] ELSE stop[r]]
    /\ UNCHANGED <<now, processes, told, early, disk, reader>>

Handles(r) == Looks(r) \/ NotRunning(r) \/ Terminates(r) \/ Stopped(r) \/ Kills(r) \/ Fails(r)
Next ==
    \/ Passes \/ Tells \/ Opens \/ Closes \/ Reads \/ Crashes
    \/ \E p \in Children \cup {Shell} : Forks(p) \/ Dies(p)
    \/ \E r \in Stops : Asks(r) \/ Handles(r)
Progress(r) == WF_vars(Handles(r))
Answered == Reads /\ orphan' \in Concluded(told)
Spec == Init /\ [][Next]_vars
(* Time passes, the hub handles its requests and the reader looks; the      *)
(* question who holds a file is answered if it is asked again and again.    *)
FairSpec ==
    /\ Spec /\ WF_vars(Passes) /\ WF_vars(Opens) /\ SF_vars(Answered)
    /\ \A r \in Stops : Progress(r)

----------------------------------------------------------------------------
Notice == [at : 0..MaxTime, failed : BOOLEAN]
(* backgroundStopRecords.ts: memory and file agree, and a time is noted     *)
(* only once it has come.                                                   *)
TypeOK ==
    /\ alive \subseteq Group /\ writing \subseteq alive /\ ended \in {"", "well", "badly"}
    /\ (ended = "") = (Shell \in alive)
    /\ {told, read} \subseteq Notice /\ {orphan, record} \subseteq 0..now /\ disk = record
    /\ stop \in [Stops -> [at : {"idle", "look", "signal", "term", "kill"}, since : 0..now,
                          targets : SUBSET Group, marked : BOOLEAN, whole : BOOLEAN,
                          answer : {"none", "failed", "not_running", "stopped", "cut"}]]
    /\ shown \in {"none", "running", "completed", "error"}

(* A command the user is told to have stopped leaves no process of its      *)
(* group, though one that does not write the output ignored SIGTERM         *)
(* (stopBackgroundCommandProcess asks for the group, not for its writers).  *)
StoppedIsOver == \A r \in Stops : stop[r].whole /\ stop[r].answer = "stopped" => alive = {}
(* However late Claude tells that it was ended by a signal, a command the   *)
(* user stopped is not shown as failed, after the conversation was opened   *)
(* again and the hub was restarted too (subagentTailer.ts:200-203).         *)
StoppedNotFailed ==
    looked /\ (\E r \in Stops : stop[r].whole /\ stop[r].answer = "stopped") => shown # "error"
(* A failure told before the user stopped what was left stays a failure     *)
(* (chatTailController.ts:140-141).                                         *)
FailureKept == looked /\ early => shown = "error"
(* A command is shown as failed if it had failed before the user stopped it *)
(* (markUserStopped, after NotRunning), and never because it was stopped.   *)
FailuresTold == StoppedNotFailed /\ FailureKept
(* What still runs is shown as running, unless a stop is under way or the   *)
(* hub went down in the middle of one.                                      *)
RunningShown ==
    looked /\ ended = "" /\ ~Busy /\ (\A r \in Stops : stop[r].answer # "cut") => shown = "running"
(* A command that ended and whose output nobody holds is shown as ended,    *)
(* though nobody ever tells (the orphans of subagentTailer.ts:691-715).     *)
EndShown == (ended # "" /\ writing = {}) ~> (shown \in {"completed", "error"})
=============================================================================
