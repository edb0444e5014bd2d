----------------------------- MODULE AgentTree -----------------------------
(***************************************************************************)
(* The tree of background agents of a conversation, as the reader of its   *)
(* files shows it (src/src/chat/subagentTailer.ts).                        *)
(*                                                                         *)
(* Each agent writes a transcript; that it has ended is told in the        *)
(* transcript of its owner: queued when it ends, delivered when the owner  *)
(* comes to it, and not at all when the owner has ended before.  A run of  *)
(* an agent is told once: an agent that goes on with its own background    *)
(* work ends the second time in silence.  The reader takes the files one   *)
(* after the other while they grow, and where nothing tells it, it         *)
(* concludes from silence.                                                 *)
(*                                                                         *)
(* Times are numbers of moments.  An agent that says something may be      *)
(* about to call a tool ("text"): it is silent for less than Tentative.    *)
(***************************************************************************)
EXTENDS Integers, Sequences, FiniteSets, SequencesExt

CONSTANTS
    Agents,     \* numbers of the agents
    Deep,       \* those owned by agent 1; the others by the conversation (0)
    Grace,      \* silence after a last word (2 minutes)
    Tentative,  \* after a word that may not be the last (10 minutes)
    Stale,      \* silence of the whole session (6 hours)
    MaxTime,    \* moments
    MaxLines,   \* notifications written
    LastWords,  \* shapes of the line an agent ends with
    Failing,    \* agents that end with an error of the API instead
    Partial     \* may a round of the reader fall between two writes?

ASSUME AgentsAreNumbers == Agents \subseteq Nat \ {0} /\ Deep \subseteq Agents \ {1}
ASSUME TimesGrow == 0 < Grace /\ Grace < Tentative /\ Tentative < Stale /\ Partial \in BOOLEAN
ASSUME WordsAreLast == LastWords \subseteq {"text", "final", "api"}

VARIABLES
    now,
    does,   \* what an agent does: absent, works, rests, is cut off
    tells,  \* will the end of its run be told?
    file,   \* last time and shape of its transcript
    notes,  \* the lines that tell of ends
    halted, \* stopped by the user (meta)
    alive,  \* does the session run?
    seen,   \* what the reader has read
    probe,  \* what it knows of the session: FALSE only when it seems dead
    orphan, sweep, \* ends it has concluded
    shown,  \* what it has passed on
    step    \* of the reader: closed; something was written, taken; settled

world == <<now, does, tells, file, notes, halted, alive>>
marks == <<orphan, sweep, shown>>
vars == <<world, seen, probe, marks, step>>

Unmarked == [at |-> -1, end |-> "none"]
Init ==
    /\ now = 1 /\ notes = <<>> /\ alive = TRUE /\ probe = TRUE /\ step = "closed"
    /\ does = [n \in Agents |-> "absent"] /\ tells = [n \in Agents |-> FALSE]
    /\ file = [n \in Agents |-> [last |-> 0, shape |-> "none"]]
    /\ halted = {}
    /\ seen = [file |-> file, notes |-> <<>>, halted |-> {}]
    /\ orphan = [n \in Agents |-> Unmarked] /\ sweep = orphan
    /\ shown = [n \in Agents |-> "none"]

Owner(n) == IF n \in Deep THEN 1 ELSE 0
Acts(n) == alive /\ does[n] = "works"
OwnerActs(n) == alive /\ (n \in Deep => does[1] = "works")

----------------------------------------------------------------------------
(* Claude and its agents.                                                   *)
Writes(n, shape) == file' = [file EXCEPT ![n] = [last |-> now, shape |-> shape]]
World ==
    /\ step # "taken" /\ step' = IF step = "closed" THEN step ELSE "written"
    /\ UNCHANGED <<seen, probe, marks>>
(* A moment is long for the reader, which looks twenty times in a second.   *)
UpToDate == step = "settled" /\ seen.file = file /\ seen.halted = halted /\ Range(seen.notes) = Range(notes)
Passes ==
    /\ now < MaxTime /\ (step = "closed" \/ UpToDate)
    /\ \A n \in Agents : does[n] = "works" /\ file[n].shape = "text" => now + 1 - file[n].last < Tentative
    /\ now' = now + 1
    /\ UNCHANGED <<does, tells, file, notes, halted, alive>> /\ World
Starts(n) ==
    /\ does[n] = "absent" /\ OwnerActs(n)
    /\ does' = [does EXCEPT ![n] = "works"] /\ tells' = [tells EXCEPT ![n] = TRUE]
    /\ Writes(n, "tool")
    /\ UNCHANGED <<now, notes, halted, alive>> /\ World
Works(n) ==
    /\ Acts(n) /\ \E s \in {"tool", "text"} : Writes(n, s)
    /\ UNCHANGED <<now, does, tells, notes, halted, alive>> /\ World
Line(n, end, queued) == [task |-> n, at |-> now, end |-> end, queued |-> queued]
Own(n) == \E m \in Agents : Owner(m) = n /\ does[m] = "works"
(* Queued lines are delivered in order.                                     *)
Of(ns, n, queued) == SelectSeq(ns, LAMBDA l : l.task = n /\ l.queued = queued /\ l.end # "stopped")
Undelivered(n) == Len(Of(notes, n, TRUE)) - Len(Of(notes, n, FALSE))
(* An end is queued in the transcript of the owner, if that can be, and     *)
(* after the one before was delivered.                                      *)
Ends(n) ==
    /\ Acts(n)
    /\ \E s \in IF n \in Failing THEN {"api"} ELSE LastWords :
        LET end == IF s = "api" THEN "failed" ELSE IF Own(n) THEN "waiting" ELSE "completed" IN
        /\ Writes(n, s)
        /\ tells' = [tells EXCEPT ![n] = @ /\ end = "waiting"]
        /\ IF tells[n] /\ OwnerActs(n)
           THEN Undelivered(n) = 0 /\ Len(notes) < MaxLines /\ notes' = Append(notes, Line(n, end, TRUE))
           ELSE UNCHANGED notes
    /\ does' = [does EXCEPT ![n] = "rests"]
    /\ UNCHANGED <<now, halted, alive>> /\ World
Delivers(n) ==
    /\ Undelivered(n) > 0 /\ Len(notes) < MaxLines
    /\ OwnerActs(n)
    /\ notes' = Append(notes, Line(n, Of(notes, n, TRUE)[Len(Of(notes, n, FALSE)) + 1].end, FALSE))
    /\ UNCHANGED <<now, does, tells, file, halted, alive>> /\ World
(* A message of the owner, or the end of its own background work.  Lines of *)
(* one moment are not told apart.                                           *)
Resumes(n) ==
    /\ does[n] = "rests" /\ alive /\ n \notin halted
    /\ \A l \in Range(notes) : l.task = n => l.at < now
    /\ file[n].last < now
    /\ does' = [does EXCEPT ![n] = "works"]
    /\ \E again \in {TRUE, tells[n]} : tells' = [tells EXCEPT ![n] = again]
    /\ Writes(n, "tool")
    /\ UNCHANGED <<now, notes, halted, alive>> /\ World
(* Stopped by a tool of the owner, which is acknowledged in its transcript, *)
(* or by the user, which the meta file tells.                               *)
StoppedByTool(n) ==
    /\ Acts(n) /\ OwnerActs(n) /\ Len(notes) < MaxLines
    /\ does' = [does EXCEPT ![n] = "rests"] /\ tells' = [tells EXCEPT ![n] = FALSE]
    /\ notes' = Append(notes, Line(n, "stopped", FALSE))
    /\ UNCHANGED <<now, file, halted, alive>> /\ World
StoppedByUser(n) ==
    /\ Acts(n) /\ n \notin halted
    /\ does' = [does EXCEPT ![n] = "cut"] /\ halted' = halted \cup {n}
    /\ UNCHANGED <<now, tells, file, notes, alive>> /\ World
SessionDies ==
    /\ alive /\ alive' = FALSE
    /\ does' = [n \in Agents |-> IF does[n] = "works" THEN "cut" ELSE does[n]]
    /\ UNCHANGED <<now, tells, file, notes, halted>> /\ World

----------------------------------------------------------------------------
(* The reader.  A round takes the files one after the other, so that what   *)
(* is written meanwhile is seen in some and not in others; the lines about  *)
(* an agent are in the transcript of its owner.  Then it settles.           *)
(* Mutant: the owners' files are read again from their beginning.           *)
Again(F, meta) == [file |-> file, notes |-> seen.notes \o notes, halted |-> meta]
Taken(F, meta) ==
    [file |-> [n \in Agents |-> IF n \in F THEN file[n] ELSE seen.file[n]],
     notes |-> SelectSeq(notes, LAMBDA l : Owner(l.task) \in F \/ l \in Range(seen.notes)),
     halted |-> meta]
Reads ==
    /\ step # "taken" /\ step' = "taken"
    /\ \E F \in IF Partial THEN SUBSET ({0} \cup Agents) ELSE {{0} \cup Agents},
          meta \in {seen.halted, halted} : seen' = Taken(F, meta)
    /\ UNCHANGED <<world, probe, marks>>

(* Which of two lines about an agent holds: an acknowledged stop, then the  *)
(* later one; but the delivery of an end does not move the time at which it *)
(* was queued, and does not bring back that an agent waited.                *)
(* Mutant: the later line always holds.                                     *)
Latest(old, new) == IF old.at <= new.at THEN new ELSE old
SameEnd(old, new) == old.queued /\ ~new.queued /\ old.end = new.end
LateWait(old, new) == old.queued /\ old.end = "completed" /\ ~new.queued /\ new.end = "waiting"
Holds(old, new) ==
    IF new.end = "stopped" THEN new
    ELSE IF old.end = "stopped" \/ old.at > new.at \/ SameEnd(old, new) \/ LateWait(old, new)
    THEN old ELSE new
Silent == [at |-> 0, end |-> "none", queued |-> FALSE, task |-> 0]
About(n) == SelectSeq(seen.notes, LAMBDA l : l.task = n)
Note(n) == FoldLeft(Holds, Silent, About(n))

LastOf(n) == seen.file[n].last
Tells(n) == Note(n).end # "none"
ResumedAfter(n) == Tells(n) /\ LastOf(n) > Note(n).at
(* Mutant: an agent that waits has ended, too.                              *)
AlsoWaiting(n) == Tells(n) /\ ~ResumedAfter(n)
Told(n) == Tells(n) /\ ~ResumedAfter(n) /\ Note(n).end # "waiting"
Valid(mark, n) == mark[n].end # "none" /\ LastOf(n) <= mark[n].at
(* resolveAgentStatus.                                                      *)
Status(n, o, s) ==
    IF Told(n) THEN IF Note(n).end = "failed" THEN "error" ELSE "completed"
    ELSE IF n \in seen.halted THEN "completed"
    ELSE IF Valid(o, n) THEN o[n].end
    ELSE IF Valid(s, n) THEN s[n].end
    ELSE "running"

Known == {n \in Agents : LastOf(n) > 0}
LastWord(n) == seen.file[n].shape \in {"text", "final", "api"}
Running == {n \in Known : Status(n, orphan, sweep) = "running"}
Quiet(n) == now - LastOf(n)
Settled(n) == [at |-> LastOf(n), end |-> IF LastWord(n) /\ seen.file[n].shape # "api" THEN "completed" ELSE "error"]
(* A session that is known dead ends everything that is silent; one that    *)
(* is not takes that back.                                                  *)
(* Mutant: what was concluded from a dead session stays.                    *)
KeepsSweep ==
    [n \in Agents |->
        IF probe = FALSE /\ n \in Running /\ Quiet(n) >= Grace THEN [Settled(n) EXCEPT !.at = MaxTime] ELSE sweep[n]]
Swept ==
    [n \in Agents |->
        IF probe # FALSE THEN Unmarked
        ELSE IF n \in Running /\ Quiet(n) >= Grace THEN Settled(n)
        ELSE IF Valid(sweep, n) THEN sweep[n] ELSE Unmarked]
(* Those that have said their last word, as far as silence tells.           *)
GraceOf(n) == IF seen.file[n].shape = "text" THEN Tentative ELSE Grace
Finished == {n \in Running : LastWord(n) /\ Quiet(n) >= GraceOf(n)}
(* None that owns one that runs and has not.                                *)
Candidates == UNION {C \in SUBSET Finished : \A m \in Running : Owner(m) \in C => m \in C}
(* And of these, the ones whose end can have been told to nobody: their     *)
(* owner has ended before, or they had been told to have ended once.        *)
(* Mutant: that the owner has ended is not looked at.                       *)
OnlyTold(n, A) == ResumedAfter(n)
Forgotten(n, A) ==
    \/ ResumedAfter(n)
    \/ Owner(n) # 0 /\ (Owner(n) \in A \/ Owner(n) \in Known \ Running)
Approved == {n \in Candidates : \A A \in SUBSET Candidates :
                (\A m \in Candidates : Forgotten(m, A) => m \in A) => n \in A}
Orphaned ==
    [n \in Agents |->
        IF probe # FALSE /\ n \in Approved THEN Settled(n)
        ELSE IF Valid(orphan, n) THEN orphan[n] ELSE Unmarked]

(* The session is looked for by its name; one that cannot be found that way *)
(* may still be there until it has been silent for long.                    *)
LastActivity == IF Known = {} THEN 0 ELSE CHOOSE t \in {LastOf(n) : n \in Known} : \A n \in Known : LastOf(n) <= t
Probed == IF LastActivity > 0 /\ now - LastActivity >= Stale THEN {FALSE} \cup {alive} ELSE {TRUE}
Settles ==
    /\ step = "taken"
    /\ orphan' = Orphaned /\ sweep' = Swept
    /\ shown' = [n \in Agents |-> IF n \in Known THEN Status(n, orphan', sweep') ELSE "none"]
    /\ step' = IF orphan' = orphan /\ sweep' = sweep THEN "settled" ELSE "written"
    /\ UNCHANGED <<world, seen, probe>>
(* The look for the session, every half minute.                             *)
Probes ==
    /\ step = "settled" /\ probe' \in Probed \ {probe} /\ step' = "written"
    /\ UNCHANGED <<world, seen, marks>>

Claude == \/ Passes \/ SessionDies
          \/ \E n \in Agents : \/ Starts(n) \/ Works(n) \/ Ends(n) \/ Delivers(n) \/ Resumes(n)
                               \/ StoppedByTool(n) \/ StoppedByUser(n)
Reader == Reads \/ Settles \/ Probes
Next == Claude \/ Reader
Spec == Init /\ [][Next]_vars

----------------------------------------------------------------------------
States == {"none", "running", "completed", "error"}
TypeOK ==
    /\ now \in 1 .. MaxTime /\ does \in [Agents -> {"absent", "works", "rests", "cut"}]
    /\ \A n \in Agents : seen.file[n].last <= file[n].last /\ file[n].last <= now
    /\ Len(seen.notes) <= Len(notes) /\ Len(notes) <= MaxLines
    /\ shown \in [Agents -> States]
    /\ \A n \in Agents : orphan[n].end \in States \ {"running"} /\ sweep[n].end \in States \ {"running"}

(* An agent that works is shown running: neither an end of an earlier run   *)
(* that is delivered late, nor silence while it thinks, makes it look ended *)
(* (resolveAgentStatus, settling); only a session that seems dead does, and *)
(* only until the agent writes again.                                       *)
WorkingShown ==
    UpToDate => \A n \in Agents :
        does[n] = "works" /\ (probe # FALSE \/ now - file[n].last < Grace) => shown[n] = "running"

(* An agent whose end is still to come: it was cut off with the session, it *)
(* waits to go on and to be told of then, or its end is queued.             *)
Owed(n) == shown[n] = "running" /\ (does[n] = "cut" \/ tells[n] \/ Undelivered(n) > 0)
(* When everybody has rested for the long grace, an agent is shown running  *)
(* only while the session is not known to be dead, and only because its own *)
(* end is still to come or that of its owner or of an agent it owns: agents *)
(* with no end to come never keep each other in the list (the settling of   *)
(* orphans, resolveAgentStatus).                                            *)
NothingStuck ==
    UpToDate /\ (\A n \in Agents : does[n] # "works" /\ now - file[n].last >= Tentative) =>
        \A n \in Agents : shown[n] = "running" =>
            /\ probe # FALSE
            /\ \E m \in Agents : Owed(m) /\ (m = n \/ Owner(m) = n \/ Owner(n) = m)

(* An agent that waits for its own background work is not shown ended as    *)
(* long as that work runs and nothing else has told its end.                *)
WaitingRuns ==
    UpToDate /\ probe # FALSE => \A n \in Agents :
        does[n] = "rests" /\ Note(n).end = "waiting" /\ Own(n) => shown[n] = "running"

(* What the owner stopped is shown completed, whatever is delivered later.  *)
StopsComplete ==
    UpToDate => \A n \in Agents :
        (\E l \in Range(notes) : l.task = n /\ l.end = "stopped" /\ l.at >= file[n].last) => shown[n] = "completed"
============================================================================
