--------------------------- MODULE TranscriptTail ---------------------------
(***************************************************************************)
(* Reading a conversation of Claude while it is written                    *)
(* (src/src/chat/transcriptTailer.ts), and handing what was read to the    *)
(* hub with the pictures that belong to it (chatTailController.ts).        *)
(*                                                                         *)
(* The transcript is a file of lines that another process appends to, in   *)
(* pieces; the reader may meet the end of the file inside a line.  What a  *)
(* line gives depends on the lines before it: cards wait for their bodies, *)
(* links and refusals, a limit makes the next prompt that Claude writes    *)
(* itself a note.  A reader that starts from a time (Floors) interprets    *)
(* the older lines too, without passing them on.                           *)
(*                                                                         *)
(* A line is what its record is about (k) and the card, model or picture   *)
(* it names (id); its time is its number.  `later` is a prompt written     *)
(* more than twelve hours after the limit.                                 *)
(***************************************************************************)
EXTENDS Integers, Sequences, FiniteSets, SequencesExt

CONSTANTS
    Turns,      \* the records without a card that are written
    Tools,      \* and those about a card
    Ids,        \* cards, models and pictures
    Broken,     \* pictures of which no thumbnail can be made
    Floors,     \* times a reader may start from (0: reads everything)
    MaxLines,   \* lines written
    Pieces,     \* pieces of a line, the last one is its end
    MaxSkills,  \* cards kept that wait for a body or a link (16)
    MaxAwaiting \* cards kept that wait for a result (64)

AllTurns == {"prompt", "peer", "resumed", "later", "scheduled", "command", "companion",
             "queued", "interrupt", "answer", "limit", "fails"}
Calls == {"skillCall", "pageCall", "readCall"}
Results == {"page", "denied", "ok"}
ASSUME KindsAreKnown == Turns \subseteq AllTurns /\ Tools \subseteq Calls \cup Results \cup {"skillBody"}
ASSUME BoundsArePositive == {Pieces, MaxSkills, MaxAwaiting} \subseteq Nat \ {0}
ASSUME IdsAreNumbers == Ids \subseteq Nat \ {0} /\ Floors \subseteq Nat /\ MaxLines \in Nat

VARIABLES
    lines,  \* the records written, the last one perhaps not to its end
    size,   \* pieces in the file
    tail,   \* the reader
    out,    \* what it passes on
    told,   \* the beginnings and ends of turns it reports
    images  \* pictures passed on with a message of the user or a card

vars == <<lines, size, tail, out, told, images>>

Fresh == [armed |-> FALSE, command |-> FALSE, model |-> 0,
          skills |-> <<>>, pages |-> <<>>, awaiting |-> <<>>]
Init ==
    /\ lines = <<>> /\ size = 0 /\ out = <<>> /\ told = <<>> /\ images = <<>>
    /\ tail = [open |-> FALSE, st |-> Fresh, pos |-> 0, held |-> 0, done |-> FALSE,
               floor |-> 0, had |-> 0]

----------------------------------------------------------------------------
(* Claude appends a piece.  A card is called once, and has one result.      *)
Wrote(k, i) == \E n \in DOMAIN lines : lines[n] = [k |-> k, id |-> i]
Called(i) == \E k \in Calls : Wrote(k, i)
Fits(r) ==
    /\ r.k \in Calls => ~Called(r.id)
    /\ r.k \in Results => Called(r.id) /\ \A k \in Results : ~Wrote(k, r.id)
    /\ r.k = "page" => Wrote("pageCall", r.id)
    /\ r.k = "skillBody" => Wrote("skillCall", r.id) /\ ~Wrote("skillBody", r.id)
    /\ r.k \in {"answer"} => r.id # 0
    /\ r.k \in AllTurns \ {"answer", "prompt"} => r.id = 0
Records == [k : Turns, id : Ids \cup {0}] \cup [k : Tools, id : Ids]
Whole == Len(lines) * Pieces
Writes ==
    /\ IF size < Whole THEN UNCHANGED lines
       ELSE Len(lines) < MaxLines /\ \E r \in Records : Fits(r) /\ lines' = Append(lines, r)
    /\ size' = size + 1
    /\ UNCHANGED <<tail, out, told, images>>

(* The lines whose record is complete, with or without the end of the line. *)
Readable == IF Pieces = 1 THEN size ELSE (size + 1) \div Pieces

----------------------------------------------------------------------------
(* What a line means (emitLine, extractTurn), from the state of the reader. *)
IsUser(r) == r.k \in {"prompt", "peer", "resumed", "later", "scheduled", "command",
                      "companion", "queued", "interrupt"}
Utterance(r) == IsUser(r) /\ r.k \notin {"queued", "interrupt"}
FromClaude(r) == r.k \in {"answer"} \cup Calls
(* The text a command was expanded to, right behind the command.            *)
Hidden(st, r) == r.k = "companion" /\ st.command
(* A prompt that Claude wrote itself when the limit was over.               *)
AutoContinue(st, r) == r.k \in {"resumed", "companion"} /\ st.armed
(* Mutant: an answer of Claude leaves the reader waiting.                   *)
ArmedThroughAnswers(st, r) ==
    \/ r.k = "limit"
    \/ /\ st.armed /\ ~AutoContinue(st, r)
       /\ r.k \notin {"fails", "prompt", "command", "later", "interrupt"}
ArmedAfter(st, r) ==
    \/ r.k = "limit"
    \/ /\ st.armed /\ ~AutoContinue(st, r) /\ ~FromClaude(r)
       /\ r.k \notin {"fails", "prompt", "command", "later", "interrupt"}

(* Mutant: nothing is thrown away.                                          *)
KeepsAll(s, max) == s
Newest(s, max) == IF Len(s) > max THEN Tail(s) ELSE s
Kept(s, add, i, max) == IF add THEN Newest(Append(s, i), max) ELSE s
(* Mutant: a card keeps waiting when its result has come.                   *)
StaysAwaited(st, r) == Kept(st.awaiting, r.k \in Calls, r.id, MaxAwaiting)
Awaiting(st, r) ==
    IF r.k \in Results THEN Remove(st.awaiting, r.id)
    ELSE Kept(st.awaiting, r.k \in Calls, r.id, MaxAwaiting)
After(st, r) ==
    IF Hidden(st, r) THEN [st EXCEPT !.command = FALSE]
    ELSE [armed |-> ArmedAfter(st, r), command |-> r.k = "command",
          model |-> IF r.k = "answer" THEN r.id ELSE st.model,
          skills |-> IF r.k = "skillBody" THEN Remove(st.skills, r.id)
                     ELSE Kept(st.skills, r.k = "skillCall", r.id, MaxSkills),
          pages |-> IF r.k = "page" THEN Remove(st.pages, r.id)
                    ELSE Kept(st.pages, r.k = "pageCall", r.id, MaxSkills),
          awaiting |-> Awaiting(st, r)]

Message(n, what, id) == [line |-> n, what |-> what, id |-> id]
If(c, m) == IF c THEN <<m>> ELSE <<>>
Row(st, r) ==
    IF AutoContinue(st, r) \/ r.k = "scheduled" THEN "note"
    ELSE IF IsUser(r) THEN "user" ELSE "assistant"
Messages(st, n, r) ==
    IF Hidden(st, r) THEN <<>>
    ELSE If(r.k \in Calls, Message(n, "card", r.id))
         \o If(r.k = "skillBody" /\ Contains(st.skills, r.id), Message(n, "body", r.id))
         \o If(r.k = "page" /\ Contains(st.pages, r.id), Message(n, "link", r.id))
         \o If(r.k = "denied" /\ Contains(st.awaiting, r.id), Message(n, "refusal", r.id))
         \o If(r.k = "answer" /\ r.id # st.model, Message(n, "model", r.id))
         \o If(r.k \in AllTurns, Message(n, Row(st, r), r.id))
Lifecycle(st, n, r) ==
    IF r.k \in {"limit", "fails"} THEN <<[line |-> n, turn |-> "api_error"]>>
    ELSE IF Hidden(st, r) THEN <<>>
    ELSE If(r.k = "interrupt", [line |-> n, turn |-> "interrupted"])
         \o If(Utterance(r), [line |-> n, turn |-> "turn_start"])

(* emitLineAfter: an old line moves the state and is not passed on.         *)
(* Mutant: an old line is not looked at.                                    *)
SkipsOld(t, n) == IF n <= t.floor THEN t.st ELSE After(t.st, lines[n])
Interpreted(t, n) == After(t.st, lines[n])
(* Mutant: beginnings and ends of old turns are reported.                   *)
AllReported(t, n) == Lifecycle(t.st, n, lines[n])
Reported(t, n) == IF n <= t.floor THEN <<>> ELSE Lifecycle(t.st, n, lines[n])
Passed(t, n) == IF n <= t.floor THEN <<>> ELSE Messages(t.st, n, lines[n])

(* The pump: a picture of a message of the user, then those Claude reads,   *)
(* except the ones the user attached.                                       *)
Attached(i) == \E m \in DOMAIN images : images[m] = [by |-> "user", id |-> i]
(* Mutant: a picture Claude reads is passed on whatever was attached.       *)
AnyRead(m) == m.what = "card" /\ Wrote("readCall", m.id)
Read(m) == m.what = "card" /\ Wrote("readCall", m.id) /\ ~Attached(m.id)
Pictures(msgs) ==
    FoldLeft(LAMBDA s, m : s \o If(m.what = "user" /\ m.id \notin Broken \cup {0}, [by |-> "user", id |-> m.id])
                             \o If(Read(m) /\ m.id \notin Broken, [by |-> "read", id |-> m.id]),
             images, msgs)
Takes(n, t) ==
    /\ tail' = [t EXCEPT !.st = Interpreted(t, n)]
    /\ told' = told \o Reported(t, n)
    /\ images' = Pictures(Passed(t, n))
Leaves(t) == tail' = t /\ UNCHANGED <<told, images>>

----------------------------------------------------------------------------
(* runTail.  The file is there, and the reader starts.                      *)
Opens ==
    /\ ~tail.open
    /\ \E f \in Floors :
        /\ tail' = [tail EXCEPT !.open = TRUE, !.floor = f, !.had = Readable]
        /\ out' = If(f = 0, Message(0, "begin", 0))
    /\ UNCHANGED <<lines, size, told, images>>
Line == tail.pos \div Pieces + 1
AtEnd == (tail.pos + 1) % Pieces = 0
ReadsPiece ==
    /\ tail.open /\ tail.pos < size /\ ~AtEnd
    /\ tail' = [tail EXCEPT !.pos = @ + 1, !.held = @ + 1]
    /\ UNCHANGED <<lines, size, out, told, images>>
(* A line is complete, or empty when it was passed on before its end came.  *)
Complete(t) == t.held = Pieces - 1
ReadsLine ==
    /\ tail.open /\ tail.pos < size /\ AtEnd
    /\ LET t == [tail EXCEPT !.pos = @ + 1, !.held = 0] IN
       IF Complete(tail) THEN Takes(Line, t) /\ out' = out \o Passed(t, Line)
       ELSE Leaves(t) /\ UNCHANGED out
    /\ UNCHANGED <<lines, size>>
(* The first end of the file: a line that lacks only its end is taken, one  *)
(* that is cut is kept for what is still to come.                           *)
(* Mutant: what was read of the line is dropped.                            *)
DropsCut(t) == 0
HeldAfter(t) == IF Complete(t) THEN 0 ELSE t.held
(* Mutant: a line without its end always waits.                             *)
NeverTaken(t) == FALSE
TakenAtEnd(t) == t.held > 0 /\ Complete(t)
ReachesEnd ==
    /\ tail.open /\ ~tail.done /\ tail.pos = size
    /\ LET t == [tail EXCEPT !.done = TRUE, !.held = HeldAfter(tail)] IN
       IF TakenAtEnd(tail)
       THEN Takes(Line, t) /\ out' = Append(out \o Passed(t, Line), Message(0, "done", 0))
       ELSE Leaves(t) /\ out' = Append(out, Message(0, "done", 0))
    /\ UNCHANGED <<lines, size>>

Next == Writes \/ Opens \/ ReadsPiece \/ ReadsLine \/ ReachesEnd
Spec == Init /\ [][Next]_vars

----------------------------------------------------------------------------
TypeOK ==
    /\ lines \in Seq(Records) /\ size \in 0 .. Whole
    /\ tail.pos \in 0 .. size /\ tail.held \in 0 .. Pieces - 1 /\ tail.had \in 0 .. Len(lines)
    /\ Len(tail.st.skills) <= MaxSkills /\ Len(tail.st.pages) <= MaxSkills
    /\ Len(tail.st.awaiting) <= MaxAwaiting

(* The meaning of the first n lines, read by one who sees each line whole   *)
(* and starts at the first.                                                 *)
State[n \in 0 .. MaxLines] == IF n = 0 THEN Fresh ELSE After(State[n - 1], lines[n])
All(n) == FlattenSeq([m \in 1 .. n |-> Messages(State[m - 1], m, lines[m])])
AllTurnsOf(n) == FlattenSeq([m \in 1 .. n |-> Lifecycle(State[m - 1], m, lines[m])])
After0(s, f) == SelectSeq(s, LAMBDA m : m.line > f)
Taken == (tail.pos - tail.held) \div Pieces + (IF tail.pos % Pieces # 0 /\ tail.held = 0 THEN 1 ELSE 0)

(* However the lines were cut when they were read and wherever the reader   *)
(* started, it passes on what belongs to the lines behind its start, once   *)
(* and in order, with every body, link and refusal that belongs to an       *)
(* earlier card (emitLineAfter, runTail).                                   *)
RowsTrue == After0(out, 0) = After0(All(Taken), tail.floor)

(* The same holds of the beginnings and ends of turns that it reports.      *)
TurnsTold == told = After0(AllTurnsOf(Taken), tail.floor)

(* The mark for the end of the history comes after everything of the lines  *)
(* that were there when the reader started, also of one whose end was       *)
(* missing (runTail).                                                       *)
DoneMeansAll ==
    \A x \in DOMAIN out : out[x].what = "done" =>
        Len(After0(SubSeq(out, 1, x), 0)) >= Len(After0(All(tail.had), tail.floor))

(* A prompt of the user is never shown as a note, and the prompt by which   *)
(* Claude goes on after a limit always is: between the two nobody else has  *)
(* spoken (usage-limit-wait).                                               *)
Interrupts(r) == FromClaude(r) \/ r.k \in {"fails", "prompt", "command", "later", "interrupt", "resumed", "companion"}
GoesOn(n) ==
    /\ lines[n].k \in {"resumed", "companion"}
    /\ \E m \in 1 .. n - 1 : lines[m].k = "limit" /\ \A x \in m + 1 .. n - 1 : ~Interrupts(lines[x])
NotesRight ==
    \A m \in DOMAIN out : out[m].line > 0 =>
        (out[m].what = "note" <=> GoesOn(out[m].line) \/ lines[out[m].line].k = "scheduled")

(* A call that was refused is marked on its card, as long as no more calls  *)
(* than are kept wait at once: those whose results came take no place       *)
(* (MAX_AWAITING_RESULT_ACTIVITIES).                                        *)
Unanswered(n) == {i \in Ids : /\ \E x \in 1 .. n : lines[x].k \in Calls /\ lines[x].id = i
                              /\ \A x \in 1 .. n : ~(lines[x].k \in Results /\ lines[x].id = i)}
RefusalsShown ==
    \A n \in 1 .. Taken :
        lines[n].k = "denied" /\ n > tail.floor
        /\ (\A x \in 1 .. n : Cardinality(Unanswered(x)) <= MaxAwaiting)
            => \E m \in DOMAIN out : out[m] = Message(n, "refusal", lines[n].id)

(* A picture the user attached is not shown again when Claude reads it      *)
(* later (attachedImagePaths of chatTailController, chat-image-dedupe).     *)
AttachedOnce ==
    \A m \in DOMAIN images :
        images[m].by = "read" =>
            \A n \in tail.floor + 1 .. Taken : lines[n] = [k |-> "prompt", id |-> images[m].id] =>
                \E x \in 1 .. n - 1 : lines[x] = [k |-> "readCall", id |-> images[m].id]
============================================================================
