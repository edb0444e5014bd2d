----------------------------- MODULE PaneInput -----------------------------
(***************************************************************************)
(* Typing a message into the pane of Claude (sendTextSubmit of             *)
(* src/src/backend/tmux.ts and src/src/backend/herdr.ts).                  *)
(*                                                                         *)
(* The hub has no other way to hand Claude a message than to press keys    *)
(* and to read the screen.  Claude takes the keys in order, later; its     *)
(* dialogs come and go; the input box may hold what somebody else left in  *)
(* it: a draft of the user at the Mac, the last prompt that an             *)
(* interruption put back, a message of the hub that was never submitted.   *)
(* The Mac and the interruptions keep to no turn: a draft is begun, or a   *)
(* prompt put back, at any step, also between a look and a key.  What the  *)
(* hub cannot have seen in the box is kept in unseen, and the properties   *)
(* say which of their claims end there.                                    *)
(* Left out: a stalled Claude (it takes every key before the hub looks      *)
(* again), and a user at the Mac who edits or submits the box.             *)
(*                                                                         *)
(* A text is a sequence of pieces; a long message is pasted piece by       *)
(* piece.  One C-u removes one piece.  A frame is what classifySubmitFrame *)
(* makes of a screen: dialog, pending, submitted (an empty box), unknown.  *)
(***************************************************************************)
EXTENDS Integers, Sequences, FiniteSets, SequencesExt

CONSTANTS
    Msgs,        \* messages of the phone
    Long,        \* those pasted in two pieces
    Cancelling,  \* those sent past an open question (cancelChoiceDialog)
    Invisible,   \* those with characters the first Enter only removes
    Drafts,      \* what the user may type at the Mac
    Attempts,    \* SUBMIT_ATTEMPT_LIMIT
    Retypes,     \* 3: how often herdr types a message that does not show
    MaxKills,    \* of one clearing
    MaxTries,    \* of one message
    MaxGlitches  \* screens that cannot be read, failed presses, restarts, late Restores

ASSUME KindsAreMessages == Long \cup Cancelling \cup Invisible \subseteq Msgs
ASSUME DraftsAreOther == Drafts \cap Msgs = {}
ASSUME BoundsArePositive == {Attempts, Retypes, MaxKills} \subseteq Nat \ {0}
(* The keys that are not text have names of their own.                      *)
ASSUME KeysAreNoTexts == (Msgs \cup Drafts) \cap {"enter", "chord", "kill", "esc", "nobody"} = {}

VARIABLES
    herdr,    \* the backend: herdr, or tmux
    view, box, stripped, keys,  \* Claude: screen, input box, keys not taken yet
    prompts, young,             \* what was submitted; no output since?
    inj,      \* the injection under way
    own,      \* ownUnsubmittedText: typed and not confirmed
    verdict, tries,             \* of each message
    told, fell, drafted,        \* pieces told discarded, lost in a dialog, of the Mac
    unsaid,   \* pieces whose removal ended with an error of the message instead
    unseen,   \* texts that were in the box without the hub seeing them there
    doubtful, \* messages with a try that did not end as not delivered
    glitches

claude == <<view, box, stripped, keys, prompts, young>>
memory == <<own, verdict, tries, doubtful>>
history == <<told, fell, drafted, unsaid, unseen>>
vars == <<herdr, claude, inj, memory, history, glitches>>

Nobody == "nobody"
Pieces(m) == IF m \in Long THEN << <<m, 1>>, <<m, 2>> >> ELSE << <<m, 1>> >>
Idle == [at |-> "idle", msg |-> Nobody, for |-> "", n |-> 0, typed |-> 0, again |-> 0,
         before |-> "", sure |-> TRUE, residue |-> {}]
Init ==
    /\ herdr \in BOOLEAN
    /\ view = "composer" /\ box = <<>> /\ stripped = FALSE /\ keys = <<>>
    /\ prompts = <<>> /\ young = FALSE /\ inj = Idle /\ own = Nobody
    /\ verdict = [m \in Msgs |-> "none"] /\ tries = [m \in Msgs |-> 0]
    /\ told = {} /\ fell = {} /\ drafted = {} /\ unsaid = {}
    /\ unseen = {} /\ doubtful = {} /\ glitches = 0

----------------------------------------------------------------------------
(* Claude and the user at the Mac.                                          *)
Opens(v) ==
    /\ view = "composer" /\ v \in {"choice", "approval"} /\ view' = v
    /\ UNCHANGED <<box, stripped, keys, prompts, young, inj, memory, history, glitches>>
(* Answered at the Mac, or overtaken.                                       *)
Closes ==
    /\ view # "composer" /\ view' = "composer"
    /\ UNCHANGED <<box, stripped, keys, prompts, young, inj, memory, history, glitches>>
Outputs ==
    /\ young /\ young' = FALSE
    /\ UNCHANGED <<view, box, stripped, keys, prompts, inj, memory, history, glitches>>
(* The hub has looked at the box, or a key of it is under way: what gets    *)
(* into the box now is not looked at before the hub types or clears.        *)
Late == keys # <<>> \/ inj.at \notin {"idle", "read", "esc", "escaped", "now"}
Texts(s) == {k[1] : k \in ToSet(s)}
(* An interruption before any output puts the prompt back into the empty    *)
(* box, whatever the hub is about.                                          *)
Restores ==
    /\ young /\ view = "composer" /\ box = <<>>
    /\ box' = Last(prompts) /\ stripped' = TRUE /\ young' = FALSE
    /\ \/ ~Late /\ UNCHANGED <<unseen, glitches>>
       \/ /\ Late /\ unseen' = unseen \cup Texts(Last(prompts))
          /\ glitches < MaxGlitches /\ glitches' = glitches + 1
    /\ UNCHANGED <<view, keys, prompts, inj, memory, told, fell, drafted, unsaid>>
(* The user at the Mac types, whatever the hub is about.                    *)
TypesDraft(d) ==
    /\ view = "composer" /\ d \notin drafted
    /\ box' = Append(box, <<d, 1>>) /\ stripped' = FALSE /\ drafted' = drafted \cup {d}
    /\ unseen' = IF Late THEN unseen \cup {d} ELSE unseen
    /\ UNCHANGED <<view, keys, prompts, young, inj, memory, told, fell, unsaid, glitches>>
(* Claude takes the next key.  Enter submits the box, or only removes       *)
(* invisible characters; an empty box submits nothing.                      *)
Submits ==
    IF box # <<>> /\ ~stripped /\ \E k \in ToSet(box) : k[1] \in Invisible
    THEN stripped' = TRUE /\ UNCHANGED <<box, prompts, young>>
    ELSE /\ box' = <<>> /\ stripped' = FALSE
         /\ prompts' = IF box = <<>> THEN prompts ELSE Append(prompts, box)
         /\ young' = (young \/ box # <<>>)
TakesKey ==
    LET k == Head(keys) IN
    /\ keys # <<>> /\ keys' = Tail(keys)
    /\ CASE view # "composer" /\ k[1] \in Msgs ->
            fell' = fell \cup {k} /\ UNCHANGED <<view, box, stripped, prompts, young>>
         [] view # "composer" /\ k[1] \in {"enter", "esc"} ->
            view' = "composer" /\ UNCHANGED <<box, stripped, prompts, young, fell>>
         [] view = "composer" /\ k[1] \in Msgs ->
            box' = Append(box, k) /\ stripped' = FALSE /\ UNCHANGED <<view, prompts, young, fell>>
         [] view = "composer" /\ k[1] \in {"enter", "chord"} -> Submits /\ UNCHANGED <<view, fell>>
         [] view = "composer" /\ k[1] = "kill" /\ box # <<>> ->
            box' = Front(box) /\ UNCHANGED <<view, stripped, prompts, young, fell>>
         [] OTHER -> UNCHANGED <<view, box, stripped, prompts, young, fell>>
    /\ UNCHANGED <<inj, memory, told, drafted, unsaid, unseen, glitches>>

----------------------------------------------------------------------------
(* What the hub reads.  An unreadable screen costs a glitch.                *)
Frame == CASE view # "composer" -> "dialog"
           [] view = "composer" /\ box # <<>> -> "pending"
           [] view = "composer" /\ box = <<>> -> "submitted"
Looks(f) ==
    /\ keys = <<>>
    /\ \/ f = Frame /\ UNCHANGED glitches
       \/ f = "unknown" /\ glitches < MaxGlitches /\ glitches' = glitches + 1
Presses(ks) == keys' = keys \o ks
(* The hub goes on to type without having seen the composer.                *)
Overlooks == unseen' = unseen \cup Texts(box)
Enter == <<"enter", 0>>
Kill == <<"kill", 0>>
Esc == <<"esc", 0>>

(* The box shows the recorded prompt, or the end of a long one.             *)
Shows(b, text) == b = text \/ (text # <<>> /\ b # <<>> /\ b[1][1] \in Long /\ IsSuffix(b, text))
Recorded == IF prompts = <<>> THEN <<>> ELSE Last(prompts)
(* ... or what is about to be typed, or a piece of it.                      *)
BeingSent(b, m) == Shows(b, Pieces(m)) \/ (m \in Long /\ b # <<>> /\ \E s \in SubSeqs(Pieces(m)) : s = b)
(* Who left this in the box?                                                *)
(* Mutant: what the hub typed is looked for first. *)
OwnFirst(b, m) ==
    IF own # Nobody /\ Shows(b, Pieces(own)) THEN "own" ELSE IF Shows(b, Recorded) THEN "restored"
    ELSE IF BeingSent(b, m) THEN "same" ELSE "other"
(* Mutant: what the hub typed counts as delivered. *)
OwnDelivered(b, m) ==
    IF Shows(b, Recorded) \/ (own # Nobody /\ Shows(b, Pieces(own))) THEN "restored"
    ELSE IF BeingSent(b, m) THEN "same" ELSE "other"
(* Mutant: what ends in a draft counts as the text. *)
EndsAlike(b, m) ==
    IF Shows(b, Recorded) THEN "restored" ELSE IF own # Nobody /\ Shows(b, Pieces(own)) THEN "own"
    ELSE IF BeingSent(b, m) \/ Last(b)[1] \in Drafts THEN "same" ELSE "other"
Residue(b, m) ==
    IF Shows(b, Recorded) THEN "restored" ELSE IF own # Nobody /\ Shows(b, Pieces(own)) THEN "own"
    ELSE IF BeingSent(b, m) THEN "same" ELSE "other"

----------------------------------------------------------------------------
(* The injection: one at a time.                                            *)
Goes(at) == inj' = [inj EXCEPT !.at = at, !.n = 0]
Clearing(for, residue) == inj' = [inj EXCEPT !.at = "clear", !.n = 0, !.for = for, !.residue = residue]
Undelivered == {"rejected", "deferred"}
Ends(v) ==
    /\ inj' = Idle
    /\ verdict' = IF inj.msg = Nobody THEN verdict ELSE [verdict EXCEPT ![inj.msg] = v]
    /\ doubtful' = IF v \in Undelivered THEN doubtful ELSE doubtful \cup ({inj.msg} \cap Msgs)
Begins(m) ==
    /\ inj.at = "idle" /\ verdict[m] \in {"none", "deferred", "rejected", "uncertain"}
    /\ tries[m] < MaxTries
    /\ inj' = [Idle EXCEPT !.at = "read", !.msg = m]
    /\ UNCHANGED <<claude, memory, history, glitches>>
(* The hub is about to stop and has not touched the box yet.                *)
Defers ==
    /\ inj.at \in {"read", "escaped"} /\ Ends("deferred")
    /\ UNCHANGED <<claude, own, tries, history, glitches>>
(* The first look.  Past a question the hub sends only on a composer it     *)
(* sees; otherwise a screen it cannot read does not stop a message.         *)
FindsDialog ==
    \/ inj.at = "read" /\ view = "choice" /\ (herdr \/ inj.msg \in Cancelling)
       /\ Goes("esc") /\ UNCHANGED memory
    \/ ~(inj.at = "read" /\ view = "choice" /\ (herdr \/ inj.msg \in Cancelling))
       /\ Ends("rejected") /\ UNCHANGED <<own, tries>>
FindsUnreadable ==
    \/ inj.msg \in Cancelling /\ Ends("rejected") /\ UNCHANGED <<own, tries, unseen>>
    \/ inj.msg \notin Cancelling /\ Goes("type") /\ Overlooks /\ UNCHANGED memory
(* Mutant: a draft is submitted rather than removed. *)
SubmitsDraft(r) ==
    /\ own' = IF r = "restored" THEN Nobody ELSE own
    /\ IF r \in {"own", "other"} THEN inj' = [inj EXCEPT !.at = "before", !.n = 0, !.for = "own"]
       ELSE Clearing("type", {})
    /\ UNCHANGED <<verdict, tries, doubtful>>
FindsText(r) ==
    /\ own' = IF r = "restored" THEN Nobody ELSE own
    /\ IF r = "own" THEN inj' = [inj EXCEPT !.at = "before", !.n = 0, !.for = "own"]
       ELSE Clearing("type", IF r = "other" THEN ToSet(box) ELSE {})
    /\ UNCHANGED <<verdict, tries, doubtful>>
Reads(f) ==
    /\ inj.at \in {"read", "escaped"} /\ Looks(f)
    /\ \/ f = "unknown" /\ FindsUnreadable
       \/ /\ UNCHANGED unseen
          /\ \/ f = "dialog" /\ FindsDialog
             \/ f = "pending" /\ FindsText(Residue(box, inj.msg))
             \/ f = "submitted" /\ Goes("type") /\ UNCHANGED memory
    /\ UNCHANGED <<claude, told, fell, drafted, unsaid>>
PressesEsc ==
    /\ inj.at = "esc" /\ Presses(<<Esc>>) /\ Goes("escaped")
    /\ UNCHANGED <<view, box, stripped, prompts, young, memory, history, glitches>>

(* C-u, until the box is seen empty.                                        *)
Cleared ==
    /\ told' = told \cup inj.residue /\ UNCHANGED unsaid
    /\ CASE inj.for \in {"type", "retype"} ->
              inj' = [inj EXCEPT !.at = "type", !.n = 0, !.typed = 0] /\ UNCHANGED memory
         [] inj.for = "unpaste" -> Ends("rejected") /\ own' = Nobody /\ UNCHANGED tries
         [] inj.for = "throw" -> Ends("uncertain") /\ own' = Nobody /\ UNCHANGED tries
(* Mutant: a part that could not be removed is reported as not delivered.   *)
NotClearedRejected ==
    /\ Ends(IF inj.for \in {"type", "unpaste"} THEN "rejected" ELSE "uncertain")
    /\ own' = IF inj.for = "type" THEN own ELSE Nobody
    /\ unsaid' = unsaid \cup inj.residue
    /\ UNCHANGED <<tries, told>>
NotCleared ==
    /\ Ends(IF inj.for = "type" THEN "rejected" ELSE "uncertain")
    /\ own' = IF inj.for = "type" THEN own ELSE Nobody
    /\ unsaid' = unsaid \cup inj.residue
    /\ UNCHANGED <<tries, told>>
(* What the clearing makes of the screen.  A broken paste is removed only   *)
(* on a screen known to be the composer; otherwise the box is read wherever *)
(* one shows, in tmux on a dialog too, and taken for empty or full there.   *)
Trusting(f) == inj.for # "unpaste" /\ (f = "unknown" \/ (f = "dialog" /\ ~herdr))
ReadsEmpty(f) == f = "submitted" \/ (Trusting(f) /\ (view # "composer" \/ box = <<>>))
ReadsFull(f) == f = "pending" \/ (Trusting(f) /\ (view # "composer" \/ box # <<>>))
Clears(f) ==
    /\ inj.at = "clear" /\ Looks(f)
    /\ \/ /\ ReadsEmpty(f) /\ Cleared /\ UNCHANGED keys
          /\ IF f # "submitted" THEN Overlooks ELSE UNCHANGED unseen
       \/ /\ ReadsFull(f) /\ inj.n < MaxKills /\ Presses(<<Kill>>)
          /\ inj' = [inj EXCEPT !.n = @ + 1] /\ UNCHANGED <<memory, told, unsaid, unseen>>
       \/ /\ f \in {"dialog", "unknown"} \/ (f = "pending" /\ inj.n = MaxKills)
          /\ NotCleared /\ UNCHANGED <<keys, unseen>>
    /\ UNCHANGED <<view, box, stripped, prompts, young, fell, drafted>>

(* The message, remembered as the hub's own from the first piece on.  herdr *)
(* and a paste wait until it shows.                                         *)
Types ==
    LET m == inj.msg  all == inj.typed + 1 = Len(Pieces(m)) IN
    /\ inj.at = "type" /\ own' = m
    /\ tries' = IF inj.typed = 0 /\ inj.again = 0 THEN [tries EXCEPT ![m] = @ + 1] ELSE tries
    /\ Presses(<<Pieces(m)[inj.typed + 1]>>)
    /\ inj' = [inj EXCEPT !.typed = @ + 1, !.for = "msg", !.n = 0,
               !.at = IF ~all THEN "type" ELSE IF herdr \/ m \in Long THEN "check" ELSE "before"]
    /\ UNCHANGED <<view, box, stripped, prompts, young, verdict, doubtful, history, glitches>>
Arrived(b, m) ==
    IF m \in Long THEN b # <<>> /\ IsSuffix(b, Pieces(m)) ELSE <<m, 1>> \in ToSet(b)
Checks(f) ==
    LET there == f = "pending" /\ Arrived(box, inj.msg)
        retype == herdr /\ inj.msg \notin Long /\ inj.again + 1 < Retypes IN
    /\ inj.at = "check" /\ Looks(f)
    /\ \/ there /\ Goes("before")
       \/ ~there /\ ~herdr /\ inj' = [inj EXCEPT !.at = "before", !.n = 0, !.sure = FALSE]
       \/ /\ ~there /\ retype
          /\ inj' = [inj EXCEPT !.at = "clear", !.n = 0, !.for = "retype", !.again = @ + 1]
       \/ ~there /\ herdr /\ ~retype /\ Clearing("throw", {})
    /\ UNCHANGED <<claude, memory, history>>

(* The loop that submits what is in the box.                                *)
Result(submitted) ==
    \/ /\ inj.for = "own" /\ submitted /\ own' = Nobody
       /\ inj' = [inj EXCEPT !.at = "type", !.n = 0] /\ UNCHANGED <<verdict, tries, doubtful>>
    \/ inj.for = "own" /\ ~submitted /\ Ends("rejected") /\ UNCHANGED <<own, tries>>
    \/ inj.for = "msg" /\ submitted /\ inj.sure /\ Ends("submitted") /\ own' = Nobody /\ UNCHANGED tries
    \/ inj.for = "msg" /\ ~(submitted /\ inj.sure) /\ Ends("unconfirmed") /\ UNCHANGED <<own, tries>>
LooksBefore(f) ==
    /\ inj.at = "before" /\ Looks(f)
    /\ \/ f = "dialog" /\ Result(FALSE)
       \/ f # "dialog" /\ inj' = [inj EXCEPT !.at = "enter", !.before = f] /\ UNCHANGED memory
    /\ UNCHANGED <<claude, history>>
PressesEnter ==
    /\ inj.at = "enter" /\ Presses(<<Enter>>) /\ inj' = [inj EXCEPT !.at = "after"]
    /\ UNCHANGED <<view, box, stripped, prompts, young, memory, history, glitches>>
LooksAfter(f) ==
    /\ inj.at = "after" /\ Looks(f)
    /\ \/ f \in {"submitted", "dialog"} /\ Result(TRUE)
       \/ f = "unknown" /\ Result(FALSE)
       \/ f = "pending" /\ (inj.before = "unknown" \/ inj.n + 1 = Attempts) /\ Result(FALSE)
       \/ /\ f = "pending" /\ inj.before # "unknown" /\ inj.n + 1 < Attempts
          /\ inj' = [inj EXCEPT !.at = "before", !.n = @ + 1] /\ UNCHANGED memory
    /\ IF f = "dialog" /\ inj.for = "own" THEN Overlooks ELSE UNCHANGED unseen
    /\ UNCHANGED <<claude, told, fell, drafted, unsaid>>

(* A key cannot be pressed: what was typed is no longer the hub's own, and  *)
(* a paste that broke off is removed.                                       *)
Fails ==
    /\ inj.at \in {"type", "enter"} /\ glitches < MaxGlitches /\ glitches' = glitches + 1
    /\ \/ /\ inj.at = "type" /\ inj.typed > 0 /\ view = "composer" /\ box # <<>>
          /\ IsPrefix(box, Pieces(inj.msg)) /\ Clearing("unpaste", {}) /\ UNCHANGED memory
       \/ /\ Ends("uncertain") /\ UNCHANGED tries
          /\ own' = IF inj.at = "type" \/ inj.for = "msg" THEN Nobody ELSE own
    /\ UNCHANGED <<claude, history>>
(* The hub restarts, and remembers nothing it typed.                        *)
Restarts ==
    /\ glitches < MaxGlitches /\ glitches' = glitches + 1
    /\ Ends("uncertain") /\ own' = Nobody /\ unsaid' = unsaid \cup inj.residue
    /\ UNCHANGED <<claude, tries, told, fell, drafted, unseen>>

(* "Send now" (sendQueuedNow): the chord would submit a draft with it.      *)
AsksNow ==
    /\ inj.at = "idle" /\ inj' = [Idle EXCEPT !.at = "now"]
    /\ UNCHANGED <<claude, memory, history, glitches>>
ReadsNow(f) ==
    /\ inj.at = "now" /\ Looks(f)
    /\ inj' = IF f = "submitted" THEN [inj EXCEPT !.at = "chord"] ELSE Idle
    /\ UNCHANGED <<claude, memory, history>>
PressesChord ==
    /\ inj.at = "chord" /\ Presses(<< <<"chord", 0>> >>) /\ inj' = Idle
    /\ UNCHANGED <<view, box, stripped, prompts, young, memory, history, glitches>>

Next ==
  /\ UNCHANGED herdr
  /\ \/ \E v \in {"choice", "approval"} : Opens(v)
     \/ \E d \in Drafts : TypesDraft(d)
     \/ \E m \in Msgs : Begins(m)
     \/ \E f \in {"dialog", "pending", "submitted", "unknown"} :
         Reads(f) \/ Clears(f) \/ Checks(f) \/ LooksBefore(f) \/ LooksAfter(f) \/ ReadsNow(f)
     \/ Closes \/ Outputs \/ Restores \/ TakesKey
     \/ Defers \/ PressesEsc \/ Types \/ PressesEnter \/ Fails \/ Restarts
     \/ AsksNow \/ PressesChord
Spec == Init /\ [][Next]_vars

----------------------------------------------------------------------------
TypeOK ==
    /\ herdr \in BOOLEAN
    /\ view \in {"composer", "choice", "approval"} /\ own \in Msgs \cup {Nobody}
    /\ {stripped, young} \subseteq BOOLEAN /\ unseen \subseteq Msgs \cup Drafts
    /\ told \cup fell \subseteq (Msgs \cup Drafts) \X {1, 2} /\ drafted \subseteq Drafts
    /\ ToSet(box) \cup UNION {ToSet(p) : p \in ToSet(prompts)} \subseteq (Msgs \cup Drafts) \X {1, 2}
    /\ DOMAIN verdict = Msgs /\ \A m \in Msgs : tries[m] \in 0..MaxTries
    /\ inj.at = "idle" <=> inj = Idle

(* Every prompt Claude gets is one message, whole and alone: no draft of    *)
(* the Mac, no residue in front of it.  Excepted are a message a dialog     *)
(* swallowed a part of, and a prompt with a text in it that the hub could   *)
(* not know to be in the box: begun at the Mac or put back behind its look  *)
(* (Enter sends such a draft, tmux.ts 2636), or there when it went on       *)
(* without having seen the composer.                                        *)
Apart ==
    \A p \in ToSet(prompts) :
      \/ \E m \in Msgs : p = Pieces(m)
      \/ Texts(p) \cap unseen # {}
      \/ \E x \in Texts(p), i \in {1, 2} : <<x, i>> \in fell

(* A message is submitted once for each time it was typed: neither its      *)
(* leftover nor the copy an interruption put back goes out again, unless it *)
(* was put back behind the hub's look, or stood in a box the hub did not    *)
(* see.                                                                     *)
Submitted(m) == Len(SelectSeq(prompts, LAMBDA p : \E k \in ToSet(p) : k[1] = m))
OncePerTry == \A m \in Msgs \ unseen : Submitted(m) <= tries[m]

Accounted ==
    ToSet(box) \cup ToSet(keys) \cup (UNION {ToSet(p) : p \in ToSet(prompts)})
      \cup told \cup unsaid \cup fell \cup inj.residue
(* A message the phone shows as sent reached Claude, or is on its way, or a *)
(* dialog took it, or the user was told that it was removed or that the     *)
(* message behind it went wrong.  And what the user typed at the Mac is     *)
(* removed only with a note, or by a message that ended in an error.        *)
(* Excepted is what the hub could not know to be in the box: a draft begun  *)
(* between its look and its C-u goes without a word.                        *)
Sent == {m \in Msgs : verdict[m] \in {"submitted", "unconfirmed"}}
NothingLost == (Sent \cup drafted) \ unseen \subseteq {k[1] : k \in Accounted}

(* "Non-delivery is certain" (tmux.ts 2490): a message is given back as     *)
(* rejected or put off, and offered for sending again, only if nothing of   *)
(* it is with Claude or can still get there, in the box or as a key; unless *)
(* an earlier try of it had already ended otherwise.                        *)
NotDelivered == {m \in Msgs \ doubtful : verdict[m] \in Undelivered /\ inj.msg # m}
GivenBackWhole ==
    \A m \in NotDelivered :
      m \notin Texts(box) \cup Texts(keys) \cup UNION {Texts(p) : p \in ToSet(prompts)}
=============================================================================
