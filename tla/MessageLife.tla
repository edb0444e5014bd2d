---------------------------- MODULE MessageLife ----------------------------
(***************************************************************************)
(* What the hub promises about a chat message, without its queue, order,   *)
(* waiters, questions and handlers: the life of each message in memory,    *)
(* what the disk keeps of it, and how often it was submitted in the pane.  *)
(* The promise is that of a journal that is written ahead: a message is    *)
(* in the injector only when the disk calls it unsure, and what the disk   *)
(* calls unsure is not submitted again unless the user asks for it.        *)
(***************************************************************************)
EXTENDS Naturals

CONSTANT Msgs

VARIABLES
    life,    \* of a message in the process that serves it
    kept,    \* of a message on the disk
    times,   \* it was submitted
    tries    \* the user asked for it to be submitted again

vars == <<life, kept, times, tries>>

InHands == {"taken", "typing", "typed"}
OnDisk  == {"none", "waiting", "unsure", "delivered", "deleted"}
Lives   == OnDisk \cup InHands

\* What the disk says of a life: once it is in the injector nobody knows.
Record(l) == [m \in Msgs |-> IF l[m] \notin OnDisk THEN "unsure" ELSE l[m]]

Init ==
    /\ life = [m \in Msgs |-> "none"] /\ kept = life
    /\ times = [m \in Msgs |-> 0] /\ tries = times

Becomes(m, to) == life' = [life EXCEPT ![m] = to]
Saved  == kept' = Record(life')
MayRecord == kept' = kept \/ kept' = Record(life)
MaySave == Saved \/ kept' = kept

\* The user: a change is in effect when the disk has it.
Accept(m) ==
    /\ life[m] = "none" /\ Becomes(m, "waiting") /\ Saved
    /\ UNCHANGED <<times, tries>>
Delete(m) ==
    /\ life[m] \in {"none", "waiting"} /\ Becomes(m, "deleted") /\ Saved
    /\ UNCHANGED <<times, tries>>
Retry(m) ==
    /\ life[m] = "unsure" /\ Becomes(m, "waiting") /\ Saved
    /\ tries' = [tries EXCEPT ![m] = @ + 1] /\ UNCHANGED times

\* The injector: the disk calls the message unsure before the first key.
Take(m) ==
    /\ life[m] = "waiting" /\ \A n \in Msgs : life[n] \notin InHands
    /\ Becomes(m, "taken") /\ Saved
    /\ UNCHANGED <<times, tries>>
Begin(m) ==
    /\ life[m] = "taken" /\ Becomes(m, "typing")
    /\ UNCHANGED <<kept, times, tries>>
Submit(m) ==
    /\ life[m] = "typing" /\ Becomes(m, "typed")
    /\ times' = [times EXCEPT ![m] = @ + 1] /\ UNCHANGED <<kept, tries>>
Settle(m) ==
    /\ \/ life[m] = "taken" /\ \E to \in {"none", "waiting", "unsure"} : Becomes(m, to)
       \/ life[m] \in {"typing", "typed"} /\ \E to \in {"delivered", "unsure"} : Becomes(m, to)
    /\ MaySave /\ UNCHANGED <<times, tries>>

\* The process: it saves again, ends and is followed by another one, which knows what
\* the disk has; or the session is over, and all is forgotten.
SaveAgain == UNCHANGED <<life, times, tries>> /\ Saved
Restart ==
    /\ life' = kept' /\ MayRecord
    /\ UNCHANGED <<times, tries>>
Forget ==
    /\ times' = [m \in Msgs |-> 0] /\ tries' = times'
    /\ life' = [m \in Msgs |-> "none"] /\ MaySave

Next ==
    \/ SaveAgain
    \/ \E m \in Msgs : Accept(m) \/ Delete(m) \/ Retry(m)
                       \/ Take(m) \/ Begin(m) \/ Submit(m) \/ Settle(m)
    \/ Restart \/ Forget

Spec == Init /\ [][Next]_vars
=============================================================================
