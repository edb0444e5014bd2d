------------------------- MODULE MCSessionActivity -------------------------
(* One session of Claude for TLC.                                           *)
EXTENDS SessionActivity

(* Two turns within a minute: hooks, a tool and lines in every order, and   *)
(* a restart of the hub or a subscription, or both without the tool.        *)
Busy(t, c, s) ==
    [turns |-> 2, tools |-> t, lost |-> 0, crash |-> c, sub |-> s, ends |-> 0,
     work |-> 0, reports |-> FALSE, minutes |-> FALSE]
(* One turn, and minutes pass: ticks and the reaper.                        *)
Long(reports) == [turns |-> 1, tools |-> 0, lost |-> 0, crash |-> 1, sub |-> 1, ends |-> 1,
                  work |-> 1, reports |-> reports, minutes |-> TRUE]
MCBudgets == {Busy(1, 1, 0), Busy(1, 0, 1), Busy(0, 1, 1), Long(TRUE), Long(FALSE)}
============================================================================
