---------------------------- MODULE MCCodexTurns ----------------------------
(***************************************************************************)
(* Instances of CodexTurns for TLC.                                        *)
(***************************************************************************)
EXTENDS CodexTurns, FiniteSetsExt, TLC

CONSTANT MaxEvents \* how many of the events below one history may have

\* Messages submitted or retried, viewers, ends of the session (which count twice),
\* and what goes wrong.
FewEvents ==
    MapThenSumSet(LAMBDA m : entered[m], Msgs) + watches + 2 * (gen - 1)
        + faults + crashes + writeFailures <= MaxEvents

Symmetry == Permutations(Msgs) \cup Permutations(Conns)
=============================================================================
