--------------------------- MODULE MCChatDelivery ---------------------------
(***************************************************************************)
(* Instances of ChatDelivery for TLC.                                      *)
(***************************************************************************)
EXTENDS ChatDelivery, TLC, FiniteSetsExt

CONSTANTS m1, m2, q1, q2, n1

MCOneMsg == {m1}
MCTwoMsgs == {m1, m2}
MCNone == {}
MCOneQuestion == {q1}
MCTwoQuestions == {q1, q2}
MCOneNative == {n1}

\* At most so many troubles in one history: crashes, failed writes, retries, and
\* launches that record the session anew, of which each kind has its own bound.
MaxTroubles == 3
FewTroubles ==
    MapThenSumSet(LAMBDA m : retried[m], Msgs) + (meta - 1) + crashes + writeFailures <= MaxTroubles

\* Messages are alike: every action treats them by their place in the queue.
MCSymmetry == Permutations(Msgs)
=============================================================================
