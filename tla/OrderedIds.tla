----------------------------- MODULE OrderedIds -----------------------------
(***************************************************************************)
(* Arrays of message ids in which an id occurs once, as                    *)
(* src/hub/sessionHub.ts keeps them for its queues, their order and the    *)
(* order saved in the journal.                                             *)
(***************************************************************************)
EXTENDS Integers, Sequences, FiniteSets

Elements(s) == {s[i] : i \in 1..Len(s)}
Injective(s) == \A i, j \in 1..Len(s) : s[i] = s[j] => i = j

\* removeOrderedID, and the filters of deletePendingChatMessage and
\* deletePendingCodexTurn: ids occur once.
Without(s, m) ==
    IF m \in Elements(s)
    THEN LET at == CHOOSE i \in 1..Len(s) : s[i] = m
         IN  SubSeq(s, 1, at - 1) \o SubSeq(s, at + 1, Len(s))
    ELSE s

Position(s, m) == CHOOSE i \in 1..Len(s) : s[i] = m

\* The elements of S, each once, in the order of the sequence ord, which lists
\* them all: restoreOrder, and the sort by chatOrder or codexOrder that follows it.
Sorted(S, ord) ==
    {s \in [1..Cardinality(S) -> S] :
        /\ Injective(s)
        /\ \A i, j \in 1..Len(s) : i < j => Position(ord, s[i]) < Position(ord, s[j])}
=============================================================================
