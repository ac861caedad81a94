--------------------------- MODULE MCAccountRunner ---------------------------
(* One account.  The first job has two steps of which the first reads and  *)
(* then writes and the second writes twice; the second job has one step    *)
(* that writes.                                                            *)
EXTENDS AccountRunner

CONSTANTS a1, j1, j2

MCOwner == [j \in Job |-> a1]
MCStepCount == [j \in Job |-> IF j = j1 THEN 2 ELSE 1]
MCCallCount == [j \in Job |-> [o \in Ordinal |-> IF j = j1 THEN 2 ELSE 1]]
MCWriteSites == {<<j1, 0, 1>>, <<j1, 1, 0>>, <<j1, 1, 1>>, <<j2, 0, 0>>}

WarmJournal == [a \in Account |-> TRUE]
ColdJournal == [a \in Account |-> FALSE]
=============================================================================
