----------------------------- MODULE MCCardList -----------------------------
EXTENDS CardList, TLC, FiniteSets

Symmetry == Permutations(Writers)

\* Every listed card makes the text longer, and a message makes it longer still.
Listed(list) == {c \in Cards : list[c] # NotListed}
Worded(list) == {c \in Cards : list[c] \notin {NotListed, Blank}}
Length(list) == 2 * Cardinality(Listed(list)) + Cardinality(Worded(list))
MCSize == [d \in Snapshots |-> 1 + Length(d.GMCList) + Length(d.MCList)]
=============================================================================
