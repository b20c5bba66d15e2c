--------------------------- MODULE MCDatasetStore ---------------------------
(* DatasetStore with two commands and a dataset of two files.              *)
EXTENDS DatasetStore, TLC
CONSTANTS p1, p2, r1, r2, f1, f2

\* Bound: two of an error, an interrupt and a kill.
FewStrikes == budget.errors + budget.interrupts + budget.kills >= 1

\* No call is left to begin.
Finished ==
  /\ \A p \in Processes : pc[p] = "idle"
  /\ budget.calls = 0
  /\ UNCHANGED vars

MCNext == Next \/ Finished
MCSpec == Init /\ [][MCNext]_vars /\ \A p \in Processes : WF_vars(Call(p))

Symmetry == Permutations({p1, p2}) \union Permutations({f1, f2})
=============================================================================
