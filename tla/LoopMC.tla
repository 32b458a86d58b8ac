------------------------------- MODULE LoopMC -------------------------------
(* Values of the constants of LoopEngine for TLC.                           *)
EXTENDS LoopEngine, TLC

\* Issue 2 depends on issue 1.
Chained == (1 :> {}) @@ (2 :> {1})
\* No dependencies.
Independent == [i \in Issues |-> {}]

\* Each branch name contains the ID of its own issue only.
OwnIDs == {<<i, i>> : i \in Issues}
\* The ID of issue 1 occurs in the branch name of issue 2, as in those of 4 and 47.
OverlappingIDs == OwnIDs \cup {<<2, 1>>}

=============================================================================
