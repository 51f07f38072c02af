---------------------------- MODULE MCJobEngine -----------------------------
(* Instances of JobEngine for TLC. *)
EXTENDS JobEngineRefines, TLC

\* No two jobs share a VM name or an address.
NoClash == [j \in Jobs |-> {}]

\* All jobs compete for one VM name.
AllClash == [j \in Jobs |-> Jobs \ {j}]

\* A worker may crash at any point, or at any but the removal of media after
\* an interruption.
AnyPoint == Pcs
AnyButRelease == Pcs \ {"releasing", "released"}

\* Workers, task slots and clients are interchangeable; jobs are when Clash
\* treats them alike.
Symmetry ==
    Permutations(Workers) \cup Permutations(Runs) \cup Permutations(Clients)
=============================================================================
