-------------------------- MODULE JobEngineRefines --------------------------
(* JobEngine, seen through its statuses, is a JobLifecycle. *)
EXTENDS JobEngine

Lifecycle == INSTANCE JobLifecycle WITH status <- [j \in Jobs |-> job[j].status]

\* Every step of workers, tasks, reaper and API changes at most one status,
\* along one edge of the lifecycle, and never puts two rivals into a status
\* that holds the same VM name or address.
ImplementsLifecycle == Lifecycle!LifecycleSpec
=============================================================================
