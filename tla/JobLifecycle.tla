---------------------------- MODULE JobLifecycle ----------------------------
(***************************************************************************)
(* What the rest of the system may rely on about a job: its status and     *)
(* nothing else.  JobEngine implements this specification when users wait  *)
(* for the task of a job to end before they retry it.                      *)
(***************************************************************************)
CONSTANTS
    Jobs,
    Clash   \* Clash[j]: jobs with j's VM name or static IPv4 address

VARIABLE status

LifecycleInit == status = [j \in Jobs |-> "ABSENT"]

Holding == {"QUEUED", "RUNNING", "INTERRUPTED"}

\* Nobody else holds j's name or address.
Free(j) == \A k \in Clash[j] : status[k] \notin Holding

Become(j, new) == status' = [status EXCEPT ![j] = new]

Submitted(j) == status[j] = "ABSENT" /\ Free(j) /\ Become(j, "QUEUED")

Claimed(j) == status[j] = "QUEUED" /\ Become(j, "RUNNING")

Ended(j) ==
    /\ status[j] = "RUNNING"
    /\ \E new \in {"COMPLETED", "PARTIALLY_COMPLETED", "FAILED", "CANCELLED"} : Become(j, new)

Parked(j) == status[j] = "RUNNING" /\ Become(j, "INTERRUPTED")

CancelledUnclaimed(j) == status[j] \in {"QUEUED", "INTERRUPTED"} /\ Become(j, "CANCELLED")

\* An INTERRUPTED job already holds its name; the others have to win it back.
Requeued(j) ==
    /\ status[j] \in {"FAILED", "PARTIALLY_COMPLETED", "CANCELLED", "INTERRUPTED"}
    /\ Free(j)
    /\ Become(j, "QUEUED")

\* A cancellation that hits the last stage is followed by _finalize_success.
CompletedAfterCancel(j) == status[j] = "CANCELLED" /\ Become(j, "COMPLETED")

LifecycleNext ==
    \E j \in Jobs :
        \/ Submitted(j) \/ Claimed(j) \/ Ended(j) \/ Parked(j)
        \/ CancelledUnclaimed(j) \/ Requeued(j) \/ CompletedAfterCancel(j)

LifecycleSpec == LifecycleInit /\ [][LifecycleNext]_status
=============================================================================
