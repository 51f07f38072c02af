---------------------------- MODULE GuestIdentity ----------------------------
(***************************************************************************)
(* The stages of workers/stages.py that give Windows its computer name and *)
(* domain: configure_hostname, join_domain, reboot_guest, wait_guest_ready *)
(* and final_validation, with the guest they act on and the retries of the *)
(* user.  An attempt may stop at any await (error, timeout, cancellation,  *)
(* crash); a retry starts the stage again with a new JobRunContext.        *)
(*                                                                         *)
(* Names and domains are abstracted to "want" (as requested) and "other".  *)
(* A boot time is the number of boots.                                     *)
(***************************************************************************)
EXTENDS Naturals

CONSTANTS
    MaxAborts        \* bound on calls that fail for reasons outside the model

ASSUME IdentityAssumption == MaxAborts \in Nat

VARIABLES
    guest,    \* Windows: active name, name in the registry, membership, boots
    stage,    \* the first stage that is not done, "completed" when all are
    pc,       \* the await of the handler, "stopped" without a running attempt
    seen,     \* the boot time the handler read
    renames,  \* join_domain passes -NewName
    changed,  \* ctx.hostname_changed
    join,     \* the request's domain_join and the artifacts of the stage
    reboot,   \* reboot_guest: its status and its boot_time artifact
    told,     \* the last failure recommends to restart the guest
    aborts,
    joins     \* history: executions of Add-Computer that changed the domain

vars == <<guest, stage, pc, seen, renames, changed, join, reboot, told, aborts, joins>>

StageNames == {"configure_hostname", "join_domain", "reboot_guest",
               "wait_guest_ready", "final_validation", "completed"}

Pcs == {"stopped", "begin", "rename", "add", "schedule"}

Names == {"want", "other"}

Guest == [up : BOOLEAN, due : BOOLEAN, boots : Nat, name : Names, set : Names,
          member : BOOLEAN, pendingJoin : BOOLEAN]

JoinStep == [requested : BOOLEAN, joined : BOOLEAN, reboot_required : BOOLEAN]

RebootStep == [succeeded : BOOLEAN, boot_time : Nat]

\* What the type invariant says: the shape of the state.
TypeOK ==
    /\ guest \in Guest
    /\ stage \in StageNames
    /\ pc \in Pcs
    /\ seen \in Nat
    /\ renames \in BOOLEAN
    /\ changed \in BOOLEAN
    /\ join \in JoinStep
    /\ reboot \in RebootStep
    /\ told \in BOOLEAN
    /\ aborts \in Nat
    /\ joins \in Nat

\* Windows was installed by the answer file, which usually set the name.
Init ==
    /\ \E n \in Names :
         guest = [up |-> TRUE, due |-> FALSE, boots |-> 0, name |-> n, set |-> n,
                  member |-> FALSE, pendingJoin |-> FALSE]
    /\ stage = "configure_hostname"
    /\ pc = "begin"
    /\ seen = 0
    /\ renames = FALSE
    /\ changed = FALSE
    /\ join \in [requested : BOOLEAN, joined : {FALSE}, reboot_required : {FALSE}]
    /\ reboot = [succeeded |-> FALSE, boot_time |-> 0]
    /\ told = FALSE
    /\ aborts = 0
    /\ joins = 0

-----------------------------------------------------------------------------
(* What happens to Windows *)

\* Rename-Computer: the name is active after the next start.
Renamed(g) == [g EXCEPT !.set = "want"]

\* The FQDN is passed as -NewName.
JoinedAs(g, rename) ==
    [g EXCEPT !.member = TRUE, !.pendingJoin = TRUE, !.set = IF rename THEN "fqdn" ELSE @]

\* The membership and the name that Add-Computer leaves to the restart.
Joined(g, rename) ==
    [g EXCEPT !.member = TRUE, !.pendingJoin = TRUE, !.set = IF rename THEN "want" ELSE @]

\* shutdown.exe /r /t 10
Scheduled(g) == [g EXCEPT !.due = TRUE]

Down(g) == [g EXCEPT !.up = FALSE, !.due = FALSE]

Started(g) ==
    [g EXCEPT !.up = TRUE, !.boots = @ + 1, !.name = g.set, !.pendingJoin = FALSE]

-----------------------------------------------------------------------------
(* How an attempt moves, fails and is retried *)

At(s, p) == stage = s /\ pc = p

\* The handler returns an outcome; the pipeline goes on with the next stage.
Advance(next) ==
    /\ stage' = next
    /\ pc' = "begin"
    /\ told' = FALSE
    /\ UNCHANGED aborts

Continue(p) == pc' = p /\ UNCHANGED <<stage, told, aborts>>

\* The handler raises after what it has observed.
Fail(advice) == pc' = "stopped" /\ told' = advice /\ UNCHANGED <<stage, aborts>>

\* The attempt ends for a reason outside the model.
Interrupted ==
    /\ aborts < MaxAborts
    /\ aborts' = aborts + 1
    /\ pc' = "stopped"
    /\ told' = FALSE
    /\ UNCHANGED stage

Abort ==
    /\ pc # "stopped" /\ stage # "completed"
    /\ Interrupted
    /\ UNCHANGED <<guest, seen, renames, changed, join, reboot, joins>>

\* Guest operations raise while VMware Tools does not run; only the wait for
\* the restart expects that.
GuestUnavailable ==
    /\ ~guest.up /\ pc # "stopped"
    /\ stage \notin {"wait_guest_ready", "completed"}
    /\ Fail(FALSE)
    /\ UNCHANGED <<guest, seen, renames, changed, join, reboot, joins>>

\* The pipeline starts again at the stage that is not done, with a new context.
Retry ==
    /\ pc = "stopped"
    /\ Continue("begin")
    /\ changed' = FALSE
    /\ UNCHANGED <<guest, seen, renames, join, reboot, joins>>

-----------------------------------------------------------------------------
(* configure_hostname *)

\* The join applies the name, no guest call is made.
HostnameLeftToJoin ==
    /\ At("configure_hostname", "begin") /\ join.requested
    /\ Advance("join_domain")
    /\ UNCHANGED <<guest, seen, renames, changed, join, reboot, joins>>

\* $env:COMPUTERNAME is the active name; a probe that exits with an error
\* counts as a different name.
ProbeHostname ==
    /\ At("configure_hostname", "begin") /\ ~join.requested /\ guest.up
    /\ \/ guest.name = "want" /\ Advance("join_domain")
       \/ guest.name # "want" /\ Continue("rename")
       \/ /\ aborts < MaxAborts
          /\ aborts' = aborts + 1
          /\ pc' = "rename"
          /\ UNCHANGED <<stage, told>>
    /\ UNCHANGED <<guest, seen, renames, changed, join, reboot, joins>>

\* Rename-Computer refuses the active name; its answer may be lost after it
\* took effect.
RenameComputer ==
    /\ At("configure_hostname", "rename") /\ guest.up
    /\ \/ guest.name = "want" /\ Fail(FALSE) /\ UNCHANGED <<guest, changed>>
       \/ /\ guest.name # "want"
          /\ guest' = Renamed(guest)
          /\ \/ Advance("join_domain") /\ changed' = TRUE
             \/ Interrupted /\ UNCHANGED changed
    /\ UNCHANGED <<seen, renames, join, reboot, joins>>

-----------------------------------------------------------------------------
(* join_domain *)

JoinNotRequested ==
    /\ At("join_domain", "begin") /\ ~join.requested
    /\ Advance("reboot_guest")
    /\ UNCHANGED <<guest, seen, renames, changed, join, reboot, joins>>

\* probe_windows_identity.  What Windows says of its name and membership
\* between Add-Computer and the restart is left open.
Observations ==
    {o \in [name : Names, active : Names, set : Names, member : BOOLEAN, pendingJoin : BOOLEAN] :
        /\ o.name \in {guest.name, guest.set}
        /\ o.active = guest.name
        /\ o.set = guest.set
        /\ o.pendingJoin = guest.pendingJoin
        /\ guest.pendingJoin \/ o.member = guest.member}

HasPendingRename(o) == o.active # o.set

\* A probe that reads no pending changes at all.
NothingIsPending(o) == FALSE

IdentityPending(o) == HasPendingRename(o) \/ o.pendingJoin \/ o.name # o.active

\* Membership of the domain is taken for the whole identity.
MembershipMatches(o) == o.member /\ ~o.pendingJoin

WindowsIdentityMatches(o) ==
    /\ o.member
    /\ o.name = "want"
    /\ ~HasPendingRename(o)
    /\ ~o.pendingJoin

ProbeIdentity ==
    /\ At("join_domain", "begin") /\ join.requested /\ guest.up
    /\ \E o \in Observations :
         \/ /\ IdentityPending(o)
            /\ Fail(TRUE)
            /\ UNCHANGED <<renames, join>>
         \/ /\ ~IdentityPending(o) /\ WindowsIdentityMatches(o)
            /\ join' = [join EXCEPT !.joined = TRUE, !.reboot_required = FALSE]
            /\ Advance("reboot_guest")
            /\ UNCHANGED renames
         \/ /\ ~IdentityPending(o) /\ ~WindowsIdentityMatches(o) /\ o.member
            /\ Fail(FALSE)
            /\ UNCHANGED <<renames, join>>
         \/ /\ ~IdentityPending(o) /\ ~o.member
            /\ renames' = (o.name # "want")
            /\ Continue("add")
            /\ UNCHANGED join
    /\ UNCHANGED <<guest, seen, changed, reboot, joins>>

\* Add-Computer: completes, or its answer is lost, or it joins and then
\* reports that the rename failed.
AddComputer ==
    /\ At("join_domain", "add") /\ guest.up
    /\ joins' = joins + 1
    /\ \/ /\ guest' = Joined(guest, renames)
          /\ \/ /\ join' = [join EXCEPT !.joined = TRUE, !.reboot_required = TRUE]
                /\ Advance("reboot_guest")
             \/ Interrupted /\ UNCHANGED join
       \/ /\ renames
          /\ guest' = Joined(guest, FALSE)
          /\ Interrupted
          /\ UNCHANGED join
    /\ UNCHANGED <<seen, renames, changed, reboot>>

-----------------------------------------------------------------------------
(* reboot_guest *)

\* Only a rename by configure_hostname asks for a restart.
RenameNeedsReboot == changed

RebootNeeded == changed \/ (join.joined /\ join.reboot_required)

RebootNotNeeded ==
    /\ At("reboot_guest", "begin") /\ ~RebootNeeded
    /\ Advance("wait_guest_ready")
    /\ UNCHANGED <<guest, seen, renames, changed, join, reboot, joins>>

\* guest_boot_time
ProbeBootTime ==
    /\ At("reboot_guest", "begin") /\ RebootNeeded /\ guest.up
    /\ seen' = guest.boots
    /\ Continue("schedule")
    /\ UNCHANGED <<guest, renames, changed, join, reboot, joins>>

\* schedule_guest_restart: shutdown.exe refuses a second scheduled restart.
ScheduleRestart ==
    /\ At("reboot_guest", "schedule") /\ guest.up
    /\ \/ guest.due /\ Fail(TRUE) /\ UNCHANGED <<guest, reboot>>
       \/ /\ ~guest.due
          /\ guest' = Scheduled(guest)
          /\ \/ /\ reboot' = [succeeded |-> TRUE, boot_time |-> seen]
                /\ Advance("wait_guest_ready")
             \/ Interrupted /\ UNCHANGED reboot
    /\ UNCHANGED <<seen, renames, changed, join, joins>>

-----------------------------------------------------------------------------
(* wait_guest_ready *)

NotRestarted ==
    /\ At("wait_guest_ready", "begin") /\ ~join.joined /\ ~reboot.succeeded
    /\ Advance("final_validation")
    /\ UNCHANGED <<guest, seen, renames, changed, join, reboot, joins>>

\* Any answer of the guest ends the wait.
Answers == guest.up

\* wait_for_guest_restart: a later start than the one recorded.
Restarted == guest.up /\ guest.boots # reboot.boot_time

GuestRestarted ==
    /\ At("wait_guest_ready", "begin") /\ reboot.succeeded
    /\ Restarted
    /\ Advance("final_validation")
    /\ UNCHANGED <<guest, seen, renames, changed, join, reboot, joins>>

\* Without a recorded boot time the first answer counts.
GuestAnswers ==
    /\ At("wait_guest_ready", "begin") /\ join.joined /\ ~reboot.succeeded
    /\ guest.up
    /\ Advance("final_validation")
    /\ UNCHANGED <<guest, seen, renames, changed, join, reboot, joins>>

-----------------------------------------------------------------------------
(* final_validation: the identity is probed only if a join was requested *)

ValidateIdentity ==
    /\ At("final_validation", "begin") /\ join.requested /\ guest.up
    /\ \E o \in Observations :
         IF WindowsIdentityMatches(o) THEN Advance("completed") ELSE Fail(FALSE)
    /\ UNCHANGED <<guest, seen, renames, changed, join, reboot, joins>>

ValidateWithoutIdentity ==
    /\ At("final_validation", "begin") /\ ~join.requested /\ guest.up
    /\ Advance("completed")
    /\ UNCHANGED <<guest, seen, renames, changed, join, reboot, joins>>

-----------------------------------------------------------------------------
(* Windows, and the user who restarts it when a failure says so *)

GoDown ==
    /\ guest.up /\ guest.due
    /\ guest' = Down(guest)
    /\ UNCHANGED <<stage, pc, seen, renames, changed, join, reboot, told, aborts, joins>>

\* Starting takes longer than the code takes from one guest call to the next,
\* so a call that follows another one finds the guest down.
ComeUp ==
    /\ ~guest.up /\ pc \in {"stopped", "begin"}
    /\ guest' = Started(guest)
    /\ UNCHANGED <<stage, pc, seen, renames, changed, join, reboot, told, aborts, joins>>

RestartByHand ==
    /\ pc = "stopped" /\ told /\ guest.up
    /\ guest' = Down(guest)
    /\ told' = FALSE
    /\ UNCHANGED <<stage, pc, seen, renames, changed, join, reboot, aborts, joins>>

-----------------------------------------------------------------------------

Handler ==
    \/ GuestUnavailable
    \/ HostnameLeftToJoin \/ ProbeHostname \/ RenameComputer
    \/ JoinNotRequested \/ ProbeIdentity \/ AddComputer
    \/ RebootNotNeeded \/ ProbeBootTime \/ ScheduleRestart
    \/ NotRestarted \/ GuestRestarted \/ GuestAnswers
    \/ ValidateIdentity \/ ValidateWithoutIdentity

Next == Handler \/ Abort \/ Retry \/ GoDown \/ ComeUp \/ RestartByHand

Spec == Init /\ [][Next]_vars

\* Stages have timeouts and Windows restarts when told to; the user retries
\* and, sooner or later, restarts the guest as the failure recommends.
FairSpec ==
    /\ Spec
    /\ WF_vars(Handler)
    /\ WF_vars(GoDown)
    /\ WF_vars(ComeUp)
    /\ WF_vars(Retry)
    /\ SF_vars(RestartByHand)

-----------------------------------------------------------------------------
(* Properties *)

\* However often join_domain is stopped and retried, Add-Computer changes the
\* domain once: a join whose answer was lost is recognised by the identity
\* probe (stages.py, "InfraOps did not make another Active Directory change").
JoinedOnce == joins <= 1

\* Once wait_guest_ready is done for a joined guest, no restart is ahead: the
\* stages that follow install certificates and applications undisturbed.
NoRestartAhead ==
    join.requested /\ stage \in {"final_validation", "completed"} => ~guest.due

\* A job with a join completes only with the requested name and membership
\* active, whatever half of Add-Computer earlier attempts left behind.
CompletedIsJoined ==
    join.requested /\ stage = "completed" =>
        guest.name = "want" /\ guest.set = "want" /\ guest.member /\ ~guest.pendingJoin

\* docs/vm-deployment-lifecycle.md: COMPLETED means that every requested guest
\* configuration was applied; here the computer name.
CompletedAppliesName == stage = "completed" => guest.name = "want"

\* What the failures recommend resolves them: retries and restarts by hand end
\* in a completed job, unless Add-Computer joined the guest under its old name.
RetriesComplete ==
    <>(stage = "completed" \/ (guest.member /\ guest.set # "want"))
=============================================================================
