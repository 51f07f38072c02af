------------------------- MODULE GuestIdentityProofs -------------------------
(***************************************************************************)
(* Theorems of GuestIdentity, for any number of stopped attempts.          *)
(***************************************************************************)
EXTENDS GuestIdentity, TLAPS

\* Add-Computer is called for a guest that is no member, and makes it one.
JoinInv ==
    /\ joins = IF guest.member THEN 1 ELSE 0
    /\ pc = "add" => ~guest.member

\* A guest that is down has no restart scheduled, and the boot time that
\* reboot_guest has read is that of the guest it schedules the restart on.
BootInv ==
    /\ guest.due => guest.up
    /\ pc = "schedule" /\ guest.up => seen = guest.boots

\* Where the restart of a joining guest may be scheduled, and which start
\* wait_guest_ready compares with.
RestartInv ==
    join.requested =>
        /\ ~changed /\ pc # "rename"
        /\ stage \in {"configure_hostname", "join_domain"} => ~guest.due
        /\ stage = "reboot_guest" /\ (guest.due \/ pc = "schedule")
             => join.joined /\ join.reboot_required
        /\ stage = "wait_guest_ready" /\ guest.due
             => reboot.succeeded /\ guest.boots = reboot.boot_time

IdentityInv ==
    TypeOK /\ JoinInv /\ BootInv /\ RestartInv /\ NoRestartAhead /\ CompletedIsJoined

\* What each change of Windows leaves of its state.
LEMMA RenamedGuest ==
  ASSUME NEW g \in Guest
  PROVE  /\ Renamed(g) \in Guest
         /\ Renamed(g).up = g.up /\ Renamed(g).due = g.due /\ Renamed(g).boots = g.boots
         /\ Renamed(g).member = g.member
  BY DEF Renamed, Guest, Names

\* A join changes the membership only.
LEMMA JoinedGuest ==
  ASSUME NEW g \in Guest, NEW r \in BOOLEAN
  PROVE  /\ Joined(g, r) \in Guest
         /\ Joined(g, r).up = g.up /\ Joined(g, r).due = g.due /\ Joined(g, r).boots = g.boots
         /\ Joined(g, r).member
  BY DEF Joined, Guest, Names

\* A restart that is scheduled.
LEMMA ScheduledGuest ==
  ASSUME NEW g \in Guest
  PROVE  /\ Scheduled(g) \in Guest
         /\ Scheduled(g).up = g.up /\ Scheduled(g).due /\ Scheduled(g).boots = g.boots
         /\ Scheduled(g).member = g.member
  BY DEF Scheduled, Guest, Names

\* A guest that goes down.
LEMMA DownGuest ==
  ASSUME NEW g \in Guest
  PROVE  /\ Down(g) \in Guest
         /\ ~Down(g).up /\ ~Down(g).due
         /\ Down(g).name = g.name /\ Down(g).set = g.set
         /\ Down(g).member = g.member /\ Down(g).pendingJoin = g.pendingJoin
  BY DEF Down, Guest, Names

\* A guest that has started.
LEMMA StartedGuest ==
  ASSUME NEW g \in Guest
  PROVE  /\ Started(g) \in Guest
         /\ Started(g).up /\ Started(g).due = g.due
         /\ Started(g).name = g.set /\ Started(g).set = g.set
         /\ Started(g).member = g.member /\ ~Started(g).pendingJoin
<1>1. g.boots + 1 \in Nat
  BY DEF Guest
<1> QED
  BY <1>1 DEF Started, Guest, Names

\* The artifacts of join_domain.
LEMMA JoinArtifacts ==
  ASSUME NEW s \in JoinStep, NEW b \in BOOLEAN
  PROVE  LET t == [s EXCEPT !.joined = TRUE, !.reboot_required = b]
         IN  t \in JoinStep /\ t.requested = s.requested /\ t.joined /\ t.reboot_required = b
  BY DEF JoinStep

\* A guest that Windows Setup has left.
LEMMA InitIdentity == Init => IdentityInv
<1> SUFFICES ASSUME Init PROVE IdentityInv
  OBVIOUS
<1>1. PICK n \in Names :
        guest = [up |-> TRUE, due |-> FALSE, boots |-> 0, name |-> n, set |-> n,
                 member |-> FALSE, pendingJoin |-> FALSE]
  BY DEF Init
<1>2. guest \in Guest /\ guest.due = FALSE /\ guest.up = TRUE /\ guest.member = FALSE
  BY <1>1 DEF Guest
<1>3. join \in JoinStep
  BY DEF Init, JoinStep
<1>4. reboot \in RebootStep
  BY DEF Init, RebootStep
<1>5. TypeOK
  BY <1>2, <1>3, <1>4 DEF Init, TypeOK, StageNames, Pcs
<1> QED
  BY <1>2, <1>5
  DEF Init, IdentityInv, JoinInv, BootInv, RestartInv, NoRestartAhead, CompletedIsJoined

\* The type invariant is inductive by itself.
LEMMA TypeStep == TypeOK /\ [Next]_vars => TypeOK'
<1> SUFFICES ASSUME TypeOK, [Next]_vars PROVE TypeOK'
  OBVIOUS
<1>a. aborts + 1 \in Nat /\ joins + 1 \in Nat
  BY DEF TypeOK
<1> USE DEF TypeOK, StageNames, Pcs
<1>b. ASSUME Interrupted
      PROVE  stage' \in StageNames /\ pc' \in Pcs /\ told' \in BOOLEAN /\ aborts' \in Nat
  BY <1>a, <1>b DEF Interrupted
<1>1. CASE Abort
  BY <1>1, <1>b DEF Abort
<1>0. CASE Retry \/ GuestUnavailable
  BY <1>0 DEF Retry, GuestUnavailable, Continue, Fail
<1>2. CASE HostnameLeftToJoin \/ ProbeHostname
  BY <1>2, <1>a DEF HostnameLeftToJoin, ProbeHostname, Advance, Continue
<1>3. CASE RenameComputer
  BY <1>3, <1>b, RenamedGuest DEF RenameComputer, Advance, Fail
<1>4. CASE JoinNotRequested
  BY <1>4 DEF JoinNotRequested, Advance
<1>5. CASE ProbeIdentity
  BY <1>5, JoinArtifacts DEF ProbeIdentity, Advance, Continue, Fail
<1>6. CASE AddComputer
  <2>1. guest' \in Guest
    BY <1>6, JoinedGuest DEF AddComputer
  <2>2. join' \in JoinStep
    BY <1>6, JoinArtifacts DEF AddComputer
  <2>3. stage' \in StageNames /\ pc' \in Pcs /\ told' \in BOOLEAN /\ aborts' \in Nat
    BY <1>6, <1>b DEF AddComputer, Advance
  <2> QED
    BY <1>6, <1>a, <2>1, <2>2, <2>3 DEF AddComputer
<1>7. CASE RebootNotNeeded
  BY <1>7 DEF RebootNotNeeded, Advance
<1>8. CASE ProbeBootTime
  <2>1. guest.boots \in Nat
    BY DEF Guest
  <2> QED
    BY <1>8, <2>1 DEF ProbeBootTime, Continue
<1>9. CASE ScheduleRestart
  <2>1. [succeeded |-> TRUE, boot_time |-> seen] \in RebootStep
    BY DEF RebootStep
  <2> QED
    BY <1>9, <1>b, <2>1, ScheduledGuest DEF ScheduleRestart, Advance, Fail
<1>10. CASE NotRestarted \/ GuestRestarted \/ GuestAnswers
  BY <1>10 DEF NotRestarted, GuestRestarted, GuestAnswers, Advance
<1>11. CASE ValidateIdentity \/ ValidateWithoutIdentity
  BY <1>11 DEF ValidateIdentity, ValidateWithoutIdentity, Advance, Fail
<1>12. CASE GoDown \/ RestartByHand
  BY <1>12, DownGuest DEF GoDown, RestartByHand
<1>13. CASE ComeUp
  BY <1>13, StartedGuest DEF ComeUp
<1>14. CASE UNCHANGED vars
  BY <1>14 DEF vars
<1> QED
  BY <1>0, <1>1, <1>2, <1>3, <1>4, <1>5, <1>6, <1>7, <1>8, <1>9, <1>10, <1>11, <1>12, <1>13, <1>14
  DEF Next, Handler

\* Every step keeps the invariant.
LEMMA IdentityStep == IdentityInv /\ [Next]_vars => IdentityInv'
<1> SUFFICES ASSUME IdentityInv, [Next]_vars
             PROVE JoinInv' /\ BootInv' /\ RestartInv' /\ NoRestartAhead' /\ CompletedIsJoined'
  BY TypeStep DEF IdentityInv
<1> USE DEF IdentityInv, TypeOK, JoinInv, BootInv, RestartInv, NoRestartAhead, CompletedIsJoined, At
<1>1. CASE Abort \/ Retry \/ GuestUnavailable
  BY <1>1 DEF Abort, Retry, GuestUnavailable, Interrupted, Continue, Fail
<1>2. CASE HostnameLeftToJoin \/ ProbeHostname
  BY <1>2 DEF HostnameLeftToJoin, ProbeHostname, Advance, Continue
<1>3. CASE RenameComputer
  \* configure_hostname renames only a guest that does not join.
  <2>1. guest'.due = guest.due /\ guest'.up = guest.up /\ guest'.boots = guest.boots
        /\ guest'.member = guest.member
    BY <1>3, RenamedGuest DEF RenameComputer
  <2>2. pc' \in {"begin", "stopped"} /\ UNCHANGED <<join, joins, reboot>>
    BY <1>3 DEF RenameComputer, Advance, Fail, Interrupted
  <2>3. ~join.requested
    BY <1>3 DEF RenameComputer
  <2> QED
    BY <2>1, <2>2, <2>3
<1>4. CASE JoinNotRequested
  BY <1>4 DEF JoinNotRequested, Advance
<1>5. CASE ProbeIdentity
  BY <1>5, JoinArtifacts DEF ProbeIdentity, Observations, IdentityPending, Advance, Continue, Fail
<1>6. CASE AddComputer
  <2>1. guest'.due = guest.due /\ guest'.up = guest.up /\ guest'.boots = guest.boots
        /\ guest'.member
    <3>1. PICK r \in BOOLEAN : guest' = Joined(guest, r)
      BY <1>6 DEF AddComputer
    <3> QED
      BY <3>1, JoinedGuest
  <2>2. ~guest.member /\ joins = 0 /\ joins' = 1
    BY <1>6 DEF AddComputer
  <2>3. ~guest.due \/ ~join.requested
    BY <1>6 DEF AddComputer
  <2>4. /\ pc' \in {"begin", "stopped"}
        /\ stage' \in {"reboot_guest", "join_domain"}
        /\ UNCHANGED changed
    BY <1>6 DEF AddComputer, Advance, Interrupted
  <2>5. join'.requested = join.requested
    BY <1>6, JoinArtifacts DEF AddComputer
  <2> QED
    BY <2>1, <2>2, <2>3, <2>4, <2>5
<1>7. CASE RebootNotNeeded
  BY <1>7 DEF RebootNotNeeded, RebootNeeded, Advance
<1>8. CASE ProbeBootTime
  BY <1>8 DEF ProbeBootTime, RebootNeeded, Continue
<1>9. CASE ScheduleRestart
  BY <1>9, ScheduledGuest DEF ScheduleRestart, Advance, Fail, Interrupted
<1>10. CASE NotRestarted \/ GuestAnswers
  BY <1>10 DEF NotRestarted, GuestAnswers, Advance
<1>11. CASE GuestRestarted
  BY <1>11 DEF GuestRestarted, Restarted, Advance
<1>12. CASE ValidateIdentity
  BY <1>12 DEF ValidateIdentity, Observations, WindowsIdentityMatches, HasPendingRename, Advance, Fail
<1>13. CASE ValidateWithoutIdentity
  BY <1>13 DEF ValidateWithoutIdentity, Advance
<1>14. CASE GoDown \/ RestartByHand
  BY <1>14, DownGuest DEF GoDown, RestartByHand
<1>15. CASE ComeUp
  BY <1>15, StartedGuest DEF ComeUp
<1>16. CASE UNCHANGED vars
  BY <1>16 DEF vars
<1> QED
  BY <1>1, <1>2, <1>3, <1>4, <1>5, <1>6, <1>7, <1>8, <1>9, <1>10, <1>11, <1>12, <1>13, <1>14,
     <1>15, <1>16
  DEF Next, Handler

\* The inductive invariant holds in every behaviour of the stages.
THEOREM IdentityInvariant == Spec => []IdentityInv
<1>1. Init => IdentityInv
  BY InitIdentity
<1>2. IdentityInv /\ [Next]_vars => IdentityInv'
  BY IdentityStep
<1> QED
  BY <1>1, <1>2, PTL DEF Spec

\* Guest, artifacts and step stay of their types through every stage.
THEOREM TypeCorrect == Spec => []TypeOK
<1>1. IdentityInv => TypeOK
  BY DEF IdentityInv
<1> QED
  BY <1>1, IdentityInvariant, PTL

\* Add-Computer takes effect at most once per job (stage_join_domain).
THEOREM JoinsAtMostOnce == Spec => []JoinedOnce
<1>1. IdentityInv => JoinedOnce
  BY DEF IdentityInv, JoinInv, JoinedOnce
<1> QED
  BY <1>1, IdentityInvariant, PTL

\* No restart is scheduled once stage_wait_guest_ready is done for a joining guest.
THEOREM RestartsAreOver == Spec => []NoRestartAhead
<1>1. IdentityInv => NoRestartAhead
  BY DEF IdentityInv
<1> QED
  BY <1>1, IdentityInvariant, PTL

\* stage_final_validation lets a joining job complete only with its identity.
THEOREM CompletedJobsAreJoined == Spec => []CompletedIsJoined
<1>1. IdentityInv => CompletedIsJoined
  BY DEF IdentityInv
<1> QED
  BY <1>1, IdentityInvariant, PTL
=============================================================================
