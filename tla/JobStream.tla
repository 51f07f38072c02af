------------------------------ MODULE JobStream ------------------------------
(***************************************************************************)
(* The live view of a job: tickets (auth/stream_tickets.py), the event     *)
(* stream (api/v1/provisioning.py) and the events that the worker and the  *)
(* API publish over Redis (workers/events.py), on top of Sessions.         *)
(*                                                                         *)
(* One tab watches one job.  The job's row is its version; an event makes  *)
(* the client fetch the row again.                                         *)
(***************************************************************************)
EXTENDS Sessions, Sequences

CONSTANTS Jobs, Watched

ASSUME JobStreamAssumption == Watched \in Jobs

VARIABLES
    tickets,     \* Redis keys and what became of them
    stream,      \* the stream of the watching tab, in the API process
    client,      \* what the watching tab shows
    version,     \* commits of the job's row
    pending,     \* publishers that have committed and not yet published
    unheard      \* a change that the client has not read will not be announced

streamVars == <<tickets, stream, client, version, pending, unheard>>

vars == <<sessionVars, streamVars>>

Tickets == 1 .. MaxTickets

\* The worker that runs the job, and the API (retry_stages, cancel_job).
Publishers == {"worker", "api"}

NoStream == [open |-> FALSE, job |-> Watched, subscribed |-> FALSE, snapshot |-> FALSE, unread |-> 0]

TypeOK ==
    /\ SessionsTypeOK
    /\ tickets \in [Tickets -> [state : {"none", "live", "gone"}, job : Jobs, opened : Seq(Jobs)]]
    /\ stream \in [open : BOOLEAN, job : Jobs, subscribed : BOOLEAN, snapshot : BOOLEAN, unread : Nat]
    /\ client \in [view : Nat, refetch : BOOLEAN]
    /\ version \in Nat
    /\ pending \subseteq Publishers /\ unheard \in BOOLEAN

Init ==
    /\ SessionsInit
    /\ tickets = [k \in Tickets |-> [state |-> "none", job |-> Watched, opened |-> <<>>]]
    /\ stream = NoStream
    /\ client = [view |-> 0, refetch |-> FALSE]
    /\ version = 0
    /\ pending = {} /\ unheard = FALSE

-----------------------------------------------------------------------------
(* Tickets *)

\* POST .../events/ticket: get_current_user, then StreamTicketStore.issue.
IssueTicket(t) ==
    /\ access[t] /\ active
    /\ \E k \in Tickets, j \in Jobs :
         /\ k <= plan.tickets
         /\ tickets[k].state = "none" /\ \A i \in Tickets : i < k => tickets[i].state # "none"
         /\ tickets' = [tickets EXCEPT ![k].state = "live", ![k].job = j]
    /\ UNCHANGED <<sessionVars, stream, client, version, pending, unheard>>

\* The access token has expired, or the account is inactive; the tab has to
\* refresh.
TicketDenied(t) ==
    /\ access[t]
    /\ \E k \in Tickets : k <= plan.tickets /\ tickets[k].state = "none"
    /\ access' = [access EXCEPT ![t] = FALSE]
    /\ UNCHANGED <<rows, req, cookie, active, plan, loggedOut, strained, closed>>
    /\ UNCHANGED streamVars

TicketExpires ==
    \E k \in Tickets :
        /\ tickets[k].state = "live"
        /\ tickets' = [tickets EXCEPT ![k].state = "gone"]
        /\ UNCHANGED <<sessionVars, stream, client, version, pending, unheard>>

\* GET without the deletion.
Peek(k) == tickets[k]

\* GETDEL: the ticket is gone, whoever presents it.
Consume(k) == [tickets[k] EXCEPT !.state = "gone"]

\* GET .../events: _user_from_ticket with the ticket of the URL.  A browser
\* that reconnects by itself presents the same ticket again.
OpenStream ==
    \E k \in Tickets, j \in Jobs :
        LET accepted == tickets[k].state = "live" /\ tickets[k].job = j /\ active
        IN /\ tickets[k].state # "none"
           /\ ~stream.open
           /\ tickets' = [tickets EXCEPT ![k] = IF accepted THEN [Consume(k) EXCEPT !.opened = Append(@, j)]
                                                ELSE Consume(k)]
           /\ stream' = IF accepted THEN [NoStream EXCEPT !.open = TRUE, !.job = j] ELSE stream
           /\ UNCHANGED <<sessionVars, client, version, pending, unheard>>

-----------------------------------------------------------------------------
(* event_stream *)

Subscribe ==
    /\ stream.open /\ ~stream.subscribed
    /\ stream' = [stream EXCEPT !.subscribed = TRUE]
    /\ UNCHANGED <<sessionVars, tickets, client, version, pending, unheard>>

\* The snapshot does not wait for the subscription.
SnapshotAtOnce == stream.open /\ ~stream.snapshot

SnapshotNext == stream.subscribed /\ ~stream.snapshot

\* _snapshot_event reads the row in a session of its own.
Snapshot ==
    /\ SnapshotNext
    /\ stream' = [stream EXCEPT !.snapshot = TRUE]
    /\ IF stream.job = Watched THEN client' = [client EXCEPT !.view = version] /\ unheard' = FALSE
       ELSE UNCHANGED <<client, unheard>>
    /\ UNCHANGED <<sessionVars, tickets, version, pending>>

\* An event goes to the client, which schedules a fetch.
Relay ==
    /\ stream.subscribed /\ stream.snapshot /\ stream.unread > 0
    /\ stream' = [stream EXCEPT !.unread = @ - 1]
    /\ client' = [client EXCEPT !.refetch = TRUE]
    /\ UNCHANGED <<sessionVars, tickets, version, pending, unheard>>

Refetch ==
    /\ client.refetch
    /\ client' = [view |-> version, refetch |-> FALSE]
    /\ unheard' = FALSE
    /\ UNCHANGED <<sessionVars, tickets, stream, version, pending>>

\* The deadline ("reauthenticate"), a disconnect, or the end of the process.
StreamEnds ==
    /\ stream.open
    /\ stream' = NoStream
    /\ UNCHANGED <<sessionVars, tickets, client, version, pending, unheard>>

-----------------------------------------------------------------------------
(* Publishers *)

\* Redis keeps no event for a channel without subscribers.
Delivered == IF stream.subscribed /\ stream.job = Watched THEN [stream EXCEPT !.unread = @ + 1] ELSE stream

\* The change of the row is committed before it is announced.
Commit(p) ==
    /\ p \notin pending /\ version < plan.updates
    /\ version' = version + 1
    /\ pending' = pending \cup {p}
    /\ UNCHANGED <<sessionVars, tickets, stream, client, unheard>>

\* Commits without an event of their own: a claim, and the release of the
\* answer media of an interrupted job.
CommitUnannounced ==
    /\ version < plan.updates
    /\ version' = version + 1
    /\ unheard' = TRUE
    /\ UNCHANGED <<sessionVars, tickets, stream, client, pending>>

\* publish swallows every error: an event may be lost.
Publish(p) ==
    /\ p \in pending
    /\ pending' = pending \ {p}
    /\ \/ stream' = Delivered /\ UNCHANGED unheard
       \/ UNCHANGED stream /\ unheard' = TRUE
    /\ UNCHANGED <<sessionVars, tickets, client, version>>

Next ==
    \/ SessionsNext /\ UNCHANGED streamVars
    \/ \E t \in Tabs : IssueTicket(t) \/ TicketDenied(t)
    \/ TicketExpires
    \/ OpenStream
    \/ Subscribe
    \/ Snapshot
    \/ Relay
    \/ Refetch
    \/ StreamEnds
    \/ \E p \in Publishers : Commit(p) \/ Publish(p)
    \/ CommitUnannounced

Spec == Init /\ [][Next]_vars

-----------------------------------------------------------------------------
(* Properties *)

\* "valid for one connection to one job's stream" (auth/stream_tickets.py):
\* a ticket opens at most one stream, and of the job it was issued for.
TicketOpensOneStream ==
    \A k \in Tickets : \/ tickets[k].opened = <<>>
                       \/ tickets[k].opened = <<tickets[k].job>>

\* "so no event published in between is lost" (stream_job_events): a client
\* with a running stream and nothing left to read or fetch shows the current
\* row, unless an event is still to be published, was lost, or the change has
\* none.
QuietViewIsCurrent ==
    /\ stream.subscribed /\ stream.snapshot /\ stream.job = Watched
    /\ stream.unread = 0 /\ ~client.refetch
    /\ pending = {} /\ ~unheard
    => client.view = version
=============================================================================
