----------------------------- MODULE Submission -----------------------------
(***************************************************************************)
(* submit_provisioning under concurrency: requests that carry the same     *)
(* Idempotency-Key, VM name or static IPv4 address look the database up,   *)
(* run the preflight for seconds, and only then insert.  PostgreSQL runs   *)
(* READ COMMITTED: every query sees what is committed when it runs.        *)
(*                                                                         *)
(* A job is named after the request that created it and keeps its          *)
(* attributes.  What happens to it later is reduced to what matters here:  *)
(* it ends, releasing its name and address, or a retry wins them back.     *)
(***************************************************************************)
CONSTANTS
    Requests,
    Legacy,   \* requests answered before jobs stored a fingerprint
    Key,      \* Key[r]: the Idempotency-Key of r, or NoKey
    VmName,   \* VmName[r]: vm_name folded to lower case, as the index sees it
    Ipv4,     \* Ipv4[r]: the address that r reserves, or NoIpv4 (DHCP)
    User,     \* User[r]: who sends r
    Body,     \* Body[r]: the canonical request body (the fingerprint)
    NoKey,
    NoIpv4

ASSUME AttributesAssumption ==
    /\ Legacy \subseteq Requests
    /\ DOMAIN Key = Requests
    /\ DOMAIN VmName = Requests
    /\ DOMAIN Ipv4 = Requests
    /\ DOMAIN User = Requests
    /\ DOMAIN Body = Requests
    \* The body names the VM and the address; migration 0007 could not reserve
    \* every address of a legacy job.
    /\ \A r, q \in Requests \ Legacy :
           Body[r] = Body[q] => VmName[r] = VmName[q] /\ Ipv4[r] = Ipv4[q]

VARIABLES
    jobs,    \* jobs[r]: the job request r created: "none", "active" or "ended"
    pc,      \* what request r does next
    answer   \* answer[r]: [kind, job] once r is answered

vars == <<jobs, pc, answer>>

Pcs == {"idle", "lookup", "name", "ipv4", "preflight", "insert", "answered"}

\* 201, 200, 409, 422 for a reused key, 422 for a blocked preflight.
Kinds == {"none", "created", "replayed", "conflict", "key_reused", "blocked"}

NoAnswer(r) == [kind |-> "none", job |-> r]

TypeOK ==
    /\ jobs \in [Requests -> {"none", "active", "ended"}]
    /\ pc \in [Requests -> Pcs]
    /\ answer \in [Requests -> [kind : Kinds, job : Requests]]

SameKey(r, q) == Key[r] # NoKey /\ Key[r] = Key[q]

SameIpv4(r, q) == Ipv4[r] # NoIpv4 /\ Ipv4[r] = Ipv4[q]

\* The jobs a request collides with.
JobsWithKey(r) == {q \in Requests : jobs[q] # "none" /\ SameKey(r, q)}

ActiveWithName(r) == {q \in Requests \ {r} : jobs[q] = "active" /\ VmName[q] = VmName[r]}

ActiveWithIpv4(r) == {q \in Requests \ {r} : jobs[q] = "active" /\ SameIpv4(r, q)}

\* The legacy jobs are there, request_fingerprint NULL, and the indexes hold
\* of them: the migration that adds the column creates them.
Init ==
    /\ jobs \in [Requests -> {"none", "active", "ended"}]
    /\ \A r \in Requests : jobs[r] # "none" <=> r \in Legacy
    /\ \A r \in Legacy : JobsWithKey(r) \subseteq {r}
    /\ \A r \in Legacy : jobs[r] = "active" => ActiveWithName(r) = {} /\ ActiveWithIpv4(r) = {}
    /\ pc = [r \in Requests |-> IF r \in Legacy THEN "answered" ELSE "idle"]
    /\ answer = [r \in Requests |-> NoAnswer(r)]

-----------------------------------------------------------------------------

Goto(r, next) == pc' = [pc EXCEPT ![r] = next]

Answer(r, kind, q) ==
    /\ Goto(r, "answered")
    /\ answer' = [answer EXCEPT ![r] = [kind |-> kind, job |-> q]]

\* Seeded fault: the stored user and body are not compared.
ReplayAnything(r, q) == Answer(r, "replayed", q)

\* _check_idempotent_replay: the same user and body get the original job.  A
\* legacy job has no fingerprint to compare, and any body gets it.
CheckIdempotentReplay(r, q) ==
    IF User[q] = User[r] /\ (q \in Legacy \/ Body[q] = Body[r])
    THEN Answer(r, "replayed", q)
    ELSE Answer(r, "key_reused", r)

Send(r) ==
    /\ pc[r] = "idle"
    /\ Goto(r, "lookup")
    /\ UNCHANGED <<jobs, answer>>

LookupKey(r) ==
    /\ pc[r] = "lookup"
    /\ \/ \E q \in JobsWithKey(r) : CheckIdempotentReplay(r, q)
       \/ JobsWithKey(r) = {} /\ Goto(r, "name") /\ UNCHANGED answer
    /\ UNCHANGED jobs

CheckName(r) ==
    /\ pc[r] = "name"
    /\ IF ActiveWithName(r) # {}
       THEN Answer(r, "conflict", r)
       ELSE Goto(r, "ipv4") /\ UNCHANGED answer
    /\ UNCHANGED jobs

CheckIpv4(r) ==
    /\ pc[r] = "ipv4"
    /\ IF ActiveWithIpv4(r) # {}
       THEN Answer(r, "conflict", r)
       ELSE Goto(r, "preflight") /\ UNCHANGED answer
    /\ UNCHANGED jobs

Preflight(r) ==
    /\ pc[r] = "preflight"
    /\ \/ Answer(r, "blocked", r)
       \/ Goto(r, "insert") /\ UNCHANGED answer
    /\ UNCHANGED jobs

\* Seeded fault: the name index covers queued and running jobs of this
\* request's own user only.
RejectedPerUser(r) ==
    \/ \E q \in ActiveWithName(r) : User[q] = User[r]
    \/ ActiveWithIpv4(r) # {}

\* The partial unique indexes.
Rejected(r) == ActiveWithName(r) # {} \/ ActiveWithIpv4(r) # {}

\* Seeded fault: the unique constraint on the key is missing.
KeyNeverRejected(r) == {}

\* The unique constraint on idempotency_key.
RejectedByKey(r) == JobsWithKey(r)

\* The INSERT, up to the commit.  The constraint on the key is the older
\* index and is reported first.
Insert(r) ==
    /\ pc[r] = "insert"
    /\ \/ \E q \in RejectedByKey(r) : CheckIdempotentReplay(r, q) /\ UNCHANGED jobs
       \/ RejectedByKey(r) = {} /\ Rejected(r) /\ Answer(r, "conflict", r) /\ UNCHANGED jobs
       \/ /\ RejectedByKey(r) = {} /\ ~Rejected(r)
          /\ jobs' = [jobs EXCEPT ![r] = "active"]
          /\ Answer(r, "created", r)

\* The job reaches a terminal status.
EndJob(r) ==
    /\ jobs[r] = "active"
    /\ jobs' = [jobs EXCEPT ![r] = "ended"]
    /\ UNCHANGED <<pc, answer>>

\* retry_stages requeues the job unless the indexes reject it.
RetryJob(r) ==
    /\ jobs[r] = "ended"
    /\ ~Rejected(r)
    /\ jobs' = [jobs EXCEPT ![r] = "active"]
    /\ UNCHANGED <<pc, answer>>

Next ==
    \E r \in Requests :
        \/ Send(r) \/ LookupKey(r) \/ CheckName(r) \/ CheckIpv4(r)
        \/ Preflight(r) \/ Insert(r) \/ EndJob(r) \/ RetryJob(r)

Spec == Init /\ [][Next]_vars

-----------------------------------------------------------------------------
(* Properties *)

\* Two active jobs never hold one VM name or one static address, whatever
\* order lookups, preflights, inserts and retries come in.
ReservationsAreExclusive ==
    \A r, q \in Requests :
        r # q /\ jobs[r] = "active" /\ jobs[q] = "active" =>
            VmName[r] # VmName[q] /\ ~SameIpv4(r, q)

\* An Idempotency-Key creates at most one job, ever.
KeyCreatesOneJob ==
    \A r, q \in Requests :
        SameKey(r, q) /\ jobs[r] # "none" /\ jobs[q] # "none" => r = q

\* A replay answers with a job that exists, has the key of the request and
\* was submitted by the same user with the same body, which can be told of
\* every job but a legacy one.
ReplaysAreFaithful ==
    \A r \in Requests :
        answer[r].kind = "replayed" =>
            LET q == answer[r].job IN
            /\ jobs[q] # "none"
            /\ SameKey(r, q)
            /\ User[q] = User[r]
            /\ q \in Legacy \/ Body[q] = Body[r]
=============================================================================
