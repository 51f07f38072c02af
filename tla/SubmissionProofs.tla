-------------------------- MODULE SubmissionProofs --------------------------
(***************************************************************************)
(* Submission is correct for every set of requests and every assignment of *)
(* keys, names, addresses, users and bodies, legacy jobs included.         *)
(***************************************************************************)
EXTENDS Submission, TLAPS

\* The four invariants together are inductive: replays stay faithful because
\* jobs are never deleted, and the reservations because every step that
\* activates a job goes through the indexes.
Inv ==
    /\ TypeOK
    /\ ReservationsAreExclusive
    /\ KeyCreatesOneJob
    /\ ReplaysAreFaithful

\* Having the same address is symmetric.
LEMMA SameIpv4Symmetric ==
    ASSUME NEW r \in Requests, NEW q \in Requests, SameIpv4(r, q)
    PROVE  SameIpv4(q, r)
BY DEF SameIpv4

\* Answering a request keeps the type of pc and answer, and a replay that was
\* faithful stays so as long as no job disappears.
LEMMA AnswerKeepsType ==
    ASSUME TypeOK, NEW r \in Requests, NEW kind \in Kinds, NEW q \in Requests,
           Answer(r, kind, q)
    PROVE  /\ pc' \in [Requests -> Pcs]
           /\ answer' \in [Requests -> [kind : Kinds, job : Requests]]
           /\ answer'[r].kind = kind
           /\ answer'[r].job = q
           /\ \A p \in Requests \ {r} : answer'[p] = answer[p]
BY DEF TypeOK, Answer, Goto, Pcs

\* _check_idempotent_replay answers with the looked-up job only when user and
\* body agree, so it preserves the invariant while the jobs stay as they are.
LEMMA ReplayKeepsInv ==
    ASSUME Inv, NEW r \in Requests, NEW q \in JobsWithKey(r),
           CheckIdempotentReplay(r, q), UNCHANGED jobs
    PROVE  Inv'
<1>1. q \in Requests /\ jobs[q] # "none" /\ SameKey(r, q)
  BY DEF JobsWithKey
<1>2. CASE User[q] = User[r] /\ (q \in Legacy \/ Body[q] = Body[r])
  <2>1. Answer(r, "replayed", q)
    BY <1>2 DEF CheckIdempotentReplay
  <2>2. /\ TypeOK'
        /\ answer'[r].kind = "replayed" /\ answer'[r].job = q
        /\ \A p \in Requests \ {r} : answer'[p] = answer[p]
    BY <1>1, <2>1, AnswerKeepsType DEF Inv, TypeOK, Kinds
  <2>3. ReplaysAreFaithful'
    BY <1>1, <1>2, <2>2 DEF Inv, ReplaysAreFaithful, SameKey
  <2>. QED  BY <2>2, <2>3 DEF Inv, ReservationsAreExclusive, KeyCreatesOneJob
<1>3. CASE ~(User[q] = User[r] /\ (q \in Legacy \/ Body[q] = Body[r]))
  <2>1. Answer(r, "key_reused", r)
    BY <1>3 DEF CheckIdempotentReplay
  <2>2. /\ TypeOK'
        /\ answer'[r].kind = "key_reused"
        /\ \A p \in Requests \ {r} : answer'[p] = answer[p]
    BY <2>1, AnswerKeepsType DEF Inv, TypeOK, Kinds
  <2>. QED  BY <2>2 DEF Inv, ReservationsAreExclusive, KeyCreatesOneJob, ReplaysAreFaithful
<1>. QED  BY <1>2, <1>3

\* Answering with anything but a replay, with the jobs unchanged.
LEMMA RefusalKeepsInv ==
    ASSUME Inv, NEW r \in Requests, NEW kind \in {"conflict", "blocked"},
           Answer(r, kind, r), UNCHANGED jobs
    PROVE  Inv'
<1>1. /\ TypeOK'
      /\ answer'[r].kind = kind
      /\ \A p \in Requests \ {r} : answer'[p] = answer[p]
  BY AnswerKeepsType DEF Inv, TypeOK, Kinds
<1>. QED  BY <1>1 DEF Inv, ReservationsAreExclusive, KeyCreatesOneJob, ReplaysAreFaithful

\* Moving on without an answer.
LEMMA GotoKeepsInv ==
    ASSUME Inv, NEW r \in Requests, NEW next \in Pcs,
           Goto(r, next), UNCHANGED <<jobs, answer>>
    PROVE  Inv'
BY DEF Inv, TypeOK, Goto, ReservationsAreExclusive, KeyCreatesOneJob, ReplaysAreFaithful

\* A job that becomes active past the indexes keeps the reservations exclusive.
LEMMA ActivationKeepsReservations ==
    ASSUME Inv, NEW r \in Requests, ~Rejected(r),
           jobs' = [jobs EXCEPT ![r] = "active"]
    PROVE  ReservationsAreExclusive'
<1> SUFFICES ASSUME NEW p \in Requests, NEW q \in Requests, p # q,
                    jobs'[p] = "active", jobs'[q] = "active"
             PROVE  VmName[p] # VmName[q] /\ ~SameIpv4(p, q)
  BY DEF ReservationsAreExclusive, SameIpv4
<1>1. \A s \in Requests \ {r} : jobs[s] = "active" => VmName[s] # VmName[r] /\ ~SameIpv4(r, s)
  BY DEF Rejected, ActiveWithName, ActiveWithIpv4
<1>2. \A s \in Requests \ {r} : jobs'[s] = jobs[s]
  BY DEF Inv, TypeOK
<1>3. CASE p = r
  BY <1>1, <1>2, <1>3
<1>4. CASE q = r
  BY <1>1, <1>2, <1>4, SameIpv4Symmetric
<1>5. CASE p # r /\ q # r
  BY <1>2, <1>5 DEF Inv, ReservationsAreExclusive
<1>. QED  BY <1>3, <1>4, <1>5

\* Every step of submit_provisioning and of the job lifecycle preserves Inv.
LEMMA NextKeepsInv ==
    ASSUME Inv, [Next]_vars
    PROVE  Inv'
<1>1. ASSUME NEW r \in Requests, Send(r) PROVE Inv'
  BY <1>1, GotoKeepsInv DEF Send, Pcs
<1>2. ASSUME NEW r \in Requests, LookupKey(r) PROVE Inv'
  <2>1. CASE \E q \in JobsWithKey(r) : CheckIdempotentReplay(r, q)
    BY <1>2, <2>1, ReplayKeepsInv DEF LookupKey
  <2>2. CASE Goto(r, "name") /\ UNCHANGED answer
    BY <1>2, <2>2, GotoKeepsInv DEF LookupKey, Pcs
  <2>. QED  BY <1>2, <2>1, <2>2 DEF LookupKey
<1>3. ASSUME NEW r \in Requests, CheckName(r) PROVE Inv'
  <2>1. CASE Answer(r, "conflict", r)
    BY <1>3, <2>1, RefusalKeepsInv DEF CheckName
  <2>2. CASE Goto(r, "ipv4") /\ UNCHANGED answer
    BY <1>3, <2>2, GotoKeepsInv DEF CheckName, Pcs
  <2>. QED  BY <1>3, <2>1, <2>2 DEF CheckName
<1>4. ASSUME NEW r \in Requests, CheckIpv4(r) PROVE Inv'
  <2>1. CASE Answer(r, "conflict", r)
    BY <1>4, <2>1, RefusalKeepsInv DEF CheckIpv4
  <2>2. CASE Goto(r, "preflight") /\ UNCHANGED answer
    BY <1>4, <2>2, GotoKeepsInv DEF CheckIpv4, Pcs
  <2>. QED  BY <1>4, <2>1, <2>2 DEF CheckIpv4
<1>5. ASSUME NEW r \in Requests, Preflight(r) PROVE Inv'
  <2>1. CASE Answer(r, "blocked", r)
    BY <1>5, <2>1, RefusalKeepsInv DEF Preflight
  <2>2. CASE Goto(r, "insert") /\ UNCHANGED answer
    BY <1>5, <2>2, GotoKeepsInv DEF Preflight, Pcs
  <2>. QED  BY <1>5, <2>1, <2>2 DEF Preflight
<1>6. ASSUME NEW r \in Requests, Insert(r) PROVE Inv'
  <2>1. CASE \E q \in RejectedByKey(r) : CheckIdempotentReplay(r, q) /\ UNCHANGED jobs
    BY <2>1, ReplayKeepsInv DEF RejectedByKey
  <2>2. CASE Answer(r, "conflict", r) /\ UNCHANGED jobs
    BY <2>2, RefusalKeepsInv
  <2>3. CASE /\ RejectedByKey(r) = {} /\ ~Rejected(r)
             /\ jobs' = [jobs EXCEPT ![r] = "active"]
             /\ Answer(r, "created", r)
    <3>1. /\ TypeOK'
          /\ answer'[r].kind = "created"
          /\ \A p \in Requests \ {r} : answer'[p] = answer[p] /\ jobs'[p] = jobs[p]
      BY <2>3, AnswerKeepsType DEF Inv, TypeOK, Kinds
    <3>2. KeyCreatesOneJob'
      <4>1. \A q \in Requests : SameKey(r, q) => jobs[q] = "none"
        BY <2>3 DEF RejectedByKey, JobsWithKey
      <4>. QED  BY <2>3, <3>1, <4>1 DEF Inv, KeyCreatesOneJob, SameKey
    <3>3. \A p \in Requests : jobs[p] # "none" => jobs'[p] # "none"
      BY <2>3, <3>1 DEF Inv, TypeOK
    <3>4. ReplaysAreFaithful'
      BY <3>1, <3>3 DEF Inv, TypeOK, ReplaysAreFaithful, SameKey
    <3>5. ReservationsAreExclusive'
      BY <2>3, ActivationKeepsReservations
    <3>. QED  BY <3>1, <3>2, <3>4, <3>5 DEF Inv
  <2>. QED  BY <1>6, <2>1, <2>2, <2>3 DEF Insert
<1>7. ASSUME NEW r \in Requests, EndJob(r) PROVE Inv'
  BY <1>7 DEF EndJob, Inv, TypeOK, ReservationsAreExclusive, KeyCreatesOneJob,
              ReplaysAreFaithful, SameKey, SameIpv4
<1>8. ASSUME NEW r \in Requests, RetryJob(r) PROVE Inv'
  <2>1. TypeOK' /\ KeyCreatesOneJob' /\ ReplaysAreFaithful'
    BY <1>8 DEF RetryJob, Inv, TypeOK, KeyCreatesOneJob, ReplaysAreFaithful, SameKey
  <2>2. ReservationsAreExclusive'
    BY <1>8, ActivationKeepsReservations DEF RetryJob
  <2>. QED  BY <2>1, <2>2 DEF Inv
<1>9. CASE UNCHANGED vars
  BY <1>9 DEF vars, Inv, TypeOK, ReservationsAreExclusive, KeyCreatesOneJob, ReplaysAreFaithful
<1>. QED  BY <1>1, <1>2, <1>3, <1>4, <1>5, <1>6, <1>7, <1>8, <1>9 DEF Next

\* The initial state has the legacy jobs, for which the indexes hold, and no
\* answers.
LEMMA InitInv == Init => Inv
<1> SUFFICES ASSUME Init PROVE Inv
  OBVIOUS
<1>1. TypeOK
  BY DEF Init, TypeOK, Pcs, Kinds, NoAnswer
<1>2. ReservationsAreExclusive
  BY DEF Init, ReservationsAreExclusive, ActiveWithName, ActiveWithIpv4
<1>3. KeyCreatesOneJob
  BY DEF Init, KeyCreatesOneJob, JobsWithKey
<1>4. ReplaysAreFaithful
  BY DEF Init, NoAnswer, ReplaysAreFaithful
<1> QED  BY <1>1, <1>2, <1>3, <1>4 DEF Inv

\* The inductive invariant of Submission.
THEOREM SubmissionInvariant == Spec => []Inv
BY InitInv, NextKeepsInv, PTL DEF Spec

\* Concurrent submissions and retries never give one VM name or one static
\* address to two active jobs (the partial unique indexes of models/jobs.py).
THEOREM ReservationsExclusive == Spec => []ReservationsAreExclusive
BY SubmissionInvariant, PTL DEF Inv

\* An Idempotency-Key stands for at most one job.
THEOREM OneJobPerKey == Spec => []KeyCreatesOneJob
BY SubmissionInvariant, PTL DEF Inv

\* submit_provisioning never answers with somebody else's job, or with the job
\* of a body whose fingerprint differs from the request's.
THEOREM ReplaysFaithful == Spec => []ReplaysAreFaithful
BY SubmissionInvariant, PTL DEF Inv
=============================================================================
