------------------------------- MODULE Sessions ------------------------------
(***************************************************************************)
(* Sign-in, refresh and sign-out of one user in one browser: the rows of   *)
(* refresh_tokens (auth/service.py, api/v1/auth.py), the cookie that the   *)
(* tabs of the browser share, and the access token that each tab keeps.    *)
(*                                                                         *)
(* A request is sent, takes effect in a PostgreSQL transaction and is      *)
(* answered; answers may be late or lost.  A rotation holds the lock of    *)
(* its row (FOR UPDATE) until it commits.  The revocation of a family is   *)
(* one UPDATE: it covers the rows that are committed when it starts, and   *)
(* waits for those that another transaction holds.                         *)
(***************************************************************************)
EXTENDS Naturals, FiniteSets

CONSTANTS
    Tabs,
    Tokens,      \* ids (jti) in the order of their creation
    MaxTickets,  \* stream tickets that are issued
    MaxUpdates,  \* changes of the job's row
    Plans        \* bounds of a behaviour: [tokens, ends, tickets, updates]

ASSUME SessionsAssumption ==
    /\ Tokens \subseteq Nat \ {0} /\ IsFiniteSet(Tokens)
    /\ MaxTickets \in Nat /\ MaxUpdates \in Nat
    /\ Plans \subseteq [tokens : 0 .. Cardinality(Tokens), ends : Nat, tickets : 0 .. MaxTickets, updates : 0 .. MaxUpdates]

VARIABLES
    rows,        \* refresh_tokens; a row without family does not exist
    req,         \* request of each tab
    cookie,      \* refresh token in the browser, 0 when there is none
    access,      \* whether a tab has an access token
    active,      \* users.is_active
    plan,
    loggedOut,   \* families that a logout revoked
    strained,    \* families with an answer or a request that took longer than the grace period
    closed       \* families revoked while none of their tokens was being rotated

sessionVars == <<rows, req, cookie, access, active, plan, loggedOut, strained, closed>>

NoToken == 0

NoRow == [family |-> NoToken, used |-> "no", revoked |-> FALSE, expired |-> FALSE]

Idle == [pc |-> "idle", token |-> NoToken, fresh |-> NoToken, why |-> "", seen |-> {}, alone |-> TRUE]

Pcs == {"idle", "refresh", "rotated", "logout", "revoke", "granted", "denied", "signed out", "error"}

SessionsTypeOK ==
    /\ rows \in [Tokens -> [family : Tokens \cup {NoToken}, used : {"no", "recent", "old"},
                            revoked : BOOLEAN, expired : BOOLEAN]]
    /\ req \in [Tabs -> [pc : Pcs, token : Tokens \cup {NoToken}, fresh : Tokens \cup {NoToken},
                         why : {"", "reuse", "inactive", "logout"}, seen : SUBSET Tokens, alone : BOOLEAN]]
    /\ cookie \in Tokens \cup {NoToken}
    /\ access \in [Tabs -> BOOLEAN]
    /\ active \in BOOLEAN
    /\ plan \in Plans
    /\ loggedOut \subseteq Tokens /\ strained \subseteq Tokens /\ closed \subseteq Tokens

SessionsInit ==
    /\ rows = [x \in Tokens |-> NoRow]
    /\ req = [t \in Tabs |-> Idle]
    /\ cookie = NoToken
    /\ access = [t \in Tabs |-> FALSE]
    /\ active = TRUE
    /\ plan \in Plans
    /\ loggedOut = {} /\ strained = {} /\ closed = {}

-----------------------------------------------------------------------------
(* Rows and locks *)

Exists(x) == x # NoToken /\ rows[x].family # NoToken

\* Rows that an open transaction holds.
Locks(t) ==
    IF req[t].pc = "rotated" \/ (req[t].pc = "revoke" /\ req[t].why # "logout") THEN {req[t].token} ELSE {}

Free(x, t) == \A u \in Tabs \ {t} : x \notin Locks(u)

\* Ids are never used again, not even after a purge.
Issued == {x \in Tokens : Exists(x) \/ \E t \in Tabs : req[t].fresh = x}

FreshTokens ==
    {x \in Tokens : /\ x <= plan.tokens
                    /\ rows[x] = NoRow /\ x \notin Issued
                    /\ \A y \in Tokens : y < x => y \in Issued \/ rows[y] # NoRow}

\* issue_tokens: the row of a new token.
Insert(x, family) == [NoRow EXCEPT !.family = family]

\* Only the tokens that were never rotated.
UnusedRows(f) == {x \in Tokens : Exists(x) /\ rows[x].family = f /\ ~rows[x].revoked /\ rows[x].used = "no"}

\* revoke_family: the rows that its UPDATE covers.
FamilyRows(f) == {x \in Tokens : Exists(x) /\ rows[x].family = f /\ ~rows[x].revoked}

Rotating(f) == \E u \in Tabs : req[u].pc = "rotated" /\ rows[req[u].token].family = f

-----------------------------------------------------------------------------
(* Login and refresh *)

\* purge_expired_refresh_tokens deletes what expired more than a day ago.
\* A row that is deleted keeps its id out of use; no request takes a day.
Purgeable == {x \in Tokens : Exists(x) /\ rows[x].expired /\ \A t \in Tabs : req[t].token # x}

Purged(old) == [x \in Tokens |-> IF x \in old THEN [NoRow EXCEPT !.expired = TRUE] ELSE rows[x]]

\* A correct password; a wrong one changes no row.
Login(t) ==
    /\ req[t].pc = "idle"
    /\ active
    /\ \E x \in FreshTokens : \E old \in SUBSET Purgeable :
         /\ rows' = [Purged(old) EXCEPT ![x] = Insert(x, x)]
         /\ req' = [req EXCEPT ![t] = [Idle EXCEPT !.pc = "granted", !.fresh = x]]
    /\ UNCHANGED <<cookie, access, active, plan, loggedOut, strained, closed>>

SendRefresh(t) ==
    /\ req[t].pc = "idle"
    /\ cookie # NoToken
    /\ req' = [req EXCEPT ![t] = [Idle EXCEPT !.pc = "refresh", !.token = cookie]]
    /\ UNCHANGED <<rows, cookie, access, active, plan, loggedOut, strained, closed>>

Denied(t) == [req[t] EXCEPT !.pc = "denied"]

\* The row is read under its lock; an expired token is not looked up.
MayRead(t) == req[t].pc = "refresh" /\ Exists(req[t].token) /\ ~rows[req[t].token].expired /\ Free(req[t].token, t)

\* Any second use.
UsedBefore(x) == rows[x].used # "no"

\* Used more than the grace period ago.
Reused(x) == rows[x].used = "old"

RefuseRefresh(t) ==
    /\ \/ req[t].pc = "refresh" /\ (~Exists(req[t].token) \/ rows[req[t].token].expired)
       \/ MayRead(t) /\ rows[req[t].token].revoked
    /\ req' = [req EXCEPT ![t] = Denied(t)]
    /\ UNCHANGED <<rows, cookie, access, active, plan, loggedOut, strained, closed>>

\* The UPDATE of revoke_family starts.
StartRevoke(t, x, why) ==
    req' = [req EXCEPT ![t] = [@ EXCEPT !.pc = "revoke", !.why = why, !.seen = FamilyRows(rows[x].family),
                                        !.alone = ~Rotating(rows[x].family)]]

RefreshRevokes(t) ==
    LET x == req[t].token
    IN /\ MayRead(t)
       /\ ~rows[x].revoked
       /\ \/ Reused(x) /\ StartRevoke(t, x, "reuse")
          \/ ~Reused(x) /\ ~active /\ StartRevoke(t, x, "inactive")
       /\ UNCHANGED <<rows, cookie, access, active, plan, loggedOut, strained, closed>>

Rotate(t) ==
    LET x == req[t].token
        revoking == {u \in Tabs : req[u].pc = "revoke" /\ rows[req[u].token].family = rows[x].family}
    IN /\ MayRead(t)
       /\ ~rows[x].revoked /\ ~Reused(x) /\ active
       /\ \E y \in FreshTokens :
            req' = [u \in Tabs |-> IF u = t THEN [req[t] EXCEPT !.pc = "rotated", !.fresh = y]
                                   ELSE IF u \in revoking THEN [req[u] EXCEPT !.alone = FALSE]
                                   ELSE req[u]]
       /\ UNCHANGED <<rows, cookie, access, active, plan, loggedOut, strained, closed>>

CommitRotation(t) ==
    LET x == req[t].token
    IN /\ req[t].pc = "rotated"
       /\ rows' = [rows EXCEPT ![x].used = IF @ = "no" THEN "recent" ELSE @,
                               ![req[t].fresh] = Insert(req[t].fresh, rows[x].family)]
       /\ req' = [req EXCEPT ![t].pc = "granted"]
       /\ UNCHANGED <<cookie, access, active, plan, loggedOut, strained, closed>>

-----------------------------------------------------------------------------
(* Logout, and the end of a revocation *)

SendLogout(t) ==
    /\ req[t].pc = "idle"
    /\ access[t]
    /\ req' = [req EXCEPT ![t] = [Idle EXCEPT !.pc = "logout", !.token = cookie]]
    /\ UNCHANGED <<rows, cookie, access, active, plan, loggedOut, strained, closed>>

\* revoke_refresh_token reads the row without a lock and never raises.
Logout(t) ==
    LET x == req[t].token
    IN /\ req[t].pc = "logout"
       /\ IF Exists(x) /\ ~rows[x].expired THEN StartRevoke(t, x, "logout")
          ELSE req' = [req EXCEPT ![t].pc = "signed out"]
       /\ UNCHANGED <<rows, cookie, access, active, plan, loggedOut, strained, closed>>

\* All rows are free: the UPDATE ends and is committed, also when the answer
\* is a 401.
Revoke(t) ==
    LET f == rows[req[t].token].family
        logout == req[t].why = "logout"
    IN /\ req[t].pc = "revoke"
       /\ \A x \in req[t].seen : Free(x, t)
       /\ rows' = [x \in Tokens |-> IF x \in req[t].seen /\ Exists(x) THEN [rows[x] EXCEPT !.revoked = TRUE]
                                    ELSE rows[x]]
       /\ req' = [req EXCEPT ![t].pc = IF logout THEN "signed out" ELSE "denied"]
       /\ loggedOut' = IF logout THEN loggedOut \cup {f} ELSE loggedOut
       /\ closed' = IF req[t].alone THEN closed \cup {f} ELSE closed
       /\ UNCHANGED <<cookie, access, active, plan, strained>>

\* PostgreSQL ends one of two revocations that wait for each other.
DeadlockVictim(t) ==
    /\ req[t].pc = "revoke"
    /\ \E u \in Tabs \ {t} :
         /\ req[u].pc = "revoke"
         /\ Locks(u) \cap req[t].seen # {}
         /\ Locks(t) \cap req[u].seen # {}
    /\ req' = [req EXCEPT ![t].pc = "error"]
    /\ UNCHANGED <<rows, cookie, access, active, plan, loggedOut, strained, closed>>

-----------------------------------------------------------------------------
(* The browser, and time *)

Receive(t) ==
    /\ \/ req[t].pc = "granted" /\ cookie' = req[t].fresh /\ access' = [access EXCEPT ![t] = TRUE]
       \/ req[t].pc = "denied" /\ access' = [access EXCEPT ![t] = FALSE] /\ UNCHANGED cookie
       \/ req[t].pc = "signed out" /\ access' = [access EXCEPT ![t] = FALSE] /\ cookie' = NoToken
       \/ req[t].pc = "error" /\ UNCHANGED <<cookie, access>>
    /\ req' = [req EXCEPT ![t] = Idle]
    /\ UNCHANGED <<rows, active, plan, loggedOut, strained, closed>>

LoseAnswer(t) ==
    /\ req[t].pc \in {"granted", "denied", "signed out", "error"}
    /\ req' = [req EXCEPT ![t] = Idle]
    /\ UNCHANGED <<rows, cookie, access, active, plan, loggedOut, strained, closed>>

\* Ten seconds after the first rotation of a token; the browser may still
\* have it, or have sent it.
GraceEnds ==
    \E x \in Tokens :
        /\ rows[x].used = "recent"
        /\ rows' = [rows EXCEPT ![x].used = "old"]
        /\ strained' = IF cookie = x \/ \E t \in Tabs : req[t].pc = "refresh" /\ req[t].token = x
                       THEN strained \cup {rows[x].family} ELSE strained
        /\ UNCHANGED <<req, cookie, access, active, plan, loggedOut, closed>>

\* At most plan.ends tokens expire and accounts are deactivated.
MayEnd == Cardinality({x \in Tokens : rows[x].expired}) + (IF active THEN 0 ELSE 1) < plan.ends

RefreshTokenExpires ==
    \E x \in Tokens :
        /\ MayEnd /\ Exists(x) /\ ~rows[x].expired
        /\ rows' = [rows EXCEPT ![x].expired = TRUE]
        /\ UNCHANGED <<req, cookie, access, active, plan, loggedOut, strained, closed>>

Deactivate ==
    /\ MayEnd /\ active
    /\ active' = FALSE
    /\ UNCHANGED <<rows, req, cookie, access, plan, loggedOut, strained, closed>>

SessionsNext ==
    \/ \E t \in Tabs :
         \/ Login(t) \/ SendRefresh(t) \/ RefuseRefresh(t) \/ RefreshRevokes(t) \/ Rotate(t)
         \/ CommitRotation(t) \/ SendLogout(t) \/ Logout(t) \/ Revoke(t) \/ DeadlockVictim(t)
         \/ Receive(t) \/ LoseAnswer(t)
    \/ GraceEnds
    \/ RefreshTokenExpires
    \/ Deactivate

-----------------------------------------------------------------------------
(* Properties *)

\* After a logout, or after the reuse of a token was detected, no token of
\* the family is ever accepted again, unless one was being rotated at that
\* moment: its successor was not committed when the UPDATE started
\* (auth/service.py, rotate_refresh_token and revoke_family).
ClosedFamiliesStayClosed ==
    \A x \in Tokens : Exists(x) /\ rows[x].family \in closed => rows[x].revoked

\* A family is revoked because of a logout, of an inactive account, or of an
\* answer or request that took longer than the grace period; two tabs that
\* refresh with the same cookie never sign each other out.
TabsDoNotSignOutEachOther ==
    \A x \in Tokens : rows[x].revoked => rows[x].family \in loggedOut \cup strained \/ ~active
=============================================================================
