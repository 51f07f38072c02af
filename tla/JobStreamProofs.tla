--------------------------- MODULE JobStreamProofs ---------------------------
(***************************************************************************)
(* Theorems of Sessions and JobStream, for any number of tabs, tokens,     *)
(* tickets, jobs and changes of the job's row, and any bounds of a         *)
(* behaviour.                                                              *)
(***************************************************************************)
EXTENDS JobStream, TLAPS

-----------------------------------------------------------------------------
(* The inductive invariant of the sessions *)

\* A row without a family was never written, or was purged; the id that named
\* a family is never free again.
RowsSound ==
    \A x \in Tokens :
        IF rows[x].family = NoToken THEN rows[x].used = "no" /\ ~rows[x].revoked
        ELSE rows[rows[x].family] # NoRow

\* Tokens in the browser's hands have been issued, and those of an open
\* transaction are not purged.
TokenOk(t) ==
    /\ req[t].token # NoToken => rows[req[t].token] # NoRow
    /\ req[t].pc = "refresh" => req[t].token # NoToken
    /\ req[t].pc \in {"rotated", "revoke"} => Exists(req[t].token)

TokensSound ==
    /\ cookie # NoToken => rows[cookie] # NoRow
    /\ \A t \in Tabs : TokenOk(t)

\* An id that was drawn and not yet delivered is known to nobody else.
Undelivered(t) == req[t].pc \in {"rotated", "granted"}

FreshOk(t) ==
    /\ req[t].fresh # NoToken
    /\ req[t].pc = "rotated" => rows[req[t].fresh] = NoRow
    /\ req[t].pc = "granted" => rows[req[t].fresh] # NoRow
    /\ rows[req[t].fresh].used = "no"
    /\ cookie # req[t].fresh
    /\ \A u \in Tabs : req[u].token # req[t].fresh
    /\ \A u \in Tabs \ {t} : Undelivered(u) => req[u].fresh # req[t].fresh

FreshSound == \A t \in Tabs : Undelivered(t) => FreshOk(t)

\* What the UPDATE of a revocation covers, and that a lone one covers all.
CoversFamily(t, f) ==
    /\ \A x \in req[t].seen : rows[x] # NoRow /\ (Exists(x) => rows[x].family = f)
    /\ req[t].alone => ~Rotating(f) /\ FamilyRows(f) \subseteq req[t].seen

RevocationSound ==
    \A t \in Tabs, f \in Tokens : req[t].pc = "revoke" /\ rows[req[t].token].family = f => CoversFamily(t, f)

ClosedSound ==
    /\ \A f \in closed : rows[f] # NoRow /\ ~Rotating(f)
    /\ ClosedFamiliesStayClosed

\* Why a revocation runs; a token that is presented too late strains its
\* family.
Late(x) == rows[x].used = "old" => rows[x].family \in strained

Presented(x) == cookie = x \/ \E t \in Tabs : req[t].pc = "refresh" /\ req[t].token = x

ReasonOk(t) ==
    \/ req[t].why = "logout"
    \/ req[t].why = "inactive" /\ ~active
    \/ req[t].why = "reuse" /\ rows[req[t].token].family \in strained

ReasonsSound ==
    /\ \A x \in Tokens : Presented(x) => Late(x)
    /\ \A t \in Tabs : req[t].pc = "revoke" => ReasonOk(t)
    /\ TabsDoNotSignOutEachOther

SessionsInv ==
    /\ SessionsTypeOK /\ RowsSound /\ TokensSound /\ FreshSound
    /\ RevocationSound /\ ClosedSound /\ ReasonsSound

-----------------------------------------------------------------------------
(* The inductive invariant of the stream *)

\* A ticket that opened a stream is gone.
TicketsSound == \A k \in Tickets : tickets[k].opened # <<>> => tickets[k].state = "gone"

\* A client behind the row has something left to read or to fetch, or misses an
\* announcement.
ViewSound ==
    /\ stream.snapshot => stream.subscribed
    /\ stream.snapshot /\ stream.job = Watched =>
         \/ client.view = version
         \/ stream.unread > 0 \/ client.refetch
         \/ pending # {} \/ unheard

StreamInv == TypeOK /\ TicketsSound /\ TicketOpensOneStream /\ ViewSound

JobStreamInv == SessionsInv /\ StreamInv

-----------------------------------------------------------------------------
(* Types *)

RowType == [family : Tokens \cup {NoToken}, used : {"no", "recent", "old"}, revoked : BOOLEAN, expired : BOOLEAN]

ReqType == [pc : Pcs, token : Tokens \cup {NoToken}, fresh : Tokens \cup {NoToken},
            why : {"", "reuse", "inactive", "logout"}, seen : SUBSET Tokens, alone : BOOLEAN]

\* The records of a new row, of a purged one and of a tab without a request.
LEMMA Records ==
    /\ NoToken \notin Tokens
    /\ NoRow \in RowType /\ Idle \in ReqType
    /\ [NoRow EXCEPT !.expired = TRUE] \in RowType \ {NoRow}
    /\ \A x, f \in Tokens : Insert(x, f) \in RowType \ {NoRow}
<1>1. NoToken \notin Tokens
  BY SessionsAssumption DEF NoToken
<1>2. NoRow \in RowType /\ Idle \in ReqType
  BY DEF NoRow, RowType, Idle, ReqType, Pcs
<1>3. [NoRow EXCEPT !.expired = TRUE] \in RowType \ {NoRow}
  BY DEF NoRow, RowType
<1>4. ASSUME NEW x \in Tokens, NEW f \in Tokens PROVE Insert(x, f) \in RowType \ {NoRow}
  BY <1>1 DEF Insert, NoRow, RowType
<1> QED  BY <1>1, <1>2, <1>3, <1>4

\* SessionsTypeOK, with names for the types of a row and of a request.
SessionsTypes ==
    /\ rows \in [Tokens -> RowType]
    /\ req \in [Tabs -> ReqType]
    /\ cookie \in Tokens \cup {NoToken}
    /\ access \in [Tabs -> BOOLEAN]
    /\ active \in BOOLEAN
    /\ plan \in Plans
    /\ loggedOut \subseteq Tokens /\ strained \subseteq Tokens /\ closed \subseteq Tokens

\* The parts of the type invariant under names of their own.
LEMMA NamedTypes == SessionsTypeOK <=> SessionsTypes
<1> QED  BY DEF SessionsTypeOK, SessionsTypes, RowType, ReqType

\* The same of the next state.
LEMMA NamedTypesNext == SessionsTypeOK' <=> SessionsTypes'
<1> QED  BY DEF SessionsTypeOK, SessionsTypes, RowType, ReqType

-----------------------------------------------------------------------------
(* The actions of the sessions *)

\* Steps of a tab that touch no row and draw no token: the tab may present the
\* cookie.
LEMMA QuietStep ==
    ASSUME SessionsInv, NEW t \in Tabs,
           req' = [req EXCEPT ![t] = req'[t]], req'[t] \in ReqType,
           \/ req'[t].pc \in {"idle", "denied", "signed out", "error", "logout"}
           \/ req'[t].pc = "refresh" /\ req'[t].token = cookie /\ cookie # NoToken,
           req'[t].token \in {NoToken, cookie, req[t].token},
           cookie' \in {cookie, NoToken},
           access' \in [Tabs -> BOOLEAN],
           UNCHANGED <<rows, active, plan, loggedOut, strained, closed>>
    PROVE  SessionsInv'
<1> USE Records, NamedTypes, NamedTypesNext DEF SessionsInv
<1>1. /\ \A u \in Tabs \ {t} : req'[u] = req[u]
      /\ req' \in [Tabs -> ReqType]
  BY DEF SessionsTypes
<1>2. SessionsTypes'
  BY <1>1 DEF SessionsTypes
<1>0. NoRow' = NoRow
  OBVIOUS
<1>3. RowsSound'
  BY DEF RowsSound
<1>4. TokensSound'
  BY <1>1 DEF TokensSound, TokenOk, Exists, SessionsTypes
<1>5. FreshSound'
  <2> SUFFICES ASSUME NEW u \in Tabs, Undelivered(u)' PROVE FreshOk(u)'
    BY DEF FreshSound
  <2>1. u # t /\ req'[u] = req[u] /\ FreshOk(u)
    BY <1>1 DEF Undelivered, FreshSound
  <2>2. \A v \in Tabs : Undelivered(v)' => Undelivered(v) /\ req'[v].fresh = req[v].fresh
    BY <1>1 DEF Undelivered
  <2>3. \A v \in Tabs : req'[v].token # req[u].fresh
    BY <1>1, <2>1 DEF FreshOk
  <2> QED  BY <1>1, <2>1, <2>2, <2>3 DEF FreshOk
<1>6. \A f : Rotating(f)' => Rotating(f)
  BY <1>1 DEF Rotating
<1>7. \A f : FamilyRows(f)' = FamilyRows(f)
  BY DEF FamilyRows, Exists
<1>8. RevocationSound'
  <2> SUFFICES ASSUME NEW u \in Tabs, NEW f \in Tokens,
                      req'[u].pc = "revoke", rows[req'[u].token].family = f
               PROVE  CoversFamily(u, f)'
    BY DEF RevocationSound
  <2>1. u # t /\ req'[u] = req[u]
    BY <1>1
  <2>2. CoversFamily(u, f)
    BY <2>1 DEF RevocationSound
  <2>3. \A x : Exists(x)' = Exists(x)
    BY DEF Exists
  <2> QED  BY <1>6, <1>7, <2>1, <2>2, <2>3 DEF CoversFamily
<1>9. ClosedSound'
  BY <1>6 DEF ClosedSound, ClosedFamiliesStayClosed, Exists
<1>10. ReasonsSound'
  <2>1. \A z \in Tokens : Presented(z)' => Presented(z)
    BY <1>1 DEF Presented
  <2> QED  BY <1>1, <2>1 DEF ReasonsSound, ReasonOk, Late, TabsDoNotSignOutEachOther
<1> QED  BY <1>2, <1>3, <1>4, <1>5, <1>8, <1>9, <1>10

\* The UPDATE of revoke_family starts, for one of its reasons.
LEMMA StartRevokeStep ==
    ASSUME SessionsInv, NEW t \in Tabs, NEW why \in {"logout", "inactive", "reuse"},
           req[t].pc \in {"refresh", "logout"}, Exists(req[t].token),
           StartRevoke(t, req[t].token, why),
           why = "inactive" => ~active,
           why = "reuse" => req[t].pc = "refresh" /\ Reused(req[t].token),
           UNCHANGED <<rows, cookie, access, active, plan, loggedOut, strained, closed>>
    PROVE  SessionsInv'
<1> DEFINE x == req[t].token
           g == rows[x].family
<1> USE Records, NamedTypes, NamedTypesNext DEF SessionsInv
<1>0. req[t] \in ReqType /\ x \in Tokens /\ g \in Tokens /\ FamilyRows(g) \subseteq Tokens
  BY DEF SessionsTypes, ReqType, RowType, Exists, FamilyRows
<1>1. /\ \A u \in Tabs \ {t} : req'[u] = req[u]
      /\ req'[t].pc = "revoke" /\ req'[t].why = why /\ req'[t].token = x
      /\ req'[t].seen = FamilyRows(g) /\ req'[t].alone = ~Rotating(g)
      /\ req'[t] \in ReqType
      /\ req' \in [Tabs -> ReqType]
  <2> DEFINE r == [req[t] EXCEPT !.pc = "revoke", !.why = why, !.seen = FamilyRows(g), !.alone = ~Rotating(g)]
  <2>1. r \in ReqType /\ r.pc = "revoke" /\ r.why = why /\ r.token = x
        /\ r.seen = FamilyRows(g) /\ r.alone = ~Rotating(g)
    BY <1>0 DEF ReqType, Pcs
  <2>2. req' = [req EXCEPT ![t] = r]
    BY DEF StartRevoke
  <2> HIDE DEF r
  <2>3. req'[t] = r /\ \A u \in Tabs \ {t} : req'[u] = req[u]
    BY <2>2 DEF SessionsTypes
  <2> QED  BY <2>1, <2>2, <2>3 DEF SessionsTypes
<1> HIDE DEF x, g
<1>2. SessionsTypes'
  BY <1>1 DEF SessionsTypes
<1>3. RowsSound'
  BY DEF RowsSound
<1>4. TokensSound'
  BY <1>1 DEF TokensSound, TokenOk, Exists, SessionsTypes, x
<1>5. FreshSound'
  <2> SUFFICES ASSUME NEW u \in Tabs, Undelivered(u)' PROVE FreshOk(u)'
    BY DEF FreshSound
  <2>1. u # t /\ req'[u] = req[u] /\ FreshOk(u)
    BY <1>1 DEF Undelivered, FreshSound
  <2>2. \A v \in Tabs : Undelivered(v)' => Undelivered(v) /\ req'[v].fresh = req[v].fresh
    BY <1>1 DEF Undelivered
  <2>3. \A v \in Tabs : req'[v].token # req[u].fresh
    BY <1>1, <2>1 DEF FreshOk, x
  <2> QED  BY <1>1, <2>1, <2>2, <2>3 DEF FreshOk
<1>6. \A f : Rotating(f)' <=> Rotating(f)
  BY <1>1 DEF Rotating
<1>7. \A f : FamilyRows(f)' = FamilyRows(f)
  BY DEF FamilyRows, Exists
<1>8. RevocationSound'
  <2> SUFFICES ASSUME NEW u \in Tabs, NEW f \in Tokens,
                      req'[u].pc = "revoke", rows[req'[u].token].family = f
               PROVE  CoversFamily(u, f)'
    BY DEF RevocationSound
  <2>1. \A y : Exists(y)' = Exists(y)
    BY DEF Exists
  <2>2. CASE u = t
    <3>1. f = g
      BY <1>1, <2>2 DEF g
    <3>2. \A y \in FamilyRows(f) : rows[y] # NoRow /\ (Exists(y) => rows[y].family = f)
      BY <1>0 DEF FamilyRows, Exists, NoRow
    <3> QED  BY <1>1, <1>6, <1>7, <2>1, <2>2, <3>1, <3>2 DEF CoversFamily
  <2>3. CASE u # t
    <3>1. req'[u] = req[u] /\ CoversFamily(u, f)
      BY <1>1, <2>3 DEF RevocationSound
    <3> QED  BY <1>6, <1>7, <2>1, <3>1 DEF CoversFamily
  <2> QED  BY <2>2, <2>3
<1>9. ClosedSound'
  BY <1>6 DEF ClosedSound, ClosedFamiliesStayClosed, Exists
<1>10. ReasonsSound'
  <2>1. why = "reuse" => g \in strained
    BY <1>0 DEF ReasonsSound, Presented, Reused, Late, x, g
  <2>2. ReasonOk(t)'
    BY <1>1, <2>1 DEF ReasonOk, g
  <2>3. \A z \in Tokens : Presented(z)' => Presented(z)
    BY <1>1 DEF Presented
  <2> QED  BY <1>1, <2>2, <2>3 DEF ReasonsSound, ReasonOk, Late, TabsDoNotSignOutEachOther
<1> QED  BY <1>2, <1>3, <1>4, <1>5, <1>8, <1>9, <1>10

\* A rotation draws the id of the next token, and the revocations of its
\* family that wait are not alone.
LEMMA RotateStep ==
    ASSUME SessionsInv, NEW t \in Tabs, Rotate(t)
    PROVE  SessionsInv'
<1> DEFINE x == req[t].token
           g == rows[x].family
<1> USE Records, NamedTypes, NamedTypesNext DEF SessionsInv
<1>0. x \in Tokens /\ Exists(x) /\ g \in Tokens /\ ~rows[x].revoked /\ req[t].pc = "refresh"
  BY DEF SessionsTypes, ReqType, RowType, Exists, Rotate, MayRead
<1>1. PICK y \in FreshTokens :
        req' = [u \in Tabs |-> IF u = t THEN [req[t] EXCEPT !.pc = "rotated", !.fresh = y]
                               ELSE IF req[u].pc = "revoke" /\ rows[req[u].token].family = g
                                    THEN [req[u] EXCEPT !.alone = FALSE]
                                    ELSE req[u]]
  BY DEF Rotate
<1>2. /\ y \in Tokens /\ rows[y] = NoRow
      /\ \A u \in Tabs : req[u].fresh # y
  BY DEF FreshTokens, Issued
<1>3. /\ req'[t].pc = "rotated" /\ req'[t].fresh = y /\ req'[t].token = x
      /\ req'[t] \in ReqType
  <2>1. req'[t] = [req[t] EXCEPT !.pc = "rotated", !.fresh = y]
    BY <1>1
  <2> QED  BY <1>2, <2>1 DEF SessionsTypes, ReqType, Pcs
<1>4. ASSUME NEW u \in Tabs \ {t}
      PROVE  /\ req'[u].pc = req[u].pc /\ req'[u].token = req[u].token /\ req'[u].fresh = req[u].fresh
             /\ req'[u].why = req[u].why /\ req'[u].seen = req[u].seen
             /\ req'[u] \in ReqType
             /\ req'[u].alone => req[u].alone /\ ~(req[u].pc = "revoke" /\ rows[req[u].token].family = g)
  <2>1. req'[u] = IF req[u].pc = "revoke" /\ rows[req[u].token].family = g
                  THEN [req[u] EXCEPT !.alone = FALSE] ELSE req[u]
    BY <1>1
  <2>2. req[u] \in ReqType
    BY DEF SessionsTypes
  <2>3. CASE req[u].pc = "revoke" /\ rows[req[u].token].family = g
    BY <2>1, <2>2, <2>3 DEF ReqType
  <2>4. CASE ~(req[u].pc = "revoke" /\ rows[req[u].token].family = g)
    BY <2>1, <2>2, <2>4
  <2> QED  BY <2>3, <2>4
<1>5. UNCHANGED <<rows, cookie, access, active, plan, loggedOut, strained, closed>>
  BY DEF Rotate
<1> HIDE DEF x, g
<1>6. SessionsTypes'
  <2>1. req' \in [Tabs -> ReqType]
    BY <1>1, <1>3, <1>4
  <2> QED  BY <1>5, <2>1 DEF SessionsTypes
<1>7. RowsSound'
  BY <1>5 DEF RowsSound
<1>8. TokensSound'
  <2>1. \A u \in Tabs : req'[u].token = req[u].token
    BY <1>3, <1>4 DEF x
  <2> QED  BY <1>0, <1>3, <1>4, <1>5, <2>1 DEF TokensSound, TokenOk, Exists, x
<1>9. FreshSound'
  <2>1. y # NoToken /\ NoRow.used = "no" /\ cookie # y /\ \A u \in Tabs : req[u].token # y
    BY <1>2 DEF TokensSound, TokenOk, NoRow
  <2>2. \A u \in Tabs : req'[u].token = req[u].token
    BY <1>3, <1>4 DEF x
  <2>3. FreshOk(t)'
    BY <1>2, <1>3, <1>4, <1>5, <2>1, <2>2 DEF FreshOk
  <2>4. ASSUME NEW u \in Tabs \ {t}, Undelivered(u)' PROVE FreshOk(u)'
    <3>1. FreshOk(u)
      BY <1>4, <2>4 DEF FreshSound, Undelivered
    <3>2. \A v \in Tabs \ {u} : Undelivered(v)' => req'[v].fresh # req'[u].fresh
      <4> SUFFICES ASSUME NEW v \in Tabs \ {u}, Undelivered(v)' PROVE req'[v].fresh # req'[u].fresh
        OBVIOUS
      <4>1. CASE v = t
        BY <1>2, <1>3, <1>4, <2>4, <4>1
      <4>2. CASE v # t
        BY <1>4, <3>1, <4>2 DEF FreshOk, Undelivered
      <4> QED  BY <4>1, <4>2
    <3> QED  BY <1>4, <1>5, <2>2, <3>1, <3>2 DEF FreshOk
  <2> QED  BY <2>3, <2>4 DEF FreshSound
<1>10. \A f : FamilyRows(f)' = FamilyRows(f)
  BY <1>5 DEF FamilyRows, Exists
<1>11. \A f : Rotating(f)' => Rotating(f) \/ f = g
  BY <1>3, <1>4, <1>5 DEF Rotating, x, g
<1>12. RevocationSound'
  <2> SUFFICES ASSUME NEW u \in Tabs, NEW f \in Tokens,
                      req'[u].pc = "revoke", rows[req'[u].token].family = f
               PROVE  CoversFamily(u, f)'
    BY <1>5 DEF RevocationSound
  <2>1. \A z : Exists(z)' = Exists(z)
    BY <1>5 DEF Exists
  <2>2. u # t
    BY <1>3
  <2>3. CoversFamily(u, f)
    BY <1>4, <2>2 DEF RevocationSound
  <2>4. req'[u].alone => f # g
    BY <1>4, <2>2
  <2> QED  BY <1>4, <1>5, <1>10, <1>11, <2>1, <2>2, <2>3, <2>4 DEF CoversFamily
<1>13. ClosedSound'
  <2>1. g \notin closed
    BY <1>0 DEF ClosedSound, ClosedFamiliesStayClosed, g
  <2> QED  BY <1>5, <1>11, <2>1 DEF ClosedSound, ClosedFamiliesStayClosed, Exists
<1>14. ReasonsSound'
  <2>1. \A z \in Tokens : Presented(z)' => Presented(z)
    BY <1>3, <1>4, <1>5 DEF Presented
  <2> QED  BY <1>3, <1>4, <1>5, <2>1 DEF ReasonsSound, ReasonOk, Late, TabsDoNotSignOutEachOther
<1> QED  BY <1>6, <1>7, <1>8, <1>9, <1>12, <1>13, <1>14

\* The successor's row is committed with the family of the token it replaces.
LEMMA CommitStep ==
    ASSUME SessionsInv, NEW t \in Tabs, CommitRotation(t)
    PROVE  SessionsInv'
<1> DEFINE x == req[t].token
           y == req[t].fresh
           g == rows[x].family
<1> USE Records, NamedTypes, NamedTypesNext DEF SessionsInv
<1>0. /\ req[t].pc = "rotated" /\ x \in Tokens /\ y \in Tokens /\ Exists(x) /\ g \in Tokens /\ FreshOk(t)
      /\ rows[y] = NoRow /\ x # y /\ rows[x] \in RowType
  <2>1. req[t].pc = "rotated" /\ x \in Tokens /\ Exists(x)
    BY DEF CommitRotation, TokensSound, TokenOk, Exists, SessionsTypes, ReqType
  <2>2. g \in Tokens /\ rows[x] \in RowType
    BY <2>1 DEF Exists, SessionsTypes, RowType
  <2>3. FreshOk(t) /\ rows[y] = NoRow /\ y \in Tokens
    BY <2>1 DEF FreshSound, Undelivered, FreshOk, SessionsTypes, ReqType
  <2> QED  BY <2>1, <2>2, <2>3 DEF FreshOk
<1>1. /\ rows'[x].family = g /\ rows'[x].revoked = rows[x].revoked
      /\ rows'[x].used \in {rows[x].used, "recent"}
      /\ rows'[x] \in RowType \ {NoRow}
      /\ rows'[y] = Insert(y, g)
      /\ \A z \in Tokens \ {x, y} : rows'[z] = rows[z]
      /\ rows' \in [Tokens -> RowType]
  <2> DEFINE r == [rows[x] EXCEPT !.used = IF rows[x].used = "no" THEN "recent" ELSE rows[x].used]
  <2>1. /\ r \in RowType /\ r # NoRow /\ r.family = g /\ r.revoked = rows[x].revoked
        /\ r.used \in {rows[x].used, "recent"}
    BY <1>0 DEF RowType, NoRow
  <2>2. rows' = [rows EXCEPT ![x] = r, ![y] = Insert(y, g)]
    BY <1>0 DEF CommitRotation, SessionsTypes
  <2> HIDE DEF r
  <2>3. rows'[x] = r /\ rows'[y] = Insert(y, g) /\ \A z \in Tokens \ {x, y} : rows'[z] = rows[z]
    BY <1>0, <2>2 DEF SessionsTypes
  <2>4. rows' \in [Tokens -> RowType]
    BY <1>0, <2>1, <2>2 DEF SessionsTypes
  <2> QED  BY <2>1, <2>3, <2>4
<1>2. /\ \A u \in Tabs : /\ req'[u].token = req[u].token /\ req'[u].fresh = req[u].fresh
                         /\ req'[u].why = req[u].why /\ req'[u].seen = req[u].seen
                         /\ req'[u].alone = req[u].alone
      /\ req'[t].pc = "granted"
      /\ \A u \in Tabs \ {t} : req'[u].pc = req[u].pc
      /\ req' \in [Tabs -> ReqType]
  BY DEF CommitRotation, SessionsTypes, ReqType, Pcs
<1>3. UNCHANGED <<cookie, access, active, plan, loggedOut, strained, closed>>
  BY DEF CommitRotation
<1>4. /\ rows'[y].family = g /\ rows'[y].used = "no" /\ ~rows'[y].revoked /\ rows'[y] # NoRow
  BY <1>0, <1>1 DEF Insert, NoRow
<1> HIDE DEF x, y, g
<1>5. SessionsTypes'
  BY <1>1, <1>2, <1>3 DEF SessionsTypes
<1>6. \A z \in Tokens : rows[z] # NoRow => rows'[z] # NoRow /\ rows'[z].family = rows[z].family
                                           /\ rows'[z].revoked = rows[z].revoked
  BY <1>0, <1>1 DEF g
<1>7. \A z \in Tokens : rows[z] # NoRow => Exists(z)' = Exists(z)
  BY <1>6 DEF Exists
<1>8. RowsSound'
  <2>1. rows[g] # NoRow /\ rows'[g] # NoRow
    BY <1>0, <1>6 DEF RowsSound, Exists, g
  <2> SUFFICES ASSUME NEW z \in Tokens
               PROVE  IF rows'[z].family = NoToken THEN rows'[z].used = "no" /\ ~rows'[z].revoked
                      ELSE rows'[rows'[z].family] # NoRow
    BY DEF RowsSound
  <2>2. CASE z = y
    BY <1>0, <1>4, <2>1, <2>2
  <2>3. CASE z = x
    BY <1>0, <1>1, <2>1, <2>3
  <2>4. CASE z \notin {x, y}
    <3>1. rows'[z] = rows[z] /\ rows[z].family \in Tokens \cup {NoToken}
      BY <1>1, <2>4 DEF SessionsTypes, RowType
    <3> QED  BY <1>6, <3>1 DEF RowsSound
  <2> QED  BY <2>2, <2>3, <2>4
<1>9. TokensSound'
  <2>1. cookie # NoToken => rows'[cookie] # NoRow
    BY <1>6 DEF TokensSound, SessionsTypes
  <2>2. ASSUME NEW u \in Tabs PROVE TokenOk(u)'
    <3>1. req[u].token \in Tokens \cup {NoToken} /\ TokenOk(u)
      BY DEF SessionsTypes, ReqType, TokensSound
    <3>2. req'[u].pc \in {"refresh", "rotated", "revoke"} => req'[u].pc = req[u].pc
      BY <1>2
    <3>3. Exists(req[u].token) => Exists(req[u].token)'
      BY <1>2, <1>7, <3>1 DEF Exists, TokenOk
    <3> QED  BY <1>2, <1>6, <3>1, <3>2, <3>3 DEF TokenOk, Exists
  <2> QED  BY <1>3, <2>1, <2>2 DEF TokensSound
<1>10. FreshSound'
  <2> SUFFICES ASSUME NEW u \in Tabs, Undelivered(u)' PROVE FreshOk(u)'
    BY DEF FreshSound
  <2>1. \A v \in Tabs : Undelivered(v)' => Undelivered(v)
    BY <1>0, <1>2 DEF Undelivered
  <2>2. FreshOk(u) /\ req[u].fresh \in Tokens
    BY <2>1 DEF FreshSound, FreshOk, SessionsTypes, ReqType
  <2>3. req[u].fresh # x
    BY <2>2 DEF FreshOk, x
  <2>4. u # t => req[u].fresh # y
    BY <1>0, <2>1, <2>2 DEF FreshOk, Undelivered, y
  <2>5. CASE u = t
    BY <1>2, <1>3, <1>4, <2>1, <2>2, <2>5 DEF FreshOk, y
  <2>6. CASE u # t
    <3>1. rows'[req[u].fresh] = rows[req[u].fresh]
      BY <1>1, <2>2, <2>3, <2>4, <2>6
    <3> QED  BY <1>2, <1>3, <2>1, <2>2, <2>6, <3>1 DEF FreshOk
  <2> QED  BY <2>5, <2>6
<1>11. Rotating(g)
  BY <1>0 DEF Rotating, x, g
<1>12. ASSUME NEW f \in Tokens, f # g PROVE FamilyRows(f)' = FamilyRows(f)
  <2>1. \A z \in Tokens : z \in FamilyRows(f)' <=> z \in FamilyRows(f)
    <3> SUFFICES ASSUME NEW z \in Tokens PROVE z \in FamilyRows(f)' <=> z \in FamilyRows(f)
      OBVIOUS
    <3>1. CASE z \in {x, y}
      BY <1>0, <1>1, <1>4, <1>12, <3>1 DEF FamilyRows, Exists, NoRow, g
    <3>2. CASE z \notin {x, y}
      BY <1>1, <3>2 DEF FamilyRows, Exists
    <3> QED  BY <3>1, <3>2
  <2> QED  BY <2>1 DEF FamilyRows
<1>13. ASSUME NEW f \in Tokens, Rotating(f)' PROVE Rotating(f)
  <2>1. PICK u \in Tabs : req'[u].pc = "rotated" /\ rows'[req'[u].token].family = f
    BY <1>13 DEF Rotating
  <2>2. u # t /\ req[u].pc = "rotated" /\ req'[u].token = req[u].token
    BY <1>2, <2>1
  <2>3. req[u].token \in Tokens /\ Exists(req[u].token) /\ rows[req[u].token] # NoRow
    BY <2>2 DEF TokensSound, TokenOk, Exists, SessionsTypes, ReqType
  <2> QED  BY <1>6, <2>1, <2>2, <2>3 DEF Rotating
<1>14. RevocationSound'
  <2> SUFFICES ASSUME NEW u \in Tabs, NEW f \in Tokens,
                      req'[u].pc = "revoke", rows'[req'[u].token].family = f
               PROVE  CoversFamily(u, f)'
    BY DEF RevocationSound
  <2>1. req[u].pc = "revoke" /\ req[u].token \in Tokens /\ rows[req[u].token] # NoRow
    BY <1>2 DEF TokensSound, TokenOk, Exists, SessionsTypes, ReqType
  <2>2. CoversFamily(u, f)
    BY <1>2, <1>6, <2>1 DEF RevocationSound
  <2>3. req[u].alone => f # g
    BY <1>11, <2>2 DEF CoversFamily
  <2>4. req[u].seen \subseteq Tokens
    BY DEF SessionsTypes, ReqType
  <2>5. \A z \in req[u].seen : rows'[z] # NoRow /\ (Exists(z)' => rows'[z].family = f)
    BY <1>6, <1>7, <2>2, <2>4 DEF CoversFamily
  <2> QED  BY <1>2, <1>12, <1>13, <2>2, <2>3, <2>5 DEF CoversFamily
<1>15. ClosedSound'
  <2>1. g \notin closed
    BY <1>0, <1>11 DEF ClosedSound
  <2>2. \A f \in closed : rows'[f] # NoRow /\ ~Rotating(f)'
    BY <1>6, <1>13 DEF ClosedSound, SessionsTypes
  <2>3. ASSUME NEW z \in Tokens, Exists(z)', rows'[z].family \in closed PROVE rows'[z].revoked
    <3>1. z # y /\ z # x
      BY <1>1, <1>4, <2>1, <2>3
    <3> QED  BY <1>1, <2>3, <3>1 DEF ClosedSound, ClosedFamiliesStayClosed, Exists
  <2> QED  BY <1>3, <2>2, <2>3 DEF ClosedSound, ClosedFamiliesStayClosed
<1>16. ReasonsSound'
  <2>1. ASSUME NEW z \in Tokens, rows[z] # NoRow, Late(z) PROVE Late(z)'
    <3>1. CASE z = x
      BY <1>0, <1>1, <1>3, <2>1, <3>1 DEF Late, g
    <3>2. CASE z # x
      <4>1. z # y
        BY <1>0, <2>1
      <4> QED  BY <1>1, <1>3, <2>1, <3>2, <4>1 DEF Late
    <3> QED  BY <3>1, <3>2
  <2>2. \A z \in Tokens : Presented(z)' => Presented(z) /\ rows[z] # NoRow
    BY <1>2, <1>3 DEF Presented, TokensSound, TokenOk
  <2>3. \A z \in Tokens : Presented(z)' => Late(z)'
    BY <2>1, <2>2 DEF ReasonsSound
  <2>4. ASSUME NEW u \in Tabs, req'[u].pc = "revoke" PROVE ReasonOk(u)'
    <3>1. req[u].pc = "revoke" /\ req[u].token \in Tokens /\ rows[req[u].token] # NoRow /\ ReasonOk(u)
      BY <1>2, <2>4 DEF ReasonsSound, TokensSound, TokenOk, Exists, SessionsTypes, ReqType
    <3> QED  BY <1>2, <1>3, <1>6, <3>1 DEF ReasonOk
  <2>5. TabsDoNotSignOutEachOther'
    <3> SUFFICES ASSUME NEW z \in Tokens, rows'[z].revoked
                 PROVE  rows'[z].family \in loggedOut \cup strained \/ ~active
      BY <1>3 DEF TabsDoNotSignOutEachOther
    <3>1. z # y
      BY <1>4
    <3>2. rows[z].revoked /\ rows'[z].family = rows[z].family
      BY <1>1, <3>1 DEF g
    <3> QED  BY <3>2 DEF ReasonsSound, TabsDoNotSignOutEachOther
  <2> QED  BY <2>3, <2>4, <2>5 DEF ReasonsSound
<1> QED  BY <1>5, <1>8, <1>9, <1>10, <1>14, <1>15, <1>16

\* The UPDATE of revoke_family ends.
LEMMA RevokeStep ==
    ASSUME SessionsInv, NEW t \in Tabs, Revoke(t)
    PROVE  SessionsInv'
<1> DEFINE x == req[t].token
           g == rows[x].family
           S == req[t].seen
<1> USE Records, NamedTypes, NamedTypesNext DEF SessionsInv
<1>0. /\ req[t].pc = "revoke" /\ x \in Tokens /\ Exists(x) /\ g \in Tokens /\ S \subseteq Tokens
      /\ CoversFamily(t, g) /\ ReasonOk(t)
  <2>1. req[t].pc = "revoke" /\ x \in Tokens /\ Exists(x) /\ S \subseteq Tokens
    BY DEF Revoke, TokensSound, TokenOk, Exists, SessionsTypes, ReqType
  <2>2. g \in Tokens
    BY <2>1 DEF Exists, SessionsTypes, RowType
  <2> QED  BY <2>1, <2>2 DEF RevocationSound, ReasonsSound
<1>1. ASSUME NEW z \in Tokens
      PROVE  /\ rows'[z] \in RowType
             /\ rows'[z].family = rows[z].family /\ rows'[z].used = rows[z].used
             /\ rows[z] = NoRow => rows'[z] = NoRow
             /\ rows[z] # NoRow => rows'[z] # NoRow
             /\ z \in S /\ Exists(z) => rows'[z].revoked
             /\ ~(z \in S /\ Exists(z)) => rows'[z] = rows[z]
  <2>1. rows'[z] = IF z \in S /\ Exists(z) THEN [rows[z] EXCEPT !.revoked = TRUE] ELSE rows[z]
    BY DEF Revoke
  <2>2. rows[z] \in RowType
    BY DEF SessionsTypes
  <2>3. CASE z \in S /\ Exists(z)
    <3>1. rows'[z] \in RowType /\ rows'[z].revoked
          /\ rows'[z].family = rows[z].family /\ rows'[z].used = rows[z].used
      BY <2>1, <2>2, <2>3 DEF RowType
    <3>2. rows[z] # NoRow /\ rows'[z] # NoRow
      BY <2>3, <3>1 DEF Exists, NoRow
    <3> QED  BY <2>3, <3>1, <3>2
  <2>4. CASE ~(z \in S /\ Exists(z))
    BY <2>1, <2>2, <2>4
  <2> QED  BY <2>3, <2>4
<1>2. /\ \A u \in Tabs : /\ req'[u].token = req[u].token /\ req'[u].fresh = req[u].fresh
                         /\ req'[u].why = req[u].why /\ req'[u].seen = req[u].seen
                         /\ req'[u].alone = req[u].alone
      /\ req'[t].pc \in {"signed out", "denied"}
      /\ \A u \in Tabs \ {t} : req'[u].pc = req[u].pc
      /\ req' \in [Tabs -> ReqType]
  <2>1. PICK pc \in {"signed out", "denied"} : req' = [req EXCEPT ![t].pc = pc]
    BY DEF Revoke
  <2> QED  BY <2>1 DEF SessionsTypes, ReqType, Pcs
<1>3. /\ UNCHANGED <<cookie, access, active, plan, strained>>
      /\ loggedOut' \in SUBSET Tokens /\ loggedOut \subseteq loggedOut'
      /\ req[t].why = "logout" => g \in loggedOut'
      /\ closed' \subseteq Tokens
      /\ closed' = IF req[t].alone THEN closed \cup {g} ELSE closed
  BY <1>0 DEF Revoke, SessionsTypes
<1>4. rows' \in [Tokens -> RowType]
  <2>1. rows' = [z \in Tokens |-> IF z \in S /\ Exists(z) THEN [rows[z] EXCEPT !.revoked = TRUE] ELSE rows[z]]
    BY DEF Revoke
  <2> QED  BY <1>1, <2>1
<1> HIDE DEF x, g, S
<1>5. SessionsTypes'
  BY <1>2, <1>3, <1>4 DEF SessionsTypes
<1>6. \A z \in Tokens : Exists(z)' = Exists(z)
  BY <1>1 DEF Exists
<1>7. RowsSound'
  <2> SUFFICES ASSUME NEW z \in Tokens
               PROVE  IF rows'[z].family = NoToken THEN rows'[z].used = "no" /\ ~rows'[z].revoked
                      ELSE rows'[rows'[z].family] # NoRow
    BY DEF RowsSound
  <2>1. rows[z].family \in Tokens \cup {NoToken}
    BY DEF SessionsTypes, RowType
  <2>2. CASE rows[z].family = NoToken
    BY <1>1, <2>2 DEF RowsSound, Exists
  <2>3. CASE rows[z].family # NoToken
    BY <1>1, <2>1, <2>3 DEF RowsSound
  <2> QED  BY <2>2, <2>3
<1>8. TokensSound'
  <2>1. cookie # NoToken => rows'[cookie] # NoRow
    BY <1>1 DEF TokensSound, SessionsTypes
  <2>2. ASSUME NEW u \in Tabs PROVE TokenOk(u)'
    <3>1. req[u].token \in Tokens \cup {NoToken} /\ TokenOk(u)
      BY DEF SessionsTypes, ReqType, TokensSound
    <3>2. req'[u].pc \in {"refresh", "rotated", "revoke"} => req'[u].pc = req[u].pc
      BY <1>2
    <3>3. req'[u].token = req[u].token
      BY <1>2
    <3>4. req[u].token # NoToken => rows'[req[u].token] # NoRow
      BY <1>1, <3>1 DEF TokenOk
    <3>5. Exists(req[u].token) => rows'[req[u].token].family # NoToken
      BY <1>1, <3>1 DEF Exists
    <3> QED  BY <3>1, <3>2, <3>3, <3>4, <3>5 DEF TokenOk, Exists
  <2> QED  BY <1>3, <2>1, <2>2 DEF TokensSound
<1>9. FreshSound'
  <2> SUFFICES ASSUME NEW u \in Tabs, Undelivered(u)' PROVE FreshOk(u)'
    BY DEF FreshSound
  <2>1. \A v \in Tabs : Undelivered(v)' => Undelivered(v) /\ req'[v].pc = req[v].pc
    BY <1>2 DEF Undelivered
  <2>2. FreshOk(u) /\ req[u].fresh \in Tokens
    BY <2>1 DEF FreshSound, FreshOk, SessionsTypes, ReqType
  <2>3. /\ rows[req[u].fresh] = NoRow => rows'[req[u].fresh] = NoRow
        /\ rows[req[u].fresh] # NoRow => rows'[req[u].fresh] # NoRow
        /\ rows'[req[u].fresh].used = rows[req[u].fresh].used
    BY <1>1, <2>2
  <2>4. \A v \in Tabs : req'[v].token = req[v].token /\ req'[v].fresh = req[v].fresh
    BY <1>2
  <2> QED  BY <1>3, <2>1, <2>2, <2>3, <2>4 DEF FreshOk
<1>10. \A f \in Tokens : FamilyRows(f)' \subseteq FamilyRows(f)
  <2> SUFFICES ASSUME NEW f \in Tokens, NEW z \in Tokens, z \in FamilyRows(f)' PROVE z \in FamilyRows(f)
    BY DEF FamilyRows
  <2> QED  BY <1>1, <1>6 DEF FamilyRows
<1>11. \A f \in Tokens : Rotating(f)' => Rotating(f)
  <2> SUFFICES ASSUME NEW f \in Tokens, Rotating(f)' PROVE Rotating(f)
    OBVIOUS
  <2>1. PICK u \in Tabs : req'[u].pc = "rotated" /\ rows'[req'[u].token].family = f
    BY DEF Rotating
  <2>2. u # t /\ req[u].pc = "rotated" /\ req'[u].token = req[u].token
    BY <1>2, <2>1
  <2>3. req[u].token \in Tokens
    BY <2>2 DEF TokensSound, TokenOk, Exists, SessionsTypes, ReqType
  <2> QED  BY <1>1, <2>1, <2>2, <2>3 DEF Rotating
<1>12. RevocationSound'
  <2> SUFFICES ASSUME NEW u \in Tabs, NEW f \in Tokens,
                      req'[u].pc = "revoke", rows'[req'[u].token].family = f
               PROVE  CoversFamily(u, f)'
    BY DEF RevocationSound
  <2>1. req[u].pc = "revoke" /\ req[u].token \in Tokens /\ req[u].seen \subseteq Tokens
    BY <1>2 DEF TokensSound, TokenOk, Exists, SessionsTypes, ReqType
  <2>2. CoversFamily(u, f)
    <3>1. req'[u].token = req[u].token
      BY <1>2
    <3>2. rows[req[u].token].family = f
      BY <1>1, <2>1, <3>1
    <3> QED  BY <2>1, <3>2 DEF RevocationSound
  <2>3. \A z \in req[u].seen : rows'[z] # NoRow /\ (Exists(z)' => rows'[z].family = f)
    BY <1>1, <1>6, <2>1, <2>2 DEF CoversFamily
  <2> QED  BY <1>2, <1>10, <1>11, <2>2, <2>3 DEF CoversFamily
<1>13. ClosedSound'
  <2>1. ASSUME NEW f \in closed' PROVE rows'[f] # NoRow /\ ~Rotating(f)'
    <3>1. f \in Tokens /\ rows[f] # NoRow /\ ~Rotating(f)
      <4>1. CASE f \in closed
        BY <4>1 DEF ClosedSound, SessionsTypes
      <4>2. CASE f = g /\ req[t].alone
        BY <1>0, <4>2 DEF CoversFamily, RowsSound, Exists, g
      <4> QED  BY <1>3, <2>1, <4>1, <4>2
    <3> QED  BY <1>1, <1>11, <3>1
  <2>2. ASSUME NEW z \in Tokens, Exists(z)', rows'[z].family \in closed' PROVE rows'[z].revoked
    <3>1. Exists(z) /\ rows'[z].family = rows[z].family
      BY <1>1, <1>6, <2>2
    <3>2. CASE rows[z].revoked
      BY <1>1, <3>2
    <3>3. CASE ~rows[z].revoked
      <4>1. rows[z].family = g /\ req[t].alone
        BY <1>3, <2>2, <3>1, <3>3 DEF ClosedSound, ClosedFamiliesStayClosed
      <4>2. z \in S
        BY <1>0, <3>1, <3>3, <4>1 DEF CoversFamily, FamilyRows, S
      <4> QED  BY <1>1, <3>1, <4>2
    <3> QED  BY <3>2, <3>3
  <2> QED  BY <2>1, <2>2 DEF ClosedSound, ClosedFamiliesStayClosed
<1>14. ReasonsSound'
  <2>1. \A z \in Tokens : Presented(z)' => Late(z)'
    <3>1. \A z \in Tokens : Presented(z)' => Presented(z)
      BY <1>2, <1>3 DEF Presented
    <3>2. \A z \in Tokens : Late(z) => Late(z)'
      BY <1>1, <1>3 DEF Late
    <3> QED  BY <3>1, <3>2 DEF ReasonsSound
  <2>2. ASSUME NEW u \in Tabs, req'[u].pc = "revoke" PROVE ReasonOk(u)'
    <3>1. req[u].pc = "revoke" /\ req[u].token \in Tokens /\ ReasonOk(u)
      BY <1>2, <2>2 DEF ReasonsSound, TokensSound, TokenOk, Exists, SessionsTypes, ReqType
    <3>2. req'[u].token = req[u].token /\ req'[u].why = req[u].why
      BY <1>2
    <3>3. rows'[req[u].token].family = rows[req[u].token].family
      BY <1>1, <3>1
    <3> QED  BY <1>3, <3>1, <3>2, <3>3 DEF ReasonOk
  <2>3. TabsDoNotSignOutEachOther'
    <3> SUFFICES ASSUME NEW z \in Tokens, rows'[z].revoked
                 PROVE  rows'[z].family \in loggedOut' \cup strained \/ ~active
      BY <1>3 DEF TabsDoNotSignOutEachOther
    <3>1. CASE z \in S /\ Exists(z)
      <4>1. rows'[z].family = g
        BY <1>0, <1>1, <3>1 DEF CoversFamily, S
      <4> QED  BY <1>0, <1>3, <4>1 DEF ReasonOk, x, g
    <3>2. CASE ~(z \in S /\ Exists(z))
      BY <1>1, <1>3, <3>2 DEF ReasonsSound, TabsDoNotSignOutEachOther
    <3> QED  BY <3>1, <3>2
  <2> QED  BY <2>1, <2>2, <2>3 DEF ReasonsSound
<1> QED  BY <1>5, <1>7, <1>8, <1>9, <1>12, <1>13, <1>14

\* The browser stores the token of an answer.
LEMMA GrantedStep ==
    ASSUME SessionsInv, NEW t \in Tabs, req[t].pc = "granted", cookie' = req[t].fresh,
           access' = [access EXCEPT ![t] = TRUE], req' = [req EXCEPT ![t] = Idle],
           UNCHANGED <<rows, active, plan, loggedOut, strained, closed>>
    PROVE  SessionsInv'
<1> USE Records, NamedTypes, NamedTypesNext DEF SessionsInv
<1>0. FreshOk(t) /\ req[t].fresh \in Tokens
  BY DEF FreshSound, Undelivered, SessionsTypes, ReqType, FreshOk
<1>1. /\ \A u \in Tabs \ {t} : req'[u] = req[u]
      /\ req'[t].pc = "idle" /\ req'[t].token = NoToken
      /\ req' \in [Tabs -> ReqType]
  BY DEF SessionsTypes, Idle
<1>2. SessionsTypes'
  BY <1>0, <1>1 DEF SessionsTypes
<1>3. RowsSound'
  BY DEF RowsSound
<1>4. TokensSound'
  BY <1>0, <1>1 DEF TokensSound, TokenOk, Exists, FreshOk
<1>5. FreshSound'
  <2> SUFFICES ASSUME NEW u \in Tabs, Undelivered(u)' PROVE FreshOk(u)'
    BY DEF FreshSound
  <2>1. u # t /\ req'[u] = req[u] /\ FreshOk(u) /\ req[u].fresh # NoToken
    BY <1>1 DEF Undelivered, FreshSound, FreshOk
  <2>2. \A v \in Tabs : Undelivered(v)' => Undelivered(v) /\ req'[v].fresh = req[v].fresh
    BY <1>1 DEF Undelivered
  <2>3. \A v \in Tabs : req'[v].token # req[u].fresh
    BY <1>1, <2>1 DEF FreshOk
  <2>4. cookie' # req[u].fresh
    BY <1>0, <2>1 DEF FreshOk, Undelivered
  <2> QED  BY <1>1, <2>1, <2>2, <2>3, <2>4 DEF FreshOk
<1>6. \A f : Rotating(f)' => Rotating(f)
  BY <1>1 DEF Rotating
<1>7. \A f : FamilyRows(f)' = FamilyRows(f)
  BY DEF FamilyRows, Exists
<1>8. RevocationSound'
  <2> SUFFICES ASSUME NEW u \in Tabs, NEW f \in Tokens,
                      req'[u].pc = "revoke", rows[req'[u].token].family = f
               PROVE  CoversFamily(u, f)'
    BY DEF RevocationSound
  <2>1. u # t /\ req'[u] = req[u]
    BY <1>1
  <2>2. CoversFamily(u, f)
    BY <2>1 DEF RevocationSound
  <2>3. \A x : Exists(x)' = Exists(x)
    BY DEF Exists
  <2> QED  BY <1>6, <1>7, <2>1, <2>2, <2>3 DEF CoversFamily
<1>9. ClosedSound'
  BY <1>6 DEF ClosedSound, ClosedFamiliesStayClosed, Exists
<1>10. ReasonsSound'
  <2>1. \A z \in Tokens : Presented(z)' => Presented(z) \/ z = req[t].fresh
    BY <1>1 DEF Presented
  <2>2. \A z \in Tokens : Presented(z)' => Late(z)'
    BY <1>0, <2>1 DEF ReasonsSound, Late, FreshOk
  <2> QED  BY <1>1, <2>2 DEF ReasonsSound, ReasonOk, TabsDoNotSignOutEachOther
<1> QED  BY <1>2, <1>3, <1>4, <1>5, <1>8, <1>9, <1>10

\* A login starts a family under an id that names no other, and may purge rows
\* that no request presents.
LEMMA LoginStep ==
    ASSUME SessionsInv, NEW t \in Tabs, Login(t)
    PROVE  SessionsInv'
<1> USE Records, NamedTypes, NamedTypesNext DEF SessionsInv
<1>1. PICK x \in FreshTokens, old \in SUBSET Purgeable :
        /\ rows' = [Purged(old) EXCEPT ![x] = Insert(x, x)]
        /\ req' = [req EXCEPT ![t] = [Idle EXCEPT !.pc = "granted", !.fresh = x]]
  BY DEF Login
<1>2. /\ x \in Tokens /\ rows[x] = NoRow
      /\ \A u \in Tabs : req[u].fresh # x
  BY DEF FreshTokens, Issued
<1>3. ASSUME NEW z \in Tokens \ {x}
      PROVE  /\ rows'[z] \in RowType
             /\ rows[z] = NoRow => rows'[z] = NoRow
             /\ rows[z] # NoRow => rows'[z] # NoRow
             /\ \/ rows'[z] = rows[z]
                \/ /\ rows'[z].family = NoToken /\ rows'[z].used = "no" /\ ~rows'[z].revoked
                   /\ \A u \in Tabs : req[u].token # z
  <2>1. rows'[z] = IF z \in old THEN [NoRow EXCEPT !.expired = TRUE] ELSE rows[z]
    BY <1>1, <1>2 DEF Purged
  <2>2. CASE z \in old
    <3>1. rows[z] # NoRow /\ \A u \in Tabs : req[u].token # z
      BY <2>2 DEF Purgeable, Exists, NoRow
    <3>2. rows'[z].family = NoToken /\ rows'[z].used = "no" /\ ~rows'[z].revoked
      BY <2>1, <2>2 DEF NoRow
    <3> QED  BY <2>1, <2>2, <3>1, <3>2
  <2>3. CASE z \notin old
    BY <2>1, <2>3 DEF SessionsTypes
  <2> QED  BY <2>2, <2>3
<1>4. /\ rows'[x].family = x /\ rows'[x].used = "no" /\ ~rows'[x].revoked
      /\ rows'[x] \in RowType \ {NoRow}
  <2>1. rows'[x] = Insert(x, x)
    BY <1>1, <1>2 DEF Purged
  <2> QED  BY <1>2, <2>1 DEF Insert, NoRow
<1>5. /\ \A u \in Tabs \ {t} : req'[u] = req[u]
      /\ req'[t].pc = "granted" /\ req'[t].fresh = x /\ req'[t].token = NoToken
      /\ req' \in [Tabs -> ReqType]
  <2> DEFINE r == [Idle EXCEPT !.pc = "granted", !.fresh = x]
  <2>1. r \in ReqType /\ r.pc = "granted" /\ r.fresh = x /\ r.token = NoToken
    BY <1>2 DEF Idle, ReqType, Pcs
  <2>2. req' = [req EXCEPT ![t] = r]
    BY <1>1
  <2> HIDE DEF r
  <2> QED  BY <2>1, <2>2 DEF SessionsTypes
<1>6. UNCHANGED <<cookie, access, active, plan, loggedOut, strained, closed>>
  BY DEF Login
<1>7. SessionsTypes'
  <2>1. rows' = [z \in Tokens |-> rows'[z]]
    BY <1>1 DEF Purged
  <2>2. rows' \in [Tokens -> RowType]
    BY <1>3, <1>4, <2>1
  <2> QED  BY <1>5, <1>6, <2>2 DEF SessionsTypes
<1>8. \A z \in Tokens : rows[z] # NoRow => rows'[z] # NoRow
  BY <1>2, <1>3
<1>9. ASSUME NEW u \in Tabs, NEW z \in Tokens, req[u].token = z, rows[z] # NoRow PROVE rows'[z] = rows[z]
  BY <1>2, <1>3, <1>9
<1>10. RowsSound'
  <2> SUFFICES ASSUME NEW z \in Tokens
               PROVE  IF rows'[z].family = NoToken THEN rows'[z].used = "no" /\ ~rows'[z].revoked
                      ELSE rows'[rows'[z].family] # NoRow
    BY DEF RowsSound
  <2>1. CASE z = x
    BY <1>2, <1>4, <2>1
  <2>2. CASE z # x /\ rows'[z] = rows[z]
    <3>1. rows[z].family \in Tokens \cup {NoToken}
      BY DEF SessionsTypes, RowType
    <3> QED  BY <1>8, <2>2, <3>1 DEF RowsSound
  <2>3. CASE z # x /\ rows'[z] # rows[z]
    BY <1>3, <2>3
  <2> QED  BY <2>1, <2>2, <2>3
<1>11. TokensSound'
  <2>1. cookie # NoToken => rows'[cookie] # NoRow
    BY <1>8 DEF TokensSound, SessionsTypes
  <2>2. TokenOk(t)'
    BY <1>5 DEF TokenOk
  <2>3. ASSUME NEW u \in Tabs \ {t} PROVE TokenOk(u)'
    <3>1. req'[u] = req[u] /\ TokenOk(u) /\ req[u].token \in Tokens \cup {NoToken}
      BY <1>5 DEF TokensSound, SessionsTypes, ReqType
    <3>2. req[u].token # NoToken => rows'[req[u].token] = rows[req[u].token]
      BY <1>9, <3>1 DEF TokenOk
    <3> QED  BY <3>1, <3>2 DEF TokenOk, Exists
  <2> QED  BY <1>6, <2>1, <2>2, <2>3 DEF TokensSound
<1>12. FreshSound'
  <2>1. x # NoToken /\ cookie # x /\ \A u \in Tabs : req'[u].token # x
    BY <1>2, <1>5 DEF TokensSound, TokenOk
  <2>2. FreshOk(t)'
    BY <1>2, <1>4, <1>5, <1>6, <2>1 DEF FreshOk
  <2>3. ASSUME NEW u \in Tabs \ {t}, Undelivered(u)' PROVE FreshOk(u)'
    <3>0. req'[u] = req[u] /\ FreshOk(u)
      BY <1>5, <2>3 DEF Undelivered, FreshSound
    <3>1. req'[u] = req[u] /\ FreshOk(u) /\ req[u].fresh \in Tokens \ {x}
      BY <1>2, <3>0 DEF FreshOk, SessionsTypes, ReqType
    <3>2. \A v \in Tabs \ {t} : Undelivered(v)' => Undelivered(v)
      BY <1>5 DEF Undelivered
    <3>3. \A v \in Tabs \ {u} : Undelivered(v)' => req'[v].fresh # req[u].fresh
      BY <1>5, <3>1, <3>2 DEF FreshOk
    <3>4. \A v \in Tabs : req'[v].token # req[u].fresh
      BY <1>5, <3>1 DEF FreshOk
    <3>5. /\ rows[req[u].fresh] = NoRow => rows'[req[u].fresh] = NoRow
          /\ rows[req[u].fresh] # NoRow => rows'[req[u].fresh] # NoRow
          /\ rows'[req[u].fresh].used = "no"
      BY <1>3, <3>1 DEF FreshOk
    <3> QED  BY <1>6, <3>1, <3>3, <3>4, <3>5 DEF FreshOk
  <2> QED  BY <2>2, <2>3 DEF FreshSound
<1>13. ASSUME NEW f \in Tokens, rows[f] # NoRow
       PROVE  /\ Rotating(f)' => Rotating(f)
              /\ FamilyRows(f)' \subseteq FamilyRows(f)
  <2>1. f # x
    BY <1>2, <1>13
  <2>2. ASSUME NEW z \in Tokens, Exists(z)', rows'[z].family = f PROVE rows'[z] = rows[z]
    BY <1>3, <1>4, <1>13, <2>1, <2>2
  <2>3. ASSUME Rotating(f)' PROVE Rotating(f)
    <3>1. PICK u \in Tabs : req'[u].pc = "rotated" /\ rows'[req'[u].token].family = f
      BY <2>3 DEF Rotating
    <3>2. u # t /\ req'[u] = req[u] /\ req[u].token \in Tokens /\ rows[req[u].token] # NoRow
      BY <1>5, <3>1 DEF TokensSound, TokenOk, Exists, SessionsTypes, ReqType
    <3> QED  BY <1>9, <3>1, <3>2 DEF Rotating
  <2>4. ASSUME NEW z \in FamilyRows(f)' PROVE z \in FamilyRows(f)
    <3>1. z \in Tokens /\ Exists(z)' /\ rows'[z].family = f /\ ~rows'[z].revoked
      BY DEF FamilyRows
    <3> QED  BY <2>2, <3>1 DEF FamilyRows, Exists
  <2> QED  BY <2>3, <2>4
<1>14. RevocationSound'
  <2> SUFFICES ASSUME NEW u \in Tabs, NEW f \in Tokens,
                      req'[u].pc = "revoke", rows'[req'[u].token].family = f
               PROVE  CoversFamily(u, f)'
    BY DEF RevocationSound
  <2>1. u # t /\ req'[u] = req[u] /\ req[u].token \in Tokens /\ Exists(req[u].token)
        /\ rows[req[u].token] # NoRow /\ req[u].seen \subseteq Tokens
    BY <1>5 DEF TokensSound, TokenOk, Exists, SessionsTypes, ReqType
  <2>2. rows[req[u].token].family = f /\ CoversFamily(u, f)
    BY <1>9, <2>1 DEF RevocationSound
  <2>3. rows[f] # NoRow
    BY <2>1, <2>2 DEF RowsSound, Exists
  <2>4. \A z \in req[u].seen : rows'[z] # NoRow /\ (Exists(z)' => rows'[z].family = f)
    BY <1>2, <1>3, <1>8, <2>1, <2>2 DEF CoversFamily, Exists
  <2> QED  BY <1>13, <2>1, <2>2, <2>3, <2>4 DEF CoversFamily
<1>15. ClosedSound'
  <2>1. \A f \in closed : f \in Tokens /\ rows[f] # NoRow /\ ~Rotating(f)
    BY DEF ClosedSound, SessionsTypes
  <2>2. \A f \in closed : rows'[f] # NoRow /\ ~Rotating(f)'
    BY <1>8, <1>13, <2>1
  <2>3. ASSUME NEW z \in Tokens, Exists(z)', rows'[z].family \in closed PROVE rows'[z].revoked
    <3>1. z # x
      BY <1>2, <1>4, <2>1, <2>3
    <3>2. rows'[z] = rows[z]
      BY <1>3, <2>3, <3>1 DEF Exists
    <3> QED  BY <2>3, <3>2 DEF ClosedSound, ClosedFamiliesStayClosed, Exists
  <2> QED  BY <1>6, <2>2, <2>3 DEF ClosedSound, ClosedFamiliesStayClosed
<1>16. ReasonsSound'
  <2>1. \A z \in Tokens : Presented(z)' => Presented(z) /\ z # x
    BY <1>2, <1>5, <1>6 DEF Presented, TokensSound, TokenOk
  <2>2. \A z \in Tokens \ {x} : Late(z) => Late(z)'
    BY <1>3, <1>6 DEF Late
  <2>3. ASSUME NEW u \in Tabs, req'[u].pc = "revoke" PROVE ReasonOk(u)'
    <3>1. u # t /\ req'[u] = req[u] /\ ReasonOk(u)
      BY <1>5, <2>3 DEF ReasonsSound
    <3>2. req[u].token \in Tokens /\ rows[req[u].token] # NoRow
      BY <2>3, <3>1 DEF TokensSound, TokenOk, Exists, SessionsTypes, ReqType
    <3> QED  BY <1>6, <1>9, <3>1, <3>2 DEF ReasonOk
  <2>4. TabsDoNotSignOutEachOther'
    <3> SUFFICES ASSUME NEW z \in Tokens, rows'[z].revoked
                 PROVE  rows'[z].family \in loggedOut \cup strained \/ ~active
      BY <1>6 DEF TabsDoNotSignOutEachOther
    <3>1. rows'[z] = rows[z]
      BY <1>3, <1>4
    <3> QED  BY <3>1 DEF ReasonsSound, TabsDoNotSignOutEachOther
  <2> QED  BY <2>1, <2>2, <2>3, <2>4 DEF ReasonsSound
<1> QED  BY <1>7, <1>10, <1>11, <1>12, <1>14, <1>15, <1>16

\* The grace period of a token ends: who still holds it strains its family.
\* Or a token expires.  Both change one field of a row that exists.
LEMMA AgeStep ==
    ASSUME SessionsInv, NEW x \in Tokens, rows[x].family # NoToken, NEW r \in RowType,
           rows' = [rows EXCEPT ![x] = r],
           r.family = rows[x].family, r.revoked = rows[x].revoked,
           r.used \in {"old", rows[x].used},
           r.used = "old" => rows[x].used # "no",
           strained' \in {strained, strained \cup {rows[x].family}},
           Presented(x) /\ r.used = "old" /\ rows[x].used # "old" => rows[x].family \in strained',
           UNCHANGED <<req, cookie, access, active, plan, loggedOut, closed>>
    PROVE  SessionsInv'
<1> USE Records, NamedTypes, NamedTypesNext DEF SessionsInv
<1>0. rows[x] # NoRow /\ r # NoRow /\ rows[x].family \in Tokens
  BY DEF NoRow, SessionsTypes, RowType
<1>1. rows'[x] = r /\ \A z \in Tokens \ {x} : rows'[z] = rows[z]
  BY DEF SessionsTypes
<1>2. SessionsTypes'
  BY <1>0 DEF SessionsTypes
<1>3. \A z \in Tokens : /\ rows[z] = NoRow => rows'[z] = NoRow
                        /\ rows[z] # NoRow => rows'[z] # NoRow
                        /\ rows'[z].family = rows[z].family /\ rows'[z].revoked = rows[z].revoked
                        /\ rows[z].used = "no" => rows'[z].used = "no"
                        /\ Exists(z)' = Exists(z)
  BY <1>0, <1>1 DEF Exists
<1>4. RowsSound'
  <2> SUFFICES ASSUME NEW z \in Tokens
               PROVE  IF rows'[z].family = NoToken THEN rows'[z].used = "no" /\ ~rows'[z].revoked
                      ELSE rows'[rows'[z].family] # NoRow
    BY DEF RowsSound
  <2>1. rows[z].family \in Tokens \cup {NoToken}
    BY DEF SessionsTypes, RowType
  <2> QED  BY <1>3, <2>1 DEF RowsSound
<1>5. TokensSound'
  <2>1. cookie # NoToken => rows'[cookie] # NoRow
    BY <1>3 DEF TokensSound, SessionsTypes
  <2>2. ASSUME NEW u \in Tabs PROVE TokenOk(u)'
    <3>1. req[u].token \in Tokens \cup {NoToken} /\ TokenOk(u)
      BY DEF SessionsTypes, ReqType, TokensSound
    <3> QED  BY <1>3, <3>1 DEF TokenOk, Exists
  <2> QED  BY <2>1, <2>2 DEF TokensSound
<1>6. FreshSound'
  <2> SUFFICES ASSUME NEW u \in Tabs, Undelivered(u) PROVE FreshOk(u)'
    BY DEF FreshSound, Undelivered
  <2>1. FreshOk(u) /\ req[u].fresh \in Tokens
    BY DEF FreshSound, FreshOk, SessionsTypes, ReqType
  <2>2. \A v \in Tabs : Undelivered(v)' = Undelivered(v)
    BY DEF Undelivered
  <2> QED  BY <1>3, <2>1, <2>2 DEF FreshOk
<1>7. \A f \in Tokens : FamilyRows(f)' = FamilyRows(f)
  BY <1>3 DEF FamilyRows
<1>8. \A u \in Tabs : Exists(req[u].token) => rows'[req[u].token].family = rows[req[u].token].family
  <2> SUFFICES ASSUME NEW u \in Tabs, Exists(req[u].token)
               PROVE  rows'[req[u].token].family = rows[req[u].token].family
    OBVIOUS
  <2>1. req[u].token \in Tokens
    BY DEF Exists, SessionsTypes, ReqType
  <2> QED  BY <1>3, <2>1
<1>9. \A f \in Tokens : Rotating(f)' => Rotating(f)
  BY <1>8 DEF Rotating, TokensSound, TokenOk
<1>10. RevocationSound'
  <2> SUFFICES ASSUME NEW u \in Tabs, NEW f \in Tokens,
                      req[u].pc = "revoke", rows'[req[u].token].family = f
               PROVE  CoversFamily(u, f)'
    BY DEF RevocationSound
  <2>1. CoversFamily(u, f) /\ req[u].seen \subseteq Tokens
    BY <1>8 DEF RevocationSound, TokensSound, TokenOk, SessionsTypes, ReqType
  <2> QED  BY <1>3, <1>7, <1>9, <2>1 DEF CoversFamily
<1>11. ClosedSound'
  <2>1. \A f \in closed : f \in Tokens
    BY DEF SessionsTypes
  <2> QED  BY <1>3, <1>9, <2>1 DEF ClosedSound, ClosedFamiliesStayClosed
<1>12. ReasonsSound'
  <2>1. \A z \in Tokens : Presented(z)' = Presented(z)
    BY DEF Presented
  <2>2. ASSUME NEW z \in Tokens, Presented(z) PROVE Late(z)'
    <3>1. CASE z # x
      BY <1>1, <2>2, <3>1 DEF ReasonsSound, Late
    <3>2. CASE z = x
      BY <1>1, <2>2, <3>2 DEF ReasonsSound, Late
    <3> QED  BY <3>1, <3>2
  <2>3. \A u \in Tabs : req[u].pc = "revoke" => ReasonOk(u)'
    BY <1>8 DEF ReasonsSound, ReasonOk, TokensSound, TokenOk
  <2>4. TabsDoNotSignOutEachOther'
    BY <1>3 DEF ReasonsSound, TabsDoNotSignOutEachOther
  <2> QED  BY <2>1, <2>2, <2>3, <2>4 DEF ReasonsSound
<1> QED  BY <1>2, <1>4, <1>5, <1>6, <1>10, <1>11, <1>12

\* Every step of the sessions, each read as one of the cases above.
LEMMA SessionsStep ==
    ASSUME SessionsInv, SessionsNext
    PROVE  SessionsInv'
<1> USE Records, NamedTypes
<1>0. SessionsTypes /\ \A t \in Tabs : req[t] \in ReqType
  BY DEF SessionsInv, SessionsTypes
<1>1. ASSUME NEW t \in Tabs, Login(t) PROVE SessionsInv'
  BY <1>1, LoginStep
<1>2. ASSUME NEW t \in Tabs, SendRefresh(t) PROVE SessionsInv'
  <2> DEFINE r == [Idle EXCEPT !.pc = "refresh", !.token = cookie]
  <2>1. r \in ReqType /\ r.pc = "refresh" /\ r.token = cookie
    BY <1>0 DEF Idle, ReqType, Pcs, SessionsTypes
  <2>2. req' = [req EXCEPT ![t] = r] /\ cookie # NoToken
    BY <1>2 DEF SendRefresh
  <2> HIDE DEF r
  <2>3. req'[t] = r
    BY <1>0, <2>2 DEF SessionsTypes
  <2> QED  BY <1>0, <1>2, <2>1, <2>2, <2>3, QuietStep DEF SendRefresh, SessionsTypes
<1>3. ASSUME NEW t \in Tabs, RefuseRefresh(t) \/ DeadlockVictim(t) PROVE SessionsInv'
  <2>1. PICK pc \in {"denied", "error"} : req' = [req EXCEPT ![t] = [req[t] EXCEPT !.pc = pc]]
    BY <1>0, <1>3 DEF RefuseRefresh, DeadlockVictim, Denied, SessionsTypes
  <2>2. req'[t] = [req[t] EXCEPT !.pc = pc]
    BY <1>0, <2>1 DEF SessionsTypes
  <2>3. req'[t] \in ReqType /\ req'[t].pc = pc /\ req'[t].token = req[t].token
    BY <1>0, <2>2 DEF ReqType, Pcs
  <2>4. UNCHANGED <<rows, cookie, access, active, plan, loggedOut, strained, closed>>
    BY <1>3 DEF RefuseRefresh, DeadlockVictim
  <2> QED  BY <1>0, <2>1, <2>2, <2>3, <2>4, QuietStep DEF SessionsTypes
<1>4. ASSUME NEW t \in Tabs, RefreshRevokes(t) PROVE SessionsInv'
  <2>1. PICK why \in {"inactive", "reuse"} :
          /\ StartRevoke(t, req[t].token, why)
          /\ why = "inactive" => ~active
          /\ why = "reuse" => Reused(req[t].token)
    BY <1>4 DEF RefreshRevokes
  <2>2. req[t].pc = "refresh" /\ Exists(req[t].token)
    BY <1>4 DEF RefreshRevokes, MayRead
  <2>3. UNCHANGED <<rows, cookie, access, active, plan, loggedOut, strained, closed>>
    BY <1>4 DEF RefreshRevokes
  <2> QED  BY <2>1, <2>2, <2>3, StartRevokeStep
<1>5. ASSUME NEW t \in Tabs, Rotate(t) PROVE SessionsInv'
  BY <1>5, RotateStep
<1>6. ASSUME NEW t \in Tabs, CommitRotation(t) PROVE SessionsInv'
  BY <1>6, CommitStep
<1>7. ASSUME NEW t \in Tabs, SendLogout(t) PROVE SessionsInv'
  <2> DEFINE r == [Idle EXCEPT !.pc = "logout", !.token = cookie]
  <2>1. r \in ReqType /\ r.pc = "logout" /\ r.token = cookie
    BY <1>0 DEF Idle, ReqType, Pcs, SessionsTypes
  <2>2. req' = [req EXCEPT ![t] = r]
    BY <1>7 DEF SendLogout
  <2> HIDE DEF r
  <2>3. req'[t] = r
    BY <1>0, <2>2 DEF SessionsTypes
  <2> QED  BY <1>0, <1>7, <2>1, <2>2, <2>3, QuietStep DEF SendLogout, SessionsTypes
<1>8. ASSUME NEW t \in Tabs, Logout(t) PROVE SessionsInv'
  <2>1. /\ req[t].pc = "logout"
        /\ UNCHANGED <<rows, cookie, access, active, plan, loggedOut, strained, closed>>
    BY <1>8 DEF Logout
  <2>2. CASE Exists(req[t].token) /\ ~rows[req[t].token].expired
    BY <1>8, <2>1, <2>2, StartRevokeStep DEF Logout
  <2>3. CASE ~(Exists(req[t].token) /\ ~rows[req[t].token].expired)
    <3>1. req' = [req EXCEPT ![t] = [req[t] EXCEPT !.pc = "signed out"]]
      BY <1>0, <1>8, <2>3 DEF Logout, SessionsTypes
    <3>2. req'[t] = [req[t] EXCEPT !.pc = "signed out"]
      BY <1>0, <3>1 DEF SessionsTypes
    <3>3. req'[t] \in ReqType /\ req'[t].pc = "signed out" /\ req'[t].token = req[t].token
      BY <1>0, <3>2 DEF ReqType, Pcs
    <3> QED  BY <1>0, <2>1, <3>1, <3>2, <3>3, QuietStep DEF SessionsTypes
  <2> QED  BY <2>2, <2>3
<1>9. ASSUME NEW t \in Tabs, Revoke(t) PROVE SessionsInv'
  BY <1>9, RevokeStep
<1>10. ASSUME NEW t \in Tabs, Receive(t) \/ LoseAnswer(t) PROVE SessionsInv'
  <2>1. /\ req' = [req EXCEPT ![t] = Idle]
        /\ UNCHANGED <<rows, active, plan, loggedOut, strained, closed>>
    BY <1>10 DEF Receive, LoseAnswer
  <2>2. req'[t] = Idle /\ Idle.pc = "idle" /\ Idle.token = NoToken
    BY <1>0, <2>1 DEF SessionsTypes, Idle
  <2>3. CASE req[t].pc = "granted" /\ cookie' = req[t].fresh /\ access' = [access EXCEPT ![t] = TRUE]
    BY <2>1, <2>3, GrantedStep
  <2>4. CASE cookie' \in {cookie, NoToken} /\ access' \in [Tabs -> BOOLEAN]
    BY <2>1, <2>2, <2>4, QuietStep
  <2> QED  BY <1>0, <1>10, <2>3, <2>4 DEF Receive, LoseAnswer, SessionsTypes
<1>11. CASE GraceEnds
  <2>1. PICK x \in Tokens :
          /\ rows[x].used = "recent"
          /\ rows' = [rows EXCEPT ![x].used = "old"]
          /\ strained' = IF cookie = x \/ \E t \in Tabs : req[t].pc = "refresh" /\ req[t].token = x
                         THEN strained \cup {rows[x].family} ELSE strained
          /\ UNCHANGED <<req, cookie, access, active, plan, loggedOut, closed>>
    BY <1>11 DEF GraceEnds
  <2> DEFINE r == [rows[x] EXCEPT !.used = "old"]
  <2>2. /\ r \in RowType /\ r.family = rows[x].family /\ r.revoked = rows[x].revoked /\ r.used = "old"
    BY <1>0 DEF SessionsTypes, RowType
  <2>3. rows' = [rows EXCEPT ![x] = r]
    BY <1>0, <2>1 DEF SessionsTypes
  <2>4. rows[x].family # NoToken
    BY <2>1 DEF SessionsInv, RowsSound
  <2> HIDE DEF r
  <2> QED  BY <2>1, <2>2, <2>3, <2>4, AgeStep DEF Presented
<1>12. CASE RefreshTokenExpires
  <2>1. PICK x \in Tokens :
          /\ Exists(x)
          /\ rows' = [rows EXCEPT ![x].expired = TRUE]
          /\ UNCHANGED <<req, cookie, access, active, plan, loggedOut, strained, closed>>
    BY <1>12 DEF RefreshTokenExpires
  <2> DEFINE r == [rows[x] EXCEPT !.expired = TRUE]
  <2>2. /\ r \in RowType /\ r.family = rows[x].family /\ r.revoked = rows[x].revoked /\ r.used = rows[x].used
    BY <1>0 DEF SessionsTypes, RowType
  <2>3. rows' = [rows EXCEPT ![x] = r] /\ rows[x].family # NoToken
    BY <1>0, <2>1 DEF SessionsTypes, Exists
  <2> HIDE DEF r
  <2> QED  BY <2>1, <2>2, <2>3, AgeStep
<1>13. CASE Deactivate
  <2>1. active' = FALSE /\ UNCHANGED <<rows, req, cookie, access, plan, loggedOut, strained, closed>>
    BY <1>13 DEF Deactivate
  <2>2. SessionsTypeOK' /\ RowsSound' /\ TokensSound'
    BY <2>1 DEF SessionsInv, SessionsTypeOK, RowsSound, TokensSound, TokenOk, Exists
  <2>3. FreshSound'
    BY <2>1 DEF SessionsInv, FreshSound, FreshOk, Undelivered
  <2>4. RevocationSound' /\ ClosedSound'
    BY <2>1 DEF SessionsInv, RevocationSound, CoversFamily, ClosedSound, ClosedFamiliesStayClosed,
                Exists, Rotating, FamilyRows
  <2>5. ReasonsSound'
    BY <2>1 DEF SessionsInv, ReasonsSound, ReasonOk, Presented, Late, TabsDoNotSignOutEachOther
  <2> QED  BY <2>2, <2>3, <2>4, <2>5 DEF SessionsInv
<1> QED
  BY <1>1, <1>2, <1>3, <1>4, <1>5, <1>6, <1>7, <1>8, <1>9, <1>10, <1>11, <1>12, <1>13 DEF SessionsNext

\* Nobody is signed in and no stream is open.
LEMMA InitJobStream == Init => JobStreamInv
<1> SUFFICES ASSUME Init PROVE JobStreamInv
  OBVIOUS
<1> USE Records, NamedTypes DEF Init, SessionsInit
<1>1. SessionsTypes
  BY DEF SessionsTypes
<1>2. RowsSound /\ TokensSound /\ FreshSound
  BY DEF RowsSound, TokensSound, TokenOk, FreshSound, Undelivered, Idle, NoRow
<1>3. RevocationSound /\ ClosedSound
  BY DEF RevocationSound, ClosedSound, ClosedFamiliesStayClosed, Idle
<1>4. ReasonsSound
  BY DEF ReasonsSound, Presented, TabsDoNotSignOutEachOther, Idle, NoRow
<1>5. TypeOK
  <2>1. <<>> \in Seq(Jobs)
    OBVIOUS
  <2>2. tickets \in [Tickets -> [state : {"none", "live", "gone"}, job : Jobs, opened : Seq(Jobs)]]
    BY <2>1, JobStreamAssumption
  <2>3. stream \in [open : BOOLEAN, job : Jobs, subscribed : BOOLEAN, snapshot : BOOLEAN, unread : Nat]
    BY JobStreamAssumption DEF NoStream
  <2> QED  BY <1>1, <2>2, <2>3 DEF TypeOK
<1>6. TicketsSound /\ TicketOpensOneStream /\ ViewSound
  BY DEF TicketsSound, TicketOpensOneStream, ViewSound, NoStream
<1> QED  BY <1>1, <1>2, <1>3, <1>4, <1>5, <1>6 DEF JobStreamInv, SessionsInv, StreamInv

\* The steps of the stream change nothing of the sessions but a tab's access.
LEMMA SessionsKept ==
    ASSUME SessionsInv, access' \in [Tabs -> BOOLEAN],
           UNCHANGED <<rows, req, cookie, active, plan, loggedOut, strained, closed>>
    PROVE  SessionsInv'
<1>1. SessionsTypeOK' /\ RowsSound' /\ TokensSound'
  BY DEF SessionsInv, SessionsTypeOK, RowsSound, TokensSound, TokenOk, Exists
<1>2. FreshSound'
  BY DEF SessionsInv, FreshSound, FreshOk, Undelivered
<1>3. RevocationSound' /\ ClosedSound'
  BY DEF SessionsInv, RevocationSound, CoversFamily, ClosedSound, ClosedFamiliesStayClosed,
         Exists, Rotating, FamilyRows
<1>4. ReasonsSound'
  BY DEF SessionsInv, ReasonsSound, ReasonOk, Presented, Late, TabsDoNotSignOutEachOther
<1> QED  BY <1>1, <1>2, <1>3, <1>4 DEF SessionsInv

\* Steps of the stream do not disturb the sessions.
LEMMA SessionsInvStep == JobStreamInv /\ [Next]_vars => SessionsInv'
<1> SUFFICES ASSUME JobStreamInv, [Next]_vars PROVE SessionsInv'
  OBVIOUS
<1>0. SessionsInv /\ access \in [Tabs -> BOOLEAN]
  BY DEF JobStreamInv, SessionsInv, SessionsTypeOK
<1>1. CASE SessionsNext /\ UNCHANGED streamVars
  BY <1>0, <1>1, SessionsStep
<1>2. CASE UNCHANGED sessionVars
  BY <1>0, <1>2, SessionsKept DEF sessionVars
<1>3. ASSUME NEW t \in Tabs, TicketDenied(t) PROVE SessionsInv'
  BY <1>0, <1>3, SessionsKept DEF TicketDenied
<1> QED
  BY <1>1, <1>2, <1>3 DEF Next, IssueTicket, TicketExpires, OpenStream, Subscribe, Snapshot, Relay,
     Refetch, StreamEnds, Commit, CommitUnannounced, Publish, vars

-----------------------------------------------------------------------------
(* The stream *)

TicketType == [state : {"none", "live", "gone"}, job : Jobs, opened : Seq(Jobs)]

StreamType == [open : BOOLEAN, job : Jobs, subscribed : BOOLEAN, snapshot : BOOLEAN, unread : Nat]

\* The steps that touch a ticket.
LEMMA TicketsStep ==
    ASSUME JobStreamInv, [Next]_vars
    PROVE  tickets' \in [Tickets -> TicketType] /\ TicketsSound' /\ TicketOpensOneStream'
<1>0. tickets \in [Tickets -> TicketType] /\ TicketsSound /\ TicketOpensOneStream
  BY DEF JobStreamInv, StreamInv, TypeOK, TicketType
<1>1. CASE UNCHANGED tickets
  BY <1>0, <1>1 DEF TicketsSound, TicketOpensOneStream
<1>2. ASSUME NEW k \in Tickets, NEW r \in TicketType, tickets' = [tickets EXCEPT ![k] = r],
             r.opened # <<>> => r.state = "gone" /\ r.opened = <<r.job>>
      PROVE  tickets' \in [Tickets -> TicketType] /\ TicketsSound' /\ TicketOpensOneStream'
  <2>1. tickets'[k] = r /\ \A i \in Tickets \ {k} : tickets'[i] = tickets[i]
    BY <1>0, <1>2
  <2> QED  BY <1>0, <1>2, <2>1 DEF TicketsSound, TicketOpensOneStream
<1>3. ASSUME NEW t \in Tabs, IssueTicket(t)
      PROVE  tickets' \in [Tickets -> TicketType] /\ TicketsSound' /\ TicketOpensOneStream'
  <2>1. PICK k \in Tickets, j \in Jobs : /\ tickets[k].state = "none"
                                         /\ tickets' = [tickets EXCEPT ![k].state = "live", ![k].job = j]
    BY <1>3 DEF IssueTicket
  <2> DEFINE r == [tickets[k] EXCEPT !.state = "live", !.job = j]
  <2>2. r \in TicketType /\ tickets' = [tickets EXCEPT ![k] = r]
    BY <1>0, <2>1 DEF TicketType
  <2>3. r.opened = tickets[k].opened /\ tickets[k].opened = <<>>
    BY <1>0, <2>1 DEF TicketType, TicketsSound
  <2> HIDE DEF r
  <2> QED  BY <1>2, <2>2, <2>3
<1>4. CASE TicketExpires
  <2>1. PICK k \in Tickets : /\ tickets[k].state = "live"
                             /\ tickets' = [tickets EXCEPT ![k].state = "gone"]
    BY <1>4 DEF TicketExpires
  <2> DEFINE r == [tickets[k] EXCEPT !.state = "gone"]
  <2>2. r \in TicketType /\ tickets' = [tickets EXCEPT ![k] = r]
    BY <1>0, <2>1 DEF TicketType
  <2>3. r.opened = tickets[k].opened /\ tickets[k].opened = <<>>
    BY <1>0, <2>1 DEF TicketType, TicketsSound
  <2> HIDE DEF r
  <2> QED  BY <1>2, <2>2, <2>3
<1>5. CASE OpenStream
  <2>1. PICK k \in Tickets, j \in Jobs :
          tickets' = [tickets EXCEPT ![k] =
                        IF tickets[k].state = "live" /\ tickets[k].job = j /\ active
                        THEN [Consume(k) EXCEPT !.opened = Append(@, j)] ELSE Consume(k)]
    BY <1>5 DEF OpenStream
  <2>2. tickets[k] \in TicketType
    BY <1>0
  <2>3. CASE tickets[k].state = "live" /\ tickets[k].job = j /\ active
    <3> DEFINE r == [Consume(k) EXCEPT !.opened = Append(@, j)]
    <3>1. tickets[k].opened = <<>>
      BY <1>0, <2>3 DEF TicketsSound
    <3>2. Append(<<>>, j) = <<j>> /\ <<j>> \in Seq(Jobs)
      OBVIOUS
    <3>3. r.state = "gone" /\ r.job = j /\ r.opened = <<j>> /\ r \in TicketType
      BY <2>2, <2>3, <3>1, <3>2 DEF Consume, TicketType
    <3>4. tickets' = [tickets EXCEPT ![k] = r]
      BY <2>1, <2>3
    <3> HIDE DEF r
    <3> QED  BY <1>2, <3>3, <3>4
  <2>4. CASE ~(tickets[k].state = "live" /\ tickets[k].job = j /\ active)
    <3> DEFINE r == Consume(k)
    <3>1. /\ r.state = "gone" /\ r.job = tickets[k].job /\ r.opened = tickets[k].opened /\ r \in TicketType
      BY <2>2 DEF Consume, TicketType
    <3>2. tickets' = [tickets EXCEPT ![k] = r]
      BY <2>1, <2>4
    <3>3. r.opened # <<>> => r.opened = <<r.job>>
      BY <1>0, <3>1 DEF TicketOpensOneStream
    <3> HIDE DEF r
    <3> QED  BY <1>2, <3>1, <3>2, <3>3
  <2> QED  BY <2>3, <2>4
<1> QED
  BY <1>1, <1>3, <1>4, <1>5 DEF Next, TicketDenied, Subscribe, Snapshot, Relay, Refetch, StreamEnds,
     Commit, CommitUnannounced, Publish, vars, streamVars

\* The steps that touch the stream, the client or the job's row.
LEMMA ViewStep ==
    ASSUME JobStreamInv, [Next]_vars
    PROVE  /\ stream' \in StreamType /\ client' \in [view : Nat, refetch : BOOLEAN]
           /\ version' \in Nat /\ pending' \subseteq Publishers /\ unheard' \in BOOLEAN
           /\ ViewSound'
<1>0. /\ stream \in StreamType /\ client \in [view : Nat, refetch : BOOLEAN]
      /\ version \in Nat /\ pending \subseteq Publishers /\ unheard \in BOOLEAN
      /\ ViewSound /\ NoStream \in StreamType
  BY JobStreamAssumption DEF JobStreamInv, StreamInv, TypeOK, StreamType, NoStream
<1> USE <1>0 DEF ViewSound, StreamType
<1>1. CASE UNCHANGED <<stream, client, version, pending, unheard>>
  BY <1>1
<1>2. CASE OpenStream
  <2>1. UNCHANGED <<client, version, pending, unheard>>
    BY <1>2 DEF OpenStream
  <2>2. stream' = stream \/ \E j \in Jobs : stream' = [NoStream EXCEPT !.open = TRUE, !.job = j]
    BY <1>2 DEF OpenStream
  <2>3. CASE stream' = stream
    BY <2>1, <2>3
  <2>4. ASSUME NEW j \in Jobs, stream' = [NoStream EXCEPT !.open = TRUE, !.job = j]
        PROVE  stream' \in StreamType /\ ~stream'.snapshot
    BY <2>4 DEF NoStream
  <2> QED  BY <2>1, <2>2, <2>3, <2>4
<1>3. CASE Subscribe
  BY <1>3 DEF Subscribe
<1>4. CASE Snapshot
  BY <1>4 DEF Snapshot, SnapshotNext
<1>5. CASE Relay
  <2>1. stream.unread \in Nat /\ stream.unread > 0 /\ stream' = [stream EXCEPT !.unread = stream.unread - 1]
    BY <1>5 DEF Relay
  <2>2. stream.unread - 1 \in Nat
    BY <2>1
  <2>3. stream' \in StreamType /\ stream'.snapshot = stream.snapshot /\ stream'.subscribed = stream.subscribed
    BY <2>1, <2>2
  <2> QED  BY <1>5, <2>3 DEF Relay
<1>6. CASE Refetch
  BY <1>6 DEF Refetch
<1>7. CASE StreamEnds
  BY <1>7 DEF StreamEnds, NoStream
<1>8. ASSUME NEW p \in Publishers, Commit(p)
      PROVE  /\ stream' \in StreamType /\ client' \in [view : Nat, refetch : BOOLEAN]
             /\ version' \in Nat /\ pending' \subseteq Publishers /\ unheard' \in BOOLEAN
             /\ ViewSound'
  BY <1>8 DEF Commit
<1>9. ASSUME NEW p \in Publishers, Publish(p)
      PROVE  /\ stream' \in StreamType /\ client' \in [view : Nat, refetch : BOOLEAN]
             /\ version' \in Nat /\ pending' \subseteq Publishers /\ unheard' \in BOOLEAN
             /\ ViewSound'
  <2>1. CASE stream' = Delivered /\ UNCHANGED unheard
    BY <1>9, <2>1 DEF Publish, Delivered
  <2>2. CASE UNCHANGED stream /\ unheard' = TRUE
    BY <1>9, <2>2 DEF Publish
  <2> QED  BY <1>9, <2>1, <2>2 DEF Publish
<1>10. CASE CommitUnannounced
  BY <1>10 DEF CommitUnannounced
<1>11. \/ UNCHANGED <<stream, client, version, pending, unheard>>
       \/ OpenStream \/ Subscribe \/ Snapshot \/ Relay \/ Refetch \/ StreamEnds
       \/ \E p \in Publishers : Commit(p) \/ Publish(p)
       \/ CommitUnannounced
  BY DEF Next, IssueTicket, TicketDenied, TicketExpires, vars, streamVars
<1> QED
  BY <1>1, <1>2, <1>3, <1>4, <1>5, <1>6, <1>7, <1>8, <1>9, <1>10, <1>11

-----------------------------------------------------------------------------
(* Theorems *)

\* The inductive invariant of sign-in, tickets and streams holds in every behaviour.
THEOREM JobStreamInvariant == Spec => []JobStreamInv
<1>1. Init => JobStreamInv
  BY InitJobStream
<1>2. JobStreamInv /\ [Next]_vars => JobStreamInv'
  <2> SUFFICES ASSUME JobStreamInv, [Next]_vars PROVE JobStreamInv'
    OBVIOUS
  <2>1. SessionsInv'
    BY SessionsInvStep
  <2>2. TypeOK'
    BY <2>1, TicketsStep, ViewStep DEF SessionsInv, TypeOK, TicketType, StreamType
  <2> QED  BY <2>1, <2>2, TicketsStep, ViewStep DEF JobStreamInv, StreamInv
<1> QED  BY <1>1, <1>2, PTL DEF Spec

\* No row, request, ticket or stream leaves its type.
THEOREM TypeCorrect == Spec => []TypeOK
<1>1. JobStreamInv => TypeOK
  BY DEF JobStreamInv, StreamInv
<1> QED  BY <1>1, JobStreamInvariant, PTL

\* After revoke_family has run alone, no token of the family is accepted again
\* (auth/service.py, rotate_refresh_token and revoke_family).
THEOREM ClosedFamiliesAreClosed == Spec => []ClosedFamiliesStayClosed
<1>1. JobStreamInv => ClosedFamiliesStayClosed
  BY DEF JobStreamInv, SessionsInv, ClosedSound
<1> QED  BY <1>1, JobStreamInvariant, PTL

\* Tabs that refresh with one cookie within the grace period of
\* rotate_refresh_token never revoke their family.
THEOREM TabsCoexist == Spec => []TabsDoNotSignOutEachOther
<1>1. JobStreamInv => TabsDoNotSignOutEachOther
  BY DEF JobStreamInv, SessionsInv, ReasonsSound
<1> QED  BY <1>1, JobStreamInvariant, PTL

\* A ticket of StreamTicketStore opens at most one stream, of its own job.
THEOREM TicketsOpenOnce == Spec => []TicketOpensOneStream
<1>1. JobStreamInv => TicketOpensOneStream
  BY DEF JobStreamInv, StreamInv
<1> QED  BY <1>1, JobStreamInvariant, PTL

\* Subscribing before the snapshot is read keeps a quiet client current
\* (stream_job_events).
THEOREM QuietViewsAreCurrent == Spec => []QuietViewIsCurrent
<1>1. JobStreamInv => QuietViewIsCurrent
  BY DEF JobStreamInv, StreamInv, TypeOK, ViewSound, QuietViewIsCurrent
<1> QED  BY <1>1, JobStreamInvariant, PTL
=============================================================================
