----------------------------- MODULE AccessRecords -----------------------------
(***************************************************************************)
(* Web sessions and agent connections as administrators see and end them   *)
(* (accessManagement.ts): the keyset-paged lists, single and bulk          *)
(* revocation, and the cleanup that deletes inactive records and keeps     *)
(* evidence of them.                                                       *)
(*                                                                         *)
(* A list is walked page by page, newest use first, while records are      *)
(* used, issued and revoked; the cursor is the last row's time and id.  A  *)
(* regular administrator acts on a user's agent connections only while it  *)
(* administers every service that the user has.                            *)
(*                                                                         *)
(* Bounds: the records of Records (Issued at the start) as KindOf and      *)
(* OwnerOf say, the services of Svcs, MaxTime ticks, MaxWork steps besides *)
(* those of the walk.                                                      *)
(***************************************************************************)
EXTENDS Naturals, FiniteSets

CONSTANTS Records, Issued, KindOf, OwnerOf, Svcs, PageSize, RevocationLimit, Retention, MaxTime, MaxWork

VARIABLES record,    \* browser_sessions and oauth_grants
          uses,      \* the effective services of each owner
          manages,   \* service_admins of the regular administrator
          evidence,  \* access_cleanup_evidence
          walk,      \* one administrator's walk through a list
          tick, work

accessVars == <<record, uses, manages, evidence, walk, tick, work>>

Owners == {OwnerOf[r] : r \in Records}

Viewers == {"root", "adm"}

NoEvidence == [kept |-> FALSE, services |-> {}, exp |-> 0]

NoWalk == [state |-> "none", viewer |-> "root", kind |-> "session", more |-> FALSE, at |-> 0, id |-> 0,
           shown |-> {}, twice |-> {}, base |-> {}, moved |-> {}]

Row(status, used, since) == [status |-> status, used |-> used, since |-> since]

Active(r) == record[r].status = "active"

Works == work < MaxWork /\ work' = work + 1

-----------------------------------------------------------------------------
(***************************************************************************)
(* Scope.                                                                  *)
(***************************************************************************)
\* REGULAR_ADMIN_GRANT_ACCESS_SQL: some service, and none that is another's.
RegularAdminGrantAccess(u) == uses[u] # {} /\ uses[u] \subseteq manages

\* The evidence authorizes a regular administrator only while the owner has the
\* services that were recorded.
hasAuthorizedCleanupEvidence(v, r) ==
  /\ evidence[r].kept /\ evidence[r].exp > tick
  /\ v = "adm" =>
       /\ KindOf[r] = "grant"
       /\ evidence[r].services # {} /\ evidence[r].services = uses[OwnerOf[r]]
       /\ evidence[r].services \subseteq manages

Present(r) == record[r].status \in {"active", "revoked"}

\* What revokeAdministrativeSession and revokeAdministrativeGrant answer to a viewer:
\* not found unless the record, or evidence of it, is in scope.
Answered(v, r) ==
  \/ v = "root" /\ Present(r)
  \/ v = "adm" /\ KindOf[r] = "grant" /\ Present(r) /\ RegularAdminGrantAccess(OwnerOf[r])
  \/ hasAuthorizedCleanupEvidence(v, r)

-----------------------------------------------------------------------------
(***************************************************************************)
(* Records.  A record whose row changes while the list is walked is noted. *)
(***************************************************************************)
Moved(rs) == walk' = IF walk.state = "on" THEN [walk EXCEPT !.moved = @ \cup rs] ELSE walk

Issue(r) ==
  /\ Works /\ record[r].status = "none"
  /\ record' = [record EXCEPT ![r] = Row("active", tick, 0)]
  /\ Moved({r})
  /\ UNCHANGED <<uses, manages, evidence, tick>>

\* Activity in the session, or a refresh of the connection.
Touch(r) ==
  /\ Works /\ Active(r) /\ record[r].used # tick
  /\ record' = [record EXCEPT ![r].used = tick]
  /\ Moved({r})
  /\ UNCHANGED <<uses, manages, evidence, tick>>

\* revokeGrantSet, and the UPDATE of browser_sessions: only active rows change.
revokeSet(rs) ==
  LET live == {r \in rs : Active(r)}
  IN /\ live # {}
     /\ record' = [r \in Records |-> IF r \in live THEN Row("revoked", record[r].used, tick) ELSE record[r]]
     /\ Moved(live)

\* revokeSession, revokeGrant, revokeOwnSessions and revokeOwnGrants.
revokeOwn(u, kind, rs) ==
  /\ Works
  /\ revokeSet({r \in rs : OwnerOf[r] = u /\ KindOf[r] = kind})
  /\ UNCHANGED <<uses, manages, evidence, tick>>

revokeAdministrative(v, r) ==
  /\ Works /\ Answered(v, r)
  /\ revokeSet({r})
  /\ UNCHANGED <<uses, manages, evidence, tick>>

\* requireGlobalRevocationCapacity
WithinCapacity(kind) == Cardinality({r \in Records : KindOf[r] = kind /\ Active(r)}) <= RevocationLimit

\* revokeSessionBulk and revokeGrantBulk.
revokeBulk(v, kind, us) ==
  /\ Works
  /\ v = "adm" => kind = "grant" /\ Cardinality(us) = 1 /\ \A u \in us : RegularAdminGrantAccess(u)
  /\ us = Owners => WithinCapacity(kind)
  /\ revokeSet({r \in Records : OwnerOf[r] \in us /\ KindOf[r] = kind})
  /\ UNCHANGED <<uses, manages, evidence, tick>>

\* The assignments of an owner, or the services of the administrator, change.
Reassign(u, s) ==
  /\ Works
  /\ uses' = [uses EXCEPT ![u] = IF s \in @ THEN @ \ {s} ELSE @ \cup {s}]
  /\ Moved({r \in Records : OwnerOf[r] = u})
  /\ UNCHANGED <<record, manages, evidence, tick>>

Readminister(s) ==
  /\ Works
  /\ manages' = IF s \in manages THEN manages \ {s} ELSE manages \cup {s}
  /\ Moved(Records)
  /\ UNCHANGED <<record, uses, evidence, tick>>

Cleanable(r, before) == record[r].status = "revoked" /\ record[r].since <= before

Evidence(r) ==
  [kept |-> TRUE, exp |-> tick + Retention,
   services |-> IF KindOf[r] = "grant" THEN uses[OwnerOf[r]] ELSE {}]

cleanupInactive(before) ==
  /\ Works
  /\ LET gone == {r \in Records : Cleanable(r, before)}
     IN /\ gone # {}
        /\ record' = [r \in Records |-> IF r \in gone THEN Row("cleaned", 0, 0) ELSE record[r]]
        /\ evidence' = [r \in Records |-> IF r \in gone THEN Evidence(r) ELSE evidence[r]]
        /\ Moved(gone)
  /\ UNCHANGED <<uses, manages, tick>>

-----------------------------------------------------------------------------
(***************************************************************************)
(* The lists: sessionsPage for superadmins, grantsPage for both.           *)
(***************************************************************************)
Visible(v, kind) ==
  {r \in Records : KindOf[r] = kind /\ Active(r)
     /\ (v = "adm" => RegularAdminGrantAccess(OwnerOf[r]))}

Before(r, s) == record[r].used > record[s].used \/ (record[r].used = record[s].used /\ r < s)

\* A variant of After: rows with the time of the cursor are taken to be shown.
AfterTime(r) == ~walk.more \/ record[r].used < walk.at

\* Rows past the cursor, which the first page does not have.
After(r) ==
  ~walk.more \/ record[r].used < walk.at \/ (record[r].used = walk.at /\ r > walk.id)

WalkStarts(v, kind) ==
  /\ walk.state = "none" /\ (v = "adm" => kind = "grant")
  /\ walk' = [NoWalk EXCEPT !.state = "on", !.viewer = v, !.kind = kind, !.base = Visible(v, kind)]
  /\ UNCHANGED <<record, uses, manages, evidence, tick, work>>

NextPage ==
  /\ walk.state = "on"
  /\ LET rest == {r \in Visible(walk.viewer, walk.kind) : After(r)}
         page == {r \in rest : Cardinality({s \in rest : Before(s, r)}) < PageSize}
         seen == [walk EXCEPT !.shown = @ \cup page, !.twice = @ \cup (walk.shown \cap page)]
     IN IF page = rest
        THEN walk' = [seen EXCEPT !.state = "done", !.more = FALSE, !.at = 0, !.id = 0]
        ELSE \E last \in page :
               /\ \A r \in page : r = last \/ Before(r, last)
               /\ walk' = [seen EXCEPT !.more = TRUE, !.at = record[last].used, !.id = last]
  /\ UNCHANGED <<record, uses, manages, evidence, tick, work>>

Tick ==
  /\ tick < MaxTime
  /\ tick' = tick + 1
  /\ UNCHANGED <<record, uses, manages, evidence, walk, work>>

Init ==
  /\ record = [r \in Records |-> Row(IF r \in Issued THEN "active" ELSE "none", 0, 0)]
  /\ uses = [u \in Owners |-> Svcs] /\ manages = Svcs
  /\ evidence = [r \in Records |-> NoEvidence]
  /\ walk = NoWalk /\ tick = 0 /\ work = 0

Next ==
  \/ \E r \in Records : Issue(r) \/ Touch(r)
  \/ \E u \in Owners, k \in {"session", "grant"} :
       revokeOwn(u, k, Records) \/ \E r \in Records : revokeOwn(u, k, {r})
  \/ \E v \in Viewers, r \in Records : revokeAdministrative(v, r)
  \/ \E v \in Viewers, k \in {"session", "grant"}, us \in {Owners} \cup {{u} : u \in Owners} :
       revokeBulk(v, k, us)
  \/ \E u \in Owners, s \in Svcs : Reassign(u, s)
  \/ \E s \in Svcs : Readminister(s)
  \/ \E b \in 0..tick : cleanupInactive(b)
  \/ \E v \in Viewers, k \in {"session", "grant"} : WalkStarts(v, k)
  \/ NextPage \/ Tick

Spec == Init /\ [][Next]_accessVars

-----------------------------------------------------------------------------
TypeOK ==
  /\ \A r \in Records : record[r].status \in {"none", "active", "revoked", "cleaned"}
  /\ manages \subseteq Svcs /\ \A u \in Owners : uses[u] \subseteq Svcs

(***************************************************************************)
(* A list walked to its end, whatever is used, issued, revoked or          *)
(* reassigned meanwhile, has shown every record that was there at the      *)
(* start and did not change, and none of those twice.                      *)
(***************************************************************************)
PagesComplete ==
  /\ TypeOK
  /\ walk.twice \subseteq walk.moved
  /\ walk.state = "done" => walk.base \ walk.moved \subseteq walk.shown

(***************************************************************************)
(* The cleanup takes no record that could still be used, and whoever could *)
(* repeat the revocation of a record before the cleanup gets the same      *)
(* answer after it, and nobody else does.                                  *)
(***************************************************************************)
CleanupKeepsAnswers ==
  [][\A r \in Records : record[r].status # "cleaned" /\ record'[r].status = "cleaned" =>
       /\ ~Active(r)
       /\ \A v \in Viewers : Answered(v, r) <=> Answered(v, r)']_accessVars
=============================================================================
