------------------------- MODULE UserAdministration -------------------------
(***************************************************************************)
(* Administration of users: UserLifecycleAdministrationService and         *)
(* UserAdministrationService with their repositories.  A request resolves  *)
(* how its actor is related to the target and hashes a temporary password  *)
(* first, and then re-reads actor and target in one transaction that       *)
(* checks authority, version and state, changes the user, and remembers    *)
(* its idempotency key.  Several requests overlap, keys are repeated, and  *)
(* relationships change meanwhile.                                         *)
(***************************************************************************)
EXTENDS Integers, FiniteSets

CONSTANTS Superadmins,   \* initial superadmins
          Admins,        \* initial administrators
          Members,       \* initial users
          Invitees,      \* ids of users not yet invited
          ApiKeys,       \* API-key roles that act: "service", "all_services", "system"
          Slots,         \* requests in progress at a time, numbers
          Keys,          \* idempotency keys
          MaxRequests    \* bound on requests

People == Superadmins \cup Admins \cup Members \cup Invitees
Actors == People \cup ApiKeys
Statuses == {"invited", "enrollment_required", "active", "suspended", "deactivated"}

\* No row yet for this email, and the row removed for good.
Absent == [role |-> "none", status |-> "absent", version |-> 0, temp |-> 0]
Deleted == [Absent EXCEPT !.status = "deleted"]
NoRequest == [kind |-> "none"]

VARIABLES
  user,       \* rows of users, with the temporary password in force
  related,    \* pairs <<actor, user>>: a service of the actor's has that user,
              \* and <<actor, actor>>: the actor administers a service
  req,        \* per slot: the request in progress
  idem,       \* idempotency records, by principal, route and key
  shown,      \* temporary passwords displayed so far
  fence,      \* per changed user: whether the actor was related at the change
  count       \* requests made so far

userVars == <<user, related, req, idem, shown, fence, count>>

Row(role, status) == [role |-> role, status |-> status, version |-> 1,
                      temp |-> 0]

Init ==
  /\ user = [u \in People |->
       IF u \in Superadmins THEN Row("superadmin", "active")
       ELSE IF u \in Admins THEN Row("admin", "active")
       ELSE IF u \in Members THEN Row("user", "active")
       ELSE Absent]
  /\ related = ((Admins \cup (ApiKeys \cap {"service"})) \X Members)
                \cup {<<a, a>> : a \in Admins}
  /\ req = [s \in Slots |-> NoRequest]
  /\ idem = <<>>
  /\ shown = {} /\ fence = TRUE /\ count = 0

-----------------------------------------------------------------------------
(* The service layer: what is read before the transaction.                 *)

Resets == {"resetPassword", "reactivate", "restoreEnrollment"}
Invites == {"invite", "inviteAdmin"}
Keyed == Resets \cup Invites \cup {"resetTotp"}
RoleChanges == {"makeUser", "makeAdmin", "makeSuperadmin"}
Kinds == Keyed \cup RoleChanges \cup
         {"suspend", "deactivate", "deleteUser", "updateProfile"}

\* The role an invitation or a role change gives.
RoleOf(kind) ==
  CASE kind \in {"invite", "makeUser"} -> "user"
    [] kind \in {"inviteAdmin", "makeAdmin"} -> "admin"
    [] kind = "makeSuperadmin" -> "superadmin"

\* The role the actor was authenticated with.
ActorRole(a) == IF a \in ApiKeys THEN a ELSE user[a].role

\* commonMutation: related services of actor and target as they are now.
relatedServiceIds(a, u) ==
  /\ <<a, u>> \in related
  /\ \/ a \in ApiKeys
     \/ user[a].role = "admin" /\ user[a].status = "active"
  /\ u = a \/ user[u].role = "user"

-----------------------------------------------------------------------------
(* The transaction.                                                        *)

\* requiredActor: a browser actor is still active in the role it had.
requiredActor(r) ==
  r.actor \notin ApiKeys =>
    user[r.actor].role = r.role /\ user[r.actor].status = "active"

\* requireLifecycleAuthority: for an API key of a service the relationship is
\* read again here, for an administrator the one resolved before counts.
requireLifecycleAuthority(r, allowedApiRoles) ==
  LET t == user[r.target] IN
  IF r.actor \in ApiKeys
  THEN /\ r.role \in allowedApiRoles
       /\ \/ r.role = "system" /\ t.role \in {"user", "admin"}
          \/ r.role = "all_services" /\ t.role = "user"
          \/ /\ r.role = "service" /\ t.role = "user"
             /\ r.services /\ relatedServiceIds(r.actor, r.target)
  ELSE \/ r.role = "superadmin"
       \/ /\ r.role = "admin" /\ r.actor # r.target
          /\ t.role = "user" /\ r.services

\* A service's key assigns the user to its own service; an administrator
\* needs some service.
requireInviteAuthority(r, invited) ==
  \/ r.role \in {"superadmin", "system"}
  \/ invited = "user" /\ r.role \in {"service", "all_services"}
  \/ invited = "user" /\ r.role = "admin" /\ r.services

\* requireProfileAuthority: oneself, superadmins, related administrators and
\* system keys.
requireProfileAuthority(r) ==
  IF r.actor \in ApiKeys
  THEN r.role = "system" /\ user[r.target].role # "superadmin"
  ELSE \/ r.actor = r.target
       \/ r.role = "superadmin"
       \/ r.role = "admin" /\ user[r.target].role = "user" /\ r.services

\* What an operation does with its target: whether it is allowed, and the row
\* it leaves.
Allows(guard, row) == [ok |-> guard, row |-> row]

\* updateUserSecurity: status and role, with a new version.
updateUserSecurity(r, status, role) ==
  [user[r.target] EXCEPT !.status = status, !.role = role, !.version = @ + 1]

\* resetToEnrollment: the new temporary password replaces whatever there was.
resetToEnrollment(r) ==
  [updateUserSecurity(r, "enrollment_required", user[r.target].role)
     EXCEPT !.temp = r.secret]

ActiveSuperadmins ==
  {u \in People : user[u].role = "superadmin" /\ user[u].status = "active"}

\* A variant of requireNotLastActiveSuperadmin: role changes are not checked.
requireNotLastUnlessRole(u, role, status) ==
  user[u].role = "superadmin" /\ user[u].status = "active" /\ status # "active"
    => Cardinality(ActiveSuperadmins) > 1

\* The last active superadmin keeps role and status.
requireNotLastActiveSuperadmin(u, role, status) ==
  /\ user[u].role = "superadmin" /\ user[u].status = "active"
  /\ <<role, status>> # <<"superadmin", "active">>
  => Cardinality(ActiveSuperadmins) > 1

Exists(r) == user[r.target].role # "none"

\* The email is free; invitee ids stand for emails.
invite(r) ==
  Allows(/\ user[r.target] = Absent
         /\ requireInviteAuthority(r, RoleOf(r.kind)),
         [role |-> RoleOf(r.kind), status |-> "invited", version |-> 1,
          temp |-> r.secret])

resetPassword(r) ==
  Allows(/\ requireLifecycleAuthority(r, {"service", "all_services", "system"})
         /\ user[r.target].status = "active",
         resetToEnrollment(r))

reactivate(r) ==
  Allows(/\ requireLifecycleAuthority(r, {"system"})
         /\ user[r.target].status = "suspended",
         resetToEnrollment(r))

restoreEnrollment(r) ==
  Allows(/\ requireLifecycleAuthority(r, {"system"})
         /\ user[r.target].status = "deactivated",
         resetToEnrollment(r))

resetTotp(r) ==
  Allows(/\ requireLifecycleAuthority(r, {"service", "all_services", "system"})
         /\ user[r.target].status = "active",
         updateUserSecurity(r, "active", user[r.target].role))

requireStatusTransition(current, next) ==
  <<current, next>> \in {<<"active", "suspended">>, <<"active", "deactivated">>,
                        <<"suspended", "deactivated">>}

\* Deactivation deletes the temporary password with the other credentials.
transition(r) ==
  LET t == user[r.target]
      next == IF r.kind = "suspend" THEN "suspended" ELSE "deactivated"
      row == updateUserSecurity(r, next, t.role) IN
  Allows(/\ requireLifecycleAuthority(r, {"system"})
         /\ requireStatusTransition(t.status, next)
         /\ requireNotLastActiveSuperadmin(r.target, t.role, next),
         IF next = "deactivated" THEN [row EXCEPT !.temp = 0] ELSE row)

\* Any status, for superadmins, and for system keys where none is involved.
changeRole(r) ==
  LET t == user[r.target] IN
  Allows(/\ RoleOf(r.kind) # t.role
         /\ IF r.actor \in ApiKeys
            THEN r.role = "system" /\ "superadmin" \notin {t.role, RoleOf(r.kind)}
            ELSE r.role = "superadmin"
         /\ requireNotLastActiveSuperadmin(r.target, RoleOf(r.kind), t.status),
         updateUserSecurity(r, t.status, RoleOf(r.kind)))

deleteUser(r) ==
  LET t == user[r.target] IN
  Allows(r.role \in {"superadmin", "system"} /\ t.role # "superadmin"
           /\ t.status = "deactivated",
         Deleted)

\* updateProfile: names and email only; the version moves.
updateProfile(r) ==
  Allows(requireProfileAuthority(r),
         updateUserSecurity(r, user[r.target].status, user[r.target].role))

Mutation(r) ==
  CASE r.kind \in Invites -> invite(r)
    [] r.kind = "resetPassword" -> resetPassword(r)
    [] r.kind = "reactivate" -> reactivate(r)
    [] r.kind = "restoreEnrollment" -> restoreEnrollment(r)
    [] r.kind = "resetTotp" -> resetTotp(r)
    [] r.kind \in {"suspend", "deactivate"} -> transition(r)
    [] r.kind \in RoleChanges -> changeRole(r)
    [] r.kind = "deleteUser" -> deleteUser(r)
    [] r.kind = "updateProfile" -> updateProfile(r)

\* transaction.idempotent: the record of the same principal, route and key.
\* The same digest is answered without the password, another one conflicts.
RecordKey(r) == <<r.actor, r.kind, r.key>>
Known(r) == r.kind \in Keyed /\ RecordKey(r) \in DOMAIN idem

Remember(r) ==
  IF r.kind \in Keyed
  THEN [k \in DOMAIN idem \cup {RecordKey(r)} |-> IF k = RecordKey(r) THEN r ELSE idem[k]]
  ELSE idem

\* An invitation by a service's key assigns the user to that service.
assignInvitedUser(r) ==
  IF r.kind = "invite" /\ r.role = "service"
  THEN related \cup {<<r.actor, r.target>>} ELSE related

\* currentMutationRows: actor and target as they are now, at the version seen.
Commits(r) ==
  /\ r.kind \notin Invites => Exists(r)
  /\ requiredActor(r)
  /\ user[r.target].version = r.version
  /\ Mutation(r).ok

-----------------------------------------------------------------------------
(* A request before its transaction.                                       *)

\* commonMutation: the actor as authenticated, the version it saw, the
\* relationship as it is now, and a temporary password of its own.
RequestOf(a, u, kind, key) ==
  [kind |-> kind, actor |-> a, role |-> ActorRole(a), target |-> u,
   version |-> user[u].version, key |-> key, secret |-> count + 1,
   services |-> relatedServiceIds(a, IF kind \in Invites THEN a ELSE u)]

\* The first free slot takes a request.
Takes(s, r) ==
  /\ req[s] = NoRequest
  /\ \A t \in Slots : req[t] = NoRequest => s <= t
  /\ count < MaxRequests
  /\ count' = count + 1
  /\ req' = [req EXCEPT ![s] = r]
  /\ UNCHANGED <<user, related, idem, shown, fence>>

\* A request that could not commit now cannot commit later either, because
\* the version it saw must still be current: only the others are followed.
commonMutation(s) ==
  /\ req[s] = NoRequest
  /\ count < MaxRequests
  /\ \E u \in People, a \in Actors, kind \in Kinds :
       \E key \in IF kind \in Keyed THEN Keys ELSE {"none"} :
         LET r == RequestOf(a, u, kind, key) IN
         /\ r.role # "user" \/ kind = "updateProfile"
         /\ Commits(r)
         /\ Takes(s, r)

\* The caller repeats a request whose answer it may have lost.
repeated(s) ==
  \E k \in DOMAIN idem :
    Takes(s, [idem[k] EXCEPT !.secret = count + 1])

\* Only the execution displays the password it generated.
Displays(r) == r.kind \in Resets \cup Invites /\ ~Known(r) /\ Commits(r)

\* One transaction, and the reply with the temporary password it stored.
auditedMutation(s) ==
  LET r == req[s] IN
  /\ r # NoRequest
  /\ req' = [req EXCEPT ![s] = NoRequest]
  /\ shown' = IF Displays(r)
              THEN shown \cup {[user |-> r.target, secret |-> r.secret]}
              ELSE shown
  /\ UNCHANGED count
  /\ \/ /\ ~Known(r) /\ Commits(r)
        /\ user' = [user EXCEPT ![r.target] = Mutation(r).row]
        /\ related' = IF r.kind = "deleteUser"
                      THEN {p \in related : r.target \notin {p[1], p[2]}}
                      ELSE assignInvitedUser(r)
        /\ idem' = Remember(r)
        /\ fence' = (r.role \in {"admin", "service"} /\ r.actor # r.target
                      /\ r.kind \notin Invites
                     => relatedServiceIds(r.actor, r.target))
     \/ /\ Known(r) \/ ~Commits(r)
        /\ UNCHANGED <<user, related, idem, fence>>

-----------------------------------------------------------------------------
(* Enrolment and relationships.                                            *)

\* The user redeems the temporary password and completes enrolment.
Enrol ==
  \E u \in People :
    /\ user[u].status \in {"invited", "enrollment_required"}
    /\ user' = [user EXCEPT ![u].status = "active", ![u].temp = 0,
                            ![u].version = @ + 1]
    /\ UNCHANGED <<related, req, idem, shown, fence, count>>

\* A service drops the administrator or the user.
Unrelate ==
  \E p \in related :
    /\ related' = related \ {p}
    /\ UNCHANGED <<user, req, idem, shown, fence, count>>

Next ==
  \/ \E s \in Slots : commonMutation(s) \/ repeated(s) \/ auditedMutation(s)
  \/ Enrol \/ Unrelate

Spec == Init /\ [][Next]_userVars

-----------------------------------------------------------------------------
(* Properties.                                                             *)

TypeOK ==
  /\ \A u \in People :
       /\ user[u].status \in Statuses \cup {"absent", "deleted"}
       /\ user[u].role \in {"none", "user", "admin", "superadmin"}
  /\ related \subseteq Actors \X Actors
  /\ count \in 0 .. MaxRequests

\* However requests overlap, some superadmin stays active or holds a
\* temporary password to enrol with: suspension, deactivation, role changes
\* and deletion never take the last one away, whoever asks
\* (requireNotLastActiveSuperadmin, deleteUser).
SuperadminRecoverable ==
  /\ TypeOK
  /\ \E u \in People : /\ user[u].role = "superadmin"
                       /\ user[u].status \in {"active", "enrollment_required"}

\* A reply displays exactly the temporary password its own transaction put
\* in force: a repeated, refused or overtaken request displays none, and no
\* password is put in force that nobody is shown (temporaryMaterial,
\* idempotentMutation, resetToEnrollment).
DisplayedIsStored ==
  [][\A u \in People, n \in 1 .. MaxRequests :
       [user |-> u, secret |-> n] \in shown' \ shown <=>
         user'[u].temp = n /\ user[u].temp # n]_userVars

=============================================================================
