---------------------------- MODULE ControlServer ----------------------------
(***************************************************************************)
(* A request to the control API from the socket to its answer              *)
(* (src/control/security.ts, routeRegistry.ts, the authorization seams and *)
(* restoreMaintenance.ts).  Every await of the pipeline is a step, so that *)
(* two requests, a restore commit, a background job and the revocation of  *)
(* the session interleave.                                                 *)
(*                                                                         *)
(* One browser session and one API key are used; a caller says which, with *)
(* the role, whether the target lies in its scope, and which step-up it    *)
(* has done: "fresh" (within five minutes) or "proof" (an operation-bound  *)
(* proof for exactly this operation: a repeated request carries the proof  *)
(* of the first, the commit of another preview has its own).               *)
(*                                                                         *)
(* Bounds: MaxRequests, and a later request repeats the first or commits a *)
(* restore (SubmitAgain, SubmitCommit).                                    *)
(***************************************************************************)
EXTENDS ControlRoutes, Naturals

CONSTANTS MaxRequests,   \* the requests of one behaviour (bound)
          StepUpModes,   \* the configured step_up_mode values considered
          RouteIds       \* the routes that are called

Requests == 1..MaxRequests   \* numbered in the order they arrive

VARIABLES req,           \* per request: what its handler has done so far
          gate,          \* RestoreMaintenanceGate: phase and active leases
          spent,         \* the operations whose step-up proof has been consumed
          session,       \* the browser session is live
          job,           \* a background job holds an ordinary lease
          mode           \* the configured step-up mode

vars == <<req, gate, spent, session, job, mode>>

Caller(method, role, scoped, stepped) ==
  [method |-> method, role |-> role, scoped |-> scoped, stepped |-> stepped]

Anonymous == Caller("none", "user", FALSE, "none")

Callers ==
  {Anonymous, Caller("restricted_session", "user", FALSE, "none")}
    \cup {Caller("browser_session", role, scoped, stepped) :
            role \in Roles \ ApiRoles, scoped \in BOOLEAN,
            stepped \in {"none", "fresh", "proof"}}
    \cup {Caller("api_key", role, scoped, "none") :
            role \in ApiRoles, scoped \in BOOLEAN}

\* The answers the properties tell apart: every contract error (400, 401, 403,
\* 404, 429, 503) is "refused".
Fate == {"pending", "refused", "internal_error", "ok"}

Phases == {"idle", "received", "bound", "authorized", "entered", "claimed",
           "draining", "exclusive", "handled", "done"}

Idle ==
  [phase |-> "idle", op |-> 0, route |-> RouteNamed("control.health"), caller |-> Anonymous,
   lease |-> FALSE, handle |-> FALSE, consumed |-> FALSE, effect |-> FALSE,
   records |-> 0, reply |-> "pending"]

Outcome(route, caller) ==
  IF route.permission \in {"authenticated", "none"} THEN "allow"
  ELSE permissionOutcome(caller.role, route.permission)

-----------------------------------------------------------------------------
(***************************************************************************)
(* The authorization seams, outermost first.                               *)
(***************************************************************************)
BrowserScope(outcome) == outcome \in {"self", "self_permitted"}

ServiceScope(route, caller, outcome) ==
  CASE outcome = "all_services" ->
         caller.role \in {"superadmin", "all_services"}
    [] outcome = "assigned_services" ->
         route.target \in {"service", "services"} /\ caller.scoped
    [] outcome = "service_names_only" ->
         caller.role = "user" /\ route.target = "me"
    [] outcome = "scoped_service" ->
         caller.role = "service" /\ route.target = "service" /\ caller.scoped
    [] OTHER -> BrowserScope(outcome)

UserScope(route, caller, outcome) ==
  LET invites == route.permission = "invite_ordinary_user" IN
  CASE invites /\ outcome = "all_services" ->
         caller.role \in {"superadmin", "all_services"}
    [] invites /\ outcome = "ordinary_users_without_assignment" ->
         caller.role = "system"
    [] invites /\ outcome = "scoped_service" -> caller.role = "service"
    [] invites /\ outcome = "assigned_services" -> caller.scoped
    [] outcome = "last_superadmin_rules" -> caller.role = "superadmin"
    [] outcome \in {"all_ordinary_users", "all_ordinary_users_step_up"} ->
         caller.role \in {"superadmin", "all_services", "system"}
    [] outcome \in {"related_users", "related_users_not_self",
                    "related_users_step_up"} ->
         /\ outcome = "related_users_not_self" => route.target = "user"
         /\ caller.method = "api_key" => route.target = "user"
         /\ caller.scoped
    [] OTHER -> ServiceScope(route, caller, outcome)

authorizeScope(route, caller) ==
  LET outcome == Outcome(route, caller) IN
    permissionNeedsScope(outcome) => UserScope(route, caller, outcome)

scopeDenialHidesResource(route, outcome) ==
  /\ outcome \in {"assigned_services", "assigned_services_step_up",
                  "scoped_service", "related_users", "related_users_not_self",
                  "related_users_step_up"}
  /\ route.target \in {"service", "user", "other"}

NeedsStepUp(route, caller) ==
  \/ permissionNeedsHumanStepUp(Outcome(route, caller))
  \/ caller.method = "browser_session" /\ route.stepUp # "none"

\* The rule always, on the route or in the settings, asks for a proof.
AsksProof(route) == route.stepUp = "always" \/ mode = "always"

\* alwaysProof: bound to this operation, unspent, of a session still live.
ProofReadable(op) == session /\ op \notin spent

verifyStepUp(route, caller, op) ==
  IF AsksProof(route)
    THEN caller.stepped = "proof" /\ ProofReadable(op)
    ELSE caller.stepped = "fresh" /\ session

\* What authorizeRoute answers; "ok" lets the request on.
authorizeRoute(route, caller, op) ==
  LET outcome == Outcome(route, caller) IN
  CASE IsPublic(route) -> "ok"
    [] ~IsPublic(route) /\ outcome \in {"deny", "no_account"} -> "forbidden"
    [] ~IsPublic(route) /\ outcome \notin {"deny", "no_account"} ->
         IF ~authorizeScope(route, caller)
           THEN IF scopeDenialHidesResource(route, outcome)
                  THEN "not_found" ELSE "forbidden"
         ELSE IF ~NeedsStepUp(route, caller) THEN "ok"
         ELSE IF caller.method # "browser_session" THEN "forbidden"
         ELSE IF verifyStepUp(route, caller, op) THEN "ok" ELSE "step_up_required"

-----------------------------------------------------------------------------
(***************************************************************************)
(* The maintenance gate.                                                   *)
(***************************************************************************)
acquireOrdinary == gate.phase = "open" /\ gate' = [gate EXCEPT !.active = @ + 1]

release(held) ==
  gate' = IF held THEN [gate EXCEPT !.active = @ - 1] ELSE gate

\* A request ends: its lease goes back in the finally block.
Answer(r, reply) ==
  /\ req' = [req EXCEPT ![r].phase = "done", ![r].reply = reply,
                        ![r].lease = FALSE]
  /\ release(req[r].lease)

\* As Answer, with the API-key activity written first; a write that fails
\* turns the answer into an internal error.
AnswerRecorded(r, reply) ==
  \/ /\ req[r].caller.method = "api_key"
     /\ req' = [req EXCEPT ![r].phase = "done", ![r].reply = reply,
                           ![r].lease = FALSE, ![r].records = @ + 1]
     /\ release(req[r].lease)
  \/ req[r].caller.method = "api_key" /\ Answer(r, "internal_error")
  \/ req[r].caller.method # "api_key" /\ Answer(r, reply)

-----------------------------------------------------------------------------
Init ==
  /\ req = [r \in Requests |-> Idle]
  /\ gate = [phase |-> "open", active |-> 0]
  /\ spent = {}
  /\ session = TRUE
  /\ job = FALSE
  /\ mode \in StepUpModes

\* Callers that differ only in what the route does not look at are one.
Sensible(route, caller) ==
  /\ route.id \in RouteIds
  /\ caller.scoped =>
       permissionNeedsScope(Outcome(route, caller)) /\ ~IsPublic(route)
  /\ caller.stepped # "none" =>
       NeedsStepUp(route, caller) /\ ~IsPublic(route)
  /\ IsPublic(route) => caller = Anonymous

FirstRequests ==
  {call \in Routes \X Callers : Sensible(call[1], call[2])}

RestoreCommit ==
  <<RouteNamed("restores.commit"),
    Caller("browser_session", "superadmin", FALSE, "proof")>>

SubmitFirst(r) ==
  /\ r = 1 /\ req[r].phase = "idle"
  /\ \E call \in FirstRequests :
       req' = [req EXCEPT ![r].phase = "received", ![r].op = r,
                          ![r].route = call[1], ![r].caller = call[2]]
  /\ UNCHANGED <<gate, spent, session, job, mode>>

\* The client sends its request again, with the same proof.
SubmitAgain(r) ==
  /\ r > 1 /\ req[r].phase = "idle"
  /\ req[1].phase # "idle" /\ req[1].route.method # "GET"
  /\ req' = [req EXCEPT ![r] = [Idle EXCEPT
       !.phase = "received", !.op = req[1].op,
       !.route = req[1].route, !.caller = req[1].caller]]
  /\ UNCHANGED <<gate, spent, session, job, mode>>

\* Another request commits a restore, of a preview of its own.
SubmitCommit(r) ==
  /\ r > 1 /\ req[r].phase = "idle" /\ req[1].phase # "idle"
  /\ req' = [req EXCEPT ![r].phase = "received", ![r].op = r,
                        ![r].route = RestoreCommit[1],
                        ![r].caller = RestoreCommit[2]]
  /\ UNCHANGED <<gate, spent, session, job, mode>>

\* The onRequest hook: headers, authentication, method, rate limit, CSRF.
OnRequestPasses(r) ==
  LET route == req[r].route
      caller == req[r].caller IN
  /\ req[r].phase = "received"
  /\ IsPublic(route) \/ caller.method \in route.auth
  /\ caller.method \in {"browser_session", "restricted_session"} => session
  /\ req' = [req EXCEPT ![r].phase = "bound"]
  /\ UNCHANGED <<gate, spent, session, job, mode>>

\* A bad authority, origin or activity marker, before authentication or, for
\* a marker on an API-key request, after it and without a record.
OnRequestMalformed(r) ==
  /\ req[r].phase = "received"
  /\ Answer(r, "refused")
  /\ UNCHANGED <<spent, session, job, mode>>

OnRequestUnauthenticated(r) ==
  /\ req[r].phase = "received"
  /\ ~IsPublic(req[r].route)
  /\ \/ req[r].caller.method = "none"
     \/ req[r].caller.method # "api_key" /\ ~session
  /\ Answer(r, "refused")
  /\ UNCHANGED <<spent, session, job, mode>>

OnRequestWrongMethod(r) ==
  /\ req[r].phase = "received"
  /\ ~IsPublic(req[r].route)
  /\ req[r].caller.method \notin req[r].route.auth \cup {"none"}
  /\ req[r].caller.method # "api_key" => session
  /\ AnswerRecorded(r, "refused")
  /\ UNCHANGED <<spent, session, job, mode>>

OnRequestRateLimited(r) ==
  /\ req[r].phase = "received"
  /\ req[r].route.rate # "none"
  /\ IsPublic(req[r].route) \/ req[r].caller.method \in req[r].route.auth
  /\ AnswerRecorded(r, "refused")
  /\ UNCHANGED <<spent, session, job, mode>>

OnRequestCsrf(r) ==
  /\ req[r].phase = "received"
  /\ req[r].caller.method \in {"browser_session", "restricted_session"}
  /\ req[r].caller.method \in req[r].route.auth
  /\ req[r].route.method # "GET"
  /\ session
  /\ Answer(r, "refused")
  /\ UNCHANGED <<spent, session, job, mode>>

\* The body, the query, If-Match or the idempotency key does not parse.
ParseFails(r) ==
  /\ req[r].phase = "bound"
  /\ AnswerRecorded(r, "refused")
  /\ UNCHANGED <<spent, session, job, mode>>

Authorize(r) ==
  LET route == req[r].route
      caller == req[r].caller IN
  /\ req[r].phase = "bound"
  /\ authorizeRoute(route, caller, req[r].op) = "ok"
  /\ req' = [req EXCEPT
       ![r].phase = "authorized",
       ![r].handle = /\ ~IsPublic(route)
                     /\ NeedsStepUp(route, caller)
                     /\ AsksProof(route)]
  /\ UNCHANGED <<gate, spent, session, job, mode>>

AuthorizeRefused(r) ==
  /\ req[r].phase = "bound"
  /\ authorizeRoute(req[r].route, req[r].caller, req[r].op) # "ok"
  /\ AnswerRecorded(r, "refused")
  /\ UNCHANGED <<spent, session, job, mode>>

TakesLease(route) == ~IsPublic(route) /\ route.id \notin RestoreMaintenanceExempt

\* The ordinary lease, then the API key's "allow" activity, then the handler.
Enter(r) ==
  /\ req[r].phase = "authorized"
  /\ IF TakesLease(req[r].route) THEN acquireOrdinary ELSE UNCHANGED gate
  /\ req' = [req EXCEPT
       ![r].phase = "entered", ![r].lease = TakesLease(req[r].route),
       ![r].records = IF req[r].caller.method = "api_key" THEN @ + 1 ELSE @]
  /\ UNCHANGED <<spent, session, job, mode>>

EnterInMaintenance(r) ==
  /\ req[r].phase = "authorized"
  /\ TakesLease(req[r].route) /\ gate.phase # "open"
  /\ AnswerRecorded(r, "refused")
  /\ UNCHANGED <<spent, session, job, mode>>

\* The "allow" activity cannot be written: the handler is not called.
EnterUnrecorded(r) ==
  /\ req[r].phase = "authorized"
  /\ req[r].caller.method = "api_key"
  /\ TakesLease(req[r].route) => gate.phase = "open"
  /\ Answer(r, "internal_error")
  /\ UNCHANGED <<spent, session, job, mode>>

\* A variant of Consumable: the handle is trusted without the stored proof.
ConsumableByHandle(r) == TRUE

\* withConsumedProof: the stored proof is unspent and its session still live.
Consumable(r) == session /\ req[r].op \notin spent

Spends(r) == req[r].handle /\ req[r].route.proof # "ignored"

\* The handler's transaction commits, spending the proof where it takes one.
Handle(r) ==
  /\ req[r].phase = "entered"
  /\ req[r].route.id # "restores.commit"
  /\ req[r].route.proof = "required" => req[r].handle
  /\ Spends(r) => Consumable(r)
  /\ spent' = IF Spends(r) THEN spent \cup {req[r].op} ELSE spent
  /\ req' = [req EXCEPT ![r].phase = "handled", ![r].effect = TRUE,
                        ![r].consumed = Spends(r)]
  /\ UNCHANGED <<gate, session, job, mode>>

\* The handler refuses: a stale version, a missing row, no usable proof.
HandleRefuses(r) ==
  /\ req[r].phase = "entered"
  /\ Answer(r, "refused")
  /\ UNCHANGED <<spent, session, job, mode>>

\* After the handler: a proof that was read has to have been consumed.
Reply(r) ==
  /\ req[r].phase = "handled"
  /\ Answer(r, IF req[r].handle /\ ~req[r].consumed
                 THEN "internal_error" ELSE "ok")
  /\ UNCHANGED <<spent, session, job, mode>>

-----------------------------------------------------------------------------
(***************************************************************************)
(* restores.commit: the proof and the claim on the preview, the exclusive  *)
(* lease, the replacement (in module Restore), the release.                *)
(***************************************************************************)
CommitClaims(r) ==
  /\ req[r].phase = "entered"
  /\ req[r].route.id = "restores.commit"
  /\ req[r].handle
  /\ Consumable(r)
  /\ spent' = spent \cup {req[r].op}
  /\ req' = [req EXCEPT ![r].phase = "claimed", ![r].consumed = TRUE]
  /\ UNCHANGED <<gate, session, job, mode>>

acquireExclusive(r) ==
  /\ req[r].phase = "claimed"
  /\ gate.phase = "open"
  /\ gate' = [gate EXCEPT !.phase = "draining"]
  /\ req' = [req EXCEPT ![r].phase = "draining"]
  /\ UNCHANGED <<spent, session, job, mode>>

AcquireConflict(r) ==
  /\ req[r].phase = "claimed"
  /\ gate.phase # "open"
  /\ Answer(r, "refused")
  /\ UNCHANGED <<spent, session, job, mode>>

\* A variant of Drained: whoever asks is let through.
DrainedAtOnce == TRUE

Drained == gate.active = 0

Exclude(r) ==
  /\ req[r].phase = "draining"
  /\ Drained
  /\ gate' = [gate EXCEPT !.phase = "exclusive"]
  /\ req' = [req EXCEPT ![r].phase = "exclusive"]
  /\ UNCHANGED <<spent, session, job, mode>>

\* The thirty seconds are over, or the maintenance mark could not be written.
ExcludeFails(r) ==
  /\ req[r].phase = "draining"
  /\ gate' = [gate EXCEPT !.phase = "open"]
  /\ req' = [req EXCEPT ![r].phase = "done", ![r].reply = "refused"]
  /\ UNCHANGED <<spent, session, job, mode>>

\* A variant of CommitEnds: the release is not in the finally block.
CommitEndsReleasingOnSuccess(r) ==
  /\ req[r].phase = "exclusive"
  /\ \/ /\ req' = [req EXCEPT ![r].phase = "handled", ![r].effect = TRUE]
        /\ gate' = [gate EXCEPT !.phase = "open"]
     \/ /\ req' = [req EXCEPT ![r].phase = "done", ![r].reply = "refused"]
        /\ UNCHANGED gate
  /\ UNCHANGED <<spent, session, job, mode>>

\* The replacement ends, done or rolled back; the lease is released either way.
CommitEnds(r) ==
  /\ req[r].phase = "exclusive"
  /\ gate' = [gate EXCEPT !.phase = "open"]
  /\ \/ req' = [req EXCEPT ![r].phase = "handled", ![r].effect = TRUE]
     \/ req' = [req EXCEPT ![r].phase = "done", ![r].reply = "refused"]
  /\ UNCHANGED <<spent, session, job, mode>>

-----------------------------------------------------------------------------
\* A background job runs under an ordinary lease (runOrdinary).
JobStarts ==
  /\ ~job
  /\ acquireOrdinary
  /\ job' = TRUE
  /\ UNCHANGED <<req, spent, session, mode>>

JobEnds ==
  /\ job
  /\ release(TRUE)
  /\ job' = FALSE
  /\ UNCHANGED <<req, spent, session, mode>>

\* Another request revokes the session, or its user changes.
SessionRevoked ==
  /\ session
  /\ session' = FALSE
  /\ UNCHANGED <<req, gate, spent, job, mode>>

Step(r) ==
  \/ OnRequestPasses(r) \/ OnRequestMalformed(r) \/ OnRequestUnauthenticated(r)
  \/ OnRequestWrongMethod(r) \/ OnRequestRateLimited(r) \/ OnRequestCsrf(r)
  \/ ParseFails(r) \/ Authorize(r) \/ AuthorizeRefused(r)
  \/ Enter(r) \/ EnterInMaintenance(r) \/ EnterUnrecorded(r)
  \/ Handle(r) \/ HandleRefuses(r) \/ Reply(r)
  \/ CommitClaims(r) \/ acquireExclusive(r) \/ AcquireConflict(r)
  \/ Exclude(r) \/ ExcludeFails(r) \/ CommitEnds(r)

Next ==
  \/ \E r \in Requests : SubmitFirst(r) \/ SubmitAgain(r) \/ SubmitCommit(r) \/ Step(r)
  \/ JobStarts \/ JobEnds \/ SessionRevoked

\* Every request is driven to its answer and every job ends; nothing makes a
\* client send one or a session be revoked.
Spec == Init /\ [][Next]_vars /\ WF_vars(JobEnds)
          /\ \A r \in Requests : WF_vars(Step(r))

-----------------------------------------------------------------------------
TypeOK ==
  /\ \A r \in Requests :
       /\ req[r].phase \in Phases
       /\ req[r].reply \in Fate
       /\ req[r].records \in 0..1
       /\ (req[r].phase = "done") = (req[r].reply # "pending")
  /\ gate.phase \in {"open", "draining", "exclusive"}
  /\ spent \subseteq Requests
  /\ session \in BOOLEAN /\ job \in BOOLEAN /\ mode \in StepUpModes

\* What an effect needs, said without the pipeline: the matrix grants the role
\* the capability, the target is in scope, and a human stepped up.  (The scope of
\* an invitation is the service its body names, which the handler compares.)
Entitled(route, caller) ==
  \/ IsPublic(route)
  \/ /\ caller.method \in route.auth
     /\ Outcome(route, caller) \notin {"deny", "no_account"}
     /\ Outcome(route, caller) \in {"assigned_services", "scoped_service",
           "related_users", "related_users_step_up"}
          /\ route.permission # "invite_ordinary_user" => caller.scoped
     /\ caller.method = "browser_session" /\ route.stepUp # "none" =>
          caller.stepped # "none"
     /\ permissionNeedsHumanStepUp(Outcome(route, caller)) =>
          caller.method = "browser_session" /\ caller.stepped # "none"

\* Whatever the interleaving, a handler commits only for an entitled caller, an
\* API key's effect has its one activity record, and no two effects rest on the
\* same operation-bound proof.  (routeRegistry.ts, stepUp.ts withConsumedProof)
EffectsAreEntitled ==
  /\ TypeOK
  /\ \A r \in Requests : req[r].effect =>
       /\ Entitled(req[r].route, req[r].caller)
       /\ req[r].caller.method = "api_key" => req[r].records = 1
  /\ \A r, q \in Requests :
       r # q /\ req[r].consumed /\ req[q].consumed
         => req[r].op # req[q].op

\* While a restore has the database and the vault to itself, no ordinary handler
\* and no job is running, and the count of leases is exact.  (restoreMaintenance.ts)
RestoreRunsAlone ==
  /\ gate.active = Cardinality({r \in Requests : req[r].lease})
                     + (IF job THEN 1 ELSE 0)
  /\ Cardinality({r \in Requests : req[r].phase \in {"draining", "exclusive"}})
       = IF gate.phase = "open" THEN 0 ELSE 1
  /\ gate.phase = "exclusive" =>
       \A r \in Requests :
         req[r].phase \in {"entered", "handled"} /\ ~IsPublic(req[r].route)
           => req[r].route.id \in RestoreMaintenanceExempt

\* Maintenance ends: whatever is draining or exclusive, ordinary requests are
\* let in again.  (restoreMaintenance.ts acquireExclusive, restoreCommit.ts finally)
MaintenanceEnds == gate.phase # "open" ~> gate.phase = "open"

\* The documented rights: a caller the matrix grants a capability, whose target
\* is in its scope and who stepped up in the way the route asks for, is not
\* refused for scope or step-up and is not told of an internal error after its
\* effect has been committed.  (docs/prd/secretsauce-v2-prd.md, permission matrix)
GrantedIsServed ==
  \A r \in Requests :
    LET route == req[r].route
        caller == req[r].caller
        granted == /\ ~IsPublic(route)
                   /\ Outcome(route, caller) \notin {"deny", "no_account"}
                   /\ permissionNeedsScope(Outcome(route, caller)) => caller.scoped
        stepped == NeedsStepUp(route, caller) =>
                     IF AsksProof(route)
                       THEN caller.stepped = "proof" /\ req[r].op \notin spent
                       ELSE caller.stepped = "fresh"
    IN /\ ~(req[r].effect /\ req[r].reply = "internal_error")
       /\ req[r].phase = "bound" /\ granted /\ stepped /\ session
            => authorizeRoute(route, caller, req[r].op) = "ok"

=============================================================================
