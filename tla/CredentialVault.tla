--------------------------- MODULE CredentialVault ---------------------------
(***************************************************************************)
(* The durable intent protocol that keeps a credential's row in SQLite and *)
(* its encrypted record in the isolated vault in step                      *)
(* (credentialVaultCoordinator.ts), together with the credential lifecycle *)
(* operations that share the row (credentialManagement.ts) and the vault's *)
(* compare-and-swap record operations as the coordinator sees them.        *)
(*                                                                         *)
(* A worker is one invocation of a coordinator handler.  Every database    *)
(* transaction and every vault operation is one step; between two of them  *)
(* the handler awaits and any other worker may run.  NULL generations are  *)
(* 0 and the NULL locator is NoLocator.                                    *)
(***************************************************************************)
EXTENDS Naturals, FiniteSets

CONSTANTS
  Credentials,   \* credential identifiers (UUIDv7)
  Values,        \* credential values
  Keys,          \* client idempotency keys
  Workers,       \* concurrent handler invocations
  Locators,      \* random vault locators; each is allocated at most once
  NoLocator, NoValue, NoKey, NoCredential,
  MaxVersion,    \* bound: no operation starts on a row at this version
  MaxFaults,     \* bound on lost replies, timeouts, database errors, crashes
  LateDelivery,  \* may a request whose caller timed out still be executed?
  Retries        \* does a client resend a request under the same key?

ASSUME CredentialVaultAssumption ==
  /\ NoLocator \notin Locators
  /\ NoValue \notin Values
  /\ NoKey \notin Keys
  /\ NoCredential \notin Credentials
  /\ MaxVersion \in Nat
  /\ MaxFaults \in Nat
  /\ LateDelivery \in BOOLEAN
  /\ Retries \in BOOLEAN

VARIABLES
  row,        \* service_credentials, by credential
  intent,     \* credential_vault_operations, by credential (op "none": no row)
  approval,   \* generation approved in credential_self_api_key_approvals, or 0
  selector,   \* does the credential have rows in credential_principal_assignments?
  idem,       \* control_idempotency_records, by key (route "none": no record)
  vault,      \* the vault's records, by locator (generation 0: no file)
  used,       \* locators allocated so far
  late,       \* vault requests whose caller gave up but that may still run
  pc, job, held, \* per worker: where it is, its input, the intent it holds
  starting,   \* credentials the startup pass still has to reconcile
  keyActive,  \* the approved management key and its approver are active
  faults,     \* faults so far
  stored,     \* history: the value finalized last, and under which generation
  orderly     \* history: credentials whose requests ran once, while awaited

coordinator == <<pc, job, held>>
database    == <<row, intent, approval, selector, idem>>
vars == <<row, intent, approval, selector, idem, vault, used, late, pc, job,
          held, starting, keyActive, faults, stored, orderly>>

SetRoutes    == {"set", "approve"}
DeleteRoutes == {"delete_value", "archive"}
Routes       == SetRoutes \cup DeleteRoutes \cup {"enable", "startup", "none"}
SetOps       == {"create", "replace"}
Statuses     == {"absent", "unconfigured", "configured", "disabled",
                 "archived", "deleted"}
VaultStates  == {"idle", "pending_create", "pending_replace",
                 "pending_delete", "pending_archive", "reconcile"}
Steps == {"idle", "call", "applied", "probe", "settle", "rollback",
          "rollback_absent", "redelete", "redeleted", "finalize_absent",
          "mark", "view", "enable_probe", "enable_commit"}

Row == [status : Statuses, vaultState : VaultStates,
        locator : Locators \cup {NoLocator}, generation : Nat,
        auth : Nat, version : Nat]

\* The value field is history: the code never stores the value in the intent.
Intent == [op : SetOps \cup DeleteRoutes \cup {"none"},
           locator : Locators \cup {NoLocator}, expected : Nat, target : Nat,
           prior : Statuses, approval : BOOLEAN,
           value : Values \cup {NoValue}]

Job == [route : Routes, cred : Credentials \cup {NoCredential},
        value : Values \cup {NoValue}, key : Keys \cup {NoKey}, version : Nat]

Record == [cred : Credentials \cup {NoCredential}, generation : Nat,
           value : Values \cup {NoValue}]

Request == [kind : {"create", "replace", "delete"},
            locator : Locators \cup {NoLocator}, generation : Nat,
            cred : Credentials \cup {NoCredential}, value : Values \cup {NoValue}]

IdempotencyRecord == [route : SetRoutes \cup DeleteRoutes \cup {"none"},
                      cred : Credentials \cup {NoCredential},
                      value : Values \cup {NoValue}]

NoIntent == [op |-> "none", locator |-> NoLocator, expected |-> 0, target |-> 0,
             prior |-> "absent", approval |-> FALSE, value |-> NoValue]
NoJob == [route |-> "none", cred |-> NoCredential, value |-> NoValue,
          key |-> NoKey, version |-> 0]
NoRecord == [cred |-> NoCredential, generation |-> 0, value |-> NoValue]
NoIdempotency == [route |-> "none", cred |-> NoCredential, value |-> NoValue]
AbsentRow == [status |-> "absent", vaultState |-> "idle", locator |-> NoLocator,
              generation |-> 0, auth |-> 0, version |-> 0]

Init ==
  /\ row = [c \in Credentials |-> AbsentRow]
  /\ intent = [c \in Credentials |-> NoIntent]
  /\ approval = [c \in Credentials |-> 0]
  /\ selector = [c \in Credentials |-> FALSE]
  /\ idem = [k \in Keys |-> NoIdempotency]
  /\ vault = [l \in Locators |-> NoRecord]
  /\ used = {}
  /\ late = {}
  /\ pc = [w \in Workers |-> "idle"]
  /\ job = [w \in Workers |-> NoJob]
  /\ held = [w \in Workers |-> NoIntent]
  /\ starting = {}
  /\ keyActive = TRUE
  /\ faults = 0
  /\ stored = [c \in Credentials |-> [value |-> NoValue, auth |-> 0]]
  /\ orderly = Credentials

Serving == starting = {}
Open(c) == row[c].status \in {"unconfigured", "configured", "disabled"}
HasValue(c) == row[c].status \in {"configured", "disabled"}
Mutable(c) == Open(c) /\ row[c].vaultState = "idle"
Startable(c) == Serving /\ row[c].version < MaxVersion

-----------------------------------------------------------------------------
(* Credential lifecycle, one transaction each (CredentialManagementRepository). *)

LifecycleUnchanged == UNCHANGED <<intent, approval, idem, vault, used, late,
                                  coordinator, starting, keyActive, faults, stored, orderly>>

\* invalidateCredential: bump the authorization generation with the row.
InvalidateCredential(c, status) ==
  row' = [row EXCEPT ![c].status = status, ![c].auth = @ + 1, ![c].version = @ + 1]

\* create, import and clone all insert an unconfigured row with a selector.
Create(c) ==
  /\ Serving
  /\ row[c].status = "absent"
  /\ row' = [row EXCEPT ![c].status = "unconfigured", ![c].version = 1]
  /\ selector' = [selector EXCEPT ![c] = TRUE]
  /\ LifecycleUnchanged

Update(c) ==
  /\ Startable(c) /\ Mutable(c)
  /\ row' = [row EXCEPT ![c].version = @ + 1]
  /\ UNCHANGED selector
  /\ LifecycleUnchanged

ReplaceAssignments(c) ==
  /\ Startable(c) /\ Mutable(c)
  /\ InvalidateCredential(c, row[c].status)
  /\ selector' = [selector EXCEPT ![c] = TRUE]
  /\ LifecycleUnchanged

Disable(c) ==
  /\ Startable(c)
  /\ row[c].status = "configured" /\ row[c].vaultState = "idle"
  /\ InvalidateCredential(c, "disabled")
  /\ UNCHANGED selector
  /\ LifecycleUnchanged

ArchiveUnconfigured(c) ==
  /\ Startable(c)
  /\ row[c].status = "unconfigured" /\ row[c].vaultState = "idle"
  /\ InvalidateCredential(c, "archived")
  /\ selector' = [selector EXCEPT ![c] = FALSE]
  /\ LifecycleUnchanged

\* The row goes; the invalidation event carries the next generation.
DeleteArchived(c) ==
  /\ Startable(c)
  /\ row[c].status = "archived" /\ row[c].vaultState = "idle"
  /\ row' = [row EXCEPT ![c].status = "deleted", ![c].auth = @ + 1]
  /\ UNCHANGED selector
  /\ LifecycleUnchanged

-----------------------------------------------------------------------------
(* Preparing an intent: one transaction writes the intent, moves the row to  *)
(* a pending state and bumps the authorization generation.                   *)

Take(w, step, j, i) ==
  /\ pc' = [pc EXCEPT ![w] = step]
  /\ job' = [job EXCEPT ![w] = j]
  /\ held' = [held EXCEPT ![w] = i]

Goto(w, step) == pc' = [pc EXCEPT ![w] = step] /\ UNCHANGED <<job, held>>

\* The handler returns; a startup step also ends its entry of the pass.
Finish(w) ==
  /\ Take(w, "idle", NoJob, NoIntent)
  /\ starting' = starting \ {job[w].cred}

PrepareIntentKeepingAuth(c, i, pending) ==
  /\ intent' = [intent EXCEPT ![c] = i]
  /\ row' = [row EXCEPT ![c].vaultState = pending, ![c].version = @ + 1]

PrepareIntent(c, i, pending) ==
  /\ intent' = [intent EXCEPT ![c] = i]
  /\ row' = [row EXCEPT ![c].vaultState = pending, ![c].auth = @ + 1,
                        ![c].version = @ + 1]

PrepareSetMutation(c, v, approved, l) ==
  LET create == row[c].status = "unconfigured"
      i == [op |-> IF create THEN "create" ELSE "replace",
            locator |-> l,
            expected |-> row[c].generation,
            target |-> row[c].generation + 1,
            prior |-> row[c].status, approval |-> approved, value |-> v]
  IN /\ Mutable(c)
     /\ IF create THEN l \in Locators \ used ELSE l = row[c].locator
     /\ used' = used \cup {l}
     /\ PrepareIntent(c, i, IF create THEN "pending_create" ELSE "pending_replace")

\* setValue / setApprovedSelfApiKeyValue under an unused idempotency key.  A
\* stale expected version or a non-idle row is rejected with no effect.
PrepareSet(w, c, v, k, route, l) ==
  /\ pc[w] = "idle" /\ Startable(c)
  /\ idem[k].route = "none"
  /\ route = "approve" => keyActive
  /\ PrepareSetMutation(c, v, route = "approve", l)
  /\ idem' = [idem EXCEPT ![k] = [route |-> route, cred |-> c, value |-> v]]
  /\ Take(w, "call", [route |-> route, cred |-> c, value |-> v, key |-> k,
                      version |-> 0], intent'[c])
  /\ UNCHANGED <<approval, selector, vault, late, starting, keyActive, faults, stored, orderly>>

PrepareDeleteMutation(c, op) ==
  LET i == [op |-> op, locator |-> row[c].locator,
            expected |-> row[c].generation, target |-> 0,
            prior |-> row[c].status, approval |-> FALSE, value |-> NoValue]
  IN /\ row[c].vaultState = "idle" /\ HasValue(c)
     /\ PrepareIntent(c, i, IF op = "archive" THEN "pending_archive"
                                              ELSE "pending_delete")

PrepareDelete(w, c, k, route) ==
  /\ pc[w] = "idle" /\ Startable(c)
  /\ idem[k].route = "none"
  /\ PrepareDeleteMutation(c, route)
  /\ idem' = [idem EXCEPT ![k] = [route |-> route, cred |-> c, value |-> NoValue]]
  /\ Take(w, "call", [route |-> route, cred |-> c, value |-> NoValue, key |-> k,
                      version |-> 0], intent'[c])
  /\ UNCHANGED <<approval, selector, vault, used, late, starting, keyActive,
                 faults, stored, orderly>>

\* A handler that has an intent to settle.
AtWork(w) == pc[w] \notin {"idle", "view", "enable_probe", "enable_commit"}

\* A replay resumes a request when it finds that request's intent (or an intent to
\* the same effect) and no other handler at work on it.
Resumes(k) ==
  LET c == idem[k].cred
  IN /\ intent[c].value = idem[k].value
     /\ \A w \in Workers : job[w].cred = c => ~AtWork(w)

\* The same key and body again.  With no intent left the completed view is
\* returned and nothing changes; otherwise the replay takes over whatever intent
\* the credential has now (optionalIntent) and repeats the vault call.
Replay(w, k) ==
  LET c == idem[k].cred
  IN /\ Retries
     /\ pc[w] = "idle"
     /\ idem[k].route # "none" /\ Startable(c)
     /\ idem[k].route = "approve" => keyActive
     /\ intent[c].op # "none"
     /\ Take(w, "call", [route |-> idem[k].route, cred |-> c,
                         value |-> idem[k].value, key |-> k, version |-> 0],
             intent[c])
     /\ orderly' = IF Resumes(k) THEN orderly ELSE orderly \ {c}
     /\ UNCHANGED <<database, vault, used, late, starting, keyActive, faults, stored>>

-----------------------------------------------------------------------------
(* The vault: one synchronous compare-and-swap per request (recordStore.ts). *)

Accepts(q) ==
  IF q.kind = "create"
  THEN vault[q.locator].generation = 0
  ELSE /\ vault[q.locator].generation # 0
       /\ vault[q.locator].generation = q.generation
       /\ vault[q.locator].cred = q.cred

StoredKeepingValue(q) ==
  IF q.kind = "delete" THEN NoRecord
  ELSE [cred |-> q.cred, generation |-> q.generation + 1,
        value |-> IF q.kind = "create" THEN q.value ELSE vault[q.locator].value]

Stored(q) ==
  CASE q.kind = "create"  -> [cred |-> q.cred, generation |-> 1, value |-> q.value]
    [] q.kind = "replace" -> [cred |-> q.cred, generation |-> q.generation + 1,
                              value |-> q.value]
    [] q.kind = "delete"  -> NoRecord

\* The request the handler has outstanding.  A set handler that picked up a
\* delete intent through a replay issues a replace with it.
RequestOf(w) ==
  [kind |-> IF pc[w] = "redelete" \/ job[w].route \in DeleteRoutes THEN "delete"
            ELSE IF held[w].op = "create" THEN "create" ELSE "replace",
   locator |-> held[w].locator, generation |-> held[w].expected,
   cred |-> job[w].cred, value |-> job[w].value]

VaultExecutes(w) ==
  LET q == RequestOf(w)
  IN /\ pc[w] \in {"call", "redelete"}
     /\ Accepts(q)
     /\ vault' = [vault EXCEPT ![q.locator] = Stored(q)]
     /\ Goto(w, IF pc[w] = "redelete" THEN "redeleted"
                ELSE IF q.kind # "delete" /\ held[w].op \notin SetOps
                THEN "mark"        \* generation_mismatch
                ELSE "applied")
     /\ UNCHANGED <<database, used, late, starting, keyActive, faults, stored, orderly>>

\* vault_record_conflict or vault_record_not_found.
VaultRefuses(w) ==
  /\ pc[w] \in {"call", "redelete"}
  /\ ~Accepts(RequestOf(w))
  /\ Goto(w, IF pc[w] = "redelete" THEN "mark" ELSE "probe")
  /\ UNCHANGED <<database, vault, used, late, starting, keyActive, faults, stored, orderly>>

\* A request its caller stopped waiting for reaches the broker after all.
LateExecutes(q) ==
  /\ q \in late
  /\ late' = late \ {q}
  /\ vault' = IF Accepts(q) THEN [vault EXCEPT ![q.locator] = Stored(q)] ELSE vault
  /\ orderly' = IF Accepts(q) THEN orderly \ {q.cred} ELSE orderly
  /\ UNCHANGED <<database, used, coordinator, starting, keyActive, faults, stored>>

-----------------------------------------------------------------------------
(* Finalizing, rolling back and marking an intent: one transaction each.     *)

ClearIntent(c) == intent' = [intent EXCEPT ![c] = NoIntent]

\* The conditions under which the finalizeSet transaction commits.  It checks
\* neither which intent is stored nor the row's version.
CanFinalizeSet(w) ==
  LET c == job[w].cred
  IN /\ row[c].vaultState \in {"pending_create", "pending_replace", "reconcile"}
     /\ held[w].approval => job[w].route = "approve" /\ keyActive

FinalizedRow(w) ==
  LET c == job[w].cred
  IN [row EXCEPT ![c] =
       [status |-> IF held[w].prior = "disabled" THEN "disabled" ELSE "configured",
        vaultState |-> "idle", locator |-> held[w].locator,
        generation |-> held[w].target, auth |-> row[c].auth,
        version |-> row[c].version + 1]]

FinalizeSetKeepingApproval(w) ==
  LET c == job[w].cred
  IN /\ row' = FinalizedRow(w)
     /\ approval' = [approval EXCEPT ![c] = IF held[w].approval
                                            THEN held[w].target ELSE @]
     /\ stored' = [stored EXCEPT ![c] = [value |-> intent[c].value, auth |-> row[c].auth]]
     /\ ClearIntent(c)
     /\ UNCHANGED selector

FinalizeSet(w) ==
  LET c == job[w].cred
  IN /\ row' = FinalizedRow(w)
     /\ approval' = [approval EXCEPT ![c] = IF held[w].approval
                                            THEN held[w].target ELSE 0]
     /\ stored' = [stored EXCEPT ![c] = [value |-> intent[c].value, auth |-> row[c].auth]]
     /\ ClearIntent(c)
     /\ UNCHANGED selector

CanFinalizeDelete(w) ==
  row[job[w].cred].vaultState \in {"pending_delete", "pending_archive", "reconcile"}

FinalizeDelete(w) ==
  LET c == job[w].cred
  IN /\ row' = [row EXCEPT ![c] =
          [status |-> IF held[w].op = "archive" THEN "archived" ELSE "unconfigured",
           vaultState |-> "idle", locator |-> NoLocator, generation |-> 0,
           auth |-> row[c].auth, version |-> row[c].version + 1]]
     /\ selector' = [selector EXCEPT ![c] = @ /\ held[w].op # "archive"]
     /\ approval' = [approval EXCEPT ![c] = 0]
     /\ stored' = [stored EXCEPT ![c] = [value |-> NoValue, auth |-> row[c].auth]]
     /\ ClearIntent(c)

\* The row's CHECK constraint: an idle row has a locator exactly when its status
\* says it has a value.
CanRollbackAnyShape(w) == row[job[w].cred].vaultState # "idle"

CanRollback(w) ==
  LET c == job[w].cred
  IN /\ row[c].vaultState # "idle"
     /\ (held[w].prior \in {"configured", "disabled"}) <=> (row[c].locator # NoLocator)

Rollback(w) ==
  LET c == job[w].cred
  IN /\ row' = [row EXCEPT ![c].status = held[w].prior, ![c].vaultState = "idle",
                           ![c].version = @ + 1]
     /\ ClearIntent(c)
     /\ UNCHANGED <<approval, selector, stored>>

MarkReconcileAlways(w) ==
  LET c == job[w].cred
  IN row' = [row EXCEPT ![c].vaultState = "reconcile", ![c].version = @ + 1]

MarkReconcile(w) ==
  LET c == job[w].cred
  IN row' = IF row[c].vaultState = "idle" THEN row
            ELSE [row EXCEPT ![c].vaultState = "reconcile", ![c].version = @ + 1]

-----------------------------------------------------------------------------
(* The handlers after their vault call.                                      *)

\* The vault accepted the set: finalizeSet and return the view, or go on to
\* tryReconcile when the transaction does not commit.
SetApplied(w) ==
  /\ pc[w] = "applied" /\ job[w].route \in SetRoutes
  /\ \/ /\ CanFinalizeSet(w)
        /\ FinalizeSet(w)
        /\ Finish(w)
     \/ /\ ~CanFinalizeSet(w)
        /\ Goto(w, "probe")
        /\ UNCHANGED <<row, intent, approval, selector, starting, stored>>
  /\ UNCHANGED <<idem, vault, used, late, keyActive, faults, orderly>>

DeleteApplied(w) ==
  /\ pc[w] = "applied" /\ job[w].route \in DeleteRoutes
  /\ \/ /\ CanFinalizeDelete(w)
        /\ FinalizeDelete(w)
        /\ Finish(w)
     \/ /\ ~CanFinalizeDelete(w)
        /\ Goto(w, "probe")
        /\ UNCHANGED <<row, intent, approval, selector, starting, stored>>
  /\ UNCHANGED <<idem, vault, used, late, keyActive, faults, orderly>>

\* What tryReconcile does next, given the generation metadata reports (0 for
\* vault_record_not_found).
Settlement(op, generation, i) ==
  CASE generation = 0 ->
         CASE op = "create" -> "rollback_absent"
           [] op = "replace" -> "mark"
           [] OTHER -> "finalize_absent"
    [] generation # 0 /\ op \in SetOps ->
         CASE generation = i.target -> "settle"
           [] op = "replace" /\ generation = i.expected -> "rollback"
           [] OTHER -> "mark"
    [] OTHER -> IF generation = i.expected THEN "redelete" ELSE "mark"

\* tryReconcile asks the vault for the record's metadata.
Probe(w) ==
  /\ pc[w] = "probe"
  /\ Goto(w, Settlement(held[w].op, vault[held[w].locator].generation, held[w]))
  /\ UNCHANGED <<database, vault, used, late, starting, keyActive, faults, stored, orderly>>

\* tryReconcile returned true: a set handler looks at the view, others return.
Settled(w) ==
  IF job[w].route \in SetRoutes
  THEN Goto(w, "view") /\ UNCHANGED starting
  ELSE Finish(w)

Settle(w) ==
  /\ pc[w] = "settle"
  /\ \/ /\ CanFinalizeSet(w) /\ FinalizeSet(w) /\ Settled(w)
     \/ /\ ~CanFinalizeSet(w) /\ Goto(w, "mark")
        /\ UNCHANGED <<row, intent, approval, selector, starting, stored>>
  /\ UNCHANGED <<idem, vault, used, late, keyActive, faults, orderly>>

\* vault_unchanged (inside the try block: an error is marked) and vault_absent
\* (inside the catch block: an error leaves the handler).
RollBack(w) ==
  /\ pc[w] \in {"rollback", "rollback_absent"}
  /\ \/ /\ CanRollback(w) /\ Rollback(w) /\ Settled(w)
     \/ /\ ~CanRollback(w)
        /\ IF pc[w] = "rollback"
           THEN Goto(w, "mark") /\ UNCHANGED starting
           ELSE Finish(w)
        /\ UNCHANGED <<row, intent, approval, selector, stored>>
  /\ UNCHANGED <<idem, vault, used, late, keyActive, faults, orderly>>

\* finalizeDelete from tryReconcile, after its own delete or a missing record.
SettleDelete(w) ==
  /\ pc[w] \in {"redeleted", "finalize_absent"}
  /\ \/ /\ CanFinalizeDelete(w) /\ FinalizeDelete(w) /\ Settled(w)
     \/ /\ ~CanFinalizeDelete(w)
        /\ IF pc[w] = "redeleted"
           THEN Goto(w, "mark") /\ UNCHANGED starting
           ELSE Finish(w)
        /\ UNCHANGED <<row, intent, approval, selector, stored>>
  /\ UNCHANGED <<idem, vault, used, late, keyActive, faults, orderly>>

Mark(w) ==
  /\ pc[w] = "mark"
  /\ MarkReconcile(w)
  /\ Finish(w)
  /\ UNCHANGED <<intent, approval, selector, idem, vault, used, late, keyActive,
                 faults, stored, orderly>>

\* After a reconciled set the handler reads the view: a status with a value is
\* returned as success, anything else removes the idempotency record and fails.
View(w) ==
  LET c == job[w].cred
  IN /\ pc[w] = "view"
     /\ idem' = IF HasValue(c) THEN idem
                ELSE [idem EXCEPT ![job[w].key] = NoIdempotency]
     /\ Finish(w)
     /\ UNCHANGED <<row, intent, approval, selector, vault, used, late, keyActive,
                    faults, stored, orderly>>

-----------------------------------------------------------------------------
(* enable: read the row, ask the vault, then commit if the row is unchanged. *)

EnableRead(w, c) ==
  /\ pc[w] = "idle" /\ Startable(c)
  /\ row[c].status = "disabled" /\ row[c].vaultState = "idle"
  /\ Take(w, "enable_probe",
          [route |-> "enable", cred |-> c, value |-> NoValue, key |-> NoKey,
           version |-> row[c].version],
          [NoIntent EXCEPT !.locator = row[c].locator, !.expected = row[c].generation])
  /\ UNCHANGED <<database, vault, used, late, starting, keyActive, faults, stored, orderly>>

EnableProbe(w) ==
  /\ pc[w] = "enable_probe"
  /\ IF vault[held[w].locator].generation = held[w].expected
     THEN Goto(w, "enable_commit") /\ UNCHANGED starting
     ELSE Finish(w)
  /\ UNCHANGED <<database, vault, used, late, keyActive, faults, stored, orderly>>

EnableCommit(w) ==
  LET c == job[w].cred
  IN /\ pc[w] = "enable_commit"
     /\ IF /\ row[c].version = job[w].version
           /\ row[c].status = "disabled" /\ row[c].vaultState = "idle"
           /\ row[c].generation = held[w].expected
        THEN InvalidateCredential(c, "configured")
        ELSE UNCHANGED row
     /\ Finish(w)
     /\ UNCHANGED <<intent, approval, selector, idem, vault, used, late, keyActive,
                    faults, stored, orderly>>

-----------------------------------------------------------------------------
(* Faults, restart and the startup pass.                                     *)

Fault == faults < MaxFaults /\ faults' = faults + 1

\* The vault applied the request but its answer never arrived.
ReplyLost(w) ==
  /\ Fault
  /\ pc[w] \in {"applied", "redeleted"}
  /\ Goto(w, IF pc[w] = "applied" THEN "probe" ELSE "mark")
  /\ UNCHANGED <<database, vault, used, late, starting, keyActive, stored, orderly>>

\* The client's deadline passes first.  The request is lost or is still queued.
Timeout(w) ==
  /\ Fault
  /\ pc[w] \in {"call", "redelete"}
  /\ Goto(w, IF pc[w] = "call" THEN "probe" ELSE "mark")
  /\ \/ UNCHANGED late
     \/ LateDelivery /\ late' = late \cup {RequestOf(w)}
  /\ UNCHANGED <<database, vault, used, starting, keyActive, stored, orderly>>

Pending == {c \in Credentials : intent[c].op # "none"}

\* The metadata request fails, or the database rejects a transaction.  An error
\* thrown from tryReconcile's catch block fails the handler, and the startup with
\* it: the next attempt reads all the intents again.
StepFails(w) ==
  /\ Fault
  /\ \/ /\ pc[w] \in {"probe", "settle", "rollback", "redeleted"}
        /\ Goto(w, "mark")
        /\ UNCHANGED starting
     \/ /\ pc[w] = "applied"
        /\ Goto(w, "probe")
        /\ UNCHANGED starting
     \/ /\ pc[w] \in {"mark", "enable_probe", "enable_commit", "view"}
        /\ Finish(w)
     \/ /\ pc[w] \in {"rollback_absent", "finalize_absent"}
        /\ Take(w, "idle", NoJob, NoIntent)
        /\ starting' = IF job[w].route = "startup" THEN Pending ELSE starting
  /\ UNCHANGED <<database, vault, used, late, keyActive, stored, orderly>>

Outstanding == {RequestOf(w) : w \in {u \in Workers : pc[u] \in {"call", "redelete"}}}

\* The control process dies and starts again; queued requests may survive it.
\* Until the pass over the stored intents is done it serves nothing.
CrashRestart ==
  /\ Fault
  /\ pc' = [w \in Workers |-> "idle"]
  /\ job' = [w \in Workers |-> NoJob]
  /\ held' = [w \in Workers |-> NoIntent]
  /\ starting' = Pending
  /\ late' = IF LateDelivery THEN late \cup Outstanding ELSE late
  /\ UNCHANGED <<database, vault, used, keyActive, stored, orderly>>

\* reconcilePending: one intent at a time, without a step-up proof.
ReconcilePending(w, c) ==
  /\ c \in starting
  /\ \A u \in Workers : pc[u] = "idle"
  /\ Take(w, "probe", [NoJob EXCEPT !.route = "startup", !.cred = c], intent[c])
  /\ UNCHANGED <<database, vault, used, late, starting, keyActive, faults, stored, orderly>>

\* The management key or its approver is revoked elsewhere.
RevokeKey ==
  /\ keyActive
  /\ keyActive' = FALSE
  /\ UNCHANGED <<database, vault, used, late, coordinator, starting, faults, stored, orderly>>

-----------------------------------------------------------------------------
Lifecycle(c) ==
  \/ Create(c) \/ Update(c) \/ ReplaceAssignments(c) \/ Disable(c)
  \/ ArchiveUnconfigured(c) \/ DeleteArchived(c)

Accept(w) ==
  \E c \in Credentials :
    \/ \E v \in Values, k \in Keys, r \in SetRoutes, l \in Locators :
         PrepareSet(w, c, v, k, r, l)
    \/ \E k \in Keys, r \in DeleteRoutes : PrepareDelete(w, c, k, r)
    \/ EnableRead(w, c)

\* What a handler does on its own once it has started.
Advance(w) ==
  \/ VaultExecutes(w) \/ VaultRefuses(w)
  \/ SetApplied(w) \/ DeleteApplied(w) \/ Probe(w) \/ Settle(w) \/ RollBack(w)
  \/ SettleDelete(w) \/ Mark(w) \/ View(w) \/ EnableProbe(w) \/ EnableCommit(w)

Startup == \E w \in Workers, c \in Credentials : ReconcilePending(w, c)

Next ==
  \/ \E c \in Credentials : Lifecycle(c)
  \/ \E w \in Workers : \/ Accept(w) \/ Advance(w)
                        \/ ReplyLost(w) \/ Timeout(w) \/ StepFails(w)
                        \/ \E k \in Keys : Replay(w, k)
  \/ \E q \in late : LateExecutes(q)
  \/ Startup
  \/ CrashRestart
  \/ RevokeKey

Spec == Init /\ [][Next]_vars

-----------------------------------------------------------------------------
(* Properties                                                                *)

\* Every variable has its type.
TypeOK ==
  /\ row \in [Credentials -> Row]
  /\ intent \in [Credentials -> Intent]
  /\ approval \in [Credentials -> Nat]
  /\ selector \in [Credentials -> BOOLEAN]
  /\ idem \in [Keys -> IdempotencyRecord]
  /\ vault \in [Locators -> Record]
  /\ used \subseteq Locators
  /\ late \subseteq Request
  /\ pc \in [Workers -> Steps]
  /\ job \in [Workers -> Job]
  /\ held \in [Workers -> Intent]
  /\ starting \subseteq Credentials
  /\ keyActive \in BOOLEAN
  /\ faults \in Nat
  /\ stored \in [Credentials -> [value : Values \cup {NoValue}, auth : Nat]]
  /\ orderly \subseteq Credentials

\* Rows and intents agree: a credential has a stored intent exactly while its
\* vault_state is not idle, so no crash, stale finalizer or repeated handler
\* leaves a row pending with nothing to reconcile it, or an intent on an idle
\* row that would make every later prepare fail on the primary key.
IntentIffPending ==
  \A c \in Credentials : (intent[c].op # "none") <=> (row[c].vaultState # "idle")

\* An idle row refers to a vault record exactly when its status says it has a
\* value, whichever handler finished last (the row's CHECK constraint holds by
\* the code's doing, not only because SQLite would refuse the write).
IdleRowShape ==
  \A c \in Credentials : row[c].vaultState = "idle" =>
    /\ HasValue(c) <=> (row[c].locator # NoLocator)
    /\ HasValue(c) <=> (row[c].generation # 0)

\* A credential that says it has a value names a current vault record: the
\* record exists, is bound to the credential and has the stored generation.
ConfiguredMatchesVault ==
  \A c \in orderly : (row[c].vaultState = "idle" /\ HasValue(c)) =>
    LET r == vault[row[c].locator]
    IN r.cred = c /\ r.generation = row[c].generation

\* The value in the vault is the one whose request was finalized, never that of
\* a request that failed, was rolled back or was superseded.
FinalizedValueStored ==
  \A c \in orderly : (row[c].vaultState = "idle" /\ HasValue(c)) =>
    vault[row[c].locator].value = stored[c].value

\* No vault record outlives its owner: each is named by the row of its credential
\* or by an intent that reconciliation will still look at.
NoOrphanRecord ==
  \A l \in Locators : (vault[l].generation # 0 /\ vault[l].cred \in orderly) =>
    LET c == vault[l].cred IN row[c].locator = l \/ intent[c].locator = l

\* An approval of a self-API-key value names the generation in force, and an
\* archived credential keeps no value, selector or approval.
ApprovalsAreCurrent ==
  \A c \in Credentials :
    /\ approval[c] # 0 => approval[c] = row[c].generation
    /\ row[c].status \in {"archived", "deleted"} =>
         approval[c] = 0 /\ ~selector[c] /\ row[c].locator = NoLocator

\* References are bound to an authorization generation: it never goes back, it
\* moves before another value (or none) is in force, and it moves when an idle
\* credential becomes usable again.
AuthorizationMovesForward ==
  [][\A c \in Credentials :
       /\ row'[c].auth >= row[c].auth
       /\ stored'[c] # stored[c] => row[c].auth > stored[c].auth
       /\ (row[c].status # "configured" /\ row'[c].status = "configured"
           /\ row[c].vaultState = "idle") => row'[c].auth > row[c].auth]_vars

\* A startup pass has this intent before it and no fault is left.
Settling(c) ==
  /\ c \in starting /\ ~intent[c].approval
  /\ faults = MaxFaults /\ \A w \in Workers : pc[w] = "idle"

\* Rows and vault tell the same story, whatever several handlers, a lost reply, a
\* failed step, a restart or a resumed request leave behind: the named record
\* exists, it holds the value that was finalized, and no record is left without an
\* owner.  What can break it for a credential is a request executed after its
\* caller gave up, or a replay that takes over an intent not its own.
RowsMatchVault ==
  TypeOK /\ ConfiguredMatchesVault /\ FinalizedValueStored /\ NoOrphanRecord
=============================================================================
