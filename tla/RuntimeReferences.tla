-------------------------- MODULE RuntimeReferences --------------------------
(***************************************************************************)
(* How a committed authorization change reaches the data plane.            *)
(*                                                                         *)
(* Control transactions change the durable rows of one service and append  *)
(* invalidation events (serviceManagement.ts, groupAssignments.ts,         *)
(* credentialManagement.ts, credentialVaultCoordinator.ts,                 *)
(* policyManagement.ts, identity/).  RuntimeInvalidationConsumer reads a    *)
(* batch, evicts references from the in-memory broker, and refreshes the   *)
(* active snapshot while it marks the batch dispatched.  A request polls,  *)
(* reads the snapshot, validates its reference against it and asks the     *)
(* vault for the value (runtimeAuthority.ts, gateway.ts).                  *)
(*                                                                         *)
(* Every transaction is a step.  One user, one service; the value of a     *)
(* credential is named by its (locator, generation), here one number.      *)
(***************************************************************************)
EXTENDS Naturals, Sequences

CONSTANTS
  Credentials,   \* credentials of the service
  References,    \* gref_ references; each is issued at most once
  Requests,      \* concurrent gateway requests
  NoCredential, NoReference,
  Batch,         \* INVALIDATION_BATCH
  TimerPolls,    \* does the maintenance timer poll too?
  MaxCommits,    \* bound on control transactions
  MaxFaults      \* bound on failing polls and restarts

ASSUME RuntimeReferencesAssumption ==
  /\ NoCredential \notin Credentials
  /\ NoReference \notin References
  /\ Batch \in Nat \ {0}
  /\ TimerPolls \in BOOLEAN
  /\ MaxCommits \in Nat
  /\ MaxFaults \in Nat

VARIABLES
  activated,     \* runtime_activation.state = 'active'
  globalEpoch,   \* runtime_activation.global_reference_epoch
  service,       \* services and service_assignment_states
  cred,          \* service_credentials with their selector, by credential
  policy,        \* evaluation generation of the service's policies
  user,          \* users
  vault,         \* the value the vault holds, by credential (0: none)
  events,        \* undispatched invalidation events, oldest first
  snapshot,      \* the active snapshot's document (pub 0: no active pointer)
  poll,          \* the poll in flight
  waiting,       \* requests awaiting that poll
  broker,        \* recordsByHash, by reference
  spent,         \* references issued so far
  pc, task,      \* per request: where it is; reference or credential, and view
  got,           \* history: the value a request last received, and for what
  commits, faults

durable == <<globalEpoch, service, cred, policy, user, vault, activated>>
requests == <<pc, task, got>>
vars == <<activated, globalEpoch, service, cred, policy, user, vault, events,
          snapshot, poll, waiting, broker, spent, pc, task, got, commits, faults>>

Lifecycles == {"published", "archived", "deleted"}
Statuses == {"unconfigured", "configured", "disabled", "archived", "deleted"}
Streams == {"identity", "service", "assignment", "credential", "policy"}
Steps == {"idle", "issue_view", "issue_state", "use_view", "check_view",
          "check_state", "resolve"}

\* submitted counts the values submitted so far; value is the finalized one.
CredentialRow == [status : Statuses, pending : {"none", "set", "delete", "archive"},
                  value : Nat, submitted : Nat, auth : Nat, allowed : BOOLEAN]
Event == [stream : Streams, cred : Credentials \cup {NoCredential}]
Snapshot == [pub : Nat, auth : Nat, assigned : BOOLEAN, policy : Nat,
             cred : [Credentials -> CredentialRow]]
Binding == [cred : Credentials \cup {NoCredential}, pub : Nat, auth : Nat,
            credAuth : Nat, epoch : Nat, global : Nat, submitted : Nat]
Task == [cred : Credentials \cup {NoCredential},
         ref : References \cup {NoReference}, binding : Binding,
         view : Snapshot, epoch : Nat]

NewCredential == [status |-> "unconfigured", pending |-> "none", value |-> 0,
                  submitted |-> 0, auth |-> 0, allowed |-> TRUE]
NoSnapshot == [pub |-> 0, auth |-> 0, assigned |-> FALSE, policy |-> 0,
               cred |-> [c \in Credentials |-> NewCredential]]
NoBinding == [cred |-> NoCredential, pub |-> 0, auth |-> 0, credAuth |-> 0,
              epoch |-> 0, global |-> 0, submitted |-> 0]
NoTask == [cred |-> NoCredential, ref |-> NoReference, binding |-> NoBinding,
           view |-> NoSnapshot, epoch |-> 0]
IdlePoll == [step |-> "idle", batch |-> <<>>]

\* canonicalRuntimeSnapshot of the published service's rows.
Projection == [pub |-> service.pub, auth |-> service.auth,
               assigned |-> service.assigned, policy |-> policy, cred |-> cred]

\* The service was published before the runtime was activated, with each
\* credential configured.
\* A service published once; each of its credentials has a value or was deleted.
Init ==
  /\ activated = FALSE
  /\ globalEpoch = 0
  /\ service = [lifecycle |-> "published", pub |-> 1, auth |-> 0, assigned |-> TRUE]
  /\ \E gone \in SUBSET Credentials :
       cred = [c \in Credentials |->
         IF c \in gone THEN [NewCredential EXCEPT !.status = "deleted"]
         ELSE [NewCredential EXCEPT !.status = "configured", !.value = 1,
                                    !.submitted = 1, !.auth = 1]]
  /\ policy = 0
  /\ user = [active |-> TRUE, epoch |-> 0]
  /\ vault = [c \in Credentials |-> cred[c].value]
  /\ events = <<>>
  /\ snapshot = NoSnapshot
  /\ poll = IdlePoll
  /\ waiting = {}
  /\ broker = [f \in References |-> NoBinding]
  /\ spent = {}
  /\ pc = [r \in Requests |-> "idle"]
  /\ task = [r \in Requests |-> NoTask]
  /\ got = [r \in Requests |-> [value |-> 0, submitted |-> 0]]
  /\ commits = 0
  /\ faults = 0

Live(f) == broker[f].cred # NoCredential

-----------------------------------------------------------------------------
(* Control transactions.                                                     *)

Commit == commits < MaxCommits /\ commits' = commits + 1

Emit(stream, c) == events' = Append(events, [stream |-> stream, cred |-> c])

DataPlaneUnchanged == UNCHANGED <<poll, waiting, broker, spent, requests, faults>>

\* activateRuntimeSnapshots
Activate ==
  /\ ~activated /\ service.lifecycle = "published"
  /\ activated' = TRUE
  /\ globalEpoch' = globalEpoch + 1
  /\ snapshot' = Projection
  /\ UNCHANGED <<service, cred, policy, user, vault, events, commits>>
  /\ DataPlaneUnchanged

\* publish: the new snapshot is active in the same transaction.
Publish ==
  /\ Commit /\ service.lifecycle = "published"
  /\ service' = [service EXCEPT !.pub = @ + 1]
  /\ snapshot' = IF activated THEN [Projection EXCEPT !.pub = service.pub + 1]
                              ELSE snapshot
  /\ Emit("service", NoCredential)
  /\ UNCHANGED <<activated, globalEpoch, cred, policy, user, vault>>
  /\ DataPlaneUnchanged

\* rollback republishes an earlier revision and emits an event, no snapshot.
RollbackService ==
  /\ Commit /\ service.lifecycle = "published"
  /\ service' = [service EXCEPT !.pub = @ + 1]
  /\ Emit("service", NoCredential)
  /\ UNCHANGED <<activated, globalEpoch, cred, policy, user, vault, snapshot>>
  /\ DataPlaneUnchanged

ArchiveService ==
  /\ Commit /\ service.lifecycle = "published"
  /\ service' = [service EXCEPT !.lifecycle = "archived", !.pub = @ + 1]
  /\ Emit("service", NoCredential)
  /\ UNCHANGED <<activated, globalEpoch, cred, policy, user, vault, snapshot>>
  /\ DataPlaneUnchanged

\* delete: the row takes its active pointer and snapshots with it (cascade).
DeleteService ==
  /\ Commit /\ service.lifecycle = "archived"
  /\ \A c \in Credentials : cred[c].status = "deleted"
  /\ service' = [service EXCEPT !.lifecycle = "deleted"]
  /\ snapshot' = NoSnapshot
  /\ Emit("service", NoCredential)
  /\ UNCHANGED <<activated, globalEpoch, cred, policy, user, vault>>
  /\ DataPlaneUnchanged

\* replaceServiceSelector, and group changes that move the effective users.
ReplaceServiceSelector ==
  /\ Commit /\ service.lifecycle = "published"
  /\ service' = [service EXCEPT !.assigned = ~@, !.auth = @ + 1]
  /\ Emit("assignment", NoCredential)
  /\ UNCHANGED <<activated, globalEpoch, cred, policy, user, vault, snapshot>>
  /\ DataPlaneUnchanged

PolicyChange ==
  /\ Commit /\ service.lifecycle = "published"
  /\ policy' = policy + 1
  /\ Emit("policy", NoCredential)
  /\ UNCHANGED <<activated, globalEpoch, service, cred, user, vault, snapshot>>
  /\ DataPlaneUnchanged

\* Suspension, reactivation, password or TOTP reset.
AccountChange(active) ==
  /\ Commit
  /\ user' = [active |-> active, epoch |-> user.epoch + 1]
  /\ Emit("identity", NoCredential)
  /\ UNCHANGED <<activated, globalEpoch, service, cred, policy, vault, snapshot>>
  /\ DataPlaneUnchanged

\* A global password or TOTP event.
GlobalSecurityEvent ==
  /\ Commit
  /\ globalEpoch' = globalEpoch + 1
  /\ Emit("identity", NoCredential)
  /\ UNCHANGED <<activated, service, cred, policy, user, vault, snapshot>>
  /\ DataPlaneUnchanged

-----------------------------------------------------------------------------
(* Credential transactions; the vault protocol is that of CredentialVault.   *)

ChangeCredential(c, row) ==
  /\ service.lifecycle # "deleted"
  /\ cred' = [cred EXCEPT ![c] = row]
  /\ UNCHANGED <<activated, globalEpoch, service, policy, user, snapshot>>
  /\ DataPlaneUnchanged

\* invalidateCredential: bump the authorization generation and record an event.
InvalidateCredential(c, row) ==
  /\ Commit
  /\ cred[c].pending = "none"
  /\ ChangeCredential(c, [row EXCEPT !.auth = @ + 1])
  /\ Emit("credential", c)
  /\ UNCHANGED vault

ReplaceAssignments(c) ==
  /\ service.lifecycle = "published" /\ cred[c].status \notin {"archived", "deleted"}
  /\ InvalidateCredential(c, [cred[c] EXCEPT !.allowed = ~@])

Disable(c) ==
  /\ service.lifecycle = "published" /\ cred[c].status = "configured"
  /\ InvalidateCredential(c, [cred[c] EXCEPT !.status = "disabled"])

Enable(c) ==
  /\ cred[c].status = "disabled"
  /\ InvalidateCredential(c, [cred[c] EXCEPT !.status = "configured"])

DeleteArchived(c) ==
  /\ service.lifecycle = "published" /\ cred[c].status = "archived"
  /\ InvalidateCredential(c, [cred[c] EXCEPT !.status = "deleted"])

PrepareSet(c) ==
  /\ cred[c].status \notin {"archived", "deleted"}
  /\ InvalidateCredential(c, [cred[c] EXCEPT !.pending = "set", !.submitted = @ + 1])

PrepareDelete(c, op) ==
  /\ cred[c].status \in {"configured", "disabled"}
  /\ InvalidateCredential(c, [cred[c] EXCEPT !.pending = op])

\* The value the vault holds once it has applied the pending operation.
Intended(c) == IF cred[c].pending = "set" THEN cred[c].submitted ELSE 0

VaultApplies(c) ==
  /\ cred[c].pending # "none" /\ vault[c] # Intended(c)
  /\ vault' = [vault EXCEPT ![c] = Intended(c)]
  /\ UNCHANGED <<activated, globalEpoch, service, cred, policy, user, snapshot,
                 events, commits>>
  /\ DataPlaneUnchanged

\* finalizeSet, finalizeDelete and rollback record no event.
Finalize(c) ==
  /\ cred[c].pending # "none" /\ vault[c] = Intended(c)
  /\ ChangeCredential(c, [cred[c] EXCEPT !.pending = "none", !.value = vault[c],
       !.status = CASE cred[c].pending = "delete"  -> "unconfigured"
                    [] cred[c].pending = "archive" -> "archived"
                    [] OTHER -> IF @ = "disabled" THEN @ ELSE "configured"])
  /\ UNCHANGED <<vault, events, commits>>

RollBack(c) ==
  /\ cred[c].pending = "set" /\ vault[c] # Intended(c)
  /\ ChangeCredential(c, [cred[c] EXCEPT !.pending = "none"])
  /\ UNCHANGED <<vault, events, commits>>

-----------------------------------------------------------------------------
(* RuntimeInvalidationConsumer: one poll at a time, in three steps.          *)

\* poll: start one, or join the one in flight.
Await(r) ==
  /\ waiting' = waiting \cup {r}
  /\ poll' = IF poll.step = "idle" THEN [IdlePoll EXCEPT !.step = "read"] ELSE poll

TimerPoll ==
  /\ TimerPolls /\ poll.step = "idle"
  /\ poll' = [IdlePoll EXCEPT !.step = "read"]
  /\ UNCHANGED <<durable, events, snapshot, waiting, broker, spent, requests,
                 commits, faults>>

PollRead ==
  /\ poll.step = "read"
  /\ poll' = [step |-> "evict",
              batch |-> SubSeq(events, 1, IF Len(events) < Batch THEN Len(events)
                                                                 ELSE Batch)]
  /\ UNCHANGED <<durable, events, snapshot, waiting, broker, spent, requests,
                 commits, faults>>

\* TokenBroker.invalidate with the event's subject, service and credential.
Evicts(e, f) ==
  CASE e.stream = "policy"     -> FALSE
    [] e.stream = "credential" -> broker[f].cred = e.cred
    [] OTHER                   -> TRUE

PollEvict ==
  /\ poll.step = "evict"
  /\ broker' = [f \in References |->
                 IF \E i \in 1..Len(poll.batch) : Evicts(poll.batch[i], f)
                 THEN NoBinding ELSE broker[f]]
  /\ IF poll.batch = <<>>
     THEN poll' = IdlePoll /\ waiting' = {}
     ELSE poll' = [poll EXCEPT !.step = "dispatch"] /\ UNCHANGED waiting
  /\ UNCHANGED <<durable, events, snapshot, spent, requests, commits, faults>>

\* Which events make the consumer rebuild the service's snapshot.
RefreshesOnCredential(e) == e.stream = "credential"
Refreshes(e) == e.stream \in {"credential", "policy", "assignment"}

\* The second transaction: refresh, then mark the whole batch dispatched.
PollDispatch ==
  /\ poll.step = "dispatch"
  /\ snapshot' = IF /\ activated /\ service.lifecycle = "published"
                    /\ \E i \in 1..Len(poll.batch) : Refreshes(poll.batch[i])
                 THEN Projection ELSE snapshot
  /\ events' = SubSeq(events, Len(poll.batch) + 1, Len(events))
  /\ poll' = IdlePoll
  /\ waiting' = {}
  /\ UNCHANGED <<durable, broker, spent, requests, commits, faults>>

-----------------------------------------------------------------------------
(* Requests.                                                                 *)

Proceed(r, step) == pc' = [pc EXCEPT ![r] = step]

\* The request ends, with its result or with an error.
End(r) == Proceed(r, "idle") /\ task' = [task EXCEPT ![r] = NoTask]

Ready(r, step) == pc[r] = step /\ r \notin waiting

\* serviceView: is there an active snapshot this user may see?
Visible == activated /\ user.active /\ snapshot.pub # 0 /\ snapshot.assigned

\* get_gateway_service_references for credential c.
BeginIssue(r, c) ==
  /\ pc[r] = "idle" /\ r \notin waiting
  /\ Proceed(r, "issue_view")
  /\ task' = [task EXCEPT ![r] = [NoTask EXCEPT !.cred = c]]
  /\ Await(r)
  /\ UNCHANGED <<durable, events, snapshot, broker, spent, got, commits, faults>>

IssueView(r) ==
  /\ Ready(r, "issue_view")
  /\ IF Visible
     THEN /\ Proceed(r, "issue_state")
          /\ task' = [task EXCEPT ![r].view = snapshot, ![r].epoch = user.epoch]
     ELSE End(r)
  /\ UNCHANGED <<durable, events, snapshot, poll, waiting, broker, spent, got,
                 commits, faults>>

Usable(view, c) ==
  view.cred[c].status = "configured" /\ view.cred[c].value # 0 /\ view.cred[c].allowed

\* authorizeReferences reads the global epoch, then issueRuntimeTokens records
\* the reference without yielding.
IssueState(r, f) ==
  LET view == task[r].view
      c == task[r].cred
  IN /\ Ready(r, "issue_state")
     /\ IF Usable(view, c)
        THEN /\ f \in References \ spent
             /\ spent' = spent \cup {f}
             /\ broker' = [broker EXCEPT ![f] =
                  [cred |-> c, pub |-> view.pub, auth |-> view.auth,
                   credAuth |-> view.cred[c].auth, epoch |-> task[r].epoch,
                   global |-> globalEpoch, submitted |-> view.cred[c].submitted]]
        ELSE UNCHANGED <<spent, broker>>
     /\ End(r)
     /\ UNCHANGED <<durable, events, snapshot, poll, waiting, got, commits, faults>>

\* service_request with reference f.
BeginUse(r, f) ==
  /\ pc[r] = "idle" /\ r \notin waiting
  /\ f \in spent
  /\ Proceed(r, "use_view")
  /\ task' = [task EXCEPT ![r] = [NoTask EXCEPT !.ref = f]]
  /\ Await(r)
  /\ UNCHANGED <<durable, events, snapshot, broker, spent, got, commits, faults>>

\* The first view, preflightTokenUse, and validateReferences' own poll.
UseView(r) ==
  LET f == task[r].ref
  IN /\ Ready(r, "use_view")
     /\ IF Visible /\ Live(f)
        THEN /\ Proceed(r, "check_view")
             /\ task' = [task EXCEPT ![r].binding = broker[f]]
             /\ Await(r)
        ELSE End(r) /\ UNCHANGED <<poll, waiting>>
     /\ UNCHANGED <<durable, events, snapshot, broker, spent, got, commits, faults>>

CheckView(r) ==
  /\ Ready(r, "check_view")
  /\ IF Visible
     THEN /\ Proceed(r, "check_state")
          /\ task' = [task EXCEPT ![r].view = snapshot, ![r].epoch = user.epoch]
     ELSE End(r)
  /\ UNCHANGED <<durable, events, snapshot, poll, waiting, broker, spent, got,
                 commits, faults>>

\* validateReferences' comparison of a record with the view.
ValidatesIgnoringGeneration(b, view, epoch, global) ==
  /\ b.pub = view.pub /\ b.auth = view.auth
  /\ b.epoch = epoch /\ b.global = global
  /\ Usable(view, b.cred)

Validates(b, view, epoch, global) ==
  /\ b.pub = view.pub /\ b.auth = view.auth
  /\ b.epoch = epoch /\ b.global = global
  /\ Usable(view, b.cred)
  /\ view.cred[b.cred].auth = b.credAuth

\* The activation read, the comparison, and consumePreflightedToken.
CheckState(r) ==
  /\ Ready(r, "check_state")
  /\ IF /\ Validates(task[r].binding, task[r].view, task[r].epoch, globalEpoch)
        /\ broker[task[r].ref] = task[r].binding
     THEN Proceed(r, "resolve") /\ UNCHANGED task
     ELSE End(r)
  /\ UNCHANGED <<durable, events, snapshot, poll, waiting, broker, spent, got,
                 commits, faults>>

\* The vault returns the value only under the generation the view names.
Resolve(r) ==
  LET b == task[r].binding
  IN /\ Ready(r, "resolve")
     /\ got' = IF vault[b.cred] = task[r].view.cred[b.cred].value
               THEN [got EXCEPT ![r] = [value |-> vault[b.cred],
                                        submitted |-> b.submitted]]
               ELSE got
     /\ End(r)
     /\ UNCHANGED <<durable, events, snapshot, poll, waiting, broker, spent,
                    commits, faults>>

-----------------------------------------------------------------------------
(* Faults.                                                                   *)

Fault == faults < MaxFaults /\ faults' = faults + 1

\* A poll's transaction throws: every request that awaits it fails.
PollFails ==
  /\ Fault
  /\ poll.step \in {"read", "dispatch"}
  /\ poll' = IdlePoll
  /\ waiting' = {}
  /\ pc' = [r \in Requests |-> IF r \in waiting THEN "idle" ELSE pc[r]]
  /\ task' = [r \in Requests |-> IF r \in waiting THEN NoTask ELSE task[r]]
  /\ UNCHANGED <<durable, events, snapshot, broker, spent, got, commits>>

\* The process restarts: references and requests are gone, events are not.
Restart ==
  /\ Fault
  /\ poll' = IdlePoll
  /\ waiting' = {}
  /\ broker' = [f \in References |-> NoBinding]
  /\ pc' = [r \in Requests |-> "idle"]
  /\ task' = [r \in Requests |-> NoTask]
  /\ UNCHANGED <<durable, events, snapshot, spent, got, commits>>

-----------------------------------------------------------------------------
ServiceStep ==
  \/ Activate \/ Publish \/ RollbackService \/ ArchiveService \/ DeleteService
  \/ ReplaceServiceSelector \/ PolicyChange \/ GlobalSecurityEvent
  \/ \E active \in BOOLEAN : AccountChange(active)

CredentialStep(c) ==
  \/ ReplaceAssignments(c) \/ Disable(c) \/ Enable(c) \/ DeleteArchived(c)
  \/ PrepareSet(c) \/ \E op \in {"delete", "archive"} : PrepareDelete(c, op)
  \/ VaultApplies(c) \/ Finalize(c) \/ RollBack(c)

PollStep == PollRead \/ PollEvict \/ PollDispatch

RequestStep(r) ==
  \/ \E c \in Credentials : BeginIssue(r, c)
  \/ IssueView(r)
  \/ \E f \in References : IssueState(r, f) \/ BeginUse(r, f)
  \/ UseView(r) \/ CheckView(r) \/ CheckState(r) \/ Resolve(r)

Next ==
  \/ ServiceStep
  \/ \E c \in Credentials : CredentialStep(c)
  \/ TimerPoll \/ PollStep
  \/ \E r \in Requests : RequestStep(r)
  \/ PollFails \/ Restart

Spec == Init /\ [][Next]_vars

-----------------------------------------------------------------------------
(* Properties                                                                *)

\* Every variable has its type.
TypeOK ==
  /\ activated \in BOOLEAN
  /\ globalEpoch \in Nat
  /\ service \in [lifecycle : Lifecycles, pub : Nat, auth : Nat, assigned : BOOLEAN]
  /\ cred \in [Credentials -> CredentialRow]
  /\ policy \in Nat
  /\ user \in [active : BOOLEAN, epoch : Nat]
  /\ vault \in [Credentials -> Nat]
  /\ events \in Seq(Event)
  /\ snapshot \in Snapshot
  /\ poll \in [step : {"idle", "read", "evict", "dispatch"}, batch : Seq(Event)]
  /\ waiting \subseteq Requests
  /\ broker \in [References -> Binding]
  /\ spent \subseteq References
  /\ pc \in [Requests -> Steps]
  /\ task \in [Requests -> Task]
  /\ got \in [Requests -> [value : Nat, submitted : Nat]]
  /\ commits \in Nat
  /\ faults \in Nat

Outstanding(stream, c) == \E i \in 1..Len(events) : events[i] = [stream |-> stream, cred |-> c]
Serving == activated /\ service.lifecycle = "published"

\* While no event about it is outstanding, every authorization decision that is
\* recorded in the rows is the one the active snapshot takes: who may use the
\* service, who may use each credential and under which generation, and which
\* policy is evaluated.  Marking a batch dispatched never outruns the refresh.
DispatchedIsServed ==
  Serving =>
    /\ ~Outstanding("assignment", NoCredential) =>
         snapshot.assigned = service.assigned /\ snapshot.auth = service.auth
    /\ ~Outstanding("policy", NoCredential) => snapshot.policy = policy
    /\ \A c \in Credentials : ~Outstanding("credential", c) =>
         snapshot.cred[c].auth = cred[c].auth /\ snapshot.cred[c].allowed = cred[c].allowed

\* Once the queue is drained no reference whose authorization has moved on can
\* be validated, even one recorded after its own eviction because the request
\* that issued it had read the snapshot before.
DrainedReferencesCurrent ==
  (Serving /\ events = <<>>) =>
    \A f \in References :
      (Live(f) /\ Validates(broker[f], snapshot, user.epoch, globalEpoch)) =>
        LET b == broker[f]
        IN b.auth = service.auth /\ b.credAuth = cred[b.cred].auth

\* A reference never resolves to a value submitted after the reference was
\* authorized: replacing a credential's value cuts off every earlier reference.
NoValueFromTheFuture ==
  \A r \in Requests : got[r].value <= got[r].submitted

\* Docs: a publication moves the active pointer, and archiving a service
\* invalidates its active references.  With nothing left to reconcile, the
\* published revision is the one served and nothing is served of an archived one.
CurrentIsServed ==
  (activated /\ events = <<>> /\ poll.step = "idle") =>
    /\ service.lifecycle = "published" => snapshot.pub = service.pub
    /\ service.lifecycle = "archived" =>
         \A f \in References : Live(f) =>
           ~Validates(broker[f], snapshot, user.epoch, globalEpoch)

\* References and values agree with what is authorized now, although view,
\* activation state and broker record are read in separate steps.
ReferencesCurrent == TypeOK /\ DrainedReferencesCurrent /\ NoValueFromTheFuture
=============================================================================
