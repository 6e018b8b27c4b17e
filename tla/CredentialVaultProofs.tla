------------------------ MODULE CredentialVaultProofs ------------------------
(***************************************************************************)
(* Proofs about CredentialVault for every set of credentials, workers,     *)
(* keys, values and locators and for every combination of LateDelivery and *)
(* Retries: no assumption on the environment is needed.                    *)
(*                                                                         *)
(* The inductive invariant IInv has three parts: CredentialsOK is a        *)
(* statement about each credential's row, intent and history on their own, *)
(* WorkersOK about what each handler holds, and OthersOK about the rest.   *)
(*                                                                         *)
(* AgreeInv, on top of it, says what row, intent, vault and handlers have  *)
(* to do with each other: a locator belongs to one credential (LocatorsOK, *)
(* of every credential), and for the orderly credentials the vault holds   *)
(* what the row or the intent announces (MatchesOK) and at most one        *)
(* handler is at work, on the stored intent (HandlersOK).  A late request  *)
(* or a foreign replay takes a credential out of orderly and never harms   *)
(* another one.                                                            *)
(***************************************************************************)
EXTENDS CredentialVault, TLAPS

\* A set intent names a record and the generation it will have.
SetIntent(i) == i.op \in SetOps => (i.locator \in Locators /\ i.target # 0)

\* One credential: its intent exists exactly while the row is not idle; an idle
\* row has a locator exactly when it has a value; locator and generation are set
\* together; the authorization generation has moved on since a value was last
\* finalized, strictly so while an operation is pending.
CredentialOK(r, i, s) ==
  /\ (i.op # "none") <=> (r.vaultState # "idle")
  /\ r.vaultState = "idle" =>
       (r.status \in {"configured", "disabled"} <=> r.locator # NoLocator)
  /\ (r.locator # NoLocator) <=> (r.generation # 0)
  /\ SetIntent(i)
  /\ s.auth <= r.auth
  /\ r.vaultState # "idle" => s.auth < r.auth

History == [value : Values \cup {NoValue}, auth : Nat]

CredentialsOK ==
  /\ row \in [Credentials -> Row]
  /\ intent \in [Credentials -> Intent]
  /\ stored \in [Credentials -> History]
  /\ approval \in [Credentials -> Nat]
  /\ selector \in [Credentials -> BOOLEAN]
  /\ \A c \in Credentials : CredentialOK(row[c], intent[c], stored[c])

\* What a handler holds: only a set intent reaches finalizeSet.
WorkerOK(step, j, i) ==
  /\ step # "idle" => j.cred \in Credentials
  /\ SetIntent(i)
  /\ step = "settle" => i.op \in SetOps
  /\ (step = "applied" /\ j.route \in SetRoutes) => i.op \in SetOps

WorkersOK ==
  /\ pc \in [Workers -> Steps]
  /\ job \in [Workers -> Job]
  /\ held \in [Workers -> Intent]
  /\ starting \subseteq Credentials
  /\ \A w \in Workers : WorkerOK(pc[w], job[w], held[w])

\* An idempotency record names the credential its request was about.
OthersOK ==
  /\ idem \in [Keys -> IdempotencyRecord]
  /\ vault \in [Locators -> Record]
  /\ used \subseteq Locators
  /\ late \subseteq Request
  /\ keyActive \in BOOLEAN
  /\ faults \in Nat
  /\ orderly \subseteq Credentials
  /\ \A k \in Keys : idem[k].route # "none" => idem[k].cred \in Credentials

IInv == CredentialsOK /\ WorkersOK /\ OthersOK

\* The initial state has no rows, no intents and no handlers.
LEMMA InitIInv == Init => IInv
  BY CredentialVaultAssumption
  DEF Init, IInv, CredentialsOK, WorkersOK, OthersOK, CredentialOK, WorkerOK, SetIntent,
      History, Row, Intent, Job, Record, Request, IdempotencyRecord, Routes, SetRoutes,
      DeleteRoutes, SetOps, Statuses, VaultStates, Steps, AbsentRow, NoIntent, NoJob,
      NoRecord, NoIdempotency

\* A step that changes one credential only has to be right about that one.
LEMMA OneCredential ==
  ASSUME CredentialsOK, NEW c \in Credentials,
         row' \in [Credentials -> Row], intent' \in [Credentials -> Intent],
         stored' \in [Credentials -> History],
         approval' \in [Credentials -> Nat], selector' \in [Credentials -> BOOLEAN],
         \A d \in Credentials : d # c => /\ row'[d] = row[d]
                                         /\ intent'[d] = intent[d]
                                         /\ stored'[d] = stored[d],
         CredentialOK(row'[c], intent'[c], stored'[c])
  PROVE  CredentialsOK'
<1>1. \A d \in Credentials : CredentialOK(row'[d], intent'[d], stored'[d])
  BY DEF CredentialsOK
<1> QED
  BY <1>1 DEF CredentialsOK, CredentialOK, SetIntent

\* Moving a handler on, ending it, and starting it.
LEMMA Going ==
  ASSUME WorkersOK, NEW w \in Workers, NEW step \in Steps, Goto(w, step),
         UNCHANGED starting, WorkerOK(step, job[w], held[w])
  PROVE  WorkersOK'
  BY DEF WorkersOK, Goto, WorkerOK, SetIntent

\* A handler that returns keeps the coordinator well typed.
LEMMA Finishing ==
  ASSUME WorkersOK, NEW w \in Workers, Take(w, "idle", NoJob, NoIntent),
         starting' \subseteq Credentials
  PROVE  WorkersOK'
  BY DEF WorkersOK, Take, WorkerOK, SetIntent, NoJob, NoIntent, Job, Intent, Steps,
         Routes, SetOps, Statuses

\* A handler that starts with a well-typed job and intent keeps it so.
LEMMA Taking ==
  ASSUME WorkersOK, NEW w \in Workers, NEW step \in Steps, NEW j \in Job,
         NEW i \in Intent, Take(w, step, j, i), UNCHANGED starting,
         WorkerOK(step, j, i)
  PROVE  WorkersOK'
  BY DEF WorkersOK, Take, WorkerOK, SetIntent

\* So does the step with which tryReconcile reports success.
LEMMA SettledOK ==
  ASSUME WorkersOK, NEW w \in Workers, Settled(w), pc[w] # "idle"
  PROVE  WorkersOK'
<1>1. CASE job[w].route \in SetRoutes
  <2>1. WorkerOK("view", job[w], held[w])
    BY <1>1 DEF WorkersOK, WorkerOK
  <2> QED
    BY <1>1, <2>1, Going DEF Settled, Steps
<1>2. CASE job[w].route \notin SetRoutes
  BY <1>2, Finishing DEF Settled, Finish, WorkersOK
<1> QED
  BY <1>1, <1>2

-----------------------------------------------------------------------------
(* The transactions, as effects on one credential.                           *)

\* finalizeSet leaves an idle row with a locator and a generation, and no intent.
LEMMA FinalizeSetOK ==
  ASSUME IInv, NEW w \in Workers, pc[w] # "idle", held[w].op \in SetOps,
         CanFinalizeSet(w), FinalizeSet(w)
  PROVE  CredentialsOK'
<1> DEFINE c == job[w].cred
<1>1. c \in Credentials /\ SetIntent(held[w]) /\ held[w] \in Intent
  BY DEF IInv, WorkersOK, WorkerOK
<1>2. /\ row[c] \in Row /\ intent[c] \in Intent /\ stored[c] \in History
      /\ CredentialOK(row[c], intent[c], stored[c])
  BY <1>1 DEF IInv, CredentialsOK
<1>3. row' \in [Credentials -> Row]
  <2> DEFINE r == 
       [status |-> IF held[w].prior = "disabled" THEN "disabled" ELSE "configured",
        vaultState |-> "idle", locator |-> held[w].locator,
        generation |-> held[w].target, auth |-> row[c].auth,
        version |-> row[c].version + 1]
  <2>1. r \in Row
    BY <1>1, <1>2 DEF Row, Intent, Statuses, VaultStates
  <2>2. row' = [row EXCEPT ![c] = r]
    BY <1>1 DEF FinalizeSet, FinalizedRow
  <2> HIDE DEF r
  <2> QED
    BY <1>1, <2>1, <2>2 DEF IInv, CredentialsOK
<1>4. intent' \in [Credentials -> Intent] /\ intent'[c] = NoIntent
  BY <1>1 DEF IInv, CredentialsOK, FinalizeSet, ClearIntent, NoIntent, Intent, Statuses
<1>5. stored' \in [Credentials -> History] /\ stored'[c].auth = row[c].auth
  BY <1>1, <1>2 DEF IInv, CredentialsOK, FinalizeSet, History, Intent, Row
<1>6. approval' \in [Credentials -> Nat] /\ selector' \in [Credentials -> BOOLEAN]
  BY <1>1 DEF IInv, CredentialsOK, FinalizeSet, Intent
<1>7. /\ row'[c].status \in {"configured", "disabled"} /\ row'[c].vaultState = "idle"
      /\ row'[c].locator = held[w].locator /\ row'[c].generation = held[w].target
      /\ row'[c].auth = row[c].auth
  BY <1>1, <1>2 DEF IInv, CredentialsOK, FinalizeSet, FinalizedRow, Row
<1>8. CredentialOK(row'[c], intent'[c], stored'[c])
  BY <1>1, <1>2, <1>3, <1>4, <1>5, <1>7, CredentialVaultAssumption
  DEF CredentialOK, SetIntent, NoIntent, SetOps, Row
<1>9. \A d \in Credentials : d # c => /\ row'[d] = row[d] /\ intent'[d] = intent[d]
                                      /\ stored'[d] = stored[d]
  BY DEF IInv, CredentialsOK, FinalizeSet, FinalizedRow, ClearIntent
<1> QED
  BY <1>1, <1>3, <1>4, <1>5, <1>6, <1>8, <1>9, OneCredential DEF IInv

\* finalizeDelete leaves an idle row without a record, and no intent.
LEMMA FinalizeDeleteOK ==
  ASSUME IInv, NEW w \in Workers, pc[w] # "idle", CanFinalizeDelete(w), FinalizeDelete(w)
  PROVE  CredentialsOK'
<1> DEFINE c == job[w].cred
<1>1. c \in Credentials
  BY DEF IInv, WorkersOK, WorkerOK
<1>2. /\ row[c] \in Row /\ intent[c] \in Intent /\ stored[c] \in History
      /\ CredentialOK(row[c], intent[c], stored[c])
  BY <1>1 DEF IInv, CredentialsOK
<1>3. row' \in [Credentials -> Row]
  <2> DEFINE r == 
       [status |-> IF held[w].op = "archive" THEN "archived" ELSE "unconfigured",
        vaultState |-> "idle", locator |-> NoLocator, generation |-> 0,
        auth |-> row[c].auth, version |-> row[c].version + 1]
  <2>1. r \in Row
    BY <1>1, <1>2 DEF Row, Intent, Statuses, VaultStates
  <2>2. row' = [row EXCEPT ![c] = r]
    BY <1>1 DEF FinalizeDelete
  <2> HIDE DEF r
  <2> QED
    BY <1>1, <2>1, <2>2 DEF IInv, CredentialsOK
<1>4. intent' \in [Credentials -> Intent] /\ intent'[c] = NoIntent
  BY <1>1 DEF IInv, CredentialsOK, FinalizeDelete, ClearIntent, NoIntent, Intent, Statuses
<1>5. stored' \in [Credentials -> History] /\ stored'[c].auth = row[c].auth
  BY <1>1, <1>2 DEF IInv, CredentialsOK, FinalizeDelete, History, Row
<1>6. approval' \in [Credentials -> Nat]
  BY <1>1 DEF IInv, CredentialsOK, FinalizeDelete
<1>7. selector' \in [Credentials -> BOOLEAN]
  BY <1>1 DEF IInv, CredentialsOK, FinalizeDelete
<1>8. CredentialOK(row'[c], intent'[c], stored'[c])
  <2>1. /\ row'[c].status \notin {"configured", "disabled"}
        /\ row'[c].vaultState = "idle" /\ row'[c].locator = NoLocator
        /\ row'[c].generation = 0 /\ row'[c].auth = row[c].auth
    BY <1>1, <1>2 DEF IInv, CredentialsOK, FinalizeDelete, Row
  <2> QED
    BY <1>2, <1>3, <1>4, <1>5, <2>1 DEF CredentialOK, SetIntent, NoIntent, SetOps, Row
<1>9. \A d \in Credentials : d # c => /\ row'[d] = row[d] /\ intent'[d] = intent[d]
                                      /\ stored'[d] = stored[d]
  BY DEF IInv, CredentialsOK, FinalizeDelete, ClearIntent
<1> QED
  BY <1>1, <1>3, <1>4, <1>5, <1>6, <1>7, <1>8, <1>9, OneCredential DEF IInv

\* rollback restores a status that fits the locator the row kept.
LEMMA RollbackOK ==
  ASSUME IInv, NEW w \in Workers, pc[w] # "idle", CanRollback(w), Rollback(w)
  PROVE  CredentialsOK'
<1> DEFINE c == job[w].cred
<1>1. c \in Credentials /\ held[w] \in Intent
  BY DEF IInv, WorkersOK, WorkerOK
<1>2. /\ row[c] \in Row /\ intent[c] \in Intent /\ stored[c] \in History
      /\ CredentialOK(row[c], intent[c], stored[c])
  BY <1>1 DEF IInv, CredentialsOK
<1>3. row' \in [Credentials -> Row]
  BY <1>1, <1>2 DEF IInv, CredentialsOK, Rollback, Row, Intent, VaultStates
<1>4. intent' \in [Credentials -> Intent] /\ intent'[c] = NoIntent
  BY <1>1 DEF IInv, CredentialsOK, Rollback, ClearIntent, NoIntent, Intent, Statuses
<1>5. CredentialOK(row'[c], intent'[c], stored'[c])
  <2>1. /\ row'[c].status = held[w].prior /\ row'[c].vaultState = "idle"
        /\ row'[c].locator = row[c].locator /\ row'[c].generation = row[c].generation
        /\ row'[c].auth = row[c].auth /\ stored' = stored
    BY <1>1, <1>2 DEF IInv, CredentialsOK, Rollback, Row
  <2> QED
    BY <1>1, <1>2, <1>4, <2>1 DEF CredentialOK, SetIntent, NoIntent, SetOps, CanRollback
<1>6. \A d \in Credentials : d # c => /\ row'[d] = row[d] /\ intent'[d] = intent[d]
                                      /\ stored'[d] = stored[d]
  BY DEF IInv, CredentialsOK, Rollback, ClearIntent
<1> QED
  BY <1>1, <1>3, <1>4, <1>5, <1>6, OneCredential DEF IInv, CredentialsOK, Rollback

\* markReconcile only moves a row that still has an intent.
LEMMA MarkReconcileOK ==
  ASSUME IInv, NEW w \in Workers, pc[w] # "idle", MarkReconcile(w),
         UNCHANGED <<intent, approval, selector, stored>>
  PROVE  CredentialsOK'
<1> DEFINE c == job[w].cred
<1>1. c \in Credentials
  BY DEF IInv, WorkersOK, WorkerOK
<1>2. row[c] \in Row /\ CredentialOK(row[c], intent[c], stored[c])
  BY <1>1 DEF IInv, CredentialsOK
<1>3. row' \in [Credentials -> Row]
  BY <1>1, <1>2 DEF IInv, CredentialsOK, MarkReconcile, Row, VaultStates
<1>4. CredentialOK(row'[c], intent'[c], stored'[c])
  BY <1>1, <1>2 DEF CredentialOK, IInv, CredentialsOK, MarkReconcile, SetIntent, Row
<1>5. \A d \in Credentials : d # c => row'[d] = row[d]
  BY DEF IInv, CredentialsOK, MarkReconcile
<1> QED
  BY <1>1, <1>3, <1>4, <1>5, OneCredential DEF IInv, CredentialsOK

-----------------------------------------------------------------------------
(* Every step preserves the invariant.                                       *)

\* The one-transaction lifecycle operations (credentialManagement.ts).
LEMMA LifecycleIInv ==
  ASSUME IInv, NEW c \in Credentials, Lifecycle(c)
  PROVE  IInv'
<1>1. row[c] \in Row /\ CredentialOK(row[c], intent[c], stored[c])
  BY DEF IInv, CredentialsOK
<1>2. WorkersOK' /\ OthersOK'
  <2>1. UNCHANGED <<idem, vault, used, late, pc, job, held, starting, keyActive, faults, orderly>>
    BY DEF Lifecycle, Create, Update, ReplaceAssignments, Disable, ArchiveUnconfigured,
           DeleteArchived, LifecycleUnchanged, coordinator
  <2> QED
    BY <2>1 DEF IInv, WorkersOK, OthersOK, WorkerOK, SetIntent
<1>3. UNCHANGED <<intent, approval, stored>>
  BY DEF Lifecycle, Create, Update, ReplaceAssignments, Disable, ArchiveUnconfigured,
         DeleteArchived, LifecycleUnchanged
<1>4. selector' \in [Credentials -> BOOLEAN]
  BY DEF IInv, CredentialsOK, Lifecycle, Create, Update, ReplaceAssignments, Disable,
         ArchiveUnconfigured, DeleteArchived
<1>5. row' \in [Credentials -> Row] /\ \A d \in Credentials : d # c => row'[d] = row[d]
  <2> USE <1>1 DEF IInv, CredentialsOK, Row, Statuses, InvalidateCredential
  <2>1. CASE Create(c)
    BY <2>1 DEF Create
  <2>2. CASE Update(c)
    BY <2>2 DEF Update
  <2>3. CASE ReplaceAssignments(c)
    BY <2>3 DEF ReplaceAssignments
  <2>4. CASE Disable(c)
    BY <2>4 DEF Disable
  <2>5. CASE ArchiveUnconfigured(c)
    BY <2>5 DEF ArchiveUnconfigured
  <2>6. CASE DeleteArchived(c)
    BY <2>6 DEF DeleteArchived
  <2> QED
    BY <2>1, <2>2, <2>3, <2>4, <2>5, <2>6 DEF Lifecycle
<1>6. CredentialOK(row'[c], intent[c], stored[c])
  <2> USE <1>1 DEF IInv, CredentialsOK, CredentialOK, Row, InvalidateCredential
  <2>1. CASE Create(c)
    BY <2>1 DEF Create
  <2>2. CASE Update(c)
    BY <2>2 DEF Update
  <2>3. CASE ReplaceAssignments(c)
    BY <2>3 DEF ReplaceAssignments
  <2>4. CASE Disable(c)
    BY <2>4 DEF Disable
  <2>5. CASE ArchiveUnconfigured(c)
    BY <2>5 DEF ArchiveUnconfigured
  <2>6. CASE DeleteArchived(c)
    BY <2>6 DEF DeleteArchived
  <2> QED
    BY <2>1, <2>2, <2>3, <2>4, <2>5, <2>6 DEF Lifecycle
<1> QED
  BY <1>2, <1>3, <1>4, <1>5, <1>6, OneCredential DEF IInv, CredentialsOK

\* Writing an intent on an idle row.
LEMMA PrepareIntentOK ==
  ASSUME IInv, NEW c \in Credentials, NEW i \in Intent, NEW p \in VaultStates \ {"idle"},
         row[c].vaultState = "idle", i.op # "none", SetIntent(i),
         PrepareIntent(c, i, p), UNCHANGED <<approval, selector, stored>>
  PROVE  CredentialsOK' /\ intent'[c] = i
<1>1. row[c] \in Row /\ stored[c] \in History /\ CredentialOK(row[c], intent[c], stored[c])
  BY DEF IInv, CredentialsOK
<1>2. /\ row' \in [Credentials -> Row]
      /\ \A d \in Credentials : d # c => row'[d] = row[d]
  BY <1>1 DEF PrepareIntent, IInv, CredentialsOK, Row, VaultStates
<1>3. /\ intent' \in [Credentials -> Intent] /\ intent'[c] = i
      /\ \A d \in Credentials : d # c => intent'[d] = intent[d]
  BY DEF PrepareIntent, IInv, CredentialsOK
<1>4. CredentialOK(row'[c], intent'[c], stored'[c])
  <2>1. /\ row'[c].vaultState = p /\ row'[c].locator = row[c].locator
        /\ row'[c].generation = row[c].generation /\ row'[c].auth = row[c].auth + 1
    BY <1>1 DEF PrepareIntent, IInv, CredentialsOK, Row
  <2> QED
    BY <1>1, <1>3, <2>1 DEF CredentialOK, Row, History
<1> QED
  BY <1>2, <1>3, <1>4, OneCredential DEF IInv, CredentialsOK

\* setValue and setApprovedSelfApiKeyValue up to their vault call.
LEMMA PrepareSetIInv ==
  ASSUME IInv, NEW w \in Workers, NEW c \in Credentials, NEW v \in Values, NEW k \in Keys,
         NEW route \in SetRoutes, NEW l \in Locators, PrepareSet(w, c, v, k, route, l)
  PROVE  IInv'
<1> DEFINE create == row[c].status = "unconfigured"
           i == [op |-> IF create THEN "create" ELSE "replace", locator |-> l,
                 expected |-> row[c].generation, target |-> row[c].generation + 1,
                 prior |-> row[c].status, approval |-> (route = "approve"), value |-> v]
           p == IF create THEN "pending_create" ELSE "pending_replace"
           j == [route |-> route, cred |-> c, value |-> v, key |-> k, version |-> 0]
<1>1. row[c] \in Row
  BY DEF IInv, CredentialsOK
<1>2. i \in Intent /\ SetIntent(i) /\ i.op \in SetOps /\ i.op # "none"
  BY <1>1 DEF Intent, Row, SetIntent, SetOps
<1>3. PrepareIntent(c, i, p) /\ row[c].vaultState = "idle" /\ used' = used \cup {l}
  BY DEF PrepareSet, PrepareSetMutation, Mutable
<1>4. p \in VaultStates \ {"idle"}
  BY DEF VaultStates
<1>5. j \in Job
  BY DEF Job, Routes
<1> HIDE DEF i, p
<1>6. CredentialsOK' /\ intent'[c] = i
  BY <1>2, <1>3, <1>4, PrepareIntentOK DEF PrepareSet
<1>7. WorkersOK'
  <2>1. Take(w, "call", j, i) /\ UNCHANGED starting
    BY <1>6 DEF PrepareSet
  <2>2. WorkerOK("call", j, i)
    BY <1>2 DEF WorkerOK
  <2> HIDE DEF j
  <2> QED
    BY <1>2, <1>5, <2>1, <2>2, Taking DEF IInv, Steps
<1>9. /\ idem' \in [Keys -> IdempotencyRecord]
      /\ \A q \in Keys : idem'[q].route # "none" => idem'[q].cred \in Credentials
  BY DEF PrepareSet, IInv, OthersOK, IdempotencyRecord, SetRoutes
<1> QED
  BY <1>3, <1>6, <1>7, <1>9 DEF PrepareSet, IInv, OthersOK

\* deleteValue and archive up to their vault call.
LEMMA PrepareDeleteIInv ==
  ASSUME IInv, NEW w \in Workers, NEW c \in Credentials, NEW k \in Keys,
         NEW route \in DeleteRoutes, PrepareDelete(w, c, k, route)
  PROVE  IInv'
<1> DEFINE i == [op |-> route, locator |-> row[c].locator,
                 expected |-> row[c].generation, target |-> 0,
                 prior |-> row[c].status, approval |-> FALSE, value |-> NoValue]
           p == IF route = "archive" THEN "pending_archive" ELSE "pending_delete"
           j == [route |-> route, cred |-> c, value |-> NoValue, key |-> k, version |-> 0]
<1>1. row[c] \in Row
  BY DEF IInv, CredentialsOK
<1>2. i \in Intent /\ SetIntent(i) /\ i.op \in DeleteRoutes /\ i.op # "none"
  BY <1>1 DEF Intent, Row, SetIntent, SetOps, DeleteRoutes
<1>3. PrepareIntent(c, i, p) /\ row[c].vaultState = "idle"
  BY DEF PrepareDelete, PrepareDeleteMutation
<1>4. p \in VaultStates \ {"idle"}
  BY DEF VaultStates
<1>5. j \in Job
  BY DEF Job, Routes
<1> HIDE DEF i, p
<1>6. CredentialsOK' /\ intent'[c] = i
  BY <1>2, <1>3, <1>4, PrepareIntentOK DEF PrepareDelete
<1>7. WorkersOK'
  <2>1. Take(w, "call", j, i) /\ UNCHANGED starting
    BY <1>6 DEF PrepareDelete
  <2>2. WorkerOK("call", j, i)
    BY <1>2 DEF WorkerOK
  <2> HIDE DEF j
  <2> QED
    BY <1>2, <1>5, <2>1, <2>2, Taking DEF IInv, Steps
<1>9. /\ idem' \in [Keys -> IdempotencyRecord]
      /\ \A q \in Keys : idem'[q].route # "none" => idem'[q].cred \in Credentials
  BY DEF PrepareDelete, IInv, OthersOK, IdempotencyRecord, DeleteRoutes
<1> QED
  BY <1>6, <1>7, <1>9 DEF PrepareDelete, IInv, OthersOK

\* enable's first read.
LEMMA EnableReadIInv ==
  ASSUME IInv, NEW w \in Workers, NEW c \in Credentials, EnableRead(w, c)
  PROVE  IInv'
<1> DEFINE j == [route |-> "enable", cred |-> c, value |-> NoValue, key |-> NoKey,
                 version |-> row[c].version]
           i == [NoIntent EXCEPT !.locator = row[c].locator, !.expected = row[c].generation]
<1>1. j \in Job /\ i \in Intent /\ i.op = "none"
  BY DEF IInv, CredentialsOK, Row, Job, Intent, NoIntent, Routes, Statuses
<1>2. Take(w, "enable_probe", j, i)
  BY DEF EnableRead
<1>3. WorkerOK("enable_probe", j, i)
  BY <1>1 DEF WorkerOK, SetIntent, SetOps
<1> HIDE DEF i, j
<1>4. WorkersOK'
  BY <1>1, <1>2, <1>3, Taking DEF IInv, Steps, EnableRead
<1> QED
  BY <1>4 DEF EnableRead, IInv, CredentialsOK, OthersOK, CredentialOK, SetIntent, database

\* A replay takes over the stored intent, which is well shaped.
LEMMA ReplayIInv ==
  ASSUME IInv, NEW w \in Workers, NEW k \in Keys, Replay(w, k)
  PROVE  IInv'
<1> DEFINE c == idem[k].cred
           j == [route |-> idem[k].route, cred |-> c, value |-> idem[k].value,
                 key |-> k, version |-> 0]
<1>1. idem[k] \in IdempotencyRecord /\ (idem[k].route # "none" => c \in Credentials)
  BY DEF IInv, OthersOK
<1>2. c \in Credentials
  BY <1>1 DEF Replay, Startable, IInv, OthersOK
<1>3. j \in Job
  BY <1>1, <1>2 DEF Job, IdempotencyRecord, Routes
<1>4. intent[c] \in Intent /\ SetIntent(intent[c])
  BY <1>2 DEF IInv, CredentialsOK, CredentialOK
<1>5. Take(w, "call", j, intent[c]) /\ WorkerOK("call", j, intent[c])
  BY <1>2, <1>4 DEF Replay, WorkerOK
<1> HIDE DEF j
<1>6. WorkersOK'
  BY <1>3, <1>4, <1>5, Taking DEF IInv, Steps, Replay
<1> QED
  BY <1>6 DEF Replay, IInv, CredentialsOK, OthersOK, CredentialOK, SetIntent, database

\* Steps of a handler that leave the database alone.
LEMMA DatabaseUnchanged ==
  ASSUME IInv, WorkersOK', UNCHANGED database, UNCHANGED <<used, keyActive>>,
         UNCHANGED stored, vault' \in [Locators -> Record], late' \subseteq Request,
         faults' \in Nat, orderly' \subseteq Credentials
  PROVE  IInv'
  BY DEF IInv, CredentialsOK, OthersOK, CredentialOK, SetIntent, database

\* The request a handler sends is well typed.
LEMMA RequestOfOK ==
  ASSUME WorkersOK, NEW w \in Workers
  PROVE  RequestOf(w) \in Request
  BY DEF WorkersOK, RequestOf, Request, Job, Intent

\* The record a request leaves in the vault is well typed.
LEMMA StoredOK ==
  ASSUME NEW q \in Request
  PROVE  Stored(q) \in Record
  BY DEF Request, Stored, Record, NoRecord

\* Vault calls, lost answers, timeouts and probes change no row and no intent.
LEMMA VaultStepIInv ==
  ASSUME IInv, NEW w \in Workers,
         \/ VaultExecutes(w) \/ VaultRefuses(w) \/ Probe(w) \/ EnableProbe(w)
         \/ ReplyLost(w) \/ Timeout(w) \/ StepFails(w)
  PROVE  IInv'
<1>1. /\ WorkersOK /\ vault \in [Locators -> Record] /\ late \subseteq Request
      /\ faults \in Nat /\ starting \subseteq Credentials /\ orderly \subseteq Credentials
      /\ WorkerOK(pc[w], job[w], held[w])
  BY DEF IInv, WorkersOK, OthersOK
<1>2. CASE VaultExecutes(w)
  <2> DEFINE q == RequestOf(w)
             n == IF pc[w] = "redelete" THEN "redeleted"
                  ELSE IF q.kind # "delete" /\ held[w].op \notin SetOps
                  THEN "mark" ELSE "applied"
  <2>1. vault' \in [Locators -> Record]
    <3>1. Stored(q) \in Record /\ vault' = [vault EXCEPT ![q.locator] = Stored(q)]
      BY <1>1, <1>2, RequestOfOK, StoredOK DEF VaultExecutes
    <3> QED
      BY <1>1, <3>1
  <2>2. n \in Steps /\ Goto(w, n) /\ WorkerOK(n, job[w], held[w])
    BY <1>1, <1>2 DEF VaultExecutes, Steps, WorkerOK, RequestOf, SetRoutes, DeleteRoutes
  <2> HIDE DEF n, q
  <2> QED
    BY <1>1, <1>2, <2>1, <2>2, Going, DatabaseUnchanged DEF VaultExecutes
<1>3. CASE VaultRefuses(w)
  <2> DEFINE n == IF pc[w] = "redelete" THEN "mark" ELSE "probe"
  <2>1. n \in Steps /\ Goto(w, n) /\ WorkerOK(n, job[w], held[w])
    BY <1>1, <1>3 DEF VaultRefuses, Steps, WorkerOK
  <2> HIDE DEF n
  <2> QED
    BY <1>1, <1>3, <2>1, Going, DatabaseUnchanged DEF VaultRefuses
<1>4. CASE Probe(w)
  <2> DEFINE n == Settlement(held[w].op, vault[held[w].locator].generation, held[w])
  <2>1. n \in Steps /\ n # "applied" /\ (n = "settle" => held[w].op \in SetOps)
    BY DEF Settlement, Steps, SetOps
  <2>2. Goto(w, n) /\ pc[w] = "probe"
    BY <1>4 DEF Probe
  <2> HIDE DEF n
  <2>3. WorkerOK(n, job[w], held[w])
    BY <1>1, <2>1, <2>2 DEF WorkerOK
  <2> QED
    BY <1>1, <1>4, <2>1, <2>2, <2>3, Going, DatabaseUnchanged DEF Probe
<1>5. CASE EnableProbe(w)
  <2>1. CASE vault[held[w].locator].generation = held[w].expected
    <3>1. WorkerOK("enable_commit", job[w], held[w]) /\ "enable_commit" \in Steps
      BY <1>1, <1>5 DEF EnableProbe, WorkerOK, Steps
    <3> QED
      BY <1>1, <1>5, <2>1, <3>1, Going, DatabaseUnchanged DEF EnableProbe
  <2>2. CASE vault[held[w].locator].generation # held[w].expected
    BY <1>1, <1>5, <2>2, Finishing, DatabaseUnchanged DEF EnableProbe, Finish
  <2> QED
    BY <2>1, <2>2
<1>6. CASE ReplyLost(w)
  <2> DEFINE n == IF pc[w] = "applied" THEN "probe" ELSE "mark"
  <2>1. n \in Steps /\ Goto(w, n) /\ WorkerOK(n, job[w], held[w])
    BY <1>1, <1>6 DEF ReplyLost, Steps, WorkerOK
  <2> HIDE DEF n
  <2> QED
    BY <1>1, <1>6, <2>1, Going, DatabaseUnchanged DEF ReplyLost, Fault
<1>7. CASE Timeout(w)
  <2> DEFINE n == IF pc[w] = "call" THEN "probe" ELSE "mark"
  <2>1. n \in Steps /\ Goto(w, n) /\ WorkerOK(n, job[w], held[w])
    BY <1>1, <1>7 DEF Timeout, Steps, WorkerOK
  <2>2. late' \subseteq Request
    BY <1>1, <1>7, RequestOfOK DEF Timeout
  <2> HIDE DEF n
  <2> QED
    BY <1>1, <1>7, <2>1, <2>2, Going, DatabaseUnchanged DEF Timeout, Fault
<1>8. CASE StepFails(w)
  <2>1. WorkersOK'
    <3>1. CASE /\ pc[w] \in {"probe", "settle", "rollback", "redeleted"}
               /\ Goto(w, "mark") /\ UNCHANGED starting
      <4>1. WorkerOK("mark", job[w], held[w]) /\ "mark" \in Steps
        BY <1>1, <3>1 DEF WorkerOK, Steps
      <4> QED
        BY <1>1, <3>1, <4>1, Going
    <3>2. CASE pc[w] = "applied" /\ Goto(w, "probe") /\ UNCHANGED starting
      <4>1. WorkerOK("probe", job[w], held[w]) /\ "probe" \in Steps
        BY <1>1, <3>2 DEF WorkerOK, Steps
      <4> QED
        BY <1>1, <3>2, <4>1, Going
    <3>3. CASE Finish(w)
      BY <1>1, <3>3, Finishing DEF Finish
    <3>4. CASE /\ Take(w, "idle", NoJob, NoIntent)
               /\ starting' = IF job[w].route = "startup" THEN Pending ELSE starting
      BY <1>1, <3>4, Finishing DEF Pending
    <3> QED
      BY <1>8, <3>1, <3>2, <3>3, <3>4 DEF StepFails
  <2> QED
    BY <1>1, <1>8, <2>1, DatabaseUnchanged DEF StepFails, Fault
<1> QED
  BY <1>2, <1>3, <1>4, <1>5, <1>6, <1>7, <1>8

\* A settling transaction leaves the vault, the keys and the late requests alone.
LEMMA OthersUnchanged ==
  ASSUME IInv, UNCHANGED <<idem, vault, used, late, keyActive, faults, orderly>>
  PROVE  OthersOK'
  BY DEF IInv, OthersOK

\* The transactions with which a handler settles its intent.
LEMMA TransactionIInv ==
  ASSUME IInv, NEW w \in Workers,
         \/ SetApplied(w) \/ DeleteApplied(w) \/ Settle(w) \/ RollBack(w)
         \/ SettleDelete(w) \/ Mark(w) \/ View(w) \/ EnableCommit(w)
  PROVE  IInv'
<1>1. /\ CredentialsOK /\ WorkersOK /\ OthersOK
      /\ starting \subseteq Credentials
      /\ job[w] \in Job
      /\ WorkerOK(pc[w], job[w], held[w])
      /\ "probe" \in Steps /\ "mark" \in Steps
  BY DEF IInv, WorkersOK, OthersOK, Steps
<1>2. Finish(w) => WorkersOK'
  BY <1>1, Finishing DEF Finish
<1>3. ASSUME UNCHANGED <<row, intent, approval, selector, stored>>
      PROVE  CredentialsOK'
  BY <1>1, <1>3 DEF CredentialsOK, CredentialOK, SetIntent
<1>4. ASSUME pc[w] # "idle"
      PROVE  WorkerOK("probe", job[w], held[w]) /\ WorkerOK("mark", job[w], held[w])
  BY <1>1, <1>4 DEF WorkerOK
<1>5. CASE SetApplied(w)
  <2>1. pc[w] = "applied" /\ held[w].op \in SetOps
    BY <1>1, <1>5 DEF SetApplied, WorkerOK
  <2>3. CredentialsOK'
    <3>1. CASE CanFinalizeSet(w)
      BY <1>5, <2>1, <3>1, FinalizeSetOK DEF SetApplied
    <3>2. CASE ~CanFinalizeSet(w)
      BY <1>3, <1>5, <3>2 DEF SetApplied
    <3> QED
      BY <3>1, <3>2
  <2>4. WorkersOK'
    BY <1>1, <1>2, <1>4, <1>5, <2>1, Going DEF SetApplied
  <2> QED
    BY <1>5, <2>3, <2>4, OthersUnchanged DEF SetApplied, IInv
<1>6. CASE DeleteApplied(w)
  <2>1. CredentialsOK'
    <3>1. CASE CanFinalizeDelete(w)
      BY <1>6, <3>1, FinalizeDeleteOK DEF DeleteApplied
    <3>2. CASE ~CanFinalizeDelete(w)
      BY <1>3, <1>6, <3>2 DEF DeleteApplied
    <3> QED
      BY <3>1, <3>2
  <2>2. WorkersOK'
    BY <1>1, <1>2, <1>4, <1>6, Going DEF DeleteApplied
  <2> QED
    BY <1>1, <1>6, <2>1, <2>2, OthersUnchanged DEF DeleteApplied, IInv
<1>7. CASE Settle(w)
  <2>1. pc[w] = "settle" /\ held[w].op \in SetOps
    BY <1>1, <1>7 DEF Settle, WorkerOK
  <2>2. CredentialsOK'
    <3>1. CASE CanFinalizeSet(w)
      BY <1>7, <2>1, <3>1, FinalizeSetOK DEF Settle
    <3>2. CASE ~CanFinalizeSet(w)
      BY <1>3, <1>7, <3>2 DEF Settle
    <3> QED
      BY <3>1, <3>2
  <2>3. WorkersOK'
    BY <1>1, <1>4, <1>7, <2>1, Going, SettledOK DEF Settle
  <2> QED
    BY <1>1, <1>7, <2>2, <2>3, OthersUnchanged DEF Settle, IInv
<1>8. CASE RollBack(w)
  <2>1. CredentialsOK'
    <3>1. CASE CanRollback(w)
      BY <1>8, <3>1, RollbackOK DEF RollBack
    <3>2. CASE ~CanRollback(w)
      BY <1>3, <1>8, <3>2 DEF RollBack
    <3> QED
      BY <3>1, <3>2
  <2>2. WorkersOK'
    BY <1>1, <1>2, <1>4, <1>8, Going, SettledOK DEF RollBack
  <2> QED
    BY <1>1, <1>8, <2>1, <2>2, OthersUnchanged DEF RollBack, IInv
<1>9. CASE SettleDelete(w)
  <2>1. CredentialsOK'
    <3>1. CASE CanFinalizeDelete(w)
      BY <1>9, <3>1, FinalizeDeleteOK DEF SettleDelete
    <3>2. CASE ~CanFinalizeDelete(w)
      BY <1>3, <1>9, <3>2 DEF SettleDelete
    <3> QED
      BY <3>1, <3>2
  <2>2. WorkersOK'
    BY <1>1, <1>2, <1>4, <1>9, Going, SettledOK DEF SettleDelete
  <2> QED
    BY <1>1, <1>9, <2>1, <2>2, OthersUnchanged DEF SettleDelete, IInv
<1>10. CASE Mark(w)
  <2>1. CredentialsOK'
    BY <1>10, MarkReconcileOK DEF Mark
  <2> QED
    BY <1>1, <1>2, <1>10, <2>1, OthersUnchanged DEF Mark, IInv
<1>11. CASE View(w)
  <2>2. /\ idem' \in [Keys -> IdempotencyRecord]
        /\ \A k \in Keys : idem'[k].route # "none" => idem'[k].cred \in Credentials
    BY <1>1, <1>11 DEF View, OthersOK, IdempotencyRecord, NoIdempotency
  <2>3. OthersOK'
    BY <1>1, <1>11, <2>2 DEF View, OthersOK
  <2> QED
    BY <1>2, <1>3, <1>11, <2>3 DEF View, IInv
<1>12. CASE EnableCommit(w)
  <2> DEFINE c == job[w].cred
  <2>1. c \in Credentials
    BY <1>1, <1>12 DEF EnableCommit, WorkerOK
  <2>2. row[c] \in Row /\ CredentialOK(row[c], intent[c], stored[c])
    BY <1>1, <2>1 DEF CredentialsOK
  <2>3. CASE /\ row[c].status = "disabled" /\ row[c].vaultState = "idle"
             /\ InvalidateCredential(c, "configured")
    <3>1. /\ row' \in [Credentials -> Row]
          /\ \A d \in Credentials : d # c => row'[d] = row[d]
      BY <1>1, <2>1, <2>2, <2>3 DEF InvalidateCredential, CredentialsOK, Row, Statuses
    <3>2. CredentialOK(row'[c], intent[c], stored[c])
      BY <1>1, <2>1, <2>2, <2>3
      DEF CredentialsOK, CredentialOK, Row, InvalidateCredential, History
    <3>3. CredentialsOK'
      BY <1>1, <1>12, <2>1, <3>1, <3>2, OneCredential DEF EnableCommit, CredentialsOK
    <3> QED
      BY <1>1, <1>2, <1>12, <3>3, OthersUnchanged DEF EnableCommit, IInv
  <2>4. CASE UNCHANGED row
    BY <1>1, <1>2, <1>3, <1>12, <2>4, OthersUnchanged DEF EnableCommit, IInv
  <2> QED
    BY <1>12, <2>3, <2>4 DEF EnableCommit
<1> QED
  BY <1>5, <1>6, <1>7, <1>8, <1>9, <1>10, <1>11, <1>12

\* Late requests, crashes, the startup pass and revocation.
LEMMA EnvironmentIInv ==
  ASSUME IInv, (\E q \in late : LateExecutes(q)) \/ Startup \/ CrashRestart \/ RevokeKey
  PROVE  IInv'
<1>1. /\ CredentialsOK /\ WorkersOK /\ vault \in [Locators -> Record]
      /\ late \subseteq Request /\ faults \in Nat /\ starting \subseteq Credentials /\ orderly \subseteq Credentials
  BY DEF IInv, WorkersOK, OthersOK
<1>2. ASSUME UNCHANGED <<pc, job, held, starting>>
      PROVE  WorkersOK'
  BY <1>1, <1>2 DEF WorkersOK, WorkerOK, SetIntent
<1>3. ASSUME NEW q \in late, LateExecutes(q)
      PROVE  IInv'
  <2>1. Stored(q) \in Record
    BY <1>1, StoredOK
  <2>2. vault' \in [Locators -> Record] /\ late' \subseteq Request
    BY <1>1, <1>3, <2>1 DEF LateExecutes
  <2> QED
    BY <1>1, <1>2, <1>3, <2>2, DatabaseUnchanged DEF LateExecutes, coordinator
<1>4. CASE Startup
  <2>1. PICK w \in Workers, c \in Credentials : ReconcilePending(w, c)
    BY <1>4 DEF Startup
  <2> DEFINE j == [NoJob EXCEPT !.route = "startup", !.cred = c]
  <2>2. j \in Job /\ intent[c] \in Intent /\ WorkerOK("probe", j, intent[c])
    BY <1>1 DEF CredentialsOK, CredentialOK, WorkerOK, Job, NoJob, Routes
  <2>3. Take(w, "probe", j, intent[c])
    BY <2>1 DEF ReconcilePending
  <2> HIDE DEF j
  <2> QED
    BY <1>1, <2>1, <2>2, <2>3, Taking, DatabaseUnchanged DEF ReconcilePending, Steps
<1>5. CASE CrashRestart
  <2>1. WorkersOK'
    BY <1>5 DEF CrashRestart, Pending, WorkersOK, WorkerOK, SetIntent, NoJob, NoIntent,
       Job, Intent, Steps, Routes, SetOps, Statuses
  <2>2. late' \subseteq Request
    BY <1>1, <1>5, RequestOfOK DEF CrashRestart, Outstanding
  <2> QED
    BY <1>1, <1>5, <2>1, <2>2, DatabaseUnchanged DEF CrashRestart, Fault
<1>6. CASE RevokeKey
  BY <1>2, <1>6
  DEF RevokeKey, IInv, CredentialsOK, OthersOK, CredentialOK, SetIntent, database,
      coordinator
<1> QED
  BY <1>3, <1>4, <1>5, <1>6

\* Every step preserves the inductive invariant.
LEMMA NextIInv ==
  ASSUME IInv, [Next]_vars
  PROVE  IInv'
<1>1. CASE UNCHANGED vars
  BY <1>1 DEF vars, IInv, CredentialsOK, WorkersOK, OthersOK, CredentialOK, WorkerOK, SetIntent
<1>2. CASE \E c \in Credentials : Lifecycle(c)
  BY <1>2, LifecycleIInv
<1>3. ASSUME NEW w \in Workers, Accept(w)
      PROVE  IInv'
  BY <1>3, PrepareSetIInv, PrepareDeleteIInv, EnableReadIInv DEF Accept
<1>4. ASSUME NEW w \in Workers,
             \/ Advance(w) \/ ReplyLost(w) \/ Timeout(w) \/ StepFails(w)
             \/ \E k \in Keys : Replay(w, k)
      PROVE  IInv'
  BY <1>4, ReplayIInv, VaultStepIInv, TransactionIInv DEF Advance
<1>5. CASE (\E q \in late : LateExecutes(q)) \/ Startup \/ CrashRestart \/ RevokeKey
  BY <1>5, EnvironmentIInv
<1> QED
  BY <1>1, <1>2, <1>3, <1>4, <1>5 DEF Next

-----------------------------------------------------------------------------
(* The results.                                                              *)

\* IInv is an invariant of the coordinator, whatever the vault, the clients and
\* the crashes of the control process do.
THEOREM Inductive == Spec => []IInv
  BY InitIInv, NextIInv, PTL DEF Spec

\* Type correctness of the coordinator, the lifecycle operations and the vault.
THEOREM TypeCorrect == Spec => []TypeOK
<1>1. IInv => TypeOK
  BY DEF IInv, CredentialsOK, WorkersOK, OthersOK, TypeOK, History
<1> QED
  BY <1>1, Inductive, PTL

\* A credential has a durable intent exactly while its row is pending or marked
\* reconcile (prepareSet/prepareDelete, finalizeSet/finalizeDelete, rollback,
\* markReconcile), even with late vault requests and concurrent replays.
THEOREM IntentsMatchRows == Spec => []IntentIffPending
<1>1. IInv => IntentIffPending
  BY DEF IInv, CredentialsOK, CredentialOK, IntentIffPending
<1> QED
  BY <1>1, Inductive, PTL

\* Idle rows have the shape the table's CHECK constraint demands, so that only
\* rollback can ever be refused by it.
THEOREM IdleRowsWellShaped == Spec => []IdleRowShape
<1>1. IInv => IdleRowShape
  BY DEF IInv, CredentialsOK, CredentialOK, IdleRowShape, HasValue
<1> QED
  BY <1>1, Inductive, PTL

\* What one step may do to a credential's authorization generation.
Forward(c) ==
  /\ row'[c].auth >= row[c].auth
  /\ stored'[c] # stored[c] => row[c].auth > stored[c].auth
  /\ (row[c].status # "configured" /\ row'[c].status = "configured"
      /\ row[c].vaultState = "idle") => row'[c].auth > row[c].auth

\* No step lets an authorization generation go back or a value change under it.
LEMMA ForwardStep ==
  ASSUME IInv, [Next]_vars
  PROVE  \A c \in Credentials : Forward(c)
<1> SUFFICES ASSUME NEW c \in Credentials PROVE Forward(c)
  OBVIOUS
<1>1. /\ row \in [Credentials -> Row] /\ row[c] \in Row
      /\ stored \in [Credentials -> History]
      /\ CredentialOK(row[c], intent[c], stored[c])
  BY DEF IInv, CredentialsOK
<1>2. ASSUME UNCHANGED <<row, stored>>
      PROVE  Forward(c)
  BY <1>1, <1>2 DEF Forward, Row
<1>3. ASSUME NEW d \in Credentials, Lifecycle(d)
      PROVE  Forward(c)
  BY <1>1, <1>3
  DEF Forward, Row, Lifecycle, Create, Update, ReplaceAssignments, Disable,
      ArchiveUnconfigured, DeleteArchived, InvalidateCredential, LifecycleUnchanged
<1>4. ASSUME NEW d \in Credentials, NEW p \in VaultStates, UNCHANGED stored,
             row' = [row EXCEPT ![d].vaultState = p, ![d].auth = @ + 1, ![d].version = @ + 1]
      PROVE  Forward(c)
  BY <1>1, <1>4 DEF Forward, Row
<1>5. ASSUME NEW w \in Workers, Accept(w)
      PROVE  Forward(c)
  <2>1. ASSUME NEW d \in Credentials, NEW v \in Values, NEW k \in Keys,
               NEW r \in SetRoutes, NEW l \in Locators, PrepareSet(w, d, v, k, r, l)
        PROVE  Forward(c)
    BY <1>4, <2>1 DEF PrepareSet, PrepareSetMutation, PrepareIntent, VaultStates
  <2>2. ASSUME NEW d \in Credentials, NEW k \in Keys, NEW r \in DeleteRoutes,
               PrepareDelete(w, d, k, r)
        PROVE  Forward(c)
    BY <1>4, <2>2 DEF PrepareDelete, PrepareDeleteMutation, PrepareIntent, VaultStates
  <2>3. ASSUME NEW d \in Credentials, EnableRead(w, d)
        PROVE  Forward(c)
    BY <1>2, <2>3 DEF EnableRead, database
  <2> QED
    BY <1>5, <2>1, <2>2, <2>3 DEF Accept
<1>6. ASSUME NEW w \in Workers, CanFinalizeSet(w), FinalizeSet(w)
      PROVE  Forward(c)
  <2>1. CASE job[w].cred = c
    <3>1. row'[c].auth = row[c].auth
      BY <1>1, <1>6, <2>1 DEF FinalizeSet, FinalizedRow
    <3> QED
      BY <1>1, <1>6, <2>1, <3>1 DEF Forward, CanFinalizeSet, CredentialOK, Row
  <2>2. CASE job[w].cred # c
    <3>1. row'[c] = row[c] /\ stored'[c] = stored[c]
      BY <1>1, <1>6, <2>2 DEF FinalizeSet, FinalizedRow
    <3> QED
      BY <1>1, <3>1 DEF Forward, Row
  <2> QED
    BY <2>1, <2>2
<1>7. ASSUME NEW w \in Workers, CanFinalizeDelete(w), FinalizeDelete(w)
      PROVE  Forward(c)
  <2>1. CASE job[w].cred = c
    <3>1. row'[c].auth = row[c].auth
      BY <1>1, <1>7, <2>1 DEF FinalizeDelete
    <3> QED
      BY <1>1, <1>7, <2>1, <3>1 DEF Forward, CanFinalizeDelete, CredentialOK, Row
  <2>2. CASE job[w].cred # c
    <3>1. row'[c] = row[c] /\ stored'[c] = stored[c]
      BY <1>1, <1>7, <2>2 DEF FinalizeDelete
    <3> QED
      BY <1>1, <3>1 DEF Forward, Row
  <2> QED
    BY <2>1, <2>2
<1>8. ASSUME NEW w \in Workers, CanRollback(w), Rollback(w)
      PROVE  Forward(c)
  BY <1>1, <1>8 DEF Forward, CanRollback, Rollback, Row
<1>9. ASSUME NEW w \in Workers, Mark(w) \/ EnableCommit(w)
      PROVE  Forward(c)
  BY <1>1, <1>9
  DEF Forward, Mark, MarkReconcile, EnableCommit, InvalidateCredential, Row
<1>10. ASSUME NEW w \in Workers, Advance(w)
      PROVE  Forward(c)
  <2>1. CASE \/ VaultExecutes(w) \/ VaultRefuses(w) \/ Probe(w) \/ View(w)
             \/ EnableProbe(w)
    BY <1>2, <2>1
    DEF VaultExecutes, VaultRefuses, Probe, View, EnableProbe, database
  <2>2. CASE SetApplied(w) \/ Settle(w)
    BY <1>2, <1>6, <2>2 DEF SetApplied, Settle
  <2>3. CASE DeleteApplied(w) \/ SettleDelete(w)
    BY <1>2, <1>7, <2>3 DEF DeleteApplied, SettleDelete
  <2>4. CASE RollBack(w)
    BY <1>2, <1>8, <2>4 DEF RollBack
  <2> QED
    BY <1>9, <1>10, <2>1, <2>2, <2>3, <2>4 DEF Advance
<1>11. CASE \/ UNCHANGED vars
            \/ \E w \in Workers : \/ ReplyLost(w) \/ Timeout(w) \/ StepFails(w)
                                  \/ \E k \in Keys : Replay(w, k)
            \/ \E q \in late : LateExecutes(q)
            \/ Startup \/ CrashRestart \/ RevokeKey
  BY <1>2, <1>11
  DEF vars, ReplyLost, Timeout, StepFails, Replay, LateExecutes, Startup,
      ReconcilePending, CrashRestart, RevokeKey, database
<1> QED
  BY <1>3, <1>5, <1>10, <1>11 DEF Next

\* The authorization generation references are bound to never goes back, has
\* moved before another value is finalized, and moves when enable makes an idle
\* credential usable again.
THEOREM AuthorizationForward == Spec => AuthorizationMovesForward
<1>1. IInv /\ [Next]_vars =>
        [\A c \in Credentials :
           /\ row'[c].auth >= row[c].auth
           /\ stored'[c] # stored[c] => row[c].auth > stored[c].auth
           /\ (row[c].status # "configured" /\ row'[c].status = "configured"
               /\ row[c].vaultState = "idle") => row'[c].auth > row[c].auth]_vars
  BY ForwardStep DEF Forward
<1> QED
  BY <1>1, Inductive, PTL DEF Spec, AuthorizationMovesForward

-----------------------------------------------------------------------------
(* Approvals: generation, selector and locator of what was approved.         *)

Gone == {"archived", "deleted"}

\* An approval names the row's generation; an archived row has nothing left.
ApprovalOK(r, a, s) ==
  /\ a # 0 => a = r.generation
  /\ r.status \in Gone => a = 0 /\ ~s /\ r.locator = NoLocator /\ r.vaultState = "idle"

\* No intent would be rolled back to an archived row.
PriorsOK ==
  /\ \A c \in Credentials : intent[c].prior \notin Gone
  /\ \A w \in Workers : held[w].prior \notin Gone

ApprovalInv ==
  PriorsOK /\ \A c \in Credentials : ApprovalOK(row[c], approval[c], selector[c])

\* A handler holds an intent that was stored before or is being stored.
LEMMA PriorsStep ==
  ASSUME IInv, ApprovalInv, [Next]_vars
  PROVE  PriorsOK'
<1> USE DEF Gone, PriorsOK
<1>1. /\ intent \in [Credentials -> Intent] /\ held \in [Workers -> Intent]
      /\ \A c \in Credentials : intent[c].prior \notin Gone
      /\ \A w \in Workers : held[w].prior \notin Gone
      /\ NoIntent.prior \notin Gone
  BY DEF IInv, CredentialsOK, WorkersOK, ApprovalInv, NoIntent
<1>2. ASSUME NEW w \in Workers, NEW step, NEW j, NEW i, Take(w, step, j, i),
             i.prior \notin Gone
      PROVE  \A u \in Workers : held'[u].prior \notin Gone
  BY <1>1, <1>2 DEF Take
<1>3. ASSUME NEW w \in Workers, \/ Finish(w) \/ Settled(w)
                                \/ \E n \in Steps : Goto(w, n)
      PROVE  \A u \in Workers : held'[u].prior \notin Gone
  BY <1>1, <1>2, <1>3 DEF Finish, Settled, Goto
<1>4. ASSUME NEW c \in Credentials, ClearIntent(c)
      PROVE  \A d \in Credentials : intent'[d].prior \notin Gone
  BY <1>1, <1>4 DEF ClearIntent
<1>5. ASSUME NEW w \in Workers, Accept(w)
      PROVE  PriorsOK'
  <2>1. ASSUME NEW c \in Credentials, NEW i, i.prior \notin Gone,
               intent' = [intent EXCEPT ![c] = i], NEW step, NEW j,
               Take(w, step, j, intent'[c])
        PROVE  PriorsOK'
    BY <1>1, <2>1 DEF Take
  <2>2. ASSUME NEW c \in Credentials, NEW v \in Values, NEW k \in Keys,
               NEW r \in SetRoutes, NEW l \in Locators, PrepareSet(w, c, v, k, r, l)
        PROVE  PriorsOK'
    <3> DEFINE i == [op |-> IF row[c].status = "unconfigured" THEN "create" ELSE "replace",
                     locator |-> l, expected |-> row[c].generation,
                     target |-> row[c].generation + 1, prior |-> row[c].status,
                     approval |-> (r = "approve"), value |-> v]
               j == [route |-> r, cred |-> c, value |-> v, key |-> k, version |-> 0]
    <3>1. i.prior \notin Gone /\ intent' = [intent EXCEPT ![c] = i]
      BY <2>2 DEF PrepareSet, PrepareSetMutation, PrepareIntent, Mutable, Open
    <3>2. Take(w, "call", j, intent'[c])
      BY <2>2 DEF PrepareSet
    <3> HIDE DEF i, j
    <3> QED
      BY <2>1, <3>1, <3>2
  <2>3. ASSUME NEW c \in Credentials, NEW k \in Keys, NEW r \in DeleteRoutes,
               PrepareDelete(w, c, k, r)
        PROVE  PriorsOK'
    BY <2>1, <2>3
    DEF PrepareDelete, PrepareDeleteMutation, PrepareIntent, HasValue
  <2>4. ASSUME NEW c \in Credentials, EnableRead(w, c)
        PROVE  PriorsOK'
    BY <1>1, <2>4 DEF EnableRead, Take, NoIntent, database
  <2> QED
    BY <1>5, <2>2, <2>3, <2>4 DEF Accept
<1>6. ASSUME NEW w \in Workers, Advance(w)
      PROVE  PriorsOK'
  <2>1. CASE VaultExecutes(w) \/ VaultRefuses(w) \/ Probe(w) \/ View(w) \/ EnableProbe(w)
             \/ EnableCommit(w) \/ Mark(w)
    <3>1. UNCHANGED intent /\ (Finish(w) \/ UNCHANGED held)
      BY <2>1 DEF VaultExecutes, VaultRefuses, Probe, View, EnableProbe, EnableCommit, Mark,
                  database, Goto
    <3> QED
      BY <1>1, <1>3, <3>1
  <2>2. CASE \/ SetApplied(w) \/ DeleteApplied(w) \/ Settle(w) \/ RollBack(w) \/ SettleDelete(w)
    <3>1. job[w].cred \in Credentials
      BY <2>2 DEF IInv, WorkersOK, WorkerOK, SetApplied, DeleteApplied, Settle, RollBack,
                  SettleDelete
    <3>2. \/ ClearIntent(job[w].cred) \/ UNCHANGED intent
      BY <2>2 DEF SetApplied, DeleteApplied, Settle, RollBack, SettleDelete, FinalizeSet,
                  FinalizeDelete, Rollback
    <3>3. Finish(w) \/ Settled(w) \/ UNCHANGED held
      BY <2>2 DEF SetApplied, DeleteApplied, Settle, RollBack, SettleDelete, Goto
    <3> QED
      BY <1>1, <1>3, <1>4, <3>1, <3>2, <3>3
  <2> QED
    BY <1>6, <2>1, <2>2 DEF Advance
<1>7. ASSUME NEW w \in Workers, \/ ReplyLost(w) \/ Timeout(w) \/ StepFails(w)
      PROVE  PriorsOK'
  <2>1. UNCHANGED intent /\ (UNCHANGED held \/ held' = [held EXCEPT ![w] = NoIntent])
    BY <1>7 DEF ReplyLost, Timeout, StepFails, Goto, Take, Finish, database
  <2> QED
    BY <1>1, <2>1
<1>8. ASSUME NEW w \in Workers, \E k \in Keys : Replay(w, k)
      PROVE  PriorsOK'
  <2>1. PICK k \in Keys : Replay(w, k)
    BY <1>8
  <2>2. idem[k].cred \in Credentials
    BY <2>1 DEF Replay, IInv, OthersOK
  <2> QED
    BY <1>1, <2>1, <2>2 DEF Replay, Take, database
<1>9. CASE Startup
  BY <1>1, <1>9 DEF Startup, ReconcilePending, Take, database
<1>10. CASE \/ UNCHANGED vars \/ (\E c \in Credentials : Lifecycle(c))
            \/ (\E q \in late : LateExecutes(q)) \/ RevokeKey
  <2>1. UNCHANGED <<intent, held>>
    BY <1>10 DEF vars, Lifecycle, Create, Update, ReplaceAssignments, Disable,
                 ArchiveUnconfigured, DeleteArchived, LifecycleUnchanged, LateExecutes,
                 RevokeKey, database, coordinator
  <2> QED
    BY <1>1, <2>1
<1>11. CASE CrashRestart
  BY <1>1, <1>11 DEF CrashRestart, database
<1> QED
  BY <1>5, <1>6, <1>7, <1>8, <1>9, <1>10, <1>11 DEF Next

\* Every transaction that changes a generation writes or clears the approval
\* with it, and only a row without a value, selector or approval is archived.
LEMMA ApprovalStep ==
  ASSUME IInv, ApprovalInv, [Next]_vars, NEW c \in Credentials
  PROVE  ApprovalOK(row'[c], approval'[c], selector'[c])
<1> USE DEF ApprovalOK, Gone
<1>1. /\ row \in [Credentials -> Row] /\ row[c] \in Row
      /\ approval \in [Credentials -> Nat] /\ selector \in [Credentials -> BOOLEAN]
      /\ CredentialOK(row[c], intent[c], stored[c])
      /\ ApprovalOK(row[c], approval[c], selector[c])
  BY DEF IInv, CredentialsOK, ApprovalInv
<1>2. ASSUME row'[c] = row[c], approval'[c] = approval[c], selector'[c] = selector[c]
      PROVE  ApprovalOK(row'[c], approval'[c], selector'[c])
  BY <1>1, <1>2
<1>3. ASSUME NEW d \in Credentials, Lifecycle(d)
      PROVE  ApprovalOK(row'[c], approval'[c], selector'[c])
  <2>1. CASE d # c
    BY <1>1, <1>2, <1>3, <2>1
    DEF Lifecycle, Create, Update, ReplaceAssignments, Disable, ArchiveUnconfigured,
        DeleteArchived, InvalidateCredential, LifecycleUnchanged
  <2>2. CASE d = c
    <3> USE <1>1, <2>2 DEF Row, CredentialOK
    <3>1. CASE Create(c)
      BY <3>1 DEF Create, LifecycleUnchanged
    <3>2. CASE Update(c)
      BY <3>2 DEF Update, LifecycleUnchanged
    <3>3. CASE ReplaceAssignments(c)
      BY <3>3 DEF ReplaceAssignments, InvalidateCredential, LifecycleUnchanged, Mutable, Open
    <3>4. CASE Disable(c)
      BY <3>4 DEF Disable, InvalidateCredential, LifecycleUnchanged
    <3>5. CASE ArchiveUnconfigured(c)
      BY <3>5 DEF ArchiveUnconfigured, InvalidateCredential, LifecycleUnchanged
    <3>6. CASE DeleteArchived(c)
      BY <3>6 DEF DeleteArchived, LifecycleUnchanged
    <3> QED
      BY <1>3, <3>1, <3>2, <3>3, <3>4, <3>5, <3>6 DEF Lifecycle
  <2> QED
    BY <2>1, <2>2
<1>4. ASSUME NEW d \in Credentials, NEW i, NEW p \in VaultStates, PrepareIntent(d, i, p),
             row[d].status \notin Gone, UNCHANGED <<approval, selector>>
      PROVE  ApprovalOK(row'[c], approval'[c], selector'[c])
  BY <1>1, <1>4 DEF PrepareIntent, Row
<1>5. ASSUME NEW w \in Workers, Accept(w)
      PROVE  ApprovalOK(row'[c], approval'[c], selector'[c])
  <2>1. ASSUME NEW d \in Credentials, NEW v \in Values, NEW k \in Keys,
               NEW r \in SetRoutes, NEW l \in Locators, PrepareSet(w, d, v, k, r, l)
        PROVE  ApprovalOK(row'[c], approval'[c], selector'[c])
    BY <1>4, <2>1 DEF PrepareSet, PrepareSetMutation, VaultStates, Mutable, Open
  <2>2. ASSUME NEW d \in Credentials, NEW k \in Keys, NEW r \in DeleteRoutes,
               PrepareDelete(w, d, k, r)
        PROVE  ApprovalOK(row'[c], approval'[c], selector'[c])
    BY <1>4, <2>2 DEF PrepareDelete, PrepareDeleteMutation, VaultStates, HasValue
  <2>3. ASSUME NEW d \in Credentials, EnableRead(w, d)
        PROVE  ApprovalOK(row'[c], approval'[c], selector'[c])
    BY <1>2, <2>3 DEF EnableRead, database
  <2> QED
    BY <1>5, <2>1, <2>2, <2>3 DEF Accept
<1>6. ASSUME NEW w \in Workers, CanFinalizeSet(w), FinalizeSet(w)
      PROVE  ApprovalOK(row'[c], approval'[c], selector'[c])
  BY <1>1, <1>6 DEF FinalizeSet, FinalizedRow
<1>7. ASSUME NEW w \in Workers, FinalizeDelete(w)
      PROVE  ApprovalOK(row'[c], approval'[c], selector'[c])
  BY <1>1, <1>7 DEF FinalizeDelete
<1>8. ASSUME NEW w \in Workers, CanRollback(w), Rollback(w)
      PROVE  ApprovalOK(row'[c], approval'[c], selector'[c])
  <2>1. held[w].prior \notin Gone
    BY DEF ApprovalInv, PriorsOK
  <2> QED
    BY <1>1, <1>8, <2>1 DEF Rollback, Row
<1>9. ASSUME NEW w \in Workers, Mark(w) \/ EnableCommit(w)
      PROVE  ApprovalOK(row'[c], approval'[c], selector'[c])
  BY <1>1, <1>9 DEF Mark, MarkReconcile, EnableCommit, InvalidateCredential, Row
<1>10. ASSUME NEW w \in Workers, Advance(w)
      PROVE  ApprovalOK(row'[c], approval'[c], selector'[c])
  <2>1. CASE VaultExecutes(w) \/ VaultRefuses(w) \/ Probe(w) \/ View(w) \/ EnableProbe(w)
    BY <1>2, <2>1
    DEF VaultExecutes, VaultRefuses, Probe, View, EnableProbe, database
  <2>2. CASE SetApplied(w) \/ Settle(w)
    BY <1>2, <1>6, <2>2 DEF SetApplied, Settle
  <2>3. CASE DeleteApplied(w) \/ SettleDelete(w)
    BY <1>2, <1>7, <2>3 DEF DeleteApplied, SettleDelete
  <2>4. CASE RollBack(w)
    BY <1>2, <1>8, <2>4 DEF RollBack
  <2> QED
    BY <1>9, <1>10, <2>1, <2>2, <2>3, <2>4 DEF Advance
<1>11. CASE \/ UNCHANGED vars
            \/ \E w \in Workers : \/ ReplyLost(w) \/ Timeout(w) \/ StepFails(w)
                                  \/ \E k \in Keys : Replay(w, k)
            \/ \E q \in late : LateExecutes(q)
            \/ Startup \/ CrashRestart \/ RevokeKey
  BY <1>2, <1>11
  DEF vars, ReplyLost, Timeout, StepFails, Replay, LateExecutes, Startup,
      ReconcilePending, CrashRestart, RevokeKey, database
<1> QED
  BY <1>3, <1>5, <1>10, <1>11 DEF Next

\* An approval names the generation in force and an archived or deleted
\* credential keeps no value, selector or approval (finalizeSet, finalizeDelete,
\* rollback), even with late vault requests and concurrent replays.
THEOREM ApprovalsCurrent == Spec => []ApprovalsAreCurrent
<1>1. Init => ApprovalInv
  BY DEF Init, ApprovalInv, PriorsOK, ApprovalOK, Gone, AbsentRow, NoIntent
<1>2. IInv /\ ApprovalInv /\ [Next]_vars => ApprovalInv'
  BY PriorsStep, ApprovalStep DEF ApprovalInv
<1>3. ApprovalInv => ApprovalsAreCurrent
  BY DEF ApprovalInv, ApprovalOK, ApprovalsAreCurrent, Gone
<1> QED
  BY <1>1, <1>2, <1>3, Inductive, PTL DEF Spec

-----------------------------------------------------------------------------
(* How a handler moves, and what the startup pass still has before it.       *)

\* Which handlers get to a step: the startup pass sends no first request, and only
\* a set looks at the view.
RouteOK(n, j) ==
  /\ n = "view" => j.route \in SetRoutes
  /\ n \in {"call", "applied"} => j.route \in SetRoutes \cup DeleteRoutes
  /\ n \in {"enable_probe", "enable_commit"} => j.route = "enable"
  /\ n \notin {"idle", "enable_probe", "enable_commit"} =>
       j.route \in SetRoutes \cup DeleteRoutes \cup {"startup"}

Stays(w) == pc'[w] = pc[w] /\ job'[w] = job[w] /\ held'[w] = held[w]
Ends(w)  == pc'[w] = "idle" /\ job'[w] = NoJob /\ held'[w] = NoIntent
Moves(w) == /\ pc[w] # "idle" /\ job'[w] = job[w] /\ held'[w] = held[w]
            /\ pc'[w] \in Steps \ {"idle"}
            /\ RouteOK(pc[w], job[w]) => RouteOK(pc'[w], job'[w])
\* A handler begins with an intent, or with enable's first read.
Begins(w) ==
  /\ pc[w] = "idle" /\ pc'[w] \in {"call", "enable_probe", "probe"}
  /\ job'[w].cred \in Credentials /\ RouteOK(pc'[w], job'[w])
  /\ \/ held'[w].locator = intent'[job'[w].cred].locator
     \/ held'[w].locator = row[job'[w].cred].locator

\* At most one handler does something in a step, unless the process dies.
OneHandler ==
  \/ \A u \in Workers : Ends(u)
  \/ \A u \in Workers : Stays(u)
  \/ \E w \in Workers : /\ Ends(w) \/ Moves(w) \/ Begins(w)
                        /\ \A u \in Workers \ {w} : Stays(u)

\* Every step is a step of one handler, or of none, or ends them all.
LEMMA HandlerSteps ==
  ASSUME IInv, [Next]_vars
  PROVE  OneHandler
<1> USE DEF OneHandler
<1>1. /\ pc \in [Workers -> Steps] /\ job \in [Workers -> Job]
      /\ held \in [Workers -> Intent]
  BY DEF IInv, WorkersOK
<1>2. ASSUME NEW w \in Workers, NEW n \in Steps \ {"idle"}, Goto(w, n), pc[w] # "idle",
             RouteOK(pc[w], job[w]) => RouteOK(n, job[w])
      PROVE  OneHandler
  <2>1. Moves(w) /\ \A u \in Workers \ {w} : Stays(u)
    BY <1>1, <1>2 DEF Goto, Moves, Stays
  <2> QED
    BY <2>1
<1>3. ASSUME NEW w \in Workers, Take(w, "idle", NoJob, NoIntent)
      PROVE  OneHandler
  <2>1. Ends(w) /\ \A u \in Workers \ {w} : Stays(u)
    BY <1>1, <1>3 DEF Take, Ends, Stays
  <2> QED
    BY <2>1
<1>4. ASSUME NEW w \in Workers, NEW n \in {"call", "enable_probe", "probe"}, NEW j, NEW i,
             Take(w, n, j, i), pc[w] = "idle", j.cred \in Credentials, RouteOK(n, j),
             i.locator = intent'[j.cred].locator \/ i.locator = row[j.cred].locator
      PROVE  OneHandler
  <2>1. Begins(w) /\ \A u \in Workers \ {w} : Stays(u)
    BY <1>1, <1>4 DEF Take, Begins, Stays
  <2> QED
    BY <2>1
<1>5. ASSUME NEW w \in Workers, Settled(w), pc[w] # "idle"
      PROVE  OneHandler
  BY <1>2, <1>3, <1>5 DEF Settled, Finish, Steps, RouteOK
<1>6. ASSUME NEW w \in Workers, Accept(w)
      PROVE  OneHandler
  <2>1. ASSUME NEW c \in Credentials, NEW v \in Values, NEW k \in Keys,
               NEW r \in SetRoutes, NEW l \in Locators, PrepareSet(w, c, v, k, r, l)
        PROVE  OneHandler
    BY <1>4, <2>1 DEF PrepareSet, RouteOK
  <2>2. ASSUME NEW c \in Credentials, NEW k \in Keys, NEW r \in DeleteRoutes,
               PrepareDelete(w, c, k, r)
        PROVE  OneHandler
    BY <1>4, <2>2 DEF PrepareDelete, RouteOK
  <2>3. ASSUME NEW c \in Credentials, EnableRead(w, c)
        PROVE  OneHandler
    <3> DEFINE i == [NoIntent EXCEPT !.locator = row[c].locator, !.expected = row[c].generation]
               j == [route |-> "enable", cred |-> c, value |-> NoValue, key |-> NoKey,
                     version |-> row[c].version]
    <3>1. Take(w, "enable_probe", j, i) /\ pc[w] = "idle"
      BY <2>3 DEF EnableRead
    <3>2. i.locator = row[c].locator /\ j.cred = c /\ RouteOK("enable_probe", j)
      BY DEF NoIntent, RouteOK
    <3> HIDE DEF i, j
    <3> QED
      BY <1>4, <3>1, <3>2
  <2> QED
    BY <1>6, <2>1, <2>2, <2>3 DEF Accept
<1>7. ASSUME NEW w \in Workers, \E k \in Keys : Replay(w, k)
      PROVE  OneHandler
  <2>1. PICK k \in Keys : Replay(w, k)
    BY <1>7
  <2>2. /\ idem[k].cred \in Credentials
        /\ idem[k].route \in SetRoutes \cup DeleteRoutes
    BY <2>1 DEF Replay, IInv, OthersOK, IdempotencyRecord
  <2> QED
    BY <1>4, <2>1, <2>2 DEF Replay, database, RouteOK
<1>8. ASSUME NEW w \in Workers, Advance(w)
      PROVE  OneHandler
  <2> USE <1>1, <1>2, <1>3, <1>5 DEF Finish, Steps, RouteOK
  <2>1. CASE VaultExecutes(w)
    <3>1. \/ pc[w] = "redelete" /\ Goto(w, "redeleted")
          \/ pc[w] = "call" /\ (Goto(w, "mark") \/ Goto(w, "applied"))
      BY <2>1 DEF VaultExecutes
    <3> QED
      BY <3>1
  <2>2. CASE VaultRefuses(w)
    BY <2>2 DEF VaultRefuses
  <2>3. CASE SetApplied(w) \/ DeleteApplied(w)
    BY <2>3 DEF SetApplied, DeleteApplied
  <2>4. CASE Probe(w)
    <3>1. Settlement(held[w].op, vault[held[w].locator].generation, held[w])
            \in Steps \ {"idle", "call", "applied", "view", "enable_probe", "enable_commit"}
      BY DEF Settlement
    <3> QED
      BY <2>4, <3>1 DEF Probe
  <2>5. CASE Settle(w)
    BY <2>5 DEF Settle
  <2>6. CASE RollBack(w)
    BY <2>6 DEF RollBack
  <2>7. CASE SettleDelete(w)
    BY <2>7 DEF SettleDelete
  <2>8. CASE Mark(w) \/ View(w) \/ EnableProbe(w) \/ EnableCommit(w)
    BY <2>8 DEF Mark, View, EnableProbe, EnableCommit
  <2> QED
    BY <1>8, <2>1, <2>2, <2>3, <2>4, <2>5, <2>6, <2>7, <2>8 DEF Advance
<1>9. ASSUME NEW w \in Workers, ReplyLost(w) \/ Timeout(w) \/ StepFails(w)
      PROVE  OneHandler
  BY <1>2, <1>3, <1>9 DEF ReplyLost, Timeout, StepFails, Finish, Steps, RouteOK
<1>10. CASE Startup
  <2>1. PICK w \in Workers, c \in Credentials : ReconcilePending(w, c)
    BY <1>10 DEF Startup
  <2> DEFINE j == [NoJob EXCEPT !.route = "startup", !.cred = c]
  <2>2. /\ Take(w, "probe", j, intent'[c]) /\ pc[w] = "idle"
        /\ j.cred = c /\ RouteOK("probe", j)
    BY <2>1 DEF ReconcilePending, NoJob, database, RouteOK
  <2> HIDE DEF j
  <2> QED
    BY <1>4, <2>2
<1>11. CASE CrashRestart
  BY <1>1, <1>11 DEF CrashRestart, Ends
<1>12. CASE \/ UNCHANGED vars \/ (\E c \in Credentials : Lifecycle(c))
            \/ (\E q \in late : LateExecutes(q)) \/ RevokeKey
  BY <1>12 DEF Stays, vars, Lifecycle, Create, Update, ReplaceAssignments, Disable,
               ArchiveUnconfigured, DeleteArchived, LifecycleUnchanged, LateExecutes,
               RevokeKey, coordinator
<1> QED
  BY <1>6, <1>7, <1>8, <1>9, <1>10, <1>11, <1>12 DEF Next

-----------------------------------------------------------------------------
(* Locators: which credential a vault locator belongs to.                    *)

\* Everything that names a locator on behalf of a credential.
Refers(c, l) ==
  \/ row[c].locator = l
  \/ intent[c].locator = l
  \/ \E w \in Workers : job[w].cred = c /\ held[w].locator = l
  \/ \E q \in late : q.cred = c /\ q.locator = l
  \/ vault[l].cred = c

\* A locator named was allocated, and on behalf of one credential only.
LocatorsOK ==
  /\ \A c \in Credentials, l \in Locators : Refers(c, l) => l \in used
  /\ \A c, d \in Credentials, l \in Locators : Refers(c, l) /\ Refers(d, l) => c = d

\* A vault record is absent or bound to a credential, and so is a late request.
RecordsOK ==
  /\ \A l \in Locators : \/ vault[l] = NoRecord
                         \/ vault[l].generation # 0 /\ vault[l].cred \in Credentials
  /\ \A q \in late : q.cred \in Credentials

\* What accepting a request leaves alone.
LEMMA AcceptFrame ==
  ASSUME NEW w \in Workers, Accept(w)
  PROVE  UNCHANGED <<vault, late, starting, stored, orderly>>
<1>1. ASSUME NEW c \in Credentials, NEW v \in Values, NEW k \in Keys,
             NEW r \in SetRoutes, NEW l \in Locators, PrepareSet(w, c, v, k, r, l)
      PROVE  UNCHANGED <<vault, late, starting, stored, orderly>>
  BY <1>1 DEF PrepareSet
<1>2. ASSUME NEW c \in Credentials, NEW k \in Keys, NEW r \in DeleteRoutes,
             PrepareDelete(w, c, k, r)
      PROVE  UNCHANGED <<vault, late, starting, stored, orderly>>
  BY <1>2 DEF PrepareDelete
<1>3. ASSUME NEW c \in Credentials, EnableRead(w, c)
      PROVE  UNCHANGED <<vault, late, starting, stored, orderly>>
  BY <1>3 DEF EnableRead
<1> QED
  BY <1>1, <1>2, <1>3 DEF Accept

\* What the lifecycle operations leave alone.
LEMMA LifecycleFrame ==
  ASSUME NEW c \in Credentials, Lifecycle(c)
  PROVE  UNCHANGED <<intent, vault, used, late, pc, job, held, starting, stored, orderly>>
  BY DEF Lifecycle, Create, Update, ReplaceAssignments, Disable, ArchiveUnconfigured,
         DeleteArchived, LifecycleUnchanged, coordinator

\* What a failed step, a lost answer and a replay leave alone.
LEMMA FaultFrame ==
  ASSUME NEW w \in Workers, \/ ReplyLost(w) \/ Timeout(w) \/ StepFails(w)
                            \/ \E k \in Keys : Replay(w, k)
  PROVE  UNCHANGED <<row, intent, vault, used, stored>> /\ (UNCHANGED late \/ Timeout(w))
<1>1. CASE ReplyLost(w)
  BY <1>1 DEF ReplyLost, database
<1>2. CASE Timeout(w)
  BY <1>2 DEF Timeout, database
<1>3. CASE StepFails(w)
  BY <1>3 DEF StepFails, database
<1>4. CASE \E k \in Keys : Replay(w, k)
  BY <1>4 DEF Replay, database
<1> QED
  BY <1>1, <1>2, <1>3, <1>4

\* What restarts and revocations leave alone.
LEMMA RestartFrame ==
  ASSUME UNCHANGED vars \/ Startup \/ CrashRestart \/ RevokeKey
  PROVE  UNCHANGED <<row, intent, vault, used, stored, orderly>>
<1>1. CASE UNCHANGED vars
  BY <1>1 DEF vars
<1>2. CASE Startup
  <2>1. PICK w \in Workers, c \in Credentials : ReconcilePending(w, c)
    BY <1>2 DEF Startup
  <2> QED
    BY <2>1 DEF ReconcilePending, database
<1>3. CASE CrashRestart
  BY <1>3 DEF CrashRestart, database
<1>4. CASE RevokeKey
  BY <1>4 DEF RevokeKey, database
<1> QED
  BY <1>1, <1>2, <1>3, <1>4

\* What a handler on its own leaves alone, step by step.
LEMMA AdvanceFrame ==
  ASSUME NEW w \in Workers, Advance(w)
  PROVE  /\ UNCHANGED <<used, late, orderly>>
         /\ UNCHANGED vault \/ VaultExecutes(w)
         /\ UNCHANGED intent \/ ClearIntent(job[w].cred)
         /\ \/ UNCHANGED <<row, stored>>
            \/ FinalizeSet(w) \/ FinalizeDelete(w) \/ (Rollback(w) /\ CanRollback(w))
            \/ (Mark(w) \/ EnableCommit(w)) /\ UNCHANGED <<intent, stored>>
<1>1. CASE VaultExecutes(w) \/ VaultRefuses(w) \/ Probe(w) \/ View(w) \/ EnableProbe(w)
  BY <1>1 DEF VaultExecutes, VaultRefuses, Probe, View, EnableProbe, database
<1>2. CASE SetApplied(w) \/ Settle(w)
  BY <1>2 DEF SetApplied, Settle, FinalizeSet
<1>3. CASE DeleteApplied(w) \/ SettleDelete(w)
  BY <1>3 DEF DeleteApplied, SettleDelete, FinalizeDelete
<1>4. CASE RollBack(w)
  BY <1>4 DEF RollBack, Rollback
<1>5. CASE Mark(w) \/ EnableCommit(w)
  BY <1>5 DEF Mark, EnableCommit
<1> QED
  BY <1>1, <1>2, <1>3, <1>4, <1>5 DEF Advance

Requested(q) == \/ q \in late
                \/ \E w \in Workers : pc[w] \in {"call", "redelete"} /\ q = RequestOf(w)

\* The vault changes by executing a request that was sent.
LEMMA VaultSteps ==
  ASSUME [Next]_vars
  PROVE  \/ vault' = vault
         \/ \E q : /\ Requested(q) /\ Accepts(q)
                   /\ vault' = [vault EXCEPT ![q.locator] = Stored(q)]
<1>1. ASSUME NEW w \in Workers, VaultExecutes(w)
      PROVE  \E q : /\ Requested(q) /\ Accepts(q)
                    /\ vault' = [vault EXCEPT ![q.locator] = Stored(q)]
  BY <1>1 DEF VaultExecutes, Requested
<1>2. ASSUME NEW q \in late, LateExecutes(q)
      PROVE  vault' = vault \/ (/\ Requested(q) /\ Accepts(q)
                                /\ vault' = [vault EXCEPT ![q.locator] = Stored(q)])
  BY <1>2 DEF LateExecutes, Requested
<1> QED
  BY <1>1, <1>2, AcceptFrame, LifecycleFrame, FaultFrame, RestartFrame, AdvanceFrame DEF Next

\* A request its caller gave up on is one that a handler had sent.
LEMMA LateSteps ==
  ASSUME [Next]_vars, NEW q \in late'
  PROVE  Requested(q)
<1>1. ASSUME NEW w \in Workers, Timeout(w)
      PROVE  Requested(q)
  BY <1>1 DEF Timeout, Requested
<1>2. CASE CrashRestart
  BY <1>2 DEF CrashRestart, Outstanding, Requested
<1>3. ASSUME NEW r \in late, LateExecutes(r)
      PROVE  q \in late
  BY <1>3 DEF LateExecutes
<1>4. ASSUME NEW w \in Workers, NEW c \in Credentials, ReconcilePending(w, c)
      PROVE  q \in late
  BY <1>4 DEF ReconcilePending
<1>5. ASSUME UNCHANGED vars \/ RevokeKey
      PROVE  q \in late
  BY <1>5 DEF vars, RevokeKey
<1>6. CASE q \in late
  BY <1>6 DEF Requested
<1> QED
  BY <1>1, <1>2, <1>3, <1>4, <1>5, <1>6, AcceptFrame, LifecycleFrame, FaultFrame,
     AdvanceFrame
  DEF Next, Startup

\* A row takes the locator of an intent a handler holds for it, or none.
LEMMA RowLocatorSteps ==
  ASSUME IInv, [Next]_vars, NEW c \in Credentials
  PROVE  \/ row'[c].locator \in {row[c].locator, NoLocator}
         \/ \E w \in Workers : job[w].cred = c /\ row'[c].locator = held[w].locator
<1>1. row \in [Credentials -> Row] /\ row[c] \in Row
  BY DEF IInv, CredentialsOK
<1>2. ASSUME NEW w \in Workers, Advance(w)
      PROVE  \/ row'[c].locator \in {row[c].locator, NoLocator}
             \/ job[w].cred = c /\ row'[c].locator = held[w].locator
  <2>1. CASE FinalizeSet(w)
    BY <1>1, <2>1 DEF FinalizeSet, FinalizedRow
  <2>2. CASE FinalizeDelete(w)
    BY <1>1, <2>2 DEF FinalizeDelete
  <2>3. CASE Rollback(w)
    BY <1>1, <2>3 DEF Rollback, Row
  <2>4. CASE Mark(w) \/ EnableCommit(w)
    BY <1>1, <2>4 DEF Mark, MarkReconcile, EnableCommit, InvalidateCredential, Row
  <2> QED
    BY <1>2, <2>1, <2>2, <2>3, <2>4, AdvanceFrame
<1>3. ASSUME NEW w \in Workers, Accept(w)
      PROVE  row'[c].locator = row[c].locator
  <2>1. ASSUME NEW d, NEW i, NEW p, PrepareIntent(d, i, p)
        PROVE  row'[c].locator = row[c].locator
    BY <1>1, <2>1 DEF PrepareIntent, Row
  <2>2. ASSUME NEW d \in Credentials, NEW v \in Values, NEW k \in Keys,
               NEW r \in SetRoutes, NEW l \in Locators, PrepareSet(w, d, v, k, r, l)
        PROVE  row'[c].locator = row[c].locator
    BY <2>1, <2>2 DEF PrepareSet, PrepareSetMutation
  <2>3. ASSUME NEW d \in Credentials, NEW k \in Keys, NEW r \in DeleteRoutes,
               PrepareDelete(w, d, k, r)
        PROVE  row'[c].locator = row[c].locator
    BY <2>1, <2>3 DEF PrepareDelete, PrepareDeleteMutation
  <2>4. ASSUME NEW d \in Credentials, EnableRead(w, d)
        PROVE  row'[c].locator = row[c].locator
    BY <2>4 DEF EnableRead, database
  <2> QED
    BY <1>3, <2>2, <2>3, <2>4 DEF Accept
<1>4. ASSUME NEW d \in Credentials, Lifecycle(d)
      PROVE  row'[c].locator = row[c].locator
  BY <1>1, <1>4
  DEF Row, Lifecycle, Create, Update, ReplaceAssignments, Disable, ArchiveUnconfigured,
      DeleteArchived, InvalidateCredential
<1>5. ASSUME NEW q \in late, LateExecutes(q)
      PROVE  UNCHANGED row
  BY <1>5 DEF LateExecutes, database
<1> QED
  BY <1>2, <1>3, <1>4, <1>5, FaultFrame, RestartFrame DEF Next

\* An intent names the row's locator or one allocated for it in the same step.
LEMMA IntentLocatorSteps ==
  ASSUME IInv, [Next]_vars
  PROVE  \/ /\ used' = used
            /\ \A c \in Credentials :
                 intent'[c].locator \in {intent[c].locator, row[c].locator, NoLocator}
         \/ \E d \in Credentials, k \in Locators \ used :
              /\ used' = used \cup {k}
              /\ intent'[d].locator = k
              /\ \A c \in Credentials \ {d} : intent'[c] = intent[c]
<1> DEFINE Same == \A c \in Credentials :
                     intent'[c].locator \in {intent[c].locator, row[c].locator, NoLocator}
<1>1. intent \in [Credentials -> Intent]
  BY DEF IInv, CredentialsOK
<1>2. ASSUME NEW w \in Workers, Accept(w)
      PROVE  \/ used' = used /\ Same
             \/ \E d \in Credentials, k \in Locators \ used :
                  /\ used' = used \cup {k}
                  /\ intent'[d].locator = k
                  /\ \A c \in Credentials \ {d} : intent'[c] = intent[c]
  <2>1. ASSUME NEW c \in Credentials, NEW k \in Keys, NEW r \in DeleteRoutes,
               PrepareDelete(w, c, k, r)
        PROVE  used' = used /\ Same
    BY <1>1, <2>1 DEF PrepareDelete, PrepareDeleteMutation, PrepareIntent
  <2>2. ASSUME NEW c \in Credentials, EnableRead(w, c)
        PROVE  used' = used /\ Same
    BY <2>2 DEF EnableRead, database
  <2>3. ASSUME NEW c \in Credentials, NEW v \in Values, NEW k \in Keys,
               NEW r \in SetRoutes, NEW l \in Locators, PrepareSet(w, c, v, k, r, l)
        PROVE  /\ used' = used \cup {l} /\ (l \in used => l = row[c].locator)
               /\ intent'[c].locator = l
               /\ \A d \in Credentials \ {c} : intent'[d] = intent[d]
    BY <1>1, <2>3 DEF PrepareSet, PrepareSetMutation, PrepareIntent
  <2>4. ASSUME NEW c \in Credentials, NEW v \in Values, NEW k \in Keys,
               NEW r \in SetRoutes, NEW l \in Locators, PrepareSet(w, c, v, k, r, l),
               l \in used
        PROVE  used' = used /\ Same
    <3>1. used' = used \cup {l} /\ l = row[c].locator
      BY <2>3, <2>4
    <3>2. ASSUME NEW d \in Credentials
          PROVE  intent'[d].locator \in {intent[d].locator, row[d].locator, NoLocator}
      BY <2>3, <2>4
    <3>3. used' = used
      BY <2>4, <3>1
    <3> QED
      BY <3>2, <3>3
  <2> QED
    BY <1>2, <2>1, <2>2, <2>3, <2>4 DEF Accept
<1>3. ASSUME NEW c, ClearIntent(c)
      PROVE  Same
  BY <1>1, <1>3 DEF ClearIntent, NoIntent
<1>4. ASSUME NEW w \in Workers, Advance(w)
      PROVE  used' = used /\ Same
  BY <1>3, <1>4, AdvanceFrame
<1>5. ASSUME NEW q \in late, LateExecutes(q)
      PROVE  used' = used /\ Same
  BY <1>5 DEF LateExecutes, database
<1>6. ASSUME NEW d \in Credentials, Lifecycle(d)
      PROVE  used' = used /\ Same
  BY <1>6, LifecycleFrame
<1>7. ASSUME NEW w \in Workers, \/ ReplyLost(w) \/ Timeout(w) \/ StepFails(w)
                                \/ \E k \in Keys : Replay(w, k)
      PROVE  used' = used /\ Same
  BY <1>7, FaultFrame
<1>8. CASE UNCHANGED vars \/ Startup \/ CrashRestart \/ RevokeKey
  BY <1>8, RestartFrame
<1> HIDE DEF Same
<1> QED
  BY <1>2, <1>4, <1>5, <1>6, <1>7, <1>8 DEF Next, Same

\* Every step keeps the allocation of locators: only PrepareSet of an unconfigured
\* credential lets something name a locator that nothing named for it before.
LEMMA ReferenceSteps ==
  ASSUME IInv, [Next]_vars
  PROVE  /\ used \subseteq used'
         /\ \/ \A c \in Credentials, l \in Locators : Refers(c, l)' => Refers(c, l)
            \/ \E d \in Credentials, k \in Locators \ used :
                 /\ used' = used \cup {k}
                 /\ \A c \in Credentials, l \in Locators :
                      Refers(c, l)' => Refers(c, l) \/ (c = d /\ l = k)
<1>1. ASSUME NEW c \in Credentials, NEW l \in Locators, row'[c].locator = l
      PROVE  Refers(c, l)
  BY <1>1, RowLocatorSteps, CredentialVaultAssumption DEF Refers
<1>2. ASSUME NEW q, Requested(q), NEW c, NEW l, q.cred = c, q.locator = l
      PROVE  Refers(c, l)
  BY <1>2 DEF Requested, RequestOf, Refers
<1>3. ASSUME NEW c \in Credentials, NEW l \in Locators, NEW q \in late', q.cred = c,
             q.locator = l
      PROVE  Refers(c, l)
  BY <1>2, <1>3, LateSteps
<1>4. ASSUME NEW c \in Credentials, NEW l \in Locators, vault'[l].cred = c
      PROVE  Refers(c, l)
  <2>1. CASE vault' = vault
    BY <1>4, <2>1 DEF Refers
  <2>2. ASSUME NEW q, Requested(q), vault' = [vault EXCEPT ![q.locator] = Stored(q)]
        PROVE  Refers(c, l)
    <3>1. CASE l # q.locator
      BY <1>4, <2>2, <3>1 DEF Refers, IInv, OthersOK
    <3>2. CASE l = q.locator
      <4>1. vault'[l] = Stored(q)
        BY <2>2, <3>2 DEF IInv, OthersOK
      <4>2. q \in Request
        BY <2>2, RequestOfOK DEF Requested, IInv, OthersOK
      <4>3. Stored(q).cred \in {q.cred, NoCredential}
        BY <4>2 DEF Stored, NoRecord, Request
      <4> QED
        BY <1>2, <1>4, <2>2, <3>2, <4>1, <4>3, CredentialVaultAssumption
    <3> QED
      BY <3>1, <3>2
  <2> QED
    BY <2>1, <2>2, VaultSteps
<1>5. ASSUME NEW c \in Credentials, NEW l \in Locators, NEW w \in Workers,
             job'[w].cred = c, held'[w].locator = l
      PROVE  Refers(c, l) \/ intent'[c].locator = l
  <2>1. Stays(w) \/ Ends(w) \/ Moves(w) \/ Begins(w)
    BY HandlerSteps DEF OneHandler
  <2> QED
    BY <1>5, <2>1, CredentialVaultAssumption DEF Stays, Ends, Moves, Begins, NoIntent, Refers
<1>6. ASSUME used' = used, \A c \in Credentials :
               intent'[c].locator \in {intent[c].locator, row[c].locator, NoLocator}
      PROVE  \A c \in Credentials, l \in Locators : Refers(c, l)' => Refers(c, l)
  <2> SUFFICES ASSUME NEW c \in Credentials, NEW l \in Locators, Refers(c, l)'
               PROVE  Refers(c, l)
    OBVIOUS
  <2>1. CASE intent'[c].locator = l
    BY <1>6, <2>1, CredentialVaultAssumption DEF Refers
  <2> QED
    BY <1>1, <1>3, <1>4, <1>5, <2>1 DEF Refers
<1>7. ASSUME NEW d \in Credentials, NEW k \in Locators \ used, used' = used \cup {k},
             intent'[d].locator = k, \A c \in Credentials \ {d} : intent'[c] = intent[c]
      PROVE  \A c \in Credentials, l \in Locators :
               Refers(c, l)' => Refers(c, l) \/ (c = d /\ l = k)
  <2> SUFFICES ASSUME NEW c \in Credentials, NEW l \in Locators, Refers(c, l)'
               PROVE  Refers(c, l) \/ (c = d /\ l = k)
    OBVIOUS
  <2>1. CASE intent'[c].locator = l
    BY <1>7, <2>1 DEF Refers
  <2> QED
    BY <1>1, <1>3, <1>4, <1>5, <2>1 DEF Refers
<1> QED
  BY <1>6, <1>7, IntentLocatorSteps

\* No step lets two credentials name one locator, or one name an unallocated one.
LEMMA LocatorsStep ==
  ASSUME IInv, LocatorsOK, [Next]_vars
  PROVE  LocatorsOK'
<1>1. CASE \A c \in Credentials, l \in Locators : Refers(c, l)' => Refers(c, l)
  BY <1>1, ReferenceSteps DEF LocatorsOK
<1>2. ASSUME NEW d \in Credentials, NEW k \in Locators \ used, used' = used \cup {k},
             \A c \in Credentials, l \in Locators :
               Refers(c, l)' => Refers(c, l) \/ (c = d /\ l = k)
      PROVE  LocatorsOK'
  BY <1>2 DEF LocatorsOK
<1> QED
  BY <1>1, <1>2, ReferenceSteps

\* No step leaves a half-written record, or a request for no credential.
LEMMA RecordsStep ==
  ASSUME IInv, RecordsOK, [Next]_vars
  PROVE  RecordsOK'
<1>1. ASSUME NEW q, Requested(q)
      PROVE  q \in Request /\ q.cred \in Credentials
  <2>1. ASSUME NEW w \in Workers, pc[w] \in {"call", "redelete"}, q = RequestOf(w)
        PROVE  q \in Request /\ q.cred \in Credentials
    BY <2>1, RequestOfOK DEF IInv, WorkersOK, WorkerOK, RequestOf
  <2> QED
    BY <1>1, <2>1 DEF Requested, IInv, OthersOK, RecordsOK
<1>2. ASSUME NEW q, Requested(q), NEW l \in Locators,
             vault' = [vault EXCEPT ![q.locator] = Stored(q)]
      PROVE  vault'[l] = NoRecord \/ (vault'[l].generation # 0 /\ vault'[l].cred \in Credentials)
  <2>1. q \in Request /\ q.cred \in Credentials /\ vault \in [Locators -> Record]
    BY <1>1, <1>2 DEF IInv, OthersOK
  <2>2. CASE l # q.locator
    BY <1>2, <2>1, <2>2 DEF RecordsOK
  <2>3. CASE l = q.locator
    <3>1. vault'[l] = Stored(q)
      BY <1>2, <2>1, <2>3
    <3> QED
      BY <2>1, <3>1 DEF Stored, Request
  <2> QED
    BY <2>2, <2>3
<1>3. \A q \in late' : q.cred \in Credentials
  BY <1>1, LateSteps
<1>4. \A l \in Locators :
        vault'[l] = NoRecord \/ (vault'[l].generation # 0 /\ vault'[l].cred \in Credentials)
  BY <1>2, VaultSteps DEF RecordsOK
<1> QED
  BY <1>3, <1>4 DEF RecordsOK

\* A handler goes on along its own route.
LEMMA RoutesStep ==
  ASSUME IInv, [Next]_vars, NEW w \in Workers, RouteOK(pc[w], job[w])
  PROVE  RouteOK(pc'[w], job'[w])
<1>1. Stays(w) \/ Ends(w) \/ Moves(w) \/ Begins(w)
  BY HandlerSteps DEF OneHandler
<1> QED
  BY <1>1 DEF Stays, Ends, Moves, Begins, RouteOK

\* Set intents and set requests carry a value, the others none.
ValuesOK ==
  /\ \A c \in Credentials : (intent[c].op \in SetOps) <=> (intent[c].value \in Values)
  /\ \A k \in Keys : (idem[k].route \in SetRoutes) <=> (idem[k].value \in Values)

\* No step gives a delete a value or takes it from a set.
LEMMA ValuesStep ==
  ASSUME IInv, ValuesOK, [Next]_vars
  PROVE  ValuesOK'
<1>1. intent \in [Credentials -> Intent] /\ idem \in [Keys -> IdempotencyRecord]
  BY DEF IInv, CredentialsOK, OthersOK
<1>2. ASSUME UNCHANGED idem, NEW c, UNCHANGED intent \/ ClearIntent(c)
      PROVE  ValuesOK'
  BY <1>1, <1>2, CredentialVaultAssumption DEF ValuesOK, ClearIntent, NoIntent, SetOps
<1>3. ASSUME NEW w \in Workers, Accept(w)
      PROVE  ValuesOK'
  <2>1. ASSUME NEW c \in Credentials, NEW i, intent' = [intent EXCEPT ![c] = i],
               NEW k \in Keys, NEW r, idem' = [idem EXCEPT ![k] = r],
               i.op \in SetOps <=> i.value \in Values,
               r.route \in SetRoutes <=> r.value \in Values
        PROVE  ValuesOK'
    BY <1>1, <2>1 DEF ValuesOK
  <2>2. ASSUME NEW c \in Credentials, NEW v \in Values, NEW k \in Keys,
               NEW r \in SetRoutes, NEW l \in Locators, PrepareSet(w, c, v, k, r, l)
        PROVE  ValuesOK'
    <3> DEFINE i == [op |-> IF row[c].status = "unconfigured" THEN "create" ELSE "replace",
                     locator |-> l, expected |-> row[c].generation,
                     target |-> row[c].generation + 1, prior |-> row[c].status,
                     approval |-> (r = "approve"), value |-> v]
               m == [route |-> r, cred |-> c, value |-> v]
    <3>1. intent' = [intent EXCEPT ![c] = i] /\ idem' = [idem EXCEPT ![k] = m]
      BY <2>2 DEF PrepareSet, PrepareSetMutation, PrepareIntent
    <3>2. i.op \in SetOps /\ i.value \in Values /\ m.route \in SetRoutes /\ m.value \in Values
      BY DEF SetOps
    <3> HIDE DEF i, m
    <3> QED
      BY <2>1, <3>1, <3>2
  <2>3. ASSUME NEW c \in Credentials, NEW k \in Keys, NEW r \in DeleteRoutes,
               PrepareDelete(w, c, k, r)
        PROVE  ValuesOK'
    <3> DEFINE i == [op |-> r, locator |-> row[c].locator,
                     expected |-> row[c].generation, target |-> 0,
                     prior |-> row[c].status, approval |-> FALSE, value |-> NoValue]
               m == [route |-> r, cred |-> c, value |-> NoValue]
    <3>1. intent' = [intent EXCEPT ![c] = i] /\ idem' = [idem EXCEPT ![k] = m]
      BY <2>3 DEF PrepareDelete, PrepareDeleteMutation, PrepareIntent
    <3>2. /\ i.op \notin SetOps /\ i.value \notin Values
          /\ m.route \notin SetRoutes /\ m.value \notin Values
      BY CredentialVaultAssumption DEF SetOps, SetRoutes, DeleteRoutes
    <3> HIDE DEF i, m
    <3> QED
      BY <2>1, <3>1, <3>2
  <2>4. ASSUME NEW c \in Credentials, EnableRead(w, c)
        PROVE  ValuesOK'
    BY <1>2, <2>4 DEF EnableRead, database
  <2> QED
    BY <1>3, <2>2, <2>3, <2>4 DEF Accept
<1>4. ASSUME NEW w \in Workers, View(w)
      PROVE  ValuesOK'
  <2>1. intent' = intent /\ \A k \in Keys : idem'[k] \in {idem[k], NoIdempotency}
    BY <1>1, <1>4 DEF View
  <2> QED
    BY <2>1, CredentialVaultAssumption DEF ValuesOK, NoIdempotency, SetRoutes
<1>5. ASSUME NEW w \in Workers, Advance(w), ~View(w)
      PROVE  ValuesOK'
  <2>1. CASE VaultExecutes(w) \/ VaultRefuses(w) \/ Probe(w) \/ EnableProbe(w)
    BY <1>2, <2>1 DEF VaultExecutes, VaultRefuses, Probe, EnableProbe, database
  <2>2. UNCHANGED intent \/ ClearIntent(job[w].cred)
    BY <1>5, AdvanceFrame
  <2>3. CASE SetApplied(w) \/ DeleteApplied(w) \/ Settle(w) \/ RollBack(w) \/ SettleDelete(w)
             \/ Mark(w) \/ EnableCommit(w)
    BY <1>2, <2>2, <2>3
    DEF SetApplied, DeleteApplied, Settle, RollBack, SettleDelete, Mark, EnableCommit
  <2> QED
    BY <1>5, <2>1, <2>3 DEF Advance
<1>6. ASSUME NEW w \in Workers, \/ ReplyLost(w) \/ Timeout(w) \/ StepFails(w)
                                \/ \E k \in Keys : Replay(w, k)
      PROVE  ValuesOK'
  <2>1. UNCHANGED idem
    BY <1>6 DEF ReplyLost, Timeout, StepFails, Replay, database
  <2> QED
    BY <1>2, <1>6, <2>1, FaultFrame
<1>7. ASSUME NEW c \in Credentials, Lifecycle(c)
      PROVE  ValuesOK'
  <2>1. UNCHANGED idem
    BY <1>7 DEF Lifecycle, Create, Update, ReplaceAssignments, Disable, ArchiveUnconfigured,
                DeleteArchived, LifecycleUnchanged
  <2> QED
    BY <1>2, <1>7, <2>1, LifecycleFrame
<1>8. ASSUME NEW q \in late, LateExecutes(q)
      PROVE  ValuesOK'
  BY <1>2, <1>8 DEF LateExecutes, database
<1>9. ASSUME UNCHANGED vars \/ Startup \/ CrashRestart \/ RevokeKey
      PROVE  ValuesOK'
  <2>1. UNCHANGED idem
    <3>1. CASE Startup
      <4>1. PICK w \in Workers, c \in Credentials : ReconcilePending(w, c)
        BY <3>1 DEF Startup
      <4> QED
        BY <4>1 DEF ReconcilePending, database
    <3> QED
      BY <1>9, <3>1 DEF vars, CrashRestart, RevokeKey, database
  <2> QED
    BY <1>2, <1>9, <2>1, RestartFrame
<1> QED
  BY <1>3, <1>4, <1>5, <1>6, <1>7, <1>8, <1>9 DEF Next

-----------------------------------------------------------------------------
(* The startup pass has every intent before it that it still has to settle,  *)
(* and runs alone.                                                           *)

StartupOK ==
  /\ starting \subseteq Pending
  /\ \A w \in Workers : pc[w] # "idle" =>
       IF starting = {} THEN job[w].route # "startup"
       ELSE /\ job[w].route = "startup" /\ job[w].cred \in starting
            /\ \A u \in Workers : u # w => pc[u] = "idle"

\* A handler that returns takes its credential out of the pass.
LEMMA StartupFinish ==
  ASSUME IInv, StartupOK, NEW w \in Workers, pc[w] # "idle", Finish(w),
         UNCHANGED intent \/ ClearIntent(job[w].cred)
  PROVE  StartupOK'
<1>1. /\ pc' = [pc EXCEPT ![w] = "idle"] /\ pc \in [Workers -> Steps]
      /\ \A u \in Workers : u # w => pc'[u] = pc[u] /\ job'[u] = job[u]
      /\ starting' = starting \ {job[w].cred}
  BY DEF Finish, Take, IInv, WorkersOK
<1>2. starting' \subseteq Pending'
  BY <1>1 DEF StartupOK, Pending, ClearIntent, IInv, CredentialsOK
<1>3. CASE starting = {}
  BY <1>1, <1>2, <1>3 DEF StartupOK
<1>4. CASE starting # {}
  <2>1. \A u \in Workers : pc'[u] = "idle"
    BY <1>1, <1>4 DEF StartupOK
  <2> QED
    BY <1>2, <2>1 DEF StartupOK
<1> QED
  BY <1>3, <1>4

\* A handler that goes on leaves the pass alone, and clears an intent only when
\* there is no pass.
LEMMA StartupGoto ==
  ASSUME IInv, StartupOK, NEW w \in Workers, pc[w] # "idle", NEW n \in Steps, Goto(w, n),
         UNCHANGED starting, UNCHANGED intent \/ (starting = {})
  PROVE  StartupOK'
<1>1. /\ \A u \in Workers : u # w => pc'[u] = pc[u]
      /\ job' = job /\ starting' = starting
  BY DEF Goto, IInv, WorkersOK
<1>2. starting' \subseteq Pending'
  BY <1>1 DEF StartupOK, Pending
<1> QED
  BY <1>1, <1>2 DEF StartupOK

\* Startup stays alone with its intents, until it is done.
LEMMA StartupStep ==
  ASSUME IInv, StartupOK, [Next]_vars, \A w \in Workers : RouteOK(pc[w], job[w])
  PROVE  StartupOK'
<1>1. ASSUME UNCHANGED <<pc, job, starting>>, UNCHANGED intent
      PROVE  StartupOK'
  BY <1>1 DEF StartupOK, Pending
<1>2. ASSUME NEW w \in Workers, Settled(w), pc[w] # "idle", ClearIntent(job[w].cred)
      PROVE  StartupOK'
  <2>1. job[w].route \in SetRoutes => starting = {}
    BY <1>2 DEF StartupOK, SetRoutes
  <2> QED
    BY <1>2, <2>1, StartupFinish, StartupGoto DEF Settled, Steps
<1>3. ASSUME NEW w \in Workers, Advance(w)
      PROVE  StartupOK'
  <2>1. CASE VaultExecutes(w)
    <3>1. PICK n \in {"redeleted", "mark", "applied"} : Goto(w, n)
      BY <2>1 DEF VaultExecutes
    <3> QED
      BY <2>1, <3>1, StartupGoto DEF VaultExecutes, database, Steps
  <2>2. CASE VaultRefuses(w)
    BY <2>2, StartupGoto DEF VaultRefuses, database, Steps
  <2>3. CASE SetApplied(w)
    BY <2>3, StartupFinish, StartupGoto DEF SetApplied, FinalizeSet, Steps
  <2>4. CASE DeleteApplied(w)
    BY <2>4, StartupFinish, StartupGoto DEF DeleteApplied, FinalizeDelete, Steps
  <2>5. CASE Probe(w)
    <3>1. Settlement(held[w].op, vault[held[w].locator].generation, held[w]) \in Steps
      BY DEF Settlement, Steps
    <3> QED
      BY <2>5, <3>1, StartupGoto DEF Probe, database
  <2>6. CASE Settle(w)
    BY <1>2, <2>6, StartupGoto DEF Settle, FinalizeSet, Steps
  <2>7. CASE RollBack(w)
    <3>1. CASE Rollback(w) /\ Settled(w)
      BY <1>2, <2>7, <3>1 DEF RollBack, Rollback
    <3>2. CASE Goto(w, "mark") /\ UNCHANGED <<starting, intent>>
      BY <2>7, <3>2, StartupGoto DEF RollBack, Steps
    <3>3. CASE Finish(w) /\ UNCHANGED intent
      BY <2>7, <3>3, StartupFinish DEF RollBack
    <3> QED
      BY <2>7, <3>1, <3>2, <3>3 DEF RollBack
  <2>8. CASE SettleDelete(w)
    <3>1. CASE FinalizeDelete(w) /\ Settled(w)
      BY <1>2, <2>8, <3>1 DEF SettleDelete, FinalizeDelete
    <3>2. CASE Goto(w, "mark") /\ UNCHANGED <<starting, intent>>
      BY <2>8, <3>2, StartupGoto DEF SettleDelete, Steps
    <3>3. CASE Finish(w) /\ UNCHANGED intent
      BY <2>8, <3>3, StartupFinish DEF SettleDelete
    <3> QED
      BY <2>8, <3>1, <3>2, <3>3 DEF SettleDelete
  <2>9. CASE Mark(w) \/ View(w) \/ EnableCommit(w)
    BY <2>9, StartupFinish DEF Mark, View, EnableCommit
  <2>10. CASE EnableProbe(w)
    BY <2>10, StartupFinish, StartupGoto DEF EnableProbe, database, Steps
  <2> QED
    BY <1>3, <2>1, <2>2, <2>3, <2>4, <2>5, <2>6, <2>7, <2>8, <2>9, <2>10 DEF Advance
<1>4. ASSUME NEW w \in Workers, ReplyLost(w) \/ Timeout(w)
      PROVE  StartupOK'
  BY <1>4, StartupGoto DEF ReplyLost, Timeout, database, Steps
<1>5. ASSUME NEW w \in Workers, StepFails(w)
      PROVE  StartupOK'
  <2>1. UNCHANGED intent /\ pc[w] # "idle"
    BY <1>5 DEF StepFails, database
  <2>2. CASE (Goto(w, "mark") \/ Goto(w, "probe")) /\ UNCHANGED starting
    BY <2>1, <2>2, StartupGoto DEF Steps
  <2>3. CASE Finish(w)
    BY <2>1, <2>3, StartupFinish
  <2>4. CASE /\ Take(w, "idle", NoJob, NoIntent)
             /\ starting' = IF job[w].route = "startup" THEN Pending ELSE starting
    <3>1. /\ pc'[w] = "idle" /\ pc \in [Workers -> Steps]
          /\ \A u \in Workers : u # w => pc'[u] = pc[u] /\ job'[u] = job[u]
      BY <2>4 DEF Take, IInv, WorkersOK
    <3>2. starting' \subseteq Pending'
      BY <2>1, <2>4 DEF StartupOK, Pending
    <3>3. CASE starting = {}
      BY <2>1, <2>4, <3>1, <3>2, <3>3 DEF StartupOK
    <3>4. CASE starting # {}
      BY <2>1, <3>1, <3>2, <3>4 DEF StartupOK
    <3> QED
      BY <3>3, <3>4
  <2> QED
    BY <1>5, <2>2, <2>3, <2>4 DEF StepFails
<1>6. ASSUME NEW w \in Workers, pc[w] = "idle", NEW n, NEW j, NEW i, Take(w, n, j, i),
             j.route # "startup", starting = {}, starting' = {}
      PROVE  StartupOK'
  BY <1>6 DEF Take, StartupOK, IInv, WorkersOK
<1>7. ASSUME NEW w \in Workers, Accept(w)
      PROVE  StartupOK'
  <2>1. ASSUME NEW c \in Credentials, NEW v \in Values, NEW k \in Keys,
               NEW r \in SetRoutes, NEW l \in Locators, PrepareSet(w, c, v, k, r, l)
        PROVE  StartupOK'
    <3> DEFINE j == [route |-> r, cred |-> c, value |-> v, key |-> k, version |-> 0]
    <3>1. Take(w, "call", j, intent'[c]) /\ j.route # "startup"
      BY <2>1 DEF PrepareSet, SetRoutes
    <3> HIDE DEF j
    <3> QED
      BY <1>6, <2>1, <3>1 DEF PrepareSet, Startable, Serving
  <2>2. ASSUME NEW c \in Credentials, NEW k \in Keys, NEW r \in DeleteRoutes,
               PrepareDelete(w, c, k, r)
        PROVE  StartupOK'
    <3> DEFINE j == [route |-> r, cred |-> c, value |-> NoValue, key |-> k, version |-> 0]
    <3>1. Take(w, "call", j, intent'[c]) /\ j.route # "startup"
      BY <2>2 DEF PrepareDelete, DeleteRoutes
    <3> HIDE DEF j
    <3> QED
      BY <1>6, <2>2, <3>1 DEF PrepareDelete, Startable, Serving
  <2>3. ASSUME NEW c \in Credentials, EnableRead(w, c)
        PROVE  StartupOK'
    BY <1>6, <2>3 DEF EnableRead, Startable, Serving
  <2> QED
    BY <1>7, <2>1, <2>2, <2>3 DEF Accept
<1>8. ASSUME NEW w \in Workers, NEW k \in Keys, Replay(w, k)
      PROVE  StartupOK'
  <2>1. idem[k].route # "startup"
    BY <1>8 DEF Replay, IInv, OthersOK, IdempotencyRecord, SetRoutes, DeleteRoutes
  <2> QED
    BY <1>6, <1>8, <2>1 DEF Replay, Startable, Serving
<1>9. ASSUME NEW w \in Workers, NEW c \in Credentials, ReconcilePending(w, c)
      PROVE  StartupOK'
  <2> DEFINE j == [NoJob EXCEPT !.route = "startup", !.cred = c]
  <2>1. Take(w, "probe", j, intent[c]) /\ j.route = "startup" /\ j.cred = c
    BY <1>9 DEF ReconcilePending, NoJob
  <2> HIDE DEF j
  <2>2. /\ \A u \in Workers : u # w => pc'[u] = "idle"
        /\ job'[w] = j /\ starting' = starting /\ c \in starting /\ intent' = intent
    BY <1>9, <2>1 DEF ReconcilePending, Take, IInv, WorkersOK, database
  <2> QED
    BY <2>1, <2>2 DEF StartupOK, Pending
<1>10. CASE CrashRestart
  <2>1. intent' = intent /\ starting' = Pending /\ \A u \in Workers : pc'[u] = "idle"
    BY <1>10 DEF CrashRestart, database
  <2> QED
    BY <2>1 DEF StartupOK, Pending
<1>11. ASSUME \/ UNCHANGED vars \/ RevokeKey \/ \E q \in late : LateExecutes(q)
       PROVE  StartupOK'
  BY <1>1, <1>11 DEF vars, RevokeKey, LateExecutes, database, coordinator
<1>12. ASSUME NEW c \in Credentials, Lifecycle(c)
       PROVE  StartupOK'
  BY <1>1, <1>12, LifecycleFrame
<1> QED
  BY <1>3, <1>4, <1>5, <1>7, <1>8, <1>9, <1>10, <1>11, <1>12 DEF Next, Startup

-----------------------------------------------------------------------------
(* The row, the intent and the vault of a credential tell one story.         *)

Rec(c, g, v) == [cred |-> c, generation |-> g, value |-> v]

\* Without an intent the vault holds what the row names, with the value finalized
\* last.  With one, it holds what was there before the request or what the request
\* leaves, and nothing else of this credential is in the vault.
Matches(c) ==
  LET r == row[c]
      i == intent[c]
      current == Rec(c, r.generation, stored[c].value)
  IN /\ i.op = "none" => /\ i.locator = NoLocator
                         /\ r.locator # NoLocator => vault[r.locator] = current
     /\ i.op = "create" => /\ r.locator = NoLocator /\ i.target = 1
                           /\ vault[i.locator] \in {NoRecord, Rec(c, 1, i.value)}
     /\ i.op \in {"replace"} \cup DeleteRoutes =>
          i.locator = r.locator /\ i.locator \in Locators /\ i.expected = r.generation
     /\ i.op = "replace" =>
          /\ i.target = r.generation + 1
          /\ vault[i.locator] \in {current, Rec(c, i.target, i.value)}
     /\ i.op \in DeleteRoutes => i.target = 0 /\ vault[i.locator] \in {current, NoRecord}
     /\ \A l \in Locators : vault[l].cred = c => l \in {r.locator, i.locator}

MatchesOK == \A c \in orderly : Matches(c)

\* What a handler at a step has learnt about the generation of intent i's record.
Learnt(n, i, g) ==
  /\ n = "applied" => g = i.target
  /\ n = "settle" => i.op \in SetOps /\ g = i.target
  /\ n = "rollback" => i.op = "replace" /\ g = i.expected
  /\ n = "rollback_absent" => i.op = "create" /\ g = 0
  /\ n = "redelete" => i.op \in DeleteRoutes
  /\ n \in {"redeleted", "finalize_absent"} => i.op \in DeleteRoutes /\ g = 0

\* A handler at work holds the intent that is stored, and what it has learnt about
\* the vault is still so.
InStep(w) ==
  LET i == held[w]
  IN /\ i = intent[job[w].cred] /\ i.op # "none"
     /\ job[w].route \in SetRoutes => i.op \in SetOps /\ job[w].value = i.value
     /\ job[w].route \in DeleteRoutes => i.op \in DeleteRoutes
     /\ Learnt(pc[w], i, vault[i.locator].generation)

\* It is the only one at work on its credential.
Alone(w) == \A u \in Workers : AtWork(u) /\ job[u].cred = job[w].cred => u = w

HandlersOK ==
  \A w \in Workers : AtWork(w) /\ job[w].cred \in orderly => InStep(w) /\ Alone(w)

RoutesOK == \A w \in Workers : RouteOK(pc[w], job[w])

AgreeInv == /\ IInv /\ LocatorsOK /\ RecordsOK /\ RoutesOK /\ ValuesOK /\ StartupOK
            /\ MatchesOK /\ HandlersOK

\* What every credential has besides, orderly or not.
LEMMA CredentialFacts ==
  ASSUME IInv, NEW c \in Credentials
  PROVE  /\ row[c] \in Row /\ intent[c] \in Intent
         /\ CredentialOK(row[c], intent[c], stored[c])
         /\ intent[c].op \in SetOps => intent[c].locator \in Locators
         /\ intent[c].op \in SetOps \cup DeleteRoutes \cup {"none"}
         /\ vault \in [Locators -> Record] /\ orderly \subseteq Credentials
  BY DEF IInv, CredentialsOK, CredentialOK, SetIntent, OthersOK, Intent

\* A credential whose row names the same record, whose intent is the same and whose
\* records nobody touched still matches the vault.
LEMMA Untouched ==
  ASSUME IInv, NEW c \in Credentials, Matches(c),
         row'[c].locator = row[c].locator, row'[c].generation = row[c].generation,
         intent'[c] = intent[c], stored'[c] = stored[c],
         \A l \in Locators : Refers(c, l) => vault'[l] = vault[l],
         \A l \in Locators : vault'[l].cred = c => vault'[l] = vault[l]
  PROVE  Matches(c)'
<1>1. row[c] \in Row /\ (intent[c].op \in SetOps => intent[c].locator \in Locators)
  BY CredentialFacts
<1>2. /\ row[c].locator # NoLocator => vault'[row[c].locator] = vault[row[c].locator]
      /\ intent[c].locator \in Locators => vault'[intent[c].locator] = vault[intent[c].locator]
  BY <1>1 DEF Refers, Row
<1> QED
  BY <1>1, <1>2 DEF Matches, SetOps

\* A step that concerns one credential has to be right about that one only.
LEMMA Elsewhere ==
  ASSUME AgreeInv, NEW d \in Credentials, orderly' \subseteq orderly,
         \A c \in Credentials \ {d} :
           /\ row'[c].locator = row[c].locator /\ row'[c].generation = row[c].generation
           /\ intent'[c] = intent[c] /\ stored'[c] = stored[c],
         \A l \in Locators : \/ vault'[l] = vault[l]
                             \/ Refers(d, l) /\ vault'[l].cred \in {d, NoCredential},
         \A u \in Workers : AtWork(u)' => job'[u].cred = d \/ Stays(u),
         d \in orderly' =>
           /\ Matches(d)'
           /\ \A u \in Workers : AtWork(u)' /\ job'[u].cred = d => InStep(u)' /\ Alone(u)'
  PROVE  MatchesOK' /\ HandlersOK'
<1>1. orderly \subseteq Credentials
  BY DEF AgreeInv, IInv, OthersOK
<1>2. ASSUME NEW c \in orderly', c # d
      PROVE  Matches(c)'
  <2>1. c \in Credentials /\ Matches(c)
    BY <1>1, <1>2 DEF AgreeInv, MatchesOK
  <2>2. \A l \in Locators : Refers(c, l) => vault'[l] = vault[l]
    BY <1>2, <2>1 DEF AgreeInv, LocatorsOK
  <2>3. \A l \in Locators : vault'[l].cred = c => vault'[l] = vault[l]
    BY <1>2, <2>1, CredentialVaultAssumption
  <2> QED
    BY <1>2, <2>1, <2>2, <2>3, Untouched DEF AgreeInv
<1>3. ASSUME NEW u \in Workers, AtWork(u)', job'[u].cred \in orderly', job'[u].cred # d
      PROVE  InStep(u)' /\ Alone(u)'
  <2> DEFINE c == job[u].cred
  <2>1. pc'[u] = pc[u] /\ job'[u] = job[u] /\ held'[u] = held[u]
    BY <1>3 DEF Stays
  <2>2. AtWork(u) /\ c \in orderly /\ c \in Credentials /\ c # d
    BY <1>1, <1>3, <2>1 DEF AtWork
  <2>3. InStep(u) /\ Alone(u) /\ Matches(c)
    BY <2>2 DEF AgreeInv, HandlersOK, MatchesOK
  <2>4. held[u] = intent[c] /\ intent'[c] = intent[c] /\ intent[c].locator \in Locators
    BY <2>2, <2>3, CredentialFacts DEF InStep, Matches, AgreeInv, SetOps
  <2>5. vault'[intent[c].locator] = vault[intent[c].locator]
    BY <2>2, <2>4 DEF AgreeInv, LocatorsOK, Refers
  <2>6. InStep(u)'
    BY <2>1, <2>3, <2>4, <2>5 DEF InStep
  <2>7. Alone(u)'
    BY <1>3, <2>1, <2>2, <2>3 DEF Alone, Stays, AtWork
  <2> QED
    BY <2>6, <2>7
<1> QED
  BY <1>2, <1>3 DEF MatchesOK, HandlersOK

\* A step that moves no record, value or intent, and sets no handler to work.
LEMMA Quiet ==
  ASSUME AgreeInv, orderly' \subseteq orderly, UNCHANGED <<intent, vault, stored>>,
         \A c \in Credentials : /\ row'[c].locator = row[c].locator
                                /\ row'[c].generation = row[c].generation,
         \A u \in Workers : AtWork(u)' => Stays(u)
  PROVE  MatchesOK' /\ HandlersOK'
<1>1. orderly \subseteq Credentials
  BY DEF AgreeInv, IInv, OthersOK
<1>2. ASSUME NEW d \in orderly'
      PROVE  Matches(d)'
  BY <1>1, <1>2, Untouched DEF AgreeInv, MatchesOK
<1>3. ASSUME NEW u \in Workers, AtWork(u)', job'[u].cred \in orderly'
      PROVE  InStep(u)' /\ Alone(u)'
  <2>1. pc'[u] = pc[u] /\ job'[u] = job[u] /\ held'[u] = held[u] /\ AtWork(u)
    BY <1>3 DEF Stays, AtWork
  <2>2. InStep(u) /\ Alone(u)
    BY <1>3, <2>1 DEF AgreeInv, HandlersOK
  <2> QED
    BY <1>3, <2>1, <2>2 DEF InStep, Alone, Stays, AtWork
<1> QED
  BY <1>2, <1>3 DEF MatchesOK, HandlersOK

\* A handler at work does a step about its own credential.
LEMMA Handled ==
  ASSUME AgreeInv, NEW w \in Workers, AtWork(w), NEW d, d = job[w].cred,
         orderly' = orderly,
         \A c \in Credentials \ {d} :
           /\ row'[c].locator = row[c].locator /\ row'[c].generation = row[c].generation
           /\ intent'[c] = intent[c] /\ stored'[c] = stored[c],
         \A l \in Locators : \/ vault'[l] = vault[l]
                             \/ Refers(d, l) /\ vault'[l].cred \in {d, NoCredential},
         \A u \in Workers \ {w} : Stays(u),
         AtWork(w)' => job'[w] = job[w],
         d \in orderly => Matches(d)' /\ (AtWork(w)' => InStep(w)')
  PROVE  MatchesOK' /\ HandlersOK'
<1>1. d \in Credentials
  BY DEF AgreeInv, IInv, WorkersOK, WorkerOK, AtWork
<1>2. \A u \in Workers : AtWork(u)' => job'[u].cred = d \/ Stays(u)
  OBVIOUS
<1>3. ASSUME d \in orderly', NEW u \in Workers, AtWork(u)', job'[u].cred = d
      PROVE  InStep(u)' /\ Alone(u)'
  <2>1. Alone(w)
    BY <1>3 DEF AgreeInv, HandlersOK
  <2>2. \A x \in Workers : AtWork(x)' /\ job'[x].cred = d => x = w
    BY <2>1 DEF Stays, AtWork, Alone
  <2> QED
    BY <1>3, <2>2 DEF Alone
<1> QED
  BY <1>1, <1>2, <1>3, Elsewhere

\* What is known of a handler at work on an orderly credential.
LEMMA AtWorkFacts ==
  ASSUME AgreeInv, NEW w \in Workers, AtWork(w), NEW c, c = job[w].cred
  PROVE  /\ c \in Credentials /\ RouteOK(pc[w], job[w])
         /\ pc \in [Workers -> Steps] /\ job \in [Workers -> Job]
         /\ held \in [Workers -> Intent]
         /\ c \in orderly =>
              /\ InStep(w) /\ Matches(c) /\ held[w] = intent[c]
              /\ intent[c].locator \in Locators /\ Refers(c, intent[c].locator)
<1>1. c \in Credentials
  BY DEF AgreeInv, IInv, WorkersOK, WorkerOK, AtWork
<1>2. /\ RouteOK(pc[w], job[w])
      /\ pc \in [Workers -> Steps] /\ job \in [Workers -> Job] /\ held \in [Workers -> Intent]
  BY DEF AgreeInv, RoutesOK, IInv, WorkersOK
<1>3. ASSUME c \in orderly
      PROVE  /\ InStep(w) /\ Matches(c) /\ held[w] = intent[c]
             /\ intent[c].locator \in Locators /\ Refers(c, intent[c].locator)
  <2>1. InStep(w) /\ Matches(c)
    BY <1>3 DEF AgreeInv, HandlersOK, MatchesOK
  <2>2. held[w] = intent[c] /\ intent[c].op # "none"
    BY <2>1 DEF InStep
  <2>3. intent[c].locator \in Locators
    BY <1>1, <2>1, <2>2, CredentialFacts DEF Matches, AgreeInv, SetOps
  <2> QED
    BY <2>1, <2>2, <2>3 DEF Refers
<1> QED
  BY <1>1, <1>2, <1>3

\* A handler that returns, or goes to look at the view, is no longer at work.
LEMMA Leaving ==
  ASSUME IInv, NEW w \in Workers,
         Take(w, "idle", NoJob, NoIntent) \/ Finish(w) \/ Settled(w)
  PROVE  ~AtWork(w)' /\ \A u \in Workers \ {w} : Stays(u)
<1>1. pc \in [Workers -> Steps] /\ job \in [Workers -> Job] /\ held \in [Workers -> Intent]
  BY DEF IInv, WorkersOK
<1>2. CASE Take(w, "idle", NoJob, NoIntent)
  BY <1>1, <1>2 DEF Take, AtWork, Stays
<1>3. CASE Goto(w, "view")
  BY <1>1, <1>3 DEF Goto, AtWork, Stays
<1> QED
  BY <1>2, <1>3 DEF Finish, Settled

\* finalizeSet names the record its request left in the vault.
LEMMA FinalizedSet ==
  ASSUME AgreeInv, NEW w \in Workers, AtWork(w), held[w].op \in SetOps, FinalizeSet(w),
         job[w].cred \in orderly => vault[held[w].locator].generation = held[w].target,
         Finish(w) \/ Settled(w), UNCHANGED <<vault, orderly>>
  PROVE  MatchesOK' /\ HandlersOK'
<1>0. PICK c : c = job[w].cred
  OBVIOUS
<1> USE <1>0
<1>1. c \in Credentials
  BY AtWorkFacts
<1>2. /\ row \in [Credentials -> Row] /\ intent \in [Credentials -> Intent]
      /\ stored \in [Credentials -> History] /\ row[c] \in Row
  BY <1>1 DEF AgreeInv, IInv, CredentialsOK
<1>3. \A d \in Credentials \ {c} : /\ row'[d] = row[d] /\ intent'[d] = intent[d]
                                   /\ stored'[d] = stored[d]
  BY <1>1, <1>2 DEF FinalizeSet, FinalizedRow, ClearIntent
<1>4. ASSUME c \in orderly
      PROVE  Matches(c)'
  <2>1. /\ InStep(w) /\ Matches(c) /\ held[w] = intent[c] /\ intent[c].locator \in Locators
        /\ CredentialOK(row[c], intent[c], stored[c])
    BY <1>1, <1>4, AtWorkFacts, CredentialFacts DEF AgreeInv
  <2>2. /\ row'[c].locator = intent[c].locator /\ row'[c].generation = intent[c].target
        /\ intent'[c] = NoIntent /\ stored'[c].value = intent[c].value
    BY <1>1, <1>2, <2>1 DEF FinalizeSet, FinalizedRow, ClearIntent
  <2>3. vault[intent[c].locator] = Rec(c, intent[c].target, intent[c].value)
    <3>1. vault[intent[c].locator].generation = intent[c].target
      BY <1>4, <2>1
    <3>2. CASE intent[c].op = "create"
      BY <2>1, <3>1, <3>2 DEF Matches, Rec, NoRecord
    <3>3. CASE intent[c].op = "replace"
      BY <1>2, <2>1, <3>1, <3>3 DEF Matches, Rec, Row
    <3> QED
      BY <2>1, <3>2, <3>3 DEF SetOps
  <2>4. \A l \in Locators : vault[l].cred = c => l = intent[c].locator
    BY <2>1, CredentialVaultAssumption DEF Matches, SetOps
  <2> QED
    BY <2>1, <2>2, <2>3, <2>4 DEF Matches, NoIntent, Rec, DeleteRoutes
<1> QED
  BY <1>3, <1>4, Handled, Leaving DEF AgreeInv

\* finalizeDelete forgets a record that is gone.
LEMMA FinalizedDelete ==
  ASSUME AgreeInv, NEW w \in Workers, AtWork(w), FinalizeDelete(w),
         job[w].cred \in orderly =>
           held[w].op \in DeleteRoutes /\ vault[held[w].locator].generation = 0,
         Finish(w) \/ Settled(w), UNCHANGED <<vault, orderly>>
  PROVE  MatchesOK' /\ HandlersOK'
<1>0. PICK c : c = job[w].cred
  OBVIOUS
<1> USE <1>0
<1>1. c \in Credentials
  BY AtWorkFacts
<1>2. /\ row \in [Credentials -> Row] /\ intent \in [Credentials -> Intent]
      /\ stored \in [Credentials -> History] /\ row[c] \in Row
  BY <1>1 DEF AgreeInv, IInv, CredentialsOK
<1>3. \A d \in Credentials \ {c} : /\ row'[d] = row[d] /\ intent'[d] = intent[d]
                                   /\ stored'[d] = stored[d]
  BY <1>1, <1>2 DEF FinalizeDelete, ClearIntent
<1>4. ASSUME c \in orderly
      PROVE  Matches(c)'
  <2>1. /\ Matches(c) /\ held[w] = intent[c]
        /\ CredentialOK(row[c], intent[c], stored[c])
    BY <1>1, <1>4, AtWorkFacts, CredentialFacts DEF AgreeInv
  <2>2. row'[c].locator = NoLocator /\ intent'[c] = NoIntent
    BY <1>1, <1>2 DEF FinalizeDelete, ClearIntent
  <2>3. row[c].generation # 0 /\ intent[c].locator = row[c].locator
    BY <1>4, <2>1, CredentialVaultAssumption DEF Matches, CredentialOK
  <2>4. vault[row[c].locator] = NoRecord
    BY <1>4, <2>1, <2>3 DEF Matches, Rec
  <2>5. \A l \in Locators : vault[l].cred # c
    BY <1>1, <1>4, <2>1, <2>3, <2>4, CredentialVaultAssumption DEF Matches, NoRecord
  <2> QED
    BY <2>2, <2>5 DEF Matches, NoIntent, DeleteRoutes
<1> QED
  BY <1>3, <1>4, Handled, Leaving DEF AgreeInv

\* rollback returns to the record that was there before, or to none.
LEMMA RolledBack ==
  ASSUME AgreeInv, NEW w \in Workers, AtWork(w), Rollback(w),
         job[w].cred \in orderly =>
           \/ held[w].op = "replace" /\ vault[held[w].locator].generation = held[w].expected
           \/ held[w].op = "create" /\ vault[held[w].locator].generation = 0,
         Settled(w), UNCHANGED <<vault, orderly>>
  PROVE  MatchesOK' /\ HandlersOK'
<1>0. PICK c : c = job[w].cred
  OBVIOUS
<1> USE <1>0
<1>1. c \in Credentials
  BY AtWorkFacts
<1>2. /\ row \in [Credentials -> Row] /\ intent \in [Credentials -> Intent]
      /\ stored \in [Credentials -> History] /\ row[c] \in Row
  BY <1>1 DEF AgreeInv, IInv, CredentialsOK
<1>3. \A d \in Credentials \ {c} : /\ row'[d] = row[d] /\ intent'[d] = intent[d]
                                   /\ stored'[d] = stored[d]
  BY <1>1, <1>2 DEF Rollback, ClearIntent
<1>4. ASSUME c \in orderly
      PROVE  Matches(c)'
  <2>1. /\ Matches(c) /\ held[w] = intent[c] /\ intent[c].locator \in Locators
    BY <1>1, <1>4, AtWorkFacts DEF AgreeInv
  <2>2. /\ row'[c].locator = row[c].locator /\ row'[c].generation = row[c].generation
        /\ intent'[c] = NoIntent /\ stored'[c] = stored[c]
    BY <1>1, <1>2 DEF Rollback, ClearIntent, Row
  <2>3. row[c].locator # NoLocator =>
          vault[row[c].locator] = Rec(c, row[c].generation, stored[c].value)
    BY <1>2, <1>4, <2>1 DEF Matches, Rec, Row
  <2>4. \A l \in Locators : vault[l].cred = c => l = row[c].locator
    <3>1. CASE held[w].op = "create" /\ vault[held[w].locator].generation = 0
      <4>1. vault[intent[c].locator] = NoRecord
        BY <2>1, <3>1 DEF Matches, Rec
      <4> QED
        BY <1>1, <2>1, <4>1, CredentialVaultAssumption DEF Matches, NoRecord
    <3> QED
      BY <1>4, <2>1, <3>1 DEF Matches
  <2> QED
    BY <2>2, <2>3, <2>4 DEF Matches, NoIntent, DeleteRoutes, Rec
<1> QED
  BY <1>3, <1>4, Handled, Leaving DEF AgreeInv

\* A handler that only goes on has learnt what its next step needs.
LEMMA Onward ==
  ASSUME AgreeInv, NEW w \in Workers, AtWork(w), NEW n \in Steps, Goto(w, n),
         UNCHANGED <<row, intent, vault, stored, orderly>>,
         job[w].cred \in orderly => Learnt(n, held[w], vault[held[w].locator].generation)
  PROVE  MatchesOK' /\ HandlersOK'
<1>0. PICK c : c = job[w].cred
  OBVIOUS
<1>1. c \in Credentials
  BY <1>0, AtWorkFacts
<1>2. \A u \in Workers \ {w} : Stays(u)
  BY DEF Goto, Stays, AgreeInv, IInv, WorkersOK
<1>3. /\ pc'[w] = n /\ job' = job /\ held' = held
  BY DEF Goto, AgreeInv, IInv, WorkersOK
<1>4. ASSUME c \in orderly
      PROVE  Matches(c)' /\ InStep(w)'
  <2>1. InStep(w) /\ Matches(c)
    BY <1>0, <1>4, AtWorkFacts
  <2>2. InStep(w)'
    BY <1>0, <1>3, <1>4, <2>1 DEF InStep
  <2>3. Matches(c)'
    BY <2>1 DEF Matches, Rec
  <2> QED
    BY <2>2, <2>3
<1> QED
  BY <1>0, <1>2, <1>3, <1>4, Handled

\* A handler that returns without a trace.
LEMMA Returning ==
  ASSUME AgreeInv, NEW w \in Workers,
         Take(w, "idle", NoJob, NoIntent) \/ Finish(w) \/ Settled(w),
         UNCHANGED <<intent, vault, stored, orderly>>,
         \A c \in Credentials : /\ row'[c].locator = row[c].locator
                                /\ row'[c].generation = row[c].generation
  PROVE  MatchesOK' /\ HandlersOK'
  BY Leaving, Quiet DEF AgreeInv

\* The vault's answer to an orderly request is the one its intent announced.
LEMMA VaultExecuted ==
  ASSUME AgreeInv, NEW w \in Workers, VaultExecutes(w)
  PROVE  MatchesOK' /\ HandlersOK'
<1> DEFINE q == RequestOf(w)
<1>0. PICK c : c = job[w].cred
  OBVIOUS
<1>1. AtWork(w) /\ pc[w] \in {"call", "redelete"}
  BY DEF VaultExecutes, AtWork
<1>2. /\ c \in Credentials /\ RouteOK(pc[w], job[w]) /\ q \in Request
      /\ vault \in [Locators -> Record] /\ row[c] \in Row
      /\ pc \in [Workers -> Steps]
  BY <1>0, <1>1, AtWorkFacts, CredentialFacts, RequestOfOK DEF AgreeInv, IInv
<1>3. /\ Accepts(q) /\ vault' = [vault EXCEPT ![q.locator] = Stored(q)]
      /\ UNCHANGED <<row, intent, stored, orderly, job, held>>
      /\ \A u \in Workers \ {w} : Stays(u)
      /\ q.locator = held[w].locator /\ q.cred = c
      /\ pc'[w] = IF pc[w] = "redelete" THEN "redeleted"
                  ELSE IF q.kind # "delete" /\ held[w].op \notin SetOps
                  THEN "mark" ELSE "applied"
  BY <1>0, <1>2 DEF VaultExecutes, Goto, database, Stays, RequestOf
<1>4. \A l \in Locators : \/ vault'[l] = vault[l]
                          \/ Refers(c, l) /\ vault'[l].cred \in {c, NoCredential}
  <2>1. Stored(q).cred \in {c, NoCredential}
    <3>1. q.kind \in {"create", "replace", "delete"} /\ q.cred = c
      BY <1>2, <1>3 DEF Request
    <3> HIDE DEF q
    <3> QED
      BY <3>1 DEF Stored, NoRecord
  <2>2. \A l \in Locators : l = q.locator => Refers(c, l)
    BY <1>0, <1>3 DEF Refers
  <2> HIDE DEF q
  <2> QED
    BY <1>2, <1>3, <2>1, <2>2
<1>5. ASSUME c \in orderly
      PROVE  Matches(c)' /\ InStep(w)'
  <2>1. /\ InStep(w) /\ Matches(c) /\ held[w] = intent[c] /\ intent[c].locator \in Locators
        /\ intent[c].op \in SetOps \cup DeleteRoutes \cup {"none"} /\ intent[c].op # "none"
    BY <1>0, <1>1, <1>2, <1>5, AtWorkFacts, CredentialFacts DEF InStep, AgreeInv
  <2>2. vault'[intent[c].locator] = Stored(q)
    BY <1>2, <1>3, <2>1
  <2>3. \A l \in Locators : l # intent[c].locator => vault'[l] = vault[l]
    BY <1>2, <1>3, <2>1
  <2>4. CASE pc[w] = "call" /\ job[w].route \in SetRoutes
    <3>1. /\ intent[c].op \in SetOps /\ job[w].value = intent[c].value
          /\ q = [kind |-> IF intent[c].op = "create" THEN "create" ELSE "replace",
                  locator |-> intent[c].locator, generation |-> intent[c].expected,
                  cred |-> c, value |-> intent[c].value]
      BY <1>0, <2>1, <2>4 DEF InStep, RequestOf, DeleteRoutes, SetRoutes
    <3>2. pc'[w] = "applied"
      BY <1>3, <2>1, <2>4, <3>1
    <3>3. CASE intent[c].op = "create"
      <4>1. vault'[intent[c].locator] = Rec(c, 1, intent[c].value)
        BY <2>2, <3>1, <3>3 DEF Stored, Rec
      <4>2. intent[c].target = 1 /\ row[c].locator = NoLocator
        BY <2>1, <3>3 DEF Matches
      <4>3. InStep(w)'
        BY <1>0, <1>3, <2>1, <3>1, <3>2, <3>3, <4>1, <4>2
        DEF InStep, Learnt, Rec, SetRoutes, DeleteRoutes
      <4>4. Matches(c)'
        <5>1. \A l \in Locators : vault[l].cred = c => l \in {NoLocator, intent[c].locator}
          BY <2>1, <4>2 DEF Matches
        <5> QED
          BY <1>3, <2>1, <2>3, <3>3, <4>1, <4>2, <5>1 DEF Matches, DeleteRoutes
      <4> QED
        BY <4>3, <4>4
    <3>4. CASE intent[c].op = "replace"
      <4>1. vault'[intent[c].locator] = Rec(c, intent[c].target, intent[c].value)
        BY <2>1, <2>2, <3>1, <3>4 DEF Stored, Rec, Matches
      <4>2. InStep(w)'
        BY <1>0, <1>3, <2>1, <3>1, <3>2, <3>4, <4>1
        DEF InStep, Learnt, Rec, SetRoutes, DeleteRoutes
      <4>3. Matches(c)'
        BY <1>3, <2>1, <2>3, <3>4, <4>1 DEF Matches, Rec, DeleteRoutes
      <4> QED
        BY <4>2, <4>3
    <3> QED
      BY <3>1, <3>3, <3>4 DEF SetOps
  <2>5. CASE pc[w] = "redelete" \/ job[w].route \in DeleteRoutes
    <3>1. intent[c].op \in DeleteRoutes /\ q.kind = "delete"
      BY <1>0, <2>1, <2>5 DEF InStep, Learnt, RequestOf
    <3>2. vault'[intent[c].locator] = NoRecord /\ intent[c].target = 0
      BY <2>1, <2>2, <3>1 DEF Stored, Matches
    <3>3. pc'[w] = (IF pc[w] = "redelete" THEN "redeleted" ELSE "applied")
      BY <1>3, <3>1
    <3>4. InStep(w)'
      BY <1>0, <1>1, <1>2, <1>3, <2>1, <3>1, <3>2, <3>3
      DEF InStep, Learnt, NoRecord, SetOps, DeleteRoutes
    <3>5. Matches(c)'
      <4>1. \A l \in Locators : vault'[l].cred = c => l \in {row[c].locator, intent[c].locator}
        BY <1>3, <2>1, <2>3, <3>2 DEF Matches
      <4> QED
        BY <1>3, <2>1, <3>1, <3>2, <4>1 DEF Matches, DeleteRoutes
    <3> QED
      BY <3>4, <3>5
  <2> QED
    BY <1>1, <1>2, <2>4, <2>5 DEF RouteOK
<1> QED
  BY <1>0, <1>1, <1>3, <1>4, <1>5, Handled

\* Every step a handler does on its own keeps rows and vault together.
LEMMA AdvanceAgree ==
  ASSUME AgreeInv, NEW w \in Workers, Advance(w)
  PROVE  MatchesOK' /\ HandlersOK'
<1>0. PICK c : c = job[w].cred
  OBVIOUS
<1>1. CASE VaultExecutes(w)
  BY <1>1, VaultExecuted
<1>2. CASE VaultRefuses(w)
  <2>1. AtWork(w) /\ (Goto(w, "probe") \/ Goto(w, "mark"))
    BY <1>2 DEF VaultRefuses, AtWork
  <2> QED
    BY <1>2, <2>1, Onward DEF VaultRefuses, database, Steps, Learnt
<1>3. CASE SetApplied(w)
  <2>1. AtWork(w) /\ held[w].op \in SetOps
    BY <1>3 DEF SetApplied, AtWork, AgreeInv, IInv, WorkersOK, WorkerOK
  <2>2. job[w].cred \in orderly => vault[held[w].locator].generation = held[w].target
    BY <1>3, <2>1 DEF SetApplied, AgreeInv, HandlersOK, InStep, Learnt
  <2>3. CASE FinalizeSet(w) /\ Finish(w)
    BY <1>3, <2>1, <2>2, <2>3, FinalizedSet DEF SetApplied
  <2>4. CASE Goto(w, "probe") /\ UNCHANGED <<row, intent, stored>>
    BY <1>3, <2>1, <2>4, Onward DEF SetApplied, Steps, Learnt
  <2> QED
    BY <1>3, <2>3, <2>4 DEF SetApplied
<1>4. CASE DeleteApplied(w)
  <2>1. AtWork(w)
    BY <1>4 DEF DeleteApplied, AtWork
  <2>2. job[w].cred \in orderly =>
          held[w].op \in DeleteRoutes /\ vault[held[w].locator].generation = 0
    <3>1. ASSUME c \in orderly
          PROVE  held[w].op \in DeleteRoutes /\ vault[held[w].locator].generation = 0
      <4>1. InStep(w) /\ Matches(c) /\ held[w] = intent[c]
        BY <1>0, <2>1, <3>1, AtWorkFacts
      <4> QED
        BY <1>4, <4>1 DEF DeleteApplied, InStep, Learnt, Matches
    <3> QED
      BY <1>0, <3>1
  <2>3. CASE FinalizeDelete(w) /\ Finish(w)
    BY <1>4, <2>1, <2>2, <2>3, FinalizedDelete DEF DeleteApplied
  <2>4. CASE Goto(w, "probe") /\ UNCHANGED <<row, intent, stored>>
    BY <1>4, <2>1, <2>4, Onward DEF DeleteApplied, Steps, Learnt
  <2> QED
    BY <1>4, <2>3, <2>4 DEF DeleteApplied
<1>5. CASE Probe(w)
  <2> DEFINE g == vault[held[w].locator].generation
             n == Settlement(held[w].op, g, held[w])
  <2>1. AtWork(w) /\ Goto(w, n) /\ n \in Steps
    BY <1>5 DEF Probe, AtWork, Settlement, Steps
  <2>2. ASSUME c \in orderly
        PROVE  Learnt(n, held[w], g)
    <3>1. /\ held[w].op # "none"
          /\ held[w].op \in SetOps \cup DeleteRoutes \cup {"none"}
      BY <1>0, <2>1, <2>2, AtWorkFacts, CredentialFacts DEF InStep, AgreeInv
    <3> HIDE DEF g
    <3> QED
      BY <3>1 DEF Settlement, Learnt, SetOps
  <2>3. UNCHANGED <<row, intent, vault, stored, orderly>>
    BY <1>5 DEF Probe, database
  <2> HIDE DEF n
  <2> QED
    BY <1>0, <2>1, <2>2, <2>3, Onward
<1>6. CASE Settle(w)
  <2>1. AtWork(w) /\ held[w].op \in SetOps
    BY <1>6 DEF Settle, AtWork, AgreeInv, IInv, WorkersOK, WorkerOK
  <2>2. job[w].cred \in orderly => vault[held[w].locator].generation = held[w].target
    BY <1>6, <2>1 DEF Settle, AgreeInv, HandlersOK, InStep, Learnt
  <2>3. CASE FinalizeSet(w) /\ Settled(w)
    BY <1>6, <2>1, <2>2, <2>3, FinalizedSet DEF Settle
  <2>4. CASE Goto(w, "mark") /\ UNCHANGED <<row, intent, stored>>
    BY <1>6, <2>1, <2>4, Onward DEF Settle, Steps, Learnt
  <2> QED
    BY <1>6, <2>3, <2>4 DEF Settle
<1>7. CASE RollBack(w)
  <2>1. AtWork(w) /\ UNCHANGED <<vault, orderly>>
    BY <1>7 DEF RollBack, AtWork
  <2>2. job[w].cred \in orderly =>
          \/ held[w].op = "replace" /\ vault[held[w].locator].generation = held[w].expected
          \/ held[w].op = "create" /\ vault[held[w].locator].generation = 0
    BY <1>7, <2>1 DEF RollBack, AgreeInv, HandlersOK, InStep, Learnt
  <2>3. CASE Rollback(w) /\ Settled(w)
    BY <2>1, <2>2, <2>3, RolledBack
  <2>4. CASE Goto(w, "mark") /\ UNCHANGED <<row, intent, stored>>
    BY <2>1, <2>4, Onward DEF Steps, Learnt
  <2>5. CASE Finish(w) /\ UNCHANGED <<row, intent, stored>>
    BY <2>1, <2>5, Returning
  <2> QED
    BY <1>7, <2>3, <2>4, <2>5 DEF RollBack
<1>8. CASE SettleDelete(w)
  <2>1. AtWork(w) /\ UNCHANGED <<vault, orderly>>
    BY <1>8 DEF SettleDelete, AtWork
  <2>2. job[w].cred \in orderly =>
          held[w].op \in DeleteRoutes /\ vault[held[w].locator].generation = 0
    BY <1>8, <2>1 DEF SettleDelete, AgreeInv, HandlersOK, InStep, Learnt
  <2>3. CASE FinalizeDelete(w) /\ Settled(w)
    BY <2>1, <2>2, <2>3, FinalizedDelete
  <2>4. CASE Goto(w, "mark") /\ UNCHANGED <<row, intent, stored>>
    BY <2>1, <2>4, Onward DEF Steps, Learnt
  <2>5. CASE Finish(w) /\ UNCHANGED <<row, intent, stored>>
    BY <2>1, <2>5, Returning
  <2> QED
    BY <1>8, <2>3, <2>4, <2>5 DEF SettleDelete
<1>9. CASE Mark(w) \/ EnableCommit(w)
  <2>1. \A d \in Credentials : row[d] \in Row /\ row \in [Credentials -> Row]
    BY DEF AgreeInv, IInv, CredentialsOK
  <2>2. \A d \in Credentials : /\ row'[d].locator = row[d].locator
                               /\ row'[d].generation = row[d].generation
    BY <1>9, <2>1 DEF Mark, MarkReconcile, EnableCommit, InvalidateCredential, Row
  <2> QED
    BY <1>9, <2>2, Returning DEF Mark, EnableCommit
<1>10. CASE View(w)
  BY <1>10, Returning DEF View
<1>11. CASE EnableProbe(w)
  <2>1. CASE Goto(w, "enable_commit")
    <3>1. \A u \in Workers : AtWork(u)' => Stays(u)
      BY <2>1 DEF Goto, AtWork, Stays, AgreeInv, IInv, WorkersOK
    <3> QED
      BY <1>11, <3>1, Quiet DEF EnableProbe, database
  <2> QED
    BY <1>11, <2>1, Returning DEF EnableProbe, database
<1> QED
  BY <1>1, <1>2, <1>3, <1>4, <1>5, <1>6, <1>7, <1>8, <1>9, <1>10, <1>11 DEF Advance

\* A row with an intent is not idle, so no handler is at work on an idle orderly row.
LEMMA IdleAlone ==
  ASSUME AgreeInv, NEW c \in orderly, row[c].vaultState = "idle", NEW u \in Workers,
         AtWork(u)
  PROVE  job[u].cred # c
<1>1. c \in Credentials
  BY DEF AgreeInv, IInv, OthersOK
<1> QED
  BY <1>1, CredentialFacts DEF AgreeInv, HandlersOK, InStep, CredentialOK

\* A new set intent announces what its request will leave, in a record nobody has.
LEMMA SetPrepared ==
  ASSUME AgreeInv, NEW w \in Workers, NEW c \in Credentials, NEW v \in Values,
         NEW k \in Keys, NEW r \in SetRoutes, NEW l \in Locators,
         PrepareSet(w, c, v, k, r, l)
  PROVE  MatchesOK' /\ HandlersOK'
<1> DEFINE i == [op |-> IF row[c].status = "unconfigured" THEN "create" ELSE "replace",
                 locator |-> l, expected |-> row[c].generation,
                 target |-> row[c].generation + 1, prior |-> row[c].status,
                 approval |-> (r = "approve"), value |-> v]
           j == [route |-> r, cred |-> c, value |-> v, key |-> k, version |-> 0]
<1>1. /\ Mutable(c) /\ pc[w] = "idle"
      /\ IF i.op = "create" THEN l \notin used ELSE l = row[c].locator
      /\ i.op = "create" <=> row[c].status = "unconfigured"
      /\ intent' = [intent EXCEPT ![c] = i]
      /\ \A d \in Credentials : /\ row'[d].locator = row[d].locator
                                /\ row'[d].generation = row[d].generation
      /\ UNCHANGED <<vault, stored, orderly>>
  BY CredentialFacts
  DEF PrepareSet, PrepareSetMutation, PrepareIntent, AgreeInv, IInv, CredentialsOK, Row
<1>2. /\ pc'[w] = "call" /\ job'[w] = j /\ held'[w] = intent'[c]
      /\ \A u \in Workers \ {w} : Stays(u)
  BY DEF PrepareSet, Take, AgreeInv, IInv, WorkersOK, Stays
<1>3. /\ i.op \in SetOps /\ i.locator = l /\ i.expected = row[c].generation
      /\ i.target = row[c].generation + 1 /\ i.value = v
      /\ j.route \in SetRoutes /\ j.cred = c /\ j.value = v
  BY DEF SetOps
<1> HIDE DEF i, j
<1>4. /\ intent'[c] = i /\ \A d \in Credentials \ {c} : intent'[d] = intent[d]
  BY <1>1 DEF AgreeInv, IInv, CredentialsOK
<1>5. ASSUME c \in orderly
      PROVE  Matches(c)'
  <2>1. /\ Matches(c) /\ row[c] \in Row /\ CredentialOK(row[c], intent[c], stored[c])
        /\ intent[c].op = "none"
    BY <1>1, <1>5, CredentialFacts DEF AgreeInv, MatchesOK, Mutable, CredentialOK
  <2>2. /\ intent[c].locator = NoLocator
        /\ row[c].locator # NoLocator =>
             vault[row[c].locator] = Rec(c, row[c].generation, stored[c].value)
        /\ \A m \in Locators : vault[m].cred = c => m = row[c].locator
    BY <2>1, CredentialVaultAssumption DEF Matches
  <2>3. CASE i.op = "create"
    <3>1. row[c].locator = NoLocator /\ row[c].generation = 0 /\ i.target = 1
      BY <1>1, <1>3, <2>1, <2>3 DEF Mutable, CredentialOK
    <3>2. vault[l] = NoRecord
      BY <1>1, <2>3 DEF AgreeInv, LocatorsOK, RecordsOK, Refers
    <3>3. \A m \in Locators : vault[m].cred # c
      BY <2>2, <3>1, CredentialVaultAssumption
    <3> QED
      BY <1>1, <1>3, <1>4, <2>3, <3>1, <3>2, <3>3 DEF Matches, DeleteRoutes
  <2>4. CASE i.op = "replace"
    <3>1. row[c].locator = l /\ row[c].locator # NoLocator
      BY <1>1, <2>4, CredentialVaultAssumption
    <3> QED
      BY <1>1, <1>3, <1>4, <2>2, <2>4, <3>1 DEF Matches, DeleteRoutes, Rec
  <2> QED
    BY <1>3, <2>3, <2>4 DEF SetOps
<1>6. ASSUME c \in orderly, NEW u \in Workers, AtWork(u)', job'[u].cred = c
      PROVE  InStep(u)' /\ Alone(u)'
  <2>1. \A x \in Workers : AtWork(x)' /\ job'[x].cred = c => x = w
    BY <1>1, <1>2, <1>6, IdleAlone DEF Stays, AtWork, Mutable
  <2>2. u = w
    BY <1>6, <2>1
  <2>3. InStep(w)'
    BY <1>2, <1>3, <1>4 DEF InStep, Learnt, SetOps, SetRoutes, DeleteRoutes
  <2> QED
    BY <1>6, <2>1, <2>2, <2>3 DEF Alone
<1> QED
  BY <1>1, <1>2, <1>3, <1>4, <1>5, <1>6, Elsewhere

\* A new delete intent names the record of the row.
LEMMA DeletePrepared ==
  ASSUME AgreeInv, NEW w \in Workers, NEW c \in Credentials, NEW k \in Keys,
         NEW r \in DeleteRoutes, PrepareDelete(w, c, k, r)
  PROVE  MatchesOK' /\ HandlersOK'
<1> DEFINE i == [op |-> r, locator |-> row[c].locator,
                 expected |-> row[c].generation, target |-> 0,
                 prior |-> row[c].status, approval |-> FALSE, value |-> NoValue]
           j == [route |-> r, cred |-> c, value |-> NoValue, key |-> k, version |-> 0]
<1>1. /\ row[c].vaultState = "idle" /\ HasValue(c) /\ pc[w] = "idle"
      /\ intent' = [intent EXCEPT ![c] = i]
      /\ \A d \in Credentials : /\ row'[d].locator = row[d].locator
                                /\ row'[d].generation = row[d].generation
      /\ UNCHANGED <<vault, stored, orderly>>
  BY CredentialFacts
  DEF PrepareDelete, PrepareDeleteMutation, PrepareIntent, AgreeInv, IInv, CredentialsOK, Row
<1>2. /\ pc'[w] = "call" /\ job'[w] = j /\ held'[w] = intent'[c]
      /\ \A u \in Workers \ {w} : Stays(u)
  BY DEF PrepareDelete, Take, AgreeInv, IInv, WorkersOK, Stays
<1>3. /\ i.op \in DeleteRoutes /\ i.locator = row[c].locator
      /\ i.expected = row[c].generation /\ i.target = 0
      /\ j.route \in DeleteRoutes /\ j.cred = c
  OBVIOUS
<1> HIDE DEF i, j
<1>4. /\ intent'[c] = i /\ \A d \in Credentials \ {c} : intent'[d] = intent[d]
  BY <1>1 DEF AgreeInv, IInv, CredentialsOK
<1>5. ASSUME c \in orderly
      PROVE  Matches(c)'
  <2>1. /\ Matches(c) /\ row[c] \in Row /\ CredentialOK(row[c], intent[c], stored[c])
        /\ intent[c].op = "none"
    BY <1>1, <1>5, CredentialFacts DEF AgreeInv, MatchesOK, CredentialOK
  <2>2. /\ row[c].locator # NoLocator /\ row[c].locator \in Locators
        /\ vault[row[c].locator] = Rec(c, row[c].generation, stored[c].value)
        /\ \A m \in Locators : vault[m].cred = c => m = row[c].locator
    BY <1>1, <2>1, CredentialVaultAssumption DEF Matches, CredentialOK, HasValue, Row
  <2> QED
    BY <1>1, <1>3, <1>4, <2>2 DEF Matches, DeleteRoutes, Rec
<1>6. ASSUME c \in orderly, NEW u \in Workers, AtWork(u)', job'[u].cred = c
      PROVE  InStep(u)' /\ Alone(u)'
  <2>1. \A x \in Workers : AtWork(x)' /\ job'[x].cred = c => x = w
    BY <1>1, <1>2, <1>6, IdleAlone DEF Stays, AtWork
  <2>2. u = w
    BY <1>6, <2>1
  <2>3. InStep(w)'
    BY <1>2, <1>3, <1>4 DEF InStep, Learnt, SetRoutes, DeleteRoutes
  <2> QED
    BY <1>6, <2>1, <2>2, <2>3 DEF Alone
<1> QED
  BY <1>1, <1>2, <1>3, <1>4, <1>5, <1>6, Elsewhere

\* A replay that resumes its own request leaves the credential orderly.
LEMMA Replayed ==
  ASSUME AgreeInv, NEW w \in Workers, NEW k \in Keys, Replay(w, k)
  PROVE  MatchesOK' /\ HandlersOK'
<1>0. PICK c : c = idem[k].cred
  OBVIOUS
<1> DEFINE j == [route |-> idem[k].route, cred |-> c, value |-> idem[k].value, key |-> k,
                 version |-> 0]
<1>1. /\ pc[w] = "idle" /\ idem[k].route # "none" /\ intent[c].op # "none"
      /\ Take(w, "call", j, intent[c])
      /\ orderly' = IF Resumes(k) THEN orderly ELSE orderly \ {c}
      /\ UNCHANGED <<row, intent, vault, stored>>
  BY <1>0 DEF Replay, database
<1>2. /\ j.cred = c /\ j.route = idem[k].route /\ j.value = idem[k].value
  OBVIOUS
<1> HIDE DEF j
<1>3. c \in Credentials /\ idem[k].route \in SetRoutes \cup DeleteRoutes
  BY <1>0, <1>1 DEF AgreeInv, IInv, OthersOK, IdempotencyRecord
<1>4. /\ pc'[w] = "call" /\ job'[w] = j /\ held'[w] = intent[c]
      /\ \A u \in Workers \ {w} : Stays(u)
  BY <1>1 DEF Take, AgreeInv, IInv, WorkersOK, Stays
<1>5. ASSUME c \in orderly'
      PROVE  /\ Matches(c)'
             /\ \A u \in Workers : AtWork(u)' /\ job'[u].cred = c => InStep(u)' /\ Alone(u)'
  <2>1. Resumes(k) /\ c \in orderly /\ Matches(c)
    BY <1>1, <1>5 DEF AgreeInv, MatchesOK
  <2>2. Matches(c)'
    BY <1>1, <2>1 DEF Matches, Rec
  <2>3. \A x \in Workers : AtWork(x)' /\ job'[x].cred = c => x = w
    BY <1>0, <1>4, <2>1 DEF Stays, AtWork, Resumes
  <2>4. InStep(w)'
    <3>1. intent[c].value = idem[k].value
      BY <1>0, <2>1 DEF Resumes
    <3>2. /\ idem[k].route \in SetRoutes => intent[c].op \in SetOps
          /\ idem[k].route \in DeleteRoutes => intent[c].op \in DeleteRoutes
      BY <1>1, <1>3, <3>1, CredentialFacts
      DEF AgreeInv, ValuesOK, SetRoutes, DeleteRoutes, SetOps
    <3> QED
      BY <1>1, <1>2, <1>4, <3>1, <3>2 DEF InStep, Learnt
  <2> QED
    BY <2>2, <2>3, <2>4 DEF Alone
<1> QED
  BY <1>1, <1>2, <1>3, <1>4, <1>5, Elsewhere

\* Every step keeps rows and vault together, or takes a credential out of orderly.
LEMMA AgreeStep ==
  ASSUME AgreeInv, [Next]_vars
  PROVE  MatchesOK' /\ HandlersOK'
<1>1. ASSUME NEW w \in Workers, Accept(w)
      PROVE  MatchesOK' /\ HandlersOK'
  <2>1. ASSUME NEW c \in Credentials, EnableRead(w, c)
        PROVE  MatchesOK' /\ HandlersOK'
    <3>1. \A u \in Workers : AtWork(u)' => Stays(u)
      BY <2>1 DEF EnableRead, Take, AtWork, Stays, AgreeInv, IInv, WorkersOK
    <3> QED
      BY <2>1, <3>1, Quiet DEF EnableRead, database
  <2> QED
    BY <1>1, <2>1, SetPrepared, DeletePrepared DEF Accept
<1>2. ASSUME NEW w \in Workers, ReplyLost(w) \/ Timeout(w)
      PROVE  MatchesOK' /\ HandlersOK'
  <2>1. AtWork(w) /\ (Goto(w, "probe") \/ Goto(w, "mark"))
    BY <1>2 DEF ReplyLost, Timeout, AtWork
  <2> QED
    BY <1>2, <2>1, Onward DEF ReplyLost, Timeout, database, Steps, Learnt
<1>3. ASSUME NEW w \in Workers, StepFails(w)
      PROVE  MatchesOK' /\ HandlersOK'
  <2>1. UNCHANGED <<row, intent, vault, stored, orderly>>
    BY <1>3 DEF StepFails, database
  <2>2. CASE (Goto(w, "probe") \/ Goto(w, "mark")) /\ AtWork(w)
    BY <2>1, <2>2, Onward DEF Steps, Learnt
  <2>3. CASE Take(w, "idle", NoJob, NoIntent)
    BY <2>1, <2>3, Returning
  <2> QED
    BY <1>3, <2>2, <2>3 DEF StepFails, Finish, AtWork
<1>4. ASSUME NEW c \in Credentials, Lifecycle(c)
      PROVE  MatchesOK' /\ HandlersOK'
  <2>1. \A d \in Credentials : row[d] \in Row /\ row \in [Credentials -> Row]
    BY DEF AgreeInv, IInv, CredentialsOK
  <2>2. \A d \in Credentials : /\ row'[d].locator = row[d].locator
                               /\ row'[d].generation = row[d].generation
    BY <1>4, <2>1 DEF Lifecycle, Create, Update, ReplaceAssignments, Disable,
                      ArchiveUnconfigured, DeleteArchived, InvalidateCredential, Row
  <2> QED
    BY <1>4, <2>2, LifecycleFrame, Quiet DEF Stays
<1>5. ASSUME NEW q \in late, LateExecutes(q)
      PROVE  MatchesOK' /\ HandlersOK'
  <2>1. \A u \in Workers : Stays(u)
    BY <1>5 DEF LateExecutes, coordinator, Stays
  <2>2. CASE vault' = vault
    <3>1. orderly' \subseteq orderly /\ UNCHANGED <<row, intent, stored>>
      BY <1>5 DEF LateExecutes, database
    <3> QED
      BY <2>1, <2>2, <3>1, Quiet
  <2>3. CASE Accepts(q)
    <3>1. PICK d : d = q.cred
      OBVIOUS
    <3>2. /\ d \in Credentials /\ q.kind \in {"create", "replace", "delete"}
          /\ vault \in [Locators -> Record]
      BY <1>5, <3>1 DEF AgreeInv, RecordsOK, IInv, OthersOK, Request
    <3>3. /\ vault' = [vault EXCEPT ![q.locator] = Stored(q)]
          /\ orderly' = orderly \ {d} /\ UNCHANGED <<row, intent, stored>>
      BY <1>5, <2>3, <3>1 DEF LateExecutes, database
    <3>4. Stored(q).cred \in {d, NoCredential}
      BY <3>1, <3>2 DEF Stored, NoRecord
    <3>5. \A l \in Locators : l = q.locator => Refers(d, l)
      BY <1>5, <3>1 DEF Refers
    <3>6. \A l \in Locators : \/ vault'[l] = vault[l]
                              \/ Refers(d, l) /\ vault'[l].cred \in {d, NoCredential}
      BY <3>2, <3>3, <3>4, <3>5
    <3> QED
      BY <2>1, <3>2, <3>3, <3>6, Elsewhere
  <2> QED
    BY <1>5, <2>2, <2>3 DEF LateExecutes
<1>6. CASE Startup
  <2>1. PICK w \in Workers, c \in Credentials : ReconcilePending(w, c)
    BY <1>6 DEF Startup
  <2> DEFINE j == [NoJob EXCEPT !.route = "startup", !.cred = c]
  <2>2. /\ Take(w, "probe", j, intent[c]) /\ c \in starting
        /\ UNCHANGED <<row, intent, vault, stored, orderly>>
        /\ \A u \in Workers : pc[u] = "idle"
    BY <2>1 DEF ReconcilePending, database
  <2>3. j.route = "startup" /\ j.cred = c
    BY DEF NoJob
  <2> HIDE DEF j
  <2>4. /\ pc'[w] = "probe" /\ job'[w] = j /\ held'[w] = intent[c]
        /\ \A u \in Workers \ {w} : Stays(u) /\ ~AtWork(u)'
    BY <2>2 DEF Take, AgreeInv, IInv, WorkersOK, Stays, AtWork
  <2>5. intent[c].op # "none"
    BY <2>2 DEF AgreeInv, StartupOK, Pending
  <2>6. ASSUME c \in orderly
        PROVE  /\ Matches(c)'
               /\ \A u \in Workers : AtWork(u)' /\ job'[u].cred = c => InStep(u)' /\ Alone(u)'
    <3>1. Matches(c)'
      BY <2>2, <2>6 DEF AgreeInv, MatchesOK, Matches, Rec
    <3>2. InStep(w)'
      BY <2>2, <2>3, <2>4, <2>5 DEF InStep, Learnt, SetRoutes, DeleteRoutes
    <3> QED
      BY <2>4, <3>1, <3>2 DEF Alone
  <2> QED
    BY <2>2, <2>3, <2>4, <2>6, Elsewhere
<1>7. CASE CrashRestart
  <2>1. \A u \in Workers : ~AtWork(u)'
    BY <1>7 DEF CrashRestart, AtWork
  <2> QED
    BY <1>7, <2>1, Quiet DEF CrashRestart, database
<1>8. CASE UNCHANGED vars \/ RevokeKey
  <2>1. UNCHANGED <<row, intent, vault, stored, orderly>> /\ \A u \in Workers : Stays(u)
    BY <1>8 DEF vars, RevokeKey, database, coordinator, Stays
  <2> QED
    BY <2>1, Quiet
<1> QED
  BY <1>1, <1>2, <1>3, <1>4, <1>5, <1>6, <1>7, <1>8, AdvanceAgree, Replayed DEF Next

\* Initially there is nothing to agree about.
LEMMA AgreeInit == Init => AgreeInv
<1> SUFFICES ASSUME Init PROVE AgreeInv
  OBVIOUS
<1>1. IInv
  BY InitIInv
<1>2. LocatorsOK /\ RecordsOK
  BY CredentialVaultAssumption
  DEF Init, LocatorsOK, RecordsOK, Refers, AbsentRow, NoIntent, NoJob, NoRecord
<1>3. RoutesOK /\ StartupOK
  BY DEF Init, RoutesOK, RouteOK, StartupOK
<1>4. ValuesOK
  BY CredentialVaultAssumption
  DEF Init, ValuesOK, NoIntent, NoIdempotency, SetOps, SetRoutes
<1>5. MatchesOK
  BY CredentialVaultAssumption
  DEF Init, MatchesOK, Matches, AbsentRow, NoIntent, NoRecord, DeleteRoutes
<1>6. HandlersOK
  BY DEF Init, HandlersOK, AtWork
<1> QED
  BY <1>1, <1>2, <1>3, <1>4, <1>5, <1>6 DEF AgreeInv

\* The credential's row and its vault record agree: the invariant is inductive.
THEOREM AgreementInductive == Spec => []AgreeInv
<1>1. AgreeInv /\ [Next]_vars => AgreeInv'
  <2> SUFFICES ASSUME AgreeInv, [Next]_vars PROVE AgreeInv'
    OBVIOUS
  <2>1. /\ IInv /\ LocatorsOK /\ RecordsOK /\ ValuesOK /\ StartupOK
        /\ \A w \in Workers : RouteOK(pc[w], job[w])
    BY DEF AgreeInv, RoutesOK
  <2>2. IInv' /\ LocatorsOK' /\ RecordsOK' /\ ValuesOK'
    BY <2>1, NextIInv, LocatorsStep, RecordsStep, ValuesStep
  <2>3. StartupOK'
    BY <2>1, StartupStep
  <2>4. \A w \in Workers : RouteOK(pc'[w], job'[w])
    BY <2>1, RoutesStep
  <2>5. RoutesOK'
    BY <2>4 DEF RoutesOK
  <2> QED
    BY <2>2, <2>3, <2>5, AgreeStep DEF AgreeInv
<1> QED
  BY <1>1, AgreeInit, PTL DEF Spec

\* Rows and vault tell the same story for every credential whose requests ran once
\* and while awaited, whatever handlers interleave, fail, crash or are reconciled
\* (credentialVaultCoordinator.ts): the record exists, has the generation of the row
\* and holds the finalized value, and no record is orphaned.
THEOREM RowsAgree == Spec => []RowsMatchVault
<1>1. AgreeInv => RowsMatchVault
  <2> SUFFICES ASSUME AgreeInv PROVE RowsMatchVault
    OBVIOUS
  <2>1. ASSUME NEW c \in orderly
        PROVE  /\ Matches(c) /\ CredentialOK(row[c], intent[c], stored[c])
               /\ c \in Credentials
    <3>1. c \in Credentials
      BY DEF AgreeInv, IInv, OthersOK
    <3> QED
      BY <3>1, CredentialFacts DEF AgreeInv, MatchesOK
  <2>2. ConfiguredMatchesVault /\ FinalizedValueStored
    <3>1. ASSUME NEW c \in orderly, row[c].vaultState = "idle", HasValue(c)
          PROVE  vault[row[c].locator] = Rec(c, row[c].generation, stored[c].value)
      BY <2>1, <3>1 DEF Matches, CredentialOK, HasValue
    <3>2. ConfiguredMatchesVault
      <4> SUFFICES ASSUME NEW c \in orderly, row[c].vaultState = "idle", HasValue(c)
                   PROVE  /\ vault[row[c].locator].cred = c
                          /\ vault[row[c].locator].generation = row[c].generation
        BY DEF ConfiguredMatchesVault
      <4>1. vault[row[c].locator] = Rec(c, row[c].generation, stored[c].value)
        BY <3>1
      <4> QED
        BY <4>1 DEF Rec
    <3>3. FinalizedValueStored
      <4> SUFFICES ASSUME NEW c \in orderly, row[c].vaultState = "idle", HasValue(c)
                   PROVE  vault[row[c].locator].value = stored[c].value
        BY DEF FinalizedValueStored
      <4>1. vault[row[c].locator] = Rec(c, row[c].generation, stored[c].value)
        BY <3>1
      <4> QED
        BY <4>1 DEF Rec
    <3> QED
      BY <3>2, <3>3
  <2>3. NoOrphanRecord
    BY <2>1 DEF NoOrphanRecord, Matches
  <2>4. TypeOK
    BY DEF AgreeInv, IInv, CredentialsOK, WorkersOK, OthersOK, TypeOK, History
  <2> QED
    BY <2>2, <2>3, <2>4 DEF RowsMatchVault
<1> QED
  BY <1>1, AgreementInductive, PTL

\* No locator is ever named on behalf of two credentials: not by rows, intents,
\* handlers, requests in flight or the vault's records, even with late requests.
THEOREM LocatorsNeverShared == Spec => []LocatorsOK
<1>1. AgreeInv => LocatorsOK
  BY DEF AgreeInv
<1> QED
  BY <1>1, AgreementInductive, PTL

=============================================================================
