------------------------------ MODULE MCStores ------------------------------
(***************************************************************************)
(* What the vault and the database keep through faults, for TLC: the vault *)
(* coordinator, the rotation of an envelope root, the files of the record  *)
(* store, the restore commit and the projection of audit events.  In the   *)
(* models they share no state, so a behaviour is about one of them, its    *)
(* focus, and the others keep their initial state.  The coordinator has    *)
(* two: in focus "replays" requests are repeated under their keys and      *)
(* executed late by the broker, in focus "vault" each is sent once and     *)
(* executed while its caller waits, and more values and faults are tried.  *)
(***************************************************************************)
EXTENDS CredentialVault, Sequences

CONSTANTS
  c1, v1, v2, k1, k2, w1, w2, l1, l2, q1, q2,  \* the model values of Stores.cfg
  Requests, Legacy, NoVersion, RecordCount, BatchSize, Targets, MaxCrashes,
  Bodies, MaxGeneration, MaxStoppages,         \* of VaultStore
  MaxCommits, MaxStops,                        \* of Restore
  LegacyEvents, MaxEvents, Hour, Retention, Periods, BatchLimit, MaxTicks, MaxUpdates

VARIABLES
  focus,
  target, step, asked, at, journal, configured, staged, archived, manifest,
    wrapped, leftovers, crashes,
  file, there, temps, synced, aside, store, op, acked, stoppages,
  proc, gate, com, vaultStore, dbFile, conn, attached, rec, commits, stops,
    unrecorded,
  born, kept, indexed, ledger, hourly, cursor, retention, ticks

Repeated == INSTANCE CredentialVault WITH
  Values <- {v1}, MaxVersion <- 4, MaxFaults <- 1,
  LateDelivery <- TRUE, Retries <- TRUE

Rotation == INSTANCE RootRotation WITH pc <- step, temps <- leftovers

Files == INSTANCE VaultStore WITH faults <- stoppages, MaxFaults <- MaxStoppages

Commit == INSTANCE Restore WITH store <- vaultStore, file <- dbFile

Projection == INSTANCE AuditProjection WITH Legacy <- LegacyEvents

\* The value of LegacyEvents in Stores.cfg.
OneOfEach == <<"other", "service_request">>

ASSUME RotationParameters == Rotation!RootRotationAssumption
ASSUME FilesParameters ==
  IsFiniteSet(Locators) /\ MaxGeneration \in Nat \ {0} /\ MaxStoppages \in Nat
ASSUME ProjectionParameters ==
  /\ LegacyEvents \in Seq(Projection!Kinds) /\ MaxEvents \in Nat
  /\ Len(LegacyEvents) <= MaxEvents /\ Hour \in Nat \ {0} /\ Retention \in Nat
  /\ MaxTicks \in Nat /\ BatchLimit \in Nat
ASSUME CommitParameters == MaxCommits \in Nat /\ MaxStops \in Nat

rotationVars == <<target, step, asked, at, journal, configured, staged, archived,
                  manifest, wrapped, leftovers, crashes>>
storeVars == <<file, there, temps, synced, aside, store, op, acked, stoppages>>
restoreVars == <<proc, gate, com, vaultStore, dbFile, conn, attached, rec,
                 commits, stops, unrecorded>>
auditVars == <<born, kept, indexed, ledger, hourly, cursor, retention, ticks>>
storesVars == <<focus, vars, rotationVars, storeVars, restoreVars, auditVars>>

StoresInit ==
  /\ focus \in {"vault", "replays", "rotation", "files", "restore", "audit"}
  /\ Init /\ Rotation!Init /\ Files!Init /\ Commit!Init /\ Projection!Init
  /\ focus # "rotation" => target = "vault"

StoresNext ==
  \/ focus = "replays" /\ Repeated!Next
     /\ UNCHANGED <<focus, rotationVars, storeVars, restoreVars, auditVars>>
  \/ focus = "vault" /\ Next
     /\ UNCHANGED <<focus, rotationVars, storeVars, restoreVars, auditVars>>
  \/ focus = "rotation" /\ Rotation!Next
     /\ UNCHANGED <<focus, vars, storeVars, restoreVars, auditVars>>
  \/ focus = "files" /\ Files!Next
     /\ UNCHANGED <<focus, vars, rotationVars, restoreVars, auditVars>>
  \/ focus = "restore" /\ Commit!Next
     /\ UNCHANGED <<focus, vars, rotationVars, storeVars, auditVars>>
  \/ focus = "audit" /\ Projection!Next
     /\ UNCHANGED <<focus, vars, rotationVars, storeVars, restoreVars>>

\* The fairness of each component, while it is the focus.
StoresSpec ==
  /\ StoresInit /\ [][StoresNext]_storesVars
  /\ WF_vars(focus = "vault" /\ Startup)
  /\ \A w \in Workers : WF_vars(focus = "vault" /\ Advance(w))
  /\ WF_rotationVars(focus = "rotation" /\ Rotation!Run /\ UNCHANGED target)
  /\ WF_rotationVars(focus = "rotation" /\ Rotation!Stop /\ UNCHANGED target)
  /\ SF_rotationVars(focus = "rotation" /\ Rotation!Start(NoVersion) /\ UNCHANGED target)
  /\ WF_storeVars(focus = "files" /\ Files!StoreStep)
  /\ WF_restoreVars(focus = "restore" /\ Commit!CommitStep)
  /\ WF_restoreVars(focus = "restore" /\ Commit!StartStep)
  /\ WF_auditVars(focus = "audit" /\ Projection!aggregate)
  /\ WF_auditVars(focus = "audit" /\ Projection!maintain)

-----------------------------------------------------------------------------
(* What is checked of each component, besides the properties of            *)
(* CredentialVault that hold with repeated and late requests.              *)

\* No root is lost and no record is served under a wrong one, wherever a
\* rotation is interrupted, and its receipt is final (rootRotation.ts,
\* recordStore.ts).
RotationSafe ==
  [](focus = "rotation" => Rotation!RotationSafe) /\ Rotation!ReceiptsAreFinal

\* Only a stop between link and unlink of a new record makes a later start
\* refuse the store (recordStore.ts #commit, #initialize).
StoreCoherent == focus = "files" => Files!StoreCoherent

\* The files implement the durable map that callers of the store see
\* (recordStore.ts against VaultRecords).
ImplementsRecords == Files!ImplementsRecords

\* Vault and database are replaced together or can be put back together, and
\* no start goes on with two configurations (restoreCommit.ts,
\* restoreRecovery.ts).
RestoreIsAtomic ==
  /\ [](focus = "restore" => Commit!AgreeOrRecoverable)
  /\ Commit!StartsOnOneConfiguration

\* Each event is counted once in the activity of its hour
\* (activityAggregation.ts, activityProjection.ts, auditRetention.ts).
ActivityCountedOnce == focus = "audit" => Projection!ActivityCountedOnce

\* Work that was begun and may have been interrupted: an intent that a startup
\* pass has before it, a rotation with a verified journal, a restore commit or
\* a start under way.
Begun ==
  CASE focus = "vault" -> \E c \in Credentials : Settling(c)
    [] focus = "rotation" -> journal.phase = "verified"
    [] focus = "restore" -> Commit!UnderWay
    [] OTHER -> FALSE

Ended ==
  CASE focus = "vault" -> \A c \in Credentials : intent[c].op = "none"
    [] focus = "rotation" -> journal.phase = "none"
    [] focus = "restore" -> Commit!Settled
    [] OTHER -> TRUE

\* Interrupted work is finished, whatever step the process died in: the
\* startup pass settles the intents it reaches (credentialVaultCoordinator.ts),
\* a verified rotation completes (rootRotation.ts), and a restore commit or
\* a start ends with ordinary work admitted or refused (restoreCommit.ts,
\* restoreRecovery.ts).
InterruptedWorkEnds == Begun ~> Ended

\* The backlog of stored events is worked off in batches of one: each is
\* indexed and aggregated in the end (activityAggregation.ts run, repairIndexes).
BacklogDrains == focus = "audit" => Projection!BacklogDrains
=============================================================================
