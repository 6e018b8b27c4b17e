-------------------------- MODULE MCAdministration --------------------------
(***************************************************************************)
(* The tables that management keeps, for TLC: services, accounts, API      *)
(* keys, sessions and grants as lists, backup exports, archive transfers   *)
(* to and from the vault, and restore stages.  In the models they share no *)
(* state, so a behaviour is about one of them, its focus, and the others   *)
(* keep their initial state.                                               *)
(***************************************************************************)
EXTENDS Integers, Sequences, FiniteSets

CONSTANTS
  ServiceIds, DestIds, ServiceAdmins, Bodies, Profiles, MaxDestinations, MaxRevisions,
    MaxChanges,                                                \* of the services
  Superadmins, Admins, Members, Invitees, ActingKeys, RequestSlots, IdempotencyKeys,
    MaxRequests,                                               \* of the accounts
  KeyIds, Clients, KeyServices, Managers, PoolSize, PerWindow, KeyWindow, MaxEntries,
    MaxKeyTime, MaxKeyWork,                                    \* of the API keys
  ListedRecords, Issued, Connections, FirstUsers, Svcs, PageSize, RevocationLimit, Retention,
    MaxListTime, MaxListWork,                                  \* of the lists
  ExportRequests, MaxConcurrent, Attempts, RateWindow, AuthorizationTTL, MaxGen,
    MaxExportTime,                                             \* of the exports
  ExportCalls, ImportCalls, Chunks, Skew, CapabilityTTL, TransferTTL, MaxTransfers,
    MaxActive, ReplayCapacity, MaxClock, MaxEvents,            \* of the transfers
  StorageKeys, StagingActors, PreviewIds, StagingRequests, MaxStages, StageTTL, MaxHours,
    MaxConfig                                                  \* of the stages

VARIABLES
  focus,
  svc, dest, revs, announced, snapshot, enabled, reader, edits,
  user, related, req, idem, shown, fence, count,
  key, now, manager, desk, client, pool, limiter, granted, issued,
  record, uses, manages, evidence, walk, tick, work,
  export, active, rate, auth, audit, cred, time,
  clock, boot, clientBoot, call, wire, replay, spent, transfers, jobs, content,
    runs, applied, events,
  stage, preview, disk, task, config, hour

Catalogue == INSTANCE Services WITH Admins <- ServiceAdmins

Accounts == INSTANCE UserAdministration WITH
  ApiKeys <- ActingKeys, Slots <- RequestSlots, Keys <- IdempotencyKeys

KeyTable == INSTANCE ApiKeys WITH
  clock <- now, user <- manager, work <- issued,
  Window <- KeyWindow, MaxNow <- MaxKeyTime, MaxWork <- MaxKeyWork

\* A record is a connection or a session, of one of two users.
KindOf == [r \in ListedRecords |-> IF r \in Connections THEN "grant" ELSE "session"]
OwnerOf == [r \in ListedRecords |-> IF r \in FirstUsers THEN "u1" ELSE "u2"]

Lists == INSTANCE AccessRecords WITH
  Records <- ListedRecords, MaxTime <- MaxListTime, MaxWork <- MaxListWork

Exporting == INSTANCE Backup WITH
  Exports <- ExportRequests, Window <- RateWindow, TTL <- AuthorizationTTL,
  MaxNow <- MaxExportTime

Transferring == INSTANCE VaultTransfers WITH Exports <- ExportCalls, Imports <- ImportCalls

Staging == INSTANCE RestoreStaging WITH
  work <- task, Keys <- StorageKeys, Actors <- StagingActors,
  Requests <- StagingRequests, TTL <- StageTTL, MaxNow <- MaxHours

\* "none" owns what no service has, and "profile" is the entry of a document that is no
\* destination; the first service, its destination and its administrator are there.
ASSUME CatalogueParameters ==
  /\ "profile" \notin DestIds /\ "none" \notin ServiceIds
  /\ ServiceIds # {} /\ DestIds # {} /\ ServiceAdmins # {}
  /\ MaxRevisions \in Nat /\ MaxChanges \in Nat

\* The first superadmin is made before anybody can sign in.
ASSUME AccountParameters ==
  /\ Superadmins # {} /\ IsFiniteSet(Superadmins \cup Admins \cup Members \cup Invitees)
  /\ RequestSlots \subseteq Nat /\ MaxRequests \in Nat

\* The first key is there; requests arrive in the order of their numbers, and 0 is the
\* source that they come from.
ASSUME KeyParameters ==
  /\ KeyIds \subseteq Nat \ {0} /\ 1 \in KeyIds
  /\ IsFiniteSet(Clients) /\ Clients \subseteq Nat \ {0}
  /\ PoolSize \in Nat /\ PerWindow \in Nat /\ KeyWindow \in Nat \ {0} /\ MaxEntries \in Nat
  /\ MaxKeyTime \in Nat

\* Evidence of what was cleaned up is kept for a while.
ASSUME ListParameters ==
  /\ IsFiniteSet(ListedRecords) /\ ListedRecords \subseteq Nat
  /\ PageSize \in Nat /\ Retention \in Nat \ {0}

\* The limits of the code are positive; an export may start.
ASSUME ExportParameters ==
  /\ IsFiniteSet(ExportRequests)
  /\ MaxConcurrent \in Nat /\ Attempts \in Nat \ {0}
  /\ RateWindow \in Nat /\ AuthorizationTTL \in Nat /\ MaxExportTime \in Nat

ASSUME TransferParameters ==
  /\ IsFiniteSet(ExportCalls) /\ IsFiniteSet(ImportCalls)
  /\ ExportCalls \cap ImportCalls = {}
  /\ Chunks \in Nat \ {0} /\ Skew \in Nat /\ CapabilityTTL \in Nat /\ TransferTTL \in Nat
  /\ MaxTransfers \in Nat \ {0} /\ MaxActive \in Nat \ {0}
  /\ MaxClock \in Nat /\ MaxEvents \in Nat

\* 0 stands for no storage key and no preview.
ASSUME StagingParameters ==
  /\ IsFiniteSet(StorageKeys) /\ StorageKeys \subseteq Nat \ {0}
  /\ PreviewIds \subseteq Nat \ {0} /\ StagingRequests \subseteq Nat
  /\ MaxStages \in Nat /\ StageTTL \in Nat /\ MaxHours \in Nat /\ MaxConfig \in Nat

serviceVars == <<svc, dest, revs, announced, snapshot, enabled, reader, edits>>
userVars == <<user, related, req, idem, shown, fence, count>>
keyVars == <<key, now, manager, desk, client, pool, limiter, granted, issued>>
listVars == <<record, uses, manages, evidence, walk, tick, work>>
exportVars == <<export, active, rate, auth, audit, cred, time>>
transferVars == <<clock, boot, clientBoot, call, wire, replay, spent, transfers, jobs,
                  content, runs, applied, events>>
stageVars == <<stage, preview, disk, task, config, hour>>
adminVars == <<focus, serviceVars, userVars, keyVars, listVars, exportVars,
               transferVars, stageVars>>

AdministrationInit ==
  /\ focus \in {"services", "accounts", "keys", "lists", "exports", "transfers", "stages"}
  /\ Catalogue!Init /\ Accounts!Init /\ KeyTable!Init /\ Lists!Init
  /\ Exporting!Init /\ Transferring!Init /\ Staging!Init
  /\ focus = "keys" => key[1].scope \in KeyServices \cup {"all_services"}
  /\ focus # "keys" => key[1].scope = "all_services" /\ key[1].expires = KeyTable!Forever

AdministrationNext ==
  \/ focus = "services" /\ Catalogue!Next
     /\ UNCHANGED <<focus, userVars, keyVars, listVars, exportVars, transferVars, stageVars>>
  \/ focus = "accounts" /\ Accounts!Next
     /\ UNCHANGED <<focus, serviceVars, keyVars, listVars, exportVars, transferVars, stageVars>>
  \/ focus = "keys" /\ KeyTable!Next
     /\ UNCHANGED <<focus, serviceVars, userVars, listVars, exportVars, transferVars, stageVars>>
  \/ focus = "lists" /\ Lists!Next
     /\ UNCHANGED <<focus, serviceVars, userVars, keyVars, exportVars, transferVars, stageVars>>
  \/ focus = "exports" /\ Exporting!Next
     /\ UNCHANGED <<focus, serviceVars, userVars, keyVars, listVars, transferVars, stageVars>>
  \/ focus = "transfers" /\ Transferring!Next
     /\ UNCHANGED <<focus, serviceVars, userVars, keyVars, listVars, exportVars, stageVars>>
  \/ focus = "stages" /\ Staging!Next
     /\ UNCHANGED <<focus, serviceVars, userVars, keyVars, listVars, exportVars, transferVars>>

AdministrationSpec == AdministrationInit /\ [][AdministrationNext]_adminVars

-----------------------------------------------------------------------------
(* What is checked of each component.                                      *)

\* Stored digests and revisions tell the truth, a version that a client read
\* names one state of the service, and whatever changes what is published is
\* announced (serviceManagement.ts).
ServicesCoherent ==
  /\ [](focus = "services" =>
          Catalogue!RevisionsCoherent /\ Catalogue!SameVersionSameService)
  /\ Catalogue!PublicationsAnnounced

\* However requests overlap, some superadmin is active or can enrol, and a
\* reply displays exactly the temporary password that its own transaction put in
\* force (userLifecycleAdministration.ts requireNotLastActiveSuperadmin).
AccountsKept ==
  [](focus = "accounts" => Accounts!SuperadminRecoverable) /\ Accounts!DisplayedIsStored

\* However two rotations race, one key of a lineage is active and none outlives
\* the first, pool and limiter count exactly, and a key that was revoked, rotated
\* or has expired while a request waited does nothing for it and never comes
\* back (apiKeys.ts, apiKeyAuthority.ts, selfApiKeyProtection.ts).
KeysKept == [](focus = "keys" => KeyTable!KeysAccounted) /\ KeyTable!RevocationIsFinal

\* A walk through the pages of a list shows everything that was there from its
\* first page to its last, and cleaning up loses no answer (accessManagement.ts).
AnswersComplete ==
  [](focus = "lists" => Lists!PagesComplete) /\ Lists!CleanupKeepsAnswers

\* An export hands out one moment of database and vault, once for each
\* authorization, and gives its slot back (backupCoordinator.ts,
\* backupProjection.ts).
ExportsCoherent == focus = "exports" => Exporting!ExportsCoherent

\* A transfer request that is copied, delayed or sent to a restarted broker
\* has its effect at most once, and an archive that arrives is whole
\* (vault/broker.ts, vault/client.ts, vault/domain.ts).
TransfersOnceAndWhole == focus = "transfers" => Transferring!TransfersOnceAndWhole

\* A stage that can still be used has its file, and one commit is made of what
\* a preview showed (restoreStaging.ts, restoreState.ts, restorePreview.ts).
StagesCoherent == focus = "stages" => Staging!StagesCoherent
=============================================================================
