---------------------------- MODULE RootRotation ----------------------------
(***************************************************************************)
(* Rotating an envelope root at vault startup (vault/main.ts,              *)
(* vault/rootRotationCoordinator.ts, vault/rootRotation.ts): a journal in  *)
(* the setup state directory drives staging a new key file, rewrapping     *)
(* every record, switching the key files and committing a receipt into the *)
(* manifest, and is resumed by every later start until it is gone.         *)
(*                                                                         *)
(* Every change of a directory entry is a step, and the process may die    *)
(* between any two.  A root is named by its physical version: a request's  *)
(* staged key is the only file that ever holds that request's root, so two *)
(* paths with the same root are one inode with two links.                  *)
(***************************************************************************)
EXTENDS Naturals

CONSTANTS
  Requests,      \* rotation request UUIDs, each also a new physical version
  Legacy,        \* the physical version before the first rotation
  NoVersion,
  RecordCount,   \* records (vault) or envelope rows (identity), in cursor order
  BatchSize,     \* ROTATION_BATCH_SIZE
  Targets,       \* the roots that may be rotated: "vault", "identity"
  MaxCrashes     \* bound on crashes

\* What a rotation needs of its parameters.
RootRotationAssumption ==
  /\ Legacy \notin Requests
  /\ NoVersion \notin Requests \cup {Legacy}
  /\ RecordCount \in Nat
  /\ BatchSize \in Nat \ {0}
  /\ Targets \subseteq {"vault", "identity"}
  /\ MaxCrashes \in Nat

VARIABLES
  target,      \* the root this behaviour is about; the other never changes
  pc,          \* where the process is
  asked,       \* the request named on the command line of this start
  at,          \* the record the current batch has reached
  journal,     \* rotation-journal.json; links 2: its temporary name remains
  configured,  \* the root at the configured path
  staged,      \* per request: its staged key file
  archived,    \* versions whose retired key file exists
  manifest,    \* root fingerprint and rotation receipts of manifest.json
  wrapped,     \* per record: the root that wraps it
  temps,       \* records with a leftover temporary file in the store
  crashes

files == <<journal, configured, staged, archived, manifest, wrapped, temps>>
vars  == <<target, pc, asked, at, journal, configured, staged, archived, manifest,
           wrapped, temps, crashes>>

Versions == Requests \cup {Legacy}
Records  == 1..RecordCount
Rewraps  == {"staged", "activated", "rewrapping"}
Phases   == {"none", "created", "verified", "root_switched"} \cup Rewraps
Steps    == {"down", "preflight", "create", "created", "stage", "unlink_temp",
             "own", "journal_staged", "inventory", "activate", "batch", "rewrap",
             "rename", "verify", "switch", "commit", "remove",
             "provision", "serving", "configuration_error"}

NoJournal == [phase |-> "none", request |-> NoVersion, old |-> NoVersion,
              cursor |-> 0, links |-> 0]

Init ==
  /\ target \in Targets
  /\ pc = "down"
  /\ asked = NoVersion
  /\ at = 0
  /\ journal = NoJournal
  /\ configured = Legacy
  /\ staged = [r \in Requests |-> "absent"]
  /\ archived = {}
  /\ manifest = [root |-> Legacy, receipts |-> {}]
  /\ wrapped = [n \in Records |-> Legacy]
  /\ temps = {}
  /\ crashes = 0

\* The files readRestrictedFile accepts: one link, the right owner and mode.
StagedValid(r) == staged[r] = "ready" /\ configured # r
ConfiguredValid(v) ==
  /\ configured = v /\ v \notin archived
  /\ v \in Requests => staged[v] = "absent"
ArchivedValid(v) == v \in archived /\ configured # v

Fail == pc' = "configuration_error" /\ UNCHANGED <<asked, at, files, crashes>>
Goto(step) == pc' = step /\ UNCHANGED <<asked, at, crashes>>

-----------------------------------------------------------------------------
(* startVaultService up to the maintenance.                                  *)

\* rootRotationDisposition of the command line and the journal.
Disposition(q) ==
  LET id == IF journal.phase # "none" THEN journal.request ELSE q
      foreign == journal.phase # "none" /\ q \notin {NoVersion, journal.request}
  IN IF journal.links = 2 THEN "error"
     ELSE CASE journal.phase = "none" /\ q = NoVersion -> "none"
            [] id \in manifest.receipts ->
                 IF foreign \/ (journal.phase # "none" /\
                      (journal.phase # "root_switched" \/ manifest.root # journal.request))
                 THEN "error" ELSE "completed"
            [] id \notin manifest.receipts /\ journal.phase # "none" ->
                 IF foreign \/ manifest.root # journal.old THEN "error" ELSE "resume"
            [] OTHER -> "new"

Start(q) ==
  /\ pc = "down"
  /\ asked' = q
  /\ pc' = CASE Disposition(q) = "none"      -> "provision"
             [] Disposition(q) = "completed" -> IF journal.phase = "none"
                                                THEN "provision" ELSE "remove"
             [] Disposition(q) = "error"     -> "configuration_error"
             [] OTHER                        -> "preflight"
  /\ UNCHANGED <<at, files, crashes>>

\* The checks of runRootRotationMaintenance before it changes anything.
PreflightOK ==
  CASE journal.phase \in Rewraps ->
         ConfiguredValid(journal.old) /\ StagedValid(journal.request)
    [] journal.phase = "root_switched" ->
         ConfiguredValid(journal.request) /\ ArchivedValid(journal.old)
    [] journal.phase \in {"none", "created"} ->
         /\ ConfiguredValid(manifest.root)
         /\ temps = {}
         /\ \A n \in Records : wrapped[n] = manifest.root
    [] OTHER -> TRUE

Preflight ==
  /\ pc = "preflight"
  /\ IF PreflightOK
     THEN /\ Goto(CASE journal.phase = "none"     -> "create"
                    [] journal.phase = "created"  -> "stage"
                    [] journal.phase \in Rewraps  -> "inventory"
                    [] journal.phase = "verified" -> "switch"
                    [] OTHER                      -> "commit")
          /\ UNCHANGED files
     ELSE Fail

-----------------------------------------------------------------------------
(* The journal and the staged key.                                           *)

\* Replacing the journal is one rename.
WriteJournal(phase) ==
  /\ journal' = [journal EXCEPT !.phase = phase]
  /\ UNCHANGED <<configured, staged, archived, manifest, wrapped, temps>>

\* journalStore.create links the temporary file, then unlinks it.
CreateJournal ==
  /\ pc = "create"
  /\ journal' = [phase |-> "created", request |-> asked, old |-> manifest.root,
                 cursor |-> 0, links |-> 2]
  /\ Goto("created")
  /\ UNCHANGED <<configured, staged, archived, manifest, wrapped, temps>>

JournalCreated ==
  /\ pc = "created"
  /\ journal' = [journal EXCEPT !.links = 1]
  /\ Goto("stage")
  /\ UNCHANGED <<configured, staged, archived, manifest, wrapped, temps>>

SetStaged(state) ==
  /\ staged' = [staged EXCEPT ![journal.request] = state]
  /\ UNCHANGED <<journal, configured, archived, manifest, wrapped, temps>>

\* createVaultKeyFile does not replace an existing file.
StageKey ==
  /\ pc = "stage"
  /\ IF staged[journal.request] = "absent"
     THEN SetStaged("linked") /\ Goto("unlink_temp")
     ELSE Fail

UnlinkKeyTemp == pc = "unlink_temp" /\ SetStaged("raw") /\ Goto("own")

\* applyOwnership: chown and chmod.
OwnKey == pc = "own" /\ SetStaged("ready") /\ Goto("journal_staged")

JournalStaged ==
  /\ pc = "journal_staged"
  /\ WriteJournal("staged")
  /\ Goto("inventory")

-----------------------------------------------------------------------------
(* Rewrapping.                                                               *)

\* inventory: the store holds nothing but records under either root.
InventoryOK ==
  /\ temps = {}
  /\ \A n \in Records : wrapped[n] \in {journal.old, journal.request}

Inventory ==
  /\ pc = "inventory"
  /\ IF InventoryOK
     THEN /\ Goto(IF journal.phase = "rewrapping" THEN "batch" ELSE "activate")
          /\ UNCHANGED files
     ELSE Fail

\* staged to activated, activated to rewrapping: one replacement each.
Activate ==
  /\ pc = "activate"
  /\ IF journal.phase = "staged"
     THEN WriteJournal("activated") /\ Goto("activate")
     ELSE WriteJournal("rewrapping") /\ Goto("batch")

BatchEnd == IF journal.cursor + BatchSize < RecordCount
            THEN journal.cursor + BatchSize ELSE RecordCount

\* rewrapBatch lists the records after the cursor.
BeginBatch ==
  /\ pc = "batch"
  /\ IF temps = {}
     THEN /\ at' = journal.cursor + 1
          /\ pc' = "rewrap"
          /\ UNCHANGED <<asked, files, crashes>>
     ELSE Fail

\* rewrapOne for the vault: write the temporary file unless already rewrapped.
RewrapVault ==
  /\ pc = "rewrap" /\ target = "vault" /\ at <= BatchEnd
  /\ IF wrapped[at] = journal.request
     THEN at' = at + 1 /\ UNCHANGED <<pc, temps>>
     ELSE temps' = temps \cup {at} /\ pc' = "rename" /\ UNCHANGED at
  /\ UNCHANGED <<asked, journal, configured, staged, archived, manifest, wrapped,
                 crashes>>

\* commitConditional: the rename that replaces the record.
RenameRecord ==
  /\ pc = "rename"
  /\ wrapped' = [wrapped EXCEPT ![at] = journal.request]
  /\ temps' = temps \ {at}
  /\ at' = at + 1
  /\ pc' = "rewrap"
  /\ UNCHANGED <<asked, journal, configured, staged, archived, manifest, crashes>>

\* The identity adapter rewraps a whole batch in one transaction.
RewrapIdentity ==
  /\ pc = "rewrap" /\ target = "identity" /\ at <= BatchEnd
  /\ wrapped' = [n \in Records |-> IF n \in at..BatchEnd THEN journal.request
                                                         ELSE wrapped[n]]
  /\ at' = BatchEnd + 1
  /\ UNCHANGED <<pc, asked, journal, configured, staged, archived, manifest, temps,
                 crashes>>

\* The cursor is kept only while records remain after it.
BatchDone ==
  /\ pc = "rewrap" /\ at > BatchEnd
  /\ journal' = [journal EXCEPT !.cursor = IF BatchEnd < RecordCount
                                           THEN BatchEnd ELSE 0]
  /\ pc' = IF BatchEnd < RecordCount THEN "batch" ELSE "verify"
  /\ UNCHANGED <<asked, at, configured, staged, archived, manifest, wrapped, temps,
                 crashes>>

\* verifyZero, then the journal says so.
Verify ==
  /\ pc = "verify"
  /\ IF temps = {} /\ \A n \in Records : wrapped[n] = journal.request
     THEN WriteJournal("verified") /\ Goto("switch")
     ELSE Fail

-----------------------------------------------------------------------------
(* switchRootPhysicalVersion: every order of its files in which a run can    *)
(* die has exactly one next step.                                            *)

SetKeys(c, a, s) ==
  /\ configured' = c
  /\ archived' = a
  /\ staged' = [staged EXCEPT ![journal.request] = s]
  /\ UNCHANGED <<journal, manifest, wrapped, temps>>
  /\ Goto("switch")

\* One inode under both names: the first half was interrupted, or goes on.
UnlinkConfigured ==
  /\ pc = "switch"
  /\ configured = journal.old /\ journal.old \in archived
  /\ SetKeys(NoVersion, archived, staged[journal.request])

ArchiveRoot ==
  /\ pc = "switch"
  /\ ConfiguredValid(journal.old) /\ StagedValid(journal.request)
  /\ SetKeys(configured, archived \cup {journal.old}, "ready")

InstallRootAfterUnlink ==
  /\ pc = "switch"
  /\ configured = NoVersion
  /\ ArchivedValid(journal.old) /\ StagedValid(journal.request)
  /\ SetKeys(NoVersion, archived, "absent")

InstallRoot ==
  /\ pc = "switch"
  /\ configured = NoVersion
  /\ ArchivedValid(journal.old) /\ StagedValid(journal.request)
  /\ SetKeys(journal.request, archived, "ready")

UnlinkStaged ==
  /\ pc = "switch"
  /\ configured = journal.request /\ staged[journal.request] # "absent"
  /\ SetKeys(configured, archived, "absent")

\* Both ends are checked before the journal moves on; any other arrangement of
\* the three files is refused.
Switched ==
  /\ pc = "switch"
  /\ configured = NoVersion => ~(ArchivedValid(journal.old) /\ StagedValid(journal.request))
  /\ configured = journal.old => journal.old \notin archived /\ ~StagedValid(journal.request)
  /\ configured = journal.request => staged[journal.request] = "absent"
  /\ IF ConfiguredValid(journal.request) /\ ArchivedValid(journal.old)
     THEN WriteJournal("root_switched") /\ Goto("commit")
     ELSE Fail

-----------------------------------------------------------------------------
(* The receipt, the end of the journal, and ordinary service.                *)

\* commitManifestRootRotation and replaceProvisioningManifest.
CommitManifest ==
  /\ pc = "commit"
  /\ manifest' = [root |-> journal.request,
                  receipts |-> manifest.receipts \cup {journal.request}]
  /\ Goto("remove")
  /\ UNCHANGED <<journal, configured, staged, archived, wrapped, temps>>

RemoveJournal ==
  /\ pc = "remove"
  /\ journal' = NoJournal
  /\ Goto("provision")
  /\ UNCHANGED <<configured, staged, archived, manifest, wrapped, temps>>

\* VaultProvisioner.runOnce on a configured manifest, then the broker; opening
\* the record store removes leftover temporary files.
Provision ==
  /\ pc = "provision"
  /\ IF ConfiguredValid(manifest.root)
     THEN /\ temps' = {}
          /\ Goto("serving")
          /\ UNCHANGED <<journal, configured, staged, archived, manifest, wrapped>>
     ELSE Fail

\* The operator stops the service, also after a failed start.
Stop ==
  /\ pc \in {"serving", "configuration_error"}
  /\ pc' = "down"
  /\ asked' = NoVersion
  /\ at' = 0
  /\ UNCHANGED <<files, crashes>>

\* The process dies.  Killed while serving, it may have been writing a record.
Crash ==
  /\ crashes < MaxCrashes
  /\ crashes' = crashes + 1
  /\ pc # "down"
  /\ pc' = "down"
  /\ asked' = NoVersion
  /\ at' = 0
  /\ \/ UNCHANGED temps
     \/ /\ pc = "serving" /\ target = "vault"
        /\ \E n \in Records : temps' = {n}
  /\ UNCHANGED <<journal, configured, staged, archived, manifest, wrapped>>

-----------------------------------------------------------------------------
Run ==
  \/ Preflight \/ CreateJournal \/ JournalCreated
  \/ StageKey \/ UnlinkKeyTemp \/ OwnKey \/ JournalStaged
  \/ Inventory \/ Activate \/ BeginBatch \/ RewrapVault \/ RenameRecord
  \/ RewrapIdentity \/ BatchDone \/ Verify
  \/ UnlinkConfigured \/ ArchiveRoot \/ InstallRoot \/ UnlinkStaged \/ Switched
  \/ CommitManifest \/ RemoveJournal \/ Provision

Next ==
  /\ \/ \E q \in Requests \cup {NoVersion} : Start(q)
     \/ Run \/ Stop \/ Crash
  /\ UNCHANGED target

Spec == Init /\ [][Next]_vars

-----------------------------------------------------------------------------
(* Properties                                                                *)

\* Every variable has its type.
TypeOK ==
  /\ target \in Targets
  /\ pc \in Steps
  /\ asked \in Requests \cup {NoVersion}
  /\ at \in Nat
  /\ journal \in [phase : Phases, request : Requests \cup {NoVersion},
                  old : Versions \cup {NoVersion}, cursor : Nat, links : 0..2]
  /\ configured \in Versions \cup {NoVersion}
  /\ staged \in [Requests -> {"absent", "linked", "raw", "ready"}]
  /\ archived \subseteq Versions
  /\ manifest \in [root : Versions, receipts : SUBSET Requests]
  /\ wrapped \in [Records -> Versions]
  /\ temps \subseteq Records
  /\ crashes \in Nat

\* An interrupted rewrap never becomes operational: while the broker serves,
\* every record is wrapped by the root it was started with.
ServedUnderOneRoot ==
  pc = "serving" => \A n \in Records : wrapped[n] = configured

\* No root that a record still needs is ever without a file, whatever step of
\* the switch or of the rewrap the process dies in.
RootsKept ==
  \A n \in Records :
    \/ wrapped[n] = configured
    \/ wrapped[n] \in archived
    \/ wrapped[n] \in Requests /\ staged[wrapped[n]] = "ready"

\* A start that does not name another request resumes the switch and the commit
\* from wherever they were interrupted.
Unforced == pc = "configuration_error" /\ asked \in {NoVersion, journal.request}
SwitchResumes == Unforced => journal.phase \notin {"verified", "root_switched"}

\* A receipt is final: the active root only ever moves to the root of a request
\* that has none yet, and a replayed request changes nothing.
ReceiptsAreFinal ==
  [][/\ manifest.receipts \subseteq manifest'.receipts
     /\ manifest'.root # manifest.root =>
          manifest'.root \in manifest'.receipts \ manifest.receipts]_vars

\* The identity rewrap, whose batches are transactions, resumes from wherever it
\* was interrupted.
IdentityRewrapResumes ==
  (Unforced /\ target = "identity") => journal.phase # "rewrapping"

\* Docs: a rotation durably resumes every interrupted phase.
InterruptedResumes == ~Unforced

\* Wherever a rotation stops, no record is served under another root than its
\* own, no root that is still needed is lost, and the switch and the identity
\* rewrap are resumed.
RotationSafe ==
  TypeOK /\ ServedUnderOneRoot /\ RootsKept /\ SwitchResumes /\ IdentityRewrapResumes
=============================================================================
