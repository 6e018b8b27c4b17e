-------------------------------- MODULE Restore --------------------------------
(***************************************************************************)
(* The commit of a portable restore and its recovery (restoreCommit.ts,    *)
(* restoreRecovery.ts, restoreState.ts, restoreReplacement.ts, and the     *)
(* start in application.ts and control/main.ts).                           *)
(*                                                                         *)
(* Two stores change one after the other: the vault, by a request whose    *)
(* reply may be lost, and the SQLite database.  A snapshot of both with a  *)
(* journal in the restore directory lets a failed commit, or the next      *)
(* start of a process that stopped, put both back.                         *)
(*                                                                         *)
(* The contents of a store are a number: 0 before the first commit, n when *)
(* commit n has replaced them.  The process keeps one SQLite connection    *)
(* for its life; the rollback renames the snapshot over the database file, *)
(* so from then on the connection is on the unlinked file (attached).      *)
(*                                                                         *)
(* Bounds: MaxCommits commits, MaxStops stops of the process.              *)
(***************************************************************************)
EXTENDS Naturals

CONSTANTS MaxCommits, MaxStops

VARIABLES proc,       \* "starting", "up", "down" or "refused" (startup stopped)
          gate,       \* RestoreMaintenanceGate: "open" or "excluded"
          com,        \* the commit under way: its step and the locals of commit()
          store,      \* contents of the vault
          file,       \* the database file
          conn,       \* the database as the connection of the process has it
          attached,   \* whether that connection is on the database file
          rec,        \* the restore directory
          commits, stops,
          unrecorded  \* the vault was replaced with no record of it in the journal

restoreVars == <<proc, gate, com, store, file, conn, attached, rec, commits, stops, unrecorded>>

\* restore_state, the preview of the commit, and the configuration.
Database(data, phase, op, preview) == [data |-> data, phase |-> phase, op |-> op, preview |-> preview]

NoFile == Database(0, "none", 0, "none")
NoVault == MaxCommits + 1

EmptyDirectory ==
  [journal |-> "none", op |-> 0, expired |-> FALSE, database |-> NoFile, vault |-> NoVault]

exists == rec.journal # "none" \/ rec.database # NoFile \/ rec.vault # NoVault

Recorded == {"vault_applied", "database_committed"}

NoCommit == [step |-> "none", op |-> 0, claimed |-> FALSE, entered |-> FALSE, snapshot |-> FALSE,
             vault |-> FALSE, database |-> FALSE]

\* A transaction of the process: seen on the file while the connection is on it.
Writes(row) ==
  /\ conn' = row
  /\ file' = IF attached THEN row ELSE file

Reads == UNCHANGED <<conn, file>>

Still == UNCHANGED <<proc, attached, commits, stops>>

Committing(step) == proc = "up" /\ com.step = step

\* A step of commit() that throws goes to its catch block.
Throws == com' = [com EXCEPT !.step = "catch"]

Goes(step) == com' = [com EXCEPT !.step = step]

-----------------------------------------------------------------------------
(***************************************************************************)
(* commit(), one action for each await and each write to the journal.      *)
(***************************************************************************)
\* withConsumedProof and claimPreviewInTransaction, on a ready preview.
claimPreview ==
  /\ proc = "up" /\ com.step = "none" /\ commits < MaxCommits
  /\ conn.preview # "claimed"
  /\ commits' = commits + 1
  /\ Writes([conn EXCEPT !.preview = "claimed"])
  /\ com' = [NoCommit EXCEPT !.step = "exclude", !.op = commits + 1, !.claimed = TRUE]
  /\ UNCHANGED <<proc, attached, stops, gate, store, rec, unrecorded>>

\* acquireExclusive with enterMaintenance: the gate is reopened when it fails.
enterMaintenance ==
  /\ Committing("exclude")
  /\ \/ /\ gate = "open" /\ conn.phase = "inactive"
        /\ gate' = "excluded"
        /\ Writes([conn EXCEPT !.phase = "maintenance", !.op = com.op])
        /\ com' = [com EXCEPT !.step = "prepare", !.entered = TRUE]
     \/ Throws /\ Reads /\ UNCHANGED gate
  /\ Still /\ UNCHANGED <<store, rec, unrecorded>>

\* prepare: the database and the vault archive are published, then the journal.
\* A failure removes what was published; a stop leaves it.
PublishDatabase ==
  /\ Committing("prepare")
  /\ \/ ~exists /\ rec' = [rec EXCEPT !.database = file] /\ Goes("prepare_vault")
     \/ Throws /\ UNCHANGED rec
  /\ Reads /\ Still /\ UNCHANGED <<gate, store, unrecorded>>

PublishVault ==
  /\ Committing("prepare_vault")
  /\ \/ rec' = [rec EXCEPT !.vault = store] /\ Goes("prepare_journal")
     \/ Throws /\ rec' = EmptyDirectory
  /\ Reads /\ Still /\ UNCHANGED <<gate, store, unrecorded>>

writeJournal ==
  /\ Committing("prepare_journal")
  /\ \/ /\ rec' = [rec EXCEPT !.journal = "snapshot_ready", !.op = com.op]
        /\ com' = [com EXCEPT !.step = "snapshot_ready", !.snapshot = TRUE]
     \/ Throws /\ rec' = EmptyDirectory
  /\ Reads /\ Still /\ UNCHANGED <<gate, store, unrecorded>>

\* advanceState from the phase the commit expects to the next one.
AdvanceState(step, from, to, next) ==
  /\ Committing(step)
  /\ \/ conn.phase = from /\ conn.op = com.op /\ Writes([conn EXCEPT !.phase = to]) /\ Goes(next)
     \/ Throws /\ Reads
  /\ Still /\ UNCHANGED <<gate, store, rec, unrecorded>>

\* vault.replaceRestore or replaceEmpty: done, refused, or done with its reply lost.
ReplaceVault ==
  /\ Committing("vault")
  /\ \/ /\ store' = com.op
        /\ com' = [com EXCEPT !.step = "journal_vault", !.vault = TRUE]
        /\ UNCHANGED unrecorded
     \/ UNCHANGED <<store, unrecorded>> /\ Throws
     \/ store' = com.op /\ unrecorded' = TRUE /\ Throws
  /\ Reads /\ Still /\ UNCHANGED <<gate, rec>>

validPhaseTransition(from, to) ==
  <<from, to>> \in {<<"snapshot_ready", "vault_applied">>, <<"vault_applied", "database_committed">>,
    <<"database_committed", "health_passed">>, <<"database_committed", "rolled_back">>,
    <<"vault_applied", "rolled_back">>}

\* recovery.advance.  When the record of the replaced vault cannot be written,
\* nothing in the directory tells of it.
Advance(step, to, next) ==
  /\ Committing(step)
  /\ \/ /\ rec.op = com.op /\ validPhaseTransition(rec.journal, to)
        /\ rec' = [rec EXCEPT !.journal = to]
        /\ Goes(next) /\ UNCHANGED unrecorded
     \/ Throws /\ unrecorded' = (unrecorded \/ to = "vault_applied") /\ UNCHANGED rec
  /\ Reads /\ Still /\ UNCHANGED <<gate, store>>

verifyClaim == conn.phase = "vault_applied" /\ conn.op = com.op /\ conn.preview = "claimed"

\* insertPortable: every table of the configuration holds the archive's rows.
insertPortable(op) == Database(op, "database_committed", op, "completed")

\* RestoreReplacementRepository.replace, one transaction.
replace ==
  /\ Committing("replace")
  /\ \/ /\ verifyClaim
        /\ Writes(insertPortable(com.op))
        /\ com' = [com EXCEPT !.step = "journal_database", !.database = TRUE]
     \/ Throws /\ Reads
  /\ Still /\ UNCHANGED <<gate, store, rec, unrecorded>>

health ==
  /\ Committing("health")
  /\ \/ Goes("phase_health") \/ Throws
  /\ Reads /\ Still /\ UNCHANGED <<gate, store, rec, unrecorded>>

\* remove(), one unlink at a time: the journal, the database, the vault archive.
Removed(d) ==
  IF d.journal # "none" THEN [d EXCEPT !.journal = "none", !.op = 0]
  ELSE IF d.database # NoFile THEN [d EXCEPT !.database = NoFile]
  ELSE EmptyDirectory

RemoveSnapshot ==
  /\ Committing("remove")
  /\ \/ exists /\ rec' = Removed(rec) /\ UNCHANGED com
     \/ ~exists /\ UNCHANGED rec /\ Goes("clear")
     \/ Throws /\ UNCHANGED rec
  /\ Reads /\ Still /\ UNCHANGED <<gate, store, unrecorded>>

\* clearState; the finally block of commit() opens the gate.
ClearState ==
  /\ Committing("clear")
  /\ \/ /\ conn.phase = "health_passed" /\ conn.op = com.op
        /\ Writes([conn EXCEPT !.phase = "inactive", !.op = 0])
        /\ com' = NoCommit /\ gate' = "open"
     \/ Throws /\ Reads /\ UNCHANGED gate
  /\ Still /\ UNCHANGED <<store, rec, unrecorded>>

-----------------------------------------------------------------------------
(***************************************************************************)
(* The catch block.  Whatever it does, the gate is opened at the end.      *)
(***************************************************************************)
\* finalizePreview, refused quietly when the preview is not claimed any more.
FinalizedPreview(row) ==
  IF com.claimed /\ ~com.database /\ row.preview = "claimed" THEN [row EXCEPT !.preview = "failed"] ELSE row

\* A variant of Ends: a failed commit keeps the gate excluded.
EndsExcluded == com' = NoCommit /\ UNCHANGED gate

Ends == com' = NoCommit /\ gate' = "open"

\* A variant of RollsBack: only a commit that changed the database is undone.
RollsBackCommitted == com.database

RollsBack == com.vault

CatchRollsBack ==
  /\ Committing("catch") /\ RollsBack
  /\ Goes("rollback")
  /\ Reads /\ Still /\ UNCHANGED <<gate, store, rec, unrecorded>>

\* Before the vault was replaced, as far as commit() knows: the snapshot is
\* removed, and the state marked rolled back and cleared.
CatchClears ==
  /\ Committing("catch") /\ ~RollsBack
  /\ IF com.entered
     THEN \/ /\ rec' = IF com.snapshot THEN EmptyDirectory ELSE rec
             /\ Writes([FinalizedPreview(conn) EXCEPT !.phase = "inactive", !.op = 0])
          \/ UNCHANGED rec /\ Reads                         \* rollback_failed
     ELSE Writes(FinalizedPreview(conn)) /\ UNCHANGED rec
  /\ Ends
  /\ Still /\ UNCHANGED <<store, unrecorded>>

\* rollback() needs a journal of this operation that records a mutation.
Rollable(op) == rec.op = op /\ rec.journal \in Recorded /\ ~rec.expired

\* importRecovery; its reply may be lost too.
ImportRecovery ==
  /\ Committing("rollback")
  /\ \/ Rollable(com.op) /\ store' = rec.vault /\ Goes("rollback_file") /\ UNCHANGED gate
     \/ UNCHANGED store /\ Ends                             \* rollback_failed
     \/ Rollable(com.op) /\ store' = rec.vault /\ Ends      \* rollback_failed
  /\ Reads /\ Still /\ UNCHANGED <<rec, unrecorded>>

\* The snapshot is renamed over the file; the connection stays on the old one.
RenameSnapshot ==
  /\ Committing("rollback_file")
  /\ \/ file' = rec.database /\ attached' = FALSE /\ Goes("rollback_journal") /\ UNCHANGED gate
     \/ Ends /\ UNCHANGED <<file, attached>>                \* rollback_failed
  /\ UNCHANGED <<conn, proc, commits, stops, store, rec, unrecorded>>

JournalRolledBack ==
  /\ Committing("rollback_journal")
  /\ \/ /\ rec' = [rec EXCEPT !.journal = "rolled_back"]
        /\ Writes(FinalizedPreview(conn))
     \/ UNCHANGED rec /\ Reads                              \* rollback_failed
  /\ Ends
  /\ Still /\ UNCHANGED <<store, unrecorded>>

-----------------------------------------------------------------------------
(***************************************************************************)
(* The process stops, and starts again through resume().                   *)
(***************************************************************************)
Stop ==
  /\ proc \in {"up", "starting"} /\ stops < MaxStops
  /\ stops' = stops + 1
  /\ proc' = "down" /\ gate' = "open" /\ com' = NoCommit
  /\ unrecorded' = (unrecorded \/ (com.vault /\ rec.journal = "snapshot_ready"))
  /\ UNCHANGED <<store, file, conn, attached, rec, commits>>

Start ==
  /\ proc = "down"
  /\ proc' = "starting"
  /\ UNCHANGED <<gate, com, store, file, conn, attached, rec, commits, stops, unrecorded>>

\* readJournal and validateJournal: within its time, with its MAC and both artifacts.
Readable == rec.journal # "none" /\ ~rec.expired

\* Artifacts without a journal, or an expired one, stop the start.
ResumeRefused ==
  /\ proc = "starting" /\ exists /\ ~Readable
  /\ proc' = "refused"
  /\ UNCHANGED <<gate, com, store, file, conn, attached, rec, commits, stops, unrecorded>>

Resuming == proc = "starting" /\ Readable

Discards(phase) == phase \in {"snapshot_ready", "health_passed", "rolled_back"}

\* No live mutation was recorded, or nothing is left to undo.
ResumeDiscards ==
  /\ Resuming /\ Discards(rec.journal)
  /\ rec' = EmptyDirectory
  /\ proc' = "up" /\ conn' = file /\ attached' = TRUE
  /\ UNCHANGED <<gate, com, store, file, commits, stops, unrecorded>>

\* The rollback of a recorded mutation, before the database is opened; it can
\* fail or stop after each of its three steps, and is repeated by the next start.
ResumeImports ==
  /\ Resuming /\ ~Discards(rec.journal) /\ store # rec.vault
  /\ store' = rec.vault
  /\ UNCHANGED <<proc, gate, com, file, conn, attached, rec, commits, stops, unrecorded>>

ResumeRenames ==
  /\ Resuming /\ ~Discards(rec.journal) /\ store = rec.vault /\ file # rec.database
  /\ file' = rec.database
  /\ UNCHANGED <<proc, gate, com, store, conn, attached, rec, commits, stops, unrecorded>>

ResumeRolledBack ==
  /\ Resuming /\ ~Discards(rec.journal) /\ store = rec.vault /\ file = rec.database
  /\ rec' = [rec EXCEPT !.journal = "rolled_back"]
  /\ proc' = "up" /\ conn' = file /\ attached' = TRUE
  /\ UNCHANGED <<gate, com, store, file, commits, stops, unrecorded>>

ResumeNothing ==
  /\ proc = "starting" /\ ~exists
  /\ proc' = "up" /\ conn' = file /\ attached' = TRUE
  /\ UNCHANGED <<gate, com, store, file, rec, commits, stops, unrecorded>>

\* RECOVERY_TTL_MS passes.
JournalExpires ==
  /\ rec.journal # "none" /\ ~rec.expired
  /\ rec' = [rec EXCEPT !.expired = TRUE]
  /\ UNCHANGED <<proc, gate, com, store, file, conn, attached, commits, stops, unrecorded>>

-----------------------------------------------------------------------------
Fresh == Database(0, "inactive", 0, "none")

Init ==
  /\ proc = "up" /\ gate = "open" /\ com = NoCommit
  /\ store = 0 /\ file = Fresh /\ conn = Fresh /\ attached = TRUE
  /\ rec = EmptyDirectory
  /\ commits = 0 /\ stops = 0 /\ unrecorded = FALSE

CommitStep ==
  \/ claimPreview \/ enterMaintenance
  \/ PublishDatabase \/ PublishVault \/ writeJournal
  \/ AdvanceState("snapshot_ready", "maintenance", "snapshot_ready", "vault")
  \/ ReplaceVault
  \/ Advance("journal_vault", "vault_applied", "phase_vault")
  \/ AdvanceState("phase_vault", "snapshot_ready", "vault_applied", "replace")
  \/ replace
  \/ Advance("journal_database", "database_committed", "health")
  \/ health
  \/ AdvanceState("phase_health", "database_committed", "health_passed", "journal_health")
  \/ Advance("journal_health", "health_passed", "remove")
  \/ RemoveSnapshot \/ ClearState
  \/ CatchRollsBack \/ CatchClears \/ ImportRecovery \/ RenameSnapshot \/ JournalRolledBack

StartStep ==
  Start \/ ResumeRefused \/ ResumeDiscards \/ ResumeImports \/ ResumeRenames \/ ResumeRolledBack
  \/ ResumeNothing

Next == CommitStep \/ StartStep \/ Stop \/ JournalExpires

Spec == Init /\ [][Next]_restoreVars /\ WF_restoreVars(CommitStep) /\ WF_restoreVars(StartStep)

-----------------------------------------------------------------------------
TypeOK ==
  /\ proc \in {"up", "down", "starting", "refused"} /\ gate \in {"open", "excluded"}
  /\ store \in 0..MaxCommits /\ file.data \in 0..MaxCommits
  /\ rec.journal \in Recorded \cup {"none", "snapshot_ready", "health_passed", "rolled_back"}
  /\ attached => conn = file \/ proc # "up"

(***************************************************************************)
(* Wherever a commit fails or the process stops, once ordinary work is     *)
(* admitted the vault and the database file belong to the same             *)
(* configuration, or the directory still has the journal and the snapshot  *)
(* of both that the next start puts back.  The exception is a vault        *)
(* replaced without a record of it (unrecorded).                           *)
(***************************************************************************)
AgreeOrRecoverable ==
  /\ TypeOK
  /\ proc = "up" /\ gate = "open" /\ ~unrecorded =>
       \/ store = file.data
       \/ rec.journal \in Recorded /\ rec.vault = rec.database.data

(***************************************************************************)
(* A start that has rolled back has put both stores back to the snapshot,  *)
(* and a start never goes on while the vault and the file differ, unless   *)
(* the vault was replaced without a record.                                *)
(***************************************************************************)
StartsOnOneConfiguration ==
  [][proc # "up" /\ proc' = "up" /\ ~unrecorded => store' = file'.data /\ conn' = file']_restoreVars

UnderWay == com.step # "none" \/ proc = "starting"
Settled == com.step = "none" /\ gate = "open" /\ proc # "starting"

=============================================================================
