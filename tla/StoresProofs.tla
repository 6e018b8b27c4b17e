---------------------------- MODULE StoresProofs ----------------------------
(***************************************************************************)
(* Proofs about the components of MCStores other than the coordinator, for *)
(* all values of its constants.  Each has an inductive invariant of its    *)
(* own; the last section carries them over to the composition.             *)
(*                                                                         *)
(* Files (VaultStore): every step of the files is a step of the map in     *)
(* VaultRecords or leaves it alone, and the store is coherent.  FilesIInv  *)
(* says what the operation under way implies (OpOK), which of the          *)
(* directory and the one set aside is the map (PlaceOK), what the          *)
(* temporaries are (TempsOK), and how the three copies of the map relate   *)
(* (CopiesOK): what was synced is, locator by locator, what was last       *)
(* answered for or what the map is now, and the two are the same whenever  *)
(* the store is between two operations.                                    *)
(*                                                                         *)
(* Rotation (RootRotation): an interrupted rotation loses no root, serves  *)
(* no record under another root than its own, and resumes.  RotationIInv   *)
(* says of every phase of the journal where the three key files are and by *)
(* which root the records are wrapped (FilesOK), which is all that a later *)
(* start has to go on, and of every step of the process which phases it    *)
(* may be in (RotationStepOK).                                             *)
(*                                                                         *)
(* Commit (Restore): whatever fails and wherever the process stops, vault  *)
(* and database belong to one configuration or the journal has what puts   *)
(* them back.  CommitIInv has, besides the types, a part about what the    *)
(* journal vouches for (DirectoryOK), one about the process and its        *)
(* connection (ProcessOK), one about the locals of a commit (LocalsOK) and *)
(* one that says for each step of a commit how the two stores and the      *)
(* journal stand (CommitStepOK).                                           *)
(*                                                                         *)
(* Projection (AuditProjection): each request is counted once.             *)
(* ProjectionIInv adds to the property what the job will not count again   *)
(* because the ledger has it or its time is out of the retention, and that *)
(* the ledger has no old event the cursor is still to pass (LedgerOK).     *)
(***************************************************************************)
EXTENDS MCStores, FiniteSetTheorems, TLAPS

-----------------------------------------------------------------------------
(* Files: the record store.                                                 *)

\* The cardinality that Files counts its records with.
LEMMA FilesCardinality == ASSUME NEW S PROVE Files!Cardinality(S) = Cardinality(S)
BY DEF Files!Cardinality, Cardinality

\* What the theorems assume of the constants: the locators are the names in one
\* directory, and records are written, so there is a first generation.
FilesBounds ==
  /\ IsFiniteSet(Locators)
  /\ MaxGeneration \in Nat \ {0} /\ MaxStoppages \in Nat

Writes == [kind : {"create", "replace"}, loc : Locators, rec : Files!Contents,
           at : {"written", "placed", "synced", "unsynced", "refused"}]
Deletes == [kind : {"delete"}, loc : Locators, rec : Files!Contents,
            at : {"placed", "synced", "unsynced"}]
Restores == [kind : {"restore"}, content : Files!Maps, at : {"staged", "out", "in", "undo"}]

\* An operation runs in a process that answers; a record about to be placed has
\* the generation that follows the one it replaces.
OpOK ==
  /\ op \in {Files!Idle} \cup Writes \cup Deletes \cup Restores
  /\ op # Files!Idle => store.status = "ready"
  /\ op \in Writes /\ op.at = "written" =>
       IF op.kind = "create" THEN op.rec.generation = 1
       ELSE /\ file[op.loc] # Files!NoRecord
            /\ op.rec.generation = file[op.loc].generation + 1

\* The directory is missing only within a swap or until the next start, and then
\* the one set aside is the map.
PlaceOK ==
  /\ ~there => /\ file = Files!Empty /\ aside \in Files!Maps
               /\ Files!Swapping \/ store.status = "down"
  /\ Files!Swapping => aside \in Files!Maps
  /\ Files!Swapping /\ op.at \in {"out", "undo"} => ~there
  /\ Files!Swapping /\ op.at = "in" => there

\* In a process that answers only the write under way has a temporary; after a
\* stop a temporary with two links is a record; a store refuses over such a one.
TempsOK ==
  /\ store.status = "ready" => \A t \in temps : op \in Writes /\ t.loc = op.loc
  /\ store.status = "down" =>
       \A t \in temps : t.linked => there /\ file[t.loc] = t.rec
  /\ store.status = "degraded" =>
       there /\ \E t \in temps : t.linked /\ file[t.loc] = t.rec

\* The synced map is the answered one, except between a sync and its answer, and
\* after a stop the map found is locator by locator of one of the two.
CopiesOK ==
  /\ store.status = "ready" =>
       IF op # Files!Idle /\ op.at = "synced" THEN synced = file ELSE synced = acked
  /\ \A l \in Locators : synced[l] \in {acked[l], Files!Visible[l]}

FilesIInv == Files!TypeOK /\ OpOK /\ PlaceOK /\ TempsOK /\ CopiesOK

-----------------------------------------------------------------------------
(* Lemmas about the data.                                                  *)

\* The empty map is a map, and so is one with a locator changed.
LEMMA MapEdits ==
  /\ Files!Empty \in Files!Maps
  /\ \A m \in Files!Maps, l \in Locators, r \in Files!Contents \cup {Files!NoRecord} :
       [m EXCEPT ![l] = r] \in Files!Maps
BY DEF Files!Empty, Files!Maps

\* No record is a record.
LEMMA NoRecordIsNone == Files!NoRecord \notin Files!Contents
BY DEF Files!NoRecord, Files!Contents

\* A map that is no map is the only one: there is nothing to keep records under.
LEMMA OnlyMap ==
  ASSUME NEW m \in Files!Maps, NEW n \in Files!Maps, m = Files!NoMap
  PROVE  n = m
<1>1. DOMAIN m = {}
  BY DEF Files!NoMap
<1>2. DOMAIN m = Locators /\ DOMAIN n = Locators
  BY DEF Files!Maps
<1> QED
  BY <1>1, <1>2 DEF Files!Maps

\* What is in the past of two maps is a map and is, locator by locator, one of
\* the two.
LEMMA BetweenMaps ==
  ASSUME NEW old \in Files!Maps, NEW new \in Files!Maps, NEW m \in Files!Between(old, new)
  PROVE  m \in Files!Maps /\ \A l \in Locators : m[l] \in {old[l], new[l]}
BY DEF Files!Between

\* The records of a map can be counted.
LEMMA StoredCountable ==
  ASSUME FilesBounds, NEW m \in Files!Maps
  PROVE  Cardinality(Files!Stored(m)) \in Int
<1>1. IsFiniteSet(Files!Stored(m))
  <2>1. Files!Stored(m) \subseteq Locators
    BY DEF Files!Stored
  <2> QED
    BY <2>1, FS_Subset DEF FilesBounds
<1> QED
  BY <1>1, FS_CardinalityType

\* The step an operation has reached tells what kind of operation it is.
LEMMA OpKinds ==
  ASSUME OpOK, op # Files!Idle
  PROVE  /\ op.at \in {"written", "refused"} => op \in Writes
         /\ op.at \in {"placed", "synced", "unsynced"} => op \in Writes \cup Deletes
         /\ op.at \in {"staged", "out", "in", "undo"} => op \in Restores
         /\ op \in Writes \cup Deletes => ~Files!Swapping
         /\ op \in Writes => op \notin Deletes \cup Restores
         /\ op \in Deletes => op \notin Restores
BY DEF OpOK, Writes, Deletes, Restores, Files!Swapping

\* No operation is under way that is one of these.
LEMMA IdleIsNone ==
  Files!Idle \notin Writes /\ Files!Idle \notin Deletes /\ Files!Idle \notin Restores
BY DEF Files!Idle, Writes, Deletes, Restores

-----------------------------------------------------------------------------
(* The invariant: initially, and each step.                                *)

\* A fault leaves their number within its bound.
LEMMA FaultsCounted ==
  ASSUME FilesBounds, Files!TypeOK, Files!Fails \/ stoppages' = stoppages
  PROVE  stoppages' \in 0 .. MaxStoppages
BY DEF FilesBounds, Files!TypeOK, Files!Fails

\* A temporary that was just written.
LEMMA WrittenTyped ==
  \A l \in Locators, r \in Files!Contents :
    [loc |-> l, rec |-> r, linked |-> FALSE]
      \in [loc : Locators, rec : Files!Contents, linked : BOOLEAN]
OBVIOUS

\* A write or a deletion begins.
LEMMA CreateKeeps == ASSUME FilesBounds, FilesIInv, Files!create PROVE FilesIInv'
<1>1. PICK l \in Locators, b \in Bodies :
        /\ Files!assertReady
        /\ Files!WriteTemporary("create", l, [generation |-> 1, body |-> b])
  BY DEF Files!create
<1> DEFINE r == [generation |-> 1, body |-> b]
<1>2. r \in Files!Contents /\ r.generation = 1
  BY DEF FilesBounds, Files!Contents
<1> HIDE DEF r
<1>3. /\ store.status = "ready" /\ op = Files!Idle
      /\ temps' = temps \cup {[loc |-> l, rec |-> r, linked |-> FALSE]}
      /\ op' = [kind |-> "create", loc |-> l, rec |-> r, at |-> "written"]
      /\ UNCHANGED <<file, there, synced, aside, store, acked, stoppages>>
  BY <1>1 DEF Files!assertReady, Files!WriteTemporary, r
<1>4. Files!TypeOK'
  BY <1>2, <1>3, WrittenTyped DEF FilesIInv, Files!TypeOK
<1>5. op' \in Writes /\ op' # Files!Idle
  BY <1>2, <1>3 DEF Writes, Files!Idle
<1>6. OpOK'
  BY <1>2, <1>3, <1>5 DEF FilesIInv, OpOK
<1>7. ~Files!Swapping /\ ~Files!Swapping'
  BY <1>3 DEF Files!Swapping
<1>8. PlaceOK'
  BY <1>3, <1>7 DEF FilesIInv, PlaceOK
<1>9. TempsOK'
  BY <1>3, <1>5, IdleIsNone DEF FilesIInv, TempsOK
<1>10. CopiesOK'
  BY <1>3 DEF FilesIInv, CopiesOK, Files!Visible
<1> QED
  BY <1>4, <1>6, <1>8, <1>9, <1>10 DEF FilesIInv

LEMMA ReplaceKeeps == ASSUME FilesBounds, FilesIInv, Files!replace PROVE FilesIInv'
<1>1. PICK l \in Locators, b \in Bodies :
        /\ Files!assertReady
        /\ Files!readAndDecrypt(l)
        /\ file[l].generation < MaxGeneration
        /\ Files!WriteTemporary("replace", l,
                          [generation |-> file[l].generation + 1, body |-> b])
  BY DEF Files!replace
<1> DEFINE r == [generation |-> file[l].generation + 1, body |-> b]
<1>2. file[l] # Files!NoRecord /\ file[l] \in Files!Contents
  BY <1>1 DEF Files!readAndDecrypt, FilesIInv, Files!TypeOK, Files!Maps
<1>3. r \in Files!Contents /\ r.generation = file[l].generation + 1
  BY <1>1, <1>2 DEF FilesBounds, Files!Contents
<1> HIDE DEF r
<1>4. /\ store.status = "ready" /\ op = Files!Idle
      /\ temps' = temps \cup {[loc |-> l, rec |-> r, linked |-> FALSE]}
      /\ op' = [kind |-> "replace", loc |-> l, rec |-> r, at |-> "written"]
      /\ UNCHANGED <<file, there, synced, aside, store, acked, stoppages>>
  BY <1>1 DEF Files!assertReady, Files!WriteTemporary, r
<1>5. Files!TypeOK'
  BY <1>3, <1>4, WrittenTyped DEF FilesIInv, Files!TypeOK
<1>6. op' \in Writes /\ op' # Files!Idle
  BY <1>3, <1>4 DEF Writes, Files!Idle
<1>7. OpOK'
  BY <1>2, <1>3, <1>4, <1>6 DEF FilesIInv, OpOK
<1>8. ~Files!Swapping /\ ~Files!Swapping'
  BY <1>4 DEF Files!Swapping
<1>9. PlaceOK'
  BY <1>4, <1>8 DEF FilesIInv, PlaceOK
<1>10. TempsOK'
  BY <1>4, <1>6, IdleIsNone DEF FilesIInv, TempsOK
<1>11. CopiesOK'
  BY <1>4 DEF FilesIInv, CopiesOK, Files!Visible
<1> QED
  BY <1>5, <1>7, <1>9, <1>10, <1>11 DEF FilesIInv

\* A process that answers, between operations or in one on records, has its
\* directory.
LEMMA ReadyIsThere ==
  ASSUME FilesIInv, store.status = "ready", ~Files!Swapping
  PROVE  there
BY DEF FilesIInv, PlaceOK

LEMMA DeleteKeeps == ASSUME FilesBounds, FilesIInv, Files!delete PROVE FilesIInv'
<1>1. PICK l \in Locators :
        /\ Files!assertReady
        /\ Files!readAndDecrypt(l)
        /\ file' = [file EXCEPT ![l] = Files!NoRecord]
        /\ op' = [kind |-> "delete", loc |-> l, rec |-> file[l], at |-> "placed"]
        /\ UNCHANGED <<there, temps, synced, aside, store, acked, stoppages>>
  BY DEF Files!delete
<1>2. file[l] \in Files!Contents /\ store.status = "ready" /\ op = Files!Idle
  BY <1>1 DEF Files!assertReady, Files!readAndDecrypt, FilesIInv, Files!TypeOK, Files!Maps
<1>3. file' \in Files!Maps
  BY <1>1, MapEdits DEF FilesIInv, Files!TypeOK
<1>4. Files!TypeOK'
  BY <1>1, <1>3 DEF FilesIInv, Files!TypeOK
<1>5. op' \in Deletes /\ op' # Files!Idle /\ op' \notin Writes
  BY <1>1, <1>2 DEF Deletes, Writes, Files!Idle
<1>6. OpOK'
  BY <1>1, <1>2, <1>5 DEF FilesIInv, OpOK
<1>7. ~Files!Swapping /\ ~Files!Swapping'
  BY <1>1, <1>2 DEF Files!Swapping
<1>8. there
  BY <1>2, <1>7, ReadyIsThere
<1>9. PlaceOK'
  BY <1>1, <1>7, <1>8 DEF FilesIInv, PlaceOK
<1>10. TempsOK'
  BY <1>1, <1>2, IdleIsNone DEF FilesIInv, TempsOK
<1>11. synced = acked
  BY <1>2 DEF FilesIInv, CopiesOK
<1>12. CopiesOK'
  BY <1>1, <1>11 DEF CopiesOK, FilesIInv, Files!TypeOK
<1> QED
  BY <1>4, <1>6, <1>9, <1>10, <1>12 DEF FilesIInv

\* The record is put in its place, or not.
LEMMA TempsPlacedTyped ==
  ASSUME Files!TypeOK, NEW o
  PROVE  Files!TempsPlaced(o) \in SUBSET [loc : Locators, rec : Files!Contents, linked : BOOLEAN]
<1> DEFINE Temp == [loc : Locators, rec : Files!Contents, linked : BOOLEAN]
<1>1. \A t \in Temp : [t EXCEPT !.linked = TRUE] \in Temp
  OBVIOUS
<1>2. temps \subseteq Temp
  BY DEF Files!TypeOK
<1> HIDE DEF Temp
<1>3. \A t \in temps :
        (IF t.loc = o.loc THEN [t EXCEPT !.linked = TRUE] ELSE t) \in Temp
  BY <1>1, <1>2
<1>4. Files!TempsPlaced(o) \subseteq Temp
  <2>1. ASSUME NEW u \in Files!TempsPlaced(o)
        PROVE  u \in Temp
    <3>1. PICK t \in IF o.kind = "create" THEN temps
                     ELSE {v \in temps : v.loc # o.loc} :
            u = IF t.loc = o.loc THEN [t EXCEPT !.linked = TRUE] ELSE t
      BY <2>1 DEF Files!TempsPlaced
    <3>2. t \in temps
      BY <3>1
    <3> QED
      BY <1>3, <3>1, <3>2
  <2> QED
    BY <2>1
<1> QED
  BY <1>4 DEF Temp

LEMMA TempsPlacedOnes ==
  ASSUME NEW o, NEW u \in Files!TempsPlaced(o), Files!TypeOK
  PROVE  \E t \in temps : t.loc = u.loc
<1>1. PICK t \in IF o.kind = "create" THEN temps
                 ELSE {v \in temps : v.loc # o.loc} :
        u = IF t.loc = o.loc THEN [t EXCEPT !.linked = TRUE] ELSE t
  BY DEF Files!TempsPlaced
<1>2. t \in temps /\ t \in [loc : Locators, rec : Files!Contents, linked : BOOLEAN]
  BY <1>1 DEF Files!TypeOK
<1>3. u.loc = t.loc
  BY <1>1, <1>2
<1> QED
  BY <1>2, <1>3

LEMMA CommitPlaceKeeps == ASSUME FilesBounds, FilesIInv, Files!commitPlace PROVE FilesIInv'
<1>1. op \in Writes /\ op \notin Deletes \cup Restores /\ ~Files!Swapping
  BY OpKinds DEF Files!commitPlace, FilesIInv
<1>2. store.status = "ready" /\ there /\ UNCHANGED <<there, synced, aside, store, acked>>
  BY <1>1, ReadyIsThere DEF Files!commitPlace, FilesIInv, OpOK
<1>3. synced = acked
  BY <1>2 DEF Files!commitPlace, FilesIInv, CopiesOK
<1>4. stoppages' \in 0 .. MaxStoppages
  BY FaultsCounted DEF Files!commitPlace, FilesIInv
<1>5. op.loc \in Locators /\ op.rec \in Files!Contents
  BY <1>1 DEF Writes
<1>6. CASE /\ Files!Placeable(op)
           /\ file' = [file EXCEPT ![op.loc] = op.rec]
           /\ temps' = Files!TempsPlaced(op)
           /\ op' = [op EXCEPT !.at = "placed"]
  <2>1. file' \in Files!Maps
    BY <1>5, <1>6, MapEdits DEF FilesIInv, Files!TypeOK
  <2>2. Files!TypeOK'
    BY <1>2, <1>4, <1>6, <2>1, TempsPlacedTyped DEF FilesIInv, Files!TypeOK
  <2>3. op' \in Writes /\ op'.at = "placed" /\ op'.loc = op.loc
    BY <1>1, <1>6 DEF Writes
  <2>4. op' # Files!Idle /\ ~Files!Swapping'
    BY <2>3, IdleIsNone DEF Files!Swapping
  <2>5. OpOK'
    BY <1>2, <2>3, <2>4 DEF OpOK
  <2>6. PlaceOK'
    BY <1>2, <2>4 DEF PlaceOK
  <2>7. TempsOK'
    <3>1. ASSUME NEW u \in temps'
          PROVE  u.loc = op'.loc
      <4>1. PICK t \in temps : t.loc = u.loc
        BY <1>6, <3>1, TempsPlacedOnes DEF FilesIInv
      <4> QED
        BY <1>2, <2>3, <4>1 DEF FilesIInv, TempsOK
    <3> QED
      BY <1>2, <2>3, <3>1 DEF TempsOK
  <2>8. CopiesOK'
    BY <1>2, <1>3, <2>3 DEF CopiesOK
  <2> QED
    BY <2>2, <2>5, <2>6, <2>7, <2>8 DEF FilesIInv
<1>7. CASE op' = [op EXCEPT !.at = "refused"] /\ UNCHANGED <<file, temps>>
  <2>1. op' \in Writes /\ op'.at = "refused" /\ op'.loc = op.loc
    BY <1>1, <1>7 DEF Writes
  <2>2. op' # Files!Idle /\ ~Files!Swapping'
    BY <2>1, IdleIsNone DEF Files!Swapping
  <2>3. Files!TypeOK'
    BY <1>2, <1>4, <1>7 DEF FilesIInv, Files!TypeOK
  <2>4. OpOK'
    BY <1>2, <2>1, <2>2 DEF OpOK
  <2>5. PlaceOK'
    BY <1>2, <2>2 DEF PlaceOK
  <2>6. TempsOK'
    BY <1>2, <1>7, <2>1 DEF FilesIInv, TempsOK
  <2>7. CopiesOK'
    BY <1>2, <1>3, <2>1 DEF CopiesOK
  <2> QED
    BY <2>3, <2>4, <2>5, <2>6, <2>7 DEF FilesIInv
<1> QED
  BY <1>6, <1>7 DEF Files!commitPlace

LEMMA CommitSyncKeeps == ASSUME FilesBounds, FilesIInv, Files!commitSync PROVE FilesIInv'
<1>1. op \in Writes \cup Deletes /\ op \notin Restores /\ ~Files!Swapping /\ op.at = "placed"
  BY OpKinds DEF Files!commitSync, FilesIInv
<1>2. /\ store.status = "ready" /\ there
      /\ UNCHANGED <<file, there, temps, aside, store, acked>>
  BY <1>1, ReadyIsThere DEF Files!commitSync, FilesIInv, OpOK
<1>3. synced = acked
  BY <1>1, <1>2 DEF FilesIInv, CopiesOK
<1>4. stoppages' \in 0 .. MaxStoppages
  BY FaultsCounted DEF Files!commitSync, FilesIInv
<1>5. \/ synced' = file /\ op' = [op EXCEPT !.at = "synced"]
      \/ synced' = synced /\ op' = [op EXCEPT !.at = "unsynced"]
  BY DEF Files!commitSync, Files!fsyncDirectory
<1>6. Files!TypeOK'
  BY <1>2, <1>4, <1>5 DEF FilesIInv, Files!TypeOK
<1>7. /\ op' \in Writes \cup Deletes /\ (op \in Writes => op' \in Writes)
      /\ op'.loc = op.loc /\ op'.at \in {"synced", "unsynced"}
      /\ synced' # synced => op'.at = "synced"
  BY <1>1, <1>5 DEF Writes, Deletes
<1>8. op' # Files!Idle /\ ~Files!Swapping'
  BY <1>7, IdleIsNone DEF Files!Swapping
<1>9. OpOK'
  BY <1>2, <1>7, <1>8 DEF OpOK
<1>10. PlaceOK'
  BY <1>2, <1>8 DEF PlaceOK
<1>11. TempsOK'
  BY <1>2, <1>7 DEF FilesIInv, TempsOK
<1>12. CopiesOK'
  <2>1. IF op'.at = "synced" THEN synced' = file' ELSE synced' = acked'
    BY <1>1, <1>2, <1>3, <1>5, <1>7 DEF Writes, Deletes
  <2>2. synced' = acked' \/ synced' = Files!Visible'
    BY <1>2, <2>1 DEF Files!Visible
  <2> QED
    BY <1>8, <2>1, <2>2 DEF CopiesOK
<1> QED
  BY <1>6, <1>9, <1>10, <1>11, <1>12 DEF FilesIInv

LEMMA CommitDoneKeeps == ASSUME FilesBounds, FilesIInv, Files!commitDone PROVE FilesIInv'
<1>1. op \in Writes \cup Deletes /\ ~Files!Swapping
  BY OpKinds DEF Files!commitDone, FilesIInv
<1>2. /\ store.status = "ready" /\ there /\ op' = Files!Idle /\ temps' = Files!Cleaned(op)
      /\ UNCHANGED <<file, there, synced, aside, stoppages>>
  BY <1>1, ReadyIsThere DEF Files!commitDone, FilesIInv, OpOK
<1>3. temps' = {}
  BY <1>1, <1>2 DEF Files!Cleaned, FilesIInv, TempsOK
<1>4. ~Files!Swapping'
  BY <1>2 DEF Files!Swapping
<1>5. Files!Counted(op) \in Int
  BY DEF Files!Counted, FilesIInv, Files!TypeOK
<1>6. store' \in [status : Files!Statuses, count : Int] /\ store'.status = "ready"
  BY <1>2, <1>5 DEF Files!commitDone, FilesIInv, Files!TypeOK
<1>7. acked' \in Files!Maps
  BY DEF Files!commitDone, FilesIInv, Files!TypeOK
<1>8. Files!TypeOK'
  BY <1>2, <1>3, <1>6, <1>7 DEF FilesIInv, Files!TypeOK
<1>9. OpOK'
  BY <1>2, IdleIsNone DEF OpOK
<1>10. PlaceOK'
  BY <1>2, <1>4 DEF PlaceOK
<1>11. TempsOK'
  BY <1>3, <1>6 DEF TempsOK
<1>12. synced' = acked'
  BY <1>2 DEF Files!commitDone, FilesIInv, CopiesOK
<1>13. CopiesOK'
  BY <1>2, <1>12 DEF CopiesOK
<1> QED
  BY <1>8, <1>9, <1>10, <1>11, <1>13 DEF FilesIInv

\* The whole store is replaced.
LEMMA ArchivesAreMaps == ASSUME NEW m \in Files!Archives PROVE m \in Files!Maps
BY MapEdits DEF Files!Archives

LEMMA BeginRestoreKeeps == ASSUME FilesBounds, FilesIInv, Files!beginRestore PROVE FilesIInv'
<1>1. PICK m \in Files!Archives :
        /\ Files!assertReady
        /\ op' = [kind |-> "restore", content |-> m, at |-> "staged"]
        /\ UNCHANGED <<file, there, temps, synced, aside, store, acked, stoppages>>
  BY DEF Files!beginRestore
<1>2. m \in Files!Maps /\ store.status = "ready" /\ op = Files!Idle
  BY <1>1, ArchivesAreMaps DEF Files!assertReady
<1>3. op' \in Restores /\ op' # Files!Idle /\ op'.at = "staged" /\ op' \notin Writes
  BY <1>1, <1>2 DEF Restores, Writes, Files!Idle
<1>4. ~Files!Swapping /\ ~Files!Swapping'
  BY <1>2, <1>3 DEF Files!Swapping
<1>5. Files!TypeOK'
  BY <1>1 DEF FilesIInv, Files!TypeOK
<1>6. OpOK'
  BY <1>1, <1>2, <1>3 DEF OpOK
<1>7. PlaceOK'
  BY <1>1, <1>4 DEF FilesIInv, PlaceOK
<1>8. TempsOK'
  BY <1>1, <1>2, IdleIsNone DEF FilesIInv, TempsOK
<1>9. CopiesOK'
  BY <1>1, <1>2, <1>3 DEF FilesIInv, CopiesOK, Files!Visible
<1> QED
  BY <1>5, <1>6, <1>7, <1>8, <1>9 DEF FilesIInv

\* What holds at a step of a replacement.
LEMMA Replacing ==
  ASSUME FilesIInv, op # Files!Idle, op.at \in {"staged", "out", "in", "undo"}
  PROVE  /\ op \in Restores /\ op \notin Writes
         /\ store.status = "ready" /\ synced = acked /\ temps = {}
         /\ op.at = "staged" => ~Files!Swapping /\ there
         /\ op.at # "staged" => Files!Swapping /\ aside \in Files!Maps
         /\ op.at \in {"out", "undo"} => ~there /\ file = Files!Empty
         /\ op.at = "in" => there
<1>1. op \in Restores /\ op \notin Writes /\ store.status = "ready"
  BY OpKinds DEF FilesIInv, OpOK
<1>2. synced = acked /\ temps = {}
  BY <1>1 DEF FilesIInv, CopiesOK, TempsOK
<1>3. op.at = "staged" => ~Files!Swapping /\ there
  BY <1>1, ReadyIsThere DEF Files!Swapping
<1>4. op.at # "staged" => Files!Swapping /\ aside \in Files!Maps
  BY DEF Files!Swapping, FilesIInv, PlaceOK
<1> QED
  BY <1>1, <1>2, <1>3, <1>4 DEF FilesIInv, PlaceOK

LEMMA AbortRestoreKeeps == ASSUME FilesBounds, FilesIInv, Files!abortRestore PROVE FilesIInv'
<1>1. /\ store.status = "ready" /\ synced = acked /\ temps = {} /\ there /\ ~Files!Swapping
      /\ op' = Files!Idle
      /\ UNCHANGED <<file, there, temps, synced, aside, store, acked, stoppages>>
  BY Replacing DEF Files!abortRestore
<1>2. ~Files!Swapping'
  BY <1>1 DEF Files!Swapping
<1>3. Files!TypeOK'
  BY <1>1 DEF FilesIInv, Files!TypeOK
<1>4. OpOK'
  BY <1>1, IdleIsNone DEF OpOK
<1>5. PlaceOK'
  BY <1>1, <1>2 DEF PlaceOK
<1>6. TempsOK'
  BY <1>1 DEF TempsOK
<1>7. CopiesOK'
  BY <1>1 DEF CopiesOK
<1> QED
  BY <1>3, <1>4, <1>5, <1>6, <1>7 DEF FilesIInv

LEMMA SwapOutKeeps == ASSUME FilesBounds, FilesIInv, Files!swapOut PROVE FilesIInv'
<1>1. /\ op \in Restores /\ store.status = "ready" /\ synced = acked /\ temps = {}
      /\ file \in Files!Maps /\ aside' = file /\ file' = Files!Empty /\ there' = FALSE
      /\ op' = [op EXCEPT !.at = "out"]
      /\ UNCHANGED <<temps, synced, store, acked, stoppages>>
  BY Replacing DEF Files!swapOut, FilesIInv, Files!TypeOK
<1>2. op' \in Restores /\ op'.at = "out" /\ op' # Files!Idle /\ op' \notin Writes /\ Files!Swapping'
  BY <1>1 DEF Restores, Writes, Files!Idle, Files!Swapping
<1>3. Files!TypeOK'
  BY <1>1, MapEdits DEF FilesIInv, Files!TypeOK
<1>4. OpOK'
  BY <1>1, <1>2 DEF OpOK
<1>5. PlaceOK'
  BY <1>1, <1>2 DEF PlaceOK
<1>6. TempsOK'
  BY <1>1 DEF TempsOK
<1>7. CopiesOK'
  BY <1>1, <1>2 DEF CopiesOK
<1> QED
  BY <1>3, <1>4, <1>5, <1>6, <1>7 DEF FilesIInv

LEMMA SwapInKeeps == ASSUME FilesBounds, FilesIInv, Files!swapIn PROVE FilesIInv'
<1>1. /\ op \in Restores /\ store.status = "ready" /\ synced = acked /\ temps = {}
      /\ aside \in Files!Maps /\ ~there /\ file = Files!Empty
      /\ UNCHANGED <<temps, synced, aside, store, acked>>
  BY Replacing DEF Files!swapIn
<1>2. stoppages' \in 0 .. MaxStoppages
  BY FaultsCounted DEF Files!swapIn, FilesIInv
<1>3. op.content \in Files!Maps
  BY <1>1 DEF Restores
<1>4. \/ file' = op.content /\ there' = TRUE /\ op' = [op EXCEPT !.at = "in"]
      \/ op' = [op EXCEPT !.at = "undo"] /\ UNCHANGED <<file, there>>
  BY DEF Files!swapIn
<1>5. op' \in Restores /\ op'.at \in {"in", "undo"} /\ (op'.at = "in" <=> there')
  BY <1>1, <1>4 DEF Restores
<1>6. op' # Files!Idle /\ op' \notin Writes /\ Files!Swapping'
  BY <1>5 DEF Restores, Writes, Files!Idle, Files!Swapping
<1>7. Files!TypeOK'
  BY <1>1, <1>2, <1>3, <1>4 DEF FilesIInv, Files!TypeOK
<1>8. OpOK'
  BY <1>1, <1>5, <1>6 DEF OpOK
<1>9. PlaceOK'
  BY <1>1, <1>4, <1>5, <1>6 DEF PlaceOK
<1>10. TempsOK'
  BY <1>1 DEF TempsOK
<1>11. CopiesOK'
  BY <1>1, <1>5 DEF CopiesOK
<1> QED
  BY <1>7, <1>8, <1>9, <1>10, <1>11 DEF FilesIInv

LEMMA SwapSyncKeeps == ASSUME FilesBounds, FilesIInv, Files!swapSync PROVE FilesIInv'
<1>1. /\ op \in Restores /\ store.status = "ready" /\ synced = acked /\ temps = {}
      /\ aside \in Files!Maps /\ there /\ temps' = temps
  BY Replacing DEF Files!swapSync
<1>2. stoppages' \in 0 .. MaxStoppages
  BY FaultsCounted DEF Files!swapSync, FilesIInv
<1>3. CASE /\ synced' = file /\ acked' = file
           /\ store' = [store EXCEPT !.count = Cardinality(Files!Stored(op.content))]
           /\ op' = Files!Idle /\ aside' = Files!NoMap
           /\ UNCHANGED <<file, there, stoppages>>
  <2>1. Cardinality(Files!Stored(op.content)) \in Int
    BY <1>1, StoredCountable DEF Restores
  <2>2. Files!TypeOK'
    BY <1>1, <1>3, <2>1 DEF FilesIInv, Files!TypeOK
  <2>3. ~Files!Swapping' /\ store'.status = "ready"
    BY <1>1, <1>3 DEF Files!Swapping, FilesIInv, Files!TypeOK
  <2>4. OpOK'
    BY <1>3, IdleIsNone DEF OpOK
  <2>5. PlaceOK'
    BY <1>1, <1>3, <2>3 DEF PlaceOK
  <2>6. TempsOK'
    BY <1>1, <2>3 DEF TempsOK
  <2>7. CopiesOK'
    BY <1>3 DEF CopiesOK
  <2> QED
    BY <2>2, <2>4, <2>5, <2>6, <2>7 DEF FilesIInv
<1>4. CASE /\ file' = Files!Empty /\ there' = FALSE
           /\ op' = [op EXCEPT !.at = "undo"]
           /\ UNCHANGED <<synced, acked, store, aside>>
  <2>1. op' \in Restores /\ op'.at = "undo" /\ op' # Files!Idle /\ op' \notin Writes /\ Files!Swapping'
    BY <1>1, <1>4 DEF Restores, Writes, Files!Idle, Files!Swapping
  <2>2. Files!TypeOK'
    BY <1>1, <1>2, <1>4, MapEdits DEF FilesIInv, Files!TypeOK
  <2>3. OpOK'
    BY <1>1, <1>4, <2>1 DEF OpOK
  <2>4. PlaceOK'
    BY <1>1, <1>4, <2>1 DEF PlaceOK
  <2>5. TempsOK'
    BY <1>1, <1>4 DEF TempsOK
  <2>6. CopiesOK'
    BY <1>1, <1>4, <2>1 DEF CopiesOK
  <2> QED
    BY <2>2, <2>3, <2>4, <2>5, <2>6 DEF FilesIInv
<1> QED
  BY <1>3, <1>4, FilesCardinality DEF Files!swapSync

LEMMA SwapUndoKeeps == ASSUME FilesBounds, FilesIInv, Files!swapUndo PROVE FilesIInv'
<1>1. /\ store.status = "ready" /\ synced = acked /\ temps = {} /\ aside \in Files!Maps
      /\ file' = aside /\ there' = TRUE /\ aside' = Files!NoMap /\ op' = Files!Idle
      /\ UNCHANGED <<temps, synced, store, acked, stoppages>>
  BY Replacing DEF Files!swapUndo
<1>2. ~Files!Swapping'
  BY <1>1 DEF Files!Swapping
<1>3. Files!TypeOK'
  BY <1>1 DEF FilesIInv, Files!TypeOK
<1>4. OpOK'
  BY <1>1, IdleIsNone DEF OpOK
<1>5. PlaceOK'
  BY <1>1, <1>2 DEF PlaceOK
<1>6. TempsOK'
  BY <1>1 DEF TempsOK
<1>7. CopiesOK'
  BY <1>1 DEF CopiesOK
<1> QED
  BY <1>3, <1>4, <1>5, <1>6, <1>7 DEF FilesIInv

\* A stop leaves temporaries of their shape; those with two links are records.
LEMMA LeavesTyped ==
  ASSUME Files!TypeOK, NEW f \in Files!Maps, NEW d \in BOOLEAN, NEW a,
         NEW ts \in SUBSET temps, Files!Leaves(f, d, a, ts)
  PROVE  /\ temps' \in SUBSET [loc : Locators, rec : Files!Contents, linked : BOOLEAN]
         /\ \A t \in temps' : t.linked => f[t.loc] = t.rec
<1> DEFINE Temp == [loc : Locators, rec : Files!Contents, linked : BOOLEAN]
<1>1. ASSUME NEW u \in temps'
      PROVE  u \in Temp /\ (u.linked => f[u.loc] = u.rec)
  <2>1. PICK t \in ts : u = [t EXCEPT !.linked = @ /\ f[t.loc] = t.rec]
    BY <1>1 DEF Files!Leaves
  <2>2. t \in Temp
    BY DEF Files!TypeOK
  <2> DEFINE b == t.linked /\ f[t.loc] = t.rec
  <2>3. b \in BOOLEAN /\ (b => f[t.loc] = t.rec)
    BY <2>2
  <2>4. u = [t EXCEPT !.linked = b]
    BY <2>1
  <2> HIDE DEF b
  <2>5. u \in Temp /\ u.loc = t.loc /\ u.rec = t.rec /\ u.linked = b
    BY <2>2, <2>3, <2>4
  <2> QED
    BY <2>3, <2>5
<1> QED
  BY <1>1

LEMMA FilesStopKeeps == ASSUME FilesBounds, FilesIInv, Files!Stop PROVE FilesIInv'
<1>1. /\ store.status # "down" /\ store' = [status |-> "down", count |-> 0]
      /\ op' = Files!Idle /\ UNCHANGED <<synced, acked>>
      /\ stoppages' \in 0 .. MaxStoppages
  BY DEF Files!Stop, FilesIInv, Files!TypeOK, FilesBounds
<1>2. ~Files!Swapping' /\ store'.status = "down"
  BY <1>1 DEF Files!Swapping
<1>3. \A l \in Locators : synced[l] \in {acked[l], Files!Visible[l]}
  BY DEF FilesIInv, CopiesOK
<1>4. SUFFICES ASSUME NEW f \in Files!Maps, NEW d \in BOOLEAN, NEW a \in Files!Maps \cup {Files!NoMap},
                      NEW ts \in SUBSET temps, Files!Leaves(f, d, a, ts),
                      ~d => f = Files!Empty /\ a \in Files!Maps,
                      \A l \in Locators :
                        synced[l] \in {acked[l], (IF d THEN f ELSE a)[l]}
               PROVE  FilesIInv'
  <2>1. /\ file \in Files!Maps /\ there \in BOOLEAN /\ aside \in Files!Maps \cup {Files!NoMap}
        /\ temps \in SUBSET temps /\ synced \in Files!Maps
        /\ ~there => file = Files!Empty /\ aside \in Files!Maps
    BY DEF FilesIInv, Files!TypeOK, PlaceOK
  <2>2. CASE Files!Leaves(file, there, aside, temps)
    BY <1>3, <1>4, <2>1, <2>2 DEF Files!Visible
  <2>3. CASE /\ ~Files!Swapping /\ there
             /\ \E f \in Files!Between(synced, file), ts \in SUBSET temps :
                  Files!Leaves(f, TRUE, aside, ts)
    <3>1. PICK f \in Files!Between(synced, file), ts \in SUBSET temps :
            Files!Leaves(f, TRUE, aside, ts)
      BY <2>3
    <3>2. f \in Files!Maps /\ \A l \in Locators : f[l] \in {synced[l], file[l]}
      BY <2>1, <3>1, BetweenMaps
    <3>3. \A l \in Locators : synced[l] \in {acked[l], f[l]}
      BY <1>3, <2>3, <3>2 DEF Files!Visible
    <3> QED
      BY <1>4, <2>1, <3>1, <3>2, <3>3
  <2>4. CASE /\ Files!Swapping \/ ~there
             /\ \E old \in Files!Between(synced, aside) :
                  \/ Files!Leaves(old, TRUE, Files!NoMap, temps)
                  \/ Files!Leaves(Files!Empty, FALSE, old, temps)
    <3>1. Files!Swapping /\ synced = acked /\ aside \in Files!Maps
      BY <1>1, <2>4, Replacing DEF FilesIInv, PlaceOK, Files!Swapping
    <3>2. PICK old \in Files!Between(synced, aside) :
            Files!Leaves(old, TRUE, Files!NoMap, temps) \/ Files!Leaves(Files!Empty, FALSE, old, temps)
      BY <2>4
    <3>3. old \in Files!Maps
      BY <2>1, <3>1, <3>2, BetweenMaps
    <3> QED
      BY <1>4, <2>1, <3>1, <3>2, <3>3, MapEdits
  <2>5. CASE Files!Swapping /\ op.at = "in" /\ Files!Leaves(file, TRUE, aside, temps)
    <3>1. there
      BY <2>5 DEF FilesIInv, PlaceOK
    <3> QED
      BY <1>3, <1>4, <2>1, <2>5, <3>1 DEF Files!Visible
  <2> QED
    BY <2>2, <2>3, <2>4, <2>5 DEF Files!Stop, Files!LosesUnsynced
<1>5. /\ file' = f /\ there' = d /\ aside' = a
      /\ temps' \in SUBSET [loc : Locators, rec : Files!Contents, linked : BOOLEAN]
      /\ \A t \in temps' : t.linked => f[t.loc] = t.rec
  BY <1>4, LeavesTyped DEF Files!Leaves, FilesIInv
<1>6. Files!TypeOK'
  BY <1>1, <1>5 DEF FilesIInv, Files!TypeOK, Files!Statuses
<1>7. OpOK'
  BY <1>1, IdleIsNone DEF OpOK
<1>8. PlaceOK'
  BY <1>2, <1>4, <1>5 DEF PlaceOK
<1>9. TempsOK'
  <2>1. ASSUME NEW t \in temps', t.linked
        PROVE  there'
    <3>1. f[t.loc] = t.rec /\ t.rec \in Files!Contents /\ t.loc \in Locators
      BY <1>5, <2>1
    <3> QED
      BY <1>4, <1>5, <3>1, NoRecordIsNone DEF Files!Empty
  <2> QED
    BY <1>2, <1>5, <2>1 DEF TempsOK
<1>10. CopiesOK'
  BY <1>1, <1>2, <1>4, <1>5 DEF CopiesOK, Files!Visible
<1> QED
  BY <1>6, <1>7, <1>8, <1>9, <1>10 DEF FilesIInv

LEMMA InitializeKeeps == ASSUME FilesBounds, FilesIInv, Files!initialize PROVE FilesIInv'
<1>1. /\ store.status = "down" /\ there' = TRUE /\ aside' = Files!NoMap
      /\ op = Files!Idle /\ op' = Files!Idle
      /\ UNCHANGED <<file, op, stoppages>>
  BY DEF Files!initialize, FilesIInv, OpOK
<1>2. ~Files!Swapping /\ ~Files!Swapping'
  BY <1>1 DEF Files!Swapping
<1>3. OpOK'
  BY <1>1, IdleIsNone DEF OpOK
<1>4. PlaceOK'
  BY <1>1, <1>2 DEF PlaceOK
<1>5. CASE /\ \E t \in temps : t.linked
           /\ \E gone \in SUBSET {t \in temps : ~t.linked} : temps' = temps \ gone
           /\ store' = [status |-> "degraded", count |-> 0]
           /\ UNCHANGED <<synced, acked>>
  <2>1. PICK t \in temps : t.linked
    BY <1>5
  <2>2. t \in temps' /\ there /\ file[t.loc] = t.rec
    BY <1>1, <1>5, <2>1 DEF FilesIInv, TempsOK
  <2>3. Files!TypeOK'
    BY <1>1, <1>5 DEF FilesIInv, Files!TypeOK, Files!Statuses
  <2>4. store'.status = "degraded"
    BY <1>5
  <2>5. TempsOK'
    BY <1>1, <2>1, <2>2, <2>4 DEF TempsOK
  <2>6. CopiesOK'
    BY <1>1, <1>5, <2>2, <2>4 DEF FilesIInv, CopiesOK, Files!Visible
  <2> QED
    BY <1>3, <1>4, <2>3, <2>5, <2>6 DEF FilesIInv
<1>6. CASE /\ \A t \in temps : ~t.linked
           /\ temps' = {}
           /\ store' = [status |-> "ready", count |-> Cardinality(Files!Stored(file))]
           /\ synced' = file
           /\ acked' = file
  <2>1. Cardinality(Files!Stored(file)) \in Int
    BY StoredCountable DEF FilesIInv, Files!TypeOK
  <2>2. Files!TypeOK'
    BY <1>1, <1>6, <2>1 DEF FilesIInv, Files!TypeOK, Files!Statuses
  <2>3. store'.status = "ready"
    BY <1>6
  <2>4. TempsOK'
    BY <1>6, <2>3 DEF TempsOK
  <2>5. CopiesOK'
    BY <1>1, <1>6 DEF CopiesOK
  <2> QED
    BY <1>3, <1>4, <2>2, <2>4, <2>5 DEF FilesIInv
<1> QED
  BY <1>5, <1>6, FilesCardinality DEF Files!initialize

\* The component without its fairness.
FilesSafety == Files!Init /\ [][Files!Next]_(Files!storeVars)

\* The invariant is inductive.
LEMMA FilesInitHolds == ASSUME FilesBounds, Files!Init PROVE FilesIInv
<1>1. Files!TypeOK
  BY MapEdits DEF Files!Init, Files!TypeOK, FilesBounds, Files!Statuses
<1>2. ~Files!Swapping /\ OpOK /\ PlaceOK
  BY IdleIsNone DEF Files!Init, Files!Swapping, OpOK, PlaceOK
<1>3. TempsOK /\ CopiesOK
  BY DEF Files!Init, TempsOK, CopiesOK
<1> QED
  BY <1>1, <1>2, <1>3 DEF FilesIInv

LEMMA StepKeeps == ASSUME FilesBounds, FilesIInv, [Files!Next]_(Files!storeVars) PROVE FilesIInv'
<1>1. CASE Files!StoreStep
  BY <1>1, CreateKeeps, ReplaceKeeps, DeleteKeeps, CommitPlaceKeeps, CommitSyncKeeps,
     CommitDoneKeeps, BeginRestoreKeeps, AbortRestoreKeeps, SwapOutKeeps, SwapInKeeps,
     SwapSyncKeeps, SwapUndoKeeps, InitializeKeeps DEF Files!StoreStep
<1>2. CASE UNCHANGED Files!storeVars
  BY <1>2 DEF Files!storeVars, FilesIInv, Files!TypeOK, OpOK, PlaceOK, TempsOK, CopiesOK,
       Files!Swapping, Files!Visible
<1> QED
  BY <1>1, <1>2, FilesStopKeeps DEF Files!Next

\* Everything the proofs below rest on holds in every state.
THEOREM StoreInductive == ASSUME FilesBounds PROVE FilesSafety => []FilesIInv
<1>1. Files!Init => FilesIInv
  BY FilesInitHolds
<1>2. FilesIInv /\ [Files!Next]_(Files!storeVars) => FilesIInv'
  BY StepKeeps
<1> QED
  BY <1>1, <1>2, PTL DEF FilesSafety

\* A store that answers between two operations has its directory and no
\* temporary, and it refuses to start only over a record that a create had linked
\* without removing its temporary name (recordStore.ts #commit, #initialize,
\* beginRestore).
THEOREM StoreStaysCoherent == ASSUME FilesBounds PROVE FilesSafety => []Files!StoreCoherent
<1>1. FilesIInv => Files!StoreCoherent
  <2>1. ASSUME FilesIInv, store.status = "ready", op = Files!Idle
        PROVE  there /\ temps = {}
    BY <2>1, IdleIsNone, ReadyIsThere DEF FilesIInv, TempsOK, Files!Swapping
  <2> QED
    BY <2>1 DEF FilesIInv, TempsOK, Files!StoreCoherent
<1> QED
  BY <1>1, StoreInductive, PTL

-----------------------------------------------------------------------------
(* The files implement the map: each step, under the refinement mapping.   *)

RecordsStep == [Files!Records!RecordsNext]_(Files!Records!recordsVars)

\* The constants the map is instantiated with are those of the files.
LEMMA SameMaps ==
  /\ Files!Records!Maps = Files!Maps /\ Files!Records!Empty = Files!Empty /\ Files!Records!NoMap = Files!NoMap
  /\ \A m, n \in Files!Maps : Files!Records!Between(m, n) = Files!Between(m, n)
BY DEF Files!Records!Maps, Files!Records!Empty, Files!Records!NoMap, Files!Records!Between,
     Files!Maps, Files!Empty, Files!NoMap,
       Files!Between

\* Outside a swap the directory is the map, and no replacement is under way.
LEMMA SeenOutside ==
  ASSUME there, ~Files!Swapping
  PROVE  Files!Visible = file /\ Files!Displaced = Files!NoMap
BY DEF Files!Visible, Files!Displaced

\* The map is what the directory holds, or what was set aside.
LEMMA VisibleIsMap == ASSUME FilesIInv PROVE Files!Visible \in Files!Maps
BY DEF FilesIInv, Files!TypeOK, PlaceOK, Files!Visible

\* A step that changes neither directory, place nor status is no step of the map.
LEMMA Stutters ==
  ASSUME FilesIInv, UNCHANGED <<file, there, aside, acked>>, store'.status = store.status,
         Files!Swapping' <=> Files!Swapping
  PROVE  RecordsStep
BY DEF Files!Visible, Files!Displaced, RecordsStep, Files!Records!recordsVars

\* Within a write or a deletion.
LEMMA Writing ==
  ASSUME FilesIInv, op # Files!Idle, op.at \in {"written", "placed", "synced", "unsynced", "refused"}
  PROVE  /\ op \in Writes \cup Deletes /\ ~Files!Swapping /\ there /\ store.status = "ready"
         /\ op.at = "written" => op \in Writes
<1>1. op \in Writes \cup Deletes /\ ~Files!Swapping /\ store.status = "ready"
  BY OpKinds DEF FilesIInv, OpOK
<1> QED
  BY <1>1, OpKinds, ReadyIsThere DEF FilesIInv

\* A step to an operation that is no swap, or to none.
LEMMA NoSwapNext ==
  ASSUME op' = Files!Idle \/ op'.at \in {"written", "placed", "synced", "unsynced",
                                         "refused", "staged"}
  PROVE  ~Files!Swapping'
BY DEF Files!Swapping

\* Beginning a write, a deletion or a restore.
LEMMA BeginsStutter ==
  ASSUME FilesIInv, Files!create \/ Files!replace \/ Files!beginRestore \/ Files!abortRestore
  PROVE  RecordsStep
<1>1. UNCHANGED <<file, there, aside, acked, store>>
  BY DEF Files!create, Files!replace, Files!beginRestore, Files!abortRestore,
       Files!WriteTemporary
<1>2. ~Files!Swapping
  <2>1. CASE Files!abortRestore
    BY <2>1 DEF Files!abortRestore, Files!Swapping
  <2>2. CASE Files!create \/ Files!replace \/ Files!beginRestore
    BY <2>2 DEF Files!create, Files!replace, Files!beginRestore, Files!assertReady,
         Files!Swapping
  <2> QED
    BY <2>1, <2>2
<1>3. ~Files!Swapping'
  BY NoSwapNext DEF Files!create, Files!replace, Files!beginRestore, Files!abortRestore,
       Files!WriteTemporary
<1> QED
  BY <1>1, <1>2, <1>3, Stutters

\* A deletion removes one record.
LEMMA DeleteChanges == ASSUME FilesIInv, Files!delete PROVE RecordsStep
<1>1. PICK l \in Locators :
        /\ Files!assertReady
        /\ file' = [file EXCEPT ![l] = Files!NoRecord]
        /\ op' = [kind |-> "delete", loc |-> l, rec |-> file[l], at |-> "placed"]
        /\ UNCHANGED <<there, temps, synced, aside, store, acked, stoppages>>
  BY DEF Files!delete
<1>2. ~Files!Swapping /\ ~Files!Swapping' /\ store.status = "ready" /\ there
  BY <1>1, ReadyIsThere, NoSwapNext DEF Files!assertReady, Files!Swapping
<1>3. /\ Files!Visible = file /\ Files!Displaced = Files!NoMap /\ Files!Visible' = file' /\ Files!Displaced' = Files!NoMap
      /\ UNCHANGED <<acked, store>>
  BY <1>1, <1>2 DEF Files!Visible, Files!Displaced
<1>4. Files!Records!Change
  BY <1>1, <1>2, <1>3, SameMaps DEF Files!Records!Change
<1> QED
  BY <1>4 DEF RecordsStep, Files!Records!RecordsNext

\* A record put in its place is the next generation of its locator.
LEMMA CommitPlaceChanges == ASSUME FilesIInv, Files!commitPlace PROVE RecordsStep
<1>1. op \in Writes /\ ~Files!Swapping /\ there /\ store.status = "ready" /\ op.at = "written"
  BY Writing DEF Files!commitPlace
<1>2. UNCHANGED <<there, aside, store, acked>>
  BY DEF Files!commitPlace
<1>3. op'.at \in {"placed", "refused"}
  BY <1>1 DEF Files!commitPlace, Writes
<1>4. ~Files!Swapping'
  BY <1>3, NoSwapNext
<1>5. CASE Files!Placeable(op) /\ file' = [file EXCEPT ![op.loc] = op.rec]
  <2>1. /\ Files!Visible = file /\ Files!Displaced = Files!NoMap /\ Files!Visible' = file' /\ Files!Displaced' = Files!NoMap
    BY <1>1, <1>2, <1>4 DEF Files!Visible, Files!Displaced
  <2>2. op.loc \in Locators /\ op.rec \in Files!Contents
    BY <1>1 DEF Writes
  <2>3. op.rec.generation =
          IF file[op.loc] = Files!NoRecord THEN 1 ELSE file[op.loc].generation + 1
    BY <1>1, <1>5 DEF FilesIInv, OpOK, Files!Placeable, Writes
  <2>4. op.rec.generation = Files!Records!NextGeneration(op.loc)
    BY <2>1, <2>3 DEF Files!Records!NextGeneration
  <2>5. Files!Records!Change
    BY <1>1, <1>2, <1>5, <2>1, <2>2, <2>4, SameMaps DEF Files!Records!Change
  <2> QED
    BY <2>5 DEF RecordsStep, Files!Records!RecordsNext
<1>6. CASE UNCHANGED file
  BY <1>1, <1>2, <1>4, <1>6, Stutters
<1> QED
  BY <1>5, <1>6 DEF Files!commitPlace

\* A sync shows nothing.
LEMMA CommitSyncStutters == ASSUME FilesIInv, Files!commitSync PROVE RecordsStep
<1>1. op \in Writes \cup Deletes /\ ~Files!Swapping
  BY Writing DEF Files!commitSync
<1>2. op'.at \in {"synced", "unsynced"}
  BY <1>1 DEF Files!commitSync, Writes, Deletes
<1>3. ~Files!Swapping'
  BY <1>2, NoSwapNext
<1>4. UNCHANGED <<file, there, aside, store, acked>>
  BY DEF Files!commitSync
<1> QED
  BY <1>1, <1>3, <1>4, Stutters

\* An operation that was synced is answered for, any other is not.
LEMMA CommitDoneAnswers == ASSUME FilesIInv, Files!commitDone PROVE RecordsStep
<1>1. ~Files!Swapping /\ there /\ store.status = "ready"
  BY Writing DEF Files!commitDone
<1>2. op' = Files!Idle /\ UNCHANGED <<file, there, aside>>
  BY DEF Files!commitDone
<1>3. ~Files!Swapping'
  BY <1>2, NoSwapNext
<1>4. /\ Files!Visible = file /\ Files!Displaced = Files!NoMap /\ Files!Visible' = file' /\ Files!Displaced' = Files!NoMap
  BY <1>1, <1>2, <1>3 DEF Files!Visible, Files!Displaced
<1>5. store'.status = store.status
  <2> DEFINE n == Files!Counted(op)
  <2>1. store' = [store EXCEPT !.count = n] \/ store' = store
    BY DEF Files!commitDone
  <2> HIDE DEF n
  <2> QED
    BY <2>1 DEF FilesIInv, Files!TypeOK
<1>6. CASE acked' = file
  <2>1. Files!Records!Answer
    BY <1>1, <1>2, <1>4, <1>5, <1>6, SameMaps DEF Files!Records!Answer
  <2> QED
    BY <2>1 DEF RecordsStep, Files!Records!RecordsNext
<1>7. CASE acked' = acked
  BY <1>1, <1>2, <1>3, <1>5, <1>7, Stutters
<1> QED
  BY <1>6, <1>7 DEF Files!commitDone

\* A directory set aside is the map that a restore displaces.
LEMMA SwapOutDisplaces == ASSUME FilesIInv, Files!swapOut PROVE RecordsStep
<1>1. /\ op \in Restores /\ store.status = "ready" /\ there /\ ~Files!Swapping
      /\ aside' = file /\ file' = Files!Empty /\ there' = FALSE
      /\ UNCHANGED <<acked, store>>
  BY Replacing DEF Files!swapOut
<1>2. Files!Visible = file /\ Files!Displaced = Files!NoMap /\ Files!Visible' = file /\ Files!Displaced' = file
  BY <1>1 DEF Files!Visible, Files!Displaced
<1>3. Files!Records!ReplaceBegins
  BY <1>1, <1>2, SameMaps DEF Files!Records!ReplaceBegins
<1> QED
  BY <1>3 DEF RecordsStep, Files!Records!RecordsNext

\* The staged directory takes its place.
LEMMA SwapInReplaces == ASSUME FilesIInv, Files!swapIn PROVE RecordsStep
<1>1. /\ op \in Restores /\ store.status = "ready" /\ ~there /\ Files!Swapping
      /\ aside \in Files!Maps /\ UNCHANGED <<aside, acked, store>>
  BY Replacing DEF Files!swapIn
<1>2. Files!Visible = aside /\ Files!Displaced = aside
  BY <1>1 DEF Files!Visible, Files!Displaced
<1>3. CASE file' = op.content /\ there' = TRUE /\ op' = [op EXCEPT !.at = "in"]
  <2>1. op' # Files!Idle /\ op'.at = "in" /\ op.content \in Files!Maps
    BY <1>1, <1>3 DEF Restores, Files!Idle
  <2>2. Files!Visible' = op.content /\ Files!Displaced' = aside
    BY <1>1, <1>3, <2>1 DEF Files!Visible, Files!Displaced, Files!Swapping
  <2>3. CASE aside = Files!NoMap
    <3>1. Files!Visible' = Files!Visible
      BY <1>1, <1>2, <2>1, <2>2, <2>3, OnlyMap
    <3> QED
      BY <1>1, <1>2, <2>2, <3>1 DEF RecordsStep, Files!Records!recordsVars
  <2>4. CASE aside # Files!NoMap
    <3>1. Files!Records!ReplaceTakesEffect
      BY <1>1, <1>2, <2>1, <2>2, <2>4, SameMaps DEF Files!Records!ReplaceTakesEffect
    <3> QED
      BY <3>1 DEF RecordsStep, Files!Records!RecordsNext
  <2> QED
    BY <2>3, <2>4
<1>4. CASE op' = [op EXCEPT !.at = "undo"] /\ UNCHANGED <<file, there>>
  <2>1. op' # Files!Idle /\ op'.at = "undo"
    BY <1>1, <1>4 DEF Restores, Files!Idle
  <2>2. Files!Swapping'
    BY <2>1 DEF Files!Swapping
  <2> QED
    BY <1>1, <1>4, <2>2, Stutters
<1> QED
  BY <1>3, <1>4 DEF Files!swapIn

\* The replacement is answered for, or taken back.
LEMMA SwapSyncAnswers == ASSUME FilesIInv, Files!swapSync PROVE RecordsStep
<1>1. /\ op \in Restores /\ store.status = "ready" /\ there /\ Files!Swapping
      /\ aside \in Files!Maps /\ file \in Files!Maps
  BY Replacing DEF Files!swapSync, FilesIInv, Files!TypeOK
<1>2. Files!Visible = file /\ Files!Displaced = aside
  BY <1>1 DEF Files!Visible, Files!Displaced
<1>3. CASE /\ acked' = file
           /\ store' = [store EXCEPT !.count = Cardinality(Files!Stored(op.content))]
           /\ op' = Files!Idle
           /\ UNCHANGED <<file, there, stoppages>>
  <2> DEFINE n == Cardinality(Files!Stored(op.content))
  <2>1. store' = [store EXCEPT !.count = n]
    BY <1>3
  <2> HIDE DEF n
  <2>2. store'.status = store.status
    BY <2>1 DEF FilesIInv, Files!TypeOK
  <2>3. ~Files!Swapping'
    BY <1>3, NoSwapNext
  <2>4. Files!Visible' = file /\ Files!Displaced' = Files!NoMap
    BY <1>1, <1>3, <2>3 DEF Files!Visible, Files!Displaced
  <2>5. Files!Records!Answer
    BY <1>1, <1>2, <1>3, <2>2, <2>4, SameMaps DEF Files!Records!Answer
  <2> QED
    BY <2>5 DEF RecordsStep, Files!Records!RecordsNext
<1>4. CASE /\ file' = Files!Empty /\ there' = FALSE
           /\ op' = [op EXCEPT !.at = "undo"]
           /\ UNCHANGED <<synced, acked, store, aside>>
  <2>1. Files!Visible' = aside /\ Files!Displaced' = aside
    BY <1>4 DEF Files!Visible, Files!Displaced
  <2>2. CASE aside = Files!NoMap
    <3>1. file = aside
      BY <1>1, <2>2, OnlyMap
    <3> QED
      BY <1>2, <1>4, <2>1, <3>1 DEF RecordsStep, Files!Records!recordsVars
  <2>3. CASE aside # Files!NoMap
    <3>1. Files!Records!ReplaceUndone
      BY <1>1, <1>2, <1>4, <2>1, <2>3, SameMaps DEF Files!Records!ReplaceUndone
    <3> QED
      BY <3>1 DEF RecordsStep, Files!Records!RecordsNext
  <2> QED
    BY <2>2, <2>3
<1> QED
  BY <1>3, <1>4, FilesCardinality DEF Files!swapSync

LEMMA SwapUndoRestores == ASSUME FilesIInv, Files!swapUndo PROVE RecordsStep
<1>1. /\ op \in Restores /\ store.status = "ready" /\ ~there /\ Files!Swapping
      /\ aside \in Files!Maps /\ file' = aside /\ there' = TRUE /\ op' = Files!Idle
      /\ UNCHANGED <<acked, store>>
  BY Replacing DEF Files!swapUndo
<1>2. ~Files!Swapping'
  BY <1>1, NoSwapNext
<1>3. Files!Visible = aside /\ Files!Displaced = aside /\ Files!Visible' = aside /\ Files!Displaced' = Files!NoMap
  BY <1>1, <1>2 DEF Files!Visible, Files!Displaced
<1>4. CASE aside = Files!NoMap
  BY <1>1, <1>3, <1>4 DEF RecordsStep, Files!Records!recordsVars
<1>5. CASE aside # Files!NoMap
  <2>1. Files!Records!ReplaceUndone
    BY <1>1, <1>3, <1>5, SameMaps DEF Files!Records!ReplaceUndone
  <2> QED
    BY <2>1 DEF RecordsStep, Files!Records!RecordsNext
<1> QED
  BY <1>4, <1>5

\* What a stop may leave of two maps when what was synced was answered for, or is
\* what one of them holds.
LEMMA LostIsUnanswered ==
  ASSUME Files!TypeOK, NEW new \in Files!Maps, NEW m \in Files!Between(synced, new),
         \A l \in Locators : synced[l] \in {acked[l], new[l]}
  PROVE  m \in Files!Between(acked, new)
<1>1. m \in Files!Maps /\ \A l \in Locators : m[l] \in {synced[l], new[l]}
  BY BetweenMaps DEF Files!TypeOK
<1>2. \A l \in Locators : m[l] \in {acked[l], new[l]}
  BY <1>1
<1> QED
  BY <1>1, <1>2 DEF Files!Between

\* A stop leaves a map between the answered one and the present or the displaced
\* one.
LEMMA StopLoses == ASSUME FilesIInv, Files!Stop PROVE RecordsStep
<1>1. /\ op' = Files!Idle /\ store'.status = "down" /\ UNCHANGED acked /\ store.status # "down"
  BY DEF Files!Stop
<1>2. ~Files!Swapping' /\ Files!Visible \in Files!Maps /\ acked \in Files!Maps
  BY <1>1, NoSwapNext, VisibleIsMap DEF FilesIInv, Files!TypeOK
<1>3. ASSUME NEW m \in Files!Maps, Files!Visible' = m, Files!Displaced' \in {Files!Displaced, m, Files!NoMap},
             \/ m \in Files!Between(acked, Files!Visible)
             \/ Files!Displaced \in Files!Maps /\ m \in Files!Between(acked, Files!Displaced)
      PROVE  RecordsStep
  <2>1. \/ m \in Files!Between(acked, Files!Visible)
        \/ Files!Displaced \in Files!Maps /\ Files!Displaced # Files!NoMap /\ m \in Files!Between(acked, Files!Displaced)
    <3>1. CASE Files!Displaced \in Files!Maps /\ Files!Displaced = Files!NoMap
      BY <1>2, <1>3, <3>1, OnlyMap
    <3> QED
      BY <1>3, <3>1
  <2>2. Files!Records!Stops
    BY <1>1, <1>2, <1>3, <2>1, SameMaps DEF Files!Records!Stops
  <2> QED
    BY <2>2 DEF RecordsStep, Files!Records!RecordsNext
<1>4. file \in Files!Maps /\ synced \in Files!Maps
  BY DEF FilesIInv, Files!TypeOK
<1>5. ASSUME file' = file, there' = there, aside' = aside
      PROVE  RecordsStep
  <2>1. Files!Visible' = Files!Visible
    BY <1>5 DEF Files!Visible
  <2>2. Files!Displaced' = Files!Displaced \/ Files!Displaced' = Files!NoMap
    BY <1>2, <1>5 DEF Files!Displaced
  <2>3. Files!Visible \in Files!Between(acked, Files!Visible)
    BY <1>2 DEF Files!Between
  <2> QED
    BY <1>2, <1>3, <2>1, <2>2, <2>3
<1>6. CASE Files!Leaves(file, there, aside, temps)
  BY <1>5, <1>6 DEF Files!Leaves
<1>7. CASE /\ ~Files!Swapping /\ there
           /\ \E f \in Files!Between(synced, file), ts \in SUBSET temps :
                Files!Leaves(f, TRUE, aside, ts)
  <2>1. PICK f \in Files!Between(synced, file) : file' = f /\ there' = TRUE
    BY <1>7 DEF Files!Leaves
  <2>2. Files!Visible = file /\ Files!Visible' = f /\ Files!Displaced' = Files!NoMap
    BY <1>2, <1>7, <2>1 DEF Files!Visible, Files!Displaced
  <2>3. f \in Files!Maps /\ f \in Files!Between(acked, file)
    BY <1>4, <2>1, <2>2, BetweenMaps, LostIsUnanswered DEF FilesIInv, CopiesOK
  <2> QED
    BY <1>3, <2>2, <2>3
<1>8. CASE /\ Files!Swapping \/ ~there
           /\ \E old \in Files!Between(synced, aside) :
                \/ Files!Leaves(old, TRUE, Files!NoMap, temps)
                \/ Files!Leaves(Files!Empty, FALSE, old, temps)
  <2>1. Files!Swapping /\ synced = acked /\ aside \in Files!Maps
    BY <1>1, <1>8, Replacing DEF FilesIInv, PlaceOK, Files!Swapping
  <2>2. PICK old \in Files!Between(synced, aside) :
          \/ file' = old /\ there' = TRUE
          \/ there' = FALSE /\ aside' = old
    BY <1>8 DEF Files!Leaves
  <2>3. old \in Files!Maps /\ old \in Files!Between(acked, Files!Displaced) /\ Files!Displaced = aside
    BY <1>4, <2>1, <2>2, BetweenMaps DEF Files!Displaced
  <2>4. Files!Visible' = old /\ Files!Displaced' \in {old, Files!NoMap}
    BY <1>2, <2>2 DEF Files!Visible, Files!Displaced
  <2> QED
    BY <1>3, <2>1, <2>3, <2>4
<1>9. CASE Files!Swapping /\ op.at = "in" /\ Files!Leaves(file, TRUE, aside, temps)
  <2>1. there
    BY <1>9 DEF FilesIInv, PlaceOK
  <2> QED
    BY <1>5, <1>9, <2>1 DEF Files!Leaves, FilesIInv, Files!TypeOK
<1> QED
  BY <1>6, <1>7, <1>8, <1>9 DEF Files!Stop, Files!LosesUnsynced

\* The next process finds what a stop left, or nothing after one within a swap.
LEMMA InitializeRecovers == ASSUME FilesIInv, Files!initialize PROVE RecordsStep
<1>1. /\ store.status = "down" /\ there' = TRUE /\ file' = file
      /\ op = Files!Idle /\ op' = Files!Idle
  BY DEF Files!initialize, FilesIInv, OpOK
<1>2. ~Files!Swapping /\ ~Files!Swapping'
  BY <1>1 DEF Files!Swapping
<1>3. Files!Visible' = file /\ Files!Displaced' = Files!NoMap
  BY <1>1, <1>2 DEF Files!Visible, Files!Displaced
<1>4. CASE /\ \E t \in temps : t.linked
           /\ store' = [status |-> "degraded", count |-> 0]
           /\ UNCHANGED <<synced, acked>>
  <2>1. there
    BY <1>1, <1>4 DEF FilesIInv, TempsOK
  <2>2. Files!Visible = file /\ Files!Displaced = Files!NoMap
    BY <1>2, <2>1, SeenOutside
  <2>3. store.status # "ready" /\ store'.status # "ready"
    BY <1>1, <1>4
  <2> QED
    BY <1>3, <1>4, <2>2, <2>3 DEF RecordsStep, Files!Records!recordsVars
<1>5. CASE acked' = file /\ store'.status = "ready"
  <2>1. CASE there
    <3>1. Files!Visible = file /\ Files!Displaced = Files!NoMap
      BY <1>2, <2>1, SeenOutside
    <3>2. Files!Records!Recovers
      BY <1>1, <1>3, <1>5, <3>1, SameMaps DEF Files!Records!Recovers
    <3> QED
      BY <3>2 DEF RecordsStep, Files!Records!RecordsNext
  <2>2. CASE ~there
    <3>1. aside \in Files!Maps /\ file = Files!Empty /\ file \in Files!Maps
      BY <2>2 DEF FilesIInv, PlaceOK, Files!TypeOK
    <3>2. Files!Visible = aside /\ Files!Displaced = aside
      BY <2>2 DEF Files!Visible, Files!Displaced
    <3>3. CASE aside = Files!NoMap
      <4>1. file = aside
        BY <3>1, <3>3, OnlyMap
      <4>2. Files!Records!Recovers
        BY <1>1, <1>3, <1>5, <3>2, <4>1, SameMaps DEF Files!Records!Recovers
      <4> QED
        BY <4>2 DEF RecordsStep, Files!Records!RecordsNext
    <3>4. CASE aside # Files!NoMap
      <4>1. Files!Records!LoseAll
        BY <1>1, <1>3, <1>5, <3>1, <3>2, <3>4, SameMaps DEF Files!Records!LoseAll
      <4> QED
        BY <4>1 DEF RecordsStep, Files!Records!RecordsNext
    <3> QED
      BY <3>3, <3>4
  <2> QED
    BY <2>1, <2>2
<1> QED
  BY <1>4, <1>5 DEF Files!initialize

\* Every step of the files is a step of the map, or leaves it alone.
LEMMA StepRefines == ASSUME FilesIInv, [Files!Next]_(Files!storeVars) PROVE RecordsStep
<1>1. CASE Files!StoreStep
  BY <1>1, BeginsStutter, DeleteChanges, CommitPlaceChanges, CommitSyncStutters,
     CommitDoneAnswers, SwapOutDisplaces, SwapInReplaces, SwapSyncAnswers,
     SwapUndoRestores, InitializeRecovers DEF Files!StoreStep
<1>2. CASE UNCHANGED Files!storeVars
  BY <1>2 DEF Files!storeVars, RecordsStep, Files!Records!recordsVars, Files!Visible,
       Files!Displaced, Files!Swapping
<1> QED
  BY <1>1, <1>2, StopLoses DEF Files!Next

\* The files implement the durable map: a change reported as done survives every
\* stop, an unreported one happened or did not, and only a stop within the swap of
\* a restore may leave the map empty (recordStore.ts #commit, delete, beginRestore,
\* #initialize).
THEOREM FilesImplementRecords == ASSUME FilesBounds PROVE FilesSafety => Files!ImplementsRecords
<1>1. Files!Init => Files!Records!RecordsInit
  <2>1. ASSUME Files!Init PROVE Files!Visible = Files!Empty /\ Files!Displaced = Files!NoMap
    BY <2>1 DEF Files!Init, Files!Visible, Files!Displaced, Files!Swapping
  <2> QED
    BY <2>1, SameMaps DEF Files!Init, Files!Records!RecordsInit
<1>2. FilesIInv /\ [Files!Next]_(Files!storeVars) => [Files!Records!RecordsNext]_(Files!Records!recordsVars)
  BY StepRefines DEF RecordsStep
<1> QED
  BY <1>1, <1>2, StoreInductive, PTL
     DEF FilesSafety, Files!ImplementsRecords, Files!Records!RecordsSpec

-----------------------------------------------------------------------------
(* Rotation: the envelope roots.                                            *)

WrappedBy(v) == \A n \in Rotation!Records : wrapped[n] = v

\* Versions that are or were the active root.
Past == manifest.receipts \cup {Legacy}

\* A rotation in progress: its request has no receipt before the commit.
Uncommitted == journal.request \notin manifest.receipts /\ manifest.root = journal.old
Committed   == journal.request \in manifest.receipts /\ manifest.root = journal.request

\* The old root is in force, alone at its path.
OldInForce == configured = journal.old /\ journal.old \notin archived

\* The arrangements of the key files within switchRootPhysicalVersion.
StagedReady == staged[journal.request] = "ready"
OldArchived == journal.old \in archived
NewInForce  == configured = journal.request /\ staged[journal.request] = "absent"
SwitchOK ==
  \/ configured = journal.old /\ StagedReady
  \/ configured = NoVersion /\ OldArchived /\ StagedReady
  \/ configured = journal.request /\ OldArchived /\ StagedReady
  \/ NewInForce /\ OldArchived

\* No other staged key exists, and only past roots are archived.
KeysOK ==
  /\ \A r \in Requests : r # journal.request => staged[r] = "absent"
  /\ archived \subseteq Past /\ manifest.root \in Past

JournalOK ==
  journal.phase # "none" =>
    /\ journal.request \in Requests /\ journal.request \notin archived
    /\ journal.old \in Past /\ journal.old # journal.request
    /\ journal.links \in {1, 2}
    /\ journal.links = 2 => journal.phase = "created"
    /\ journal.phase # "root_switched" => Uncommitted
    /\ journal.cursor <= RecordCount

PhaseOK ==
  CASE journal.phase = "none" ->
         /\ journal = Rotation!NoJournal /\ configured = manifest.root
         /\ manifest.root \notin archived /\ WrappedBy(manifest.root)
    [] journal.phase = "created" ->
         OldInForce /\ journal.cursor = 0 /\ WrappedBy(journal.old)
    [] journal.phase \in {"staged", "activated"} ->
         OldInForce /\ StagedReady /\ journal.cursor = 0 /\ WrappedBy(journal.old)
    [] journal.phase = "rewrapping" ->
         /\ OldInForce /\ StagedReady
         /\ \A n \in Rotation!Records : wrapped[n] \in {journal.old, journal.request}
         /\ \A n \in Rotation!Records : n <= journal.cursor => wrapped[n] = journal.request
    [] journal.phase = "verified" -> SwitchOK /\ WrappedBy(journal.request)
    [] journal.phase = "root_switched" ->
         /\ NewInForce /\ OldArchived /\ WrappedBy(journal.request)
         /\ Uncommitted \/ Committed

FilesOK == KeysOK /\ JournalOK /\ PhaseOK /\ (target = "identity" => leftovers = {})

\* The records before at are rewrapped.
Reached ==
  /\ journal.phase = "rewrapping" /\ journal.cursor < at
  /\ \A n \in Rotation!Records : n < at => wrapped[n] = journal.request

RotationStepOK ==
  /\ step = "preflight" => IF journal.phase = "none"
                         THEN asked \in Requests \ manifest.receipts
                         ELSE journal.links = 1 /\ Uncommitted
  /\ step = "create" => journal.phase = "none" /\ asked \in Requests \ manifest.receipts
  /\ step = "created" => journal.phase = "created"
  /\ step \in {"stage", "unlink_temp", "own", "journal_staged"} =>
       journal.phase = "created" /\ journal.links = 1
  /\ step = "journal_staged" => StagedReady
  /\ step = "inventory" => journal.phase \in Rotation!Rewraps
  /\ step = "activate" => journal.phase \in {"staged", "activated"}
  /\ step = "batch" => journal.phase = "rewrapping"
  /\ step = "rewrap" => Reached /\ at <= Rotation!BatchEnd + 1
  /\ step = "rename" => Reached /\ at <= Rotation!BatchEnd /\ target = "vault"
  /\ step = "verify" => journal.phase = "rewrapping" /\ WrappedBy(journal.request)
  /\ step = "switch" => journal.phase = "verified"
  /\ step = "commit" => journal.phase = "root_switched" /\ Uncommitted
  /\ step = "remove" => journal.phase = "root_switched" /\ Committed
  /\ step \in {"provision", "serving"} => journal.phase = "none"
  /\ step = "configuration_error" /\ asked \in {NoVersion, journal.request} =>
       /\ journal.phase \notin {"verified", "root_switched"}
       /\ target = "identity" => journal.phase # "rewrapping"

RotationIInv == Rotation!TypeOK /\ FilesOK /\ RotationStepOK

-----------------------------------------------------------------------------
(* Each step keeps the invariant.                                          *)

\* What a later start reads does not change.
LEMMA FilesKept == ASSUME FilesOK, UNCHANGED <<Rotation!files, target>> PROVE FilesOK'
BY DEF FilesOK, Rotation!files, KeysOK, JournalOK, PhaseOK, WrappedBy, Past, Uncommitted,
     Committed,
       OldInForce, StagedReady, OldArchived, NewInForce, SwitchOK

\* Versions are told apart.
LEMMA VersionsDiffer ==
  ASSUME Rotation!RootRotationAssumption
  PROVE  Legacy \notin Requests /\ NoVersion \notin Rotation!Versions /\ Requests \subseteq Rotation!Versions
BY DEF Rotation!RootRotationAssumption, Rotation!Versions

\* rootRotationDisposition: what a start finds is never beyond resuming.
LEMMA StartKeeps ==
  ASSUME Rotation!RootRotationAssumption, RotationIInv, NEW q \in Requests \cup {NoVersion}, Rotation!Start(q),
         UNCHANGED target
  PROVE  RotationIInv'
<1>1. /\ step' \in {"provision", "remove", "configuration_error", "preflight"} /\ asked' = q
      /\ UNCHANGED <<at, Rotation!files, crashes>>
  BY DEF Rotation!Start
<1>2. Rotation!TypeOK'
  BY <1>1 DEF RotationIInv, Rotation!TypeOK, Rotation!files, Rotation!Steps
<1>3. FilesOK'
  BY <1>1, FilesKept DEF RotationIInv
<1>4. CASE journal.phase = "none"
  <2>1. journal = Rotation!NoJournal
    BY <1>4 DEF RotationIInv, FilesOK, PhaseOK
  <2>2. CASE q = NoVersion
    <3>1. step' = "provision"
      BY <1>4, <2>1, <2>2 DEF Rotation!Start, Rotation!Disposition, Rotation!NoJournal
    <3> QED
      BY <1>1, <1>2, <1>3, <1>4, <3>1 DEF RotationIInv, RotationStepOK, Rotation!files
  <2>3. CASE q # NoVersion /\ q \in manifest.receipts
    <3>1. step' = "provision"
      BY <1>4, <2>1, <2>3 DEF Rotation!Start, Rotation!Disposition, Rotation!NoJournal
    <3> QED
      BY <1>1, <1>2, <1>3, <1>4, <3>1 DEF RotationIInv, RotationStepOK, Rotation!files
  <2>4. CASE q # NoVersion /\ q \notin manifest.receipts
    <3>1. step' = "preflight"
      BY <1>4, <2>1, <2>4 DEF Rotation!Start, Rotation!Disposition, Rotation!NoJournal
    <3> QED
      BY <1>1, <1>2, <1>3, <1>4, <2>4, <3>1 DEF RotationIInv, RotationStepOK, Rotation!files
  <2> QED
    BY <2>2, <2>3, <2>4
<1>5. CASE journal.phase # "none" /\ journal.links = 2
  <2>1. step' = "configuration_error" /\ journal.phase = "created"
    BY <1>5 DEF Rotation!Start, Rotation!Disposition, RotationIInv, FilesOK, JournalOK
  <2> QED
    BY <1>1, <1>2, <1>3, <2>1 DEF RotationIInv, RotationStepOK, Rotation!files
<1>6. CASE journal.phase # "none" /\ journal.links = 1
  <2>1. Uncommitted \/ (journal.phase = "root_switched" /\ Committed)
    BY <1>6 DEF RotationIInv, FilesOK, JournalOK, PhaseOK
  <2>2. CASE q \notin {NoVersion, journal.request}
    <3>1. step' = "configuration_error"
      BY <1>6, <2>1, <2>2 DEF Rotation!Start, Rotation!Disposition, Uncommitted, Committed
    <3> QED
      BY <1>1, <1>2, <1>3, <2>2, <3>1 DEF RotationIInv, RotationStepOK, Rotation!files
  <2>3. CASE q \in {NoVersion, journal.request} /\ Uncommitted
    <3>1. step' = "preflight"
      BY <1>6, <2>3 DEF Rotation!Start, Rotation!Disposition, Uncommitted
    <3> QED
      BY <1>1, <1>2, <1>3, <1>6, <2>3, <3>1 DEF RotationIInv, RotationStepOK,
           Rotation!files, Uncommitted
  <2>4. CASE /\ q \in {NoVersion, journal.request}
             /\ journal.phase = "root_switched" /\ Committed
    <3>1. step' = "remove"
      BY <1>6, <2>4 DEF Rotation!Start, Rotation!Disposition, Committed
    <3> QED
      BY <1>1, <1>2, <1>3, <2>4, <3>1 DEF RotationIInv, RotationStepOK, Rotation!files,
           Committed
  <2> QED
    BY <2>1, <2>2, <2>3, <2>4
<1> QED
  BY <1>4, <1>5, <1>6 DEF RotationIInv, FilesOK, JournalOK

\* A failed check of a step that reads only.
LEMMA FailKeeps ==
  ASSUME RotationIInv, Rotation!Fail, UNCHANGED target,
         journal.phase \notin {"verified", "root_switched"},
         target = "identity" => journal.phase # "rewrapping"
  PROVE  RotationIInv'
<1>1. step' = "configuration_error" /\ UNCHANGED <<asked, at, Rotation!files, crashes>>
  BY DEF Rotation!Fail
<1>2. Rotation!TypeOK'
  BY <1>1 DEF RotationIInv, Rotation!TypeOK, Rotation!files, Rotation!Steps
<1>3. FilesOK'
  BY <1>1, FilesKept DEF RotationIInv
<1> QED
  BY <1>1, <1>2, <1>3 DEF RotationIInv, RotationStepOK, Rotation!files

\* The checks of runRootRotationMaintenance pass from the first rewrap on.
LEMMA PreflightKeeps ==
  ASSUME Rotation!RootRotationAssumption, RotationIInv, Rotation!Preflight, UNCHANGED target
  PROVE  RotationIInv'
<1>1. journal.phase \in Rotation!Phases
  BY DEF RotationIInv, Rotation!TypeOK
<1>2. CASE journal.phase \in {"none", "created"} /\ ~Rotation!PreflightOK
  BY <1>2, FailKeeps DEF Rotation!Preflight
<1>3. CASE journal.phase \notin {"none", "created"} \/ Rotation!PreflightOK
  <2>1. journal.phase \in Rotation!Rewraps => Rotation!PreflightOK
    BY VersionsDiffer DEF Rotation!PreflightOK, Rotation!ConfiguredValid,
         Rotation!StagedValid, RotationIInv, Rotation!TypeOK, FilesOK,
       JournalOK, KeysOK, PhaseOK, OldInForce, StagedReady, Rotation!Rewraps
  <2>2. journal.phase = "root_switched" => Rotation!PreflightOK
    BY VersionsDiffer DEF Rotation!PreflightOK, Rotation!ConfiguredValid,
         Rotation!ArchivedValid, RotationIInv, FilesOK,
       JournalOK, PhaseOK, NewInForce, OldArchived, Rotation!Rewraps
  <2>3. journal.phase = "verified" => Rotation!PreflightOK
    BY DEF Rotation!PreflightOK, Rotation!Rewraps
  <2>4. Rotation!PreflightOK
    BY <1>1, <1>3, <2>1, <2>2, <2>3 DEF Rotation!Phases
  <2>5. /\ step' = CASE journal.phase = "none"     -> "create"
                   [] journal.phase = "created"  -> "stage"
                   [] journal.phase \in Rotation!Rewraps  -> "inventory"
                   [] journal.phase = "verified" -> "switch"
                   [] OTHER                      -> "commit"
        /\ UNCHANGED <<asked, at, crashes, Rotation!files>> /\ step = "preflight"
    BY <2>4 DEF Rotation!Preflight, Rotation!Goto
  <2>6. Rotation!TypeOK'
    BY <1>1, <2>5 DEF RotationIInv, Rotation!TypeOK, Rotation!files, Rotation!Steps,
         Rotation!Phases, Rotation!Rewraps
  <2>7. FilesOK'
    BY <2>5, FilesKept DEF RotationIInv
  <2>8. RotationStepOK'
    BY <1>1, <2>5 DEF RotationIInv, RotationStepOK, Rotation!files, Rotation!Phases,
         Rotation!Rewraps, Uncommitted
  <2> QED
    BY <2>6, <2>7, <2>8 DEF RotationIInv
<1> QED
  BY <1>2, <1>3

\* A created journal is linked under its temporary name first.
LEMMA CreateJournalKeeps ==
  ASSUME Rotation!RootRotationAssumption, RotationIInv, Rotation!CreateJournal, UNCHANGED target
  PROVE  RotationIInv'
<1>1. /\ journal' = [phase |-> "created", request |-> asked, old |-> manifest.root,
                     cursor |-> 0, links |-> 2]
      /\ step = "create" /\ step' = "created"
      /\ UNCHANGED <<asked, at, crashes, configured, staged, archived, manifest, wrapped, leftovers>>
  BY DEF Rotation!CreateJournal, Rotation!Goto
<1>2. /\ journal = Rotation!NoJournal /\ asked \in Requests \ manifest.receipts
      /\ configured = manifest.root /\ manifest.root \notin archived
      /\ \A n \in Rotation!Records : wrapped[n] = manifest.root
      /\ \A r \in Requests : staged[r] = "absent"
      /\ manifest.root \in Past /\ archived \subseteq Past
  <2>1. journal.phase = "none" /\ asked \in Requests \ manifest.receipts
    BY <1>1 DEF RotationIInv, RotationStepOK
  <2>2. journal = Rotation!NoJournal /\ journal.request \notin Requests
    BY <2>1, VersionsDiffer DEF RotationIInv, FilesOK, PhaseOK, Rotation!NoJournal,
         Rotation!Versions
  <2> QED
    BY <2>1, <2>2 DEF RotationIInv, FilesOK, PhaseOK, KeysOK, WrappedBy
<1>3. Rotation!TypeOK'
  <2>1. journal' \in [phase : Rotation!Phases, request : Requests \cup {NoVersion},
                      old : Rotation!Versions \cup {NoVersion}, cursor : Nat, links : 0..2]
    BY <1>1, <1>2 DEF RotationIInv, Rotation!TypeOK, Rotation!Phases
  <2> QED
    BY <1>1, <2>1 DEF RotationIInv, Rotation!TypeOK, Rotation!Steps
<1>4. FilesOK'
  <2>1. KeysOK'
    BY <1>1, <1>2 DEF KeysOK, Past
  <2>2. JournalOK'
    BY <1>1, <1>2, VersionsDiffer DEF JournalOK, Past, Uncommitted, RotationIInv,
         Rotation!TypeOK,
       Rotation!RootRotationAssumption
  <2>3. PhaseOK'
    BY <1>1, <1>2 DEF PhaseOK, OldInForce, WrappedBy
  <2> QED
    BY <1>1, <2>1, <2>2, <2>3 DEF FilesOK, RotationIInv
<1>5. RotationStepOK'
  BY <1>1 DEF RotationStepOK
<1> QED
  BY <1>3, <1>4, <1>5 DEF RotationIInv

LEMMA JournalCreatedKeeps ==
  ASSUME RotationIInv, Rotation!JournalCreated, UNCHANGED target
  PROVE  RotationIInv'
<1>1. /\ journal' = [journal EXCEPT !.links = 1] /\ step' = "stage"
      /\ UNCHANGED <<asked, at, crashes, configured, staged, archived, manifest, wrapped, leftovers>>
      /\ journal.phase = "created"
  BY DEF Rotation!JournalCreated, Rotation!Goto, RotationIInv, RotationStepOK
<1>2. /\ journal'.phase = "created" /\ journal'.request = journal.request
      /\ journal'.old = journal.old /\ journal'.cursor = journal.cursor /\ journal'.links = 1
  BY <1>1 DEF RotationIInv, Rotation!TypeOK
<1>3. Rotation!TypeOK'
  BY <1>1 DEF RotationIInv, Rotation!TypeOK, Rotation!Steps
<1>4. FilesOK'
  <2>1. KeysOK'
    BY <1>1, <1>2 DEF RotationIInv, FilesOK, KeysOK, Past
  <2>2. JournalOK'
    BY <1>1, <1>2 DEF RotationIInv, FilesOK, JournalOK, Past, Uncommitted
  <2>3. PhaseOK'
    <3>1. OldInForce /\ journal.cursor = 0 /\ \A n \in Rotation!Records : wrapped[n] = journal.old
      BY <1>1 DEF RotationIInv, FilesOK, PhaseOK, WrappedBy
    <3>2. OldInForce' /\ journal'.cursor = 0 /\ WrappedBy(journal.old)'
      BY <1>1, <1>2, <3>1 DEF OldInForce, WrappedBy
    <3> QED
      BY <1>2, <3>2 DEF PhaseOK, WrappedBy
  <2> QED
    BY <1>1, <2>1, <2>2, <2>3 DEF RotationIInv, FilesOK
<1>5. RotationStepOK'
  BY <1>1, <1>2 DEF RotationStepOK
<1> QED
  BY <1>3, <1>4, <1>5 DEF RotationIInv

\* Steps that only replace the journal's phase, or only the staged key.
LEMMA PhaseWritten ==
  ASSUME RotationIInv, NEW phase \in Rotation!Phases, Rotation!WriteJournal(phase), journal.phase # "none"
  PROVE  /\ journal' \in [phase : Rotation!Phases, request : Requests \cup {NoVersion},
                          old : Rotation!Versions \cup {NoVersion}, cursor : Nat, links : 0..2]
         /\ journal'.phase = phase /\ journal'.request = journal.request
         /\ journal'.old = journal.old /\ journal'.cursor = journal.cursor
         /\ journal'.links = journal.links
         /\ UNCHANGED <<configured, staged, archived, manifest, wrapped, leftovers>>
BY DEF Rotation!WriteJournal, RotationIInv, Rotation!TypeOK

LEMMA StagedSet ==
  ASSUME RotationIInv, NEW state \in {"linked", "raw", "ready"}, Rotation!SetStaged(state),
         journal.phase = "created", UNCHANGED target
  PROVE  /\ FilesOK' /\ staged'[journal.request] = state
         /\ staged' \in [Requests -> {"absent", "linked", "raw", "ready"}]
         /\ UNCHANGED <<journal, configured, archived, manifest, wrapped, leftovers>>
<1>1. /\ staged' = [staged EXCEPT ![journal.request] = state]
      /\ UNCHANGED <<journal, configured, archived, manifest, wrapped, leftovers>>
      /\ journal.request \in Requests
  BY DEF Rotation!SetStaged, RotationIInv, FilesOK, JournalOK
<1>2. /\ staged' \in [Requests -> {"absent", "linked", "raw", "ready"}]
      /\ staged'[journal.request] = state
      /\ \A r \in Requests : r # journal.request => staged'[r] = staged[r]
  BY <1>1 DEF RotationIInv, Rotation!TypeOK
<1>3. FilesOK'
  BY <1>1, <1>2 DEF RotationIInv, FilesOK, KeysOK, JournalOK, PhaseOK, Past, Uncommitted,
       OldInForce,
     WrappedBy
<1> QED
  BY <1>1, <1>2, <1>3

\* createVaultKeyFile, in its steps.
LEMMA StageKeyKeeps == ASSUME RotationIInv, Rotation!StageKey, UNCHANGED target PROVE RotationIInv'
<1>1. journal.phase = "created" /\ journal.links = 1
  BY DEF Rotation!StageKey, RotationIInv, RotationStepOK
<1>2. CASE staged[journal.request] = "absent"
  <2>1. Rotation!SetStaged("linked") /\ step' = "unlink_temp" /\ UNCHANGED <<asked, at, crashes>>
    BY <1>2 DEF Rotation!StageKey, Rotation!Goto
  <2>2. /\ FilesOK' /\ staged' \in [Requests -> {"absent", "linked", "raw", "ready"}]
        /\ UNCHANGED <<journal, configured, archived, manifest, wrapped, leftovers>>
    BY <1>1, <2>1, StagedSet
  <2> QED
    BY <1>1, <2>1, <2>2 DEF RotationIInv, Rotation!TypeOK, Rotation!Steps, RotationStepOK
<1>3. CASE staged[journal.request] # "absent"
  <2>1. Rotation!Fail
    BY <1>3 DEF Rotation!StageKey
  <2> QED
    BY <1>1, <2>1, FailKeeps
<1> QED
  BY <1>2, <1>3

LEMMA UnlinkKeyTempKeeps == ASSUME RotationIInv, Rotation!UnlinkKeyTemp, UNCHANGED target PROVE RotationIInv'
<1>1. /\ journal.phase = "created" /\ journal.links = 1
      /\ Rotation!SetStaged("raw") /\ step' = "own" /\ UNCHANGED <<asked, at, crashes>>
  BY DEF Rotation!UnlinkKeyTemp, Rotation!Goto, RotationIInv, RotationStepOK
<1>2. /\ FilesOK' /\ staged' \in [Requests -> {"absent", "linked", "raw", "ready"}]
      /\ UNCHANGED <<journal, configured, archived, manifest, wrapped, leftovers>>
  BY <1>1, StagedSet
<1> QED
  BY <1>1, <1>2 DEF RotationIInv, Rotation!TypeOK, Rotation!Steps, RotationStepOK

LEMMA OwnKeyKeeps == ASSUME RotationIInv, Rotation!OwnKey, UNCHANGED target PROVE RotationIInv'
<1>1. /\ journal.phase = "created" /\ journal.links = 1
      /\ Rotation!SetStaged("ready") /\ step' = "journal_staged" /\ UNCHANGED <<asked, at, crashes>>
  BY DEF Rotation!OwnKey, Rotation!Goto, RotationIInv, RotationStepOK
<1>2. /\ FilesOK' /\ staged' \in [Requests -> {"absent", "linked", "raw", "ready"}]
      /\ staged'[journal.request] = "ready"
      /\ UNCHANGED <<journal, configured, archived, manifest, wrapped, leftovers>>
  BY <1>1, StagedSet
<1> QED
  BY <1>1, <1>2 DEF RotationIInv, Rotation!TypeOK, Rotation!Steps, RotationStepOK,
       StagedReady

LEMMA JournalStagedKeeps == ASSUME RotationIInv, Rotation!JournalStaged, UNCHANGED target PROVE RotationIInv'
<1>1. /\ journal.phase = "created" /\ journal.links = 1 /\ StagedReady
      /\ Rotation!WriteJournal("staged") /\ step' = "inventory" /\ UNCHANGED <<asked, at, crashes>>
  BY DEF Rotation!JournalStaged, Rotation!Goto, RotationIInv, RotationStepOK
<1>2. /\ journal' \in [phase : Rotation!Phases, request : Requests \cup {NoVersion},
                       old : Rotation!Versions \cup {NoVersion}, cursor : Nat, links : 0..2]
      /\ journal'.phase = "staged" /\ journal'.request = journal.request
      /\ journal'.old = journal.old /\ journal'.cursor = journal.cursor
      /\ journal'.links = journal.links
      /\ UNCHANGED <<configured, staged, archived, manifest, wrapped, leftovers>>
  BY <1>1, PhaseWritten DEF Rotation!Phases, Rotation!Rewraps
<1>3. FilesOK'
  BY <1>1, <1>2 DEF RotationIInv, FilesOK, KeysOK, JournalOK, PhaseOK, Past, Uncommitted,
       OldInForce,
     StagedReady, WrappedBy
<1> QED
  BY <1>1, <1>2, <1>3 DEF RotationIInv, Rotation!TypeOK, Rotation!Steps, RotationStepOK,
       Rotation!Rewraps

-----------------------------------------------------------------------------
(* Rewrapping.                                                             *)

\* The inventory of the identity rows passes.
LEMMA InventoryKeeps == ASSUME RotationIInv, Rotation!Inventory, UNCHANGED target PROVE RotationIInv'
<1>1. journal.phase \in Rotation!Rewraps
  BY DEF Rotation!Inventory, RotationIInv, RotationStepOK
<1>2. CASE Rotation!InventoryOK
  <2>1. /\ step' = (IF journal.phase = "rewrapping" THEN "batch" ELSE "activate")
        /\ UNCHANGED <<asked, at, crashes, Rotation!files>>
    BY <1>2 DEF Rotation!Inventory, Rotation!Goto
  <2>2. Rotation!TypeOK'
    BY <2>1 DEF RotationIInv, Rotation!TypeOK, Rotation!files, Rotation!Steps
  <2>3. FilesOK'
    BY <2>1, FilesKept DEF RotationIInv
  <2> QED
    BY <1>1, <2>1, <2>2, <2>3 DEF RotationIInv, RotationStepOK, Rotation!files,
         Rotation!Rewraps
<1>3. CASE ~Rotation!InventoryOK
  <2>1. Rotation!Fail
    BY <1>3 DEF Rotation!Inventory
  <2>2. target = "identity" => journal.phase # "rewrapping"
    BY <1>3 DEF Rotation!InventoryOK, RotationIInv, FilesOK, PhaseOK
  <2> QED
    BY <1>1, <2>1, <2>2, FailKeeps DEF Rotation!Rewraps
<1> QED
  BY <1>2, <1>3

LEMMA ActivateKeeps ==
  ASSUME Rotation!RootRotationAssumption, RotationIInv, Rotation!Activate, UNCHANGED target
  PROVE  RotationIInv'
<1>1. journal.phase \in {"staged", "activated"}
  BY DEF Rotation!Activate, RotationIInv, RotationStepOK
<1>2. PICK phase \in {"activated", "rewrapping"} :
        /\ Rotation!WriteJournal(phase) /\ step' = (IF phase = "rewrapping" THEN "batch" ELSE "activate")
        /\ UNCHANGED <<asked, at, crashes>>
  BY DEF Rotation!Activate, Rotation!Goto
<1>3. /\ journal' \in [phase : Rotation!Phases, request : Requests \cup {NoVersion},
                       old : Rotation!Versions \cup {NoVersion}, cursor : Nat, links : 0..2]
      /\ journal'.phase = phase /\ journal'.request = journal.request
      /\ journal'.old = journal.old /\ journal'.cursor = journal.cursor
      /\ journal'.links = journal.links
      /\ UNCHANGED <<configured, staged, archived, manifest, wrapped, leftovers>>
  BY <1>1, <1>2, PhaseWritten DEF Rotation!Phases, Rotation!Rewraps
<1>4. FilesOK'
  <2>1. KeysOK'
    BY <1>3 DEF RotationIInv, FilesOK, KeysOK, Past
  <2>2. JournalOK'
    BY <1>1, <1>3 DEF RotationIInv, FilesOK, JournalOK, Past, Uncommitted
  <2>3. OldInForce' /\ StagedReady' /\ journal.cursor = 0 /\ WrappedBy(journal.old)'
    BY <1>1, <1>3 DEF RotationIInv, FilesOK, PhaseOK, OldInForce, StagedReady, WrappedBy
  <2>4. PhaseOK'
    <3>1. CASE phase = "activated"
      BY <1>3, <2>3, <3>1 DEF PhaseOK, WrappedBy
    <3>2. CASE phase = "rewrapping"
      <4>1. /\ \A n \in Rotation!Records : wrapped'[n] \in {journal'.old, journal'.request}
            /\ \A n \in Rotation!Records : n <= journal'.cursor => wrapped'[n] = journal'.request
        BY <1>3, <2>3 DEF WrappedBy, Rotation!Records, Rotation!RootRotationAssumption
      <4> QED
        BY <1>3, <2>3, <3>2, <4>1 DEF PhaseOK
    <3> QED
      BY <3>1, <3>2
  <2> QED
    BY <1>3, <2>1, <2>2, <2>4 DEF RotationIInv, FilesOK
<1> QED
  BY <1>2, <1>3, <1>4 DEF RotationIInv, Rotation!TypeOK, Rotation!Steps, RotationStepOK

\* rewrapBatch and its cursor: the records before it are done with.
LEMMA BatchEndBounds ==
  ASSUME Rotation!RootRotationAssumption, RotationIInv, journal.phase = "rewrapping"
  PROVE  /\ Rotation!BatchEnd \in Nat /\ Rotation!BatchEnd <= RecordCount /\ journal.cursor <= Rotation!BatchEnd
         /\ journal.cursor \in Nat /\ RecordCount \in Nat
         /\ Rotation!BatchEnd < RecordCount \/ Rotation!BatchEnd = RecordCount
BY DEF Rotation!RootRotationAssumption, Rotation!BatchEnd, RotationIInv, Rotation!TypeOK,
     FilesOK, JournalOK

LEMMA BeginBatchKeeps ==
  ASSUME Rotation!RootRotationAssumption, RotationIInv, Rotation!BeginBatch, UNCHANGED target
  PROVE  RotationIInv'
<1>1. journal.phase = "rewrapping"
  BY DEF Rotation!BeginBatch, RotationIInv, RotationStepOK
<1>2. CASE leftovers = {}
  <2>1. /\ at' = journal.cursor + 1 /\ step' = "rewrap" /\ UNCHANGED <<asked, Rotation!files, crashes>>
    BY <1>2 DEF Rotation!BeginBatch
  <2>2. Rotation!TypeOK'
    BY <1>1, <2>1, BatchEndBounds DEF RotationIInv, Rotation!TypeOK, Rotation!files,
         Rotation!Steps
  <2>3. FilesOK'
    BY <2>1, FilesKept DEF RotationIInv
  <2>4. Reached'
    BY <1>1, <2>1, BatchEndBounds DEF RotationIInv, FilesOK, PhaseOK, Reached,
         Rotation!files, Rotation!Records
  <2>5. Rotation!BatchEnd' = Rotation!BatchEnd /\ at' <= Rotation!BatchEnd + 1
    BY <1>1, <2>1, BatchEndBounds DEF Rotation!BatchEnd, Rotation!files
  <2> QED
    BY <2>1, <2>2, <2>3, <2>4, <2>5 DEF RotationIInv, RotationStepOK
<1>3. CASE leftovers # {}
  <2>1. Rotation!Fail
    BY <1>3 DEF Rotation!BeginBatch
  <2> QED
    BY <1>1, <1>3, <2>1, FailKeeps DEF RotationIInv, FilesOK
<1> QED
  BY <1>2, <1>3

\* While a batch is rewrapped only records and temporary files change.
LEMMA RewrappedKeeps ==
  ASSUME RotationIInv, journal.phase = "rewrapping",
         UNCHANGED <<target, journal, configured, staged, archived, manifest>>,
         target = "identity" => leftovers' = {},
         \A n \in Rotation!Records : wrapped'[n] = wrapped[n] \/ wrapped'[n] = journal.request
  PROVE  FilesOK'
<1>1. KeysOK' /\ JournalOK'
  BY DEF RotationIInv, FilesOK, KeysOK, JournalOK, Past, Uncommitted
<1>2. PhaseOK'
  BY DEF RotationIInv, FilesOK, PhaseOK, OldInForce, StagedReady
<1> QED
  BY <1>1, <1>2 DEF FilesOK

LEMMA RewrapVaultKeeps ==
  ASSUME Rotation!RootRotationAssumption, RotationIInv, Rotation!RewrapVault, UNCHANGED target
  PROVE  RotationIInv'
<1>1. /\ journal.phase = "rewrapping" /\ Reached /\ target = "vault" /\ at <= Rotation!BatchEnd
      /\ UNCHANGED <<asked, journal, configured, staged, archived, manifest, wrapped, crashes>>
  BY DEF Rotation!RewrapVault, RotationIInv, RotationStepOK, Reached
<1>2. at \in Rotation!Records /\ at \in Nat /\ Rotation!BatchEnd' = Rotation!BatchEnd /\ Rotation!BatchEnd \in Nat
  BY <1>1, BatchEndBounds DEF Rotation!Records, Reached, Rotation!BatchEnd, RotationIInv,
       Rotation!TypeOK
<1>3. CASE wrapped[at] = journal.request
  <2>1. at' = at + 1 /\ step' = "rewrap" /\ UNCHANGED leftovers
    BY <1>3 DEF Rotation!RewrapVault
  <2>2. FilesOK'
    BY <1>1, <2>1, RewrappedKeeps
  <2>3. Reached'
    BY <1>1, <1>2, <1>3, <2>1, BatchEndBounds DEF Reached, Rotation!Records
  <2>4. at' <= Rotation!BatchEnd' + 1
    BY <1>1, <1>2, <2>1
  <2>5. Rotation!TypeOK'
    BY <1>1, <1>2, <2>1 DEF RotationIInv, Rotation!TypeOK, Rotation!Steps
  <2> QED
    BY <2>1, <2>2, <2>3, <2>4, <2>5 DEF RotationIInv, RotationStepOK
<1>4. CASE wrapped[at] # journal.request
  <2>1. leftovers' = leftovers \cup {at} /\ step' = "rename" /\ UNCHANGED at
    BY <1>4 DEF Rotation!RewrapVault
  <2>2. FilesOK'
    BY <1>1, RewrappedKeeps
  <2>3. Reached'
    BY <1>1, <2>1 DEF Reached
  <2>4. Rotation!TypeOK'
    BY <1>1, <1>2, <2>1 DEF RotationIInv, Rotation!TypeOK, Rotation!Steps
  <2> QED
    BY <1>1, <1>2, <2>1, <2>2, <2>3, <2>4 DEF RotationIInv, RotationStepOK
<1> QED
  BY <1>3, <1>4

\* commitConditional.
LEMMA RenameRecordKeeps ==
  ASSUME Rotation!RootRotationAssumption, RotationIInv, Rotation!RenameRecord, UNCHANGED target
  PROVE  RotationIInv'
<1>1. /\ journal.phase = "rewrapping" /\ Reached /\ target = "vault" /\ at <= Rotation!BatchEnd
      /\ wrapped' = [wrapped EXCEPT ![at] = journal.request]
      /\ leftovers' = leftovers \ {at} /\ at' = at + 1 /\ step' = "rewrap"
      /\ UNCHANGED <<asked, journal, configured, staged, archived, manifest, crashes>>
  BY DEF Rotation!RenameRecord, RotationIInv, RotationStepOK, Reached
<1>2. at \in Rotation!Records /\ at \in Nat /\ Rotation!BatchEnd' = Rotation!BatchEnd /\ Rotation!BatchEnd \in Nat
  BY <1>1, BatchEndBounds DEF Rotation!Records, Reached, Rotation!BatchEnd, RotationIInv,
       Rotation!TypeOK
<1>3. /\ \A n \in Rotation!Records : wrapped'[n] = IF n = at THEN journal.request ELSE wrapped[n]
      /\ wrapped' \in [Rotation!Records -> Rotation!Versions]
  BY <1>1, <1>2 DEF RotationIInv, Rotation!TypeOK, FilesOK, JournalOK, Rotation!Versions
<1>4. FilesOK'
  BY <1>1, <1>3, RewrappedKeeps
<1>5. Reached'
  BY <1>1, <1>2, <1>3, BatchEndBounds DEF Reached, Rotation!Records
<1>6. Rotation!TypeOK'
  BY <1>1, <1>2, <1>3 DEF RotationIInv, Rotation!TypeOK, Rotation!Steps
<1> QED
  BY <1>1, <1>2, <1>4, <1>5, <1>6 DEF RotationIInv, RotationStepOK

\* One transaction rewraps the batch.
LEMMA RewrapIdentityKeeps ==
  ASSUME Rotation!RootRotationAssumption, RotationIInv, Rotation!RewrapIdentity, UNCHANGED target
  PROVE  RotationIInv'
<1>1. /\ journal.phase = "rewrapping" /\ Reached /\ at <= Rotation!BatchEnd
      /\ wrapped' = [n \in Rotation!Records |-> IF n \in at..Rotation!BatchEnd THEN journal.request
                                                             ELSE wrapped[n]]
      /\ at' = Rotation!BatchEnd + 1 /\ step' = "rewrap"
      /\ UNCHANGED <<asked, journal, configured, staged, archived, manifest, leftovers, crashes>>
  BY DEF Rotation!RewrapIdentity, RotationIInv, RotationStepOK, Reached
<1>2. /\ at \in Nat /\ Rotation!BatchEnd' = Rotation!BatchEnd /\ Rotation!BatchEnd \in Nat
      /\ journal.cursor \in Nat /\ journal.cursor <= Rotation!BatchEnd
  BY <1>1, BatchEndBounds DEF Rotation!BatchEnd, RotationIInv, Rotation!TypeOK
<1>3. /\ \A n \in Rotation!Records : wrapped'[n] = IF n \in at..Rotation!BatchEnd THEN journal.request
                                                               ELSE wrapped[n]
      /\ wrapped' \in [Rotation!Records -> Rotation!Versions]
  BY <1>1 DEF RotationIInv, Rotation!TypeOK, FilesOK, JournalOK, Rotation!Versions
<1>4. FilesOK'
  BY <1>1, <1>3, RewrappedKeeps DEF RotationIInv, FilesOK
<1>5. Reached'
  BY <1>1, <1>2, <1>3 DEF Reached, Rotation!Records
<1>6. Rotation!TypeOK'
  BY <1>1, <1>2, <1>3 DEF RotationIInv, Rotation!TypeOK, Rotation!Steps
<1> QED
  BY <1>1, <1>2, <1>4, <1>5, <1>6 DEF RotationIInv, RotationStepOK

\* The cursor moves on, or every record is done with.
LEMMA BatchDoneKeeps ==
  ASSUME Rotation!RootRotationAssumption, RotationIInv, Rotation!BatchDone, UNCHANGED target
  PROVE  RotationIInv'
<1> DEFINE c == IF Rotation!BatchEnd < RecordCount THEN Rotation!BatchEnd ELSE 0
<1>1. /\ journal.phase = "rewrapping" /\ Reached /\ at > Rotation!BatchEnd /\ at <= Rotation!BatchEnd + 1
      /\ journal' = [journal EXCEPT !.cursor = c]
      /\ step' = (IF Rotation!BatchEnd < RecordCount THEN "batch" ELSE "verify")
      /\ UNCHANGED <<asked, at, configured, staged, archived, manifest, wrapped, leftovers, crashes>>
  BY DEF Rotation!BatchDone, RotationIInv, RotationStepOK, Reached
<1>2. c \in Nat /\ c <= RecordCount /\ c <= Rotation!BatchEnd
  BY <1>1, BatchEndBounds
<1>3. \A n \in Rotation!Records : n <= Rotation!BatchEnd => wrapped[n] = journal.request
  BY <1>1, BatchEndBounds DEF Reached, Rotation!Records, RotationIInv, Rotation!TypeOK
<1>4. ~(Rotation!BatchEnd < RecordCount) => \A n \in Rotation!Records : wrapped[n] = journal.request
  BY <1>1, <1>3, BatchEndBounds DEF Rotation!Records
<1>5. \A n \in Rotation!Records : n <= c => wrapped[n] = journal.request
  BY <1>1, <1>2, <1>3, BatchEndBounds DEF Rotation!Records
<1> HIDE DEF c
<1>6. /\ journal' \in [phase : Rotation!Phases, request : Requests \cup {NoVersion},
                       old : Rotation!Versions \cup {NoVersion}, cursor : Nat, links : 0..2]
      /\ journal'.phase = "rewrapping" /\ journal'.request = journal.request
      /\ journal'.old = journal.old /\ journal'.cursor = c /\ journal'.links = journal.links
  BY <1>1, <1>2 DEF RotationIInv, Rotation!TypeOK
<1>7. FilesOK'
  <2>1. KeysOK'
    BY <1>1, <1>6 DEF RotationIInv, FilesOK, KeysOK, Past
  <2>2. JournalOK'
    BY <1>1, <1>2, <1>6 DEF RotationIInv, FilesOK, JournalOK, Past, Uncommitted
  <2>3. PhaseOK'
    BY <1>1, <1>5, <1>6 DEF RotationIInv, FilesOK, PhaseOK, OldInForce, StagedReady
  <2> QED
    BY <1>1, <2>1, <2>2, <2>3 DEF RotationIInv, FilesOK
<1>8. Rotation!TypeOK'
  BY <1>1, <1>6 DEF RotationIInv, Rotation!TypeOK, Rotation!Steps
<1>9. RotationStepOK'
  BY <1>1, <1>4, <1>6 DEF RotationStepOK, WrappedBy
<1> QED
  BY <1>7, <1>8, <1>9 DEF RotationIInv

\* verifyZero.
LEMMA VerifyKeeps == ASSUME RotationIInv, Rotation!Verify, UNCHANGED target PROVE RotationIInv'
<1>1. journal.phase = "rewrapping" /\ WrappedBy(journal.request)
  BY DEF Rotation!Verify, RotationIInv, RotationStepOK
<1>2. CASE leftovers = {}
  <2>1. Rotation!WriteJournal("verified") /\ step' = "switch" /\ UNCHANGED <<asked, at, crashes>>
    BY <1>1, <1>2 DEF Rotation!Verify, Rotation!Goto, WrappedBy
  <2>2. /\ journal' \in [phase : Rotation!Phases, request : Requests \cup {NoVersion},
                         old : Rotation!Versions \cup {NoVersion}, cursor : Nat, links : 0..2]
        /\ journal'.phase = "verified" /\ journal'.request = journal.request
        /\ journal'.old = journal.old /\ journal'.cursor = journal.cursor
        /\ journal'.links = journal.links
        /\ UNCHANGED <<configured, staged, archived, manifest, wrapped, leftovers>>
    BY <1>1, <2>1, PhaseWritten DEF Rotation!Phases, Rotation!Rewraps
  <2>3. KeysOK'
    BY <2>2 DEF RotationIInv, FilesOK, KeysOK, Past
  <2>4. JournalOK'
    BY <1>1, <2>2 DEF RotationIInv, FilesOK, JournalOK, Past, Uncommitted
  <2>5. PhaseOK'
    BY <1>1, <2>2 DEF RotationIInv, FilesOK, PhaseOK, OldInForce, StagedReady, SwitchOK,
         WrappedBy
  <2>6. FilesOK'
    BY <2>2, <2>3, <2>4, <2>5 DEF RotationIInv, FilesOK
  <2> QED
    BY <2>1, <2>2, <2>6 DEF RotationIInv, Rotation!TypeOK, Rotation!Steps, RotationStepOK
<1>3. CASE leftovers # {}
  <2>1. Rotation!Fail
    BY <1>3 DEF Rotation!Verify
  <2> QED
    BY <1>1, <1>3, <2>1, FailKeeps DEF RotationIInv, FilesOK
<1> QED
  BY <1>2, <1>3

-----------------------------------------------------------------------------
(* The switch, the commit, and ordinary service.                           *)

\* A rotation that is verified knows its two roots apart.
LEMMA SwitchFacts ==
  ASSUME Rotation!RootRotationAssumption, RotationIInv, journal.phase = "verified"
  PROVE  /\ journal.request \in Requests /\ journal.request \notin archived
         /\ journal.old \in Rotation!Versions /\ journal.old # journal.request
         /\ journal.old # NoVersion /\ journal.request # NoVersion
         /\ SwitchOK /\ WrappedBy(journal.request) /\ Uncommitted /\ journal.links = 1
         /\ \A r \in Requests : r # journal.request => staged[r] = "absent"
BY VersionsDiffer DEF RotationIInv, Rotation!TypeOK, FilesOK, JournalOK, KeysOK, PhaseOK,
     Past, Rotation!Versions

\* Every arrangement that switchRootPhysicalVersion makes is one it goes on from.
LEMMA KeysSet ==
  ASSUME Rotation!RootRotationAssumption, RotationIInv, step = "switch", journal.phase = "verified",
         NEW c, NEW a, NEW s, Rotation!SetKeys(c, a, s), UNCHANGED target,
         a \in {archived, archived \cup {journal.old}}, s \in {"absent", "ready"},
         \/ c = journal.old /\ s = "ready"
         \/ c = NoVersion /\ journal.old \in a /\ s = "ready"
         \/ c = journal.request /\ journal.old \in a
  PROVE  RotationIInv'
<1>1. /\ configured' = c /\ archived' = a
      /\ staged' = [staged EXCEPT ![journal.request] = s]
      /\ UNCHANGED <<journal, manifest, wrapped, leftovers, asked, at, crashes>> /\ step' = "switch"
  BY DEF Rotation!SetKeys, Rotation!Goto
<1>2. /\ journal.request \in Requests /\ journal.request \notin archived
      /\ journal.old \in Rotation!Versions /\ journal.old # journal.request
      /\ \A r \in Requests : r # journal.request => staged[r] = "absent"
  BY SwitchFacts
<1>3. /\ staged' \in [Requests -> {"absent", "linked", "raw", "ready"}]
      /\ staged'[journal.request] = s
      /\ \A r \in Requests : r # journal.request => staged'[r] = "absent"
  BY <1>1, <1>2 DEF RotationIInv, Rotation!TypeOK
<1>4. Rotation!TypeOK'
  BY <1>1, <1>2, <1>3 DEF RotationIInv, Rotation!TypeOK, Rotation!Versions, Rotation!Steps
<1>5. FilesOK'
  <2>1. KeysOK'
    BY <1>1, <1>3 DEF RotationIInv, FilesOK, KeysOK, JournalOK, Past
  <2>2. JournalOK'
    BY <1>1, <1>2 DEF RotationIInv, FilesOK, JournalOK, Past, Uncommitted
  <2>3. SwitchOK'
    BY <1>1, <1>3 DEF SwitchOK, StagedReady, OldArchived, NewInForce
  <2>4. WrappedBy(journal.request)'
    BY <1>1 DEF RotationIInv, FilesOK, PhaseOK, WrappedBy
  <2>5. PhaseOK'
    BY <1>1, <2>3, <2>4 DEF PhaseOK, WrappedBy
  <2> QED
    BY <1>1, <2>1, <2>2, <2>5 DEF RotationIInv, FilesOK
<1>6. RotationStepOK'
  BY <1>1 DEF RotationStepOK
<1> QED
  BY <1>4, <1>5, <1>6 DEF RotationIInv

LEMMA UnlinkConfiguredKeeps ==
  ASSUME Rotation!RootRotationAssumption, RotationIInv, Rotation!UnlinkConfigured, UNCHANGED target
  PROVE  RotationIInv'
<1>1. /\ step = "switch" /\ journal.phase = "verified"
      /\ configured = journal.old /\ journal.old \in archived
      /\ Rotation!SetKeys(NoVersion, archived, staged[journal.request])
  BY DEF Rotation!UnlinkConfigured, RotationIInv, RotationStepOK
<1>2. staged[journal.request] = "ready"
  BY <1>1, SwitchFacts DEF SwitchOK, StagedReady, NewInForce
<1> QED
  BY <1>1, <1>2, KeysSet

LEMMA ArchiveRootKeeps ==
  ASSUME Rotation!RootRotationAssumption, RotationIInv, Rotation!ArchiveRoot, UNCHANGED target
  PROVE  RotationIInv'
<1>1. /\ step = "switch" /\ journal.phase = "verified" /\ configured = journal.old
      /\ Rotation!SetKeys(configured, archived \cup {journal.old}, "ready")
  BY DEF Rotation!ArchiveRoot, Rotation!ConfiguredValid, RotationIInv, RotationStepOK
<1> QED
  BY <1>1, KeysSet

LEMMA InstallRootKeeps ==
  ASSUME Rotation!RootRotationAssumption, RotationIInv, Rotation!InstallRoot, UNCHANGED target
  PROVE  RotationIInv'
<1>1. /\ step = "switch" /\ journal.phase = "verified" /\ journal.old \in archived
      /\ Rotation!SetKeys(journal.request, archived, "ready")
  BY DEF Rotation!InstallRoot, Rotation!ArchivedValid, RotationIInv, RotationStepOK
<1> QED
  BY <1>1, KeysSet

LEMMA UnlinkStagedKeeps ==
  ASSUME Rotation!RootRotationAssumption, RotationIInv, Rotation!UnlinkStaged, UNCHANGED target
  PROVE  RotationIInv'
<1>1. /\ step = "switch" /\ journal.phase = "verified" /\ configured = journal.request
      /\ Rotation!SetKeys(configured, archived, "absent")
  BY DEF Rotation!UnlinkStaged, RotationIInv, RotationStepOK
<1>2. journal.old \in archived
  BY <1>1, SwitchFacts DEF SwitchOK, OldArchived
<1> QED
  BY <1>1, <1>2, KeysSet

\* Both ends are as they should be whenever no step of the switch is left.
LEMMA SwitchedKeeps ==
  ASSUME Rotation!RootRotationAssumption, RotationIInv, Rotation!Switched, UNCHANGED target
  PROVE  RotationIInv'
<1>1. step = "switch" /\ journal.phase = "verified"
  BY DEF Rotation!Switched, RotationIInv, RotationStepOK
<1>2. /\ journal.request \in Requests /\ journal.request \notin archived
      /\ journal.old \in Rotation!Versions /\ journal.old # journal.request
      /\ journal.old # NoVersion /\ journal.request # NoVersion
      /\ SwitchOK /\ WrappedBy(journal.request) /\ Uncommitted
      /\ \A r \in Requests : r # journal.request => staged[r] = "absent"
  BY <1>1, SwitchFacts
<1>3. NewInForce /\ OldArchived
  <2>1. CASE configured = journal.old /\ StagedReady
    BY <1>2, <2>1 DEF Rotation!Switched, Rotation!StagedValid, StagedReady
  <2>2. CASE configured = NoVersion /\ OldArchived /\ StagedReady
    BY <1>2, <2>2 DEF Rotation!Switched, Rotation!StagedValid, Rotation!ArchivedValid,
         StagedReady, OldArchived
  <2>3. CASE configured = journal.request /\ OldArchived /\ StagedReady
    BY <2>3 DEF Rotation!Switched, StagedReady
  <2>4. CASE NewInForce /\ OldArchived
    BY <2>4
  <2> QED
    BY <1>2, <2>1, <2>2, <2>3, <2>4 DEF SwitchOK
<1>4. Rotation!ConfiguredValid(journal.request) /\ Rotation!ArchivedValid(journal.old)
  BY <1>2, <1>3 DEF Rotation!ConfiguredValid, Rotation!ArchivedValid, NewInForce,
       OldArchived
<1>5. Rotation!WriteJournal("root_switched") /\ step' = "commit" /\ UNCHANGED <<asked, at, crashes>>
  BY <1>4 DEF Rotation!Switched, Rotation!Goto
<1>6. /\ journal' \in [phase : Rotation!Phases, request : Requests \cup {NoVersion},
                       old : Rotation!Versions \cup {NoVersion}, cursor : Nat, links : 0..2]
      /\ journal'.phase = "root_switched" /\ journal'.request = journal.request
      /\ journal'.old = journal.old /\ journal'.cursor = journal.cursor
      /\ journal'.links = journal.links
      /\ UNCHANGED <<configured, staged, archived, manifest, wrapped, leftovers>>
  BY <1>1, <1>5, PhaseWritten DEF Rotation!Phases
<1>7. Uncommitted'
  BY <1>2, <1>6 DEF Uncommitted
<1>8. FilesOK'
  <2>1. KeysOK'
    BY <1>6 DEF RotationIInv, FilesOK, KeysOK, Past
  <2>2. JournalOK'
    BY <1>1, <1>6 DEF RotationIInv, FilesOK, JournalOK, Past
  <2>3. NewInForce' /\ OldArchived' /\ WrappedBy(journal.request)'
    BY <1>2, <1>3, <1>6 DEF NewInForce, OldArchived, WrappedBy
  <2>4. PhaseOK'
    BY <1>6, <1>7, <2>3 DEF PhaseOK, WrappedBy
  <2> QED
    BY <1>6, <2>1, <2>2, <2>4 DEF RotationIInv, FilesOK
<1> QED
  BY <1>5, <1>6, <1>7, <1>8 DEF RotationIInv, Rotation!TypeOK, Rotation!Steps,
       RotationStepOK

\* The receipt.
LEMMA CommitManifestKeeps ==
  ASSUME Rotation!RootRotationAssumption, RotationIInv, Rotation!CommitManifest, UNCHANGED target
  PROVE  RotationIInv'
<1>1. /\ journal.phase = "root_switched" /\ Uncommitted /\ step' = "remove"
      /\ manifest' = [root |-> journal.request,
                      receipts |-> manifest.receipts \cup {journal.request}]
      /\ UNCHANGED <<journal, configured, staged, archived, wrapped, leftovers, asked, at, crashes>>
  BY DEF Rotation!CommitManifest, Rotation!Goto, RotationIInv, RotationStepOK
<1>2. /\ journal.request \in Requests /\ journal.request \notin archived
      /\ journal.old \in Past /\ NewInForce /\ OldArchived /\ WrappedBy(journal.request)
  BY <1>1 DEF RotationIInv, FilesOK, JournalOK, PhaseOK
<1>3. Committed' /\ Past \subseteq Past' /\ journal.request \in Past'
  BY <1>1 DEF Committed, Past
<1>4. manifest' \in [root : Rotation!Versions, receipts : SUBSET Requests]
  BY <1>1, <1>2 DEF RotationIInv, Rotation!TypeOK, Rotation!Versions
<1>5. FilesOK'
  <2>1. KeysOK'
    BY <1>1, <1>3 DEF RotationIInv, FilesOK, KeysOK
  <2>2. JournalOK'
    BY <1>1, <1>3 DEF RotationIInv, FilesOK, JournalOK
  <2>3. NewInForce' /\ OldArchived' /\ WrappedBy(journal.request)'
    BY <1>1, <1>2 DEF NewInForce, OldArchived, WrappedBy
  <2>4. PhaseOK'
    BY <1>1, <1>3, <2>3 DEF PhaseOK, WrappedBy
  <2> QED
    BY <1>1, <2>1, <2>2, <2>4 DEF RotationIInv, FilesOK
<1> QED
  BY <1>1, <1>3, <1>4, <1>5 DEF RotationIInv, Rotation!TypeOK, Rotation!Steps,
       RotationStepOK

LEMMA RemoveJournalKeeps ==
  ASSUME Rotation!RootRotationAssumption, RotationIInv, Rotation!RemoveJournal, UNCHANGED target
  PROVE  RotationIInv'
<1>1. /\ journal.phase = "root_switched" /\ Committed /\ step' = "provision"
      /\ journal' = Rotation!NoJournal
      /\ UNCHANGED <<manifest, configured, staged, archived, wrapped, leftovers, asked, at, crashes>>
  BY DEF Rotation!RemoveJournal, Rotation!Goto, RotationIInv, RotationStepOK
<1>2. /\ journal.request \in Requests /\ journal.request \notin archived
      /\ configured = journal.request /\ staged[journal.request] = "absent"
      /\ \A n \in Rotation!Records : wrapped[n] = manifest.root
      /\ manifest.root = journal.request
  BY <1>1 DEF RotationIInv, FilesOK, JournalOK, PhaseOK, NewInForce, WrappedBy, Committed
<1>3. journal'.phase = "none"
  BY <1>1 DEF Rotation!NoJournal
<1>4. Rotation!NoJournal \in [phase : Rotation!Phases, request : Requests \cup {NoVersion},
                     old : Rotation!Versions \cup {NoVersion}, cursor : Nat, links : 0..2]
  BY DEF Rotation!NoJournal, Rotation!Phases
<1>5. FilesOK'
  <2>1. KeysOK'
    BY <1>1, <1>2 DEF RotationIInv, FilesOK, KeysOK, Past
  <2>2. JournalOK'
    BY <1>3 DEF JournalOK
  <2>3. PhaseOK'
    BY <1>1, <1>2, <1>3 DEF PhaseOK, WrappedBy
  <2> QED
    BY <1>1, <2>1, <2>2, <2>3 DEF RotationIInv, FilesOK
<1> QED
  BY <1>1, <1>3, <1>4, <1>5 DEF RotationIInv, Rotation!TypeOK, Rotation!Steps,
       RotationStepOK

\* The active root is always valid when no rotation is under way.
LEMMA ProvisionKeeps ==
  ASSUME Rotation!RootRotationAssumption, RotationIInv, Rotation!Provision, UNCHANGED target
  PROVE  RotationIInv'
<1>1. journal.phase = "none"
  BY DEF Rotation!Provision, RotationIInv, RotationStepOK
<1>2. CASE Rotation!ConfiguredValid(manifest.root)
  <2>1. /\ leftovers' = {} /\ step' = "serving"
        /\ UNCHANGED <<journal, configured, staged, archived, manifest, wrapped, asked, at, crashes>>
    BY <1>2 DEF Rotation!Provision, Rotation!Goto
  <2>2. FilesOK'
    BY <2>1 DEF RotationIInv, FilesOK, KeysOK, JournalOK, PhaseOK, WrappedBy, Past,
         Uncommitted, Committed,
       OldInForce, StagedReady, OldArchived, NewInForce, SwitchOK
  <2> QED
    BY <1>1, <2>1, <2>2 DEF RotationIInv, Rotation!TypeOK, Rotation!Steps, RotationStepOK
<1>3. CASE ~Rotation!ConfiguredValid(manifest.root)
  <2>1. Rotation!Fail
    BY <1>3 DEF Rotation!Provision
  <2> QED
    BY <1>1, <2>1, FailKeeps
<1> QED
  BY <1>2, <1>3

LEMMA RotationStopKeeps == ASSUME RotationIInv, Rotation!Stop, UNCHANGED target PROVE RotationIInv'
<1>1. step' = "down" /\ asked' = NoVersion /\ at' = 0 /\ UNCHANGED <<Rotation!files, crashes>>
  BY DEF Rotation!Stop
<1>2. FilesOK'
  BY <1>1, FilesKept DEF RotationIInv
<1> QED
  BY <1>1, <1>2 DEF RotationIInv, Rotation!TypeOK, Rotation!files, Rotation!Steps,
       RotationStepOK

\* The process may die at any step.
LEMMA CrashKeeps == ASSUME RotationIInv, Rotation!Crash, UNCHANGED target PROVE RotationIInv'
<1>1. /\ crashes' = crashes + 1 /\ step' = "down" /\ asked' = NoVersion /\ at' = 0
      /\ UNCHANGED <<journal, configured, staged, archived, manifest, wrapped>>
      /\ UNCHANGED leftovers \/ (target = "vault" /\ \E n \in Rotation!Records : leftovers' = {n})
  BY DEF Rotation!Crash
<1>2. FilesOK'
  BY <1>1 DEF RotationIInv, FilesOK, KeysOK, JournalOK, PhaseOK, WrappedBy, Past,
       Uncommitted, Committed,
     OldInForce, StagedReady, OldArchived, NewInForce, SwitchOK
<1>3. Rotation!TypeOK'
  BY <1>1 DEF RotationIInv, Rotation!TypeOK, Rotation!Steps
<1> QED
  BY <1>1, <1>2, <1>3 DEF RotationIInv, RotationStepOK

-----------------------------------------------------------------------------
(* The theorems.                                                           *)

\* The component without its fairness.
RotationSafety == Rotation!Init /\ [][Rotation!Next]_(Rotation!vars)

LEMMA RotationInitHolds == ASSUME Rotation!RootRotationAssumption, Rotation!Init PROVE RotationIInv
<1>1. Rotation!NoJournal \in [phase : Rotation!Phases, request : Requests \cup {NoVersion},
                     old : Rotation!Versions \cup {NoVersion}, cursor : Nat, links : 0..2]
      /\ Rotation!NoJournal.phase = "none"
  BY DEF Rotation!NoJournal, Rotation!Phases
<1>2. Rotation!TypeOK
  BY <1>1 DEF Rotation!Init, Rotation!TypeOK, Rotation!Steps, Rotation!Versions
<1>3. FilesOK
  BY <1>1 DEF Rotation!Init, FilesOK, KeysOK, JournalOK, PhaseOK, WrappedBy, Past
<1>4. RotationStepOK
  BY DEF Rotation!Init, RotationStepOK
<1> QED
  BY <1>2, <1>3, <1>4 DEF RotationIInv

LEMMA NextHolds == ASSUME Rotation!RootRotationAssumption, RotationIInv, Rotation!Next PROVE RotationIInv'
<1>1. UNCHANGED target
  BY DEF Rotation!Next
<1>2. ASSUME NEW q \in Requests \cup {NoVersion}, Rotation!Start(q)
      PROVE  RotationIInv'
  BY <1>1, <1>2, StartKeeps
<1>3. CASE Rotation!Preflight \/ Rotation!CreateJournal \/ Rotation!JournalCreated \/ Rotation!StageKey \/ Rotation!UnlinkKeyTemp
           \/ Rotation!OwnKey \/ Rotation!JournalStaged
  BY <1>1, <1>3, PreflightKeeps, CreateJournalKeeps, JournalCreatedKeeps, StageKeyKeeps,
     UnlinkKeyTempKeeps, OwnKeyKeeps, JournalStagedKeeps
<1>4. CASE Rotation!Inventory \/ Rotation!Activate \/ Rotation!BeginBatch \/ Rotation!RewrapVault \/ Rotation!RenameRecord
           \/ Rotation!RewrapIdentity \/ Rotation!BatchDone \/ Rotation!Verify
  BY <1>1, <1>4, InventoryKeeps, ActivateKeeps, BeginBatchKeeps, RewrapVaultKeeps,
     RenameRecordKeeps, RewrapIdentityKeeps, BatchDoneKeeps, VerifyKeeps
<1>5. CASE Rotation!UnlinkConfigured \/ Rotation!ArchiveRoot \/ Rotation!InstallRoot \/ Rotation!UnlinkStaged \/ Rotation!Switched
  BY <1>1, <1>5, UnlinkConfiguredKeeps, ArchiveRootKeeps, InstallRootKeeps,
       UnlinkStagedKeeps,
     SwitchedKeeps
<1>6. CASE Rotation!CommitManifest \/ Rotation!RemoveJournal \/ Rotation!Provision
  BY <1>1, <1>6, CommitManifestKeeps, RemoveJournalKeeps, ProvisionKeeps
<1>7. CASE Rotation!Stop \/ Rotation!Crash
  BY <1>1, <1>7, RotationStopKeeps, CrashKeeps
<1> QED
  BY <1>2, <1>3, <1>4, <1>5, <1>6, <1>7 DEF Rotation!Next, Rotation!Run

LEMMA RotationStutterHolds == ASSUME RotationIInv, UNCHANGED Rotation!vars PROVE RotationIInv'
<1>1. FilesOK'
  BY FilesKept DEF Rotation!vars, Rotation!files, RotationIInv
<1>2. RotationStepOK'
  BY DEF Rotation!vars, RotationIInv, RotationStepOK, Uncommitted, Committed, StagedReady,
       Reached, Rotation!BatchEnd, WrappedBy
<1> QED
  BY <1>1, <1>2 DEF RotationIInv, Rotation!TypeOK, Rotation!vars

\* Whatever crashes, stops and starts come in between, every phase of the journal
\* finds the key files, records and receipts its step of a rotation needs
\* (rootRotationCoordinator.ts, rootRotation.ts).
THEOREM RotationInductive == ASSUME Rotation!RootRotationAssumption PROVE RotationSafety => []RotationIInv
<1>1. RotationIInv /\ [Rotation!Next]_(Rotation!vars) => RotationIInv'
  BY NextHolds, RotationStutterHolds
<1> QED
  BY RotationInitHolds, <1>1, PTL DEF RotationSafety

\* No root that a record needs is without a file, in any phase.
LEMMA RootsAreKept == ASSUME Rotation!RootRotationAssumption, RotationIInv PROVE Rotation!RootsKept
<1> SUFFICES ASSUME NEW n \in Rotation!Records
             PROVE  \/ wrapped[n] = configured
                    \/ wrapped[n] \in archived
                    \/ wrapped[n] \in Requests /\ staged[wrapped[n]] = "ready"
  BY DEF Rotation!RootsKept
<1>1. journal.phase \in Rotation!Phases /\ (journal.phase # "none" => journal.request \in Requests)
  BY DEF RotationIInv, Rotation!TypeOK, FilesOK, JournalOK
<1>2. CASE journal.phase \in {"none", "created", "staged", "activated"}
  BY <1>2 DEF RotationIInv, FilesOK, PhaseOK, OldInForce, WrappedBy
<1>3. CASE journal.phase = "rewrapping"
  BY <1>1, <1>3 DEF RotationIInv, FilesOK, PhaseOK, OldInForce, StagedReady
<1>4. CASE journal.phase = "verified"
  BY <1>1, <1>4 DEF RotationIInv, FilesOK, PhaseOK, SwitchOK, StagedReady, NewInForce,
       WrappedBy
<1>5. CASE journal.phase = "root_switched"
  BY <1>5 DEF RotationIInv, FilesOK, PhaseOK, NewInForce, WrappedBy
<1> QED
  BY <1>1, <1>2, <1>3, <1>4, <1>5 DEF Rotation!Phases, Rotation!Rewraps

\* A rotation that a crash interrupts at any step serves no record under another
\* root than its own, loses no root a record needs, and is resumed by every later
\* start from its switch or its identity rewrap (rootRotation.ts
\* switchRootPhysicalVersion, rootRotationCoordinator.ts).
THEOREM RotationStaysSafe == ASSUME Rotation!RootRotationAssumption PROVE RotationSafety => []Rotation!RotationSafe
<1>1. RotationIInv => Rotation!RotationSafe
  <2>1. ASSUME RotationIInv
        PROVE  Rotation!ServedUnderOneRoot
    BY <2>1 DEF Rotation!ServedUnderOneRoot, RotationIInv, RotationStepOK, FilesOK, PhaseOK,
         WrappedBy
  <2>2. ASSUME RotationIInv
        PROVE  Rotation!SwitchResumes /\ Rotation!IdentityRewrapResumes
    BY <2>2 DEF Rotation!SwitchResumes, Rotation!IdentityRewrapResumes, Rotation!Unforced,
         RotationIInv, RotationStepOK
  <2> QED
    BY <2>1, <2>2, RootsAreKept DEF Rotation!RotationSafe, RotationIInv
<1> QED
  BY <1>1, RotationInductive, PTL

\* The active root moves only to the root of a request that has no receipt, which it
\* gets in the same replacement of the manifest (commitManifestRootRotation).
THEOREM ReceiptsStayFinal == ASSUME Rotation!RootRotationAssumption PROVE RotationSafety => Rotation!ReceiptsAreFinal
<1>1. RotationIInv /\ [Rotation!Next]_(Rotation!vars) =>
        [/\ manifest.receipts \subseteq manifest'.receipts
         /\ manifest'.root # manifest.root =>
              manifest'.root \in manifest'.receipts \ manifest.receipts]_(Rotation!vars)
  <2> SUFFICES ASSUME RotationIInv, Rotation!Next
               PROVE  /\ manifest.receipts \subseteq manifest'.receipts
                      /\ manifest'.root # manifest.root =>
                           manifest'.root \in manifest'.receipts \ manifest.receipts
    OBVIOUS
  <2>1. CASE Rotation!CommitManifest
    BY <2>1 DEF Rotation!CommitManifest, RotationIInv, RotationStepOK, Uncommitted
  <2>2. CASE ~Rotation!CommitManifest
    <3>1. UNCHANGED manifest
      <4>1. CASE \E q \in Requests \cup {NoVersion} : Rotation!Start(q)
        BY <4>1 DEF Rotation!Start, Rotation!files
      <4>2. CASE Rotation!Preflight \/ Rotation!CreateJournal \/ Rotation!JournalCreated \/ Rotation!StageKey \/ Rotation!UnlinkKeyTemp
                 \/ Rotation!OwnKey \/ Rotation!JournalStaged
        BY <4>2 DEF Rotation!Preflight, Rotation!CreateJournal, Rotation!JournalCreated,
             Rotation!StageKey, Rotation!UnlinkKeyTemp, Rotation!OwnKey,
           Rotation!JournalStaged, Rotation!SetStaged, Rotation!WriteJournal, Rotation!Fail,
           Rotation!files
      <4>3. CASE Rotation!Inventory \/ Rotation!Activate \/ Rotation!BeginBatch \/ Rotation!RewrapVault \/ Rotation!RenameRecord
                 \/ Rotation!RewrapIdentity \/ Rotation!BatchDone \/ Rotation!Verify
        BY <4>3 DEF Rotation!Inventory, Rotation!Activate, Rotation!BeginBatch,
             Rotation!RewrapVault, Rotation!RenameRecord, Rotation!RewrapIdentity,
           Rotation!BatchDone, Rotation!Verify, Rotation!WriteJournal, Rotation!Fail,
           Rotation!files
      <4>4. CASE Rotation!UnlinkConfigured \/ Rotation!ArchiveRoot \/ Rotation!InstallRoot \/ Rotation!UnlinkStaged \/ Rotation!Switched
        BY <4>4 DEF Rotation!UnlinkConfigured, Rotation!ArchiveRoot, Rotation!InstallRoot,
             Rotation!UnlinkStaged, Rotation!Switched, Rotation!SetKeys,
           Rotation!WriteJournal, Rotation!Fail, Rotation!files
      <4>5. CASE Rotation!RemoveJournal \/ Rotation!Provision \/ Rotation!Stop \/ Rotation!Crash
        BY <4>5 DEF Rotation!RemoveJournal, Rotation!Provision, Rotation!Stop,
             Rotation!Crash, Rotation!Fail, Rotation!files
      <4> QED
        BY <2>2, <4>1, <4>2, <4>3, <4>4, <4>5 DEF Rotation!Next, Rotation!Run
    <3> QED
      BY <3>1
  <2> QED
    BY <2>1, <2>2
<1> QED
  BY <1>1, RotationInductive, PTL DEF RotationSafety, Rotation!ReceiptsAreFinal

-----------------------------------------------------------------------------
(* Commit: a restore and its recovery.                                      *)

\* What the theorems assume of the bounds.
CommitBounds == MaxCommits \in Nat /\ MaxStops \in Nat

Numbers == 0..MaxCommits

Phases == {"none", "inactive", "maintenance", "snapshot_ready", "vault_applied",
           "database_committed", "health_passed"}
Previews == {"none", "claimed", "failed", "completed"}
Rows == [data : Numbers, phase : Phases, op : Numbers, preview : Previews]

Journals == Commit!Recorded \cup {"none", "snapshot_ready", "health_passed", "rolled_back"}
Directories == [journal : Journals, op : Numbers, expired : BOOLEAN,
                database : Rows, vault : Numbers \cup {Commit!NoVault}]

\* The steps of a commit before the vault is replaced, after it, and of its undoing.
Early  == {"exclude", "prepare", "prepare_vault", "prepare_journal", "snapshot_ready", "vault"}
Late   == {"journal_vault", "phase_vault", "replace", "journal_database", "health",
           "phase_health", "journal_health", "remove", "clear"}
Undoing == {"rollback", "rollback_file", "rollback_journal"}

CommitSteps == {"none", "catch"} \cup Early \cup Late \cup Undoing

Commits ==
  [step : CommitSteps, op : Numbers,
   claimed : BOOLEAN, entered : BOOLEAN, snapshot : BOOLEAN, vault : BOOLEAN,
   database : BOOLEAN]

TypesOK ==
  /\ proc \in {"up", "down", "starting", "refused"} /\ gate \in {"open", "excluded"}
  /\ com \in Commits /\ rec \in Directories
  /\ vaultStore \in Numbers /\ dbFile \in Rows /\ conn \in Rows
  /\ attached \in BOOLEAN /\ unrecorded \in BOOLEAN
  /\ commits \in Numbers /\ stops \in Nat

\* A journal that may lead to a rollback comes with both snapshots, taken of one
\* configuration.
DirectoryOK ==
  rec.journal \in Commit!Recorded \cup {"snapshot_ready"} =>
    rec.vault # Commit!NoVault /\ (~unrecorded => rec.vault = rec.database.data)

\* Only a process that is up has a commit; while its connection is on the unlinked
\* file, the state it reads there lets no other commit enter.
ProcessOK ==
  /\ proc # "up" => com = Commit!NoCommit
  /\ proc = "up" /\ attached => conn = dbFile
  /\ proc = "up" /\ ~attached => conn.phase # "inactive"

\* What a commit knows of itself at each step.
LocalsOK ==
  /\ com.step = "none" => com = Commit!NoCommit
  /\ com.step \in Early => ~com.vault /\ (com.entered <=> com.step # "exclude")
                         /\ (com.snapshot <=> com.step \in {"snapshot_ready", "vault"})
  /\ com.step \in Late \cup Undoing => com.vault
  /\ com.vault \/ com.snapshot => com.entered
  /\ com.entered => /\ gate = "excluded" /\ conn.phase # "inactive"
                    /\ attached <=> com.step # "rollback_journal"

Agree == vaultStore = dbFile.data
Safe  == Agree \/ rec.journal \in Commit!Recorded

CommitStepOK ==
  /\ com.step \in {"none", "exclude", "prepare", "catch", "rollback"} => Safe
  /\ com.step \in {"prepare_vault", "prepare_journal", "snapshot_ready", "vault",
                   "journal_database", "health", "phase_health", "journal_health",
                   "remove", "clear", "rollback_journal"} => Agree
  /\ com.step = "catch" /\ com.snapshot /\ ~com.vault => Agree
  /\ com.step \in {"prepare_vault", "prepare_journal"} => rec.database.data = vaultStore
  /\ com.step = "prepare_journal" => rec.vault = vaultStore
  /\ com.step \in {"snapshot_ready", "vault", "journal_vault"} =>
       rec.journal = "snapshot_ready"
  /\ com.step \in {"phase_vault", "replace"} => rec.journal = "vault_applied"
  /\ com.step \in {"journal_vault", "phase_vault", "replace"} => vaultStore = com.op
  /\ com.step = "rollback_file" => rec.journal \in Commit!Recorded /\ vaultStore = rec.vault

CommitIInv == /\ TypesOK /\ DirectoryOK /\ ProcessOK /\ LocalsOK
              /\ com.step = "prepare_journal" => rec.vault # Commit!NoVault
              /\ ~unrecorded => CommitStepOK

\* The invariant says what TypeOK says of the types.
LEMMA TypesHold == ASSUME CommitBounds, CommitIInv PROVE Commit!TypeOK
BY DEF CommitBounds, CommitIInv, TypesOK, ProcessOK, Commit!TypeOK, Numbers, Rows,
     Directories, Journals

-----------------------------------------------------------------------------
(* Lemmas about the records.                                                 *)

LEMMA NumbersHold ==
  ASSUME CommitBounds
  PROVE  0 \in Numbers /\ Numbers \subseteq Nat /\ Commit!NoVault \notin Numbers
BY DEF CommitBounds, Numbers, Commit!NoVault

LEMMA RowChanges ==
  ASSUME NEW r \in Rows, NEW p \in Phases, NEW o \in Numbers, NEW v \in Previews
  PROVE  /\ [r EXCEPT !.phase = p] \in Rows /\ [r EXCEPT !.preview = v] \in Rows
         /\ [r EXCEPT !.phase = p, !.op = o] \in Rows
BY DEF Rows

LEMMA Empty == ASSUME CommitBounds PROVE Commit!EmptyDirectory \in Directories /\ Commit!NoCommit \in Commits
BY NumbersHold
DEF Commit!EmptyDirectory, Directories, Journals, Commit!NoFile, Commit!Database, Rows,
     Phases, Previews,
    Commit!NoCommit, Commits, CommitSteps

\* A commit that goes on keeps its locals.
LEMMA Going ==
  ASSUME com \in Commits, NEW s \in CommitSteps, Commit!Goes(s)
  PROVE  /\ com' \in Commits /\ com'.step = s
         /\ com'.op = com.op /\ com'.entered = com.entered
         /\ com'.snapshot = com.snapshot /\ com'.vault = com.vault
BY DEF Commit!Goes, Commits

\* A transaction changes what the process reads, and the file with it.
LEMMA CommitWriting ==
  ASSUME dbFile \in Rows, proc = "up", ProcessOK, NEW r \in Rows, Commit!Writes(r)
  PROVE  /\ conn' = r /\ conn' \in Rows /\ dbFile' \in Rows
         /\ attached => conn' = dbFile'
         /\ r.data = conn.data => dbFile'.data = dbFile.data
BY DEF Commit!Writes, ProcessOK

\* The transactions after which the configuration is the same.
LEMMA Finalizing ==
  ASSUME NEW r \in Rows
  PROVE  /\ Commit!FinalizedPreview(r) \in Rows
         /\ Commit!FinalizedPreview(r).data = r.data /\ Commit!FinalizedPreview(r).phase = r.phase
BY RowChanges DEF Commit!FinalizedPreview, Rows, Previews

-----------------------------------------------------------------------------
(* Steps of a commit keep the invariant.                                     *)

\* The process, its connection and the directory, when a step leaves them alone.
Frame == UNCHANGED <<proc, dbFile, conn, attached, rec, commits, stops>>

\* A step that throws goes to the catch block, where no more is known than that the
\* stores agree or the journal records the mutation; before the vault was replaced
\* they do agree, if the snapshot is this commit's own.
LEMMA ThrowHolds ==
  ASSUME CommitBounds, CommitIInv, proc = "up", com.step \in Early \cup Late, Commit!Throws,
         UNCHANGED <<proc, gate, dbFile, conn, attached, commits, stops>>,
         \/ rec' = rec
         \/ rec' = Commit!EmptyDirectory /\ com.step \in {"prepare_vault", "prepare_journal"},
         vaultStore' \in Numbers, unrecorded' \in BOOLEAN,
         \/ unrecorded'
         \/ vaultStore' = vaultStore /\ ~unrecorded /\ com.step # "journal_vault"
  PROVE  CommitIInv'
<1>1. /\ com' \in Commits /\ com'.step = "catch" /\ com'.entered = com.entered
      /\ com'.snapshot = com.snapshot /\ com'.vault = com.vault
  BY Going DEF Commit!Throws, Commit!Goes, CommitSteps, CommitIInv, TypesOK
<1>2. TypesOK'
  BY <1>1, Empty DEF CommitIInv, TypesOK
<1>3. DirectoryOK' /\ ProcessOK' /\ LocalsOK'
  BY <1>1 DEF CommitIInv, DirectoryOK, ProcessOK, LocalsOK, Early, Late, Undoing,
              Commit!EmptyDirectory, Commit!Recorded
<1>4. ~unrecorded' => CommitStepOK'
  BY <1>1 DEF CommitIInv, CommitStepOK, LocalsOK, Agree, Safe, Early, Late, Commit!Recorded
<1> QED
  BY <1>1, <1>2, <1>3, <1>4 DEF CommitIInv

\* A step of a commit that has entered and leaves the connection alone.
LEMMA Untouched ==
  ASSUME CommitIInv, UNCHANGED <<proc, gate, conn, dbFile, attached>>,
         com.step \notin {"none", "rollback_journal"}, com.entered, com'.entered,
         com'.step \notin {"none", "exclude", "rollback_journal"},
         com'.step \in Early => ~com'.vault,
         com'.step \in Early =>
           (com'.snapshot <=> com'.step \in {"snapshot_ready", "vault"}),
         com'.step \in Late \cup Undoing => com'.vault
  PROVE  ProcessOK' /\ LocalsOK'
<1>1. proc = "up"
  BY DEF CommitIInv, ProcessOK, Commit!NoCommit
<1>2. attached /\ gate = "excluded" /\ conn.phase # "inactive"
  BY DEF CommitIInv, LocalsOK
<1>3. ProcessOK'
  BY <1>1, <1>2 DEF CommitIInv, ProcessOK
<1>4. LocalsOK'
  BY <1>2 DEF LocalsOK, Early
<1> QED
  BY <1>3, <1>4

\* withConsumedProof and claimPreviewInTransaction.
LEMMA ClaimHolds == ASSUME CommitBounds, CommitIInv, Commit!claimPreview PROVE CommitIInv'
<1> USE DEF Commit!claimPreview
<1>1. [conn EXCEPT !.preview = "claimed"] \in Rows
      /\ [conn EXCEPT !.preview = "claimed"].data = conn.data
      /\ [conn EXCEPT !.preview = "claimed"].phase = conn.phase
  BY RowChanges DEF CommitIInv, TypesOK, Rows, Previews
<1>2. conn' \in Rows /\ dbFile' \in Rows /\ dbFile'.data = dbFile.data
      /\ conn'.phase = conn.phase /\ (attached => conn' = dbFile')
  BY <1>1, CommitWriting DEF CommitIInv, TypesOK
<1>3. com' \in Commits /\ com'.step = "exclude"
      /\ ~com'.vault /\ ~com'.entered /\ ~com'.snapshot
  <2>1. commits + 1 \in Numbers
    BY DEF CommitBounds, Numbers, CommitIInv, TypesOK
  <2> QED
    BY <2>1 DEF Commit!NoCommit, Commits, CommitSteps, Early
<1>4. TypesOK'
  BY <1>2, <1>3 DEF CommitIInv, TypesOK, CommitBounds, Numbers
<1>5. DirectoryOK' /\ ProcessOK' /\ LocalsOK'
  BY <1>2, <1>3 DEF CommitIInv, DirectoryOK, ProcessOK, LocalsOK, Early, Late, Undoing
<1>6. ~unrecorded => CommitStepOK'
  BY <1>2, <1>3 DEF CommitIInv, CommitStepOK, Agree, Safe
<1> QED
  BY <1>3, <1>4, <1>5, <1>6 DEF CommitIInv

\* acquireExclusive with enterMaintenance: it throws before the commit has entered,
\* and enters on the connection that is on the file, since the state is inactive.
LEMMA EnterHolds == ASSUME CommitBounds, CommitIInv, Commit!enterMaintenance PROVE CommitIInv'
<1> USE DEF Commit!enterMaintenance, Commit!Committing, Commit!Still
<1>1. CASE Commit!Throws /\ Commit!Reads /\ UNCHANGED gate
  BY <1>1, ThrowHolds DEF CommitIInv, TypesOK, Commit!Reads, Early
<1>2. CASE /\ conn.phase = "inactive" /\ gate' = "excluded"
           /\ Commit!Writes([conn EXCEPT !.phase = "maintenance", !.op = com.op])
           /\ com' = [com EXCEPT !.step = "prepare", !.entered = TRUE]
  <2> DEFINE r == [conn EXCEPT !.phase = "maintenance", !.op = com.op]
  <2>1. r \in Rows /\ r.data = conn.data /\ r.phase = "maintenance"
    BY DEF CommitIInv, TypesOK, Rows, Phases, Commits
  <2>2. conn' = r /\ conn' \in Rows /\ dbFile' \in Rows /\ dbFile'.data = dbFile.data
        /\ conn' = dbFile' /\ attached
    <3> HIDE DEF r
    <3>1. Commit!Writes(r) /\ attached
      BY <1>2 DEF r, CommitIInv, ProcessOK, TypesOK
    <3> QED
      BY <2>1, <3>1, CommitWriting DEF CommitIInv, TypesOK
  <2> HIDE DEF r
  <2>3. com' \in Commits /\ com'.step = "prepare"
        /\ ~com'.vault /\ com'.entered /\ ~com'.snapshot
    BY <1>2 DEF CommitIInv, TypesOK, Commits, CommitSteps, LocalsOK, Early
  <2>4. TypesOK'
    BY <1>2, <2>2, <2>3 DEF CommitIInv, TypesOK
  <2>5. DirectoryOK' /\ ProcessOK' /\ LocalsOK'
    BY <1>2, <2>1, <2>2, <2>3 DEF CommitIInv, DirectoryOK, ProcessOK, LocalsOK, Early, Late,
         Undoing
  <2>6. ~unrecorded => CommitStepOK'
    BY <2>2, <2>3 DEF CommitIInv, CommitStepOK, Agree, Safe
  <2> QED
    BY <2>3, <2>4, <2>5, <2>6 DEF CommitIInv
<1> QED
  BY <1>1, <1>2

\* The snapshot of the database goes into an empty directory: nothing is recorded
\* there, so the stores agree.
LEMMA PublishDatabaseHolds == ASSUME CommitBounds, CommitIInv, Commit!PublishDatabase PROVE CommitIInv'
<1> USE DEF Commit!PublishDatabase, Commit!Committing, Commit!Still, Commit!Reads
<1>1. CASE Commit!Throws /\ UNCHANGED rec
  BY <1>1, ThrowHolds DEF CommitIInv, TypesOK, Early
<1>2. CASE ~Commit!exists /\ rec' = [rec EXCEPT !.database = dbFile] /\ Commit!Goes("prepare_vault")
  <2>1. com' \in Commits /\ com'.step = "prepare_vault" /\ com'.entered
        /\ ~com'.vault /\ ~com'.snapshot
    BY <1>2, Going DEF CommitIInv, TypesOK, CommitSteps, LocalsOK, Early
  <2>2. rec' \in Directories /\ rec'.journal = "none" /\ rec'.database = dbFile
    BY <1>2 DEF Commit!exists, CommitIInv, TypesOK, Directories
  <2>3. TypesOK'
    BY <2>1, <2>2 DEF CommitIInv, TypesOK
  <2>4. ProcessOK' /\ LocalsOK'
    BY <2>1, Untouched DEF CommitIInv, LocalsOK, Early, Late, Undoing
  <2>5. DirectoryOK' /\ (~unrecorded => CommitStepOK')
    BY <1>2, <2>1, <2>2 DEF Commit!exists, CommitIInv, DirectoryOK, CommitStepOK, Agree,
         Safe, Commit!Recorded
  <2> QED
    BY <2>1, <2>3, <2>4, <2>5 DEF CommitIInv
<1> QED
  BY <1>1, <1>2

\* The snapshot of the vault joins it, or both are removed.
LEMMA PublishVaultHolds == ASSUME CommitBounds, CommitIInv, Commit!PublishVault PROVE CommitIInv'
<1> USE DEF Commit!PublishVault, Commit!Committing, Commit!Still, Commit!Reads
<1>1. CASE Commit!Throws /\ rec' = Commit!EmptyDirectory
  BY <1>1, ThrowHolds DEF CommitIInv, TypesOK, Early
<1>2. CASE rec' = [rec EXCEPT !.vault = vaultStore] /\ Commit!Goes("prepare_journal")
  <2>1. com' \in Commits /\ com'.step = "prepare_journal" /\ com'.entered
        /\ ~com'.vault /\ ~com'.snapshot
    BY <1>2, Going DEF CommitIInv, TypesOK, CommitSteps, LocalsOK, Early
  <2>2. rec' \in Directories /\ rec'.journal = rec.journal
        /\ rec'.database = rec.database /\ rec'.vault = vaultStore /\ vaultStore # Commit!NoVault
    BY <1>2, NumbersHold DEF CommitIInv, TypesOK, Directories
  <2>3. TypesOK'
    BY <2>1, <2>2 DEF CommitIInv, TypesOK
  <2>4. ProcessOK' /\ LocalsOK'
    BY <2>1, Untouched DEF CommitIInv, LocalsOK, Early, Late, Undoing
  <2>5. DirectoryOK' /\ (~unrecorded => CommitStepOK')
    BY <1>2, <2>1, <2>2 DEF CommitIInv, DirectoryOK, CommitStepOK, Agree, Safe
  <2> QED
    BY <2>1, <2>2, <2>3, <2>4, <2>5 DEF CommitIInv
<1> QED
  BY <1>1, <1>2

\* From here the journal vouches for two snapshots of one configuration.
LEMMA WriteJournalHolds == ASSUME CommitBounds, CommitIInv, Commit!writeJournal PROVE CommitIInv'
<1> USE DEF Commit!writeJournal, Commit!Committing, Commit!Still, Commit!Reads
<1>1. CASE Commit!Throws /\ rec' = Commit!EmptyDirectory
  BY <1>1, ThrowHolds DEF CommitIInv, TypesOK, Early
<1>2. CASE /\ rec' = [rec EXCEPT !.journal = "snapshot_ready", !.op = com.op]
           /\ com' = [com EXCEPT !.step = "snapshot_ready", !.snapshot = TRUE]
  <2>1. com' \in Commits /\ com'.step = "snapshot_ready" /\ com'.entered
        /\ ~com'.vault /\ com'.snapshot
    BY <1>2 DEF CommitIInv, TypesOK, Commits, CommitSteps, LocalsOK, Early
  <2>2. rec' \in Directories /\ rec'.journal = "snapshot_ready"
        /\ rec'.database = rec.database /\ rec'.vault = rec.vault
    BY <1>2 DEF CommitIInv, TypesOK, Directories, Journals, Commits
  <2>3. TypesOK'
    BY <2>1, <2>2 DEF CommitIInv, TypesOK
  <2>4. ProcessOK' /\ LocalsOK'
    BY <2>1, Untouched DEF CommitIInv, LocalsOK, Early, Late, Undoing
  <2>5. DirectoryOK' /\ (~unrecorded => CommitStepOK')
    BY <1>2, <2>1, <2>2 DEF CommitIInv, DirectoryOK, CommitStepOK, Agree, Safe
  <2> QED
    BY <2>1, <2>3, <2>4, <2>5 DEF CommitIInv
<1> QED
  BY <1>1, <1>2

\* vault.replaceRestore: a lost reply leaves the replacement unrecorded.
LEMMA ReplaceVaultHolds == ASSUME CommitBounds, CommitIInv, Commit!ReplaceVault PROVE CommitIInv'
<1> USE DEF Commit!ReplaceVault, Commit!Committing, Commit!Still, Commit!Reads
<1>1. com.op \in Numbers
  BY DEF CommitIInv, TypesOK, Commits
<1>2. CASE Commit!Throws /\ UNCHANGED <<vaultStore, unrecorded>>
  BY <1>2, ThrowHolds DEF CommitIInv, TypesOK, Early
<1>3. CASE Commit!Throws /\ vaultStore' = com.op /\ unrecorded' = TRUE
  BY <1>1, <1>3, ThrowHolds DEF CommitIInv, TypesOK, Early
<1>4. CASE /\ vaultStore' = com.op /\ UNCHANGED unrecorded
           /\ com' = [com EXCEPT !.step = "journal_vault", !.vault = TRUE]
  <2>1. com' \in Commits /\ com'.step = "journal_vault" /\ com'.entered
        /\ com'.vault /\ com'.op = com.op
    BY <1>4 DEF CommitIInv, TypesOK, Commits, CommitSteps, LocalsOK, Early, Late
  <2>2. TypesOK'
    BY <1>1, <1>4, <2>1 DEF CommitIInv, TypesOK
  <2>3. ProcessOK' /\ LocalsOK'
    BY <2>1, Untouched DEF CommitIInv, LocalsOK, Early, Late, Undoing
  <2>4. DirectoryOK' /\ (~unrecorded => CommitStepOK')
    BY <1>4, <2>1 DEF CommitIInv, DirectoryOK, CommitStepOK
  <2> QED
    BY <1>4, <2>1, <2>2, <2>3, <2>4 DEF CommitIInv
<1> QED
  BY <1>2, <1>3, <1>4

\* recovery.advance, at any of the three phases it records.
LEMMA AdvanceHolds ==
  ASSUME CommitBounds, CommitIInv, NEW here, NEW to, NEW next,
         <<here, to, next>> \in {<<"journal_vault", "vault_applied", "phase_vault">>,
                                 <<"journal_database", "database_committed", "health">>,
                                 <<"journal_health", "health_passed", "remove">>},
         Commit!Advance(here, to, next)
  PROVE  CommitIInv'
<1> USE DEF Commit!Advance, Commit!Committing, Commit!Still, Commit!Reads
<1>1. CASE Commit!Throws /\ unrecorded' = (unrecorded \/ to = "vault_applied") /\ UNCHANGED rec
  <2>1. unrecorded' \in BOOLEAN
    BY <1>1 DEF CommitIInv, TypesOK
  <2>2. unrecorded' \/ (~unrecorded /\ com.step # "journal_vault")
    BY <1>1
  <2> QED
    BY <1>1, <2>1, <2>2, ThrowHolds DEF CommitIInv, TypesOK, Late
<1>2. CASE /\ rec' = [rec EXCEPT !.journal = to] /\ Commit!Goes(next) /\ UNCHANGED unrecorded
           /\ Commit!validPhaseTransition(rec.journal, to)
  <2>1. com' \in Commits /\ com'.step = next /\ com'.op = com.op
        /\ com'.entered /\ com'.vault
    BY <1>2, Going DEF CommitIInv, TypesOK, CommitSteps, LocalsOK, Late
  <2>2. rec' \in Directories /\ rec'.journal = to
        /\ rec'.database = rec.database /\ rec'.vault = rec.vault
    BY <1>2 DEF CommitIInv, TypesOK, Directories, Journals, Commit!Recorded
  <2>3. rec.journal \in Commit!Recorded \cup {"snapshot_ready"}
    BY <1>2 DEF Commit!validPhaseTransition, Commit!Recorded
  <2>4. TypesOK'
    BY <1>2, <2>1, <2>2 DEF CommitIInv, TypesOK
  <2>5. ProcessOK' /\ LocalsOK'
    BY <2>1, Untouched DEF CommitIInv, LocalsOK, Early, Late, Undoing
  <2>6. DirectoryOK'
    BY <1>2, <2>2, <2>3 DEF CommitIInv, DirectoryOK, Commit!Recorded
  <2>7. ~unrecorded => CommitStepOK'
    BY <1>2, <2>1, <2>2 DEF CommitIInv, CommitStepOK, Agree, Safe
  <2> QED
    BY <1>2, <2>1, <2>4, <2>5, <2>6, <2>7 DEF CommitIInv
<1> QED
  BY <1>1, <1>2

\* advanceState, at any of the three phases it records.
LEMMA AdvanceStateHolds ==
  ASSUME CommitBounds, CommitIInv, NEW here, NEW from, NEW to, NEW next,
         <<here, to, next>> \in {<<"snapshot_ready", "snapshot_ready", "vault">>,
                                 <<"phase_vault", "vault_applied", "replace">>,
                                 <<"phase_health", "health_passed", "journal_health">>},
         Commit!AdvanceState(here, from, to, next)
  PROVE  CommitIInv'
<1> USE DEF Commit!AdvanceState, Commit!Committing, Commit!Still
<1>1. CASE Commit!Throws /\ Commit!Reads
  BY <1>1, ThrowHolds DEF Commit!Reads, CommitIInv, TypesOK, Early, Late
<1>2. CASE Commit!Writes([conn EXCEPT !.phase = to]) /\ Commit!Goes(next)
  <2> DEFINE r == [conn EXCEPT !.phase = to]
  <2>1. r \in Rows /\ r.data = conn.data /\ r.phase = to
    BY DEF CommitIInv, TypesOK, Rows, Phases
  <2>2. Commit!Writes(r)
    BY <1>2
  <2> HIDE DEF r
  <2>3. conn' = r /\ conn' \in Rows /\ dbFile' \in Rows /\ dbFile'.data = dbFile.data
        /\ (attached => conn' = dbFile') /\ proc = "up"
    BY <2>1, <2>2, CommitWriting DEF CommitIInv, TypesOK
  <2>4. com' \in Commits /\ com'.step = next /\ com'.op = com.op
        /\ com'.entered /\ com'.vault = com.vault /\ com'.snapshot = com.snapshot
    BY <1>2, Going DEF CommitIInv, TypesOK, CommitSteps, LocalsOK, Early, Late
  <2>5. TypesOK'
    BY <2>3, <2>4 DEF CommitIInv, TypesOK
  <2>6. DirectoryOK' /\ ProcessOK'
    BY <2>1, <2>3 DEF CommitIInv, DirectoryOK, ProcessOK, LocalsOK
  <2>7. LocalsOK'
    BY <2>1, <2>3, <2>4 DEF CommitIInv, LocalsOK, Early, Late, Undoing
  <2>8. ~unrecorded => CommitStepOK'
    BY <2>3, <2>4 DEF CommitIInv, CommitStepOK, Agree, Safe
  <2> QED
    BY <2>4, <2>5, <2>6, <2>7, <2>8 DEF CommitIInv
<1> QED
  BY <1>1, <1>2

\* The replacement of the database gives it the configuration the vault has: the
\* connection that the commit entered with is still on the file.
LEMMA ReplaceHolds == ASSUME CommitBounds, CommitIInv, Commit!replace PROVE CommitIInv'
<1> USE DEF Commit!replace, Commit!Committing, Commit!Still
<1>1. CASE Commit!Throws /\ Commit!Reads
  BY <1>1, ThrowHolds DEF Commit!Reads, CommitIInv, TypesOK, Late
<1>2. CASE /\ Commit!Writes(Commit!insertPortable(com.op))
           /\ com' = [com EXCEPT !.step = "journal_database", !.database = TRUE]
  <2>1. Commit!insertPortable(com.op) \in Rows /\ Commit!insertPortable(com.op).data = com.op
        /\ Commit!insertPortable(com.op).phase = "database_committed"
    BY DEF Commit!insertPortable, Commit!Database, CommitIInv, TypesOK, Commits, Rows,
         Phases, Previews
  <2>2. conn' = Commit!insertPortable(com.op) /\ conn' \in Rows /\ dbFile' \in Rows
        /\ attached /\ conn' = dbFile' /\ proc = "up"
    BY <1>2, <2>1, CommitWriting DEF CommitIInv, TypesOK, LocalsOK, Late
  <2>3. com' \in Commits /\ com'.step = "journal_database" /\ com'.op = com.op
        /\ com'.entered /\ com'.vault
    BY <1>2 DEF CommitIInv, TypesOK, Commits, CommitSteps, LocalsOK, Late
  <2>4. TypesOK'
    BY <2>2, <2>3 DEF CommitIInv, TypesOK
  <2>5. DirectoryOK' /\ ProcessOK' /\ LocalsOK'
    BY <2>1, <2>2, <2>3 DEF CommitIInv, DirectoryOK, ProcessOK, LocalsOK, Early, Late,
         Undoing
  <2>6. ~unrecorded => CommitStepOK'
    BY <2>1, <2>2, <2>3 DEF CommitIInv, CommitStepOK, Agree, Safe
  <2> QED
    BY <2>3, <2>4, <2>5, <2>6 DEF CommitIInv
<1> QED
  BY <1>1, <1>2

\* The health check changes nothing.
LEMMA HealthHolds == ASSUME CommitBounds, CommitIInv, Commit!health PROVE CommitIInv'
<1> USE DEF Commit!health, Commit!Committing, Commit!Still, Commit!Reads
<1>1. CASE Commit!Throws
  BY <1>1, ThrowHolds DEF CommitIInv, TypesOK, Late
<1>2. CASE Commit!Goes("phase_health")
  <2>1. com' \in Commits /\ com'.step = "phase_health" /\ com'.entered /\ com'.vault
    BY <1>2, Going DEF CommitIInv, TypesOK, CommitSteps, LocalsOK, Late
  <2>2. TypesOK'
    BY <2>1 DEF CommitIInv, TypesOK
  <2>3. ProcessOK' /\ LocalsOK'
    BY <2>1, Untouched DEF CommitIInv, LocalsOK, Early, Late, Undoing
  <2>4. DirectoryOK' /\ (~unrecorded => CommitStepOK')
    BY <2>1 DEF CommitIInv, DirectoryOK, CommitStepOK, Agree, Safe
  <2> QED
    BY <2>1, <2>2, <2>3, <2>4 DEF CommitIInv
<1> QED
  BY <1>1, <1>2

\* remove() takes the journal first, so what is left vouches for nothing.
LEMMA RemovedOK ==
  ASSUME CommitBounds, rec \in Directories
  PROVE  Commit!Removed(rec) \in Directories /\ Commit!Removed(rec).journal = "none"
BY Empty DEF Commit!Removed, Directories, Journals, Commit!EmptyDirectory, Commit!NoFile,
     Commit!Database, Numbers,
             CommitBounds, Rows, Phases, Previews

LEMMA RemoveSnapshotHolds == ASSUME CommitBounds, CommitIInv, Commit!RemoveSnapshot PROVE CommitIInv'
<1> USE DEF Commit!RemoveSnapshot, Commit!Committing, Commit!Still, Commit!Reads
<1>1. CASE Commit!Throws /\ UNCHANGED rec
  BY <1>1, ThrowHolds DEF CommitIInv, TypesOK, Late
<1>2. CASE rec' = Commit!Removed(rec) /\ UNCHANGED com
  <2>1. rec' \in Directories /\ rec'.journal = "none"
    BY <1>2, RemovedOK DEF CommitIInv, TypesOK
  <2> QED
    BY <1>2, <2>1 DEF CommitIInv, TypesOK, DirectoryOK, ProcessOK, LocalsOK, CommitStepOK,
         Agree, Safe,
                      Commit!Recorded
<1>3. CASE ~Commit!exists /\ UNCHANGED rec /\ Commit!Goes("clear")
  <2>1. com' \in Commits /\ com'.step = "clear" /\ com'.entered /\ com'.vault
    BY <1>3, Going DEF CommitIInv, TypesOK, CommitSteps, LocalsOK, Late
  <2>2. TypesOK'
    BY <1>3, <2>1 DEF CommitIInv, TypesOK
  <2>3. ProcessOK' /\ LocalsOK'
    BY <2>1, Untouched DEF CommitIInv, LocalsOK, Early, Late, Undoing
  <2>4. DirectoryOK' /\ (~unrecorded => CommitStepOK')
    BY <1>3, <2>1 DEF CommitIInv, DirectoryOK, CommitStepOK, Agree, Safe
  <2> QED
    BY <2>1, <2>2, <2>3, <2>4 DEF CommitIInv
<1> QED
  BY <1>1, <1>2, <1>3

\* A commit that is over forgets its locals: it may end where the stores agree or
\* the journal records the mutation.
LEMMA EndHolds ==
  ASSUME CommitBounds, CommitIInv, TypesOK', DirectoryOK', com' = Commit!NoCommit,
         UNCHANGED <<proc, unrecorded>>,
         proc = "up" /\ attached' => conn' = dbFile',
         ~attached' => conn'.phase # "inactive",
         ~unrecorded => Safe'
  PROVE  CommitIInv'
<1>1. ProcessOK' /\ LocalsOK'
  BY DEF CommitIInv, ProcessOK, LocalsOK, Commit!NoCommit, Early, Late, Undoing
<1>2. ~unrecorded => CommitStepOK'
  BY DEF CommitStepOK, Commit!NoCommit
<1> QED
  BY <1>1, <1>2 DEF CommitIInv, Commit!NoCommit

\* clearState, and the finally block of commit().
LEMMA ClearStateHolds == ASSUME CommitBounds, CommitIInv, Commit!ClearState PROVE CommitIInv'
<1> USE DEF Commit!ClearState, Commit!Committing, Commit!Still
<1>1. CASE Commit!Throws /\ Commit!Reads /\ UNCHANGED gate
  BY <1>1, ThrowHolds DEF Commit!Reads, CommitIInv, TypesOK, Late
<1>2. CASE /\ Commit!Writes([conn EXCEPT !.phase = "inactive", !.op = 0])
           /\ com' = Commit!NoCommit /\ gate' = "open"
  <2> DEFINE r == [conn EXCEPT !.phase = "inactive", !.op = 0]
  <2>1. r \in Rows /\ r.data = conn.data
    BY NumbersHold DEF CommitIInv, TypesOK, Rows, Phases
  <2>2. Commit!Writes(r)
    BY <1>2
  <2> HIDE DEF r
  <2>3. conn' \in Rows /\ dbFile' \in Rows /\ dbFile'.data = dbFile.data
        /\ attached' /\ conn' = dbFile'
    BY <2>1, <2>2, CommitWriting DEF CommitIInv, TypesOK, LocalsOK, Late
  <2>4. TypesOK'
    BY <1>2, <2>3, Empty DEF CommitIInv, TypesOK
  <2>5. DirectoryOK' /\ (~unrecorded => Safe')
    BY <2>3 DEF CommitIInv, DirectoryOK, CommitStepOK, Agree, Safe
  <2> QED
    BY <1>2, <2>3, <2>4, <2>5, EndHolds
<1> QED
  BY <1>1, <1>2

-----------------------------------------------------------------------------
(* The catch block keeps it too.                                             *)

LEMMA CatchRollsBackHolds == ASSUME CommitBounds, CommitIInv, Commit!CatchRollsBack PROVE CommitIInv'
<1> USE DEF Commit!CatchRollsBack, Commit!RollsBack, Commit!Committing, Commit!Still, Commit!Reads
<1>1. com' \in Commits /\ com'.step = "rollback" /\ com'.entered /\ com'.vault
  BY Going DEF CommitIInv, TypesOK, CommitSteps, LocalsOK, Undoing
<1>2. TypesOK'
  BY <1>1 DEF CommitIInv, TypesOK
<1>3. ProcessOK' /\ LocalsOK'
  BY <1>1, Untouched DEF CommitIInv, LocalsOK, Early, Late, Undoing
<1>4. DirectoryOK' /\ (~unrecorded => CommitStepOK')
  BY <1>1 DEF CommitIInv, DirectoryOK, CommitStepOK, Agree, Safe
<1> QED
  BY <1>1, <1>2, <1>3, <1>4 DEF CommitIInv

\* The snapshot is removed only if it is this commit's own, and then the stores
\* agree; what an earlier commit has left in the directory stays.
LEMMA CatchClearsHolds == ASSUME CommitBounds, CommitIInv, Commit!CatchClears PROVE CommitIInv'
<1> USE DEF Commit!CatchClears, Commit!RollsBack, Commit!Committing, Commit!Still, Commit!Ends
<1>1. proc = "up" /\ com' = Commit!NoCommit
  BY DEF Commit!CatchClears
<1>2. ASSUME NEW r \in Rows, Commit!Writes(r), r.data = conn.data, rec' \in Directories,
             ~attached => r.phase = conn.phase,
             \/ rec' = rec
             \/ rec' = Commit!EmptyDirectory /\ com.snapshot
      PROVE  CommitIInv'
  <2>1. conn' = r /\ conn' \in Rows /\ dbFile' \in Rows /\ dbFile'.data = dbFile.data
        /\ (attached => conn' = dbFile')
    BY <1>1, <1>2, CommitWriting DEF CommitIInv, TypesOK
  <2>2. TypesOK'
    BY <1>1, <1>2, <2>1, Empty DEF CommitIInv, TypesOK
  <2>3. DirectoryOK' /\ (~unrecorded => Safe')
    BY <1>2, <2>1 DEF CommitIInv, DirectoryOK, CommitStepOK, Agree, Safe,
         Commit!EmptyDirectory, Commit!Recorded
  <2>4. ~attached' => conn'.phase # "inactive"
    BY <1>1, <1>2, <2>1 DEF CommitIInv, ProcessOK
  <2> QED
    BY <1>1, <2>1, <2>2, <2>3, <2>4, EndHolds
<1>3. Commit!FinalizedPreview(conn) \in Rows /\ Commit!FinalizedPreview(conn).data = conn.data
      /\ Commit!FinalizedPreview(conn).phase = conn.phase
  BY Finalizing DEF CommitIInv, TypesOK
<1>4. CASE UNCHANGED rec /\ Commit!Reads
  <2>1. TypesOK' /\ DirectoryOK' /\ (~unrecorded => Safe')
    BY <1>1, <1>4, Empty DEF Commit!Reads, CommitIInv, TypesOK, DirectoryOK, CommitStepOK,
         Agree, Safe
  <2> QED
    BY <1>1, <1>4, <2>1, EndHolds DEF Commit!Reads, CommitIInv, ProcessOK
<1>5. CASE ~com.entered /\ Commit!Writes(Commit!FinalizedPreview(conn)) /\ UNCHANGED rec
  BY <1>2, <1>3, <1>5 DEF CommitIInv, TypesOK
<1>6. CASE /\ com.entered /\ rec' = IF com.snapshot THEN Commit!EmptyDirectory ELSE rec
           /\ Commit!Writes([Commit!FinalizedPreview(conn) EXCEPT !.phase = "inactive", !.op = 0])
  <2> DEFINE r == [Commit!FinalizedPreview(conn) EXCEPT !.phase = "inactive", !.op = 0]
  <2>1. r \in Rows /\ r.data = conn.data
    <3> HIDE DEF Commit!Ends
    <3>1. "inactive" \in Phases /\ 0 \in Numbers
      BY NumbersHold DEF Phases
    <3> QED
      BY <1>3, <3>1 DEF Rows
  <2>2. rec' \in Directories /\ attached /\ Commit!Writes(r)
    BY <1>6, Empty DEF CommitIInv, TypesOK, LocalsOK
  <2> HIDE DEF r
  <2> QED
    BY <1>2, <1>6, <2>1, <2>2
<1> QED
  BY <1>4, <1>5, <1>6

\* importRecovery is asked for only with a journal that records the mutation, so
\* the vault gets the contents that the journal vouches for.
LEMMA ImportRecoveryHolds == ASSUME CommitBounds, CommitIInv, Commit!ImportRecovery PROVE CommitIInv'
<1> USE DEF Commit!ImportRecovery, Commit!Committing, Commit!Still, Commit!Reads, Commit!Ends
<1>1. Commit!Rollable(com.op) => rec.journal \in Commit!Recorded /\ rec.vault \in Numbers
  BY DEF Commit!Rollable, CommitIInv, TypesOK, DirectoryOK, Directories
<1>2. CASE Commit!Rollable(com.op) /\ vaultStore' = rec.vault /\ Commit!Goes("rollback_file") /\ UNCHANGED gate
  <2>1. com' \in Commits /\ com'.step = "rollback_file" /\ com'.entered /\ com'.vault
    BY <1>2, Going DEF CommitIInv, TypesOK, CommitSteps, LocalsOK, Undoing
  <2>2. TypesOK'
    BY <1>1, <1>2, <2>1 DEF CommitIInv, TypesOK
  <2>3. ProcessOK' /\ LocalsOK'
    BY <1>2, <2>1, Untouched DEF CommitIInv, LocalsOK, Early, Late, Undoing
  <2>4. DirectoryOK' /\ (~unrecorded => CommitStepOK')
    BY <1>1, <1>2, <2>1 DEF CommitIInv, DirectoryOK, CommitStepOK
  <2> QED
    BY <2>1, <2>2, <2>3, <2>4 DEF CommitIInv
<1>3. CASE com' = Commit!NoCommit /\ gate' = "open"
           /\ (vaultStore' = vaultStore \/ (Commit!Rollable(com.op) /\ vaultStore' = rec.vault))
  <2>1. TypesOK' /\ DirectoryOK'
    BY <1>1, <1>3, Empty DEF CommitIInv, TypesOK, DirectoryOK
  <2>2. ~unrecorded => Safe'
    BY <1>1, <1>3 DEF CommitIInv, CommitStepOK, Agree, Safe
  <2> QED
    BY <1>3, <2>1, <2>2, EndHolds DEF CommitIInv, ProcessOK
<1> QED
  BY <1>2, <1>3

\* The rename takes the connection off the file, in a state that lets no other
\* commit enter.
LEMMA RenameSnapshotHolds == ASSUME CommitBounds, CommitIInv, Commit!RenameSnapshot PROVE CommitIInv'
<1> USE DEF Commit!RenameSnapshot, Commit!Committing, Commit!Ends
<1>1. proc = "up" /\ com.entered /\ conn.phase # "inactive"
  BY DEF CommitIInv, ProcessOK, LocalsOK, Undoing
<1>2. CASE dbFile' = rec.database /\ attached' = FALSE /\ Commit!Goes("rollback_journal") /\ UNCHANGED gate
  <2>1. com' \in Commits /\ com'.step = "rollback_journal" /\ com'.entered /\ com'.vault
    BY <1>2, Going DEF CommitIInv, TypesOK, CommitSteps, LocalsOK, Undoing
  <2>2. TypesOK'
    BY <1>2, <2>1 DEF CommitIInv, TypesOK, Directories
  <2>3. ProcessOK' /\ LocalsOK'
    BY <1>1, <1>2, <2>1 DEF CommitIInv, ProcessOK, LocalsOK, Early
  <2>4. DirectoryOK' /\ (~unrecorded => CommitStepOK')
    BY <1>2, <2>1 DEF CommitIInv, DirectoryOK, CommitStepOK, Agree
  <2> QED
    BY <2>1, <2>2, <2>3, <2>4 DEF CommitIInv
<1>3. CASE Commit!Ends /\ UNCHANGED <<dbFile, attached>>
  <2>1. TypesOK' /\ DirectoryOK' /\ (~unrecorded => Safe')
    BY <1>3, Empty DEF CommitIInv, TypesOK, DirectoryOK, CommitStepOK, Safe
  <2> QED
    BY <1>3, <2>1, EndHolds DEF CommitIInv, ProcessOK
<1> QED
  BY <1>2, <1>3

\* The stores agree by now; what the process writes stays on the unlinked file.
LEMMA JournalRolledBackHolds == ASSUME CommitBounds, CommitIInv, Commit!JournalRolledBack PROVE CommitIInv'
<1> USE DEF Commit!JournalRolledBack, Commit!Committing, Commit!Still, Commit!Ends
<1>1. proc = "up" /\ ~attached /\ conn.phase # "inactive"
  BY DEF CommitIInv, ProcessOK, LocalsOK, Undoing
<1>2. conn' \in Rows /\ conn'.phase = conn.phase /\ dbFile' = dbFile
  BY <1>1, Finalizing DEF CommitIInv, TypesOK, Commit!Reads, Commit!Writes
<1>3. rec' \in Directories /\ rec'.journal \in {rec.journal, "rolled_back"}
      /\ rec'.vault = rec.vault /\ rec'.database = rec.database
  BY DEF CommitIInv, TypesOK, Directories, Journals
<1>4. TypesOK'
  BY <1>2, <1>3, Empty DEF CommitIInv, TypesOK
<1>5. DirectoryOK'
  BY <1>3 DEF CommitIInv, DirectoryOK, Commit!Recorded
<1>6. ~unrecorded => Safe'
  BY <1>2 DEF CommitIInv, CommitStepOK, Agree, Safe
<1> QED
  BY <1>1, <1>2, <1>4, <1>5, <1>6, EndHolds

-----------------------------------------------------------------------------
(* Stops and starts keep it.                                                 *)

\* A stop while the vault is replaced and the journal does not say so is the one
\* after which nobody knows of it.
LEMMA StopHolds == ASSUME CommitBounds, CommitIInv, Commit!Stop PROVE CommitIInv'
<1> USE DEF Commit!Stop
<1>1. unrecorded' \in BOOLEAN /\ (~unrecorded' => ~unrecorded)
      /\ (~unrecorded' => ~(com.vault /\ rec.journal = "snapshot_ready"))
  BY DEF CommitIInv, TypesOK
<1>2. TypesOK'
  BY <1>1, Empty DEF CommitIInv, TypesOK, CommitBounds
<1>3. DirectoryOK'
  BY <1>1 DEF CommitIInv, DirectoryOK
<1>4. ~unrecorded' => Safe'
  <2> SUFFICES ASSUME ~unrecorded' PROVE Safe
    BY DEF Safe, Agree
  <2>1. com.step # "journal_vault"
    BY <1>1 DEF CommitIInv, CommitStepOK, LocalsOK, Late
  <2> QED
    BY <1>1, <2>1 DEF CommitIInv, CommitStepOK, TypesOK, Commits, CommitSteps, Early, Late,
         Undoing, Safe,
                      Commit!Recorded
<1>5. ProcessOK' /\ LocalsOK'
  BY DEF ProcessOK, LocalsOK, Commit!NoCommit, Early, Late, Undoing
<1>6. ~unrecorded' => CommitStepOK'
  BY <1>4 DEF CommitStepOK, Commit!NoCommit
<1> QED
  BY <1>2, <1>3, <1>5, <1>6 DEF CommitIInv, Commit!NoCommit

\* What the steps of a start have in common: there is no commit.
LEMMA StartedHolds ==
  ASSUME CommitBounds, CommitIInv, proc # "up", TypesOK', DirectoryOK',
         UNCHANGED <<com, unrecorded>>, ~unrecorded => Safe',
         proc' = "up" => conn' = dbFile' /\ attached'
  PROVE  CommitIInv'
<1>1. com' = Commit!NoCommit
  BY DEF CommitIInv, ProcessOK
<1>2. ProcessOK' /\ LocalsOK'
  BY <1>1 DEF ProcessOK, LocalsOK, Commit!NoCommit, Early, Late, Undoing
<1>3. ~unrecorded => CommitStepOK'
  BY <1>1 DEF CommitStepOK, Commit!NoCommit
<1> QED
  BY <1>1, <1>2, <1>3 DEF CommitIInv, Commit!NoCommit

\* Without a commit under way the stores agree or the journal records the mutation.
LEMMA SafeDown == ASSUME CommitIInv, proc # "up", ~unrecorded PROVE Safe
BY DEF CommitIInv, ProcessOK, CommitStepOK, Commit!NoCommit

LEMMA StartStepHolds == ASSUME CommitBounds, CommitIInv, Commit!StartStep PROVE CommitIInv'
<1>1. CASE Commit!Start \/ Commit!ResumeRefused
  <2>1. TypesOK' /\ DirectoryOK' /\ proc # "up" /\ proc' # "up"
    BY <1>1 DEF Commit!Start, Commit!ResumeRefused, CommitIInv, TypesOK, DirectoryOK
  <2>2. ~unrecorded => Safe'
    BY <1>1, <2>1, SafeDown DEF Commit!Start, Commit!ResumeRefused, Safe, Agree
  <2> QED
    BY <1>1, <2>1, <2>2, StartedHolds DEF Commit!Start, Commit!ResumeRefused
<1>2. CASE Commit!ResumeDiscards \/ Commit!ResumeNothing
  <2>1. proc # "up" /\ rec.journal \notin Commit!Recorded
    BY <1>2 DEF Commit!ResumeDiscards, Commit!ResumeNothing, Commit!Resuming,
         Commit!Discards, Commit!exists, Commit!Recorded
  <2>2. rec' \in Directories /\ (rec' = rec \/ rec'.journal = "none")
    <3>1. rec' \in {rec, Commit!EmptyDirectory}
      BY <1>2 DEF Commit!ResumeDiscards, Commit!ResumeNothing
    <3>2. Commit!EmptyDirectory \in Directories /\ Commit!EmptyDirectory.journal = "none"
      BY Empty DEF Commit!EmptyDirectory
    <3> QED
      BY <3>1, <3>2 DEF CommitIInv, TypesOK
  <2>3. TypesOK' /\ DirectoryOK'
    BY <1>2, <2>2 DEF Commit!ResumeDiscards, Commit!ResumeNothing, CommitIInv, TypesOK,
         DirectoryOK, Commit!Recorded
  <2>4. ~unrecorded => Safe'
    BY <1>2, <2>1, SafeDown DEF Commit!ResumeDiscards, Commit!ResumeNothing, Safe, Agree
  <2> QED
    BY <1>2, <2>1, <2>3, <2>4, StartedHolds DEF Commit!ResumeDiscards, Commit!ResumeNothing
<1>3. CASE Commit!ResumeImports \/ Commit!ResumeRenames \/ Commit!ResumeRolledBack
  <2>1. proc = "starting" /\ rec.journal \in Commit!Recorded
    BY <1>3 DEF Commit!ResumeImports, Commit!ResumeRenames, Commit!ResumeRolledBack,
         Commit!Resuming, Commit!Readable, Commit!Discards,
                Commit!Recorded, CommitIInv, TypesOK, Directories, Journals
  <2>2. rec.vault \in Numbers /\ rec.database \in Rows
        /\ (~unrecorded => rec.vault = rec.database.data)
    BY <2>1 DEF CommitIInv, TypesOK, Directories, DirectoryOK
  <2>3. CASE Commit!ResumeImports \/ Commit!ResumeRenames
    <3>1. TypesOK' /\ DirectoryOK' /\ Safe' /\ proc' = "starting"
      BY <2>1, <2>2, <2>3 DEF Commit!ResumeImports, Commit!ResumeRenames, Commit!Resuming,
           CommitIInv, TypesOK,
                              DirectoryOK, Safe
    <3> QED
      BY <2>1, <2>3, <3>1, StartedHolds DEF Commit!ResumeImports, Commit!ResumeRenames
  <2>4. CASE Commit!ResumeRolledBack
    <3>1. rec' \in Directories /\ rec'.journal = "rolled_back"
      BY <2>4 DEF Commit!ResumeRolledBack, CommitIInv, TypesOK, Directories, Journals
    <3>2. TypesOK' /\ DirectoryOK' /\ (~unrecorded => Safe')
      BY <2>2, <2>4, <3>1 DEF Commit!ResumeRolledBack, CommitIInv, TypesOK, DirectoryOK,
           Commit!Recorded,
                              Safe, Agree
    <3> QED
      BY <2>1, <2>4, <3>2, StartedHolds DEF Commit!ResumeRolledBack
  <2> QED
    BY <1>3, <2>3, <2>4
<1> QED
  BY <1>1, <1>2, <1>3 DEF Commit!StartStep

LEMMA ExpiresHolds == ASSUME CommitBounds, CommitIInv, Commit!JournalExpires PROVE CommitIInv'
<1> USE DEF Commit!JournalExpires
<1>1. rec' \in Directories /\ rec'.journal = rec.journal
      /\ rec'.vault = rec.vault /\ rec'.database = rec.database
  BY DEF CommitIInv, TypesOK, Directories
<1>2. TypesOK' /\ DirectoryOK'
  BY <1>1 DEF CommitIInv, TypesOK, DirectoryOK
<1>3. ProcessOK' /\ LocalsOK' /\ (~unrecorded => CommitStepOK')
  BY <1>1 DEF CommitIInv, ProcessOK, LocalsOK, CommitStepOK, Agree, Safe
<1> QED
  BY <1>1, <1>2, <1>3 DEF CommitIInv

-----------------------------------------------------------------------------
(* The theorems.                                                             *)

\* The component without its fairness.
CommitSafety == Commit!Init /\ [][Commit!Next]_(Commit!restoreVars)

LEMMA CommitInitHolds == ASSUME CommitBounds, Commit!Init PROVE CommitIInv
<1> USE DEF Commit!Init
<1>1. Commit!Fresh \in Rows
  BY NumbersHold DEF Commit!Fresh, Commit!Database, Rows, Phases, Previews
<1>2. TypesOK
  BY <1>1, Empty, NumbersHold DEF TypesOK
<1>3. DirectoryOK /\ ProcessOK /\ LocalsOK
  BY DEF DirectoryOK, ProcessOK, LocalsOK, Commit!EmptyDirectory, Commit!NoCommit, Early,
       Late, Undoing,
         Commit!Recorded
<1>4. CommitStepOK
  BY DEF CommitStepOK, Commit!NoCommit, Safe, Agree, Commit!Fresh, Commit!Database
<1> QED
  BY <1>2, <1>3, <1>4 DEF CommitIInv, Commit!NoCommit

LEMMA CommitStepHolds == ASSUME CommitBounds, CommitIInv, Commit!CommitStep PROVE CommitIInv'
<1>1. CASE \/ Commit!AdvanceState("snapshot_ready", "maintenance", "snapshot_ready", "vault")
           \/ Commit!AdvanceState("phase_vault", "snapshot_ready", "vault_applied", "replace")
           \/ Commit!AdvanceState("phase_health", "database_committed", "health_passed",
                           "journal_health")
  BY <1>1, AdvanceStateHolds
<1>2. CASE \/ Commit!Advance("journal_vault", "vault_applied", "phase_vault")
           \/ Commit!Advance("journal_database", "database_committed", "health")
           \/ Commit!Advance("journal_health", "health_passed", "remove")
  BY <1>2, AdvanceHolds
<1> QED
  BY <1>1, <1>2, ClaimHolds, EnterHolds, PublishDatabaseHolds, PublishVaultHolds,
     WriteJournalHolds, ReplaceVaultHolds, ReplaceHolds, HealthHolds, RemoveSnapshotHolds,
     ClearStateHolds, CatchRollsBackHolds, CatchClearsHolds, ImportRecoveryHolds,
     RenameSnapshotHolds, JournalRolledBackHolds
  DEF Commit!CommitStep

LEMMA CommitStutterHolds == ASSUME CommitIInv, UNCHANGED Commit!restoreVars PROVE CommitIInv'
BY DEF Commit!restoreVars, CommitIInv, TypesOK, DirectoryOK, ProcessOK, LocalsOK,
     CommitStepOK, Agree, Safe

\* The inductive invariant: at each step of a commit, what the two stores hold, what
\* the journal vouches for and which file the process writes to (commit, resume).
THEOREM RestoreInductive == ASSUME CommitBounds PROVE CommitSafety => []CommitIInv
<1>1. CommitIInv /\ [Commit!Next]_(Commit!restoreVars) => CommitIInv'
  BY CommitStepHolds, StartStepHolds, StopHolds, ExpiresHolds,
       CommitStutterHolds DEF Commit!Next
<1> QED
  BY CommitInitHolds, <1>1, PTL DEF CommitSafety

\* Once ordinary work is admitted, vault and database are of one configuration or the
\* journal and both snapshots are there for the next start (commit's catch block,
\* RestoreRecoveryStore.resume), however often commits failed before.
THEOREM RestoreStaysRecoverable == ASSUME CommitBounds PROVE CommitSafety => []Commit!AgreeOrRecoverable
<1>1. ASSUME CommitIInv, proc = "up", gate = "open", ~unrecorded
      PROVE  vaultStore = dbFile.data \/ (rec.journal \in Commit!Recorded /\ rec.vault = rec.database.data)
  <2>1. com.step \in {"none", "exclude", "catch"}
    BY <1>1 DEF CommitIInv, LocalsOK, TypesOK, Commits, CommitSteps, Early, Late, Undoing
  <2> QED
    BY <1>1, <2>1 DEF CommitIInv, CommitStepOK, DirectoryOK, Safe, Agree
<1>2. CommitIInv => Commit!AgreeOrRecoverable
  BY <1>1, TypesHold DEF Commit!AgreeOrRecoverable
<1> QED
  BY <1>2, RestoreInductive, PTL

\* A start that comes up has both stores of one configuration and opens the file
\* (resume before the database is opened, in application.ts and control/main.ts).
THEOREM StartsStayOnOneConfiguration ==
  ASSUME CommitBounds PROVE CommitSafety => Commit!StartsOnOneConfiguration
<1>1. ASSUME CommitIInv, Commit!Next, proc # "up", proc' = "up", ~unrecorded
      PROVE  vaultStore' = dbFile'.data /\ conn' = dbFile'
  <2>1. Commit!ResumeDiscards \/ Commit!ResumeRolledBack \/ Commit!ResumeNothing
    BY <1>1 DEF Commit!Next, Commit!CommitStep, Commit!StartStep, Commit!Stop,
         Commit!JournalExpires, Commit!claimPreview,
         Commit!enterMaintenance, Commit!PublishDatabase, Commit!PublishVault,
         Commit!writeJournal, Commit!AdvanceState,
         Commit!ReplaceVault, Commit!Advance, Commit!replace, Commit!health,
         Commit!RemoveSnapshot, Commit!ClearState, Commit!CatchRollsBack,
         Commit!CatchClears, Commit!ImportRecovery, Commit!RenameSnapshot,
         Commit!JournalRolledBack, Commit!Committing,
         Commit!Start, Commit!ResumeRefused, Commit!ResumeImports, Commit!ResumeRenames,
         Commit!Resuming
  <2>2. Safe
    BY <1>1, SafeDown
  <2>3. CASE Commit!ResumeDiscards \/ Commit!ResumeNothing
    BY <2>2, <2>3 DEF Commit!ResumeDiscards, Commit!ResumeNothing, Commit!Resuming,
         Commit!Discards, Commit!exists, Commit!Recorded,
                      Safe, Agree
  <2>4. CASE Commit!ResumeRolledBack
    <3>1. rec.journal \in Commit!Recorded
      BY <1>1, <2>4 DEF Commit!ResumeRolledBack, Commit!Resuming, Commit!Readable,
           Commit!Discards, Commit!Recorded, CommitIInv, TypesOK,
                  Directories, Journals
    <3> QED
      BY <1>1, <2>4, <3>1 DEF Commit!ResumeRolledBack, CommitIInv, DirectoryOK
  <2> QED
    BY <2>1, <2>3, <2>4
<1>2. CommitIInv /\ [Commit!Next]_(Commit!restoreVars) =>
        [proc # "up" /\ proc' = "up" /\ ~unrecorded =>
           vaultStore' = dbFile'.data /\ conn' = dbFile']_(Commit!restoreVars)
  BY <1>1
<1> QED
  BY <1>2, RestoreInductive, PTL DEF CommitSafety, Commit!StartsOnOneConfiguration

-----------------------------------------------------------------------------
(* Projection: the activity derived from audit events.                      *)

\* What the theorems assume of the constants: the events stored before the
\* aggregates are among those that fit, and an hour is some time.
ProjectionBounds ==
  /\ LegacyEvents \in Seq(Projection!Kinds) /\ MaxEvents \in Nat /\ Len(LegacyEvents) <= MaxEvents
  /\ Hour \in Nat \ {0} /\ Retention \in Nat /\ MaxTicks \in Nat
  /\ BatchLimit \in Nat

Events == [kind : Projection!Kinds, at : 0..MaxTicks]

Passed == {n \in Projection!Old : n <= cursor}

\* The requests of a bucket that are counted for certain, and those that may be:
\* of the old ones the job has passed, it counted those still stored.
Certain(b) == Projection!RequestsIn(b) \ (Projection!Old \ (Passed \cap kept))
Possible(b) == Projection!RequestsIn(b) \ (Projection!Old \ Passed)

EventsOK ==
  /\ born \in Seq(Events) /\ Len(born) \in Len(LegacyEvents)..MaxEvents
  /\ kept \subseteq Projection!Sequence /\ indexed \subseteq Projection!Sequence /\ ledger \subseteq Projection!Sequence
  /\ cursor \in 0..Len(born) /\ ticks \in 0..MaxTicks
  /\ hourly \in [Projection!Buckets -> Nat]
  /\ \A n \in Projection!Sequence : born[n].at <= ticks

\* What the job will not count again, and what it has not counted yet.
LedgerOK ==
  /\ \A n \in ledger \cap Projection!Old : n <= cursor
  /\ \A n \in kept \ Projection!Old :
       born[n].kind = "service_request" /\ n \notin ledger => born[n].at < Projection!Cutoff

CountsOK ==
  \A b \in Projection!Buckets : b * Hour >= Projection!Cutoff =>
    Cardinality(Certain(b)) <= hourly[b] /\ hourly[b] <= Cardinality(Possible(b))

IndexOK == indexed \subseteq kept /\ kept \ indexed \subseteq Projection!Old

ProjectionIInv == EventsOK /\ LedgerOK /\ CountsOK /\ IndexOK

-----------------------------------------------------------------------------
(* Lemmas about times and sets of sequences.                                 *)

\* The cardinality that Projection counts with.
LEMMA ProjectionCardinality ==
  ASSUME NEW S PROVE Projection!Cardinality(S) = Cardinality(S)
BY DEF Projection!Cardinality, Cardinality

LEMMA Hours ==
  ASSUME ProjectionBounds, NEW t \in Nat
  PROVE  /\ Projection!Bucket(t) \in Nat
         /\ Projection!Bucket(t) * Hour <= t /\ t < (Projection!Bucket(t) + 1) * Hour
         /\ t <= MaxTicks => Projection!Bucket(t) \in Projection!Buckets
<1>1. /\ t \div Hour \in Nat /\ (t \div Hour) * Hour <= t
      /\ t < ((t \div Hour) + 1) * Hour
  BY DEF ProjectionBounds
<1>2. ASSUME t <= MaxTicks PROVE t \div Hour <= MaxTicks \div Hour
  BY <1>2 DEF ProjectionBounds
<1> QED
  BY <1>1, <1>2 DEF ProjectionBounds, Projection!Bucket, Projection!Buckets

\* An event before a time is in no bucket that starts at it or later.
LEMMA InBucket ==
  ASSUME ProjectionBounds, NEW t \in Nat, NEW b \in Nat, Projection!Bucket(t) = b
  PROVE  b * Hour <= t
BY Hours

\* A bucket before that of a time starts before the time.
LEMMA EarlierBucket ==
  ASSUME ProjectionBounds, NEW t \in Nat, NEW b \in Nat, b < Projection!Bucket(t)
  PROVE  b * Hour < t
<1>1. Projection!Bucket(t) \in Nat /\ Hour \in Nat \ {0} /\ Projection!Bucket(t) * Hour <= t
  BY Hours DEF ProjectionBounds
<1>2. PICK k \in Nat : Projection!Bucket(t) = b + 1 + k
  <2>1. Projection!Bucket(t) - (b + 1) \in Nat /\ Projection!Bucket(t) = b + 1 + (Projection!Bucket(t) - (b + 1))
    BY <1>1
  <2> QED
    BY <2>1
<1>3. (b + 1 + k) * Hour = b * Hour + Hour + k * Hour /\ k * Hour >= 0 /\ b * Hour \in Nat
  BY <1>1, <1>2
<1> QED
  BY <1>1, <1>2, <1>3

LEMMA CutoffAt ==
  ASSUME ProjectionBounds, NEW t \in Nat
  PROVE  Projection!Max({0, t - Retention}) = IF t >= Retention THEN t - Retention ELSE 0
<1> DEFINE S == {0, t - Retention}
<1>1. t - Retention \in Int
  BY DEF ProjectionBounds
<1>2. \E x \in S : \A y \in S : x >= y
  <2>1. CASE t >= Retention
    BY <1>1, <2>1 DEF ProjectionBounds
  <2>2. CASE ~(t >= Retention)
    BY <1>1, <2>2 DEF ProjectionBounds
  <2> QED
    BY <2>1, <2>2
<1>3. Projection!Max(S) \in S /\ \A y \in S : Projection!Max(S) >= y
  BY <1>2 DEF Projection!Max
<1> QED
  BY <1>1, <1>3 DEF ProjectionBounds

LEMMA CutoffIs ==
  ASSUME ProjectionBounds, ticks \in Nat
  PROVE  Projection!Cutoff = IF ticks >= Retention THEN ticks - Retention ELSE 0
BY CutoffAt DEF Projection!Cutoff

LEMMA CutoffType == ASSUME ProjectionBounds, ticks \in Nat PROVE Projection!Cutoff \in Nat
BY CutoffIs DEF ProjectionBounds

\* The greatest of a set of sequences.
LEMMA Greatest ==
  ASSUME NEW m \in Nat, NEW S \in SUBSET (0..m), S # {}
  PROVE  Projection!Max(S) \in S /\ \A y \in S : Projection!Max(S) >= y
<1> DEFINE R == {ss \in Nat \X Nat : ss[1] < ss[2]}
           T == {m - x : x \in S}
<1>1. IsWellFoundedOn(R, Nat)
  BY NatLessThanWellFounded DEF OpToRel
<1>2. T \subseteq Nat /\ T # {}
  <2>1. ASSUME NEW x \in S PROVE m - x \in Nat
    OBVIOUS
  <2> QED
    BY <2>1
<1>3. PICK t \in T : \A u \in T : <<u, t>> \notin R
  <2> HIDE DEF R, T
  <2> QED
    BY <1>1, <1>2, WFMin
<1>4. PICK x \in S : t = m - x
  OBVIOUS
<1>5. ASSUME NEW y \in S PROVE x >= y
  <2>1. m - y \in T /\ m - y \in Nat /\ t \in Nat /\ x \in 0..m /\ y \in 0..m
    BY <1>2, <1>3
  <2>2. ~(m - y < t)
    BY <1>3, <2>1
  <2> QED
    BY <1>4, <2>1, <2>2
<1>6. \E z \in S : \A y \in S : z >= y
  BY <1>5
<1> QED
  BY <1>6 DEF Projection!Max

\* A batch is the first of the rows.
LEMMA BatchIs ==
  ASSUME ProjectionBounds, NEW m \in Nat, NEW S \in SUBSET (0..m)
  PROVE  /\ Projection!Batch(S) \subseteq S
         /\ \A n \in Projection!Batch(S), k \in S : k <= n => k \in Projection!Batch(S)
<1>1. ASSUME NEW n \in Projection!Batch(S), NEW k \in S, k <= n
      PROVE  k \in Projection!Batch(S)
  <2> DEFINE Below(j) == {i \in S : i < j}
  <2>1. IsFiniteSet(0..m)
    BY FS_Interval
  <2>2. IsFiniteSet(S)
    BY <2>1, FS_Subset
  <2>3. Below(n) \in SUBSET S /\ n \in Nat /\ k \in Nat
    BY DEF Projection!Batch
  <2>4. Below(k) \in SUBSET Below(n)
    <3>1. ASSUME NEW i \in S, i < k PROVE i < n
      <4>1. i \in Nat
        OBVIOUS
      <4> QED
        BY <1>1, <2>3, <3>1, <4>1
    <3> QED
      BY <3>1
  <2>5. IsFiniteSet(Below(n)) /\ IsFiniteSet(Below(k))
        /\ Cardinality(Below(k)) <= Cardinality(Below(n))
    <3> HIDE DEF Below
    <3> QED
      BY <2>2, <2>3, <2>4, FS_Subset
  <2>6. Cardinality(Below(k)) \in Nat /\ Cardinality(Below(n)) \in Nat
    <3> HIDE DEF Below
    <3> QED
      BY <2>5, FS_CardinalityType
  <2>7. Cardinality(Below(n)) < BatchLimit
    BY ProjectionCardinality DEF Projection!Batch
  <2>8. Cardinality(Below(k)) < BatchLimit
    <3> HIDE DEF Below
    <3> QED
      BY <2>5, <2>6, <2>7 DEF ProjectionBounds
  <2> QED
    BY <2>8, ProjectionCardinality DEF Projection!Batch
<1> QED
  BY <1>1 DEF Projection!Batch

-----------------------------------------------------------------------------
(* Lemmas about the state.                                                   *)

LEMMA EventsTyped ==
  ASSUME ProjectionBounds, EventsOK
  PROVE  /\ Projection!Sequence = 1..Len(born) /\ Len(born) \in Nat /\ Len(born) <= MaxEvents
         /\ Projection!Old = 1..Len(LegacyEvents) /\ Len(LegacyEvents) \in Nat /\ Projection!Old \subseteq Projection!Sequence
         /\ \A n \in Projection!Sequence : born[n] \in Events /\ born[n].at \in 0..MaxTicks
<1>1. Projection!Old = 1..Len(LegacyEvents) /\ Len(LegacyEvents) \in Nat
  BY DEF ProjectionBounds, Projection!Old
<1>2. Projection!Sequence = 1..Len(born) /\ Len(born) \in Nat /\ Len(born) <= MaxEvents
      /\ Len(LegacyEvents) <= Len(born)
  BY <1>1 DEF EventsOK, Projection!Sequence, ProjectionBounds
<1>3. \A n \in Projection!Sequence : born[n] \in Events
  BY <1>2 DEF EventsOK
<1> QED
  BY <1>1, <1>2, <1>3 DEF Events

LEMMA RequestsFinite ==
  ASSUME ProjectionBounds, EventsOK, NEW b
  PROVE  /\ IsFiniteSet(Projection!RequestsIn(b)) /\ IsFiniteSet(Certain(b)) /\ IsFiniteSet(Possible(b))
         /\ Certain(b) \subseteq Possible(b) /\ Possible(b) \subseteq Projection!RequestsIn(b)
<1>1. IsFiniteSet(Projection!Sequence)
  BY EventsTyped, FS_Interval
<1>2. Projection!RequestsIn(b) \in SUBSET Projection!Sequence
  BY DEF Projection!RequestsIn
<1>3. Certain(b) \in SUBSET Projection!RequestsIn(b) /\ Possible(b) \in SUBSET Projection!RequestsIn(b)
      /\ Certain(b) \subseteq Possible(b)
  BY DEF Certain, Possible
<1> QED
  BY <1>1, <1>2, <1>3, FS_Subset

\* The cursor passes over every row of the batch and over no other that is stored.
LEMMA NextCursorIs ==
  ASSUME ProjectionBounds, EventsOK, NEW new
  PROVE  LET rows == Projection!Batch(Projection!Unprocessed)
             next == Projection!NextCursor(rows, new)
         IN  /\ next \in cursor..Len(born) /\ rows \subseteq Projection!Unprocessed
             /\ \A n \in kept : n \in rows <=> cursor < n /\ n <= next
<1> DEFINE rows == Projection!Batch(Projection!Unprocessed)
           next == Projection!NextCursor(rows, new)
<1>1. Projection!Unprocessed \in SUBSET (0..Len(born)) /\ Len(born) \in Nat /\ cursor \in Nat
      /\ cursor <= Len(born) /\ kept \subseteq Nat
  BY EventsTyped DEF Projection!Unprocessed, EventsOK
<1>2. rows \subseteq Projection!Unprocessed
      /\ \A n \in rows, k \in Projection!Unprocessed : k <= n => k \in rows
  BY <1>1, BatchIs
<1>3. CASE rows = {}
  <2>1. next = cursor
    BY <1>3 DEF Projection!NextCursor
  <2> QED
    BY <1>1, <1>2, <1>3, <2>1
<1>4. CASE rows # {}
  <2>1. next = Projection!Max(rows)
    BY <1>4 DEF Projection!NextCursor
  <2>2. rows \in SUBSET (0..Len(born))
    BY <1>1, <1>2
  <2>3. next \in rows /\ \A n \in rows : next >= n
    <3> HIDE DEF rows, next
    <3> QED
      BY <1>1, <1>4, <2>1, <2>2, Greatest
  <2>4. next \in Nat /\ cursor < next /\ next <= Len(born) /\ next \in kept
    BY <1>1, <1>2, <2>3 DEF Projection!Unprocessed
  <2>5. ASSUME NEW n \in kept
        PROVE  n \in rows <=> cursor < n /\ n <= next
    <3>1. n \in Nat /\ (n \in Projection!Unprocessed <=> cursor < n)
      BY <1>1 DEF Projection!Unprocessed
    <3> HIDE DEF rows, next
    <3> QED
      BY <1>2, <2>3, <2>4, <3>1
  <2>6. next \in cursor..Len(born)
    <3> HIDE DEF rows, next
    <3> QED
      BY <1>1, <2>4
  <2> QED
    BY <1>2, <2>5, <2>6
<1> QED
  BY <1>3, <1>4

-----------------------------------------------------------------------------
(* Steps keep the invariant.                                                 *)

LEMMA ProjectionInitHolds == ASSUME ProjectionBounds, Projection!Init PROVE ProjectionIInv
<1>1. DOMAIN LegacyEvents = 1..Len(LegacyEvents) /\ Len(LegacyEvents) \in Nat
      /\ \A n \in 1..Len(LegacyEvents) : LegacyEvents[n] \in Projection!Kinds
  BY DEF ProjectionBounds
<1>2. born = [i \in 1..Len(LegacyEvents) |-> [kind |-> LegacyEvents[i], at |-> 0]]
  BY <1>1 DEF Projection!Init
<1>3. /\ born \in Seq(Events) /\ Len(born) = Len(LegacyEvents)
      /\ \A n \in 1..Len(LegacyEvents) : born[n].at = 0
  BY <1>1, <1>2 DEF Events, ProjectionBounds
<1>4. Projection!Sequence = 1..Len(LegacyEvents) /\ Projection!Old = Projection!Sequence
  BY <1>1, <1>3 DEF Projection!Sequence, Projection!Old
<1>5. EventsOK
  BY <1>1, <1>3, <1>4 DEF Projection!Init, EventsOK, ProjectionBounds
<1>6. LedgerOK /\ IndexOK
  BY <1>1, <1>4 DEF Projection!Init, LedgerOK, IndexOK
<1>7. CountsOK
  <2>1. Certain(0) = {} /\ \A b : Certain(b) = {}
    BY <1>1, <1>4 DEF Certain, Passed, Projection!RequestsIn, Projection!Init
  <2>2. ASSUME NEW b \in Projection!Buckets
        PROVE  hourly[b] = 0 /\ Cardinality(Certain(b)) = 0 /\ Cardinality(Possible(b)) >= 0
    BY <1>5, <2>1, RequestsFinite, FS_CardinalityType, FS_EmptySet DEF Projection!Init
  <2>3. \A b : Cardinality(Possible(b)) \in Nat
    BY <1>5, RequestsFinite, FS_CardinalityType
  <2> QED
    BY <2>2, <2>3 DEF CountsOK
<1> QED
  BY <1>5, <1>6, <1>7 DEF ProjectionIInv

LEMMA ProjectionStutterHolds == ASSUME ProjectionIInv, UNCHANGED Projection!auditVars PROVE ProjectionIInv'
<1>1. EventsOK' /\ LedgerOK' /\ IndexOK'
  BY DEF Projection!auditVars, ProjectionIInv, EventsOK, LedgerOK, IndexOK,
       Projection!Sequence, Projection!Cutoff
<1>2. CountsOK'
  BY DEF Projection!auditVars, ProjectionIInv, CountsOK, Certain, Possible,
       Projection!RequestsIn, Passed, Projection!Cutoff, Projection!Sequence
<1> QED
  BY <1>1, <1>2 DEF ProjectionIInv

LEMMA RetentionKeeps == ASSUME ProjectionIInv, Projection!updateRetention PROVE ProjectionIInv'
<1>1. EventsOK' /\ LedgerOK' /\ IndexOK'
  BY DEF Projection!updateRetention, ProjectionIInv, EventsOK, LedgerOK, IndexOK,
       Projection!Sequence, Projection!Cutoff
<1>2. CountsOK'
  BY DEF Projection!updateRetention, ProjectionIInv, CountsOK, Certain, Possible,
       Projection!RequestsIn, Passed, Projection!Cutoff, Projection!Sequence
<1> QED
  BY <1>1, <1>2 DEF ProjectionIInv

\* With time fewer buckets are within the retention.
LEMMA TickKeeps == ASSUME ProjectionBounds, ProjectionIInv, Projection!Tick PROVE ProjectionIInv'
<1>1. EventsOK'
  <2>1. /\ ticks \in 0..MaxTicks /\ MaxTicks \in Nat /\ ticks' = ticks + 1 /\ ticks < MaxTicks
        /\ UNCHANGED <<born, kept, indexed, ledger, hourly, cursor>> /\ EventsOK
    BY DEF Projection!Tick, ProjectionIInv, EventsOK, ProjectionBounds
  <2>2. ticks' \in 0..MaxTicks
    BY <2>1
  <2>3. ASSUME NEW n \in Projection!Sequence PROVE born[n].at <= ticks'
    <3>1. born[n].at \in 0..MaxTicks /\ born[n].at <= ticks
      BY <2>1, EventsTyped DEF EventsOK
    <3> QED
      BY <2>1, <3>1
  <2> QED
    BY <2>1, <2>2, <2>3 DEF EventsOK, Projection!Sequence
<1>2. Projection!Cutoff \in Nat /\ Projection!Cutoff' \in Nat /\ Projection!Cutoff <= Projection!Cutoff'
  <2>1. ticks \in Nat /\ ticks' = ticks + 1
    BY DEF Projection!Tick, ProjectionIInv, EventsOK
  <2>2. Projection!Cutoff = IF ticks >= Retention THEN ticks - Retention ELSE 0
    BY <2>1, CutoffIs
  <2>3. Projection!Cutoff' = IF ticks' >= Retention THEN ticks' - Retention ELSE 0
    BY <2>1, CutoffAt DEF Projection!Cutoff
  <2> QED
    BY <2>1, <2>2, <2>3 DEF ProjectionBounds
<1>3. LedgerOK' /\ IndexOK'
  <2>1. \A n \in kept : born[n].at \in Nat
    BY EventsTyped DEF ProjectionIInv, EventsOK
  <2> QED
    BY <1>2, <2>1 DEF Projection!Tick, ProjectionIInv, LedgerOK, IndexOK
<1>4. CountsOK'
  <2>1. ASSUME NEW b \in Projection!Buckets, b * Hour >= Projection!Cutoff'
        PROVE  b * Hour >= Projection!Cutoff
    BY <1>2, <2>1 DEF ProjectionBounds, Projection!Buckets, Projection!Bucket
  <2> QED
    BY <2>1 DEF Projection!Tick, ProjectionIInv, CountsOK, Certain, Possible,
         Projection!RequestsIn, Passed, Projection!Sequence
<1> QED
  BY <1>1, <1>3, <1>4 DEF ProjectionIInv

\* The retention of events takes rows away, and repairs the index of what is left.
LEMMA MaintainKeeps == ASSUME ProjectionBounds, ProjectionIInv, Projection!maintain PROVE ProjectionIInv'
<1>1. PICK gone \in SUBSET kept, new \in SUBSET (kept \ indexed) :
        /\ kept' = kept \ gone /\ indexed' = (indexed \ gone) \cup new
        /\ new \subseteq kept \ gone
  <2> DEFINE gone == Projection!Batch(Projection!Expired)
             new == Projection!Batch((kept \ gone) \ indexed)
  <2>1. gone \in SUBSET kept /\ new \in SUBSET (kept \ indexed) /\ new \subseteq kept \ gone
    BY DEF Projection!Batch, Projection!Expired
  <2>2. kept' = kept \ gone /\ indexed' = (indexed \ gone) \cup new
    BY DEF Projection!maintain, Projection!repairIndexes
  <2> HIDE DEF gone, new
  <2> QED
    BY <2>1, <2>2
<1>2. UNCHANGED <<born, ledger, hourly, cursor, retention, ticks>>
  BY DEF Projection!maintain
<1>3. EventsOK'
  BY <1>1, <1>2 DEF ProjectionIInv, EventsOK, Projection!Sequence
<1>4. LedgerOK'
  BY <1>1, <1>2 DEF ProjectionIInv, LedgerOK, Projection!Cutoff
<1>5. IndexOK'
  BY <1>1 DEF ProjectionIInv, IndexOK
<1>6. CountsOK'
  <2>1. ASSUME NEW b \in Projection!Buckets
        PROVE  Certain(b)' \in SUBSET Certain(b) /\ Possible(b)' = Possible(b)
    BY <1>1, <1>2 DEF Certain, Possible, Passed, Projection!RequestsIn, Projection!Sequence
  <2>2. ASSUME NEW b \in Projection!Buckets
        PROVE  /\ Cardinality(Certain(b)) \in Nat /\ Cardinality(Certain(b)') \in Nat
               /\ Cardinality(Certain(b)') <= Cardinality(Certain(b))
    BY <2>1, RequestsFinite, FS_Subset, FS_CardinalityType DEF ProjectionIInv
  <2>3. ASSUME NEW b \in Projection!Buckets, b * Hour >= Projection!Cutoff'
        PROVE  Cardinality(Certain(b)') <= hourly'[b] /\ hourly'[b] <= Cardinality(Possible(b)')
    <3>1. /\ Cardinality(Certain(b)) <= hourly[b] /\ hourly[b] <= Cardinality(Possible(b))
          /\ hourly[b] \in Nat
      BY <1>2, <2>3 DEF ProjectionIInv, CountsOK, EventsOK, Projection!Cutoff
    <3> QED
      BY <1>2, <2>1, <2>2, <3>1
  <2> QED
    BY <1>2, <2>3 DEF CountsOK
<1> QED
  BY <1>3, <1>4, <1>5, <1>6 DEF ProjectionIInv

\* Counting events that none of the bounds has yet keeps the count within them.
LEMMA AddCounts ==
  ASSUME NEW C, NEW P, NEW D, NEW Q, NEW h \in Nat,
         IsFiniteSet(C), IsFiniteSet(Q), P \cup D \subseteq Q,
         C \cap D = {}, P \cap D = {},
         Cardinality(C) <= h, h <= Cardinality(P)
  PROVE  /\ IsFiniteSet(D) /\ Cardinality(D) \in Nat
         /\ Cardinality(C \cup D) <= h + Cardinality(D)
         /\ h + Cardinality(D) <= Cardinality(Q)
<1>1. IsFiniteSet(D) /\ IsFiniteSet(P) /\ IsFiniteSet(P \cup D)
      /\ Cardinality(P \cup D) <= Cardinality(Q)
  BY FS_Subset
<1>2. /\ Cardinality(C) \in Nat /\ Cardinality(P) \in Nat /\ Cardinality(D) \in Nat
      /\ Cardinality(Q) \in Nat /\ Cardinality(P \cup D) \in Nat
  BY <1>1, FS_CardinalityType
<1>3. /\ Cardinality(C \cup D) = Cardinality(C) + Cardinality(D) - Cardinality({})
      /\ Cardinality(P \cup D) = Cardinality(P) + Cardinality(D) - Cardinality({})
  BY <1>1, FS_Union
<1>4. Cardinality({}) = 0
  BY FS_EmptySet
<1> QED
  BY <1>1, <1>2, <1>3, <1>4

\* A new event is counted at once, whatever the job does later.
LEMMA AppendKeeps ==
  ASSUME ProjectionBounds, ProjectionIInv, NEW kind \in Projection!Kinds, Projection!appendRuntimeAudit(kind)
  PROVE  ProjectionIInv'
<1> DEFINE n == Len(born) + 1
           event == [kind |-> kind, at |-> ticks]
<1>1. /\ n <= MaxEvents /\ born' = Append(born, event)
      /\ kept' = kept \cup {n} /\ indexed' = indexed \cup {n}
      /\ UNCHANGED <<cursor, retention, ticks>>
  BY DEF Projection!appendRuntimeAudit
<1>2. /\ Projection!Sequence = 1..Len(born) /\ Len(born) \in Nat /\ Projection!Old \subseteq Projection!Sequence
      /\ born \in Seq(Events) /\ event \in Events /\ ticks \in 0..MaxTicks
      /\ \A k \in Projection!Sequence : born[k] \in Events /\ born[k].at \in Nat
      /\ Len(LegacyEvents) \in Nat
  BY EventsTyped DEF ProjectionIInv, EventsOK, Events
<1>3. /\ born' \in Seq(Events) /\ Len(born') = n
      /\ born'[n] = event /\ \A k \in Projection!Sequence : born'[k] = born[k]
  BY <1>1, <1>2
<1>4. Projection!Sequence' = Projection!Sequence \cup {n} /\ n \notin Projection!Sequence /\ Projection!Sequence' = 1..n /\ n \notin Projection!Old
  BY <1>2, <1>3 DEF Projection!Sequence
<1>5. n \notin ledger /\ n \notin kept /\ n \notin Projection!Old
  BY <1>4 DEF ProjectionIInv, EventsOK
<1>6. IF kind = "service_request"
        THEN /\ ledger' = ledger \cup {n}
             /\ hourly' = [hourly EXCEPT ![Projection!Bucket(ticks)] = @ + 1]
        ELSE UNCHANGED <<ledger, hourly>>
  <2>1. Projection!Projects(n, Append(born, event), ledger) <=> kind = "service_request"
    BY <1>1, <1>3, <1>5 DEF Projection!Projects
  <2> QED
    BY <2>1 DEF Projection!appendRuntimeAudit
<1>7. Projection!Bucket(ticks) \in Projection!Buckets
  BY <1>2, Hours DEF ProjectionBounds
<1>8. EventsOK'
  <2>1. hourly' \in [Projection!Buckets -> Nat]
    BY <1>6, <1>7 DEF ProjectionIInv, EventsOK
  <2>2. ledger' \subseteq Projection!Sequence'
    BY <1>4, <1>6 DEF ProjectionIInv, EventsOK
  <2>3. \A k \in Projection!Sequence' : born'[k].at <= ticks'
    BY <1>1, <1>2, <1>3, <1>4 DEF ProjectionIInv, EventsOK
  <2>4. Len(born') \in Len(LegacyEvents)..MaxEvents /\ cursor' \in 0..Len(born')
    BY <1>1, <1>2, <1>3 DEF ProjectionIInv, EventsOK, ProjectionBounds
  <2> HIDE DEF n, event
  <2> QED
    BY <1>1, <1>3, <1>4, <2>1, <2>2, <2>3, <2>4 DEF ProjectionIInv, EventsOK
<1>9. LedgerOK'
  <2>1. \A k \in ledger' \cap Projection!Old : k \in ledger
    BY <1>5, <1>6
  <2>2. \A k \in kept' \ Projection!Old : k # n => k \in kept \ Projection!Old /\ born'[k] = born[k]
    BY <1>1, <1>3 DEF ProjectionIInv, EventsOK
  <2>3. kind = "service_request" => n \in ledger'
    BY <1>6
  <2>4. \A k \in ledger : k \in ledger'
    BY <1>6
  <2>5. born'[n].kind = kind
    BY <1>3
  <2> HIDE DEF n
  <2> QED
    BY <1>1, <2>1, <2>2, <2>3, <2>4, <2>5 DEF ProjectionIInv, LedgerOK, Projection!Cutoff
<1>10. IndexOK'
  BY <1>1, <1>5 DEF ProjectionIInv, IndexOK
<1>11. CountsOK'
  <2> SUFFICES ASSUME NEW b \in Projection!Buckets, b * Hour >= Projection!Cutoff
               PROVE  /\ Cardinality(Certain(b)') <= hourly'[b]
                      /\ hourly'[b] <= Cardinality(Possible(b)')
    BY <1>1 DEF CountsOK, Projection!Cutoff
  <2> DEFINE D == IF kind = "service_request" /\ Projection!Bucket(ticks) = b THEN {n} ELSE {}
  <2>1. Projection!RequestsIn(b)' = Projection!RequestsIn(b) \cup D
    BY <1>3, <1>4 DEF Projection!RequestsIn
  <2>2. Certain(b)' = Certain(b) \cup D /\ Possible(b)' = Possible(b) \cup D
    BY <1>1, <1>5, <2>1 DEF Certain, Possible, Passed
  <2>3. /\ Cardinality(Certain(b)) <= hourly[b] /\ hourly[b] <= Cardinality(Possible(b))
        /\ hourly[b] \in Nat
    BY DEF ProjectionIInv, CountsOK, EventsOK
  <2>4. Certain(b) \cap D = {} /\ Possible(b) \cap D = {}
    BY <1>4 DEF Certain, Possible, Projection!RequestsIn
  <2>5. IsFiniteSet(Certain(b)) /\ IsFiniteSet(Possible(b)) /\ IsFiniteSet(Possible(b) \cup D)
    <3>1. IsFiniteSet(Certain(b)) /\ IsFiniteSet(Possible(b))
      BY RequestsFinite DEF ProjectionIInv
    <3>2. IsFiniteSet(D)
      BY FS_EmptySet, FS_Singleton
    <3> HIDE DEF D
    <3> QED
      BY <3>1, <3>2, FS_Union
  <2>6. hourly'[b] = hourly[b] + Cardinality(D)
    <3>1. hourly \in [Projection!Buckets -> Nat] /\ Cardinality({}) = 0 /\ Cardinality({n}) = 1
      BY FS_EmptySet, FS_Singleton DEF ProjectionIInv, EventsOK
    <3>2. CASE kind = "service_request" /\ Projection!Bucket(ticks) = b
      BY <1>6, <1>7, <2>3, <3>1, <3>2
    <3>3. CASE ~(kind = "service_request" /\ Projection!Bucket(ticks) = b)
      BY <1>6, <1>7, <2>3, <3>1, <3>3
    <3> QED
      BY <3>2, <3>3
  <2>7. /\ Cardinality(Certain(b) \cup D) <= hourly[b] + Cardinality(D)
        /\ hourly[b] + Cardinality(D) <= Cardinality(Possible(b) \cup D)
    <3> HIDE DEF D
    <3> QED
      BY <2>3, <2>4, <2>5, AddCounts
  <2> QED
    BY <2>2, <2>6, <2>7
<1> QED
  BY <1>8, <1>9, <1>10, <1>11 DEF ProjectionIInv

\* The job counts, of the rows its cursor passes, those that the ledger does not
\* have: within the retention these are old ones, each passed for the first time.
LEMMA AggregateKeeps == ASSUME ProjectionBounds, ProjectionIInv, Projection!aggregate PROVE ProjectionIInv'
<1> DEFINE rows == Projection!Batch(Projection!Unprocessed)
           new == {n \in rows : Projection!Projects(n, born, ledger)}
           counted == ledger \cup new
           Of(b) == {n \in new : Projection!Bucket(born[n].at) = b}
           sums == [b \in Projection!Buckets |-> hourly[b] + Cardinality(Of(b))]
           next == Projection!NextCursor(rows, new)
<1>1. /\ cursor' = next
      /\ hourly' = [b \in Projection!Buckets |-> IF b \in Projection!ExpiredBuckets(sums) THEN 0 ELSE sums[b]]
      /\ ledger' = counted \ Projection!Batch(Projection!ExpiredLedger(counted))
      /\ UNCHANGED <<born, kept, indexed, retention, ticks>>
  BY ProjectionCardinality DEF Projection!aggregate
<1>2. /\ Projection!Sequence = 1..Len(born) /\ Len(born) \in Nat /\ Projection!Old \subseteq Projection!Sequence
      /\ \A n \in Projection!Sequence : born[n].at \in Nat
      /\ kept \subseteq Projection!Sequence /\ ledger \subseteq Projection!Sequence /\ cursor \in Nat
      /\ ticks \in Nat /\ Projection!Cutoff \in Nat
  BY EventsTyped, CutoffType DEF ProjectionIInv, EventsOK
<1>3. /\ next \in cursor..Len(born) /\ rows \subseteq kept
      /\ \A n \in kept : n \in rows <=> cursor < n /\ n <= next
  <2>1. rows \subseteq Projection!Unprocessed
    BY DEF Projection!Batch
  <2> QED
    BY <2>1, NextCursorIs DEF ProjectionIInv, Projection!Unprocessed
<1>4. \A n : n \in new <=> n \in rows /\ born[n].kind = "service_request" /\ n \notin ledger
  BY DEF Projection!Projects
<1>5. new \subseteq kept /\ counted \subseteq Projection!Sequence
  BY <1>2, <1>3
<1>6. Passed' = {n \in Projection!Old : n <= next}
  BY <1>1 DEF Passed
<1>7. ASSUME NEW b \in Projection!Buckets
      PROVE  IsFiniteSet(Of(b)) /\ Cardinality(Of(b)) \in Nat
  <2>1. IsFiniteSet(1..Len(born))
    BY <1>2, FS_Interval
  <2>2. IsFiniteSet(Projection!Sequence) /\ Of(b) \in SUBSET Projection!Sequence
    <3>1. Of(b) \subseteq new
      OBVIOUS
    <3> HIDE DEF new, Of
    <3> QED
      BY <1>2, <1>5, <2>1, <3>1
  <2> HIDE DEF Of
  <2> QED
    BY <2>2, FS_Subset, FS_CardinalityType
<1>8. EventsOK'
  <2>1. sums \in [Projection!Buckets -> Nat]
    <3>1. hourly \in [Projection!Buckets -> Nat]
      BY DEF ProjectionIInv, EventsOK
    <3> HIDE DEF Of
    <3> QED
      BY <1>7, <3>1
  <2>2. hourly' \in [Projection!Buckets -> Nat]
    <3> HIDE DEF sums
    <3> QED
      BY <1>1, <2>1
  <2>3. ledger' \subseteq Projection!Sequence /\ cursor' \in 0..Len(born)
    <3> HIDE DEF counted, next, rows
    <3>1. ledger' \subseteq counted
      BY <1>1
    <3>2. cursor' \in 0..Len(born)
      BY <1>1, <1>2, <1>3
    <3> QED
      BY <1>5, <3>1, <3>2
  <2> HIDE DEF rows, new, counted, sums, next
  <2> QED
    BY <1>1, <2>2, <2>3 DEF ProjectionIInv, EventsOK, Projection!Sequence
<1>9. LedgerOK'
  <2>1. ASSUME NEW n \in ledger' \cap Projection!Old PROVE n <= cursor'
    <3>1. n \in Nat /\ n \in counted /\ next \in Nat /\ cursor <= next
      BY <1>1, <1>2, <1>3, <2>1
    <3>2. n \in rows => n <= next
      BY <1>3
    <3>3. n \in ledger => n <= cursor
      BY <2>1 DEF ProjectionIInv, LedgerOK
    <3> HIDE DEF rows, next
    <3> QED
      BY <1>1, <1>2, <3>1, <3>2, <3>3
  <2>2. ASSUME NEW n \in kept \ Projection!Old, born[n].kind = "service_request", n \notin ledger'
        PROVE  born[n].at < Projection!Cutoff
    <3>1. CASE n \in counted
      <4>1. n \in Projection!ExpiredLedger(counted)
        <5> HIDE DEF counted
        <5> QED
          BY <1>1, <2>2, <3>1 DEF Projection!Batch
      <4> QED
        BY <2>2, <4>1 DEF Projection!ExpiredLedger
    <3>2. CASE n \notin counted
      BY <2>2, <3>2 DEF ProjectionIInv, LedgerOK
    <3> QED
      BY <3>1, <3>2
  <2> HIDE DEF rows, new, counted, sums, next
  <2> QED
    BY <1>1, <2>1, <2>2 DEF LedgerOK, Projection!Cutoff
<1>10. IndexOK'
  BY <1>1 DEF ProjectionIInv, IndexOK
<1>11. CountsOK'
  <2> SUFFICES ASSUME NEW b \in Projection!Buckets, b * Hour >= Projection!Cutoff
               PROVE  /\ Cardinality(Certain(b)') <= hourly'[b]
                      /\ hourly'[b] <= Cardinality(Possible(b)')
    BY <1>1 DEF CountsOK, Projection!Cutoff
  <2>1. b \in Nat
    BY DEF Projection!Buckets
  <2>2. b \notin Projection!ExpiredBuckets(sums)
    <3>1. ASSUME b < Projection!Bucket(Projection!Cutoff) PROVE FALSE
      <4>1. b * Hour < Projection!Cutoff
        BY <1>2, <2>1, <3>1, EarlierBucket
      <4>2. b * Hour \in Nat
        BY <2>1 DEF ProjectionBounds
      <4> QED
        BY <1>2, <4>1, <4>2
    <3> QED
      BY <3>1 DEF Projection!ExpiredBuckets, Projection!Batch
  <2>3. hourly'[b] = hourly[b] + Cardinality(Of(b))
    BY <1>1, <2>2
  <2>4. ASSUME NEW n \in Of(b) PROVE n \in Projection!Old /\ n \in Projection!RequestsIn(b) /\ cursor < n /\ n <= next
    <3>1. n \in kept /\ n \in Projection!Sequence /\ born[n].kind = "service_request" /\ n \notin ledger
          /\ Projection!Bucket(born[n].at) = b /\ cursor < n /\ n <= next
      <4>1. n \in new /\ Projection!Bucket(born[n].at) = b
        OBVIOUS
      <4> HIDE DEF new, rows, next, Of
      <4>2. n \in rows /\ born[n].kind = "service_request" /\ n \notin ledger
        BY <1>4, <4>1
      <4>3. n \in kept /\ cursor < n /\ n <= next
        BY <1>3, <4>2
      <4> QED
        BY <1>2, <4>1, <4>2, <4>3
    <3>2. b * Hour <= born[n].at
      BY <1>2, <2>1, <3>1, InBucket
    <3>3. ~(born[n].at < Projection!Cutoff)
      <4>1. b * Hour \in Nat
        BY <2>1 DEF ProjectionBounds
      <4> QED
        BY <1>2, <3>1, <3>2, <4>1
    <3>4. n \in Projection!Old
      BY <3>1, <3>3 DEF ProjectionIInv, LedgerOK
    <3> QED
      BY <3>1, <3>4 DEF Projection!RequestsIn
  <2>5. ASSUME NEW n \in Certain(b)', n \notin Certain(b) PROVE n \in Of(b)
    <3>1. n \in Projection!RequestsIn(b) /\ n \in Projection!Old /\ n \in kept /\ n <= next /\ ~(n <= cursor)
      BY <1>1, <1>6, <2>5 DEF Certain, Passed, Projection!RequestsIn, Projection!Sequence
    <3>2. n \in rows
      BY <1>2, <1>3, <3>1
    <3>3. n \notin ledger
      BY <3>1 DEF ProjectionIInv, LedgerOK
    <3>4. born[n].kind = "service_request" /\ Projection!Bucket(born[n].at) = b
      BY <3>1 DEF Projection!RequestsIn
    <3> QED
      BY <1>4, <3>2, <3>3, <3>4
  <2>6. Projection!RequestsIn(b)' = Projection!RequestsIn(b)
    BY <1>1 DEF Projection!RequestsIn, Projection!Sequence
  <2>7. Passed \subseteq Passed'
    <3>1. ASSUME NEW n \in Passed PROVE n <= next
      <4>1. n \in Nat /\ n <= cursor /\ next \in Nat /\ cursor <= next
        BY <1>2, <1>3 DEF Passed
      <4> HIDE DEF next
      <4> QED
        BY <1>2, <4>1
    <3> QED
      BY <1>6, <3>1 DEF Passed
  <2>8. Certain(b)' = Certain(b) \cup Of(b)
    <3>1. Certain(b) \subseteq Certain(b)'
      BY <1>1, <2>6, <2>7 DEF Certain
    <3>2. Of(b) \subseteq Certain(b)'
      BY <1>1, <1>3, <1>6, <2>4, <2>6 DEF Certain
    <3> HIDE DEF Of
    <3> QED
      BY <2>5, <3>1, <3>2
  <2>9. Possible(b) \cup Of(b) \subseteq Possible(b)'
    BY <1>6, <2>4, <2>6, <2>7 DEF Possible
  <2>10. Certain(b) \cap Of(b) = {} /\ Possible(b) \cap Of(b) = {}
    <3>1. ASSUME NEW n \in Of(b) PROVE n \notin Possible(b)
      <4>1. n \in Projection!Old /\ cursor < n /\ n \in Nat
        <5>1. n \in Projection!Old /\ cursor < n
          BY <2>4
        <5> HIDE DEF Of
        <5> QED
          BY <1>2, <5>1
      <4>2. n \notin Passed
        BY <1>2, <4>1 DEF Passed
      <4> QED
        BY <4>1, <4>2 DEF Possible
    <3>2. Certain(b) \subseteq Possible(b)
      BY RequestsFinite DEF ProjectionIInv
    <3> HIDE DEF Of
    <3> QED
      BY <3>1, <3>2
  <2>11. IsFiniteSet(Certain(b)) /\ IsFiniteSet(Possible(b)')
    <3>1. IsFiniteSet(Certain(b)) /\ IsFiniteSet(Projection!RequestsIn(b))
      BY RequestsFinite DEF ProjectionIInv
    <3>2. Possible(b)' \in SUBSET Projection!RequestsIn(b)
      BY <2>6 DEF Possible
    <3> QED
      BY <3>1, <3>2, FS_Subset
  <2>12. /\ Cardinality(Certain(b)) <= hourly[b] /\ hourly[b] <= Cardinality(Possible(b))
         /\ hourly[b] \in Nat
    BY DEF ProjectionIInv, CountsOK, EventsOK
  <2>13. /\ Cardinality(Certain(b) \cup Of(b)) <= hourly[b] + Cardinality(Of(b))
         /\ hourly[b] + Cardinality(Of(b)) <= Cardinality(Possible(b)')
    <3> HIDE DEF Of
    <3> QED
      BY <2>9, <2>10, <2>11, <2>12, AddCounts
  <2> QED
    BY <2>3, <2>8, <2>13
<1> QED
  BY <1>8, <1>9, <1>10, <1>11 DEF ProjectionIInv

\* The component without its fairness.
ProjectionSafety == Projection!Init /\ [][Projection!Next]_(Projection!auditVars)

LEMMA ProjectionStepKeeps == ASSUME ProjectionBounds, ProjectionIInv, [Projection!Next]_(Projection!auditVars) PROVE ProjectionIInv'
BY AppendKeeps, AggregateKeeps, MaintainKeeps, RetentionKeeps, TickKeeps,
     ProjectionStutterHolds DEF Projection!Next

\* Every bucket within the retention of the aggregates counts the requests of its
\* hour once, however batches, deletions and changes of the retention interleave,
\* and the index misses only events from before it existed (projectHourlyActivity,
\* ActivityAggregationService.run, deleteExpiredLedger, AuditRetentionService.run).
THEOREM ActivityStaysCountedOnce ==
  ASSUME ProjectionBounds PROVE ProjectionSafety => []Projection!ActivityCountedOnce
<1>1. ProjectionIInv => Projection!ActivityCountedOnce
  <2> SUFFICES ASSUME ProjectionIInv PROVE Projection!ActivityCountedOnce
    OBVIOUS
  <2>1. Projection!TypeOK
    <3>1. cursor \in 0..MaxEvents
      <4>1. cursor \in 0..Len(born) /\ Len(born) \in Nat /\ Len(born) <= MaxEvents
        BY EventsTyped DEF ProjectionIInv, EventsOK
      <4> QED
        BY <4>1 DEF ProjectionBounds
    <3> QED
      BY <3>1 DEF ProjectionIInv, EventsOK, Projection!TypeOK
  <2>2. ASSUME NEW b \in Projection!Buckets, b * Hour >= Projection!Cutoff
        PROVE  LET passed == {n \in Projection!Old : n <= cursor} IN
               /\ hourly[b] >= Cardinality(Projection!RequestsIn(b) \ (Projection!Old \ (passed \cap kept)))
               /\ hourly[b] <= Cardinality(Projection!RequestsIn(b) \ (Projection!Old \ passed))
    <3>1. Cardinality(Certain(b)) <= hourly[b] /\ hourly[b] <= Cardinality(Possible(b))
      BY <2>2 DEF ProjectionIInv, CountsOK
    <3>2. Cardinality(Certain(b)) \in Nat /\ hourly[b] \in Nat
      BY RequestsFinite, FS_CardinalityType DEF ProjectionIInv, EventsOK
    <3> QED
      BY <3>1, <3>2 DEF Certain, Possible, Passed
  <2> QED
    BY <2>1, <2>2, ProjectionCardinality DEF Projection!ActivityCountedOnce, ProjectionIInv,
         IndexOK
<1>2. ProjectionIInv /\ [Projection!Next]_(Projection!auditVars) => ProjectionIInv'
  BY ProjectionStepKeeps
<1> QED
  BY ProjectionInitHolds, <1>1, <1>2, PTL DEF ProjectionSafety

-----------------------------------------------------------------------------
(* The composition: a behaviour of MCStores is one of each component, since  *)
(* a step of another leaves its variables as they are.                       *)

\* What each component does in a step of the composition, whatever the focus.
LEMMA ComponentSteps ==
  ASSUME [StoresNext]_storesVars
  PROVE  /\ [Files!Next]_(Files!storeVars)
         /\ [Rotation!Next]_(Rotation!vars)
         /\ [Commit!Next]_(Commit!restoreVars)
         /\ [Projection!Next]_(Projection!auditVars)
BY DEF StoresNext, storesVars, storeVars, rotationVars, restoreVars, auditVars,
       Files!storeVars, Rotation!vars, Commit!restoreVars, Projection!auditVars

\* The composition implements each component without its fairness.
LEMMA ComponentsKept ==
  StoresSpec => FilesSafety /\ RotationSafety /\ CommitSafety /\ ProjectionSafety
<1>1. StoresInit => Files!Init /\ Rotation!Init /\ Commit!Init /\ Projection!Init
  BY DEF StoresInit
<1>2. [StoresNext]_storesVars => /\ [Files!Next]_(Files!storeVars)
                                 /\ [Rotation!Next]_(Rotation!vars)
                                 /\ [Commit!Next]_(Commit!restoreVars)
                                 /\ [Projection!Next]_(Projection!auditVars)
  BY ComponentSteps
<1> QED
  BY <1>1, <1>2, PTL
     DEF StoresSpec, FilesSafety, RotationSafety, CommitSafety, ProjectionSafety

\* The record store refuses to start only after a stop between link and unlink of a
\* new record, and has no temporary when idle (recordStore.ts #commit, #initialize).
THEOREM StoresStayCoherent == StoresSpec => []StoreCoherent
<1>1. FilesBounds
  BY FilesParameters DEF FilesBounds
<1>2. Files!StoreCoherent => StoreCoherent
  BY DEF StoreCoherent
<1> QED
  BY <1>1, <1>2, ComponentsKept, StoreStaysCoherent, PTL

\* The files of the store implement the durable map its callers see (recordStore.ts
\* #commit, delete, beginRestore, #initialize).
THEOREM StoresImplementRecords == StoresSpec => ImplementsRecords
<1>1. FilesBounds
  BY FilesParameters DEF FilesBounds
<1> QED
  BY <1>1, ComponentsKept, FilesImplementRecords, PTL DEF ImplementsRecords

\* An interrupted rotation loses no root, serves no record under a wrong one and is
\* resumed, and its receipts are final (rootRotation.ts, rootRotationCoordinator.ts).
THEOREM StoresRotateSafely == StoresSpec => RotationSafe
<1>1. Rotation!RotationSafe => (focus = "rotation" => Rotation!RotationSafe)
  OBVIOUS
<1> QED
  BY <1>1, RotationParameters, ComponentsKept, RotationStaysSafe, ReceiptsStayFinal, PTL
     DEF RotationSafe

\* Vault and database are replaced together or can be put back together, and a start
\* that comes up has one configuration (restoreCommit.ts, restoreRecovery.ts).
THEOREM StoresRestoreAtomically == StoresSpec => RestoreIsAtomic
<1>1. CommitBounds
  BY CommitParameters DEF CommitBounds
<1>2. Commit!AgreeOrRecoverable => (focus = "restore" => Commit!AgreeOrRecoverable)
  OBVIOUS
<1> QED
  BY <1>1, <1>2, ComponentsKept, RestoreStaysRecoverable, StartsStayOnOneConfiguration, PTL
     DEF RestoreIsAtomic

\* Each request is counted once in the activity of its hour
\* (activityAggregation.ts, activityProjection.ts, auditRetention.ts).
THEOREM StoresCountActivityOnce == StoresSpec => []ActivityCountedOnce
<1>1. ProjectionBounds
  BY ProjectionParameters DEF ProjectionBounds
<1>2. Projection!ActivityCountedOnce => ActivityCountedOnce
  BY DEF ActivityCountedOnce
<1> QED
  BY <1>1, <1>2, ComponentsKept, ActivityStaysCountedOnce, PTL
=============================================================================
