----------------------------- MODULE VaultStore -----------------------------
(***************************************************************************)
(* The vault's record store as files: VaultRecordStore.  A record is one   *)
(* file, written to a temporary name, synced, and linked (create) or       *)
(* renamed (replace) into place; a restore imports into a directory of its *)
(* own and swaps the directories.  The process or the machine may stop     *)
(* between any two file operations, and each of them may fail.             *)
(*                                                                         *)
(* Records!RecordsSpec is the abstract map the store implements.           *)
(***************************************************************************)
EXTENDS Integers, FiniteSets

CONSTANTS Locators,        \* record locators
          Bodies,          \* what a secret may be
          MaxGeneration,   \* bound on the generations written
          MaxFaults        \* bound on the stops and failed file operations explored

Contents == [generation : 1 .. MaxGeneration, body : Bodies]
NoRecord == [generation |-> 0]
Maps == [Locators -> Contents \cup {NoRecord}]
Empty == [l \in Locators |-> NoRecord]
NoMap == [l \in {} |-> NoRecord]

VARIABLES
  file,     \* the record files of the store directory, Empty when it is missing
  there,    \* the store directory exists
  temps,    \* temporary files: their locator, content, and whether the record
            \* file is a second link to them
  synced,   \* the directory as it was last synced: what a power loss keeps
  aside,    \* the directory a restore moved away, or NoMap
  store,    \* the process: status, number of records it counts
  op,       \* the operation under way and the step it has reached
  acked,    \* the directory as of the last operation that reported success
  faults    \* stops and failed file operations so far

storeVars == <<file, there, temps, synced, aside, store, op, acked, faults>>

Idle == [kind |-> "idle"]
Statuses == {"ready", "degraded", "down"}
Stored(m) == {l \in Locators : m[l] # NoRecord}

\* A file operation fails.
Fails == faults < MaxFaults /\ faults' = faults + 1

Init ==
  /\ file = Empty /\ there = TRUE /\ temps = {} /\ synced = Empty
  /\ aside = NoMap /\ op = Idle /\ acked = Empty /\ faults = 0
  /\ store = [status |-> "ready", count |-> 0]

-----------------------------------------------------------------------------
(* One record: temporary file, link or rename, directory sync, clean-up.   *)

assertReady == store.status = "ready" /\ op = Idle

\* A record file is read only while it has a single link.
validateRecordFileMetadata(l) ==
  ~ \E t \in temps : t.loc = l /\ t.linked

\* readAndDecrypt of a record whose generation the caller names.
readAndDecrypt(l) == file[l] # NoRecord /\ validateRecordFileMetadata(l)

WriteTemporary(kind, l, r) ==
  /\ temps' = temps \cup {[loc |-> l, rec |-> r, linked |-> FALSE]}
  /\ op' = [kind |-> kind, loc |-> l, rec |-> r, at |-> "written"]
  /\ UNCHANGED <<file, there, synced, aside, store, acked, faults>>

create ==
  \E l \in Locators, b \in Bodies :
    /\ assertReady
    /\ WriteTemporary("create", l, [generation |-> 1, body |-> b])

replace ==
  \E l \in Locators, b \in Bodies :
    /\ assertReady
    /\ readAndDecrypt(l)
    /\ file[l].generation < MaxGeneration
    /\ WriteTemporary("replace", l,
                      [generation |-> file[l].generation + 1, body |-> b])

delete ==
  \E l \in Locators :
    /\ assertReady
    /\ readAndDecrypt(l)
    /\ file' = [file EXCEPT ![l] = NoRecord]
    /\ op' = [kind |-> "delete", loc |-> l, rec |-> file[l], at |-> "placed"]
    /\ UNCHANGED <<there, temps, synced, aside, store, acked, faults>>

\* link fails when the name is taken, rename replaces it.
Placeable(o) == o.kind = "create" => file[o.loc] = NoRecord

\* The temporaries once the record is in place: linked to it, or renamed.
TempsPlaced(o) ==
  {IF t.loc = o.loc THEN [t EXCEPT !.linked = TRUE] ELSE t :
     t \in IF o.kind = "create" THEN temps
           ELSE {u \in temps : u.loc # o.loc}}

commitPlace ==
  /\ op # Idle
  /\ op.at = "written"
  /\ \/ /\ Placeable(op)
        /\ file' = [file EXCEPT ![op.loc] = op.rec]
        /\ temps' = TempsPlaced(op)
        /\ op' = [op EXCEPT !.at = "placed"]
        /\ UNCHANGED faults
     \/ /\ IF Placeable(op) THEN Fails ELSE UNCHANGED faults
        /\ op' = [op EXCEPT !.at = "refused"]
        /\ UNCHANGED <<file, temps>>
  /\ UNCHANGED <<there, synced, aside, store, acked>>

\* A variant of fsyncDirectory: the answer does not wait for it.
fsyncDirectorySkipped == synced

\* What the directory keeps once fsyncDirectory returned.
fsyncDirectory == file

commitSync ==
  /\ op # Idle
  /\ op.at = "placed"
  /\ \/ /\ synced' = fsyncDirectory
        /\ op' = [op EXCEPT !.at = "synced"]
        /\ UNCHANGED faults
     \/ /\ Fails
        /\ op' = [op EXCEPT !.at = "unsynced"]
        /\ UNCHANGED synced
  /\ UNCHANGED <<file, there, temps, aside, store, acked>>

\* The records counted once an operation reported success.
Counted(o) ==
  CASE o.kind = "create" -> store.count + 1
    [] o.kind = "delete" -> store.count - 1
    [] OTHER -> store.count

\* A variant of Cleaned: only a successful write removes its temporary name.
CleanedOnSuccess(o) ==
  IF o.at = "synced" THEN {t \in temps : t.loc # o.loc} ELSE temps

\* The temporaries left once the operation has ended, however it ended.
Cleaned(o) == {t \in temps : t.loc # o.loc}

commitDone ==
  /\ op # Idle
  /\ op.at \in {"synced", "unsynced", "refused"}
  /\ temps' = Cleaned(op)
  /\ op' = Idle
  /\ IF op.at = "synced"
     THEN /\ store' = [store EXCEPT !.count = Counted(op)]
          /\ acked' = file
     ELSE UNCHANGED <<store, acked>>
  /\ UNCHANGED <<file, there, synced, aside, faults>>

-----------------------------------------------------------------------------
(* The whole store: a staged import swapped in, or validated and dropped.  *)

\* What an archive may hold here: nothing, or one record of some generation.
Archives ==
  {Empty} \cup {[Empty EXCEPT ![l] = c] : l \in Locators, c \in Contents}

beginRestore ==
  \E m \in Archives :
    /\ assertReady
    /\ op' = [kind |-> "restore", content |-> m, at |-> "staged"]
    /\ UNCHANGED <<file, there, temps, synced, aside, store, acked, faults>>

\* A validation, an archive found invalid, or a first rename that failed.
abortRestore ==
  /\ op # Idle
  /\ op.at = "staged"
  /\ op' = Idle
  /\ UNCHANGED <<file, there, temps, synced, aside, store, acked, faults>>

swapOut ==
  /\ op # Idle
  /\ op.at = "staged"
  /\ aside' = file
  /\ file' = Empty
  /\ there' = FALSE
  /\ op' = [op EXCEPT !.at = "out"]
  /\ UNCHANGED <<temps, synced, store, acked, faults>>

swapIn ==
  /\ op # Idle
  /\ op.at = "out"
  /\ \/ /\ file' = op.content
        /\ there' = TRUE
        /\ op' = [op EXCEPT !.at = "in"]
        /\ UNCHANGED faults
     \/ /\ Fails
        /\ op' = [op EXCEPT !.at = "undo"]
        /\ UNCHANGED <<file, there>>
  /\ UNCHANGED <<temps, synced, aside, store, acked>>

swapSync ==
  /\ op # Idle
  /\ op.at = "in"
  /\ \/ /\ synced' = file
        /\ acked' = file
        /\ store' = [store EXCEPT !.count = Cardinality(Stored(op.content))]
        /\ op' = Idle
        /\ aside' = NoMap
        /\ UNCHANGED <<file, there, faults>>
     \/ /\ Fails
        /\ file' = Empty
        /\ there' = FALSE
        /\ op' = [op EXCEPT !.at = "undo"]
        /\ UNCHANGED <<synced, acked, store, aside>>
  /\ UNCHANGED temps

swapUndo ==
  /\ op # Idle
  /\ op.at = "undo"
  /\ file' = aside
  /\ there' = TRUE
  /\ aside' = NoMap
  /\ op' = Idle
  /\ UNCHANGED <<temps, synced, store, acked, faults>>

-----------------------------------------------------------------------------
(* Stops and starts.                                                       *)

Between(old, new) ==
  {m \in Maps : \A l \in Locators : m[l] \in {old[l], new[l]}}

\* Leaves(f, d, a, ts): the stop leaves the directory f (there or not), the
\* one set aside, and the temporaries.
Leaves(f, d, a, ts) ==
  /\ file' = f
  /\ there' = d
  /\ aside' = a
  /\ temps' = {[t EXCEPT !.linked = @ /\ f[t.loc] = t.rec] : t \in ts}

Swapping == op # Idle /\ op.at \in {"out", "in", "undo"}

\* The machine loses what was not synced: of the entries any part, of the
\* renames of a swap the last ones.
LosesUnsynced ==
  \/ /\ ~Swapping
     /\ there
     /\ \E f \in Between(synced, file), ts \in SUBSET temps :
          Leaves(f, TRUE, aside, ts)
  \/ /\ Swapping \/ ~there
     /\ \E old \in Between(synced, aside) :
          \/ Leaves(old, TRUE, NoMap, temps)
          \/ Leaves(Empty, FALSE, old, temps)
  \/ /\ Swapping
     /\ op.at = "in"
     /\ Leaves(file, TRUE, aside, temps)

Stop ==
  /\ store.status # "down"
  /\ faults < MaxFaults
  /\ faults' = faults + 1
  /\ store' = [status |-> "down", count |-> 0]
  /\ op' = Idle
  /\ \/ Leaves(file, there, aside, temps)
     \/ LosesUnsynced
  /\ UNCHANGED <<synced, acked>>

\* initialize: creates a missing directory, removes the temporaries, counts.
\* A temporary with a second link makes it give up where it meets it.  A
\* directory set aside stays on the disk, and no start looks at it again.
initialize ==
  /\ store.status = "down"
  /\ there' = TRUE
  /\ \/ /\ \E t \in temps : t.linked
        /\ \E gone \in SUBSET {t \in temps : ~t.linked} : temps' = temps \ gone
        /\ store' = [status |-> "degraded", count |-> 0]
        /\ UNCHANGED <<synced, acked>>
     \/ /\ \A t \in temps : ~t.linked
        /\ temps' = {}
        /\ store' = [status |-> "ready", count |-> Cardinality(Stored(file))]
        /\ synced' = file
        /\ acked' = file
  /\ aside' = NoMap
  /\ UNCHANGED <<file, op, faults>>

-----------------------------------------------------------------------------
StoreStep ==
  \/ create \/ replace \/ delete
  \/ commitPlace \/ commitSync \/ commitDone
  \/ beginRestore \/ abortRestore
  \/ swapOut \/ swapIn \/ swapSync \/ swapUndo
  \/ initialize

Next == StoreStep \/ Stop

\* The process runs on and is started again after a stop.
Spec == Init /\ [][Next]_storeVars /\ WF_storeVars(StoreStep)

-----------------------------------------------------------------------------
(* Properties.                                                             *)

TypeOK ==
  /\ file \in Maps /\ synced \in Maps /\ acked \in Maps
  /\ there \in BOOLEAN /\ aside \in Maps \cup {NoMap}
  /\ temps \in SUBSET [loc : Locators, rec : Contents, linked : BOOLEAN]
  /\ store \in [status : Statuses, count : Int]
  /\ faults \in 0 .. MaxFaults

\* A store that answers between two operations has its directory, no
\* temporary and nothing set aside that it still needs; and a store refuses
\* to start only over a record that a create had linked without removing its
\* temporary name: every other stop leaves a directory it accepts
\* (#commit, #initialize, beginRestore).
StoreCoherent ==
  /\ TypeOK
  /\ store.status = "ready" /\ op = Idle => there /\ temps = {}
  /\ store.status = "degraded" =>
       \E t \in temps : t.linked /\ file[t.loc] = t.rec

\* The map a caller sees, and the one a restore displaces.
Visible == IF there THEN file ELSE aside
Displaced == IF Swapping \/ ~there THEN aside ELSE NoMap

Records == INSTANCE VaultRecords WITH
  records <- Visible,
  displaced <- Displaced,
  up <- store.status = "ready"

\* The files implement the durable map of VaultRecords: one operation at a
\* time changes one locator by one generation, a change reported as done
\* survives every stop, an unreported one happened or did not, and only a
\* stop inside the directory swap of a restore may leave the map empty
\* (#commit, delete, beginRestore, #initialize).
ImplementsRecords == Records!RecordsSpec

=============================================================================
