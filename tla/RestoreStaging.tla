---------------------------- MODULE RestoreStaging -----------------------------
(***************************************************************************)
(* Staging and preview of a portable restore (restoreStaging.ts,           *)
(* restorePreview.ts, restoreState.ts), up to the claim that a commit      *)
(* makes.  What the claimed commit then does is module Restore.            *)
(*                                                                         *)
(* Requests run concurrently and every await is a step: the upload cleans  *)
(* up expired stages, writes the file and inserts the row; a preview and a *)
(* commit read the row, then the file, then the configuration, and only    *)
(* then write.  The configuration is a number that grows with each change  *)
(* of its objects; a plan is the configuration it was computed against.    *)
(*                                                                         *)
(* Bounds: the storage keys of Keys, the previews of PreviewIds, the       *)
(* requests of Requests, MaxConfig changes, MaxNow ticks; TTL is the hour  *)
(* of a stage in ticks.                                                    *)
(***************************************************************************)
EXTENDS Naturals, FiniteSets

CONSTANTS Keys, Actors, PreviewIds, Requests, MaxStages, TTL, MaxNow, MaxConfig

VARIABLES stage,    \* restore_stages by storage key
          preview,  \* restore_previews
          disk,     \* the files of the private directory
          work,     \* the requests under way
          config, hour

stagingVars == <<stage, preview, disk, work, config, hour>>

NoStage == [state |-> "none", owner |-> "none", exp |-> 0]

NoPreview == [state |-> "none", stage |-> 0, plan |-> 0, exp |-> 0]

Idle == [step |-> "idle", key |-> 0, actor |-> "none", pre |-> 0, plan |-> 0, keys |-> {}]

Active == {"validated", "previewed", "committing"}

Steps(w, step) == work' = [work EXCEPT ![w].step = step]

Answers(w) == work' = [work EXCEPT ![w] = Idle]

At(w, step) == work[w].step = step

\* A new request takes the first free place.
Free(w) == At(w, "idle") /\ \A v \in Requests : v < w => ~At(v, "idle")

-----------------------------------------------------------------------------
\* expireRows, at the start of every transaction below.
ExpiredPreviews ==
  [p \in PreviewIds |-> IF preview[p].state = "ready" /\ preview[p].exp <= hour
                        THEN [preview[p] EXCEPT !.state = "expired"] ELSE preview[p]]

Expires(row) == row.state \in {"validated", "previewed"} /\ row.exp <= hour

ExpiredStages ==
  [k \in Keys |-> IF Expires(stage[k]) THEN [stage[k] EXCEPT !.state = "expired"] ELSE stage[k]]

expireRows == stage' = ExpiredStages /\ preview' = ExpiredPreviews

\* A stage that is deleted takes its previews with it.
Cascaded(gone) ==
  [p \in PreviewIds |-> IF preview[p].stage \in gone THEN NoPreview ELSE preview[p]]

-----------------------------------------------------------------------------
\* Storage keys are random: none is given out again while anybody remembers it.
Used(k) ==
  \/ stage[k].state # "none" \/ k \in disk
  \/ \E v \in Requests : work[v].key = k \/ k \in work[v].keys

\* stage(): a superadmin uploads an archive that decodes, under a fresh key.
Upload(w, a, k) ==
  /\ Free(w)
  /\ ~Used(k) /\ \A j \in Keys : j < k => Used(j)
  /\ work' = [work EXCEPT ![w] = [Idle EXCEPT !.step = "cleanup", !.key = k, !.actor = a]]
  /\ UNCHANGED <<stage, preview, disk, config, hour>>

CleanupExpire(w) ==
  /\ At(w, "cleanup")
  /\ expireRows /\ Steps(w, "expired_keys")
  /\ UNCHANGED <<disk, config, hour>>

expiredStageStorageKeys(w) ==
  /\ At(w, "expired_keys")
  /\ LET gone == {k \in Keys : stage[k].state = "expired"}
     IN work' = [work EXCEPT ![w].keys = gone, ![w].step = IF gone = {} THEN "write" ELSE "unlink"]
  /\ UNCHANGED <<stage, preview, disk, config, hour>>

\* The files are removed side by side; one that cannot be ends the request.
RemoveExpired(w) ==
  /\ At(w, "unlink")
  /\ \/ disk' = disk \ work[w].keys /\ Steps(w, "delete")
     \/ \E some \in SUBSET work[w].keys :
          some # work[w].keys /\ disk' = disk \ some /\ Answers(w)
  /\ UNCHANGED <<stage, preview, config, hour>>

deleteExpiredStages(w) ==
  /\ At(w, "delete")
  /\ LET gone == {k \in work[w].keys : stage[k].state = "expired"}
     IN /\ stage' = [k \in Keys |-> IF k \in gone THEN NoStage ELSE stage[k]]
        /\ preview' = Cascaded(gone)
  /\ work' = [work EXCEPT ![w].keys = {}, ![w].step = "write"]
  /\ UNCHANGED <<disk, config, hour>>

write(w) ==
  /\ At(w, "write")
  /\ \/ disk' = disk \cup {work[w].key} /\ Steps(w, "create")
     \/ Answers(w) /\ UNCHANGED disk
  /\ UNCHANGED <<stage, preview, config, hour>>

\* A variant of Admits: the stages of the actor are not counted.
AdmitsAnyActor(rows, a) == Cardinality({k \in Keys : rows[k].state \in Active /\ rows[k].exp > hour}) < MaxStages

\* One live stage for an actor, MaxStages (and a total size) for all.
Admits(rows, a) ==
  LET live == {k \in Keys : rows[k].state \in Active /\ rows[k].exp > hour}
  IN Cardinality(live) < MaxStages /\ \A k \in live : rows[k].owner # a

createStage(w) ==
  /\ At(w, "create")
  /\ IF Admits(ExpiredStages, work[w].actor)
     THEN /\ preview' = ExpiredPreviews
          /\ stage' = [ExpiredStages EXCEPT ![work[w].key] =
                         [state |-> "validated", owner |-> work[w].actor, exp |-> hour + TTL]]
          /\ Answers(w)
     ELSE UNCHANGED <<stage, preview>> /\ Steps(w, "discard")
  /\ UNCHANGED <<disk, config, hour>>

\* createStage failed: the file is removed, if it can be.
Discard(w) ==
  /\ At(w, "discard")
  /\ disk' \in {disk, disk \ {work[w].key}}
  /\ Answers(w)
  /\ UNCHANGED <<stage, preview, config, hour>>

-----------------------------------------------------------------------------
\* preview() and commit() start alike; a commit reads a ready preview first.  A
\* refusal rolls the transaction back, the expiry with it.
stageForActor(w, k) ==
  /\ Free(w)
  /\ ExpiredStages[k].state \notin {"none", "expired"}
  /\ expireRows
  /\ work' = [work EXCEPT ![w] = [Idle EXCEPT !.step = "read", !.key = k]]
  /\ UNCHANGED <<disk, config, hour>>

previewForActor(w, p) ==
  /\ Free(w)
  /\ ExpiredPreviews[p].state = "ready"
  /\ expireRows
  /\ work' = [work EXCEPT ![w] = [Idle EXCEPT !.step = "read", !.key = preview[p].stage, !.pre = p]]
  /\ UNCHANGED <<disk, config, hour>>

\* PrivateRestoreStageStore.read, and the row read again by a commit.
ReadStaged(w) ==
  /\ At(w, "read")
  /\ IF work[w].key \in disk /\ stage[work[w].key].state \notin {"none", "expired"}
     THEN Steps(w, "evaluate") ELSE Answers(w)
  /\ UNCHANGED <<stage, preview, disk, config, hour>>

\* withEvaluatedPlan: the plan digest over the archive and the current summary.
Evaluate(w) ==
  /\ At(w, "evaluate")
  /\ work' = [work EXCEPT ![w].plan = config, ![w].step = IF work[w].pre = 0 THEN "show" ELSE "claim"]
  /\ UNCHANGED <<stage, preview, disk, config, hour>>

createPreview(w) ==
  /\ At(w, "show")
  /\ LET k == work[w].key IN
     \/ /\ ExpiredStages[k].state \in {"validated", "previewed"}
        /\ \E p \in PreviewIds :
             /\ preview[p].state = "none" /\ \A q \in PreviewIds : q < p => preview[q].state # "none"
             /\ preview' = [ExpiredPreviews EXCEPT ![p] =
                  [state |-> "ready", stage |-> k, plan |-> work[w].plan, exp |-> stage[k].exp]]
        /\ stage' = [ExpiredStages EXCEPT ![k].state = "previewed"]
     \/ UNCHANGED <<stage, preview>>
  /\ Answers(w)
  /\ UNCHANGED <<disk, config, hour>>

\* verifyPlan and the two updates of claimPreviewInTransaction, both or neither.
Claimable(w) ==
  LET p == work[w].pre
      k == work[w].key
  IN /\ preview[p].plan = work[w].plan /\ preview[p].state = "ready" /\ preview[p].exp > hour
     /\ stage[k].state = "previewed" /\ stage[k].exp > hour

claimPreviewInTransaction(w) ==
  /\ At(w, "claim")
  /\ IF Claimable(w)
     THEN /\ preview' = [ExpiredPreviews EXCEPT ![work[w].pre].state = "claimed"]
          /\ stage' = [ExpiredStages EXCEPT ![work[w].key].state = "committing"]
          /\ Steps(w, "committing")
     ELSE UNCHANGED <<stage, preview>> /\ Answers(w)
  /\ UNCHANGED <<disk, config, hour>>

\* The commit ends: replace() or finalizePreview writes the outcome.
finalizePreview(w, outcome) ==
  /\ At(w, "committing")
  /\ preview' = [preview EXCEPT ![work[w].pre].state = outcome]
  /\ stage' = [stage EXCEPT ![work[w].key].state = outcome]
  /\ config' = IF outcome = "completed" THEN config + 1 ELSE config
  /\ Answers(w)
  /\ UNCHANGED <<disk, hour>>

-----------------------------------------------------------------------------
\* Any other administrator changes the configuration.
Administer ==
  /\ config < MaxConfig
  /\ config' = config + 1
  /\ UNCHANGED <<stage, preview, disk, work, hour>>

HourPasses ==
  /\ hour < MaxNow
  /\ hour' = hour + 1
  /\ UNCHANGED <<stage, preview, disk, work, config>>

\* The process stops: its requests are gone, rows and files stay.
Restart ==
  /\ \E w \in Requests : work[w] # Idle
  /\ work' = [w \in Requests |-> Idle]
  /\ UNCHANGED <<stage, preview, disk, config, hour>>

Init ==
  /\ stage = [k \in Keys |-> NoStage] /\ preview = [p \in PreviewIds |-> NoPreview]
  /\ disk = {} /\ work = [w \in Requests |-> Idle] /\ config = 1 /\ hour = 0

Progress(w) ==
  \/ CleanupExpire(w) \/ expiredStageStorageKeys(w) \/ RemoveExpired(w) \/ deleteExpiredStages(w)
  \/ write(w) \/ createStage(w) \/ Discard(w)
  \/ ReadStaged(w) \/ Evaluate(w) \/ createPreview(w) \/ claimPreviewInTransaction(w)
  \/ \E o \in {"completed", "failed"} : finalizePreview(w, o)

Next ==
  \/ \E w \in Requests : Progress(w)
  \/ \E w \in Requests, a \in Actors, k \in Keys : Upload(w, a, k)
  \/ \E w \in Requests, k \in Keys : stageForActor(w, k)
  \/ \E w \in Requests, p \in PreviewIds : previewForActor(w, p)
  \/ Administer \/ HourPasses \/ Restart

Spec == Init /\ [][Next]_stagingVars

-----------------------------------------------------------------------------
TypeOK ==
  /\ disk \subseteq Keys
  /\ \A k \in Keys : stage[k].state \in Active \cup {"none", "expired", "completed", "failed"}
  /\ \A p \in PreviewIds : preview[p].state \in {"none", "ready", "expired", "claimed", "completed", "failed"}

(***************************************************************************)
(* Uploads, cleanups and restarts interleave: a stage that may still be    *)
(* previewed or is being committed has its file, an actor has one live     *)
(* stage, and the live stages are within the limit.                        *)
(***************************************************************************)
StagesKeepTheirFiles ==
  /\ TypeOK
  /\ \A k \in Keys : stage[k].state \in Active => k \in disk
  /\ LET live == {k \in Keys : stage[k].state \in Active /\ stage[k].exp > hour}
     IN /\ Cardinality(live) <= MaxStages
        /\ \A k, l \in live : stage[k].owner = stage[l].owner => k = l

(***************************************************************************)
(* Commits race on the previews of one stage: a stage is committed at most *)
(* once, by a preview whose plan the commit computed again, and it is      *)
(* under commit exactly while one of its previews is claimed.              *)
(***************************************************************************)
OneCommitOfWhatWasShown ==
  /\ \A w \in Requests : work[w].step = "committing" => preview[work[w].pre].plan = work[w].plan
  /\ \A k \in Keys :
       LET used == {p \in PreviewIds : preview[p].stage = k
                      /\ preview[p].state \in {"claimed", "completed", "failed"}}
       IN /\ Cardinality(used) <= 1
          /\ stage[k].state = "committing" <=> \E p \in used : preview[p].state = "claimed"

\* Stages, their files and their previews stay together from the upload to
\* the one commit.
StagesCoherent == StagesKeepTheirFiles /\ OneCommitOfWhatWasShown
=============================================================================
