--------------------------- MODULE InactivityJob ----------------------------
(***************************************************************************)
(* The inactivity job and the settings it runs under.  The timer and a     *)
(* superadmin's forced run take the same lease, under the same owner id,   *)
(* and move one account per transaction until the batch, the wall time or  *)
(* the candidates end; the settings are the ones in memory when the run    *)
(* started.  Accounts become active, are suspended and reactivated, the    *)
(* settings change, a transaction fails and the process stops meanwhile.   *)
(* Times are ages and countdowns in periods.                               *)
(***************************************************************************)
EXTENDS Integers, FiniteSets

CONSTANTS Superadmins, Others,   \* accounts by role
          SuspendChoices,        \* inactivitySuspensionDays in periods, 0 for null
          DeactivateChoices,     \* suspendedDeactivationDays in periods, 0 for null
          Wall,                  \* securityJobWallTimeMs
          Margin,                \* what the lease adds to the wall time
          Interval,              \* securityJobIntervalMs
          BatchSize,             \* securityJobBatchSize
          MaxChanges             \* bound on changes from outside the job

Accounts == Superadmins \cup Others
Runners == {"timer", "forced"}

\* No age matters beyond the longest period and the longest run.
AgeCap == Wall + CHOOSE d \in SuspendChoices \cup DeactivateChoices :
                   \A e \in SuspendChoices \cup DeactivateChoices : e <= d

Idle == [phase |-> "idle"]

VARIABLES
  account,   \* status, time since qualifying activity, time since suspension
  settings,  \* the row of security_settings
  committed, \* values of updates whose handler has not replaced the store yet
  store,     \* SecuritySettingsStore
  job,       \* the row of security_job_state
  runner,    \* runs in progress
  changes    \* changes from outside so far

jobVars == <<account, settings, committed, store, job, runner, changes>>

\* initialize, with the seed of securitySettingsSeed: the automation is off.
Seed == [version |-> 1, suspend |-> 0, deactivate |-> 0]

Init ==
  /\ account = [u \in Accounts |-> [status |-> "active", idle |-> 0, held |-> 0]]
  /\ settings = Seed /\ committed = {} /\ store = Seed
  /\ job = [next |-> Interval, owned |-> FALSE, lease |-> 0, outcome |-> "none"]
  /\ runner = [r \in Runners |-> Idle]
  /\ changes = 0

-----------------------------------------------------------------------------
(* One run.                                                                *)

ActiveSuperadmins == {u \in Superadmins : account[u].status = "active"}
LastSuperadmin(u) == u \in ActiveSuperadmins /\ Cardinality(ActiveSuperadmins) <= 1

\* The cutoffs count back from the start of the run.
Due(u, taken, age) ==
  \/ /\ taken.suspend # 0 /\ account[u].status = "active"
     /\ account[u].idle >= taken.suspend + age
  \/ /\ taken.deactivate # 0 /\ account[u].status = "suspended"
     /\ account[u].held >= taken.deactivate + age

Candidates(taken, age) ==
  {u \in Accounts : Due(u, taken, age) /\ ~LastSuperadmin(u)}

\* Ordinary accounts before superadmins, the oldest first.
Rank(u) == <<IF u \in Superadmins THEN 1 ELSE 0,
             IF account[u].status = "active" THEN account[u].idle
             ELSE account[u].held>>
Before(u, v) ==
  \/ Rank(u)[1] < Rank(v)[1]
  \/ Rank(u)[1] = Rank(v)[1] /\ Rank(u)[2] >= Rank(v)[2]

\* A variant of LeaseFree: a lease that was not given back is never taken over.
LeaseFreeWhenReleased == ~job.owned

LeaseFree == ~job.owned \/ job.lease = 0

\* acquireTransaction: when due, or at once when forced.
acquire(r) ==
  /\ runner[r] = Idle
  /\ r = "forced" \/ job.next = 0
  /\ LeaseFree
  /\ job' = [job EXCEPT !.owned = TRUE, !.lease = Wall + Margin, !.outcome = "none"]
  /\ runner' = [runner EXCEPT ![r] =
       [phase |-> "working", taken |-> store, age |-> 0, moved |-> 0]]
  /\ IF r = "forced"
     THEN changes < MaxChanges /\ changes' = changes + 1
     ELSE UNCHANGED changes
  /\ UNCHANGED <<account, settings, committed, store>>

\* suspended_at is the start of the run.
Moved(u, age) ==
  IF account[u].status = "active"
  THEN [account[u] EXCEPT !.status = "suspended", !.held = age]
  ELSE [account[u] EXCEPT !.status = "deactivated", !.held = 0]

Continues(r) ==
  /\ runner[r].phase = "working"
  /\ runner[r].moved < BatchSize /\ runner[r].age < Wall

\* One account, read and changed in one visit to the database.
transitionOne(r) ==
  /\ Continues(r)
  /\ \E u \in Candidates(runner[r].taken, runner[r].age) :
       /\ \A v \in Candidates(runner[r].taken, runner[r].age) : Before(u, v)
       /\ account' = [account EXCEPT ![u] = Moved(u, runner[r].age)]
  /\ runner' = [runner EXCEPT ![r].moved = @ + 1]
  /\ UNCHANGED <<settings, committed, store, job, changes>>

\* The loop ends: no candidate, a protected superadmin, the wall time, a full
\* batch (hasCandidate counts the protected one too), or an error.
Protected(taken, age) ==
  \E u \in Superadmins : /\ taken.suspend # 0 /\ LastSuperadmin(u)
                         /\ account[u].idle >= taken.suspend + age

Outcome(r) ==
  LET t == runner[r].taken IN
  IF runner[r].moved >= BatchSize
  THEN IF \E u \in Accounts : Due(u, t, runner[r].age) THEN "partial" ELSE "completed"
  ELSE IF runner[r].age >= Wall THEN "partial"
  ELSE IF t.suspend = 0 /\ t.deactivate = 0 THEN "skipped"
  ELSE IF Protected(t, runner[r].age) THEN "protected"
  ELSE "completed"

LoopEnds(r) ==
  /\ runner[r].phase = "working"
  /\ Continues(r) => Candidates(runner[r].taken, runner[r].age) = {}
  /\ runner' = [runner EXCEPT ![r] = [phase |-> "completing", outcome |-> Outcome(r)]]
  /\ UNCHANGED <<account, settings, committed, store, job, changes>>

Fails(r) ==
  /\ runner[r].phase = "working"
  /\ changes < MaxChanges /\ changes' = changes + 1
  /\ runner' = [runner EXCEPT ![r] = [phase |-> "completing", outcome |-> "error"]]
  /\ UNCHANGED <<account, settings, committed, store, job>>

\* complete: the lease of this owner is given back.  Both runs of a process
\* have the same owner id; without a lease the run ends in an error.
complete(r) ==
  /\ runner[r].phase = "completing"
  /\ job' = IF job.owned
            THEN [next |-> Interval, owned |-> FALSE, lease |-> 0,
                  outcome |-> runner[r].outcome]
            ELSE job
  /\ runner' = [runner EXCEPT ![r] = Idle]
  /\ UNCHANGED <<account, settings, committed, store, changes>>

-----------------------------------------------------------------------------
(* Settings.                                                               *)

\* SecuritySettingsRepository.update, at the version its caller saw.
update ==
  \E s \in SuspendChoices, d \in DeactivateChoices :
    LET next == [version |-> settings.version + 1, suspend |-> s, deactivate |-> d] IN
    /\ <<s, d>> # <<settings.suspend, settings.deactivate>>
    /\ changes < MaxChanges /\ changes' = changes + 1
    /\ settings' = next
    /\ committed' = committed \cup {next}
    /\ UNCHANGED <<account, store, job, runner>>

\* A variant of Replaces: the store takes whatever arrives last.
ReplacesAlways(value) == TRUE

\* SecuritySettingsStore.replace refuses a version it has passed.
Replaces(value) == value.version > store.version

replace ==
  \E value \in committed :
    /\ committed' = committed \ {value}
    /\ store' = IF Replaces(value) THEN value ELSE store
    /\ UNCHANGED <<account, settings, job, runner, changes>>

-----------------------------------------------------------------------------
(* Accounts, time and stops.                                               *)

Outside(u, row) ==
  /\ changes < MaxChanges /\ changes' = changes + 1
  /\ account' = [account EXCEPT ![u] = row]
  /\ UNCHANGED <<settings, committed, store, job, runner>>

\* recordQualifyingActivity.
recordQualifyingActivity(u) ==
  /\ account[u].status = "active" /\ account[u].idle > 0
  /\ Outside(u, [account[u] EXCEPT !.idle = 0])

\* A superadmin suspends somebody else.
suspend(u) ==
  /\ account[u].status = "active" /\ ~LastSuperadmin(u)
  /\ Outside(u, [account[u] EXCEPT !.status = "suspended", !.held = 0])

\* Reactivation and the enrolment it asks for; neither is an activity.
reactivate(u) ==
  /\ account[u].status = "suspended"
  /\ Outside(u, [account[u] EXCEPT !.status = "active", !.held = 0])

Older(n) == IF n < AgeCap THEN n + 1 ELSE n
Sooner(n) == IF n > 0 THEN n - 1 ELSE 0

Tick ==
  /\ account' = [u \in Accounts |->
       [account[u] EXCEPT !.idle = Older(@),
                          !.held = IF account[u].status = "suspended" THEN Older(@) ELSE @]]
  /\ job' = [job EXCEPT !.next = Sooner(@), !.lease = Sooner(@)]
  /\ runner' = [r \in Runners |->
       IF runner[r].phase = "working" /\ runner[r].age < Wall
       THEN [runner[r] EXCEPT !.age = @ + 1] ELSE runner[r]]
  /\ UNCHANGED <<settings, committed, store, changes>>

\* The process stops; the next start reads the settings again.
Stop ==
  /\ changes < MaxChanges /\ changes' = changes + 1
  /\ runner' = [r \in Runners |-> Idle]
  /\ committed' = {} /\ store' = settings
  /\ UNCHANGED <<account, settings, job>>

RunStep == \E r \in Runners : LoopEnds(r) \/ complete(r)

Next ==
  \/ \E r \in Runners : acquire(r) \/ transitionOne(r) \/ Fails(r)
  \/ RunStep \/ update \/ replace \/ Tick \/ Stop
  \/ \E u \in Accounts : recordQualifyingActivity(u) \/ suspend(u) \/ reactivate(u)

\* Time passes, the timer fires, handlers and runs go on, and a run is not
\* always out of wall time before its first transaction.
Fairness ==
  /\ WF_jobVars(Tick) /\ WF_jobVars(acquire("timer"))
  /\ WF_jobVars(RunStep) /\ WF_jobVars(replace)
  /\ \A r \in Runners : SF_jobVars(transitionOne(r))

Spec == Init /\ [][Next]_jobVars /\ Fairness

-----------------------------------------------------------------------------
(* Properties.                                                             *)

TypeOK ==
  /\ \A u \in Accounts :
       /\ account[u].status \in {"active", "suspended", "deactivated"}
       /\ account[u].idle \in 0 .. AgeCap /\ account[u].held \in 0 .. AgeCap
  /\ job.lease \in 0 .. Wall + Margin /\ job.next \in 0 .. Interval
  /\ changes \in 0 .. MaxChanges

\* The store never falls behind what it had, and between updates it is the
\* row: a late handler does not put an older version back (replace); and
\* whatever runs overlap, a superadmin stays active (transitionOne).
SettingsAndSuperadminKept ==
  /\ TypeOK
  /\ committed = {} => store = settings
  /\ ActiveSuperadmins # {}

\* Once nothing else changes, every account that is due under the settings is
\* suspended or deactivated in the end, also after a stop that left the lease
\* taken, unless it is the last active superadmin (run, acquire).
IdleAccountsEnd == <>[](Candidates(settings, 0) = {})
=============================================================================
