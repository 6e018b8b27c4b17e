--------------------------- MODULE MCControlPlane ---------------------------
(***************************************************************************)
(* The control server for TLC, with its routes and its maintenance gate,   *)
(* and the inactivity job of the same process with the settings it reads.  *)
(* In the models they share no state, so a behaviour is about one of them, *)
(* its focus, and the other keeps its initial state.                       *)
(***************************************************************************)
EXTENDS MCControlServer

CONSTANTS Superadmins, Others, SuspendChoices, DeactivateChoices,
          Wall, Margin, Interval, BatchSize, MaxChanges   \* of the inactivity job

VARIABLES focus, account, settings, committed, store, timer, runner, changes

Inactivity == INSTANCE InactivityJob WITH job <- timer

\* The seed creates a superadmin; there are finitely many, and of the periods
\* that may be set one is the longest.
ASSUME JobParameters ==
  /\ IsFiniteSet(Superadmins) /\ Superadmins # {}
  /\ SuspendChoices \subseteq Nat /\ DeactivateChoices \subseteq Nat
  /\ \E d \in SuspendChoices \cup DeactivateChoices :
       \A e \in SuspendChoices \cup DeactivateChoices : e <= d
  /\ Wall \in Nat /\ Margin \in Nat /\ Interval \in Nat /\ MaxChanges \in Nat

ASSUME RequestsParameter == MaxRequests \in Nat

\* The registry refuses none of the definitions it is given.
ASSUME RegistryStarts == RegistryAccepts

jobVars == <<account, settings, committed, store, timer, runner, changes>>
planeVars == <<focus, vars, jobVars>>

PlaneInit == focus \in {"server", "job"} /\ Init /\ Inactivity!Init

PlaneNext ==
  \/ focus = "server" /\ Next /\ UNCHANGED <<focus, jobVars>>
  \/ focus = "job" /\ Inactivity!Next /\ UNCHANGED <<focus, vars>>

\* The fairness of each component, while it is the focus.
PlaneSpec ==
  /\ PlaneInit /\ [][PlaneNext]_planeVars
  /\ WF_vars(focus = "server" /\ JobEnds)
  /\ \A r \in Requests : WF_vars(focus = "server" /\ Step(r))
  /\ WF_jobVars(focus = "job" /\ Inactivity!Tick)
  /\ WF_jobVars(focus = "job" /\ Inactivity!acquire("timer"))
  /\ WF_jobVars(focus = "job" /\ Inactivity!RunStep)
  /\ WF_jobVars(focus = "job" /\ Inactivity!replace)
  /\ \A r \in Inactivity!Runners : SF_jobVars(focus = "job" /\ Inactivity!transitionOne(r))

-----------------------------------------------------------------------------
(* What is checked of each component.                                      *)

\* No effect without the right to it and none twice on one proof
\* (routeRegistry.ts, stepUp.ts withConsumedProof).
OnlyEntitledEffects == focus = "server" => EffectsAreEntitled

\* Ordinary work and a restore exclude each other (restoreMaintenance.ts).
OnlyRestoreRuns == focus = "server" => RestoreRunsAlone

\* Maintenance ends: whatever is draining or exclusive, ordinary requests are
\* let in again (restoreMaintenance.ts acquireExclusive, restoreCommit.ts).
GateReopens == focus = "server" => MaintenanceEnds

\* The cached settings never fall behind the row, and a superadmin stays
\* active (securitySettings.ts replace, inactivityJob.ts transitionOne).
SettingsAndSuperadminKept == focus = "job" => Inactivity!SettingsAndSuperadminKept

\* Every account that is due is dealt with in the end, also after a stop that
\* left the lease taken (inactivityJob.ts run, acquire).
IdleAccountsEnd == focus = "job" => Inactivity!IdleAccountsEnd
=============================================================================
