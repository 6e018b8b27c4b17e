-------------------------------- MODULE Backup ---------------------------------
(***************************************************************************)
(* Portable backups (backupCoordinator.ts, backupProjection.ts) while a    *)
(* credential is replaced (credentialVaultCoordinator.ts).                 *)
(*                                                                         *)
(* create() projects the configuration, issues and claims an export        *)
(* authorization with the caller's step-up proof, asks the vault for the   *)
(* selected secrets at the projected generations, and writes the audit     *)
(* event with the end of the authorization.  Any number of requests run,   *)
(* at most MaxConcurrent beyond admission.                                 *)
(*                                                                         *)
(* Bounds: the export requests of Exports, MaxGen generations of the one   *)
(* credential, MaxNow ticks; TTL, Window and Attempts are the constants of *)
(* the code in ticks.                                                      *)
(***************************************************************************)
EXTENDS Naturals, FiniteSets

CONSTANTS Exports, MaxConcurrent, Attempts, Window, TTL, MaxGen, MaxNow

VARIABLES export,  \* the requests
          active,  \* #active
          rate,    \* #rate: a count and its end for each principal, 0 for no entry
          auth,    \* backup_export_authorizations
          audit,   \* results of the backup.export events of each request
          cred,    \* the credential: its row and its record in the vault
          time

backupVars == <<export, active, rate, auth, audit, cred, time>>

\* The superadmin at a browser and the system API key: who asks, and how.
Principals == {"browser", "system"}

NoExport == [step |-> "none", by |-> "none", secrets |-> FALSE, at |-> 0,
             gen |-> 0, claimed |-> FALSE, content |-> 0]

NoAuth == [state |-> "none", exp |-> 0]

Ended == {"none", "delivered", "refused", "failed"}

Running(e) == export[e].step \notin Ended /\ export[e].step # "admit"

Steps(e, step) == export' = [export EXCEPT ![e].step = step]

Drops(e, step) == export' = [export EXCEPT ![e] = [NoExport EXCEPT !.step = step]]

Records(e, results) == audit' = [audit EXCEPT ![e] = @ \cup results]

\* A variant of Released: only an archive that is delivered gives the slot back.
ReleasedOnSuccess(e) == IF export'[e].step = "delivered" THEN active - 1 ELSE active

\* The finally block.
Released(e) == active - 1

Ends(e) == Drops(e, "failed") /\ active' = Released(e)

\* The catch block: one error event, with the end of a claimed authorization.
Fails(e) ==
  /\ Ends(e)
  /\ Records(e, {"error"})
  /\ auth' = IF export[e].claimed /\ auth[e].state = "claimed"
             THEN [auth EXCEPT ![e].state = "failed"] ELSE auth

-----------------------------------------------------------------------------
\* authorizedActor: the browser session of an active superadmin, or a system key
\* that asks for no secrets.
create(e, p, secrets) ==
  /\ export[e].step = "none" /\ \A d \in Exports : d < e => export[d].step # "none"
  /\ \/ /\ secrets => p = "browser"
        /\ export' = [export EXCEPT ![e] = [NoExport EXCEPT !.step = "admit", !.by = p,
             !.secrets = secrets, !.at = time]]
        /\ UNCHANGED audit
     \/ Drops(e, "refused") /\ Records(e, {"deny"})
  /\ UNCHANGED <<active, rate, auth, cred, time>>

\* takeRate, after the entries whose window has passed are dropped.
Dropped(at) == [p \in Principals |-> IF rate[p].end <= at THEN [count |-> 0, end |-> 0] ELSE rate[p]]

takeRate(p, at) ==
  LET r == Dropped(at)
  IN IF r[p].count = 0 THEN [r EXCEPT ![p] = [count |-> 1, end |-> at + Window]]
     ELSE IF r[p].count < Attempts THEN [r EXCEPT ![p].count = @ + 1] ELSE r

Taken(p, at) == Dropped(at)[p].count < Attempts

\* The rate is taken also by a request that finds no slot.
Admit(e) ==
  /\ export[e].step = "admit"
  /\ rate' = takeRate(export[e].by, export[e].at)
  /\ IF Taken(export[e].by, export[e].at) /\ active < MaxConcurrent
     THEN Steps(e, "project") /\ active' = active + 1 /\ UNCHANGED audit
     ELSE Drops(e, "refused") /\ Records(e, {"deny"}) /\ UNCHANGED active
  /\ UNCHANGED <<auth, cred, time>>

\* cleanupExpired takes every authorization past its time, claimed ones too.
Expired(at) == [e \in Exports |-> IF auth[e].exp <= at THEN NoAuth ELSE auth[e]]

\* cleanupExpired and project, which refuses a credential under change.
project(e) ==
  /\ export[e].step = "project"
  /\ IF export[e].secrets /\ cred.state # "idle"
     THEN Ends(e) /\ Records(e, {"error"}) /\ auth' = Expired(time)
     ELSE /\ export' = [export EXCEPT ![e].gen = cred.row,
               ![e].step = IF export[e].by = "browser" THEN "issue" ELSE "finalize"]
          /\ auth' = Expired(time)
          /\ UNCHANGED <<active, audit>>
  /\ UNCHANGED <<rate, cred, time>>

issueAuthorization(e) ==
  /\ export[e].step = "issue"
  /\ auth' = [Expired(export[e].at) EXCEPT ![e] = [state |-> "issued", exp |-> export[e].at + TTL]]
  /\ Steps(e, "claim")
  /\ UNCHANGED <<active, rate, audit, cred, time>>

\* withConsumedProof with claimAuthorization; the proof may be refused.
claimAuthorization(e) ==
  /\ export[e].step = "claim"
  /\ \/ /\ auth[e].state = "issued" /\ auth[e].exp > export[e].at
        /\ auth' = [auth EXCEPT ![e].state = "claimed"]
        /\ export' = [export EXCEPT ![e].claimed = TRUE,
             ![e].step = IF export[e].secrets THEN "vault" ELSE "finalize"]
        /\ UNCHANGED <<active, audit>>
     \/ Fails(e)
  /\ UNCHANGED <<rate, cred, time>>

\* forEachBackupRecord checks the generation and the binding of each record.
Exportable(e) == cred.vault = export[e].gen

exportEncrypted(e) ==
  /\ export[e].step = "vault"
  /\ \/ /\ Exportable(e)
        /\ export' = [export EXCEPT ![e].content = cred.vault, ![e].step = "finalize"]
        /\ UNCHANGED <<active, audit, auth>>
     \/ Fails(e)
  /\ UNCHANGED <<rate, cred, time>>

Finalizes(e) == export[e].claimed => auth[e].state = "claimed"

\* createPortableArchive and finalizeAuthorization.  When the authorization is
\* gone the event is written all the same; then the request fails.
Finalize(e) ==
  /\ export[e].step = "finalize"
  /\ \/ /\ Finalizes(e)
        /\ Steps(e, "delivered") /\ active' = Released(e) /\ Records(e, {"allow"})
        /\ auth' = IF export[e].claimed THEN [auth EXCEPT ![e].state = "completed"] ELSE auth
     \/ ~Finalizes(e) /\ Ends(e) /\ Records(e, {"allow", "error"}) /\ UNCHANGED auth
     \/ Fails(e)
  /\ UNCHANGED <<rate, cred, time>>

-----------------------------------------------------------------------------
\* The replacement of the credential's secret: the intent, the vault, the row.
PrepareReplace ==
  /\ cred.state = "idle" /\ cred.row < MaxGen
  /\ cred' = [cred EXCEPT !.state = "pending"]
  /\ UNCHANGED <<export, active, rate, auth, audit, time>>

ReplaceInVault ==
  /\ cred.state = "pending" /\ cred.vault = cred.row
  /\ cred' = [cred EXCEPT !.vault = @ + 1]
  /\ UNCHANGED <<export, active, rate, auth, audit, time>>

FinalizeReplace ==
  /\ cred.state = "pending" /\ cred.vault > cred.row
  /\ cred' = [cred EXCEPT !.row = cred.vault, !.state = "idle"]
  /\ UNCHANGED <<export, active, rate, auth, audit, time>>

Tick ==
  /\ time < MaxNow
  /\ time' = time + 1
  /\ UNCHANGED <<export, active, rate, auth, audit, cred>>

\* The process stops: its requests and its counters go.
Restart ==
  /\ \E e \in Exports : export[e].step \notin Ended
  /\ export' = [e \in Exports |-> IF export[e].step \in Ended THEN export[e]
                                  ELSE [NoExport EXCEPT !.step = "failed"]]
  /\ active' = 0
  /\ rate' = [p \in Principals |-> [count |-> 0, end |-> 0]]
  /\ UNCHANGED <<auth, audit, cred, time>>

Init ==
  /\ export = [e \in Exports |-> NoExport] /\ active = 0
  /\ rate = [p \in Principals |-> [count |-> 0, end |-> 0]]
  /\ auth = [e \in Exports |-> NoAuth] /\ audit = [e \in Exports |-> {}]
  /\ cred = [row |-> 1, vault |-> 1, state |-> "idle"] /\ time = 0

Progress(e) ==
  Admit(e) \/ project(e) \/ issueAuthorization(e) \/ claimAuthorization(e) \/ exportEncrypted(e)
  \/ Finalize(e)

Next ==
  \/ \E e \in Exports : Progress(e)
  \/ \E e \in Exports, p \in Principals, s \in BOOLEAN : create(e, p, s)
  \/ PrepareReplace \/ ReplaceInVault \/ FinalizeReplace
  \/ Tick \/ Restart

Spec == Init /\ [][Next]_backupVars

-----------------------------------------------------------------------------
TypeOK ==
  /\ active \in 0..MaxConcurrent /\ time \in 0..MaxNow
  /\ \A p \in Principals : rate[p].count \in 0..Attempts
  /\ \A e \in Exports : auth[e].state \in {"none", "issued", "claimed", "completed", "failed"}

(***************************************************************************)
(* Concurrent exports, a replacement of the secret in between, and a       *)
(* cleanup that removes authorizations: an archive that is delivered       *)
(* carries the secret of the generation its configuration names, was       *)
(* recorded as allowed and as nothing else, and used an authorization that *)
(* was still there; the slots in use are those of the requests under way.  *)
(***************************************************************************)
ExportsCoherent ==
  /\ TypeOK
  /\ active = Cardinality({e \in Exports : Running(e)})
  /\ \A e \in Exports : export[e].step = "delivered" =>
       /\ audit[e] = {"allow"}
       /\ export[e].secrets => export[e].content = export[e].gen
       /\ export[e].claimed => auth[e].state \in {"completed", "none"}
       /\ auth[e].state = "none" /\ export[e].claimed => time >= export[e].at + TTL
=============================================================================
