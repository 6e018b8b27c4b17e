------------------------------- MODULE Identity -------------------------------
(***************************************************************************)
(* The life of one account: enrollment, local and OIDC sign-in, browser    *)
(* and restricted sessions, step-up and credential changes                 *)
(* (identity/enrollment.ts, localAuthentication.ts, stepUp.ts,             *)
(* browserSessions.ts, oidcLogin.ts, oidcLink.ts), with what               *)
(* administrators, the CLI and the jobs do to it                           *)
(* (userLifecycleAdministration.ts, userAdministration.ts,                 *)
(* credentialLifecycle.ts, globalSecurityEvents.ts, securitySettings.ts,   *)
(* inactivityJob.ts).                                                      *)
(*                                                                         *)
(* A proof (password, code, temporary password, OIDC assertion) is         *)
(* verified against a candidate row read outside the transaction that uses *)
(* it, so a request is two steps: Start reads and verifies, the commit is  *)
(* one transaction that compares the candidate with the rows of that       *)
(* moment.  Administrators state the version they saw and are refused if   *)
(* it moved, which makes their operations atomic; whether the actor may    *)
(* act on this account depends on other accounts and is left open here.    *)
(*                                                                         *)
(* Secrets are named by what distinguishes them.  A password or temporary  *)
(* password is named by the security epoch it came with: each arrives in a *)
(* transaction of its own that moves the epoch.  The row versions the code *)
(* compares add nothing to the fields kept here: each moves together with  *)
(* one of them, except for a rename, which only makes a request fail.      *)
(* users.password_policy_version and the credential's policy_version are   *)
(* equal while there is a credential: both are "policy".                   *)
(*                                                                         *)
(* Revoking or expiring a session removes it.  Time is the Expire, Lapse   *)
(* and NextWindow actions.                                                 *)
(***************************************************************************)
EXTENDS Naturals, FiniteSets

CONSTANTS
  Roles,           \* roles in use; superadmin is one
  Authenticators,  \* TOTP authenticators (secrets)
  Steps,           \* TOTP time steps whose codes verify in the present window
  Subjects,        \* external identities
  Browsers,        \* browser_sessions identifiers
  Restricteds,     \* identity_restricted_sessions identifiers
  Requests,        \* requests under way
  None,
  Threshold,       \* automaticSuspensionThreshold (3 to 20 in the code)
  MaxEpoch,        \* bound on users.security_epoch
  MaxGlobal,       \* bound on global_security_epoch
  MaxPolicy,       \* bound on password_policy_version
  MaxChanges       \* bound on how far the three move together

ASSUME IdentityAssumption ==
  /\ "superadmin" \in Roles /\ IsFiniteSet(Steps)
  /\ None \notin Authenticators \cup Subjects \cup Browsers \cup Restricteds
  /\ {Threshold, MaxEpoch, MaxGlobal, MaxPolicy, MaxChanges} \subseteq Nat \ {0}

VARIABLES
  row,        \* users, local_authenticator_states, credentials, authenticator
  links,      \* external_identities of the account
  steps,      \* accepted_totp_steps
  failures,   \* identity_qualifying_authentication_failures
  restricted, \* the live identity_restricted_sessions row and its pending TOTP
  browser,    \* live browser_sessions, with their identity_step_up_proofs
  sec,        \* identity_security_state
  founded,    \* the system has users or the identity_bootstrap marker
  req,        \* requests between reading their candidate and committing
  accepted,   \* history: times each code of the window was accepted
  redeemed    \* history: sessions given for the last temporary password

state   == <<row, links, steps, failures, restricted, browser, sec, founded>>
history == <<accepted, redeemed>>
vars    == <<state, req, history>>

Epochs   == 1..MaxEpoch
Statuses == {"absent", "invited", "enrollment_required", "active", "suspended",
             "deactivated", "deleted"}
Purposes == {"initial_enrollment", "password_change", "totp_enrollment",
             "totp_replacement"}

Row == [role : Roles, status : Statuses, epoch : Epochs,
        pw : {"temporary", "configured", "disabled"},
        totp : {"not_configured", "configured", "disabled"},
        password : {0} \cup Epochs, auth : Authenticators \cup {None},
        policy : 1..MaxPolicy, change : Nat,
        temporary : {0} \cup Epochs]           \* 0: consumed, expired or revoked
Sec     == [epoch : 1..MaxGlobal, policy : 1..MaxPolicy, change : Nat]
Local   == [password : Epochs, auth : Authenticators]
Pending == [auth : Authenticators, policy : 1..MaxPolicy]
Restricted == [id : Restricteds, purpose : Purposes, epoch : Epochs,
               global : 1..MaxGlobal, pending : Pending \cup {None},
               proof : Nat]                    \* the password it was given for
Browser == [role : Roles, epoch : Epochs, global : 1..MaxGlobal,
            proof : Local \cup Subjects,       \* what was proved at sign-in
            elevated : Local \cup {None},      \* step_up_at, and with what
            stepUp : {"none", "open", "consumed"}, uses : Nat]

Absent == [role |-> "superadmin", status |-> "absent", epoch |-> 1,
           pw |-> "disabled", totp |-> "disabled", password |-> 0, auth |-> None,
           policy |-> 1, change |-> 1, temporary |-> 0]
Idle   == [kind |-> "idle"]
Unused == [a \in Authenticators |-> [t \in Steps |-> 0]]

Init ==
  /\ row = Absent /\ links = {} /\ steps = {} /\ failures = 0
  /\ restricted = None /\ browser = [s \in Browsers |-> None]
  /\ sec = [epoch |-> 1, policy |-> 1, change |-> 1]
  /\ founded \in BOOLEAN
  /\ req = [r \in Requests |-> Idle]
  /\ accepted = Unused /\ redeemed = 0

-----------------------------------------------------------------------------
(* What the code asks of the rows.                                         *)

Exists == row.status \notin {"absent", "deleted"}

\* isEligible, eligibleConfiguredCandidate
LocalConfigured(w) ==
  w.status = "active" /\ w.pw = "configured" /\ w.totp = "configured"

\* eligibleTotpRecoveryCandidate
Recoverable(w) ==
  w.status = "active" /\ w.pw = "configured" /\ w.totp = "not_configured"

\* eligibleTemporaryCandidate
Enrollable(w) ==
  /\ w.status \in {"invited", "enrollment_required"}
  /\ w.pw = "temporary" /\ w.totp = "not_configured" /\ w.temporary /= 0

\* validRestrictedState
ValidRestrictedState(purpose) ==
  CASE purpose = "initial_enrollment" ->
         /\ row.status \in {"invited", "enrollment_required"}
         /\ row.pw = "temporary" /\ row.totp = "not_configured"
    [] purpose = "password_change" ->
         row.status = "active" /\ row.pw = "temporary" /\ row.totp = "configured"
    [] purpose = "totp_enrollment" -> Recoverable(row)
    [] purpose = "totp_replacement" -> LocalConfigured(row)

Current(s) == s.epoch = row.epoch /\ s.global = sec.epoch

\* requireCurrentRestrictedSession
LiveRestricted(id) ==
  restricted /= None /\ restricted.id = id /\ Current(restricted)

\* restrictedSession: what the authenticator accepts.
RestrictedAccepted ==
  restricted /= None /\ Current(restricted) /\ ValidRestrictedState(restricted.purpose)

\* sessionIsValid
RoleClass(role) == IF role = "user" THEN "user" ELSE "admin"

SessionIsValid(s) ==
  /\ browser[s] /= None /\ Current(browser[s])
  /\ row.status = "active"
  /\ LocalConfigured(row) \/ links /= {}
  /\ RoleClass(browser[s].role) = RoleClass(row.role)

\* fiveMinuteValid
Elevated(s) ==
  /\ browser[s] /= None /\ Current(browser[s]) /\ LocalConfigured(row)
  /\ browser[s].elevated /= None

\* alwaysProof and the EXISTS of withConsumedProofGenerated
ProofOpen(s) ==
  /\ browser[s] /= None /\ Current(browser[s]) /\ LocalConfigured(row)
  /\ browser[s].stepUp = "open"

\* passwordPolicyStatus: whether an older password satisfies a newer policy
\* depends on the password.
PolicyStatus(w, s) ==
  IF w.change < s.change THEN {"change_required"}
  ELSE IF w.policy = s.policy THEN {"current"}
  ELSE {"advance", "change_required"}

LocalProof(w) == [password |-> w.password, auth |-> w.auth]

\* requireCurrentEligibleCandidate, sameConfiguredCandidate
SameConfigured(q) ==
  /\ LocalConfigured(row)
  /\ row.epoch = q.row.epoch /\ LocalProof(row) = LocalProof(q.row)
  /\ row.policy = q.row.policy /\ row.change = q.row.change
  /\ sec = q.sec

\* An identifier nothing refers to any more.
FreshRestricted(id) ==
  /\ restricted /= None => restricted.id /= id
  /\ \A r \in Requests : "restricted" \in DOMAIN req[r] => req[r].restricted /= id
FreshBrowser(s) ==
  /\ browser[s] = None
  /\ \A r \in Requests : "browser" \in DOMAIN req[r] => req[r].browser /= s
FreshAuthenticator(a) ==
  /\ row.auth /= a /\ accepted[a] = Unused[a]
  /\ restricted /= None /\ restricted.pending /= None => restricted.pending.auth /= a
  /\ \A r \in Requests : "row" \in DOMAIN req[r] => req[r].row.auth /= a
  /\ \A r \in Requests : "pending" \in DOMAIN req[r] => req[r].pending.auth /= a

-----------------------------------------------------------------------------
(* What the transactions do to the rows.                                   *)

Begin(r, q) == req[r] = Idle /\ req' = [req EXCEPT ![r] = q]
Finish(r)   == req' = [req EXCEPT ![r] = Idle]

\* revokeSessions, revokeUserSessions
RevokeSessions ==
  restricted' = None /\ browser' = [s \in Browsers |-> None]

\* The bound on changes of the epochs and the policy.
MayChange == row.epoch + sec.epoch + sec.policy < MaxChanges

\* The new row of a transaction that increments security_epoch.
MoveEpoch(w) ==
  row.epoch < MaxEpoch /\ MayChange /\ row' = [w EXCEPT !.epoch = row.epoch + 1]

\* acceptTotpStep, consumeTotpStep: a code of authenticator a.
AcceptStep(a, t) ==
  /\ t \notin steps /\ steps' = steps \cup {t}
  /\ accepted' = [accepted EXCEPT ![a][t] = @ + 1]

BrowserSession(w, global, proof) ==
  [role |-> w.role, epoch |-> w.epoch, global |-> global, proof |-> proof,
   elevated |-> None, stepUp |-> "none", uses |-> 0]

RestrictedSession(id, purpose, w, global, pending) ==
  [id |-> id, purpose |-> purpose, epoch |-> w.epoch, global |-> global,
   pending |-> pending,
   proof |-> IF purpose = "initial_enrollment" THEN w.temporary ELSE w.password]

-----------------------------------------------------------------------------
(* Accounts begin.                                                         *)

\* bootstrapInitialSuperadmin, with the temporary password of bootstrapCli
Bootstrap ==
  /\ ~founded /\ row.status = "absent"
  /\ founded' = TRUE
  /\ row' = [Absent EXCEPT !.status = "enrollment_required", !.pw = "temporary",
                           !.totp = "not_configured", !.temporary = 1]
  /\ redeemed' = 0
  /\ UNCHANGED <<links, steps, failures, restricted, browser, sec, req, accepted>>

\* completeProvisionalInitialEnrollment: the first superadmin enrolls in one
\* transaction; until then only this process's memory knows of it.
CompleteProvisional(a, t) ==
  /\ ~founded /\ row.status = "absent"
  /\ founded' = TRUE
  /\ row' = [Absent EXCEPT !.status = "active", !.pw = "configured",
                           !.totp = "configured", !.password = 1, !.auth = a,
                           !.policy = sec.policy, !.change = sec.change]
  /\ AcceptStep(a, t)
  /\ UNCHANGED <<links, failures, restricted, browser, sec, req, redeemed>>

\* UserLifecycleAdministrationRepository.invite
Invite(role) ==
  /\ founded /\ row.status = "absent" /\ role /= "superadmin"
  /\ row' = [Absent EXCEPT !.role = role, !.status = "invited", !.pw = "temporary",
                           !.totp = "not_configured", !.temporary = 1]
  /\ redeemed' = 0
  /\ UNCHANGED <<links, steps, failures, restricted, browser, sec, founded, req,
                 accepted>>

-----------------------------------------------------------------------------
(* Signing in with a temporary password, or with a password whose TOTP was *)
(* reset, gives a restricted session (enrollment.ts).                      *)

\* #temporaryLogin: eligibleTemporaryCandidate and the password verified
StartTemporaryLogin(r) ==
  /\ Enrollable(row)
  /\ Begin(r, [kind |-> "temporary", row |-> row, global |-> sec.epoch])
  /\ UNCHANGED <<state, history>>

\* createRestrictedSession with sameTemporaryCandidate
CommitTemporaryLogin(r, id) ==
  LET q == req[r] IN
  /\ q.kind = "temporary" /\ FreshRestricted(id)
  /\ Enrollable(row) /\ row.status = q.row.status /\ row.epoch = q.row.epoch
  /\ sec.epoch = q.global /\ row.temporary = q.row.temporary
  /\ row' = [row EXCEPT !.temporary = 0, !.status = "enrollment_required"]
  /\ restricted' = RestrictedSession(id, "initial_enrollment", q.row, q.global, None)
  /\ redeemed' = redeemed + 1
  /\ Finish(r)
  /\ UNCHANGED <<links, steps, failures, browser, sec, founded, accepted>>

\* totpRecoveryLogin: eligibleTotpRecoveryCandidate and the password verified
StartRecoveryLogin(r) ==
  /\ Recoverable(row)
  /\ Begin(r, [kind |-> "recovery", row |-> row, sec |-> sec])
  /\ UNCHANGED <<state, history>>

\* createRestrictedSession with sameTotpRecoveryCandidate
CommitRecoveryLogin(r, id) ==
  LET q == req[r] IN
  /\ q.kind = "recovery" /\ FreshRestricted(id)
  /\ Recoverable(row) /\ row.epoch = q.row.epoch /\ sec.epoch = q.sec.epoch
  /\ row.password = q.row.password /\ row.change = q.row.change
  /\ sec.change = q.sec.change
  /\ failures' = 0
  /\ restricted' = RestrictedSession(id, "totp_enrollment", q.row, q.sec.epoch, None)
  /\ Finish(r)
  /\ UNCHANGED <<row, links, steps, browser, sec, founded, history>>

\* beginInitial, beginTotpEnrollment: a second call keeps the policy version
\* that the pending row has from the first.
StartPending(r) ==
  /\ RestrictedAccepted
  /\ restricted.purpose \in {"initial_enrollment", "totp_enrollment"}
  /\ Begin(r, [kind |-> "begin", restricted |-> restricted.id,
               policy |-> IF restricted.pending = None THEN sec.policy
                          ELSE restricted.pending.policy])
  /\ UNCHANGED <<state, history>>

\* savePendingTotp
CommitPending(r, a) ==
  LET q == req[r] IN
  /\ q.kind = "begin" /\ LiveRestricted(q.restricted) /\ FreshAuthenticator(a)
  /\ restricted' = [restricted EXCEPT !.pending = [auth |-> a, policy |-> q.policy]]
  /\ Finish(r)
  /\ UNCHANGED <<row, links, steps, failures, browser, sec, founded, history>>

\* confirmInitial, confirmTotpEnrollment, confirmTotpReplacement: the code
\* verified with the pending authenticator
StartConfirm(r, t) ==
  /\ RestrictedAccepted /\ restricted.pending /= None
  /\ Begin(r, [kind |-> "confirm", restricted |-> restricted.id, step |-> t,
               pending |-> restricted.pending, row |-> row, global |-> sec.epoch])
  /\ UNCHANGED <<state, history>>

\* requireCurrentRestrictedSession, requiredPending and the code, for all three
ConfirmAllowed(q, purpose) ==
  /\ q.kind = "confirm" /\ LiveRestricted(q.restricted)
  /\ restricted.purpose = purpose
  /\ restricted.pending /= None /\ restricted.pending.auth = q.pending.auth
  /\ restricted.pending.policy = sec.policy
  /\ row.status = q.row.status
  /\ AcceptStep(q.pending.auth, q.step)

\* completeInitialEnrollment.  Inserting the authenticator fails if there is
\* one already.
CompleteInitialEnrollment(r) ==
  LET q == req[r] IN
  /\ ConfirmAllowed(q, "initial_enrollment")
  /\ restricted.pending.policy = q.pending.policy
  /\ row.epoch = q.row.epoch /\ sec.epoch = q.global
  /\ row.status \in {"invited", "enrollment_required"} /\ row.auth = None
  /\ MoveEpoch([row EXCEPT !.status = "active", !.pw = "configured",
                           !.totp = "configured", !.password = row.epoch + 1,
                           !.auth = q.pending.auth, !.policy = q.pending.policy,
                           !.change = sec.change, !.temporary = 0])
  /\ RevokeSessions /\ Finish(r)
  /\ UNCHANGED <<links, failures, sec, founded, redeemed>>

\* completeTotpEnrollment
CompleteTotpEnrollment(r) ==
  LET q == req[r] IN
  /\ ConfirmAllowed(q, "totp_enrollment")
  /\ Recoverable(row) /\ row.auth = None
  /\ MoveEpoch([row EXCEPT !.totp = "configured", !.auth = q.pending.auth])
  /\ RevokeSessions /\ Finish(r)
  /\ UNCHANGED <<links, failures, sec, founded, redeemed>>

\* completeTotpReplacement
CompleteTotpReplacement(r) ==
  LET q == req[r] IN
  /\ ConfirmAllowed(q, "totp_replacement")
  /\ LocalConfigured(row)
  /\ MoveEpoch([row EXCEPT !.auth = q.pending.auth])
  /\ RevokeSessions /\ Finish(r)
  /\ UNCHANGED <<links, failures, sec, founded, redeemed>>

-----------------------------------------------------------------------------
(* Signing in with password and code (localAuthentication.ts).             *)

\* verifyLocalProof, with the verdict of passwordPolicyStatus
StartLogin(r, t) ==
  /\ LocalConfigured(row)
  /\ \E v \in PolicyStatus(row, sec) :
       Begin(r, [kind |-> "login", verdict |-> v, step |-> t, row |-> row, sec |-> sec])
  /\ UNCHANGED <<state, history>>

\* commitLogin, with advancePasswordPolicy
CommitLogin(r, s) ==
  LET q == req[r] IN
  /\ q.kind = "login" /\ q.verdict /= "change_required" /\ FreshBrowser(s)
  /\ SameConfigured(q) /\ AcceptStep(q.row.auth, q.step)
  /\ row' = IF q.verdict = "advance"
            THEN [row EXCEPT !.policy = sec.policy, !.change = sec.change]
            ELSE row
  /\ browser' = [browser EXCEPT ![s] = BrowserSession(q.row, q.sec.epoch, LocalProof(q.row))]
  /\ failures' = 0
  /\ Finish(r)
  /\ UNCHANGED <<links, restricted, sec, founded, redeemed>>

\* commitPolicyRestrictedLogin
CommitPolicyRestrictedLogin(r, id) ==
  LET q == req[r] IN
  /\ q.kind = "login" /\ q.verdict = "change_required" /\ FreshRestricted(id)
  /\ SameConfigured(q) /\ AcceptStep(q.row.auth, q.step)
  /\ restricted' = RestrictedSession(id, "password_change", q.row, q.sec.epoch, None)
  /\ failures' = 0
  /\ Finish(r)
  /\ UNCHANGED <<row, links, browser, sec, founded, redeemed>>

\* verifyLocalProof with the right password and a wrong code
StartWrongCode(r) ==
  /\ LocalConfigured(row)
  /\ Begin(r, [kind |-> "wrong"])
  /\ UNCHANGED <<state, history>>

\* recordQualifyingTotpFailure: failures older than a day are dropped, the
\* new one is counted, and the threshold suspends the account.
RecordFailure(r) ==
  /\ req[r].kind = "wrong" /\ row.status = "active"
  /\ \E recent \in 0..failures :
       IF recent + 1 >= Threshold
       THEN /\ MoveEpoch([row EXCEPT !.status = "suspended"])
            /\ RevokeSessions /\ failures' = 0
       ELSE failures' = recent + 1 /\ UNCHANGED <<row, restricted, browser>>
  /\ Finish(r)
  /\ UNCHANGED <<links, steps, sec, founded, history>>

-----------------------------------------------------------------------------
(* Self-service and step-up from a browser session: password and code are  *)
(* verified again (enrollment.ts, stepUp.ts).                              *)

\* selfPasswordChange and beginTotpReplacement up to their transaction
StartReproof(r, s, t, kind) ==
  /\ SessionIsValid(s) /\ LocalConfigured(row)
  /\ Begin(r, [kind |-> kind, browser |-> s, step |-> t, row |-> row, sec |-> sec])
  /\ UNCHANGED <<state, history>>

\* StepUpService.stepUp up to its transaction
StartStepUp(r, s, t) ==
  /\ SessionIsValid(s) /\ LocalConfigured(row)
  /\ Begin(r, [kind |-> "stepup", browser |-> s, step |-> t, row |-> row,
               global |-> sec.epoch])
  /\ UNCHANGED <<state, history>>

\* requireCurrentBrowserSession and requireCurrentSessionCandidate
LiveBrowser(s) == browser[s] /= None /\ Current(browser[s]) /\ LocalConfigured(row)

\* completeSelfPasswordChange
CompleteSelfPasswordChange(r) ==
  LET q == req[r] IN
  /\ q.kind = "password" /\ LiveBrowser(q.browser) /\ row.role = q.row.role
  /\ SameConfigured(q) /\ AcceptStep(q.row.auth, q.step)
  /\ MoveEpoch([row EXCEPT !.password = row.epoch + 1, !.policy = sec.policy,
                           !.change = sec.change])
  /\ RevokeSessions /\ Finish(r)
  /\ UNCHANGED <<links, failures, sec, founded, redeemed>>

\* LocalEnrollmentRepository.beginTotpReplacement: the pending row takes the
\* policy version of the user.
BeginTotpReplacement(r, id, a) ==
  LET q == req[r] IN
  /\ q.kind = "replace" /\ LiveBrowser(q.browser) /\ row.role = q.row.role
  /\ FreshRestricted(id) /\ FreshAuthenticator(a)
  /\ SameConfigured(q) /\ AcceptStep(q.row.auth, q.step)
  /\ restricted' = RestrictedSession(id, "totp_replacement", q.row, q.sec.epoch,
                                     [auth |-> a, policy |-> row.policy])
  /\ Finish(r)
  /\ UNCHANGED <<row, links, failures, browser, sec, founded, redeemed>>

\* requireCurrentSessionCandidate: the session was issued under the
\* candidate's epochs.
SessionOfCandidate(q) ==
  /\ LiveBrowser(q.browser)
  /\ row.epoch = q.row.epoch /\ sec.epoch = q.global
  /\ LocalProof(row) = LocalProof(q.row)

\* elevateFiveMinutes, or issueAlwaysProof for one named operation
CommitStepUp(r) ==
  LET q == req[r] IN
  /\ q.kind = "stepup" /\ SessionOfCandidate(q) /\ AcceptStep(q.row.auth, q.step)
  /\ \/ browser' = [browser EXCEPT ![q.browser].elevated = LocalProof(q.row)]
     \/ /\ browser[q.browser].stepUp /= "open"
        /\ browser' = [browser EXCEPT ![q.browser].stepUp = "open",
                                      ![q.browser].uses = 0]
  /\ Finish(r)
  /\ UNCHANGED <<row, links, failures, restricted, sec, founded, redeemed>>

\* verifyStepUp with a proof: the handle is taken before the operation
StartOperation(r, s) ==
  /\ SessionIsValid(s) /\ ProofOpen(s)
  /\ Begin(r, [kind |-> "operation", browser |-> s])
  /\ UNCHANGED <<state, history>>

\* A variant of CommitOperation: the proof is consumed without asking again
\* whether it is open.
CommitOperationUnchecked(r) ==
  LET s == req[r].browser IN
  /\ req[r].kind = "operation" /\ LiveBrowser(s)
  /\ browser' = [browser EXCEPT ![s].stepUp = "consumed", ![s].uses = @ + 1]
  /\ Finish(r)
  /\ UNCHANGED <<row, links, steps, failures, restricted, sec, founded, history>>

\* withConsumedProofGenerated; the operation itself is on other rows
CommitOperation(r) ==
  LET s == req[r].browser IN
  /\ req[r].kind = "operation" /\ ProofOpen(s)
  /\ browser' = [browser EXCEPT ![s].stepUp = "consumed", ![s].uses = @ + 1]
  /\ Finish(r)
  /\ UNCHANGED <<row, links, steps, failures, restricted, sec, founded, history>>

-----------------------------------------------------------------------------
(* External identities (oidcLogin.ts, oidcLink.ts).                        *)

\* OidcLoginRepository.candidate after the assertion was verified
StartOidcLogin(r, x) ==
  /\ x \in links /\ row.status = "active"
  /\ Begin(r, [kind |-> "oidc", subject |-> x, row |-> row, global |-> sec.epoch])
  /\ UNCHANGED <<state, history>>

\* A variant of CommitOidcLogin: the session is given to the account as it is
\* now, without comparing it with the candidate.
CommitOidcLoginUnchecked(r, s) ==
  LET q == req[r] IN
  /\ q.kind = "oidc" /\ FreshBrowser(s) /\ row.status = "active"
  /\ browser' = [browser EXCEPT ![s] = BrowserSession(row, sec.epoch, q.subject)]
  /\ Finish(r)
  /\ UNCHANGED <<row, links, steps, failures, restricted, sec, founded, history>>

\* OidcLoginRepository.commit
CommitOidcLogin(r, s) ==
  LET q == req[r] IN
  /\ q.kind = "oidc" /\ FreshBrowser(s)
  /\ q.subject \in links /\ row.status = "active"
  /\ row.epoch = q.row.epoch /\ sec.epoch = q.global
  /\ browser' = [browser EXCEPT ![s] = BrowserSession(q.row, q.global, q.subject)]
  /\ Finish(r)
  /\ UNCHANGED <<row, links, steps, failures, restricted, sec, founded, history>>

\* completeRestricted: an enrolling user links instead of setting a password,
\* and is signed in under the epoch the transaction moves to.
CompleteRestrictedLink(x, s) ==
  /\ restricted /= None /\ LiveRestricted(restricted.id)
  /\ restricted.purpose = "initial_enrollment"
  /\ row.status \in {"invited", "enrollment_required"}
  /\ x \notin links /\ links' = links \cup {x} /\ FreshBrowser(s)
  /\ MoveEpoch([row EXCEPT !.status = "active", !.pw = "disabled",
                           !.totp = "disabled", !.password = 0, !.auth = None,
                           !.temporary = 0])
  /\ restricted' = None
  /\ browser' = [b \in Browsers |-> IF b = s THEN BrowserSession(row', sec.epoch, x) ELSE None]
  /\ UNCHANGED <<steps, failures, sec, founded, req, history>>

\* completeAdmin
CompleteAdminLink(x) ==
  /\ Exists /\ row.status /= "deactivated"
  /\ x \notin links /\ links' = links \cup {x}
  /\ MoveEpoch(row) /\ RevokeSessions
  /\ UNCHANGED <<steps, failures, sec, founded, req, history>>

\* unlink, with hasAlternativeMethod
Unlink(x) ==
  /\ Exists /\ x \in links
  /\ row.status = "active" =>
       (row.pw = "configured" /\ row.totp = "configured") \/ links /= {x}
  /\ links' = links \ {x}
  /\ MoveEpoch(row) /\ RevokeSessions
  /\ UNCHANGED <<steps, failures, sec, founded, req, history>>

-----------------------------------------------------------------------------
(* What others do to the account.                                          *)

\* resetToEnrollment and breakGlassReset
ResetRow ==
  /\ MoveEpoch([row EXCEPT !.status = "enrollment_required", !.pw = "temporary",
                           !.totp = "not_configured", !.password = 0,
                           !.auth = None, !.temporary = row.epoch + 1])
  /\ RevokeSessions /\ steps' = {} /\ failures' = 0 /\ redeemed' = 0
  /\ UNCHANGED <<links, sec, founded, req, accepted>>

\* resetPassword (active), reactivate (suspended), restoreEnrollment
\* (deactivated)
ResetToEnrollment ==
  row.status \in {"active", "suspended", "deactivated"} /\ ResetRow

\* breakGlassReset: from any status
BreakGlassReset ==
  Exists /\ row.role = "superadmin" /\ ResetRow

\* UserLifecycleAdministrationRepository.resetTotp
ResetTotp ==
  /\ row.status = "active"
  /\ MoveEpoch([row EXCEPT !.totp = "not_configured", !.auth = None])
  /\ RevokeSessions
  /\ UNCHANGED <<links, steps, failures, sec, founded, req, history>>

\* transition to suspended, and transitionOne of the inactivity job.  That a
\* last superadmin is spared depends on other accounts.
Suspend ==
  /\ row.status = "active"
  /\ MoveEpoch([row EXCEPT !.status = "suspended"])
  /\ RevokeSessions
  /\ UNCHANGED <<links, steps, failures, sec, founded, req, history>>

\* transition to deactivated, and transitionOne of the inactivity job
Deactivate ==
  /\ row.status \in {"active", "suspended"}
  /\ MoveEpoch([row EXCEPT !.status = "deactivated", !.pw = "disabled",
                           !.totp = "disabled", !.password = 0, !.auth = None,
                           !.temporary = 0])
  /\ RevokeSessions
  /\ UNCHANGED <<links, steps, failures, sec, founded, req, history>>

\* A variant of ChangeRole: restricted sessions are left.
ChangeRoleKeepingRestricted(role) ==
  /\ Exists /\ role /= row.role
  /\ MoveEpoch([row EXCEPT !.role = role])
  /\ browser' = [s \in Browsers |-> None]
  /\ UNCHANGED <<links, steps, failures, restricted, sec, founded, req, history>>

\* changeRole
ChangeRole(role) ==
  /\ Exists /\ role /= row.role
  /\ MoveEpoch([row EXCEPT !.role = role])
  /\ RevokeSessions
  /\ UNCHANGED <<links, steps, failures, sec, founded, req, history>>

\* updateProfile with a new email address
ChangeEmail ==
  /\ Exists
  /\ MoveEpoch(row) /\ RevokeSessions
  /\ UNCHANGED <<links, steps, failures, sec, founded, req, history>>

\* deleteUser: the other rows of the user go with it
DeleteUser ==
  /\ row.status = "deactivated" /\ row.role /= "superadmin"
  /\ row' = [Absent EXCEPT !.status = "deleted"]
  /\ links' = {} /\ steps' = {} /\ failures' = 0
  /\ RevokeSessions
  /\ UNCHANGED <<sec, founded, req, history>>

\* executeEvent: password_change
GlobalPasswordChange ==
  /\ founded /\ sec.epoch < MaxGlobal /\ MayChange
  /\ sec' = [sec EXCEPT !.epoch = @ + 1, !.change = @ + 1]
  /\ RevokeSessions
  /\ UNCHANGED <<row, links, steps, failures, founded, req, history>>

\* executeEvent: totp_reset
GlobalTotpReset ==
  /\ founded /\ sec.epoch < MaxGlobal /\ MayChange
  /\ sec' = [sec EXCEPT !.epoch = @ + 1]
  /\ row' = [row EXCEPT !.auth = None,
                        !.totp = IF @ = "disabled" \/ row.pw = "disabled"
                                 THEN "disabled" ELSE "not_configured"]
  /\ RevokeSessions /\ steps' = {}
  /\ UNCHANGED <<links, failures, founded, req, history>>

\* SecuritySettingsRepository.update raising the password policy
RaisePasswordPolicy ==
  /\ founded /\ sec.policy < MaxPolicy /\ MayChange
  /\ sec' = [sec EXCEPT !.policy = @ + 1]
  /\ UNCHANGED <<row, links, steps, failures, restricted, browser, founded, req,
                 history>>

-----------------------------------------------------------------------------
(* Time, and requests that end without a commit.                           *)

ExpireTemporary ==
  /\ row.temporary /= 0 /\ row' = [row EXCEPT !.temporary = 0]
  /\ UNCHANGED <<links, steps, failures, restricted, browser, sec, founded, req,
                 history>>

ExpireRestricted ==
  /\ restricted /= None /\ restricted' = None
  /\ UNCHANGED <<row, links, steps, failures, browser, sec, founded, req, history>>

\* BrowserSessionRepository.revoke (logout), or the session times out
EndBrowser(s) ==
  /\ browser[s] /= None /\ browser' = [browser EXCEPT ![s] = None]
  /\ UNCHANGED <<row, links, steps, failures, restricted, sec, founded, req, history>>

\* STEP_UP_WINDOW_MS passes for the elevation or for the proof.
LapseStepUp(s) ==
  /\ browser[s] /= None
  /\ \/ /\ browser[s].elevated /= None
        /\ browser' = [browser EXCEPT ![s].elevated = None]
     \/ /\ browser[s].stepUp = "open"
        /\ browser' = [browser EXCEPT ![s].stepUp = "none"]
  /\ UNCHANGED <<row, links, steps, failures, restricted, sec, founded, req, history>>

\* The TOTP window moves on: the codes of Steps are other codes from now on.
\* Codes under way are of the window they were verified in.
NextWindow ==
  /\ accepted /= Unused \/ steps /= {}
  /\ \A r \in Requests : "step" \notin DOMAIN req[r]
  /\ steps' = {} /\ accepted' = Unused
  /\ UNCHANGED <<row, links, failures, restricted, browser, sec, founded, req, redeemed>>

\* The commit is refused, or the process stops before it.
Abandon(r) ==
  /\ req[r] /= Idle /\ Finish(r)
  /\ UNCHANGED <<state, history>>

-----------------------------------------------------------------------------
Enrollment ==
  \/ Bootstrap
  \/ \E a \in Authenticators, t \in Steps : CompleteProvisional(a, t)
  \/ \E role \in Roles : Invite(role)
  \/ \E r \in Requests :
       \/ StartTemporaryLogin(r) \/ StartRecoveryLogin(r) \/ StartPending(r)
       \/ \E t \in Steps : StartConfirm(r, t)
       \/ \E id \in Restricteds : CommitTemporaryLogin(r, id) \/ CommitRecoveryLogin(r, id)
       \/ \E a \in Authenticators : CommitPending(r, a)
       \/ CompleteInitialEnrollment(r) \/ CompleteTotpEnrollment(r)
       \/ CompleteTotpReplacement(r)

SignIn ==
  \E r \in Requests :
    \/ StartWrongCode(r) \/ RecordFailure(r)
    \/ \E t \in Steps : StartLogin(r, t)
    \/ \E s \in Browsers : CommitLogin(r, s) \/ CommitOidcLogin(r, s)
    \/ \E id \in Restricteds : CommitPolicyRestrictedLogin(r, id)
    \/ \E x \in Subjects : StartOidcLogin(r, x)

SelfService ==
  \E r \in Requests :
    \/ \E s \in Browsers, t \in Steps :
         \/ \E kind \in {"password", "replace"} : StartReproof(r, s, t, kind)
         \/ StartStepUp(r, s, t)
    \/ CompleteSelfPasswordChange(r) \/ CommitStepUp(r) \/ CommitOperation(r)
    \/ \E id \in Restricteds, a \in Authenticators : BeginTotpReplacement(r, id, a)
    \/ \E s \in Browsers : StartOperation(r, s)

Administration ==
  \/ \E x \in Subjects : CompleteAdminLink(x) \/ Unlink(x)
  \/ \E x \in Subjects, s \in Browsers : CompleteRestrictedLink(x, s)
  \/ ResetToEnrollment \/ BreakGlassReset \/ ResetTotp \/ Suspend \/ Deactivate
  \/ ChangeEmail \/ DeleteUser
  \/ \E role \in Roles : ChangeRole(role)
  \/ GlobalPasswordChange \/ GlobalTotpReset \/ RaisePasswordPolicy

Time ==
  \/ ExpireTemporary \/ ExpireRestricted \/ NextWindow
  \/ \E s \in Browsers : EndBrowser(s) \/ LapseStepUp(s)
  \/ \E r \in Requests : Abandon(r)

Next == Enrollment \/ SignIn \/ SelfService \/ Administration \/ Time

Spec == Init /\ [][Next]_vars

-----------------------------------------------------------------------------
Request ==
  [kind : {"idle", "wrong"}]
  \cup [kind : {"temporary"}, row : Row, global : 1..MaxGlobal]
  \cup [kind : {"recovery"}, row : Row, sec : Sec]
  \cup [kind : {"begin"}, restricted : Restricteds, policy : 1..MaxPolicy]
  \cup [kind : {"confirm"}, restricted : Restricteds, step : Steps,
        pending : Pending, row : Row, global : 1..MaxGlobal]
  \cup [kind : {"login"}, verdict : {"current", "advance", "change_required"},
        step : Steps, row : Row, sec : Sec]
  \cup [kind : {"password", "replace"}, browser : Browsers, step : Steps,
        row : Row, sec : Sec]
  \cup [kind : {"stepup"}, browser : Browsers, step : Steps, row : Row,
        global : 1..MaxGlobal]
  \cup [kind : {"operation"}, browser : Browsers]
  \cup [kind : {"oidc"}, subject : Subjects, row : Row, global : 1..MaxGlobal]

\* Every variable holds what its table can hold.
TypeOK ==
  /\ row \in Row /\ links \subseteq Subjects /\ steps \subseteq Steps
  /\ failures \in 0..(Threshold - 1)
  /\ restricted \in Restricted \cup {None}
  /\ browser \in [Browsers -> Browser \cup {None}]
  /\ sec \in Sec /\ founded \in BOOLEAN
  /\ req \in [Requests -> Request]
  /\ accepted \in [Authenticators -> [Steps -> Nat]] /\ redeemed \in Nat

\* Whatever a session that the authenticators accept was given for still
\* holds: the password and authenticator, or the external identity, of a
\* browser session and of its step-up elevation (sessionIsValid,
\* fiveMinuteValid), and the password of a restricted session
\* (restrictedSession), are the account's own now.  The code revokes and
\* moves epochs to that end while sign-ins it cannot see are under way.
SessionsRestOnCurrentProof ==
  /\ \A s \in Browsers : SessionIsValid(s) =>
       browser[s].proof \in links \cup {LocalProof(row)}
  /\ \A s \in Browsers : Elevated(s) => browser[s].elevated = LocalProof(row)
  /\ RestrictedAccepted /\ restricted.purpose /= "initial_enrollment" =>
       restricted.proof = row.password

\* A code of an authenticator is accepted once, whichever of sign-in,
\* confirmation, step-up and self-service presents it, and although resets
\* clear accepted_totp_steps.
CodeAcceptedOnce ==
  \A a \in Authenticators, t \in Steps : accepted[a][t] <= 1

\* A temporary password gives one restricted session (createRestrictedSession),
\* however many requests verified it before the first was consumed.
TemporaryRedeemedOnce == redeemed <= 1

\* A step-up proof authorizes one operation (withConsumedProofGenerated),
\* however many requests hold its handle.
ProofSpentOnce == \A s \in Browsers : browser[s] /= None => browser[s].uses <= 1

\* An active account can prove itself: with password and code, with an
\* external identity, or with a password that lets it enroll a new
\* authenticator.  unlink guards this with hasAlternativeMethod; the resets
\* and links have to keep it too.
ActiveCanSignIn ==
  row.status = "active" =>
    \/ LocalConfigured(row) /\ row.password /= 0 /\ row.auth /= None
    \/ Recoverable(row) /\ row.password /= 0
    \/ links /= {}

\* No session outlives a change of what the account signs in with, of its
\* role or of its status: a transaction that changes one of them, whether an
\* administrator's, a job's, the CLI's or the user's own, leaves only a session
\* it created itself.
SecurityChangeEndsSessions ==
  [][ <<row.role, row.status, LocalProof(row), links>>'
        /= <<row.role, row.status, LocalProof(row), links>>
      => /\ \A s \in Browsers : browser[s] /= None => browser'[s] = None
         /\ restricted /= None => restricted' = None
    ]_vars

\* The password_change session that a sign-in with an outdated password gives
\* (commitPolicyRestrictedLogin) lets its holder change the password: every
\* current restricted session is one the authenticator accepts.
RestrictedSessionUsable ==
  restricted /= None /\ Current(restricted) => RestrictedAccepted

\* Codes, temporary passwords and step-up proofs are used once, however many
\* requests verified them before the first was consumed.
UsedOnce == CodeAcceptedOnce /\ TemporaryRedeemedOnce /\ ProofSpentOnce

\* Sessions rest on what the account can prove now, and while it is active
\* there is something it can prove.
ProofsCurrent == TypeOK /\ SessionsRestOnCurrentProof /\ ActiveCanSignIn
=============================================================================
