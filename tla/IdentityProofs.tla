---------------------------- MODULE IdentityProofs ----------------------------
(***************************************************************************)
(* Proofs about Identity, for all sets of roles, authenticators, codes,    *)
(* identities, sessions and requests and for all bounds.                   *)
(*                                                                         *)
(* The inductive invariant IInv has a part for the account (AccountOK),    *)
(* one for the sessions (SessionsOK) and one for what is used once         *)
(* (CodesOK).  It says more of a session than the properties do: a session *)
(* rests on the account's own proof whether its epochs are current or not, *)
(* because every transaction that changes a proof, the role or the status  *)
(* ends the sessions there are.                                            *)
(***************************************************************************)
EXTENDS Identity, TLAPS

\* An account that says it has a password or a code has it, an active one can sign
\* in, and only a founded system has an account.
AccountOK ==
  /\ row.pw = "configured" => row.password /= 0
  /\ row.totp = "configured" => row.auth /= None
  /\ ActiveCanSignIn
  /\ ~founded => row.status = "absent"

BrowserOK(b) ==
  /\ row.status = "active"
  /\ b.proof \in links \cup {LocalProof(row)}
  /\ b.elevated \in {None, LocalProof(row)}
  /\ b.uses <= 1 /\ (b.stepUp = "open" => b.uses = 0)

RestrictedOK(p) ==
  /\ row.status \notin {"absent", "invited"}
  /\ p.purpose /= "initial_enrollment" => p.proof = row.password

SessionsOK ==
  /\ \A s \in Browsers : browser[s] /= None => BrowserOK(browser[s])
  /\ restricted /= None => RestrictedOK(restricted)

\* A code accepted of the account's authenticator is on record while its window
\* lasts; no code of a pending authenticator was ever accepted.
CodesOK ==
  /\ \A a \in Authenticators, t \in Steps :
       /\ accepted[a][t] <= 1
       /\ a = row.auth /\ accepted[a][t] /= 0 => t \in steps
       /\ row.status = "absent" => accepted[a][t] = 0
  /\ restricted /= None /\ restricted.pending /= None =>
       /\ restricted.pending.auth /= row.auth
       /\ \A t \in Steps : accepted[restricted.pending.auth][t] = 0
  /\ redeemed <= 1 /\ (redeemed /= 0 => row.temporary = 0)

IInv == TypeOK /\ AccountOK /\ SessionsOK /\ CodesOK

-----------------------------------------------------------------------------
(* Types.                                                                  *)

\* The bounds leave room for the first epoch and policy.
LEMMA Bounds ==
  /\ Threshold \in Nat \ {0} /\ MaxEpoch \in Nat \ {0} /\ MaxGlobal \in Nat \ {0}
  /\ MaxPolicy \in Nat \ {0} /\ 1 \in Epochs /\ 1 \in 1..MaxGlobal /\ 1 \in 1..MaxPolicy
  /\ 0 \in 0..(Threshold - 1)
<1>1. /\ Threshold \in Nat \ {0} /\ MaxEpoch \in Nat \ {0} /\ MaxGlobal \in Nat \ {0}
      /\ MaxPolicy \in Nat \ {0}
  BY IdentityAssumption
<1> QED
  BY <1>1 DEF Epochs

\* What a request carries, by its kind.
LEMMA RequestFields ==
  ASSUME NEW q \in Request
  PROVE  /\ q.kind \in {"temporary", "oidc"} => q.row \in Row /\ q.global \in 1..MaxGlobal
         /\ q.kind = "recovery" => q.row \in Row /\ q.sec \in Sec
         /\ q.kind = "begin" => q.restricted \in Restricteds /\ q.policy \in 1..MaxPolicy
         /\ q.kind = "confirm" => /\ q.restricted \in Restricteds /\ q.step \in Steps
                                  /\ q.pending \in Pending /\ q.row \in Row
                                  /\ q.global \in 1..MaxGlobal
         /\ q.kind = "login" => /\ q.step \in Steps /\ q.row \in Row /\ q.sec \in Sec
                                /\ q.verdict \in {"current", "advance", "change_required"}
         /\ q.kind \in {"password", "replace"} =>
              q.browser \in Browsers /\ q.step \in Steps /\ q.row \in Row /\ q.sec \in Sec
         /\ q.kind = "stepup" => /\ q.browser \in Browsers /\ q.step \in Steps
                                 /\ q.row \in Row /\ q.global \in 1..MaxGlobal
         /\ q.kind = "operation" => q.browser \in Browsers
         /\ q.kind = "oidc" => q.subject \in Subjects
  BY DEF Request

\* A request begins with what it read, and ends idle.
LEMMA RequestsOK ==
  ASSUME req \in [Requests -> Request], NEW r \in Requests
  PROVE  /\ Finish(r) => req' \in [Requests -> Request]
         /\ \A q \in Request : Begin(r, q) => req' \in [Requests -> Request]
  BY DEF Finish, Begin, Idle, Request

\* Moving the epoch keeps the row well typed.
LEMMA MoveEpochOK ==
  ASSUME TypeOK, NEW w \in Row, MoveEpoch(w)
  PROVE  /\ row' \in Row /\ row.epoch + 1 \in Epochs
         /\ row' = [w EXCEPT !.epoch = row.epoch + 1]
  BY IdentityAssumption DEF TypeOK, MoveEpoch, Row, Epochs

\* Revoking ends every session.
LEMMA Revoked ==
  ASSUME RevokeSessions
  PROVE  /\ restricted' \in Restricted \cup {None}
         /\ browser' \in [Browsers -> Browser \cup {None}]
         /\ SessionsOK'
  BY DEF RevokeSessions, SessionsOK

\* A code accepted is recorded once more.
LEMMA AcceptStepOK ==
  ASSUME TypeOK, NEW a \in Authenticators, NEW t \in Steps, AcceptStep(a, t)
  PROVE  /\ steps' \subseteq Steps
         /\ accepted' \in [Authenticators -> [Steps -> Nat]]
  BY DEF TypeOK, AcceptStep

\* The proof of a configured account.
LEMMA LocalProofOK ==
  ASSUME IInv, LocalConfigured(row)
  PROVE  LocalProof(row) \in Local
  BY DEF IInv, TypeOK, AccountOK, LocalConfigured, LocalProof, Local, Row

\* New sessions are well typed.
LEMMA SessionTypes ==
  ASSUME NEW w \in Row, NEW g \in 1..MaxGlobal
  PROVE  /\ \A p \in Local \cup Subjects : BrowserSession(w, g, p) \in Browser
         /\ \A id \in Restricteds, u \in Purposes, n \in Pending \cup {None} :
              RestrictedSession(id, u, w, g, n) \in Restricted
<1>1. \A p \in Local \cup Subjects : BrowserSession(w, g, p) \in Browser
  BY DEF BrowserSession, Browser, Row
<1>2. \A id \in Restricteds, u \in Purposes, n \in Pending \cup {None} :
        RestrictedSession(id, u, w, g, n) \in Restricted
  BY IdentityAssumption DEF RestrictedSession, Restricted, Row, Epochs
<1> QED
  BY <1>1, <1>2

-----------------------------------------------------------------------------
(* Steps that have the same shape.                                         *)

\* A request that reads and verifies changes nothing else.
LEMMA QuietOK ==
  ASSUME IInv, UNCHANGED <<state, history>>, req' \in [Requests -> Request]
  PROVE  IInv'
<1>1. /\ UNCHANGED <<row, links, steps, failures, restricted, browser, sec, founded>>
      /\ UNCHANGED <<accepted, redeemed>>
  BY DEF state, history
<1>2. TypeOK' /\ AccountOK' /\ CodesOK'
  BY <1>1 DEF IInv, TypeOK, AccountOK, ActiveCanSignIn, CodesOK, LocalConfigured, Recoverable
<1>3. SessionsOK'
  BY <1>1 DEF IInv, SessionsOK, BrowserOK, RestrictedOK, LocalProof
<1> QED
  BY <1>2, <1>3 DEF IInv

\* A transaction that revokes the sessions and leaves the account's authenticator
\* with its codes, or takes it away.
LEMMA RevokingOK ==
  ASSUME IInv, RevokeSessions, row' \in Row, AccountOK', links' \subseteq Subjects,
         steps' \subseteq Steps, failures' \in 0..(Threshold - 1), sec' \in Sec,
         founded' = founded, req' \in [Requests -> Request], accepted' = accepted,
         row'.auth = None \/ (row'.auth = row.auth /\ steps' = steps),
         row'.status = "absent" => row.status = "absent",
         redeemed' = 0 \/ (redeemed' = redeemed /\ row'.temporary \in {0, row.temporary})
  PROVE  IInv'
<1>1. TypeOK'
  BY Revoked DEF IInv, TypeOK
<1>2. CodesOK'
  BY IdentityAssumption DEF IInv, CodesOK, RevokeSessions
<1> QED
  BY <1>1, <1>2, Revoked DEF IInv

\* A row that keeps its proof, status and temporary password is as good as before.
LEMMA SameAccount ==
  ASSUME AccountOK, founded' = founded, links' = links,
         row'.status = row.status, row'.pw = row.pw, row'.totp = row.totp,
         row'.password = row.password, row'.auth = row.auth
  PROVE  AccountOK'
  BY DEF AccountOK, ActiveCanSignIn, LocalConfigured, Recoverable

-----------------------------------------------------------------------------
(* Accounts begin.                                                         *)

\* bootstrapInitialSuperadmin, completeProvisionalInitialEnrollment, invite
LEMMA BeginningOK ==
  ASSUME IInv, \/ Bootstrap
               \/ \E a \in Authenticators, t \in Steps : CompleteProvisional(a, t)
               \/ \E role \in Roles : Invite(role)
  PROVE  IInv'
<1>1. /\ row.status = "absent" /\ restricted = None
      /\ \A s \in Browsers : browser[s] = None
      /\ \A a \in Authenticators, t \in Steps : accepted[a][t] = 0
      /\ UNCHANGED <<links, failures, restricted, browser, sec, req>>
  <2>1. /\ row.status = "absent"
        /\ UNCHANGED <<links, failures, restricted, browser, sec, req>>
    BY DEF Bootstrap, CompleteProvisional, Invite
  <2> QED
    BY <2>1 DEF IInv, SessionsOK, BrowserOK, RestrictedOK, CodesOK
<1>2. SessionsOK'
  BY <1>1 DEF SessionsOK
<1>3. ASSUME NEW role \in Roles, NEW s \in {"invited", "enrollment_required"},
             row' = [role |-> role, status |-> s, epoch |-> 1, pw |-> "temporary",
                     totp |-> "not_configured", password |-> 0, auth |-> None,
                     policy |-> 1, change |-> 1, temporary |-> 1],
             redeemed' = 0, founded' = TRUE, UNCHANGED <<steps, accepted>>
      PROVE  IInv'
  <2>1. row' \in Row /\ AccountOK'
    BY <1>3, Bounds, IdentityAssumption
    DEF Row, Absent, Epochs, Statuses, AccountOK, ActiveCanSignIn
  <2>2. CodesOK' /\ TypeOK'
    BY <1>1, <1>3, <2>1, IdentityAssumption DEF CodesOK, IInv, TypeOK
  <2> QED
    BY <1>2, <2>1, <2>2 DEF IInv
<1>4. CASE Bootstrap
  <2>1. row' = [role |-> "superadmin", status |-> "enrollment_required", epoch |-> 1,
                pw |-> "temporary", totp |-> "not_configured", password |-> 0,
                auth |-> None, policy |-> 1, change |-> 1, temporary |-> 1]
    BY <1>4 DEF Bootstrap, Absent
  <2>2. founded' = TRUE /\ redeemed' = 0 /\ UNCHANGED <<steps, accepted>>
    BY <1>4 DEF Bootstrap
  <2> QED
    BY <1>3, <2>1, <2>2, IdentityAssumption
<1>5. ASSUME NEW role \in Roles, Invite(role)
      PROVE  IInv'
  <2>1. row' = [role |-> role, status |-> "invited", epoch |-> 1,
                pw |-> "temporary", totp |-> "not_configured", password |-> 0,
                auth |-> None, policy |-> 1, change |-> 1, temporary |-> 1]
    BY <1>5 DEF Invite, Absent
  <2>2. founded' = TRUE /\ redeemed' = 0 /\ UNCHANGED <<steps, accepted>>
    BY <1>5 DEF Invite, IInv, TypeOK
  <2> QED
    BY <1>3, <2>1, <2>2
<1>6. ASSUME NEW a \in Authenticators, NEW t \in Steps, CompleteProvisional(a, t)
      PROVE  IInv'
  <2>1. /\ row' = [role |-> "superadmin", status |-> "active", epoch |-> 1,
                  pw |-> "configured", totp |-> "configured", password |-> 1,
                  auth |-> a, policy |-> sec.policy, change |-> sec.change,
                  temporary |-> 0]
        /\ AcceptStep(a, t) /\ founded' = TRUE /\ redeemed' = redeemed
    BY <1>6 DEF CompleteProvisional, Absent
  <2>2. row' \in Row /\ AccountOK'
    BY <2>1, Bounds, IdentityAssumption
    DEF Row, Absent, Epochs, Statuses, AccountOK, ActiveCanSignIn, LocalConfigured, IInv,
        TypeOK, Sec
  <2>3. TypeOK'
    BY <1>1, <2>1, <2>2, AcceptStepOK DEF IInv, TypeOK
  <2>4. CodesOK'
    <3>1. /\ row'.auth = a /\ row'.status = "active" /\ row'.temporary = 0
          /\ steps' = steps \cup {t}
      BY <2>1 DEF AcceptStep
    <3>2. \A b \in Authenticators, u \in Steps :
            accepted'[b][u] = IF b = a /\ u = t THEN 1 ELSE 0
      BY <1>1, <2>1 DEF AcceptStep, IInv, TypeOK
    <3> QED
      BY <1>1, <2>1, <3>1, <3>2 DEF IInv, CodesOK
  <2> QED
    BY <1>2, <2>2, <2>3, <2>4 DEF IInv
<1> QED
  BY <1>4, <1>5, <1>6

-----------------------------------------------------------------------------
(* Enrollment.                                                             *)

\* createRestrictedSession for a temporary password: it is redeemed once.
LEMMA CommitTemporaryLoginOK ==
  ASSUME IInv, NEW r \in Requests, NEW id \in Restricteds, CommitTemporaryLogin(r, id)
  PROVE  IInv'
<1> DEFINE q == req[r]
<1>1. /\ q \in Request /\ q.kind = "temporary" /\ Enrollable(row)
      /\ row' = [row EXCEPT !.temporary = 0, !.status = "enrollment_required"]
      /\ restricted' = RestrictedSession(id, "initial_enrollment", q.row, q.global, None)
      /\ redeemed' = redeemed + 1 /\ Finish(r)
      /\ UNCHANGED <<links, steps, failures, browser, sec, founded, accepted>>
  BY DEF CommitTemporaryLogin, IInv, TypeOK
<1>2. q.row \in Row /\ q.global \in 1..MaxGlobal
  BY <1>1, RequestFields
<1> HIDE DEF q
<1>3. row' \in Row /\ AccountOK'
  BY <1>1 DEF IInv, TypeOK, Row, Statuses, AccountOK, ActiveCanSignIn, Enrollable
<1>4. TypeOK'
  BY <1>1, <1>2, <1>3, SessionTypes, RequestsOK DEF IInv, TypeOK, Purposes
<1>5. SessionsOK'
  BY <1>1, <1>3 DEF IInv, TypeOK, SessionsOK, BrowserOK, RestrictedOK, Enrollable,
                    RestrictedSession, Row
<1>6. CodesOK'
  BY <1>1 DEF IInv, TypeOK, CodesOK, Enrollable, RestrictedSession, Row
<1> QED
  BY <1>3, <1>4, <1>5, <1>6 DEF IInv

\* createRestrictedSession for a password whose TOTP was reset
LEMMA CommitRecoveryLoginOK ==
  ASSUME IInv, NEW r \in Requests, NEW id \in Restricteds, CommitRecoveryLogin(r, id)
  PROVE  IInv'
<1> DEFINE q == req[r]
<1>1. /\ q \in Request /\ q.kind = "recovery" /\ Recoverable(row)
      /\ row.password = q.row.password
      /\ restricted' = RestrictedSession(id, "totp_enrollment", q.row, q.sec.epoch, None)
      /\ failures' = 0 /\ Finish(r)
      /\ UNCHANGED <<row, links, steps, browser, sec, founded, accepted, redeemed>>
  BY DEF CommitRecoveryLogin, IInv, TypeOK, history
<1>2. q.row \in Row /\ q.sec \in Sec /\ q.sec.epoch \in 1..MaxGlobal
  BY <1>1, RequestFields DEF Sec
<1> HIDE DEF q
<1>3. TypeOK'
  BY <1>1, <1>2, SessionTypes, RequestsOK, Bounds DEF IInv, TypeOK, Purposes
<1>4. AccountOK'
  BY <1>1, SameAccount DEF IInv
<1>5. SessionsOK'
  BY <1>1 DEF IInv, SessionsOK, BrowserOK, RestrictedOK, Recoverable, RestrictedSession,
              LocalProof
<1>6. CodesOK'
  BY <1>1 DEF IInv, CodesOK, RestrictedSession
<1> QED
  BY <1>3, <1>4, <1>5, <1>6 DEF IInv

\* savePendingTotp takes an authenticator nothing knows yet.
LEMMA CommitPendingOK ==
  ASSUME IInv, NEW r \in Requests, NEW a \in Authenticators, CommitPending(r, a)
  PROVE  IInv'
<1> DEFINE q == req[r]
           n == [auth |-> a, policy |-> q.policy]
<1>1. /\ q \in Request /\ q.kind = "begin" /\ restricted \in Restricted
      /\ row.auth /= a /\ accepted[a] = Unused[a]
      /\ restricted' = [restricted EXCEPT !.pending = n] /\ Finish(r)
      /\ UNCHANGED <<row, links, steps, failures, browser, sec, founded, accepted, redeemed>>
  BY DEF CommitPending, IInv, TypeOK, history, LiveRestricted, FreshAuthenticator
<1>2. n \in Pending /\ n.auth = a
  BY <1>1, RequestFields DEF Pending
<1> HIDE DEF q, n
<1>3. /\ restricted' \in Restricted /\ restricted'.pending = n
      /\ restricted'.purpose = restricted.purpose /\ restricted'.proof = restricted.proof
  BY <1>1, <1>2 DEF Restricted
<1>4. TypeOK'
  BY <1>1, <1>3, RequestsOK DEF IInv, TypeOK
<1>5. AccountOK'
  BY <1>1, SameAccount DEF IInv
<1>6. SessionsOK'
  BY <1>1, <1>3 DEF IInv, SessionsOK, BrowserOK, RestrictedOK, LocalProof, CommitPending,
                    LiveRestricted
<1>7. CodesOK'
  <2>1. \A t \in Steps : accepted[a][t] = 0
    BY <1>1 DEF Unused
  <2> QED
    BY <1>1, <1>2, <1>3, <2>1 DEF IInv, CodesOK
<1> QED
  BY <1>4, <1>5, <1>6, <1>7 DEF IInv

\* A confirmed authenticator becomes the account's with one code accepted of it.
LEMMA ConfirmedOK ==
  ASSUME IInv, NEW r \in Requests, NEW u, ConfirmAllowed(req[r], u),
         row' \in Row, AccountOK', row'.auth = req[r].pending.auth,
         row'.status = "active", row'.temporary \in {0, row.temporary},
         RevokeSessions, Finish(r),
         UNCHANGED <<links, failures, sec, founded, redeemed>>
  PROVE  IInv'
<1> DEFINE q == req[r]
           a == q.pending.auth
<1>1. /\ q \in Request /\ q.kind = "confirm" /\ restricted /= None
      /\ restricted.pending /= None /\ restricted.pending.auth = a
      /\ AcceptStep(a, q.step)
  BY DEF ConfirmAllowed, LiveRestricted, IInv, TypeOK
<1>2. a \in Authenticators /\ q.step \in Steps
  BY <1>1, RequestFields DEF Pending
<1> HIDE DEF q, a
<1>3. TypeOK'
  BY <1>1, <1>2, Revoked, RequestsOK, AcceptStepOK DEF IInv, TypeOK
<1>4. CodesOK'
  <2>1. /\ steps' = steps \cup {q.step}
        /\ \A b \in Authenticators, t \in Steps :
             accepted'[b][t] = IF b = a /\ t = q.step THEN accepted[b][t] + 1
                               ELSE accepted[b][t]
    BY <1>1, <1>2 DEF AcceptStep, IInv, TypeOK
  <2>2. \A t \in Steps : accepted[a][t] = 0
    BY <1>1 DEF IInv, CodesOK
  <2>3. row'.auth = a
    BY DEF q, a
  <2> QED
    BY <1>1, <1>2, <2>1, <2>2, <2>3 DEF IInv, CodesOK, RevokeSessions
<1> QED
  BY <1>3, <1>4, Revoked DEF IInv

\* completeInitialEnrollment, completeTotpEnrollment, completeTotpReplacement
LEMMA CompleteOK ==
  ASSUME IInv, NEW r \in Requests,
         \/ CompleteInitialEnrollment(r) \/ CompleteTotpEnrollment(r)
         \/ CompleteTotpReplacement(r)
  PROVE  IInv'
<1> DEFINE q == req[r]
<1>1. /\ q \in Request /\ q.kind = "confirm" /\ RevokeSessions /\ Finish(r)
      /\ UNCHANGED <<links, failures, sec, founded, redeemed>>
      /\ \E u \in Purposes : ConfirmAllowed(q, u)
  BY DEF CompleteInitialEnrollment, CompleteTotpEnrollment, CompleteTotpReplacement,
         ConfirmAllowed, IInv, TypeOK, Purposes
<1>2. q.pending \in Pending /\ q.pending.auth \in Authenticators /\ q.pending.auth /= None
  BY <1>1, RequestFields, IdentityAssumption DEF Pending
<1>3. q.pending.policy \in 1..MaxPolicy
  BY <1>2 DEF Pending
<1> HIDE DEF q
<1>4. CASE CompleteInitialEnrollment(r)
  <2> DEFINE w == [row EXCEPT !.status = "active", !.pw = "configured",
                              !.totp = "configured", !.password = row.epoch + 1,
                              !.auth = q.pending.auth, !.policy = q.pending.policy,
                              !.change = sec.change, !.temporary = 0]
  <2>1. MoveEpoch(w)
    BY <1>4 DEF CompleteInitialEnrollment, q
  <2>2. row.epoch + 1 \in Epochs
    BY <2>1, Bounds DEF MoveEpoch, IInv, TypeOK, Row, Epochs
  <2>3. w \in Row
    BY <1>2, <1>3, <2>2 DEF IInv, TypeOK, Row, Statuses, Sec
  <2>4. /\ w.status = "active" /\ w.pw = "configured" /\ w.totp = "configured"
        /\ w.password /= 0 /\ w.auth = q.pending.auth /\ w.temporary = 0
    BY <2>2 DEF IInv, TypeOK, Row, Epochs
  <2> HIDE DEF w
  <2>5. /\ row' \in Row /\ row'.status = w.status /\ row'.pw = w.pw /\ row'.totp = w.totp
        /\ row'.password = w.password /\ row'.auth = w.auth /\ row'.temporary = w.temporary
    BY <2>1, <2>3, MoveEpochOK DEF IInv, Row
  <2>6. AccountOK'
    BY <1>1, <1>2, <2>4, <2>5
    DEF AccountOK, ActiveCanSignIn, LocalConfigured, IInv, SessionsOK, RestrictedOK,
        ConfirmAllowed, LiveRestricted
  <2> QED
    BY <1>1, <2>4, <2>5, <2>6, ConfirmedOK DEF q
<1>5. CASE CompleteTotpEnrollment(r)
  <2> DEFINE w == [row EXCEPT !.totp = "configured", !.auth = q.pending.auth]
  <2>1. MoveEpoch(w) /\ Recoverable(row)
    BY <1>5 DEF CompleteTotpEnrollment, q
  <2>2. w \in Row
    BY <1>2 DEF IInv, TypeOK, Row
  <2>3. /\ w.status = row.status /\ w.pw = row.pw /\ w.totp = "configured"
        /\ w.password = row.password /\ w.auth = q.pending.auth
        /\ w.temporary = row.temporary
    BY DEF IInv, TypeOK, Row
  <2> HIDE DEF w
  <2>4. /\ row' \in Row /\ row'.status = w.status /\ row'.pw = w.pw /\ row'.totp = w.totp
        /\ row'.password = w.password /\ row'.auth = w.auth /\ row'.temporary = w.temporary
    BY <2>1, <2>2, MoveEpochOK DEF IInv, Row
  <2>5. AccountOK'
    BY <1>1, <1>2, <2>1, <2>3, <2>4
    DEF AccountOK, ActiveCanSignIn, LocalConfigured, Recoverable, IInv
  <2> QED
    BY <1>1, <2>1, <2>3, <2>4, <2>5, ConfirmedOK DEF q, Recoverable
<1>6. CASE CompleteTotpReplacement(r)
  <2> DEFINE w == [row EXCEPT !.auth = q.pending.auth]
  <2>1. MoveEpoch(w) /\ LocalConfigured(row)
    BY <1>6 DEF CompleteTotpReplacement, q
  <2>2. w \in Row
    BY <1>2 DEF IInv, TypeOK, Row
  <2>3. /\ w.status = row.status /\ w.pw = row.pw /\ w.totp = row.totp
        /\ w.password = row.password /\ w.auth = q.pending.auth
        /\ w.temporary = row.temporary
    BY DEF IInv, TypeOK, Row
  <2> HIDE DEF w
  <2>4. /\ row' \in Row /\ row'.status = w.status /\ row'.pw = w.pw /\ row'.totp = w.totp
        /\ row'.password = w.password /\ row'.auth = w.auth /\ row'.temporary = w.temporary
    BY <2>1, <2>2, MoveEpochOK DEF IInv, Row
  <2>5. AccountOK'
    BY <1>1, <1>2, <2>1, <2>3, <2>4
    DEF AccountOK, ActiveCanSignIn, LocalConfigured, Recoverable, IInv
  <2> QED
    BY <1>1, <2>1, <2>3, <2>4, <2>5, ConfirmedOK DEF q, LocalConfigured
<1> QED
  BY <1>4, <1>5, <1>6

-----------------------------------------------------------------------------
(* Signing in, step-up and self-service.                                   *)

\* A code of the account's authenticator is accepted once while its window lasts.
LEMMA OwnCodeOK ==
  ASSUME IInv, LocalConfigured(row), NEW t \in Steps, AcceptStep(row.auth, t),
         row'.auth = row.auth, row'.status = row.status, redeemed' = redeemed,
         row'.temporary = row.temporary,
         \/ restricted' = restricted \/ restricted' = None
         \/ restricted'.pending = None
         \/ /\ restricted'.pending.auth /= row.auth
            /\ restricted'.pending.auth \in Authenticators
            /\ accepted[restricted'.pending.auth] = Unused[restricted'.pending.auth]
  PROVE  CodesOK'
<1> DEFINE a == row.auth
<1>1. a \in Authenticators /\ row.status = "active"
  BY DEF IInv, TypeOK, Row, AccountOK, LocalConfigured
<1>2. /\ steps' = steps \cup {t} /\ t \notin steps
      /\ \A b \in Authenticators, u \in Steps :
           accepted'[b][u] = IF b = a /\ u = t THEN accepted[b][u] + 1 ELSE accepted[b][u]
  BY <1>1 DEF AcceptStep, IInv, TypeOK
<1>3. accepted[a][t] = 0
  BY <1>1, <1>2 DEF IInv, TypeOK, CodesOK
<1>4. \A b \in Authenticators, u \in Steps :
        /\ accepted'[b][u] <= 1
        /\ b = a /\ accepted'[b][u] /= 0 => u \in steps'
  BY <1>1, <1>2, <1>3 DEF IInv, CodesOK
<1>5. ASSUME restricted' /= None, restricted'.pending /= None
      PROVE  /\ restricted'.pending.auth /= a
             /\ \A u \in Steps : accepted'[restricted'.pending.auth][u] = 0
  <2>1. CASE restricted' = restricted
    <3>1. restricted.pending.auth \in Authenticators
      BY <1>5, <2>1 DEF IInv, TypeOK, Restricted, Pending
    <3> QED
      BY <1>2, <1>5, <2>1, <3>1 DEF IInv, CodesOK
  <2>2. CASE /\ restricted'.pending.auth /= row.auth
             /\ restricted'.pending.auth \in Authenticators
             /\ accepted[restricted'.pending.auth] = Unused[restricted'.pending.auth]
    BY <1>2, <2>2 DEF Unused
  <2> QED
    BY <1>5, <2>1, <2>2
<1> HIDE DEF a
<1> QED
  BY <1>1, <1>4, <1>5 DEF IInv, CodesOK, a

\* The candidate of a sign-in has the account's own proof.
LEMMA SameConfiguredOK ==
  ASSUME IInv, NEW q \in Request,
         q.kind \in {"login", "password", "replace"}, SameConfigured(q)
  PROVE  /\ LocalConfigured(row) /\ row.status = "active"
         /\ LocalProof(q.row) = LocalProof(row) /\ LocalProof(row) \in Local
         /\ q.row.auth = row.auth /\ q.row.password = row.password
         /\ q.row \in Row /\ q.sec \in Sec /\ q.step \in Steps
         /\ row.auth \in Authenticators
  BY LocalProofOK, RequestFields DEF SameConfigured, LocalConfigured, LocalProof, Local

\* A new browser session rests on the account's proof.
LEMMA NewSessionOK ==
  ASSUME IInv, NEW s \in Browsers, NEW w \in Row, NEW g \in 1..MaxGlobal, NEW p,
         row'.status = "active", LocalProof(row)' = LocalProof(row), links' = links,
         row.status = "active", p \in links \/ (p = LocalProof(row) /\ p \in Local),
         browser' = [browser EXCEPT ![s] = BrowserSession(w, g, p)],
         row'.password = row.password, restricted' = restricted
  PROVE  SessionsOK' /\ browser' \in [Browsers -> Browser \cup {None}]
<1>1. BrowserSession(w, g, p) \in Browser
  BY SessionTypes DEF IInv, TypeOK
<1>2. \A b \in Browsers : browser'[b] = IF b = s THEN BrowserSession(w, g, p) ELSE browser[b]
  BY DEF IInv, TypeOK
<1>3. ASSUME NEW b \in Browsers, browser'[b] /= None
      PROVE  BrowserOK(browser[b])'
  <2>1. CASE b = s
    <3>1. browser'[b] = BrowserSession(w, g, p)
      BY <1>2, <2>1
    <3> QED
      BY <3>1 DEF BrowserOK, BrowserSession
  <2>2. CASE b /= s
    <3>1. browser'[b] = browser[b] /\ BrowserOK(browser[b])
      BY <1>2, <1>3, <2>2 DEF IInv, SessionsOK
    <3> QED
      BY <3>1 DEF BrowserOK
  <2> QED
    BY <2>1, <2>2
<1>4. browser' \in [Browsers -> Browser \cup {None}]
  BY <1>1 DEF IInv, TypeOK
<1>5. restricted' /= None => RestrictedOK(restricted)'
  BY DEF IInv, SessionsOK, RestrictedOK
<1> QED
  BY <1>3, <1>4, <1>5 DEF SessionsOK

\* commitLogin, with advancePasswordPolicy
LEMMA CommitLoginOK ==
  ASSUME IInv, NEW r \in Requests, NEW s \in Browsers, CommitLogin(r, s)
  PROVE  IInv'
<1> DEFINE q == req[r]
<1>1. /\ q \in Request /\ q.kind = "login" /\ SameConfigured(q)
      /\ AcceptStep(q.row.auth, q.step)
      /\ row' = IF q.verdict = "advance"
                THEN [row EXCEPT !.policy = sec.policy, !.change = sec.change]
                ELSE row
      /\ browser' = [browser EXCEPT ![s] = BrowserSession(q.row, q.sec.epoch, LocalProof(q.row))]
      /\ failures' = 0 /\ Finish(r)
      /\ UNCHANGED <<links, restricted, sec, founded, redeemed>>
  BY DEF CommitLogin, IInv, TypeOK
<1> HIDE DEF q
<1>2. /\ LocalConfigured(row) /\ row.status = "active"
      /\ LocalProof(q.row) = LocalProof(row) /\ LocalProof(row) \in Local
      /\ q.row.auth = row.auth /\ row.auth \in Authenticators
      /\ q.row \in Row /\ q.sec \in Sec /\ q.step \in Steps
  BY <1>1, SameConfiguredOK
<1>3. /\ row' \in Row /\ row'.status = row.status /\ row'.pw = row.pw
      /\ row'.totp = row.totp /\ row'.password = row.password /\ row'.auth = row.auth
      /\ row'.temporary = row.temporary
  BY <1>1 DEF IInv, TypeOK, Row, Sec
<1>4. AccountOK'
  BY <1>1, <1>3, SameAccount DEF IInv
<1>5. SessionsOK' /\ browser' \in [Browsers -> Browser \cup {None}]
  <2>1. q.sec.epoch \in 1..MaxGlobal
    BY <1>2 DEF Sec
  <2>2. LocalProof(row)' = LocalProof(row)
    BY <1>3 DEF LocalProof
  <2> QED
    BY <1>1, <1>2, <1>3, <2>1, <2>2, NewSessionOK
<1>6. TypeOK'
  BY <1>1, <1>2, <1>3, <1>5, AcceptStepOK, RequestsOK, Bounds DEF IInv, TypeOK
<1>7. CodesOK'
  BY <1>1, <1>2, <1>3, OwnCodeOK
<1> QED
  BY <1>4, <1>5, <1>6, <1>7 DEF IInv

\* commitPolicyRestrictedLogin and beginTotpReplacement give restricted sessions for
\* the account's own password.
LEMMA RestrictedByProof ==
  ASSUME IInv, NEW r \in Requests, NEW id \in Restricteds, NEW u \in Purposes,
         NEW n \in Pending \cup {None},
         req[r].kind \in {"login", "password", "replace"},
         SameConfigured(req[r]), AcceptStep(req[r].row.auth, req[r].step),
         restricted' = RestrictedSession(id, u, req[r].row, req[r].sec.epoch, n),
         \/ n = None
         \/ /\ n.auth /= row.auth /\ n.auth \in Authenticators
            /\ accepted[n.auth] = Unused[n.auth],
         failures' \in {0, failures}, u /= "initial_enrollment", Finish(r),
         UNCHANGED <<row, links, browser, sec, founded, redeemed>>
  PROVE  IInv'
<1> DEFINE q == req[r]
<1>1. q \in Request
  BY DEF IInv, TypeOK
<1>2. /\ LocalConfigured(row) /\ row.status = "active"
      /\ q.row.auth = row.auth /\ q.row.password = row.password
      /\ q.row \in Row /\ q.sec \in Sec /\ q.step \in Steps /\ row.auth \in Authenticators
  BY <1>1, SameConfiguredOK
<1>3. q.sec.epoch \in 1..MaxGlobal
  BY <1>2 DEF Sec
<1>4. /\ restricted' \in Restricted /\ restricted'.pending = n
      /\ restricted'.purpose = u /\ restricted'.proof = row.password
  BY <1>2, <1>3, SessionTypes DEF RestrictedSession
<1>5. AcceptStep(row.auth, q.step)
  BY <1>2
<1> HIDE DEF q
<1>6. TypeOK'
  BY <1>2, <1>4, <1>5, AcceptStepOK, RequestsOK, Bounds DEF IInv, TypeOK
<1>7. AccountOK'
  BY SameAccount DEF IInv
<1>8. SessionsOK'
  BY <1>2, <1>4 DEF IInv, SessionsOK, BrowserOK, RestrictedOK, LocalProof
<1>9. CodesOK'
  BY <1>2, <1>4, <1>5, OwnCodeOK
<1> QED
  BY <1>6, <1>7, <1>8, <1>9 DEF IInv

\* The two of them.
LEMMA RestrictedLoginsOK ==
  ASSUME IInv, NEW r \in Requests, NEW id \in Restricteds,
         \/ CommitPolicyRestrictedLogin(r, id)
         \/ \E a \in Authenticators : BeginTotpReplacement(r, id, a)
  PROVE  IInv'
<1>1. CASE CommitPolicyRestrictedLogin(r, id)
  <2>1. /\ req[r].kind = "login" /\ SameConfigured(req[r]) /\ Finish(r)
        /\ AcceptStep(req[r].row.auth, req[r].step) /\ failures' = 0
        /\ restricted' = RestrictedSession(id, "password_change", req[r].row,
                                           req[r].sec.epoch, None)
        /\ UNCHANGED <<row, links, browser, sec, founded, redeemed>>
    BY <1>1 DEF CommitPolicyRestrictedLogin
  <2>2. /\ None \in Pending \cup {None} /\ "password_change" \in Purposes
        /\ "password_change" /= "initial_enrollment" /\ failures' \in {0, failures}
        /\ req[r].kind \in {"login", "password", "replace"}
    BY <2>1 DEF Purposes
  <2> QED
    BY <2>1, <2>2, RestrictedByProof
<1>2. ASSUME NEW a \in Authenticators, BeginTotpReplacement(r, id, a)
      PROVE  IInv'
  <2> DEFINE n == [auth |-> a, policy |-> row.policy]
  <2>1. /\ n \in Pending /\ n.auth = a
        /\ accepted[a] = Unused[a] /\ a /= row.auth
    BY <1>2 DEF BeginTotpReplacement, FreshAuthenticator, Pending, IInv, TypeOK, Row
  <2>2. restricted' = RestrictedSession(id, "totp_replacement", req[r].row, req[r].sec.epoch, n)
    BY <1>2 DEF BeginTotpReplacement
  <2> HIDE DEF n
  <2>3. /\ req[r].kind = "replace" /\ SameConfigured(req[r]) /\ Finish(r)
        /\ AcceptStep(req[r].row.auth, req[r].step)
        /\ UNCHANGED <<row, links, failures, browser, sec, founded, redeemed>>
    BY <1>2 DEF BeginTotpReplacement
  <2> QED
    BY <2>1, <2>2, <2>3, RestrictedByProof DEF Purposes
<1> QED
  BY <1>1, <1>2

\* completeSelfPasswordChange
LEMMA CompleteSelfPasswordChangeOK ==
  ASSUME IInv, NEW r \in Requests, CompleteSelfPasswordChange(r)
  PROVE  IInv'
<1> DEFINE q == req[r]
           w == [row EXCEPT !.password = row.epoch + 1, !.policy = sec.policy,
                            !.change = sec.change]
<1>1. /\ q \in Request /\ q.kind = "password" /\ SameConfigured(q)
      /\ AcceptStep(q.row.auth, q.step) /\ MoveEpoch(w) /\ RevokeSessions /\ Finish(r)
      /\ UNCHANGED <<links, failures, sec, founded, redeemed>>
  BY DEF CompleteSelfPasswordChange, IInv, TypeOK
<1>2. /\ LocalConfigured(row) /\ row.status = "active"
      /\ q.row.auth = row.auth /\ row.auth \in Authenticators /\ q.step \in Steps
  BY <1>1, SameConfiguredOK
<1>3. row.epoch + 1 \in Epochs
  BY <1>1, Bounds DEF MoveEpoch, IInv, TypeOK, Row, Epochs
<1>4. w \in Row
  BY <1>3 DEF IInv, TypeOK, Row, Sec
<1>5. /\ w.status = row.status /\ w.pw = row.pw /\ w.totp = row.totp
      /\ w.password /= 0 /\ w.auth = row.auth /\ w.temporary = row.temporary
  BY <1>3 DEF IInv, TypeOK, Row, Epochs
<1> HIDE DEF q, w
<1>6. /\ row' \in Row /\ row'.status = w.status /\ row'.pw = w.pw /\ row'.totp = w.totp
      /\ row'.password = w.password /\ row'.auth = w.auth /\ row'.temporary = w.temporary
  BY <1>1, <1>4, MoveEpochOK DEF IInv, Row
<1>7. AccountOK'
  BY <1>1, <1>2, <1>5, <1>6 DEF AccountOK, ActiveCanSignIn, LocalConfigured, IInv
<1>8. TypeOK'
  BY <1>1, <1>2, <1>6, Revoked, AcceptStepOK, RequestsOK DEF IInv, TypeOK
<1>9. CodesOK'
  BY <1>1, <1>2, <1>5, <1>6, OwnCodeOK DEF RevokeSessions
<1> QED
  BY <1>1, <1>7, <1>8, <1>9, Revoked DEF IInv

\* A step that leaves everything but one browser session and the codes.
LEMMA BrowserStepOK ==
  ASSUME IInv, NEW s \in Browsers, NEW b \in Browser \cup {None},
         browser' = [browser EXCEPT ![s] = b], b /= None => BrowserOK(b),
         UNCHANGED <<row, links, failures, restricted, sec, founded, redeemed>>,
         req' \in [Requests -> Request], CodesOK', steps' \subseteq Steps,
         accepted' \in [Authenticators -> [Steps -> Nat]]
  PROVE  IInv'
<1>1. /\ browser'[s] = b /\ \A x \in Browsers \ {s} : browser'[x] = browser[x]
  BY DEF IInv, TypeOK
<1>2. TypeOK'
  BY DEF IInv, TypeOK
<1>3. AccountOK'
  BY SameAccount DEF IInv
<1>4. ASSUME NEW x \in Browsers, browser'[x] /= None
      PROVE  BrowserOK(browser[x])'
  BY <1>1, <1>4 DEF IInv, SessionsOK, BrowserOK, LocalProof
<1>5. restricted' /= None => RestrictedOK(restricted)'
  BY DEF IInv, SessionsOK, RestrictedOK
<1> QED
  BY <1>2, <1>3, <1>4, <1>5 DEF IInv, SessionsOK

\* Codes are as they were where neither they nor the account's authenticator moved.
LEMMA SameCodes ==
  ASSUME CodesOK, UNCHANGED <<row, steps, restricted, accepted, redeemed>>
  PROVE  CodesOK'
  BY DEF CodesOK

\* elevateFiveMinutes, issueAlwaysProof: the session's elevation is the account's
\* proof, and a new step-up proof is unused.
LEMMA CommitStepUpOK ==
  ASSUME IInv, NEW r \in Requests, CommitStepUp(r)
  PROVE  IInv'
<1> DEFINE q == req[r]
           s == q.browser
<1>1. /\ q \in Request /\ q.kind = "stepup" /\ browser[s] /= None
      /\ LocalConfigured(row) /\ LocalProof(row) = LocalProof(q.row)
      /\ AcceptStep(q.row.auth, q.step) /\ Finish(r)
      /\ UNCHANGED <<row, links, failures, restricted, sec, founded, redeemed>>
      /\ \/ browser' = [browser EXCEPT ![s].elevated = LocalProof(q.row)]
         \/ browser' = [browser EXCEPT ![s].stepUp = "open", ![s].uses = 0]
  BY DEF CommitStepUp, SessionOfCandidate, LiveBrowser, IInv, TypeOK
<1>2. s \in Browsers /\ q.step \in Steps
  BY <1>1, RequestFields
<1>3. /\ LocalProof(row) \in Local /\ q.row.auth = row.auth /\ row.auth \in Authenticators
  BY <1>1, LocalProofOK DEF LocalProof, Local
<1> HIDE DEF q, s
<1>4. browser[s] \in Browser /\ BrowserOK(browser[s])
  BY <1>1, <1>2 DEF IInv, TypeOK, SessionsOK
<1>5. AcceptStep(row.auth, q.step)
  BY <1>1, <1>3
<1>6. CodesOK'
  BY <1>1, <1>2, <1>5, OwnCodeOK
<1>7. req' \in [Requests -> Request] /\ steps' \subseteq Steps
      /\ accepted' \in [Authenticators -> [Steps -> Nat]]
  BY <1>1, <1>2, <1>3, <1>5, RequestsOK, AcceptStepOK DEF IInv, TypeOK
<1>8. ASSUME NEW b \in Browser, BrowserOK(b), browser' = [browser EXCEPT ![s] = b]
      PROVE  IInv'
  BY <1>1, <1>2, <1>6, <1>7, <1>8, BrowserStepOK
<1>9. CASE browser' = [browser EXCEPT ![s].elevated = LocalProof(q.row)]
  <2> DEFINE b == [browser[s] EXCEPT !.elevated = LocalProof(q.row)]
  <2>1. b \in Browser /\ BrowserOK(b)
    BY <1>1, <1>3, <1>4 DEF Browser, BrowserOK
  <2>2. browser' = [browser EXCEPT ![s] = b]
    BY <1>2, <1>9 DEF IInv, TypeOK
  <2> HIDE DEF b
  <2> QED
    BY <1>8, <2>1, <2>2
<1>10. CASE browser' = [browser EXCEPT ![s].stepUp = "open", ![s].uses = 0]
  <2> DEFINE b == [browser[s] EXCEPT !.stepUp = "open", !.uses = 0]
  <2>1. b \in Browser
    BY <1>4 DEF Browser
  <2>2. browser' = [browser EXCEPT ![s] = b]
    BY <1>2, <1>10 DEF IInv, TypeOK
  <2>3. b.proof = browser[s].proof /\ b.elevated = browser[s].elevated /\ b.uses = 0
    BY <1>4 DEF Browser
  <2>4. BrowserOK(b)
    BY <1>4, <2>3 DEF BrowserOK
  <2> HIDE DEF b
  <2> QED
    BY <1>8, <2>1, <2>2, <2>4
<1> QED
  BY <1>1, <1>9, <1>10

\* withConsumedProofGenerated spends a proof that is open, so unused.
LEMMA CommitOperationOK ==
  ASSUME IInv, NEW r \in Requests, CommitOperation(r)
  PROVE  IInv'
<1> DEFINE s == req[r].browser
           n == browser[s].uses + 1
           b == [browser[s] EXCEPT !.stepUp = "consumed", !.uses = n]
<1>1. /\ req[r] \in Request /\ req[r].kind = "operation" /\ browser[s] /= None
      /\ browser[s].stepUp = "open" /\ Finish(r)
      /\ browser' = [browser EXCEPT ![s].stepUp = "consumed", ![s].uses = @ + 1]
      /\ UNCHANGED <<row, links, steps, failures, restricted, sec, founded, accepted,
                     redeemed>>
  BY DEF CommitOperation, ProofOpen, IInv, TypeOK, history
<1>2. s \in Browsers
  BY <1>1, RequestFields
<1> HIDE DEF s
<1>3. browser[s] \in Browser /\ BrowserOK(browser[s])
  BY <1>1, <1>2 DEF IInv, TypeOK, SessionsOK
<1>4. b \in Browser /\ BrowserOK(b)
  <2>1. browser[s].uses \in Nat /\ browser[s].uses = 0
    BY <1>1, <1>3 DEF Browser, BrowserOK
  <2>2. n = 1
    BY <2>1
  <2> HIDE DEF n
  <2>3. b \in Browser
    BY <1>3, <2>2 DEF Browser
  <2>4. /\ b.proof = browser[s].proof /\ b.elevated = browser[s].elevated /\ b.uses = 1
        /\ b.stepUp = "consumed"
    BY <1>3, <2>2 DEF Browser
  <2> QED
    BY <1>3, <2>3, <2>4 DEF BrowserOK
<1>5. browser' = [browser EXCEPT ![s] = b]
  BY <1>1, <1>2 DEF IInv, TypeOK
<1>6. /\ req' \in [Requests -> Request] /\ steps' \subseteq Steps
      /\ accepted' \in [Authenticators -> [Steps -> Nat]] /\ CodesOK'
  BY <1>1, RequestsOK, SameCodes DEF IInv, TypeOK
<1> HIDE DEF b
<1> QED
  BY <1>1, <1>2, <1>4, <1>5, <1>6, BrowserStepOK

\* OidcLoginRepository.commit signs in with an identity the account has.
LEMMA CommitOidcLoginOK ==
  ASSUME IInv, NEW r \in Requests, NEW s \in Browsers, CommitOidcLogin(r, s)
  PROVE  IInv'
<1> DEFINE q == req[r]
<1>1. /\ q \in Request /\ q.kind = "oidc" /\ q.subject \in links
      /\ row.status = "active" /\ Finish(r)
      /\ browser' = [browser EXCEPT ![s] = BrowserSession(q.row, q.global, q.subject)]
      /\ UNCHANGED <<row, links, steps, failures, restricted, sec, founded, accepted,
                     redeemed>>
  BY DEF CommitOidcLogin, IInv, TypeOK, history
<1>2. q.row \in Row /\ q.global \in 1..MaxGlobal /\ q.subject \in Subjects
  BY <1>1, RequestFields
<1> HIDE DEF q
<1>3. SessionsOK' /\ browser' \in [Browsers -> Browser \cup {None}]
  BY <1>1, <1>2, NewSessionOK DEF LocalProof
<1>4. AccountOK' /\ CodesOK'
  BY <1>1, SameAccount, SameCodes DEF IInv
<1>5. TypeOK'
  BY <1>1, <1>3, RequestsOK DEF IInv, TypeOK
<1> QED
  BY <1>3, <1>4, <1>5 DEF IInv

\* recordQualifyingTotpFailure counts, or suspends the account.
LEMMA RecordFailureOK ==
  ASSUME IInv, NEW r \in Requests, RecordFailure(r)
  PROVE  IInv'
<1>1. PICK recent \in 0..failures :
        IF recent + 1 >= Threshold
        THEN /\ MoveEpoch([row EXCEPT !.status = "suspended"])
             /\ RevokeSessions /\ failures' = 0
        ELSE failures' = recent + 1 /\ UNCHANGED <<row, restricted, browser>>
  BY DEF RecordFailure
<1>2. /\ req' \in [Requests -> Request] /\ row.status = "active"
      /\ UNCHANGED <<links, steps, sec, founded, accepted, redeemed>>
  BY RequestsOK DEF RecordFailure, IInv, TypeOK, history
<1>3. CASE recent + 1 >= Threshold
  <2> DEFINE w == [row EXCEPT !.status = "suspended"]
  <2>1. /\ w \in Row /\ w.status = "suspended" /\ w.pw = row.pw /\ w.totp = row.totp
        /\ w.password = row.password /\ w.auth = row.auth /\ w.temporary = row.temporary
    BY DEF IInv, TypeOK, Row, Statuses
  <2>2. MoveEpoch(w) /\ RevokeSessions /\ failures' = 0
    BY <1>1, <1>3
  <2> HIDE DEF w
  <2>3. /\ row' \in Row /\ row'.status = w.status /\ row'.pw = w.pw /\ row'.totp = w.totp
        /\ row'.password = w.password /\ row'.auth = w.auth /\ row'.temporary = w.temporary
    BY <2>1, <2>2, MoveEpochOK DEF IInv, Row
  <2>4. AccountOK'
    BY <1>2, <2>1, <2>3 DEF IInv, AccountOK, ActiveCanSignIn
  <2>5. links' \subseteq Subjects /\ steps' \subseteq Steps /\ sec' \in Sec
    BY <1>2 DEF IInv, TypeOK
  <2> QED
    BY <1>2, <2>1, <2>2, <2>3, <2>4, <2>5, Bounds, RevokingOK
<1>4. CASE ~(recent + 1 >= Threshold)
  <2>1. failures' \in 0..(Threshold - 1) /\ UNCHANGED <<row, restricted, browser>>
    BY <1>1, <1>4, Bounds DEF IInv, TypeOK
  <2>2. TypeOK' /\ AccountOK' /\ CodesOK'
    BY <1>2, <2>1, SameAccount, SameCodes DEF IInv, TypeOK
  <2>3. SessionsOK'
    BY <1>2, <2>1 DEF IInv, SessionsOK, BrowserOK, RestrictedOK, LocalProof
  <2> QED
    BY <2>2, <2>3 DEF IInv
<1> QED
  BY <1>3, <1>4

-----------------------------------------------------------------------------
(* What links, administrators, the CLI and the jobs do to the account.     *)

\* The row whose epoch moves is otherwise the one the transaction wrote.
LEMMA MovedRow ==
  ASSUME IInv, NEW w \in Row, MoveEpoch(w)
  PROVE  /\ row' \in Row /\ row'.role = w.role /\ row'.status = w.status
         /\ row'.pw = w.pw /\ row'.totp = w.totp /\ row'.password = w.password
         /\ row'.auth = w.auth /\ row'.temporary = w.temporary
  BY MoveEpochOK DEF IInv, Row

\* completeRestricted signs the enrolling user in with the identity just linked.
LEMMA CompleteRestrictedLinkOK ==
  ASSUME IInv, NEW x \in Subjects, NEW s \in Browsers, CompleteRestrictedLink(x, s)
  PROVE  IInv'
<1> DEFINE w == [row EXCEPT !.status = "active", !.pw = "disabled",
                            !.totp = "disabled", !.password = 0, !.auth = None,
                            !.temporary = 0]
<1>1. /\ links' = links \cup {x} /\ MoveEpoch(w) /\ restricted' = None
      /\ browser' = [b \in Browsers |-> IF b = s THEN BrowserSession(row', sec.epoch, x)
                                                 ELSE None]
      /\ row.status \in {"invited", "enrollment_required"}
      /\ UNCHANGED <<steps, failures, sec, founded, req, accepted, redeemed>>
  BY DEF CompleteRestrictedLink, history
<1>2. /\ w \in Row /\ w.status = "active" /\ w.pw = "disabled" /\ w.totp = "disabled"
      /\ w.password = 0 /\ w.auth = None /\ w.temporary = 0
  BY DEF IInv, TypeOK, Row, Statuses
<1> HIDE DEF w
<1>3. /\ row' \in Row /\ row'.status = "active" /\ row'.pw = "disabled"
      /\ row'.totp = "disabled" /\ row'.auth = None /\ row'.temporary = 0
  BY <1>1, <1>2, MovedRow
<1>4. AccountOK'
  BY <1>1, <1>3 DEF IInv, AccountOK, ActiveCanSignIn
<1>5. BrowserSession(row', sec.epoch, x) \in Browser
  BY <1>3, SessionTypes DEF IInv, TypeOK, Sec
<1>6. TypeOK'
  BY <1>1, <1>3, <1>5 DEF IInv, TypeOK
<1>7. SessionsOK'
  <2>1. ASSUME NEW b \in Browsers, browser'[b] /= None
        PROVE  BrowserOK(browser[b])'
    <3>1. browser'[b] = BrowserSession(row', sec.epoch, x)
      BY <1>1, <2>1
    <3> QED
      BY <1>1, <1>3, <3>1 DEF BrowserOK, BrowserSession
  <2> QED
    BY <1>1, <2>1 DEF SessionsOK
<1>8. CodesOK'
  BY <1>1, <1>3, IdentityAssumption DEF IInv, CodesOK
<1> QED
  BY <1>4, <1>6, <1>7, <1>8 DEF IInv

\* completeAdmin and unlink: hasAlternativeMethod keeps the account able to sign in.
LEMMA LinkOK ==
  ASSUME IInv, NEW x \in Subjects, CompleteAdminLink(x) \/ Unlink(x)
  PROVE  IInv'
<1>1. /\ MoveEpoch(row) /\ RevokeSessions /\ Exists
      /\ UNCHANGED <<steps, failures, sec, founded, req, accepted, redeemed>>
      /\ \/ links' = links \cup {x}
         \/ /\ links' = links \ {x} /\ x \in links
            /\ row.status = "active" =>
                 (row.pw = "configured" /\ row.totp = "configured") \/ links /= {x}
  BY DEF CompleteAdminLink, Unlink, history
<1>2. /\ row' \in Row /\ row'.status = row.status /\ row'.pw = row.pw
      /\ row'.totp = row.totp /\ row'.password = row.password /\ row'.auth = row.auth
      /\ row'.temporary = row.temporary
  BY <1>1, MovedRow DEF IInv, TypeOK
<1>3. ActiveCanSignIn'
  <2>1. CASE links' = links \cup {x}
    BY <1>2, <2>1 DEF ActiveCanSignIn
  <2>2. CASE /\ links' = links \ {x} /\ x \in links
             /\ row.status = "active" =>
                  (row.pw = "configured" /\ row.totp = "configured") \/ links /= {x}
    <3>1. CASE row.pw = "configured" /\ row.totp = "configured"
      BY <1>2, <3>1 DEF IInv, AccountOK, ActiveCanSignIn, LocalConfigured
    <3>2. CASE row.status = "active" => links /= {x}
      BY <1>2, <2>2, <3>2 DEF ActiveCanSignIn
    <3> QED
      BY <2>2, <3>1, <3>2
  <2> QED
    BY <1>1, <2>1, <2>2
<1>4. AccountOK'
  BY <1>1, <1>2, <1>3 DEF IInv, AccountOK
<1>5. /\ links' \subseteq Subjects /\ steps' \subseteq Steps /\ sec' \in Sec
      /\ failures' \in 0..(Threshold - 1) /\ req' \in [Requests -> Request]
      /\ row'.status = "absent" => row.status = "absent"
  BY <1>1, <1>2 DEF IInv, TypeOK
<1> QED
  BY <1>1, <1>2, <1>4, <1>5, RevokingOK

\* resetToEnrollment and breakGlassReset take the credentials away.
LEMMA ResetOK ==
  ASSUME IInv, ResetToEnrollment \/ BreakGlassReset
  PROVE  IInv'
<1> DEFINE w == [row EXCEPT !.status = "enrollment_required", !.pw = "temporary",
                            !.totp = "not_configured", !.password = 0,
                            !.auth = None, !.temporary = row.epoch + 1]
<1>1. /\ MoveEpoch(w) /\ RevokeSessions /\ steps' = {} /\ failures' = 0 /\ redeemed' = 0
      /\ row.status /= "absent"
      /\ UNCHANGED <<links, sec, founded, req, accepted>>
  BY DEF ResetToEnrollment, BreakGlassReset, ResetRow, Exists
<1>2. row.epoch + 1 \in Epochs
  BY <1>1, Bounds DEF MoveEpoch, IInv, TypeOK, Row, Epochs
<1>3. /\ w \in Row /\ w.status = "enrollment_required" /\ w.pw = "temporary"
      /\ w.totp = "not_configured" /\ w.auth = None
  BY <1>2 DEF IInv, TypeOK, Row, Statuses
<1> HIDE DEF w
<1>4. /\ row' \in Row /\ row'.status = "enrollment_required" /\ row'.pw = "temporary"
      /\ row'.totp = "not_configured" /\ row'.auth = None
  BY <1>1, <1>3, MovedRow
<1>5. AccountOK'
  BY <1>1, <1>4 DEF IInv, AccountOK, ActiveCanSignIn
<1>6. /\ links' \subseteq Subjects /\ steps' \subseteq Steps /\ sec' \in Sec
      /\ failures' \in 0..(Threshold - 1) /\ req' \in [Requests -> Request]
  BY <1>1, Bounds DEF IInv, TypeOK
<1> QED
  BY <1>1, <1>4, <1>5, <1>6, RevokingOK

\* resetTotp leaves a password that can enroll a new authenticator, suspension and
\* deactivation end sign-in, and a role or address changes nothing one signs in with.
LEMMA AdministeredOK ==
  ASSUME IInv, \/ ResetTotp \/ Suspend \/ Deactivate \/ ChangeEmail
               \/ \E role \in Roles : ChangeRole(role)
  PROVE  IInv'
<1>1. /\ RevokeSessions /\ row.status /= "absent"
      /\ UNCHANGED <<links, steps, failures, sec, founded, req, accepted, redeemed>>
  BY DEF ResetTotp, Suspend, Deactivate, ChangeEmail, ChangeRole, Exists, history
<1>2. ASSUME NEW w \in Row, MoveEpoch(w), w.status /= "absent",
             w.temporary \in {0, row.temporary}, w.auth \in {None, row.auth},
             w.pw = "configured" => w.password /= 0,
             w.totp = "configured" => w.auth /= None,
             w.status = "active" =>
               \/ w.pw = "configured" /\ w.totp \in {"configured", "not_configured"}
               \/ links /= {}
      PROVE  IInv'
  <2>1. /\ row' \in Row /\ row'.status = w.status /\ row'.pw = w.pw
        /\ row'.totp = w.totp /\ row'.password = w.password /\ row'.auth = w.auth
        /\ row'.temporary = w.temporary
    BY <1>2, MovedRow
  <2>2. AccountOK'
    BY <1>1, <1>2, <2>1
    DEF IInv, AccountOK, ActiveCanSignIn, LocalConfigured, Recoverable
  <2>3. /\ links' \subseteq Subjects /\ steps' \subseteq Steps /\ sec' \in Sec
        /\ failures' \in 0..(Threshold - 1) /\ req' \in [Requests -> Request]
    BY <1>1 DEF IInv, TypeOK
  <2> QED
    BY <1>1, <1>2, <2>1, <2>2, <2>3, RevokingOK
<1>3. /\ row \in Row /\ (row.pw = "configured" => row.password /= 0)
      /\ row.totp = "configured" => row.auth /= None
      /\ row.status = "active" =>
           \/ row.pw = "configured" /\ row.totp \in {"configured", "not_configured"}
           \/ links /= {}
  BY DEF IInv, TypeOK, AccountOK, ActiveCanSignIn, LocalConfigured, Recoverable
<1>4. CASE ResetTotp
  <2> DEFINE w == [row EXCEPT !.totp = "not_configured", !.auth = None]
  <2>1. MoveEpoch(w)
    BY <1>4 DEF ResetTotp
  <2>2. /\ w \in Row /\ w.status = row.status /\ w.pw = row.pw
        /\ w.password = row.password /\ w.totp = "not_configured" /\ w.auth = None
        /\ w.temporary = row.temporary
    BY <1>3 DEF Row
  <2> HIDE DEF w
  <2> QED
    BY <1>1, <1>2, <1>3, <2>1, <2>2
<1>5. CASE Suspend
  <2> DEFINE w == [row EXCEPT !.status = "suspended"]
  <2>1. MoveEpoch(w)
    BY <1>5 DEF Suspend
  <2>2. /\ w \in Row /\ w.status = "suspended" /\ w.pw = row.pw
        /\ w.password = row.password /\ w.totp = row.totp /\ w.auth = row.auth
        /\ w.temporary = row.temporary
    BY <1>3 DEF Row, Statuses
  <2> HIDE DEF w
  <2> QED
    BY <1>2, <1>3, <2>1, <2>2
<1>6. CASE Deactivate
  <2> DEFINE w == [row EXCEPT !.status = "deactivated", !.pw = "disabled",
                              !.totp = "disabled", !.password = 0, !.auth = None,
                              !.temporary = 0]
  <2>1. MoveEpoch(w)
    BY <1>6 DEF Deactivate
  <2>2. /\ w \in Row /\ w.status = "deactivated" /\ w.pw = "disabled"
        /\ w.totp = "disabled" /\ w.auth = None /\ w.temporary = 0
    BY <1>3 DEF Row, Statuses
  <2> HIDE DEF w
  <2> QED
    BY <1>2, <2>1, <2>2
<1>7. CASE ChangeEmail
  BY <1>1, <1>2, <1>3, <1>7 DEF ChangeEmail
<1>8. ASSUME NEW role \in Roles, ChangeRole(role)
      PROVE  IInv'
  <2> DEFINE w == [row EXCEPT !.role = role]
  <2>1. MoveEpoch(w)
    BY <1>8 DEF ChangeRole
  <2>2. /\ w \in Row /\ w.status = row.status /\ w.pw = row.pw
        /\ w.password = row.password /\ w.totp = row.totp /\ w.auth = row.auth
        /\ w.temporary = row.temporary
    BY <1>3 DEF Row
  <2> HIDE DEF w
  <2> QED
    BY <1>1, <1>2, <1>3, <2>1, <2>2
<1> QED
  BY <1>4, <1>5, <1>6, <1>7, <1>8

\* Deletion and the global security events revoke too; raising the policy touches
\* no session.
LEMMA EventsOK ==
  ASSUME IInv, DeleteUser \/ GlobalPasswordChange \/ GlobalTotpReset \/ RaisePasswordPolicy
  PROVE  IInv'
<1>1. row \in Row /\ sec \in Sec
  BY DEF IInv, TypeOK
<1>2. CASE DeleteUser
  <2>1. /\ row' = [Absent EXCEPT !.status = "deleted"] /\ RevokeSessions
        /\ links' = {} /\ steps' = {} /\ failures' = 0 /\ row.status = "deactivated"
        /\ UNCHANGED <<sec, founded, req, accepted, redeemed>>
    BY <1>2 DEF DeleteUser, history
  <2>2. /\ row' \in Row /\ row'.status = "deleted" /\ row'.pw = "disabled"
        /\ row'.totp = "disabled" /\ row'.auth = None /\ row'.temporary = 0
    BY <2>1, Bounds, IdentityAssumption DEF Absent, Row, Statuses
  <2>3. AccountOK'
    BY <2>1, <2>2 DEF IInv, AccountOK, ActiveCanSignIn
  <2>4. /\ links' \subseteq Subjects /\ steps' \subseteq Steps /\ sec' \in Sec
        /\ failures' \in 0..(Threshold - 1) /\ req' \in [Requests -> Request]
    BY <2>1, Bounds DEF IInv, TypeOK
  <2> QED
    BY <2>1, <2>2, <2>3, <2>4, RevokingOK
<1>3. CASE GlobalPasswordChange
  <2>1. /\ RevokeSessions
        /\ sec' = [sec EXCEPT !.epoch = @ + 1, !.change = @ + 1] /\ sec.epoch < MaxGlobal
        /\ UNCHANGED <<row, links, steps, failures, founded, req, accepted, redeemed>>
    BY <1>3 DEF GlobalPasswordChange, history
  <2>2. sec' \in Sec
    <3> DEFINE e == sec.epoch + 1
               c == sec.change + 1
    <3>1. e \in 1..MaxGlobal /\ c \in Nat
      BY <1>1, <2>1, Bounds DEF Sec
    <3>2. sec' = [sec EXCEPT !.epoch = e, !.change = c]
      BY <2>1
    <3> HIDE DEF e, c
    <3> QED
      BY <1>1, <3>1, <3>2 DEF Sec
  <2>3. AccountOK'
    BY <2>1, SameAccount DEF IInv
  <2>4. /\ links' \subseteq Subjects /\ steps' \subseteq Steps /\ row' \in Row
        /\ failures' \in 0..(Threshold - 1) /\ req' \in [Requests -> Request]
    BY <2>1 DEF IInv, TypeOK
  <2> QED
    BY <2>1, <2>2, <2>3, <2>4, RevokingOK
<1>4. CASE GlobalTotpReset
  <2> DEFINE w == [row EXCEPT !.auth = None,
                              !.totp = IF @ = "disabled" \/ row.pw = "disabled"
                                       THEN "disabled" ELSE "not_configured"]
  <2>1. /\ RevokeSessions /\ founded /\ row' = w /\ steps' = {}
        /\ sec' = [sec EXCEPT !.epoch = @ + 1] /\ sec.epoch < MaxGlobal
        /\ UNCHANGED <<links, failures, founded, req, accepted, redeemed>>
    BY <1>4 DEF GlobalTotpReset, history
  <2>2. sec' \in Sec
    BY <1>1, <2>1, Bounds DEF Sec
  <2>3. /\ w \in Row /\ w.status = row.status /\ w.pw = row.pw
        /\ w.password = row.password /\ w.auth = None /\ w.temporary = row.temporary
        /\ w.totp = IF row.totp = "disabled" \/ row.pw = "disabled"
                    THEN "disabled" ELSE "not_configured"
    BY <1>1 DEF Row
  <2> HIDE DEF w
  <2>4. AccountOK'
    BY <2>1, <2>3 DEF IInv, AccountOK, ActiveCanSignIn, LocalConfigured, Recoverable
  <2>5. /\ links' \subseteq Subjects /\ steps' \subseteq Steps
        /\ failures' \in 0..(Threshold - 1) /\ req' \in [Requests -> Request]
    BY <2>1 DEF IInv, TypeOK
  <2> QED
    BY <2>1, <2>2, <2>3, <2>4, <2>5, RevokingOK
<1>5. CASE RaisePasswordPolicy
  <2>1. /\ sec' = [sec EXCEPT !.policy = @ + 1] /\ sec.policy < MaxPolicy
        /\ UNCHANGED <<row, links, steps, failures, restricted, browser, founded, req,
                       accepted, redeemed>>
    BY <1>5 DEF RaisePasswordPolicy, history
  <2>2. sec' \in Sec
    BY <1>1, <2>1, Bounds DEF Sec
  <2>3. TypeOK' /\ AccountOK' /\ CodesOK'
    BY <2>1, <2>2, SameAccount, SameCodes DEF IInv, TypeOK
  <2>4. SessionsOK'
    BY <2>1 DEF IInv, SessionsOK, BrowserOK, RestrictedOK, LocalProof
  <2> QED
    BY <2>3, <2>4 DEF IInv
<1> QED
  BY <1>2, <1>3, <1>4, <1>5

-----------------------------------------------------------------------------
(* Requests that begin or end, and time.                                   *)

\* Every read before a commit leaves a request of its kind and nothing else.
LEMMA ReadsOK ==
  ASSUME IInv, NEW r \in Requests,
         \/ StartTemporaryLogin(r) \/ StartRecoveryLogin(r) \/ StartPending(r)
         \/ \E t \in Steps : StartConfirm(r, t) \/ StartLogin(r, t)
         \/ StartWrongCode(r) \/ Abandon(r)
         \/ \E x \in Subjects : StartOidcLogin(r, x)
         \/ \E s \in Browsers : StartOperation(r, s)
         \/ \E s \in Browsers, t \in Steps :
              \/ StartStepUp(r, s, t)
              \/ \E kind \in {"password", "replace"} : StartReproof(r, s, t, kind)
  PROVE  IInv'
<1>1. /\ row \in Row /\ sec \in Sec /\ sec.epoch \in 1..MaxGlobal
      /\ sec.policy \in 1..MaxPolicy /\ req \in [Requests -> Request]
      /\ restricted \in Restricted \cup {None}
  BY DEF IInv, TypeOK, Sec
<1>2. ASSUME NEW q \in Request, Begin(r, q), UNCHANGED <<state, history>>
      PROVE  IInv'
  BY <1>1, <1>2, RequestsOK, QuietOK
<1>3. CASE StartTemporaryLogin(r)
  <2>1. [kind |-> "temporary", row |-> row, global |-> sec.epoch] \in Request
    BY <1>1 DEF Request
  <2> QED
    BY <1>2, <1>3, <2>1 DEF StartTemporaryLogin
<1>4. CASE StartRecoveryLogin(r)
  <2>1. [kind |-> "recovery", row |-> row, sec |-> sec] \in Request
    BY <1>1 DEF Request
  <2> QED
    BY <1>2, <1>4, <2>1 DEF StartRecoveryLogin
<1>5. CASE StartPending(r)
  <2> DEFINE p == IF restricted.pending = None THEN sec.policy
                  ELSE restricted.pending.policy
  <2>1. restricted \in Restricted /\ restricted.id \in Restricteds /\ p \in 1..MaxPolicy
    BY <1>1, <1>5 DEF StartPending, RestrictedAccepted, Restricted, Pending
  <2>2. /\ Begin(r, [kind |-> "begin", restricted |-> restricted.id, policy |-> p])
        /\ UNCHANGED <<state, history>>
    BY <1>5 DEF StartPending
  <2> HIDE DEF p
  <2>3. [kind |-> "begin", restricted |-> restricted.id, policy |-> p] \in Request
    BY <2>1 DEF Request
  <2> QED
    BY <1>2, <2>2, <2>3
<1>6. ASSUME NEW t \in Steps, StartConfirm(r, t)
      PROVE  IInv'
  <2>1. /\ restricted \in Restricted /\ restricted.id \in Restricteds
        /\ restricted.pending \in Pending
    BY <1>1, <1>6 DEF StartConfirm, RestrictedAccepted, Restricted
  <2>2. [kind |-> "confirm", restricted |-> restricted.id, step |-> t,
         pending |-> restricted.pending, row |-> row, global |-> sec.epoch] \in Request
    BY <1>1, <2>1 DEF Request
  <2> QED
    BY <1>2, <1>6, <2>2 DEF StartConfirm
<1>7. ASSUME NEW t \in Steps, StartLogin(r, t)
      PROVE  IInv'
  <2>1. PICK v \in PolicyStatus(row, sec) :
          Begin(r, [kind |-> "login", verdict |-> v, step |-> t, row |-> row, sec |-> sec])
    BY <1>7 DEF StartLogin
  <2>2. v \in {"current", "advance", "change_required"}
    BY DEF PolicyStatus
  <2>3. [kind |-> "login", verdict |-> v, step |-> t, row |-> row, sec |-> sec] \in Request
    BY <1>1, <2>2 DEF Request
  <2> QED
    BY <1>2, <1>7, <2>1, <2>3 DEF StartLogin
<1>8. CASE StartWrongCode(r)
  <2>1. [kind |-> "wrong"] \in Request
    BY DEF Request
  <2> QED
    BY <1>2, <1>8, <2>1 DEF StartWrongCode
<1>9. CASE Abandon(r)
  BY <1>1, <1>9, RequestsOK, QuietOK DEF Abandon
<1>10. ASSUME NEW x \in Subjects, StartOidcLogin(r, x)
       PROVE  IInv'
  <2>1. [kind |-> "oidc", subject |-> x, row |-> row, global |-> sec.epoch] \in Request
    BY <1>1 DEF Request
  <2> QED
    BY <1>2, <1>10, <2>1 DEF StartOidcLogin
<1>11. ASSUME NEW s \in Browsers, StartOperation(r, s)
       PROVE  IInv'
  <2>1. [kind |-> "operation", browser |-> s] \in Request
    BY DEF Request
  <2> QED
    BY <1>2, <1>11, <2>1 DEF StartOperation
<1>12. ASSUME NEW s \in Browsers, NEW t \in Steps, StartStepUp(r, s, t)
       PROVE  IInv'
  <2>1. [kind |-> "stepup", browser |-> s, step |-> t, row |-> row,
         global |-> sec.epoch] \in Request
    BY <1>1 DEF Request
  <2> QED
    BY <1>2, <1>12, <2>1 DEF StartStepUp
<1>13. ASSUME NEW s \in Browsers, NEW t \in Steps, NEW kind \in {"password", "replace"},
              StartReproof(r, s, t, kind)
       PROVE  IInv'
  <2>1. [kind |-> kind, browser |-> s, step |-> t, row |-> row, sec |-> sec] \in Request
    BY <1>1 DEF Request
  <2> QED
    BY <1>2, <1>13, <2>1 DEF StartReproof
<1> QED
  BY <1>3, <1>4, <1>5, <1>6, <1>7, <1>8, <1>9, <1>10, <1>11, <1>12, <1>13

\* Time takes temporary passwords, sessions and elevations away, and moves the window
\* of codes on.
LEMMA TimeOK ==
  ASSUME IInv, \/ ExpireTemporary \/ ExpireRestricted \/ NextWindow
               \/ \E s \in Browsers : EndBrowser(s) \/ LapseStepUp(s)
  PROVE  IInv'
<1>1. req' = req
  BY DEF ExpireTemporary, ExpireRestricted, NextWindow, EndBrowser, LapseStepUp
<1>2. CASE ExpireTemporary
  <2>1. /\ row' = [row EXCEPT !.temporary = 0]
        /\ UNCHANGED <<links, steps, failures, restricted, browser, sec, founded, req,
                       accepted, redeemed>>
    BY <1>2 DEF ExpireTemporary, history
  <2>2. /\ row' \in Row /\ row'.status = row.status /\ row'.pw = row.pw
        /\ row'.totp = row.totp /\ row'.password = row.password /\ row'.auth = row.auth
        /\ row'.temporary = 0
    BY <2>1 DEF IInv, TypeOK, Row
  <2>3. TypeOK' /\ AccountOK'
    BY <2>1, <2>2, SameAccount DEF IInv, TypeOK
  <2>4. SessionsOK' /\ CodesOK'
    BY <2>1, <2>2 DEF IInv, SessionsOK, BrowserOK, RestrictedOK, LocalProof, CodesOK
  <2> QED
    BY <2>3, <2>4 DEF IInv
<1>3. CASE ExpireRestricted
  <2>1. /\ restricted' = None
        /\ UNCHANGED <<row, links, steps, failures, browser, sec, founded, req, accepted,
                       redeemed>>
    BY <1>3 DEF ExpireRestricted, history
  <2>2. TypeOK' /\ AccountOK'
    BY <2>1, SameAccount DEF IInv, TypeOK
  <2>3. SessionsOK' /\ CodesOK'
    BY <2>1 DEF IInv, SessionsOK, BrowserOK, LocalProof, CodesOK
  <2> QED
    BY <2>2, <2>3 DEF IInv
<1>4. CASE NextWindow
  <2>1. /\ steps' = {} /\ accepted' = Unused
        /\ UNCHANGED <<row, links, failures, restricted, browser, sec, founded, req,
                       redeemed>>
    BY <1>4 DEF NextWindow
  <2>2. /\ Unused \in [Authenticators -> [Steps -> Nat]]
        /\ \A a \in Authenticators, t \in Steps : Unused[a][t] = 0
    BY DEF Unused
  <2>3. TypeOK' /\ AccountOK'
    BY <2>1, <2>2, SameAccount DEF IInv, TypeOK
  <2>4. SessionsOK'
    BY <2>1 DEF IInv, SessionsOK, BrowserOK, RestrictedOK, LocalProof
  <2>5. CodesOK'
    <3>1. restricted /= None /\ restricted.pending /= None =>
            restricted.pending.auth \in Authenticators
      BY DEF IInv, TypeOK, Restricted, Pending
    <3> QED
      BY <2>1, <2>2, <3>1 DEF IInv, CodesOK
  <2> QED
    BY <2>3, <2>4, <2>5 DEF IInv
<1>5. ASSUME NEW s \in Browsers, EndBrowser(s) \/ LapseStepUp(s)
      PROVE  IInv'
  <2>1. /\ browser[s] /= None /\ browser[s] \in Browser /\ BrowserOK(browser[s])
        /\ UNCHANGED <<row, links, steps, failures, restricted, sec, founded, req,
                       accepted, redeemed>>
    BY <1>5 DEF EndBrowser, LapseStepUp, history, IInv, TypeOK, SessionsOK
  <2>2. /\ req' \in [Requests -> Request] /\ CodesOK' /\ steps' \subseteq Steps
        /\ accepted' \in [Authenticators -> [Steps -> Nat]]
    BY <2>1, SameCodes DEF IInv, TypeOK
  <2>3. ASSUME NEW b \in Browser \cup {None}, b /= None => BrowserOK(b),
               browser' = [browser EXCEPT ![s] = b]
        PROVE  IInv'
    BY <2>1, <2>2, <2>3, BrowserStepOK
  <2>4. CASE browser' = [browser EXCEPT ![s] = None]
    BY <2>3, <2>4
  <2>5. CASE browser' = [browser EXCEPT ![s].elevated = None]
    <3> DEFINE b == [browser[s] EXCEPT !.elevated = None]
    <3>1. b \in Browser /\ b.proof = browser[s].proof /\ b.elevated = None
          /\ b.stepUp = browser[s].stepUp /\ b.uses = browser[s].uses
      BY <2>1 DEF Browser
    <3>2. browser' = [browser EXCEPT ![s] = b]
      BY <2>5 DEF IInv, TypeOK
    <3> HIDE DEF b
    <3>3. BrowserOK(b)
      BY <2>1, <3>1 DEF BrowserOK
    <3> QED
      BY <2>3, <3>1, <3>2, <3>3
  <2>6. CASE browser' = [browser EXCEPT ![s].stepUp = "none"]
    <3> DEFINE b == [browser[s] EXCEPT !.stepUp = "none"]
    <3>1. b \in Browser /\ b.proof = browser[s].proof /\ b.elevated = browser[s].elevated
          /\ b.stepUp = "none" /\ b.uses = browser[s].uses
      BY <2>1 DEF Browser
    <3>2. browser' = [browser EXCEPT ![s] = b]
      BY <2>6 DEF IInv, TypeOK
    <3> HIDE DEF b
    <3>3. BrowserOK(b)
      BY <2>1, <3>1 DEF BrowserOK
    <3> QED
      BY <2>3, <3>1, <3>2, <3>3
  <2> QED
    BY <1>5, <2>4, <2>5, <2>6 DEF EndBrowser, LapseStepUp
<1> QED
  BY <1>2, <1>3, <1>4, <1>5

-----------------------------------------------------------------------------
(* The invariant.                                                          *)

\* An account that does not exist yet satisfies the invariant.
LEMMA InitOK == Init => IInv
<1> SUFFICES ASSUME Init PROVE IInv
  OBVIOUS
<1>1. /\ row = Absent /\ links = {} /\ steps = {} /\ failures = 0 /\ restricted = None
      /\ browser = [s \in Browsers |-> None] /\ sec = [epoch |-> 1, policy |-> 1, change |-> 1]
      /\ founded \in BOOLEAN /\ req = [r \in Requests |-> Idle] /\ accepted = Unused
      /\ redeemed = 0
  BY DEF Init
<1>2. /\ row \in Row /\ row.status = "absent" /\ row.pw = "disabled"
      /\ row.totp = "disabled"
  BY <1>1, Bounds, IdentityAssumption DEF Absent, Row, Statuses
<1>3. /\ accepted \in [Authenticators -> [Steps -> Nat]]
      /\ \A a \in Authenticators, t \in Steps : accepted[a][t] = 0
  BY <1>1 DEF Unused
<1>4. sec \in Sec /\ req \in [Requests -> Request]
  BY <1>1, Bounds DEF Sec, Idle, Request
<1>5. TypeOK
  BY <1>1, <1>2, <1>3, <1>4, Bounds DEF TypeOK
<1> QED
  BY <1>1, <1>2, <1>3, <1>5 DEF IInv, AccountOK, ActiveCanSignIn, SessionsOK, CodesOK

\* Every step keeps it.
LEMMA NextOK == IInv /\ [Next]_vars => IInv'
<1> SUFFICES ASSUME IInv, [Next]_vars PROVE IInv'
  OBVIOUS
<1>1. CASE Enrollment
  BY <1>1, BeginningOK, ReadsOK, CommitTemporaryLoginOK, CommitRecoveryLoginOK,
     CommitPendingOK, CompleteOK DEF Enrollment
<1>2. CASE SignIn
  BY <1>2, ReadsOK, RecordFailureOK, CommitLoginOK, CommitOidcLoginOK, RestrictedLoginsOK
  DEF SignIn
<1>3. CASE SelfService
  BY <1>3, ReadsOK, CompleteSelfPasswordChangeOK, CommitStepUpOK, CommitOperationOK,
     RestrictedLoginsOK DEF SelfService
<1>4. CASE Administration
  BY <1>4, LinkOK, CompleteRestrictedLinkOK, ResetOK, AdministeredOK, EventsOK
  DEF Administration
<1>5. CASE Time
  BY <1>5, TimeOK, ReadsOK DEF Time
<1>6. CASE UNCHANGED vars
  BY <1>6, QuietOK DEF vars, IInv, TypeOK
<1> QED
  BY <1>1, <1>2, <1>3, <1>4, <1>5, <1>6 DEF Next

-----------------------------------------------------------------------------
(* What follows.                                                           *)

\* What one signs in with, the role or the status changes.
SecurityChanges ==
  <<row.role, row.status, LocalProof(row), links>>'
    /= <<row.role, row.status, LocalProof(row), links>>

\* The sessions there are end.
SessionsEnd ==
  /\ \A s \in Browsers : browser[s] /= None => browser'[s] = None
  /\ restricted /= None => restricted' = None

\* Steps that change something of the account and do not revoke.
LEMMA UnrevokedOK ==
  ASSUME IInv, SecurityChanges,
         \/ Bootstrap
         \/ \E a \in Authenticators, t \in Steps : CompleteProvisional(a, t)
         \/ \E role \in Roles : Invite(role)
         \/ \E r \in Requests, id \in Restricteds : CommitTemporaryLogin(r, id)
         \/ \E x \in Subjects, s \in Browsers : CompleteRestrictedLink(x, s)
  PROVE  SessionsEnd
<1>1. ASSUME row.status \in {"absent", "invited"} PROVE SessionsEnd
  BY <1>1 DEF IInv, SessionsOK, BrowserOK, RestrictedOK, SessionsEnd
<1>2. CASE row.status = "absent"
  BY <1>1, <1>2
<1>3. ASSUME NEW r \in Requests, NEW id \in Restricteds, CommitTemporaryLogin(r, id)
      PROVE  SessionsEnd
  <2>1. /\ row' = [row EXCEPT !.temporary = 0, !.status = "enrollment_required"]
        /\ links' = links /\ row.status \in {"invited", "enrollment_required"}
    BY <1>3 DEF CommitTemporaryLogin, Enrollable
  <2>2. /\ row'.role = row.role /\ row'.status = "enrollment_required"
        /\ row'.password = row.password /\ row'.auth = row.auth
    BY <2>1 DEF IInv, TypeOK, Row
  <2>3. row.status /= "enrollment_required"
    BY <2>1, <2>2 DEF SecurityChanges, LocalProof
  <2> QED
    BY <1>1, <2>1, <2>3
<1>4. ASSUME NEW x \in Subjects, NEW s \in Browsers, CompleteRestrictedLink(x, s)
      PROVE  SessionsEnd
  BY <1>4 DEF CompleteRestrictedLink, FreshBrowser, SessionsEnd
<1> QED
  BY <1>2, <1>3, <1>4 DEF Bootstrap, CompleteProvisional, Invite

\* Every other step revokes, or changes nothing of it.
LEMMA RevokedOrSame ==
  ASSUME IInv, SecurityChanges,
         RevokeSessions \/ UNCHANGED <<row, links>>
           \/ (UNCHANGED links /\ row'.role = row.role /\ row'.status = row.status
                 /\ row'.password = row.password /\ row'.auth = row.auth)
  PROVE  SessionsEnd
  BY DEF RevokeSessions, SecurityChanges, SessionsEnd, LocalProof

\* A step that changes what the account signs in with, its role or its status ends
\* the sessions there are.
LEMMA ChangeEnds ==
  ASSUME IInv, Next, SecurityChanges
  PROVE  SessionsEnd
<1>1. CASE Enrollment
  <2>1. ASSUME NEW r \in Requests,
               \/ StartTemporaryLogin(r) \/ StartRecoveryLogin(r) \/ StartPending(r)
               \/ \E t \in Steps : StartConfirm(r, t)
               \/ \E id \in Restricteds : CommitRecoveryLogin(r, id)
               \/ \E a \in Authenticators : CommitPending(r, a)
        PROVE  UNCHANGED <<row, links>>
    BY <2>1 DEF StartTemporaryLogin, StartRecoveryLogin, StartPending, StartConfirm,
                CommitRecoveryLogin, CommitPending, state
  <2>2. ASSUME NEW r \in Requests,
               \/ CompleteInitialEnrollment(r) \/ CompleteTotpEnrollment(r)
               \/ CompleteTotpReplacement(r)
        PROVE  RevokeSessions
    BY <2>2 DEF CompleteInitialEnrollment, CompleteTotpEnrollment, CompleteTotpReplacement
  <2> QED
    BY <1>1, <2>1, <2>2, UnrevokedOK, RevokedOrSame DEF Enrollment
<1>2. CASE SignIn
  <2>1. ASSUME NEW r \in Requests,
               \/ StartWrongCode(r) \/ \E t \in Steps : StartLogin(r, t)
               \/ \E s \in Browsers : CommitOidcLogin(r, s)
               \/ \E id \in Restricteds : CommitPolicyRestrictedLogin(r, id)
               \/ \E x \in Subjects : StartOidcLogin(r, x)
        PROVE  UNCHANGED <<row, links>>
    BY <2>1 DEF StartWrongCode, StartLogin, CommitOidcLogin, CommitPolicyRestrictedLogin,
                StartOidcLogin, state
  <2>2. ASSUME NEW r \in Requests, NEW s \in Browsers, CommitLogin(r, s)
        PROVE  /\ UNCHANGED links /\ row'.role = row.role /\ row'.status = row.status
               /\ row'.password = row.password /\ row'.auth = row.auth
    BY <2>2 DEF CommitLogin, IInv, TypeOK, Row
  <2>3. ASSUME NEW r \in Requests, RecordFailure(r)
        PROVE  RevokeSessions \/ UNCHANGED <<row, links>>
    BY <2>3 DEF RecordFailure
  <2> QED
    BY <1>2, <2>1, <2>2, <2>3, RevokedOrSame DEF SignIn
<1>3. CASE SelfService
  <2>1. ASSUME NEW r \in Requests,
               \/ \E s \in Browsers, t \in Steps :
                    \/ \E kind \in {"password", "replace"} : StartReproof(r, s, t, kind)
                    \/ StartStepUp(r, s, t)
               \/ CommitStepUp(r) \/ CommitOperation(r)
               \/ \E id \in Restricteds, a \in Authenticators : BeginTotpReplacement(r, id, a)
               \/ \E s \in Browsers : StartOperation(r, s)
        PROVE  UNCHANGED <<row, links>>
    BY <2>1 DEF StartReproof, StartStepUp, CommitStepUp, CommitOperation,
                BeginTotpReplacement, StartOperation, state
  <2>2. ASSUME NEW r \in Requests, CompleteSelfPasswordChange(r)
        PROVE  RevokeSessions
    BY <2>2 DEF CompleteSelfPasswordChange
  <2> QED
    BY <1>3, <2>1, <2>2, RevokedOrSame DEF SelfService
<1>4. CASE Administration
  <2>1. ASSUME \/ \E x \in Subjects : CompleteAdminLink(x) \/ Unlink(x)
               \/ ResetToEnrollment \/ BreakGlassReset \/ ResetTotp \/ Suspend
               \/ Deactivate \/ ChangeEmail \/ DeleteUser
               \/ \E role \in Roles : ChangeRole(role)
               \/ GlobalPasswordChange \/ GlobalTotpReset
        PROVE  RevokeSessions
    BY <2>1 DEF CompleteAdminLink, Unlink, ResetToEnrollment, BreakGlassReset, ResetRow,
                ResetTotp, Suspend, Deactivate, ChangeEmail, DeleteUser, ChangeRole,
                GlobalPasswordChange, GlobalTotpReset
  <2>2. ASSUME RaisePasswordPolicy PROVE UNCHANGED <<row, links>>
    BY <2>2 DEF RaisePasswordPolicy
  <2> QED
    BY <1>4, <2>1, <2>2, UnrevokedOK, RevokedOrSame DEF Administration
<1>5. CASE Time
  <2>1. ASSUME ExpireTemporary
        PROVE  /\ UNCHANGED links /\ row'.role = row.role /\ row'.status = row.status
               /\ row'.password = row.password /\ row'.auth = row.auth
    BY <2>1 DEF ExpireTemporary, IInv, TypeOK, Row
  <2>2. ASSUME \/ ExpireRestricted \/ NextWindow
               \/ \E s \in Browsers : EndBrowser(s) \/ LapseStepUp(s)
               \/ \E r \in Requests : Abandon(r)
        PROVE  UNCHANGED <<row, links>>
    BY <2>2 DEF ExpireRestricted, NextWindow, EndBrowser, LapseStepUp, Abandon, state
  <2> QED
    BY <1>5, <2>1, <2>2, RevokedOrSame DEF Time
<1> QED
  BY <1>1, <1>2, <1>3, <1>4, <1>5 DEF Next

\* IInv is an inductive invariant of the account.
THEOREM AccountInductive == Spec => []IInv
  BY InitOK, NextOK, PTL DEF Spec

\* Every session rests on what the account can prove now, and an active account has
\* something it can prove (sessionIsValid, fiveMinuteValid, restrictedSession,
\* hasAlternativeMethod), whatever sign-ins are under way.
THEOREM SessionsCurrent == Spec => []ProofsCurrent
<1>1. IInv => ProofsCurrent
  <2> SUFFICES ASSUME IInv PROVE ProofsCurrent
    OBVIOUS
  <2>1. TypeOK /\ ActiveCanSignIn
    BY DEF IInv, AccountOK
  <2>2. SessionsRestOnCurrentProof
    BY DEF IInv, SessionsOK, BrowserOK, RestrictedOK, SessionsRestOnCurrentProof,
           SessionIsValid, Elevated, RestrictedAccepted
  <2> QED
    BY <2>1, <2>2 DEF ProofsCurrent
<1> QED
  BY <1>1, AccountInductive, PTL

\* A code, a temporary password and a step-up proof serve once, however many requests
\* verified them first (acceptTotpStep, createRestrictedSession,
\* withConsumedProofGenerated).
THEOREM ServedOnce == Spec => []UsedOnce
<1>1. IInv => UsedOnce
  BY DEF IInv, SessionsOK, BrowserOK, CodesOK, UsedOnce, CodeAcceptedOnce,
         TemporaryRedeemedOnce, ProofSpentOnce
<1> QED
  BY <1>1, AccountInductive, PTL

\* A transaction that changes what an account signs in with, its role or its status
\* leaves no session of before (revokeSessions, revokeUserSessions).
THEOREM ChangeEndsSessions == Spec => SecurityChangeEndsSessions
<1>1. IInv /\ [Next]_vars => [SecurityChanges => SessionsEnd]_vars
  BY ChangeEnds
<1> QED
  BY <1>1, AccountInductive, PTL
  DEF Spec, SecurityChangeEndsSessions, SecurityChanges, SessionsEnd
=============================================================================
