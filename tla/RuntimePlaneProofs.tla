-------------------------- MODULE RuntimePlaneProofs --------------------------
(***************************************************************************)
(* Proofs about the two components of the runtime run, for all sets of     *)
(* credentials, references, requests, users, groups, policies and rules,   *)
(* all batch sizes and all bounds.                                         *)
(*                                                                         *)
(* The inductive invariant IInv of RuntimeReferences has two parts besides *)
(* the types.  QueueOK is about the queue: the batch in flight is the head *)
(* of the outstanding events, and DispatchedIsServed.  CopiesOK is about   *)
(* values: a credential row that anybody has seen, the snapshot, a         *)
(* request's view or a reference's binding, names by its generation how    *)
(* many values had been submitted, so that a reference that validates      *)
(* against a view cannot resolve to a value submitted after it.            *)
(*                                                                         *)
(* AccessInv of AccessControl says that a boundary has one active policy   *)
(* and that, with no event to dispatch, the snapshot and the rows are      *)
(* alike: their selectors and rules differ in users who are deleted only,  *)
(* and a boundary that was not served denies.  The evaluator decides alike *)
(* on what is alike.                                                       *)
(*                                                                         *)
(* The last section carries the results over to MCRuntimePlane.            *)
(***************************************************************************)
EXTENDS MCRuntimePlane, SequenceTheorems, NaturalsInduction, WellFoundedInduction, TLAPS

\* The batch being worked on is the head of the queue; no batch is left of a poll
\* that is over or has not read.
BatchOK ==
  /\ Len(poll.batch) <= Len(events)
  /\ \A i \in 1..Len(poll.batch) : poll.batch[i] = events[i]
  /\ poll.step \in {"idle", "read"} => poll.batch = <<>>

QueueOK == BatchOK /\ DispatchedIsServed

\* Everyone who has a copy of credential c's generation and count of submissions;
\* a credential never seen has generation and count 0.
Known(c, g, n) ==
  \/ g = 0 /\ n = 0
  \/ g = cred[c].auth /\ n = cred[c].submitted
  \/ g = snapshot.cred[c].auth /\ n = snapshot.cred[c].submitted
  \/ \E r \in Requests : \/ /\ g = task[r].view.cred[c].auth
                            /\ n = task[r].view.cred[c].submitted
                         \/ /\ task[r].binding.cred = c
                            /\ g = task[r].binding.credAuth
                            /\ n = task[r].binding.submitted
  \/ \E f \in References : /\ broker[f].cred = c
                           /\ g = broker[f].credAuth /\ n = broker[f].submitted

\* A generation names one count, and the row has the latest generation.
GenerationsOK ==
  \A c \in Credentials :
    /\ \A g, n, m \in Nat : Known(c, g, n) /\ Known(c, g, m) => n = m
    /\ \A g, n \in Nat : Known(c, g, n) => g <= cred[c].auth

\* A row's value is one of those submitted, in every copy.
ValuesOK ==
  \A c \in Credentials :
    /\ cred[c].value <= cred[c].submitted
    /\ snapshot.cred[c].value <= snapshot.cred[c].submitted
    /\ \A r \in Requests :
         task[r].view.cred[c].value <= task[r].view.cred[c].submitted

\* A request issues for a credential, uses a reference and validates the binding of
\* one; one that resolves has validated it.
RequestsOK ==
  \A r \in Requests :
    /\ pc[r] \in {"issue_view", "issue_state"} => task[r].cred \in Credentials
    /\ pc[r] = "use_view" => task[r].ref \in References
    /\ pc[r] \in {"check_view", "check_state", "resolve"} =>
         task[r].binding.cred \in Credentials
    /\ pc[r] = "resolve" =>
         task[r].view.cred[task[r].binding.cred].value <= task[r].binding.submitted

CopiesOK == GenerationsOK /\ ValuesOK /\ RequestsOK /\ NoValueFromTheFuture

IInv == TypeOK /\ QueueOK /\ CopiesOK

-----------------------------------------------------------------------------
(* Types.                                                                  *)

\* What nobody has seen yet is well typed.
LEMMA Blank ==
  /\ NewCredential \in CredentialRow /\ NoSnapshot \in Snapshot
  /\ NoBinding \in Binding /\ NoTask \in Task
  /\ NewCredential.auth = 0 /\ NewCredential.submitted = 0 /\ NewCredential.value = 0
  /\ NoSnapshot.cred = [c \in Credentials |-> NewCredential]
  /\ NoTask.view = NoSnapshot /\ NoTask.binding = NoBinding
  /\ NoBinding.cred = NoCredential
<1>1. /\ NewCredential \in CredentialRow
      /\ NewCredential.auth = 0 /\ NewCredential.submitted = 0 /\ NewCredential.value = 0
  BY DEF NewCredential, CredentialRow, Statuses
<1>2. NoSnapshot \in Snapshot /\ NoSnapshot.cred = [c \in Credentials |-> NewCredential]
  BY <1>1 DEF NoSnapshot, Snapshot
<1>3. NoBinding \in Binding /\ NoBinding.cred = NoCredential
  BY DEF NoBinding, Binding
<1>4. NoTask \in Task /\ NoTask.view = NoSnapshot /\ NoTask.binding = NoBinding
  BY <1>2, <1>3 DEF NoTask, Task
<1> QED
  BY <1>1, <1>2, <1>3, <1>4

\* The rows make a snapshot.
LEMMA ProjectionOK ==
  ASSUME TypeOK
  PROVE  /\ Projection \in Snapshot /\ Projection.cred = cred
         /\ Projection.auth = service.auth /\ Projection.assigned = service.assigned
         /\ Projection.policy = policy
         /\ \A n \in Nat : /\ [Projection EXCEPT !.pub = n] \in Snapshot
                           /\ [Projection EXCEPT !.pub = n].cred = cred
                           /\ [Projection EXCEPT !.pub = n].auth = service.auth
                           /\ [Projection EXCEPT !.pub = n].assigned = service.assigned
                           /\ [Projection EXCEPT !.pub = n].policy = policy
  BY DEF TypeOK, Projection, Snapshot

\* Copies of rows are rows.
LEMMA CopyTypes ==
  ASSUME TypeOK, NEW c \in Credentials
  PROVE  /\ cred[c] \in CredentialRow /\ snapshot.cred[c] \in CredentialRow
         /\ cred[c].auth \in Nat /\ cred[c].submitted \in Nat /\ cred[c].value \in Nat
         /\ snapshot.cred[c].auth \in Nat /\ snapshot.cred[c].submitted \in Nat
         /\ snapshot.cred[c].value \in Nat
         /\ \A r \in Requests :
              /\ task[r].view.cred[c] \in CredentialRow
              /\ task[r].view.cred[c].auth \in Nat
              /\ task[r].view.cred[c].submitted \in Nat
              /\ task[r].view.cred[c].value \in Nat
<1>1. /\ cred[c] \in CredentialRow /\ snapshot.cred[c] \in CredentialRow
      /\ \A r \in Requests : task[r].view.cred[c] \in CredentialRow
  <2>1. /\ cred[c] \in CredentialRow /\ snapshot \in Snapshot
        /\ \A r \in Requests : task[r].view \in Snapshot
    BY DEF TypeOK, Task
  <2> QED
    BY <2>1 DEF Snapshot
<1>2. \A w \in CredentialRow : w.auth \in Nat /\ w.submitted \in Nat /\ w.value \in Nat
  BY DEF CredentialRow
<1> QED
  BY <1>1, <1>2

-----------------------------------------------------------------------------
(* The queue.                                                              *)

\* A transaction appends its event at the end.
LEMMA Appended ==
  ASSUME TypeOK, NEW e \in Event, events' = Append(events, e)
  PROVE  /\ events' \in Seq(Event)
         /\ \A s, c : Outstanding(s, c) => Outstanding(s, c)'
         /\ Outstanding(e.stream, e.cred)'
         /\ BatchOK /\ poll' = poll => BatchOK'
<1>1. /\ events' \in Seq(Event) /\ Len(events') = Len(events) + 1
      /\ \A i \in 1..Len(events) : events'[i] = events[i]
      /\ events'[Len(events) + 1] = e /\ Len(events) \in Nat
  BY DEF TypeOK
<1>2. \A s, c : Outstanding(s, c) => Outstanding(s, c)'
  BY <1>1 DEF Outstanding
<1>3. Outstanding(e.stream, e.cred)'
  <2>1. e = [stream |-> e.stream, cred |-> e.cred]
    BY DEF Event
  <2> QED
    BY <1>1, <2>1 DEF Outstanding
<1>4. BatchOK /\ poll' = poll => BatchOK'
  <2>1. Len(poll.batch) \in Nat
    BY DEF TypeOK
  <2> QED
    BY <1>1, <2>1 DEF BatchOK
<1> QED
  BY <1>1, <1>2, <1>3, <1>4

\* A snapshot of the rows serves what they decide.
LEMMA ProjectedIsServed ==
  ASSUME service' = service, cred' = cred, policy' = policy,
         snapshot'.cred = cred, snapshot'.auth = service.auth,
         snapshot'.assigned = service.assigned, snapshot'.policy = policy
  PROVE  DispatchedIsServed'
  BY DEF DispatchedIsServed

\* Where rows and snapshot stay, no event may go.
LEMMA StillServed ==
  ASSUME DispatchedIsServed,
         Serving' => Serving, \A s, c : Outstanding(s, c) => Outstanding(s, c)',
         \/ Outstanding("assignment", NoCredential)'
         \/ /\ snapshot'.assigned = snapshot.assigned
            /\ service'.assigned = service.assigned
            /\ snapshot'.auth = snapshot.auth /\ service'.auth = service.auth,
         \/ Outstanding("policy", NoCredential)'
         \/ snapshot'.policy = snapshot.policy /\ policy' = policy,
         \A c \in Credentials :
           \/ Outstanding("credential", c)'
           \/ /\ snapshot'.cred[c].auth = snapshot.cred[c].auth
              /\ cred'[c].auth = cred[c].auth
              /\ snapshot'.cred[c].allowed = snapshot.cred[c].allowed
              /\ cred'[c].allowed = cred[c].allowed
  PROVE  DispatchedIsServed'
  BY DEF DispatchedIsServed

-----------------------------------------------------------------------------
(* Copies of rows.                                                         *)

\* Generations stay unambiguous when everyone keeps what they have, copies from
\* others, or has the row's new generation.
LEMMA GenerationsKept ==
  ASSUME IInv, TypeOK',
         \A c \in Credentials : \A g, n \in Nat :
           Known(c, g, n)' => Known(c, g, n)
                                \/ (g = cred'[c].auth /\ n = cred'[c].submitted),
         \A c \in Credentials :
           \/ cred'[c].auth = cred[c].auth /\ cred'[c].submitted = cred[c].submitted
           \/ cred'[c].auth = cred[c].auth + 1
  PROVE  GenerationsOK'
<1> SUFFICES ASSUME NEW c \in Credentials
             PROVE  /\ \A g, n, m \in Nat : Known(c, g, n)' /\ Known(c, g, m)' => n = m
                    /\ \A g, n \in Nat : Known(c, g, n)' => g <= cred'[c].auth
  BY DEF GenerationsOK
<1>1. cred[c].auth \in Nat /\ cred[c].submitted \in Nat
  BY CopyTypes DEF IInv
<1>2. cred'[c].auth \in Nat /\ cred'[c].submitted \in Nat
  BY DEF TypeOK, CredentialRow
<1>3. Known(c, cred[c].auth, cred[c].submitted)
  BY DEF Known
<1>4. /\ \A g, n, m \in Nat : Known(c, g, n) /\ Known(c, g, m) => n = m
      /\ \A g, n \in Nat : Known(c, g, n) => g <= cred[c].auth
  BY DEF IInv, CopiesOK, GenerationsOK
<1>5. ASSUME NEW g \in Nat, NEW n \in Nat, Known(c, g, n)'
      PROVE  \/ Known(c, g, n) /\ g <= cred[c].auth
             \/ g = cred'[c].auth /\ n = cred'[c].submitted
  BY <1>4, <1>5
<1>6. \/ cred'[c].auth = cred[c].auth /\ cred'[c].submitted = cred[c].submitted
      \/ cred'[c].auth = cred[c].auth + 1
  OBVIOUS
<1>7. ASSUME NEW g \in Nat, NEW n \in Nat, Known(c, g, n)'
      PROVE  g <= cred'[c].auth
  BY <1>1, <1>2, <1>5, <1>6, <1>7
<1>8. ASSUME NEW g \in Nat, NEW n \in Nat, NEW m \in Nat, Known(c, g, n)', Known(c, g, m)'
      PROVE  n = m
  <2>1. CASE cred'[c].auth = cred[c].auth /\ cred'[c].submitted = cred[c].submitted
    <3>1. Known(c, g, n) /\ Known(c, g, m)
      BY <1>3, <1>5, <1>8, <2>1
    <3> QED
      BY <1>4, <3>1
  <2>2. CASE cred'[c].auth = cred[c].auth + 1
    <3>1. CASE g = cred'[c].auth
      <4>1. ~(g <= cred[c].auth)
        BY <1>1, <2>2, <3>1
      <4> QED
        BY <1>5, <1>8, <4>1
    <3>2. CASE g # cred'[c].auth
      <4>1. Known(c, g, n) /\ Known(c, g, m)
        BY <1>5, <1>8, <3>2
      <4> QED
        BY <1>4, <4>1
    <3> QED
      BY <3>1, <3>2
  <2> QED
    BY <1>6, <2>1, <2>2
<1> QED
  BY <1>7, <1>8

\* Steps that only refresh, evict or forget copies.
LEMMA CopiesKept ==
  ASSUME IInv, TypeOK', cred' = cred,
         snapshot'.cred \in {cred, snapshot.cred, [c \in Credentials |-> NewCredential]},
         UNCHANGED <<pc, task, got>>,
         \A f \in References : broker'[f] \in {broker[f], NoBinding}
  PROVE  CopiesOK'
<1>1. GenerationsOK'
  <2>1. ASSUME NEW c \in Credentials, NEW g \in Nat, NEW n \in Nat, Known(c, g, n)'
        PROVE  Known(c, g, n)
    <3>1. /\ g = snapshot'.cred[c].auth /\ n = snapshot'.cred[c].submitted =>
               Known(c, g, n)
      BY Blank DEF Known
    <3>2. \A f \in References : broker'[f].cred = c => broker'[f] = broker[f]
      BY Blank, RuntimeReferencesAssumption
    <3> QED
      BY <2>1, <3>1, <3>2 DEF Known
  <2> QED
    BY <2>1, GenerationsKept
<1>2. ValuesOK' /\ RequestsOK' /\ NoValueFromTheFuture'
  BY Blank DEF IInv, CopiesOK, ValuesOK, RequestsOK, NoValueFromTheFuture
<1> QED
  BY <1>1, <1>2 DEF CopiesOK

-----------------------------------------------------------------------------
(* Control transactions.                                                   *)

\* What a service transaction that appends an event and copies no credential leaves.
LEMMA EventOK ==
  ASSUME IInv, NEW stream \in Streams, Emit(stream, NoCredential), DataPlaneUnchanged,
         cred' = cred, vault' = vault, activated' = activated, commits' = commits + 1,
         service' \in [lifecycle : Lifecycles, pub : Nat, auth : Nat, assigned : BOOLEAN],
         globalEpoch' \in Nat, policy' \in Nat, snapshot' \in Snapshot,
         user' \in [active : BOOLEAN, epoch : Nat],
         service'.lifecycle = "published" => service.lifecycle = "published"
  PROVE  /\ TypeOK' /\ BatchOK'
         /\ \A s, c : Outstanding(s, c) => Outstanding(s, c)'
         /\ Outstanding(stream, NoCredential)'
         /\ Serving' => Serving
         /\ snapshot'.cred \in {cred, snapshot.cred, [c \in Credentials |-> NewCredential]}
              => CopiesOK'
<1> DEFINE e == [stream |-> stream, cred |-> NoCredential]
<1>1. e \in Event /\ e.stream = stream /\ e.cred = NoCredential /\ TypeOK /\ BatchOK
  BY DEF Event, IInv, QueueOK
<1>2. events' = Append(events, e)
  BY DEF Emit
<1>3. UNCHANGED <<poll, waiting, broker, spent, pc, task, got, faults>>
  BY DEF DataPlaneUnchanged, requests
<1> HIDE DEF e
<1>4. /\ events' \in Seq(Event) /\ BatchOK'
      /\ \A s, c : Outstanding(s, c) => Outstanding(s, c)'
      /\ Outstanding(stream, NoCredential)'
  BY <1>1, <1>2, <1>3, Appended
<1>5. TypeOK'
  BY <1>1, <1>3, <1>4 DEF TypeOK
<1>6. Serving' => Serving
  BY DEF Serving
<1>7. snapshot'.cred \in {cred, snapshot.cred, [c \in Credentials |-> NewCredential]}
        => CopiesOK'
  BY <1>3, <1>5, CopiesKept
<1> QED
  BY <1>4, <1>5, <1>6, <1>7

\* Transactions on the service, its users and its policies: what they change of what
\* is authorized has its event, or its snapshot.
LEMMA ServiceStepOK ==
  ASSUME IInv, ServiceStep
  PROVE  IInv'
<1>1. /\ TypeOK /\ BatchOK /\ DispatchedIsServed
      /\ service \in [lifecycle : Lifecycles, pub : Nat, auth : Nat, assigned : BOOLEAN]
      /\ globalEpoch \in Nat /\ policy \in Nat /\ snapshot \in Snapshot
      /\ user \in [active : BOOLEAN, epoch : Nat] /\ user.epoch \in Nat /\ commits \in Nat
  BY DEF IInv, QueueOK, TypeOK
<1>2. service.pub + 1 \in Nat /\ service.auth + 1 \in Nat
  BY <1>1
<1>3. CASE Activate
  <2>1. /\ snapshot' = Projection /\ globalEpoch' = globalEpoch + 1 /\ activated' = TRUE
        /\ UNCHANGED <<service, cred, policy, user, vault, events, commits, poll, waiting,
                       broker, spent, pc, task, got, faults>>
    BY <1>3 DEF Activate, DataPlaneUnchanged, requests
  <2>2. TypeOK'
    <3>1. snapshot' \in Snapshot /\ globalEpoch' \in Nat /\ activated' \in BOOLEAN
      BY <1>1, <2>1, ProjectionOK
    <3> QED
      BY <1>1, <2>1, <3>1 DEF TypeOK
  <2>3. BatchOK'
    BY <1>1, <2>1 DEF BatchOK
  <2>4. DispatchedIsServed'
    BY <1>1, <2>1, ProjectionOK, ProjectedIsServed
  <2>5. CopiesOK'
    BY <1>1, <2>1, <2>2, ProjectionOK, CopiesKept
  <2> QED
    BY <2>2, <2>3, <2>4, <2>5 DEF IInv, QueueOK
<1>4. CASE Publish
  <2> DEFINE n == service.pub + 1
  <2>1. /\ service' = [service EXCEPT !.pub = n] /\ Emit("service", NoCredential)
        /\ snapshot' = IF activated THEN [Projection EXCEPT !.pub = n] ELSE snapshot
        /\ UNCHANGED <<activated, globalEpoch, cred, policy, user, vault>>
        /\ DataPlaneUnchanged /\ commits' = commits + 1
    BY <1>4 DEF Publish, Commit
  <2>2. n \in Nat
    BY <1>2
  <2> HIDE DEF n
  <2>3. /\ service' \in [lifecycle : Lifecycles, pub : Nat, auth : Nat, assigned : BOOLEAN]
        /\ service'.lifecycle = service.lifecycle /\ service'.auth = service.auth
        /\ service'.assigned = service.assigned
    BY <1>1, <2>1, <2>2
  <2>4. snapshot' \in Snapshot /\ snapshot'.cred \in {cred, snapshot.cred}
    BY <1>1, <2>1, <2>2, ProjectionOK
  <2>5. /\ TypeOK' /\ BatchOK' /\ CopiesOK' /\ (Serving' => Serving)
        /\ \A s, c : Outstanding(s, c) => Outstanding(s, c)'
    BY <1>1, <2>1, <2>3, <2>4, EventOK DEF Streams
  <2>6. DispatchedIsServed'
    BY <1>1, <2>1, <2>2, <2>3, ProjectionOK DEF DispatchedIsServed, Serving
  <2> QED
    BY <2>5, <2>6 DEF IInv, QueueOK
<1>5. CASE RollbackService \/ ArchiveService
  <2>1. /\ \/ service' = [service EXCEPT !.pub = @ + 1]
           \/ service' = [service EXCEPT !.lifecycle = "archived", !.pub = @ + 1]
        /\ Emit("service", NoCredential) /\ service.lifecycle = "published"
        /\ UNCHANGED <<activated, globalEpoch, cred, policy, user, vault, snapshot>>
        /\ DataPlaneUnchanged /\ commits' = commits + 1
    BY <1>5 DEF RollbackService, ArchiveService, Commit
  <2>2. /\ service' \in [lifecycle : Lifecycles, pub : Nat, auth : Nat, assigned : BOOLEAN]
        /\ service'.auth = service.auth /\ service'.assigned = service.assigned
    BY <1>1, <1>2, <2>1 DEF Lifecycles
  <2>3. /\ TypeOK' /\ BatchOK' /\ CopiesOK' /\ (Serving' => Serving)
        /\ \A s, c : Outstanding(s, c) => Outstanding(s, c)'
    BY <1>1, <2>1, <2>2, EventOK DEF Streams
  <2>4. DispatchedIsServed'
    BY <1>1, <2>1, <2>2, <2>3, StillServed
  <2> QED
    BY <2>3, <2>4 DEF IInv, QueueOK
<1>6. CASE DeleteService
  <2>1. /\ service' = [service EXCEPT !.lifecycle = "deleted"] /\ snapshot' = NoSnapshot
        /\ Emit("service", NoCredential)
        /\ UNCHANGED <<activated, globalEpoch, cred, policy, user, vault>>
        /\ DataPlaneUnchanged /\ commits' = commits + 1
    BY <1>6 DEF DeleteService, Commit
  <2>2. /\ service' \in [lifecycle : Lifecycles, pub : Nat, auth : Nat, assigned : BOOLEAN]
        /\ service'.lifecycle = "deleted"
    BY <1>1, <2>1 DEF Lifecycles
  <2>3. TypeOK' /\ BatchOK' /\ CopiesOK'
    BY <1>1, <2>1, <2>2, EventOK, Blank DEF Streams
  <2>4. DispatchedIsServed'
    BY <2>2 DEF DispatchedIsServed, Serving
  <2> QED
    BY <2>3, <2>4 DEF IInv, QueueOK
<1>7. CASE ReplaceServiceSelector
  <2>1. /\ service' = [service EXCEPT !.assigned = ~@, !.auth = @ + 1]
        /\ Emit("assignment", NoCredential)
        /\ UNCHANGED <<activated, globalEpoch, cred, policy, user, vault, snapshot>>
        /\ DataPlaneUnchanged /\ commits' = commits + 1
        /\ service.lifecycle = "published"
    BY <1>7 DEF ReplaceServiceSelector, Commit
  <2>2. service' \in [lifecycle : Lifecycles, pub : Nat, auth : Nat, assigned : BOOLEAN]
    BY <1>1, <1>2, <2>1
  <2>3. /\ TypeOK' /\ BatchOK' /\ CopiesOK' /\ (Serving' => Serving)
        /\ Outstanding("assignment", NoCredential)'
        /\ \A s, c : Outstanding(s, c) => Outstanding(s, c)'
    BY <1>1, <2>1, <2>2, EventOK DEF Streams
  <2>4. DispatchedIsServed'
    BY <1>1, <2>1, <2>3, StillServed
  <2> QED
    BY <2>3, <2>4 DEF IInv, QueueOK
<1>8. CASE PolicyChange
  <2>1. /\ policy' = policy + 1 /\ Emit("policy", NoCredential)
        /\ UNCHANGED <<activated, globalEpoch, service, cred, user, vault, snapshot>>
        /\ DataPlaneUnchanged /\ commits' = commits + 1
    BY <1>8 DEF PolicyChange, Commit
  <2>2. /\ TypeOK' /\ BatchOK' /\ CopiesOK' /\ (Serving' => Serving)
        /\ Outstanding("policy", NoCredential)'
        /\ \A s, c : Outstanding(s, c) => Outstanding(s, c)'
    BY <1>1, <2>1, EventOK DEF Streams
  <2>3. DispatchedIsServed'
    BY <1>1, <2>1, <2>2, StillServed
  <2> QED
    BY <2>2, <2>3 DEF IInv, QueueOK
<1>9. ASSUME NEW active \in BOOLEAN, AccountChange(active) \/ GlobalSecurityEvent
      PROVE  IInv'
  <2>1. /\ \/ user' = user /\ globalEpoch' = globalEpoch + 1
           \/ /\ user' = [active |-> active, epoch |-> user.epoch + 1]
              /\ globalEpoch' = globalEpoch
        /\ Emit("identity", NoCredential)
        /\ UNCHANGED <<activated, service, cred, policy, vault, snapshot>>
        /\ DataPlaneUnchanged /\ commits' = commits + 1
    BY <1>9 DEF AccountChange, GlobalSecurityEvent, Commit
  <2>2. user' \in [active : BOOLEAN, epoch : Nat] /\ globalEpoch' \in Nat
    BY <1>1, <2>1
  <2>3. /\ TypeOK' /\ BatchOK' /\ CopiesOK' /\ (Serving' => Serving)
        /\ \A s, c : Outstanding(s, c) => Outstanding(s, c)'
    BY <1>1, <2>1, <2>2, EventOK DEF Streams
  <2>4. DispatchedIsServed'
    BY <1>1, <2>1, <2>3, StillServed
  <2> QED
    BY <2>3, <2>4 DEF IInv, QueueOK
<1> QED
  BY <1>3, <1>4, <1>5, <1>6, <1>7, <1>8, <1>9 DEF ServiceStep

-----------------------------------------------------------------------------
(* Credential transactions.                                                *)

\* A transaction that writes the row of one credential.
LEMMA RowCopies ==
  ASSUME IInv, TypeOK', NEW c \in Credentials, NEW w \in CredentialRow,
         cred' = [cred EXCEPT ![c] = w], w.value <= w.submitted,
         \/ w.auth = cred[c].auth /\ w.submitted = cred[c].submitted
         \/ w.auth = cred[c].auth + 1,
         UNCHANGED <<snapshot, pc, task, got, broker>>
  PROVE  CopiesOK'
<1>1. /\ cred'[c] = w /\ \A d \in Credentials \ {c} : cred'[d] = cred[d]
  BY DEF IInv, TypeOK
<1>2. GenerationsOK'
  <2>1. ASSUME NEW d \in Credentials, NEW g \in Nat, NEW n \in Nat, Known(d, g, n)'
        PROVE  Known(d, g, n) \/ (g = cred'[d].auth /\ n = cred'[d].submitted)
    BY <2>1 DEF Known
  <2>2. \A d \in Credentials :
          \/ cred'[d].auth = cred[d].auth /\ cred'[d].submitted = cred[d].submitted
          \/ cred'[d].auth = cred[d].auth + 1
    BY <1>1
  <2> QED
    BY <2>1, <2>2, GenerationsKept
<1>3. ValuesOK' /\ RequestsOK' /\ NoValueFromTheFuture'
  BY <1>1 DEF IInv, CopiesOK, ValuesOK, RequestsOK, NoValueFromTheFuture
<1> QED
  BY <1>2, <1>3 DEF CopiesOK

\* invalidateCredential: the row gets its next generation with an event.
LEMMA InvalidateOK ==
  ASSUME IInv, NEW c \in Credentials, NEW w \in CredentialRow, InvalidateCredential(c, w),
         w.auth = cred[c].auth, w.value <= w.submitted
  PROVE  IInv'
<1> DEFINE e == [stream |-> "credential", cred |-> c]
           x == [w EXCEPT !.auth = w.auth + 1]
<1>1. /\ cred' = [cred EXCEPT ![c] = x] /\ events' = Append(events, e)
      /\ commits' = commits + 1
      /\ UNCHANGED <<activated, globalEpoch, service, policy, user, snapshot, vault, poll,
                     waiting, broker, spent, pc, task, got, faults>>
  BY DEF InvalidateCredential, ChangeCredential, Emit, Commit, DataPlaneUnchanged, requests
<1>2. /\ x \in CredentialRow /\ x.auth = cred[c].auth + 1 /\ x.value <= x.submitted
  BY DEF CredentialRow
<1>3. e \in Event /\ e.stream = "credential" /\ e.cred = c
  BY DEF Event, Streams
<1> HIDE DEF x, e
<1>4. TypeOK /\ BatchOK /\ DispatchedIsServed /\ commits \in Nat
  BY DEF IInv, QueueOK, TypeOK
<1>5. /\ events' \in Seq(Event) /\ BatchOK'
      /\ \A s, d : Outstanding(s, d) => Outstanding(s, d)'
      /\ Outstanding("credential", c)'
  <2>1. Outstanding(e.stream, e.cred)'
    BY <1>1, <1>3, <1>4, Appended
  <2>2. \A a, b : a = e.stream /\ b = e.cred => Outstanding(a, b)'
    BY <2>1 DEF Outstanding
  <2> QED
    BY <1>1, <1>3, <1>4, <2>2, Appended
<1>6. TypeOK'
  BY <1>1, <1>2, <1>4, <1>5 DEF TypeOK
<1>7. CopiesOK'
  BY <1>1, <1>2, <1>6, RowCopies
<1>8. DispatchedIsServed'
  <2>1. \A d \in Credentials : d = c \/ cred'[d] = cred[d]
    BY <1>1, <1>4 DEF TypeOK
  <2>2. Serving' => Serving
    BY <1>1 DEF Serving
  <2> QED
    BY <1>1, <1>4, <1>5, <2>1, <2>2, StillServed
<1> QED
  BY <1>5, <1>6, <1>7, <1>8 DEF IInv, QueueOK

\* The vault's step and what follows it record no event, and move no generation.
LEMMA VaultStepOK ==
  ASSUME IInv, NEW c \in Credentials, VaultApplies(c) \/ Finalize(c) \/ RollBack(c)
  PROVE  IInv'
<1>1. /\ TypeOK /\ BatchOK /\ DispatchedIsServed /\ cred[c] \in CredentialRow
      /\ cred[c].submitted \in Nat /\ cred[c].value <= cred[c].submitted
  BY CopyTypes DEF IInv, QueueOK, CopiesOK, ValuesOK
<1>2. UNCHANGED <<activated, globalEpoch, service, policy, user, snapshot, events, commits,
                  poll, waiting, broker, spent, pc, task, got, faults>>
  BY DEF VaultApplies, Finalize, RollBack, ChangeCredential, DataPlaneUnchanged, requests
<1>3. BatchOK'
  BY <1>1, <1>2 DEF BatchOK
<1>4. Intended(c) \in Nat /\ Intended(c) <= cred[c].submitted
  BY <1>1 DEF Intended
<1>5. CASE VaultApplies(c)
  <2>1. vault' = [vault EXCEPT ![c] = Intended(c)] /\ cred' = cred
    BY <1>5 DEF VaultApplies
  <2>2. TypeOK'
    BY <1>1, <1>2, <1>4, <2>1 DEF TypeOK
  <2>3. DispatchedIsServed'
    BY <1>1, <1>2, <2>1 DEF DispatchedIsServed, Serving, Outstanding
  <2>4. CopiesOK'
    BY <1>2, <2>1, <2>2, CopiesKept
  <2> QED
    BY <1>3, <2>2, <2>3, <2>4 DEF IInv, QueueOK
<1>6. ASSUME NEW w \in CredentialRow, cred' = [cred EXCEPT ![c] = w], vault' = vault,
             w.auth = cred[c].auth, w.submitted = cred[c].submitted,
             w.allowed = cred[c].allowed, w.value <= w.submitted
      PROVE  IInv'
  <2>1. TypeOK'
    BY <1>1, <1>2, <1>6 DEF TypeOK
  <2>2. CopiesOK'
    BY <1>2, <1>6, <2>1, RowCopies
  <2>3. DispatchedIsServed'
    <3>1. \A d \in Credentials :
            cred'[d].auth = cred[d].auth /\ cred'[d].allowed = cred[d].allowed
      BY <1>1, <1>6 DEF TypeOK
    <3> QED
      BY <1>1, <1>2, <3>1 DEF DispatchedIsServed, Serving, Outstanding
  <2> QED
    BY <1>3, <2>1, <2>2, <2>3 DEF IInv, QueueOK
<1>7. CASE Finalize(c)
  <2> DEFINE s == CASE cred[c].pending = "delete"  -> "unconfigured"
                    [] cred[c].pending = "archive" -> "archived"
                    [] OTHER -> IF cred[c].status = "disabled" THEN cred[c].status
                                ELSE "configured"
             w == [cred[c] EXCEPT !.pending = "none", !.value = vault[c], !.status = s]
  <2>1. cred' = [cred EXCEPT ![c] = w] /\ vault' = vault /\ vault[c] = Intended(c)
    BY <1>7 DEF Finalize, ChangeCredential
  <2>2. s \in Statuses
    BY <1>1 DEF CredentialRow, Statuses
  <2> HIDE DEF s
  <2>3. /\ w \in CredentialRow /\ w.auth = cred[c].auth /\ w.submitted = cred[c].submitted
        /\ w.allowed = cred[c].allowed /\ w.value <= w.submitted
    BY <1>1, <1>4, <2>1, <2>2 DEF CredentialRow
  <2> HIDE DEF w
  <2> QED
    BY <1>6, <2>1, <2>3
<1>8. CASE RollBack(c)
  <2> DEFINE w == [cred[c] EXCEPT !.pending = "none"]
  <2>1. cred' = [cred EXCEPT ![c] = w] /\ vault' = vault
    BY <1>8 DEF RollBack, ChangeCredential
  <2>2. /\ w \in CredentialRow /\ w.auth = cred[c].auth /\ w.submitted = cred[c].submitted
        /\ w.allowed = cred[c].allowed /\ w.value <= w.submitted
    BY <1>1 DEF CredentialRow
  <2> HIDE DEF w
  <2> QED
    BY <1>6, <2>1, <2>2
<1> QED
  BY <1>5, <1>7, <1>8

\* Transactions on credentials.
LEMMA CredentialStepOK ==
  ASSUME IInv, NEW c \in Credentials, CredentialStep(c)
  PROVE  IInv'
<1>1. /\ cred[c] \in CredentialRow /\ cred[c].submitted \in Nat /\ cred[c].value \in Nat
      /\ cred[c].value <= cred[c].submitted
  BY CopyTypes DEF IInv, CopiesOK, ValuesOK
<1>2. CASE ReplaceAssignments(c)
  <2> DEFINE w == [cred[c] EXCEPT !.allowed = ~@]
  <2>1. w \in CredentialRow /\ w.auth = cred[c].auth /\ w.value <= w.submitted
    BY <1>1 DEF CredentialRow
  <2>2. InvalidateCredential(c, w)
    BY <1>2 DEF ReplaceAssignments
  <2> HIDE DEF w
  <2> QED
    BY <2>1, <2>2, InvalidateOK
<1>3. ASSUME NEW s \in Statuses, InvalidateCredential(c, [cred[c] EXCEPT !.status = s])
      PROVE  IInv'
  <2> DEFINE w == [cred[c] EXCEPT !.status = s]
  <2>1. w \in CredentialRow /\ w.auth = cred[c].auth /\ w.value <= w.submitted
    BY <1>1 DEF CredentialRow
  <2> HIDE DEF w
  <2> QED
    BY <1>3, <2>1, InvalidateOK DEF w
<1>4. CASE Disable(c) \/ Enable(c) \/ DeleteArchived(c)
  BY <1>3, <1>4 DEF Disable, Enable, DeleteArchived, Statuses
<1>5. CASE PrepareSet(c)
  <2> DEFINE n == cred[c].submitted + 1
             w == [cred[c] EXCEPT !.pending = "set", !.submitted = n]
  <2>1. InvalidateCredential(c, w)
    BY <1>5 DEF PrepareSet
  <2>2. n \in Nat /\ cred[c].value <= n
    BY <1>1
  <2> HIDE DEF n
  <2>3. w \in CredentialRow /\ w.auth = cred[c].auth /\ w.value <= w.submitted
    BY <1>1, <2>2 DEF CredentialRow
  <2> HIDE DEF w
  <2> QED
    BY <2>1, <2>3, InvalidateOK
<1>6. ASSUME NEW op \in {"delete", "archive"}, PrepareDelete(c, op)
      PROVE  IInv'
  <2> DEFINE w == [cred[c] EXCEPT !.pending = op]
  <2>1. InvalidateCredential(c, w)
    BY <1>6 DEF PrepareDelete
  <2>2. w \in CredentialRow /\ w.auth = cred[c].auth /\ w.value <= w.submitted
    BY <1>1 DEF CredentialRow
  <2> HIDE DEF w
  <2> QED
    BY <2>1, <2>2, InvalidateOK
<1> QED
  BY <1>2, <1>4, <1>5, <1>6, VaultStepOK DEF CredentialStep

-----------------------------------------------------------------------------
(* The consumer and the requests.                                          *)

\* Polling reads the head of the queue, evicts references, and marks the batch
\* dispatched only with the snapshot that its events call for.
LEMMA PollStepOK ==
  ASSUME IInv, TimerPoll \/ PollStep
  PROVE  IInv'
<1>1. /\ TypeOK /\ BatchOK /\ DispatchedIsServed
      /\ events \in Seq(Event) /\ poll.batch \in Seq(Event)
      /\ Len(events) \in Nat /\ Len(poll.batch) \in Nat
      /\ IdlePoll \in [step : {"idle", "read", "evict", "dispatch"}, batch : Seq(Event)]
      /\ IdlePoll.batch = <<>>
  BY DEF IInv, QueueOK, TypeOK, IdlePoll
<1>2. UNCHANGED <<globalEpoch, service, cred, policy, user, vault, activated, spent, pc,
                  task, got, commits, faults>>
  BY DEF TimerPoll, PollStep, PollRead, PollEvict, PollDispatch, durable, requests
<1>3. CASE TimerPoll
  <2>1. /\ poll' = [IdlePoll EXCEPT !.step = "read"] /\ poll.step = "idle"
        /\ UNCHANGED <<events, snapshot, waiting, broker>>
    BY <1>3 DEF TimerPoll
  <2>2. /\ poll' \in [step : {"idle", "read", "evict", "dispatch"}, batch : Seq(Event)]
        /\ poll'.batch = <<>>
    BY <1>1, <2>1
  <2>3. TypeOK' /\ BatchOK'
    BY <1>1, <1>2, <2>1, <2>2 DEF TypeOK, BatchOK
  <2>4. CopiesOK'
    BY <1>2, <2>1, <2>3, CopiesKept
  <2>5. DispatchedIsServed'
    BY <1>1, <1>2, <2>1 DEF DispatchedIsServed, Serving, Outstanding
  <2> QED
    BY <2>3, <2>4, <2>5 DEF IInv, QueueOK
<1>4. CASE PollRead
  <2> DEFINE n == IF Len(events) < Batch THEN Len(events) ELSE Batch
  <2>1. /\ poll' = [step |-> "evict", batch |-> SubSeq(events, 1, n)]
        /\ UNCHANGED <<events, snapshot, waiting, broker>>
    BY <1>4 DEF PollRead
  <2>2. n \in Nat /\ n <= Len(events)
    BY <1>1, RuntimeReferencesAssumption
  <2> HIDE DEF n
  <2>3. /\ poll'.batch \in Seq(Event) /\ Len(poll'.batch) = n /\ poll'.step = "evict"
        /\ \A i \in 1..n : poll'.batch[i] = events[i]
        /\ poll' \in [step : {"idle", "read", "evict", "dispatch"}, batch : Seq(Event)]
    BY <1>1, <2>1, <2>2
  <2>4. TypeOK' /\ BatchOK'
    BY <1>1, <1>2, <2>1, <2>2, <2>3 DEF TypeOK, BatchOK
  <2>5. CopiesOK'
    BY <1>2, <2>1, <2>4, CopiesKept
  <2>6. DispatchedIsServed'
    BY <1>1, <1>2, <2>1 DEF DispatchedIsServed, Serving, Outstanding
  <2> QED
    BY <2>4, <2>5, <2>6 DEF IInv, QueueOK
<1>5. CASE PollEvict
  <2>1. /\ broker' = [f \in References |->
                       IF \E i \in 1..Len(poll.batch) : Evicts(poll.batch[i], f)
                       THEN NoBinding ELSE broker[f]]
        /\ \/ poll' = IdlePoll /\ waiting' = {}
           \/ poll' = [poll EXCEPT !.step = "dispatch"] /\ waiting' = waiting
        /\ UNCHANGED <<events, snapshot>>
    BY <1>5 DEF PollEvict
  <2>2. broker' \in [References -> Binding]
    BY <1>1, <2>1, Blank DEF TypeOK
  <2>3. /\ poll' \in [step : {"idle", "read", "evict", "dispatch"}, batch : Seq(Event)]
        /\ waiting' \subseteq Requests
        /\ poll'.batch = poll.batch \/ poll'.batch = <<>>
        /\ poll'.step \in {"idle", "read"} => poll'.batch = <<>>
    BY <1>1, <2>1 DEF TypeOK, IdlePoll
  <2>4. TypeOK' /\ BatchOK'
    <3>1. TypeOK'
      BY <1>1, <1>2, <2>1, <2>2, <2>3 DEF TypeOK
    <3>2. CASE poll'.batch = poll.batch
      BY <1>1, <2>1, <2>3, <3>1, <3>2 DEF BatchOK
    <3>3. CASE poll'.batch = <<>>
      <4>1. Len(poll'.batch) = 0 /\ Len(events') \in Nat
        BY <1>1, <2>1, <3>3
      <4> QED
        BY <3>1, <3>3, <4>1 DEF BatchOK
    <3> QED
      BY <2>3, <3>1, <3>2, <3>3
  <2>5. CopiesOK'
    BY <1>2, <2>1, <2>4, CopiesKept
  <2>6. DispatchedIsServed'
    BY <1>1, <1>2, <2>1 DEF DispatchedIsServed, Serving, Outstanding
  <2> QED
    BY <2>4, <2>5, <2>6 DEF IInv, QueueOK
<1>6. CASE PollDispatch
  <2> DEFINE k == Len(poll.batch)
             refreshed == \E i \in 1..k : Refreshes(poll.batch[i])
  <2>1. /\ snapshot' = IF activated /\ service.lifecycle = "published" /\ refreshed
                       THEN Projection ELSE snapshot
        /\ events' = SubSeq(events, k + 1, Len(events))
        /\ poll' = IdlePoll /\ waiting' = {} /\ broker' = broker
    BY <1>6 DEF PollDispatch
  <2>2. k \in Nat /\ k <= Len(events) /\ \A i \in 1..k : poll.batch[i] = events[i]
    BY <1>1 DEF BatchOK
  <2>3. /\ events' \in Seq(Event) /\ Len(events') = Len(events) - k
        /\ \A i \in 1..(Len(events) - k) : events'[i] = events[k + i]
    <3>1. k + 1 \in Int /\ Len(events) \in Int
      BY <1>1, <2>2
    <3> HIDE DEF k
    <3> QED
      BY <1>1, <2>1, <2>2, <3>1
  <2>4. snapshot' \in Snapshot /\ snapshot'.cred \in {cred, snapshot.cred}
    BY <1>1, <2>1, ProjectionOK DEF TypeOK
  <2>5. TypeOK' /\ BatchOK'
    <3>1. TypeOK'
      BY <1>1, <1>2, <2>1, <2>3, <2>4 DEF TypeOK
    <3>2. poll'.batch = <<>> /\ Len(poll'.batch) = 0 /\ Len(events') \in Nat
      BY <1>1, <2>1, <2>3
    <3> QED
      BY <3>1, <3>2 DEF BatchOK
  <2>6. CopiesOK'
    BY <1>2, <2>1, <2>4, <2>5, CopiesKept
  <2>7. CASE activated /\ service.lifecycle = "published" /\ refreshed
    <3>1. DispatchedIsServed'
      BY <1>1, <1>2, <2>1, <2>7, ProjectionOK, ProjectedIsServed
    <3> QED
      BY <2>5, <2>6, <3>1 DEF IInv, QueueOK
  <2>8. CASE ~(activated /\ service.lifecycle = "published" /\ refreshed)
    <3>1. snapshot' = snapshot
      BY <2>1, <2>8
    <3>2. ASSUME Serving, NEW s \in {"assignment", "policy", "credential"}, NEW d,
                 Outstanding(s, d)
          PROVE  Outstanding(s, d)'
      <4>1. PICK i \in 1..Len(events) : events[i] = [stream |-> s, cred |-> d]
        BY <3>2 DEF Outstanding
      <4>2. i > k
        <5>1. ~refreshed
          BY <2>8, <3>2 DEF Serving
        <5>2. Refreshes(events[i])
          BY <4>1 DEF Refreshes
        <5> HIDE DEF k
        <5> QED
          BY <2>2, <5>1, <5>2
      <4> HIDE DEF k
      <4>3. i - k \in 1..(Len(events) - k) /\ k + (i - k) = i
        BY <1>1, <2>2, <4>2
      <4>4. events'[i - k] = [stream |-> s, cred |-> d]
        BY <2>3, <4>1, <4>3
      <4> QED
        BY <2>3, <4>3, <4>4 DEF Outstanding
    <3>3. DispatchedIsServed'
      BY <1>1, <1>2, <3>1, <3>2 DEF DispatchedIsServed, Serving
    <3> QED
      BY <2>5, <2>6, <3>3 DEF IInv, QueueOK
  <2> QED
    BY <2>7, <2>8
<1> QED
  BY <1>3, <1>4, <1>5, <1>6 DEF PollStep

\* A poll that throws, and a restart, forget requests or references.
LEMMA FaultOK ==
  ASSUME IInv, PollFails \/ Restart
  PROVE  IInv'
<1>1. /\ TypeOK /\ BatchOK /\ DispatchedIsServed /\ faults \in Nat
      /\ IdlePoll \in [step : {"idle", "read", "evict", "dispatch"}, batch : Seq(Event)]
      /\ IdlePoll.batch = <<>>
  BY DEF IInv, QueueOK, TypeOK, IdlePoll
<1>2. /\ poll' = IdlePoll /\ waiting' = {} /\ faults' = faults + 1
      /\ UNCHANGED <<globalEpoch, service, cred, policy, user, vault, activated, events,
                     snapshot, spent, got, commits>>
  BY DEF PollFails, Restart, Fault, durable
<1>3. /\ broker' \in [References -> Binding]
      /\ \A f \in References : broker'[f] \in {broker[f], NoBinding}
  BY <1>1, Blank DEF PollFails, Restart, TypeOK
<1>4. /\ pc' \in [Requests -> Steps] /\ task' \in [Requests -> Task]
      /\ \A r \in Requests : \/ pc'[r] = "idle" /\ task'[r] = NoTask
                             \/ pc'[r] = pc[r] /\ task'[r] = task[r]
  <2>1. CASE PollFails
    BY <1>1, <2>1, Blank DEF PollFails, TypeOK, Steps
  <2>2. CASE Restart
    BY <1>1, <2>2, Blank DEF Restart, TypeOK, Steps
  <2> QED
    BY <2>1, <2>2
<1>5. TypeOK' /\ BatchOK'
  BY <1>1, <1>2, <1>3, <1>4 DEF TypeOK, BatchOK
<1>6. DispatchedIsServed'
  BY <1>1, <1>2 DEF DispatchedIsServed, Serving, Outstanding
<1>7. GenerationsOK'
  <2>1. ASSUME NEW c \in Credentials, NEW g \in Nat, NEW n \in Nat, Known(c, g, n)'
        PROVE  Known(c, g, n)
    <3>1. ASSUME NEW r \in Requests,
                 \/ /\ g = task'[r].view.cred[c].auth
                    /\ n = task'[r].view.cred[c].submitted
                 \/ /\ task'[r].binding.cred = c /\ g = task'[r].binding.credAuth
                    /\ n = task'[r].binding.submitted
          PROVE  Known(c, g, n)
      <4>1. CASE task'[r] = task[r]
        BY <3>1, <4>1 DEF Known
      <4>2. CASE task'[r] = NoTask
        BY <3>1, <4>2, Blank, RuntimeReferencesAssumption DEF Known
      <4> QED
        BY <1>4, <4>1, <4>2
    <3>2. \A f \in References : broker'[f].cred = c => broker'[f] = broker[f]
      BY <1>3, Blank, RuntimeReferencesAssumption
    <3> QED
      BY <1>2, <2>1, <3>1, <3>2 DEF Known
  <2> QED
    BY <1>2, <1>5, <2>1, GenerationsKept
<1>8. ValuesOK' /\ RequestsOK' /\ NoValueFromTheFuture'
  <2>1. IInv /\ ValuesOK /\ RequestsOK /\ NoValueFromTheFuture
    BY DEF IInv, CopiesOK
  <2>2. ValuesOK'
    <3>1. ASSUME NEW r \in Requests, NEW c \in Credentials
          PROVE  task'[r].view.cred[c].value <= task'[r].view.cred[c].submitted
      BY <1>4, <2>1, Blank DEF ValuesOK
    <3> QED
      BY <1>2, <2>1, <3>1 DEF ValuesOK
  <2>3. RequestsOK'
    BY <1>4, <2>1 DEF RequestsOK
  <2> QED
    BY <1>2, <2>1, <2>2, <2>3 DEF NoValueFromTheFuture
<1> QED
  BY <1>5, <1>6, <1>7, <1>8 DEF IInv, QueueOK, CopiesOK

\* A step of one request.
LEMMA RequestKept ==
  ASSUME IInv, NEW r \in Requests, NEW p \in Steps, NEW k \in Task,
         UNCHANGED <<activated, globalEpoch, service, cred, policy, user, vault, events,
                     snapshot, commits, faults>>,
         Await(r) \/ UNCHANGED <<poll, waiting>>,
         pc' = [pc EXCEPT ![r] = p], task' = [task EXCEPT ![r] = k],
         broker' \in [References -> Binding], spent' \subseteq References,
         got' \in [Requests -> [value : Nat, submitted : Nat]],
         k.view \in {task[r].view, snapshot, NoSnapshot},
         \A c \in Credentials :
           k.binding.cred = c => Known(c, k.binding.credAuth, k.binding.submitted),
         \A f \in References, c \in Credentials :
           broker'[f].cred = c => Known(c, broker'[f].credAuth, broker'[f].submitted),
         p \in {"issue_view", "issue_state"} => k.cred \in Credentials,
         p = "use_view" => k.ref \in References,
         p \in {"check_view", "check_state", "resolve"} => k.binding.cred \in Credentials,
         p = "resolve" => k.view.cred[k.binding.cred].value <= k.binding.submitted,
         NoValueFromTheFuture'
  PROVE  IInv'
<1>1. /\ TypeOK /\ BatchOK /\ DispatchedIsServed /\ ValuesOK /\ RequestsOK
  BY DEF IInv, QueueOK, CopiesOK
<1>2. /\ pc' \in [Requests -> Steps] /\ task' \in [Requests -> Task]
      /\ pc'[r] = p /\ task'[r] = k
      /\ \A q \in Requests \ {r} : pc'[q] = pc[q] /\ task'[q] = task[q]
  BY <1>1 DEF TypeOK
<1>3. /\ poll' \in [step : {"idle", "read", "evict", "dispatch"}, batch : Seq(Event)]
      /\ waiting' \subseteq Requests /\ BatchOK'
  <2>1. CASE UNCHANGED <<poll, waiting>>
    BY <1>1, <2>1 DEF TypeOK, BatchOK
  <2>2. CASE Await(r)
    <3> DEFINE b == [IdlePoll EXCEPT !.step = "read"]
    <3>1. b.batch = <<>> /\ b \in [step : {"idle", "read", "evict", "dispatch"},
                                   batch : Seq(Event)]
      <4>1. /\ IdlePoll \in [step : {"idle", "read", "evict", "dispatch"},
                             batch : Seq(Event)]
            /\ IdlePoll.batch = <<>>
        BY DEF IdlePoll
      <4> QED
        BY <4>1
    <3>2. /\ waiting' = waiting \cup {r}
          /\ poll' = IF poll.step = "idle" THEN b ELSE poll
      BY <2>2 DEF Await
    <3> HIDE DEF b
    <3>3. CASE poll.step = "idle"
      <4>1. poll' = b /\ Len(poll'.batch) = 0 /\ Len(events') \in Nat
        BY <1>1, <3>1, <3>2, <3>3 DEF TypeOK
      <4> QED
        BY <1>1, <3>1, <3>2, <4>1 DEF BatchOK, TypeOK
    <3>4. CASE poll.step /= "idle"
      BY <1>1, <3>2, <3>4 DEF BatchOK, TypeOK
    <3> QED
      BY <3>3, <3>4
  <2> QED
    BY <2>1, <2>2
<1>4. TypeOK'
  BY <1>1, <1>2, <1>3 DEF TypeOK
<1>5. DispatchedIsServed'
  BY <1>1 DEF DispatchedIsServed, Serving, Outstanding
<1>6. GenerationsOK'
  <2>1. ASSUME NEW c \in Credentials, NEW g \in Nat, NEW n \in Nat, Known(c, g, n)'
        PROVE  Known(c, g, n)
    <3>1. ASSUME NEW q \in Requests,
                 \/ /\ g = task'[q].view.cred[c].auth
                    /\ n = task'[q].view.cred[c].submitted
                 \/ /\ task'[q].binding.cred = c /\ g = task'[q].binding.credAuth
                    /\ n = task'[q].binding.submitted
          PROVE  Known(c, g, n)
      <4>1. CASE q /= r
        <5>1. task'[q] = task[q]
          BY <1>2, <4>1
        <5> QED
          BY <3>1, <5>1 DEF Known
      <4>2. CASE /\ q = r /\ g = k.view.cred[c].auth /\ n = k.view.cred[c].submitted
        BY <4>2, Blank DEF Known
      <4>3. CASE /\ q = r /\ k.binding.cred = c /\ g = k.binding.credAuth
                 /\ n = k.binding.submitted
        BY <4>3
      <4> QED
        BY <1>2, <3>1, <4>1, <4>2, <4>3
    <3>2. ASSUME NEW f \in References, broker'[f].cred = c, g = broker'[f].credAuth,
                 n = broker'[f].submitted
          PROVE  Known(c, g, n)
      BY <3>2
    <3>3. \/ g = 0 /\ n = 0
          \/ g = cred[c].auth /\ n = cred[c].submitted
          \/ g = snapshot.cred[c].auth /\ n = snapshot.cred[c].submitted
          => Known(c, g, n)
      BY DEF Known
    <3>4. \/ g = 0 /\ n = 0
          \/ g = cred[c].auth /\ n = cred[c].submitted
          \/ g = snapshot.cred[c].auth /\ n = snapshot.cred[c].submitted
          \/ \E q \in Requests : \/ /\ g = task'[q].view.cred[c].auth
                                    /\ n = task'[q].view.cred[c].submitted
                                 \/ /\ task'[q].binding.cred = c
                                    /\ g = task'[q].binding.credAuth
                                    /\ n = task'[q].binding.submitted
          \/ \E f \in References : /\ broker'[f].cred = c
                                   /\ g = broker'[f].credAuth
                                   /\ n = broker'[f].submitted
      BY <2>1 DEF Known
    <3> QED
      BY <3>1, <3>2, <3>3, <3>4
  <2> QED
    BY <1>4, <2>1, GenerationsKept
<1>7. ValuesOK'
  <2>1. ASSUME NEW q \in Requests, NEW c \in Credentials
        PROVE  task'[q].view.cred[c].value <= task'[q].view.cred[c].submitted
    <3>1. CASE q /= r
      BY <1>1, <1>2, <3>1 DEF ValuesOK
    <3>2. CASE q = r
      BY <1>1, <1>2, <3>2, Blank DEF ValuesOK
    <3> QED
      BY <3>1, <3>2
  <2> QED
    BY <1>1, <2>1 DEF ValuesOK
<1>8. RequestsOK'
  <2>1. ASSUME NEW q \in Requests
        PROVE  /\ pc'[q] \in {"issue_view", "issue_state"} => task'[q].cred \in Credentials
               /\ pc'[q] = "use_view" => task'[q].ref \in References
               /\ pc'[q] \in {"check_view", "check_state", "resolve"} =>
                    task'[q].binding.cred \in Credentials
               /\ pc'[q] = "resolve" =>
                    task'[q].view.cred[task'[q].binding.cred].value
                      <= task'[q].binding.submitted
    <3>1. CASE q /= r
      BY <1>1, <1>2, <3>1 DEF RequestsOK
    <3>2. CASE q = r
      BY <1>2, <3>2
    <3> QED
      BY <3>1, <3>2
  <2> QED
    BY <2>1 DEF RequestsOK
<1> QED
  BY <1>3, <1>4, <1>5, <1>6, <1>7, <1>8 DEF IInv, QueueOK, CopiesOK

\* Whoever has a binding has its generation and count from the credential's row.
LEMMA BindingsKnown ==
  ASSUME IInv, NEW c \in Credentials
  PROVE  /\ \A r \in Requests : task[r].binding.cred = c =>
              Known(c, task[r].binding.credAuth, task[r].binding.submitted)
         /\ \A f \in References : broker[f].cred = c =>
              Known(c, broker[f].credAuth, broker[f].submitted)
         /\ \A r \in Requests :
              Known(c, task[r].view.cred[c].auth, task[r].view.cred[c].submitted)
         /\ NoBinding.cred /= c
  BY Blank, RuntimeReferencesAssumption DEF Known

\* Steps of requests: a reference that validates against a view was issued under the
\* generation the view names.
LEMMA RequestStepOK ==
  ASSUME IInv, NEW r \in Requests, RequestStep(r)
  PROVE  IInv'
<1>1. /\ TypeOK /\ ValuesOK /\ RequestsOK /\ NoValueFromTheFuture
      /\ task[r] \in Task /\ snapshot \in Snapshot /\ user.epoch \in Nat
      /\ broker \in [References -> Binding] /\ spent \subseteq References
      /\ got \in [Requests -> [value : Nat, submitted : Nat]] /\ globalEpoch \in Nat
  BY DEF IInv, CopiesOK, TypeOK
<1>2. task[r].view \in Snapshot /\ task[r].binding \in Binding
  BY <1>1 DEF Task
<1>3. UNCHANGED <<activated, globalEpoch, service, cred, policy, user, vault, events,
                  snapshot, commits, faults>>
  BY DEF RequestStep, BeginIssue, IssueView, IssueState, BeginUse, UseView, CheckView,
         CheckState, Resolve, durable
<1>4. ASSUME NEW p \in Steps, NEW k \in Task,
             Await(r) \/ UNCHANGED <<poll, waiting>>,
             Proceed(r, p), task' = [task EXCEPT ![r] = k],
             UNCHANGED <<broker, spent, got>>,
             k.view \in {task[r].view, snapshot, NoSnapshot},
             \/ k.binding \in {task[r].binding, NoBinding}
             \/ \E f \in References : k.binding = broker[f],
             p \in {"issue_view", "issue_state"} => k.cred \in Credentials,
             p = "use_view" => k.ref \in References,
             p \in {"check_view", "check_state", "resolve"} =>
               k.binding.cred \in Credentials,
             p = "resolve" => k.view.cred[k.binding.cred].value <= k.binding.submitted
      PROVE  IInv'
  <2>1. \A c \in Credentials :
          k.binding.cred = c => Known(c, k.binding.credAuth, k.binding.submitted)
    BY <1>4, BindingsKnown
  <2>2. \A f \in References, c \in Credentials :
          broker'[f].cred = c => Known(c, broker'[f].credAuth, broker'[f].submitted)
    BY <1>4, BindingsKnown
  <2>3. /\ NoValueFromTheFuture' /\ broker' \in [References -> Binding]
        /\ spent' \subseteq References
        /\ got' \in [Requests -> [value : Nat, submitted : Nat]]
    BY <1>1, <1>4 DEF NoValueFromTheFuture
  <2>4. pc' = [pc EXCEPT ![r] = p]
    BY <1>4 DEF Proceed
  <2> QED
    BY <1>3, <1>4, <2>1, <2>2, <2>3, <2>4, RequestKept
<1>5. ASSUME End(r), UNCHANGED <<poll, waiting, broker, spent, got>>
      PROVE  IInv'
  BY <1>4, <1>5, Blank DEF End, Steps
<1>6. ASSUME NEW c \in Credentials, BeginIssue(r, c)
      PROVE  IInv'
  <2> DEFINE k == [NoTask EXCEPT !.cred = c]
  <2>1. /\ k \in Task /\ k.view = NoSnapshot /\ k.binding = NoBinding /\ k.cred = c
    BY Blank DEF Task
  <2>2. /\ Proceed(r, "issue_view") /\ task' = [task EXCEPT ![r] = k] /\ Await(r)
        /\ UNCHANGED <<broker, spent, got>>
    BY <1>6 DEF BeginIssue
  <2> HIDE DEF k
  <2> QED
    BY <1>4, <2>1, <2>2 DEF Steps
<1>7. ASSUME NEW f \in References, BeginUse(r, f)
      PROVE  IInv'
  <2> DEFINE k == [NoTask EXCEPT !.ref = f]
  <2>1. /\ k \in Task /\ k.view = NoSnapshot /\ k.binding = NoBinding /\ k.ref = f
    BY Blank DEF Task
  <2>2. /\ Proceed(r, "use_view") /\ task' = [task EXCEPT ![r] = k] /\ Await(r)
        /\ UNCHANGED <<broker, spent, got>>
    BY <1>7 DEF BeginUse
  <2> HIDE DEF k
  <2> QED
    BY <1>4, <2>1, <2>2 DEF Steps
<1>8. CASE IssueView(r) \/ CheckView(r)
  <2> DEFINE k == [task[r] EXCEPT !.view = snapshot, !.epoch = user.epoch]
  <2>1. /\ k \in Task /\ k.view = snapshot /\ k.binding = task[r].binding
        /\ k.cred = task[r].cred
    BY <1>1 DEF Task
  <2>2. /\ \/ End(r)
           \/ /\ \/ Proceed(r, "issue_state") /\ pc[r] = "issue_view"
                 \/ Proceed(r, "check_state") /\ pc[r] = "check_view"
              /\ task' = [task EXCEPT ![r].view = snapshot, ![r].epoch = user.epoch]
        /\ UNCHANGED <<poll, waiting, broker, spent, got>>
    BY <1>8 DEF IssueView, CheckView, Ready
  <2>3. task' = [task EXCEPT ![r].view = snapshot, ![r].epoch = user.epoch]
          => task' = [task EXCEPT ![r] = k]
    BY <1>1 DEF TypeOK
  <2> HIDE DEF k
  <2>4. CASE Proceed(r, "issue_state") /\ pc[r] = "issue_view"
             /\ task' = [task EXCEPT ![r] = k]
    BY <1>1, <1>4, <2>1, <2>2, <2>4 DEF RequestsOK, Steps
  <2>5. CASE Proceed(r, "check_state") /\ pc[r] = "check_view"
             /\ task' = [task EXCEPT ![r] = k]
    BY <1>1, <1>4, <2>1, <2>2, <2>5 DEF RequestsOK, Steps
  <2> QED
    BY <1>5, <2>2, <2>3, <2>4, <2>5
<1>9. CASE UseView(r)
  <2> DEFINE f == task[r].ref
             k == [task[r] EXCEPT !.binding = broker[f]]
  <2>1. f \in References
    BY <1>1, <1>9 DEF UseView, Ready, RequestsOK
  <2>2. broker[f] \in Binding /\ (Live(f) => broker[f].cred \in Credentials)
    BY <1>1, <2>1 DEF Live, Binding
  <2>3. /\ k \in Task /\ k.view = task[r].view /\ k.binding = broker[f]
    BY <1>1, <2>2 DEF Task
  <2>4. /\ \/ End(r) /\ UNCHANGED <<poll, waiting>>
           \/ /\ Proceed(r, "check_view") /\ Await(r) /\ Live(f)
              /\ task' = [task EXCEPT ![r].binding = broker[f]]
        /\ UNCHANGED <<broker, spent, got>>
    BY <1>9 DEF UseView
  <2>5. task' = [task EXCEPT ![r].binding = broker[f]] => task' = [task EXCEPT ![r] = k]
    BY <1>1 DEF TypeOK
  <2> HIDE DEF f, k
  <2> QED
    BY <1>4, <1>5, <2>1, <2>2, <2>3, <2>4, <2>5 DEF Steps
<1>10. CASE CheckState(r)
  <2> DEFINE b == task[r].binding
             view == task[r].view
             c == b.cred
  <2>1. /\ \/ End(r)
           \/ /\ Proceed(r, "resolve") /\ task' = task
              /\ Validates(b, view, task[r].epoch, globalEpoch)
        /\ UNCHANGED <<poll, waiting, broker, spent, got>> /\ pc[r] = "check_state"
    BY <1>10 DEF CheckState, Ready
  <2>2. c \in Credentials
    BY <1>1, <2>1 DEF RequestsOK
  <2>3. /\ view.cred[c].auth \in Nat /\ view.cred[c].submitted \in Nat
        /\ view.cred[c].value \in Nat /\ b.credAuth \in Nat /\ b.submitted \in Nat
    BY <1>1, <1>2, <2>2, CopyTypes DEF Binding
  <2>4. /\ Known(c, b.credAuth, b.submitted)
        /\ Known(c, view.cred[c].auth, view.cred[c].submitted)
    BY <2>2, BindingsKnown
  <2>5. view.cred[c].value <= view.cred[c].submitted
    BY <1>1, <2>2 DEF ValuesOK
  <2>6. ASSUME Validates(b, view, task[r].epoch, globalEpoch)
        PROVE  view.cred[c].value <= b.submitted
    <3>1. view.cred[c].auth = b.credAuth
      BY <2>6 DEF Validates
    <3>2. b.submitted = view.cred[c].submitted
      BY <2>2, <2>3, <2>4, <3>1 DEF IInv, CopiesOK, GenerationsOK
    <3> QED
      BY <2>5, <3>2
  <2>7. task' = task => task' = [task EXCEPT ![r] = task[r]]
    BY <1>1 DEF TypeOK
  <2>8. CASE Proceed(r, "resolve") /\ task' = task
             /\ Validates(b, view, task[r].epoch, globalEpoch)
    <3>1. task[r].view.cred[task[r].binding.cred].value <= task[r].binding.submitted
      BY <2>6, <2>8
    <3>2. task[r].binding.cred \in Credentials
      BY <2>2
    <3> HIDE DEF b, view, c
    <3> QED
      BY <1>1, <1>4, <2>1, <2>7, <2>8, <3>1, <3>2 DEF Steps
  <2> QED
    BY <1>5, <2>1, <2>8
<1>11. ASSUME NEW f \in References, IssueState(r, f)
       PROVE  IInv'
  <2> DEFINE view == task[r].view
             c == task[r].cred
             n == [cred |-> c, pub |-> view.pub, auth |-> view.auth,
                   credAuth |-> view.cred[c].auth, epoch |-> task[r].epoch,
                   global |-> globalEpoch, submitted |-> view.cred[c].submitted]
  <2>1. /\ pc[r] = "issue_state" /\ End(r) /\ UNCHANGED <<poll, waiting, got>>
        /\ \/ UNCHANGED <<spent, broker>>
           \/ spent' = spent \cup {f} /\ broker' = [broker EXCEPT ![f] = n]
    BY <1>11 DEF IssueState, Ready
  <2>2. c \in Credentials
    BY <1>1, <2>1 DEF RequestsOK
  <2>3. /\ n \in Binding /\ n.cred = c
        /\ n.credAuth = view.cred[c].auth /\ n.submitted = view.cred[c].submitted
    <3>1. view.cred[c].auth \in Nat /\ view.cred[c].submitted \in Nat
      BY <1>1, <2>2, CopyTypes
    <3>2. view.pub \in Nat /\ view.auth \in Nat /\ task[r].epoch \in Nat
      BY <1>1, <1>2 DEF Snapshot, Task
    <3> QED
      BY <1>1, <2>2, <3>1, <3>2 DEF Binding
  <2>4. Known(c, n.credAuth, n.submitted)
    BY <2>2, <2>3, BindingsKnown
  <2> HIDE DEF n
  <2>5. /\ broker' \in [References -> Binding] /\ spent' \subseteq References
        /\ \A g \in References : broker'[g] \in {broker[g], n}
    BY <1>1, <2>1, <2>3
  <2>6. \A g \in References, d \in Credentials :
          broker'[g].cred = d => Known(d, broker'[g].credAuth, broker'[g].submitted)
    BY <2>3, <2>4, <2>5, BindingsKnown
  <2>7. /\ pc' = [pc EXCEPT ![r] = "idle"] /\ task' = [task EXCEPT ![r] = NoTask]
        /\ got' = got
    BY <2>1 DEF End, Proceed
  <2>8. NoValueFromTheFuture'
    BY <1>1, <2>7 DEF NoValueFromTheFuture
  <2>9. \A d \in Credentials : NoTask.binding.cred /= d
    BY Blank, BindingsKnown
  <2>10. got' \in [Requests -> [value : Nat, submitted : Nat]]
    BY <1>1, <2>7
  <2>11. /\ UNCHANGED <<poll, waiting>> /\ "idle" \in Steps
         /\ NoTask.view \in {task[r].view, snapshot, NoSnapshot} /\ NoTask \in Task
    BY <2>1, Blank DEF Steps
  <2> HIDE DEF c, view
  <2> QED
    BY <1>3, <2>11, <2>5, <2>6, <2>7, <2>8, <2>9, <2>10, RequestKept
<1>12. CASE Resolve(r)
  <2> DEFINE b == task[r].binding
             w == task[r].view.cred[b.cred]
  <2>1. /\ pc[r] = "resolve" /\ End(r)
        /\ got' = IF vault[b.cred] = w.value
                  THEN [got EXCEPT ![r] = [value |-> vault[b.cred],
                                           submitted |-> b.submitted]]
                  ELSE got
        /\ UNCHANGED <<poll, waiting, broker, spent>>
    BY <1>12 DEF Resolve, Ready
  <2>2. b.cred \in Credentials /\ w.value <= b.submitted
    BY <1>1, <2>1 DEF RequestsOK
  <2>3. w.value \in Nat /\ b.submitted \in Nat
    BY <1>1, <1>2, <2>2, CopyTypes DEF Binding
  <2>4. /\ got' \in [Requests -> [value : Nat, submitted : Nat]]
        /\ \A q \in Requests : got'[q] = got[q]
                                 \/ got'[q] = [value |-> w.value, submitted |-> b.submitted]
    <3> HIDE DEF w, b
    <3> QED
      BY <1>1, <2>1, <2>3
  <2>5. NoValueFromTheFuture'
    <3> HIDE DEF w, b
    <3> QED
      BY <1>1, <2>2, <2>4 DEF NoValueFromTheFuture
  <2>6. pc' = [pc EXCEPT ![r] = "idle"] /\ task' = [task EXCEPT ![r] = NoTask]
    BY <2>1 DEF End, Proceed
  <2>7. \A d \in Credentials : NoTask.binding.cred /= d
    BY Blank, BindingsKnown
  <2>8. \A g \in References, d \in Credentials :
          broker'[g].cred = d => Known(d, broker'[g].credAuth, broker'[g].submitted)
    BY <2>1, BindingsKnown
  <2>9. broker' \in [References -> Binding] /\ spent' \subseteq References
    BY <1>1, <2>1
  <2> HIDE DEF w, b
  <2> QED
    BY <1>3, <2>1, <2>4, <2>5, <2>6, <2>7, <2>8, <2>9, Blank, RequestKept DEF Steps
<1> QED
  BY <1>6, <1>7, <1>8, <1>9, <1>10, <1>11, <1>12 DEF RequestStep

-----------------------------------------------------------------------------
(* What follows.                                                           *)

\* A service published once, whose credentials have a value or were deleted.
LEMMA InitOK == Init => IInv
<1> SUFFICES ASSUME Init PROVE IInv
  OBVIOUS
<1>1. PICK gone \in SUBSET Credentials :
        cred = [c \in Credentials |->
          IF c \in gone THEN [NewCredential EXCEPT !.status = "deleted"]
          ELSE [NewCredential EXCEPT !.status = "configured", !.value = 1,
                                     !.submitted = 1, !.auth = 1]]
  BY DEF Init
<1>2. /\ cred \in [Credentials -> CredentialRow]
      /\ \A c \in Credentials :
           \/ cred[c].value = 0 /\ cred[c].submitted = 0 /\ cred[c].auth = 0
           \/ cred[c].value = 1 /\ cred[c].submitted = 1 /\ cred[c].auth = 1
  BY <1>1 DEF NewCredential, CredentialRow, Statuses
<1>3. /\ activated = FALSE /\ globalEpoch = 0 /\ policy = 0 /\ events = <<>>
      /\ service = [lifecycle |-> "published", pub |-> 1, auth |-> 0, assigned |-> TRUE]
      /\ user = [active |-> TRUE, epoch |-> 0]
      /\ vault = [c \in Credentials |-> cred[c].value]
      /\ snapshot = NoSnapshot /\ poll = IdlePoll /\ waiting = {}
      /\ broker = [f \in References |-> NoBinding] /\ spent = {}
      /\ pc = [r \in Requests |-> "idle"] /\ task = [r \in Requests |-> NoTask]
      /\ got = [r \in Requests |-> [value |-> 0, submitted |-> 0]]
      /\ commits = 0 /\ faults = 0
  BY DEF Init
<1>4. vault \in [Credentials -> Nat]
  BY <1>2, <1>3
<1>5. TypeOK
  <2>1. /\ service \in [lifecycle : Lifecycles, pub : Nat, auth : Nat, assigned : BOOLEAN]
        /\ user \in [active : BOOLEAN, epoch : Nat] /\ events \in Seq(Event)
        /\ poll \in [step : {"idle", "read", "evict", "dispatch"}, batch : Seq(Event)]
    BY <1>3 DEF Lifecycles, IdlePoll
  <2>2. /\ pc \in [Requests -> Steps] /\ task \in [Requests -> Task]
        /\ broker \in [References -> Binding] /\ snapshot \in Snapshot
        /\ got \in [Requests -> [value : Nat, submitted : Nat]]
    BY <1>3, Blank DEF Steps
  <2> QED
    BY <1>2, <1>3, <1>4, <2>1, <2>2 DEF TypeOK
<1>6. QueueOK
  <2>1. poll.batch = <<>> /\ Len(poll.batch) = 0 /\ Len(events) = 0
    BY <1>3 DEF IdlePoll
  <2>2. BatchOK
    BY <2>1 DEF BatchOK
  <2>3. DispatchedIsServed
    BY <1>3 DEF DispatchedIsServed, Serving
  <2> QED
    BY <2>2, <2>3 DEF QueueOK
<1>7. GenerationsOK
  <2>1. \A c \in Credentials : \A g, n \in Nat : Known(c, g, n) =>
          (g = 0 /\ n = 0) \/ (g = cred[c].auth /\ n = cred[c].submitted)
    BY <1>3, Blank, RuntimeReferencesAssumption DEF Known
  <2>2. ASSUME NEW c \in Credentials, NEW g \in Nat, NEW n \in Nat, Known(c, g, n)
        PROVE  n = g /\ g <= cred[c].auth
    BY <1>2, <2>1, <2>2
  <2>3. ASSUME NEW c \in Credentials, NEW g \in Nat, NEW n \in Nat, NEW m \in Nat,
               Known(c, g, n), Known(c, g, m)
        PROVE  n = m
    BY <2>2, <2>3
  <2> QED
    BY <2>2, <2>3 DEF GenerationsOK
<1>8. ValuesOK /\ RequestsOK /\ NoValueFromTheFuture
  BY <1>2, <1>3, Blank DEF ValuesOK, RequestsOK, NoValueFromTheFuture
<1> QED
  BY <1>5, <1>6, <1>7, <1>8 DEF IInv, CopiesOK

\* Every step keeps the invariant.
LEMMA NextOK == IInv /\ [Next]_vars => IInv'
<1> SUFFICES ASSUME IInv, [Next]_vars PROVE IInv'
  OBVIOUS
<1>1. CASE Next
  BY <1>1, ServiceStepOK, CredentialStepOK, PollStepOK, RequestStepOK, FaultOK DEF Next
<1>2. CASE UNCHANGED vars
  <2>1. TypeOK' /\ BatchOK' /\ DispatchedIsServed'
    BY <1>2 DEF vars, IInv, QueueOK, TypeOK, BatchOK, DispatchedIsServed, Serving,
                Outstanding
  <2>2. CopiesOK'
    BY <1>2, <2>1, CopiesKept DEF vars
  <2> QED
    BY <2>1, <2>2 DEF IInv, QueueOK
<1> QED
  BY <1>1, <1>2

\* IInv is an inductive invariant.
THEOREM ReferencesInductive == Spec => []IInv
  BY InitOK, NextOK, PTL DEF Spec

\* Marking events dispatched never outruns the refresh of the snapshot: without an
\* outstanding event, the snapshot decides as the rows do (runtimeInvalidation.ts,
\* persistRuntimeSnapshot).
THEOREM DispatchedServed == Spec => []DispatchedIsServed
<1>1. IInv => DispatchedIsServed
  BY DEF IInv, QueueOK
<1> QED
  BY <1>1, ReferencesInductive, PTL

\* A reference that validates once the queue is drained is authorized now, and none
\* ever resolves to a value submitted after it was authorized (validateReferences,
\* runtimeVault.ts).
THEOREM OnlyCurrentReferences == Spec => []ReferencesCurrent
<1>1. IInv => ReferencesCurrent
  <2> SUFFICES ASSUME IInv PROVE ReferencesCurrent
    OBVIOUS
  <2>1. TypeOK /\ NoValueFromTheFuture /\ DispatchedIsServed
    BY DEF IInv, QueueOK, CopiesOK
  <2>2. ASSUME Serving, events = <<>>, NEW f \in References, Live(f),
               Validates(broker[f], snapshot, user.epoch, globalEpoch)
        PROVE  /\ broker[f].auth = service.auth
               /\ broker[f].credAuth = cred[broker[f].cred].auth
    <3>1. broker[f].cred \in Credentials
      BY <2>1, <2>2 DEF TypeOK, Binding, Live
    <3>2. \A s, d : ~Outstanding(s, d)
      BY <2>2 DEF Outstanding
    <3> QED
      BY <2>1, <2>2, <3>1, <3>2 DEF DispatchedIsServed, Validates
  <2> QED
    BY <2>1, <2>2 DEF ReferencesCurrent, DrainedReferencesCurrent
<1> QED
  BY <1>1, ReferencesInductive, PTL

-----------------------------------------------------------------------------
(* The access control.                                                     *)

AccessBounds ==
  /\ Profiles \subseteq Access!Rules /\ Choices \subseteq Access!Selectors
  /\ Slots \subseteq Nat /\ MaxPriority \in Nat

OnePolicy == \A p, q \in Access!ActivePolicies : policies[p].boundary = policies[q].boundary
    => p = q

\* The service is assigned to groups that there are.
SelectedActive == \A g \in grant.groups : team[g].life = "active"

\* The users not deleted.
Remaining == {u \in Users : account[u] # "deleted"}

\* Selectors that choose the same users among us, whatever becomes of groups.
Alike(us, a, b) ==
  a.all = b.all /\ a.groups = b.groups /\ \A u \in us : u \in a.users <=> u \in b.users

RuleAlike(us, r, o) ==
  /\ r.effect = o.effect /\ r.priority = o.priority /\ r.enabled = o.enabled
         /\ r.match = o.match
  /\ Alike(us, r.sel, o.sel)

RulesAlike(us, rs, os) ==
  /\ \A r \in rs : \E o \in os : RuleAlike(us, r, o)
  /\ \A o \in os : \E r \in rs : RuleAlike(us, r, o)

\* A boundary of the snapshot denies everything or is that of the rows.
BoundaryServed(b) ==
  \/ served.boundary[b].mode = "deny" /\ served.boundary[b].rules = {}
  \/ /\ served.boundary[b].mode = Access!policyBoundarySnapshot(b).mode
     /\ RulesAlike(Remaining, served.boundary[b].rules,
            Access!policyBoundarySnapshot(b).rules)

ServedAlike ==
  /\ Alike(Remaining, served.grant, grant)
  /\ \A c \in AssignedCredentials : served.cred[c].status = credential[c].status
         /\ Alike(Remaining, served.cred[c].sel, credential[c].sel)
  /\ \A b \in Access!Boundaries : BoundaryServed(b)

AccessInv == Access!TypeOK /\ OnePolicy /\ SelectedActive /\ (told = {} => ServedAlike)

\* What AffectedUsersNamed asks of a step.
NamesAffected ==
  \A u \in Users :
    account' = account /\ (u \in Access!effectiveUserIds) # (u \in Access!effectiveUserIds')
      => authgen' > authgen /\ Access!Event("assignment", authgen', u) \in told'

LEMMA Least ==
  ASSUME NEW T \in SUBSET Nat, T # {}
  PROVE  \E x \in T : \A y \in T : x <= y
<1>1. \E x \in T : \A y \in T : ~ (<<y, x>> \in OpToRel(<,Nat))
  BY NatLessThanWellFounded, WFMin
<1>2. OpToRel(<,Nat) = {w \in Nat \X Nat : w[1] < w[2]}
  BY DEF OpToRel
<1>3. PICK x \in T : \A y \in T : ~ (<<y, x>> \in {w \in Nat \X Nat : w[1] < w[2]})
  BY <1>1, <1>2
<1>4. ASSUME NEW y \in T PROVE x <= y
  <2>1. x \in Nat /\ y \in Nat /\ <<y, x>> \in Nat \X Nat
    OBVIOUS
  <2>2. ~(y < x)
    BY <1>3, <2>1
  <2> QED
    BY <2>1, <2>2
<1> QED
  BY <1>4

\* Among rules that match there are some of the greatest priority.
LEMMA SomeSelected ==
  ASSUME AccessBounds, NEW matches, matches # {},
         \A r \in matches : r.priority \in -MaxPriority .. MaxPriority
  PROVE  \E r \in matches : \A other \in matches : other.priority <= r.priority
<1>0. MaxPriority \in Nat
  BY DEF AccessBounds
<1> DEFINE down == {MaxPriority - r.priority : r \in matches}
<1>1. down \in SUBSET Nat /\ down # {}
  BY <1>0
<1>2. \E n \in down : \A m \in down : n <= m
  <2> HIDE DEF down
  <2> QED
    BY <1>1, Least
<1>3. PICK n \in down : \A m \in down : n <= m
  BY <1>2
<1>4. PICK r \in matches : n = MaxPriority - r.priority
  BY <1>3
<1>5. ASSUME NEW o \in matches PROVE o.priority <= r.priority
  <2>1. MaxPriority - o.priority \in down
    OBVIOUS
  <2>2. n <= MaxPriority - o.priority
    BY <1>3, <2>1
  <2> HIDE DEF down
  <2> QED
    BY <1>0, <1>4, <2>2
<1> QED
  BY <1>5

\* The one active policy of a boundary is what the evaluator sees.
LEMMA BoundaryOf ==
  ASSUME OnePolicy, NEW b, NEW p \in Access!ActivePolicies, policies[p].boundary = b
  PROVE  Access!policyBoundarySnapshot(b)
             = [mode |-> policies[p].mode, rules |-> Access!RulesOf(policies[p].rules)]
<1> DEFINE first == CHOOSE q \in Access!ActivePolicies : policies[q].boundary = b
<1>1. first \in Access!ActivePolicies /\ policies[first].boundary = b
  OBVIOUS
<1>2. first = p
  BY <1>1 DEF OnePolicy
<1>3. Access!policyBoundarySnapshot(b)
          = [mode |-> policies[first].mode, rules |-> Access!RulesOf(policies[first].rules)]
  BY DEF Access!policyBoundarySnapshot
<1> HIDE DEF first
<1> QED
  BY <1>2, <1>3

LEMMA NoBoundary ==
  ASSUME NEW b, \A p \in Access!ActivePolicies : policies[p].boundary # b
  PROVE  Access!policyBoundarySnapshot(b) = [mode |-> "deny", rules |-> {}]
BY DEF Access!policyBoundarySnapshot

LEMMA RulesTyped ==
  ASSUME NEW rules \in [RuleSlots -> Access!Rules \cup {Access!NoRule}]
  PROVE  Access!RulesOf(rules) \subseteq Access!Rules
BY DEF Access!RulesOf

\* The rules of a boundary are rules of a policy, or none.
LEMMA BoundaryTyped ==
  ASSUME Access!TypeOK, OnePolicy, NEW b
  PROVE  Access!policyBoundarySnapshot(b).rules \subseteq Access!Rules
<1>1. CASE \E p \in Access!ActivePolicies : policies[p].boundary = b
  <2>1. PICK p \in Access!ActivePolicies : policies[p].boundary = b
    BY <1>1
  <2>2. policies[p].rules \in [RuleSlots -> Access!Rules \cup {Access!NoRule}]
    BY DEF Access!TypeOK, Access!PolicyRows, Access!ActivePolicies
  <2> QED
    BY <2>1, <2>2, BoundaryOf, RulesTyped
<1>2. CASE ~ \E p \in Access!ActivePolicies : policies[p].boundary = b
  BY <1>2, NoBoundary
<1> QED
  BY <1>1, <1>2

LEMMA EvaluatedAsPromised ==
  ASSUME AccessBounds, Access!TypeOK, OnePolicy, NEW b, NEW u, NEW q
  PROVE  Access!evaluateBoundary(Access!policyBoundarySnapshot(b), u, q)
             <=> Access!BoundaryAllows(b, u, q)
<1> DEFINE boundary == Access!policyBoundarySnapshot(b)
           matches == {rule \in boundary.rules : Access!explainRule(rule, u, q)}
           selected == {rule \in matches :
                          \A other \in matches : other.priority <= rule.priority}
<1>1. \A r \in matches : r.priority \in -MaxPriority .. MaxPriority
          /\ r.effect \in {"allow", "deny"}
  BY BoundaryTyped DEF Access!Rules
<1>2. Access!evaluateBoundary(boundary, u, q) <=>
        IF matches = {} THEN boundary.mode = "allow"
        ELSE \A rule \in selected : rule.effect # "deny"
  BY DEF Access!evaluateBoundary
<1>3. Access!BoundaryAllows(b, u, q) <=>
        IF matches = {} THEN boundary.mode = "allow"
        ELSE \E rule \in matches :
               /\ rule.effect = "allow"
               /\ ~ \E other \in matches : other.effect = "deny"
                      /\ other.priority >= rule.priority
  BY DEF Access!BoundaryAllows
<1>4. matches # {} => \E r \in matches : \A other \in matches : other.priority <= r.priority
  <2> HIDE DEF matches
  <2> QED
    BY <1>1, SomeSelected
<1>5. \A r : r \in selected
          <=> r \in matches /\ \A other \in matches : other.priority <= r.priority
  OBVIOUS
<1> HIDE DEF boundary, matches, selected
<1>6. ASSUME matches # {}
      PROVE  (\A rule \in selected : rule.effect # "deny") <=>
             \E rule \in matches :
               /\ rule.effect = "allow"
               /\ ~ \E other \in matches : other.effect = "deny"
                      /\ other.priority >= rule.priority
  <2>1. ASSUME \A rule \in selected : rule.effect # "deny"
        PROVE  \E rule \in matches :
                 /\ rule.effect = "allow"
                 /\ ~ \E other \in matches : other.effect = "deny"
                        /\ other.priority >= rule.priority
    <3>1. PICK r \in matches : \A other \in matches : other.priority <= r.priority
      BY <1>4, <1>6
    <3>2. r \in selected /\ r.effect = "allow"
      BY <1>1, <1>5, <2>1, <3>1
    <3>3. ASSUME NEW other \in matches, other.effect = "deny", other.priority >= r.priority
          PROVE  FALSE
      <4>1. \A o \in matches : o.priority <= other.priority
        BY <1>1, <3>1, <3>3
      <4> QED
        BY <1>5, <2>1, <3>3, <4>1
    <3> QED
      BY <3>2, <3>3
  <2>2. ASSUME NEW r \in matches, r.effect = "allow",
               ~ \E other \in matches : other.effect = "deny" /\ other.priority >= r.priority,
               NEW s \in selected
        PROVE  s.effect # "deny"
    BY <1>1, <1>5, <2>2
  <2> QED
    BY <2>1, <2>2
<1> QED
  BY <1>2, <1>3, <1>6 DEF boundary

\* Rules that are alike decide alike for users that are not deleted.
LEMMA AlikeApplies ==
  ASSUME NEW us, NEW a, NEW b, Alike(us, a, b), NEW u \in us
  PROVE  Access!selectorApplies(a, u) <=> Access!selectorApplies(b, u)
BY DEF Alike, Access!selectorApplies

LEMMA EvaluatesAlike ==
  ASSUME NEW us, NEW x, NEW y, x.mode = y.mode, RulesAlike(us, x.rules, y.rules),
         NEW u \in us, NEW q
  PROVE  Access!evaluateBoundary(x, u, q) <=> Access!evaluateBoundary(y, u, q)
<1> DEFINE Matches(rs) == {rule \in rs : Access!explainRule(rule, u, q)}
           Selected(rs) == {rule \in Matches(rs) :
                              \A other \in Matches(rs) : other.priority <= rule.priority}
<1>1. \A r, o : RuleAlike(us, r, o) =>
        (Access!explainRule(r, u, q) <=> Access!explainRule(o, u, q))
            /\ r.priority = o.priority /\ r.effect = o.effect
  BY AlikeApplies DEF RuleAlike, Access!explainRule
<1>2. /\ \A r \in Matches(x.rules) : \E o \in Matches(y.rules) : r.priority = o.priority
             /\ r.effect = o.effect
      /\ \A o \in Matches(y.rules) : \E r \in Matches(x.rules) : r.priority = o.priority
             /\ r.effect = o.effect
  BY <1>1 DEF RulesAlike
<1>3. /\ Access!evaluateBoundary(x, u, q) <=>
           IF Matches(x.rules) = {} THEN x.mode = "allow"
           ELSE \A rule \in Selected(x.rules) : rule.effect # "deny"
      /\ Access!evaluateBoundary(y, u, q) <=>
           IF Matches(y.rules) = {} THEN y.mode = "allow"
           ELSE \A rule \in Selected(y.rules) : rule.effect # "deny"
  BY DEF Access!evaluateBoundary
<1> DEFINE mx == Matches(x.rules)
           my == Matches(y.rules)
<1>4. /\ \A r : r \in Selected(x.rules)
             <=> r \in mx /\ \A other \in mx : other.priority <= r.priority
      /\ \A r : r \in Selected(y.rules)
             <=> r \in my /\ \A other \in my : other.priority <= r.priority
  OBVIOUS
<1> DEFINE sx == Selected(x.rules)
           sy == Selected(y.rules)
<1>5. /\ \A r \in mx : \E o \in my : r.priority = o.priority /\ r.effect = o.effect
      /\ \A o \in my : \E r \in mx : r.priority = o.priority /\ r.effect = o.effect
  BY <1>2
<1>6. /\ \A r : r \in sx <=> r \in mx /\ \A other \in mx : other.priority <= r.priority
      /\ \A r : r \in sy <=> r \in my /\ \A other \in my : other.priority <= r.priority
  BY <1>4
<1>7. /\ Access!evaluateBoundary(x, u, q)
             <=> IF mx = {} THEN x.mode = "allow" ELSE \A rule \in sx : rule.effect # "deny"
      /\ Access!evaluateBoundary(y, u, q)
             <=> IF my = {} THEN y.mode = "allow" ELSE \A rule \in sy : rule.effect # "deny"
  BY <1>3
<1> HIDE DEF mx, my, sx, sy
<1>8. /\ \A r \in sx : \E o \in sy : r.effect = o.effect
      /\ \A o \in sy : \E r \in sx : r.effect = o.effect
  <2>1. ASSUME NEW r \in sx PROVE \E o \in sy : r.effect = o.effect
    <3>1. PICK o \in my : r.priority = o.priority /\ r.effect = o.effect
      BY <1>5, <1>6
    <3>2. o \in sy
      <4>1. ASSUME NEW other \in my PROVE other.priority <= o.priority
        <5>1. PICK n \in mx : n.priority = other.priority
          BY <1>5
        <5> QED
          BY <1>6, <3>1, <5>1
      <4> QED
        BY <1>6, <4>1
    <3> QED
      BY <3>1, <3>2
  <2>2. ASSUME NEW o \in sy PROVE \E r \in sx : r.effect = o.effect
    <3>1. PICK r \in mx : r.priority = o.priority /\ r.effect = o.effect
      BY <1>5, <1>6
    <3>2. r \in sx
      <4>1. ASSUME NEW other \in mx PROVE other.priority <= r.priority
        <5>1. PICK n \in my : n.priority = other.priority
          BY <1>5
        <5> QED
          BY <1>6, <3>1, <5>1
      <4> QED
        BY <1>6, <4>1
    <3> QED
      BY <3>1, <3>2
  <2> QED
    BY <2>1, <2>2
<1>9. mx = {} <=> my = {}
  BY <1>5
<1> QED
  BY <1>7, <1>8, <1>9

Nothing(boundary) == boundary.mode = "deny" /\ boundary.rules = {}

\* A boundary had no policy, or is as it was for the users left.
BoundaryKept(b) ==
  \/ Nothing(Access!policyBoundarySnapshot(b))
  \/ /\ Access!policyBoundarySnapshot(b)'.mode = Access!policyBoundarySnapshot(b).mode
     /\ RulesAlike(Remaining', Access!policyBoundarySnapshot(b).rules,
            Access!policyBoundarySnapshot(b)'.rules)

RowsKept ==
  /\ served' = served
  /\ Remaining' \subseteq Remaining
  /\ Alike(Remaining', grant, grant')
  /\ \A c \in AssignedCredentials : credential'[c].status = credential[c].status
         /\ Alike(Remaining', credential[c].sel, credential'[c].sel)
  /\ \A b \in Access!Boundaries : BoundaryKept(b)

LEMMA AlikeTransitive ==
  ASSUME NEW vs, NEW us \in SUBSET vs, NEW a, NEW b, NEW c, Alike(vs, a, b), Alike(us, b, c)
  PROVE  Alike(us, a, c)
BY DEF Alike

LEMMA RuleAlikeTransitive ==
  ASSUME NEW vs, NEW us \in SUBSET vs, NEW r, NEW o, NEW n, RuleAlike(vs, r, o),
         RuleAlike(us, o, n)
  PROVE  RuleAlike(us, r, n)
<1>1. Alike(us, r.sel, n.sel)
  BY AlikeTransitive DEF RuleAlike
<1> QED
  BY <1>1 DEF RuleAlike

LEMMA RulesAlikeTransitive ==
  ASSUME NEW vs, NEW us \in SUBSET vs, NEW rs, NEW os, NEW ns,
         RulesAlike(vs, rs, os), RulesAlike(us, os, ns)
  PROVE  RulesAlike(us, rs, ns)
<1>1. ASSUME NEW r \in rs PROVE \E n \in ns : RuleAlike(us, r, n)
  <2>1. PICK o \in os : RuleAlike(vs, r, o)
    BY DEF RulesAlike
  <2>2. PICK n \in ns : RuleAlike(us, o, n)
    BY DEF RulesAlike
  <2> QED
    BY <2>1, <2>2, RuleAlikeTransitive
<1>2. ASSUME NEW n \in ns PROVE \E r \in rs : RuleAlike(us, r, n)
  <2>1. PICK o \in os : RuleAlike(us, o, n)
    BY DEF RulesAlike
  <2>2. PICK r \in rs : RuleAlike(vs, r, o)
    BY DEF RulesAlike
  <2> QED
    BY <2>1, <2>2, RuleAlikeTransitive
<1> QED
  BY <1>1, <1>2 DEF RulesAlike

LEMMA AlikeReflexive ==
  ASSUME NEW us
  PROVE  (\A a : Alike(us, a, a)) /\ (\A rs : RulesAlike(us, rs, rs))
BY DEF Alike, RuleAlike, RulesAlike

LEMMA ServedKept ==
  ASSUME ServedAlike, RowsKept
  PROVE  ServedAlike'
<1>0. served' = served /\ Remaining' \in SUBSET Remaining
  BY DEF RowsKept
<1>1. Alike(Remaining, served.grant, grant)'
  BY <1>0, AlikeTransitive DEF ServedAlike, RowsKept
<1>2. ASSUME NEW c \in AssignedCredentials
      PROVE  (served.cred[c].status = credential[c].status
                 /\ Alike(Remaining, served.cred[c].sel, credential[c].sel))'
  BY <1>0, AlikeTransitive DEF ServedAlike, RowsKept
<1>3. ASSUME NEW b \in Access!Boundaries PROVE BoundaryServed(b)'
  <2>2. CASE Nothing(served.boundary[b])
    BY <1>0, <2>2 DEF BoundaryServed, Nothing
  <2>3. CASE /\ served.boundary[b].mode = Access!policyBoundarySnapshot(b).mode
             /\ RulesAlike(Remaining, served.boundary[b].rules,
                    Access!policyBoundarySnapshot(b).rules)
    <3>1. CASE Nothing(Access!policyBoundarySnapshot(b))
      <4>1. served.boundary[b].rules = {}
        BY <2>3, <3>1 DEF Nothing, RulesAlike
      <4> QED
        BY <1>0, <2>3, <3>1, <4>1 DEF BoundaryServed, Nothing
    <3>2. CASE /\ Access!policyBoundarySnapshot(b)'.mode
                      = Access!policyBoundarySnapshot(b).mode
               /\ RulesAlike(Remaining', Access!policyBoundarySnapshot(b).rules,
                      Access!policyBoundarySnapshot(b)'.rules)
      <4>1. RulesAlike(Remaining', served.boundary[b].rules,
                Access!policyBoundarySnapshot(b)'.rules)
        BY <1>0, <2>3, <3>2, RulesAlikeTransitive
      <4> QED
        BY <1>0, <2>3, <3>2, <4>1 DEF BoundaryServed
    <3> QED
      BY <3>1, <3>2 DEF RowsKept, BoundaryKept
  <2> QED
    BY <2>2, <2>3 DEF ServedAlike, BoundaryServed, Nothing
<1> QED
  BY <1>1, <1>2, <1>3 DEF ServedAlike

LEMMA WithoutTyped ==
  ASSUME NEW sel \in Access!Selectors, NEW gs, NEW us
  PROVE  /\ Access!Without(sel, gs, us) \in Access!Selectors
         /\ Access!Without(sel, gs, us).all = sel.all
         /\ Access!Without(sel, gs, us).groups = sel.groups \ gs
         /\ Access!Without(sel, gs, us).users = sel.users \ us
BY DEF Access!Without, Access!Selectors

LEMMA SelectorsTyped ==
  /\ Access!Unassigned \in Access!Selectors /\ Access!Everyone \in Access!Selectors
  /\ \A gs, us : Access!Without(Access!Unassigned, gs, us) = Access!Unassigned
  /\ Access!NoRule.sel = Access!Unassigned /\ Access!NoRule.effect = "none"
<1>1. Access!Unassigned \in Access!Selectors /\ Access!Everyone \in Access!Selectors
  BY DEF Access!Unassigned, Access!Everyone, Access!Selector, Access!Selectors
<1>2. ASSUME NEW gs, NEW us
                 PROVE Access!Without(Access!Unassigned, gs, us) = Access!Unassigned
  <2>1. Access!Unassigned \in Access!Selectors /\ Access!Unassigned.groups = {}
            /\ Access!Unassigned.users = {}
    BY DEF Access!Unassigned, Access!Selector, Access!Selectors
  <2>2. /\ Access!Without(Access!Unassigned, gs, us) \in Access!Selectors
        /\ Access!Without(Access!Unassigned, gs, us).all = Access!Unassigned.all
        /\ Access!Without(Access!Unassigned, gs, us).groups = {} \ gs
        /\ Access!Without(Access!Unassigned, gs, us).users = {} \ us
    BY <2>1, WithoutTyped
  <2>3. \A a, b \in Access!Selectors : a.all = b.all /\ a.groups = b.groups
            /\ a.users = b.users => a = b
    BY DEF Access!Selectors
  <2>4. Access!Without(Access!Unassigned, gs, us).groups = {}
            /\ Access!Without(Access!Unassigned, gs, us).users = {}
    BY <2>2
  <2> QED
    BY <2>1, <2>2, <2>3, <2>4
<1> QED
  BY <1>1, <1>2 DEF Access!NoRule

Stripped(rule, gs, us) == [rule EXCEPT !.sel = Access!Without(@, gs, us)]

LEMMA StrippedTyped ==
  ASSUME NEW rule \in Access!Rules \cup {Access!NoRule}, NEW gs, NEW us
  PROVE  /\ Stripped(rule, gs, us) \in Access!Rules \cup {Access!NoRule}
         /\ Stripped(rule, gs, us) = Access!NoRule <=> rule = Access!NoRule
<1>1. CASE rule = Access!NoRule
  <2>1. Access!NoRule.sel = Access!Unassigned
            /\ Access!Without(Access!Unassigned, gs, us) = Access!Unassigned
    BY SelectorsTyped
  <2>2. [Access!NoRule EXCEPT !.sel = Access!Unassigned] = Access!NoRule
    <3>1. /\ Access!NoRule \in
                 [effect : {"none"}, priority : {0}, enabled : {FALSE}, match : {{}},
                  sel : {Access!Unassigned}]
          /\ Access!NoRule.sel = Access!Unassigned
      BY DEF Access!NoRule
    <3> QED
      BY <3>1
  <2>3. Stripped(Access!NoRule, gs, us)
            = [Access!NoRule EXCEPT !.sel = Access!Without(Access!NoRule.sel, gs, us)]
    BY DEF Stripped
  <2> QED
    BY <1>1, <2>1, <2>2, <2>3
<1>2. CASE rule \in Access!Rules
  <2>1. Access!Without(rule.sel, gs, us) \in Access!Selectors
    BY <1>2, WithoutTyped DEF Access!Rules
  <2>2. Stripped(rule, gs, us) \in Access!Rules
    BY <1>2, <2>1 DEF Stripped, Access!Rules
  <2>3. \A r \in Access!Rules : r # Access!NoRule
    BY SelectorsTyped DEF Access!Rules
  <2> QED
    BY <1>2, <2>2, <2>3
<1> QED
  BY <1>1, <1>2

\* What a cascade leaves of the rows.
LEMMA CascadeRows ==
  ASSUME Access!TypeOK, NEW gs, NEW us, Access!Cascade(gs, us)
  PROVE  /\ grant' = Access!Without(grant, gs, us) /\ grant' \in Access!Selectors
         /\ credential'
                \in [AssignedCredentials ->
                      [status : {"usable", "archived", "gone"}, sel : Access!Selectors]]
         /\ \A c \in AssignedCredentials : credential'[c].status = credential[c].status
                             /\ credential'[c].sel = Access!Without(credential[c].sel, gs, us)
         /\ policies' \in [Slots -> Access!PolicyRows]
         /\ \A p \in Slots :
              /\ policies'[p].life = policies[p].life
                     /\ policies'[p].boundary = policies[p].boundary
              /\ policies'[p].mode = policies[p].mode
              /\ \A i \in RuleSlots : policies'[p].rules[i]
                     = Stripped(policies[p].rules[i], gs, us)
<1>1. grant' = Access!Without(grant, gs, us) /\ grant' \in Access!Selectors
  BY WithoutTyped DEF Access!TypeOK, Access!Cascade
<1>2. ASSUME NEW c \in AssignedCredentials
      PROVE  /\ [credential[c] EXCEPT !.sel = Access!Without(@, gs, us)]
                  \in [status : {"usable", "archived", "gone"}, sel : Access!Selectors]
             /\ [credential[c] EXCEPT !.sel = Access!Without(@, gs, us)].status
                    = credential[c].status
             /\ [credential[c] EXCEPT !.sel = Access!Without(@, gs, us)].sel
                    = Access!Without(credential[c].sel, gs, us)
  <2>1. credential[c] \in [status : {"usable", "archived", "gone"}, sel : Access!Selectors]
    BY DEF Access!TypeOK
  <2>2. Access!Without(credential[c].sel, gs, us) \in Access!Selectors
    BY <2>1, WithoutTyped
  <2> QED
    BY <2>1, <2>2
<1>3. credential'
          = [c \in AssignedCredentials
          |-> [credential[c] EXCEPT !.sel = Access!Without(@, gs, us)]]
  BY DEF Access!Cascade
<1>4. policies' = [p \in Slots |-> [policies[p] EXCEPT !.rules =
         [i \in RuleSlots |-> Stripped(policies[p].rules[i], gs, us)]]]
  BY DEF Access!Cascade, Stripped
<1>5. ASSUME NEW p \in Slots
      PROVE  [i \in RuleSlots |-> Stripped(policies[p].rules[i], gs, us)]
                 \in [RuleSlots -> Access!Rules \cup {Access!NoRule}]
  <2>1. \A i \in RuleSlots : policies[p].rules[i] \in Access!Rules \cup {Access!NoRule}
    BY DEF Access!TypeOK, Access!PolicyRows
  <2>2. \A i \in RuleSlots : Stripped(policies[p].rules[i], gs, us)
            \in Access!Rules \cup {Access!NoRule}
    BY <2>1, StrippedTyped
  <2> QED
    BY <2>2
<1>6. ASSUME NEW p \in Slots, NEW rs \in [RuleSlots -> Access!Rules \cup {Access!NoRule}]
      PROVE  /\ [policies[p] EXCEPT !.rules = rs] \in Access!PolicyRows
             /\ [policies[p] EXCEPT !.rules = rs].rules = rs
             /\ [policies[p] EXCEPT !.rules = rs].life = policies[p].life
             /\ [policies[p] EXCEPT !.rules = rs].mode = policies[p].mode
             /\ [policies[p] EXCEPT !.rules = rs].boundary = policies[p].boundary
  <2>1. policies[p] \in Access!PolicyRows
    BY DEF Access!TypeOK
  <2> QED
    BY <2>1 DEF Access!PolicyRows
<1>7. ASSUME NEW p \in Slots
      PROVE  /\ policies'[p] \in Access!PolicyRows
             /\ policies'[p].life = policies[p].life
                    /\ policies'[p].boundary = policies[p].boundary
             /\ policies'[p].mode = policies[p].mode
             /\ policies'[p].rules
                    = [i \in RuleSlots |-> Stripped(policies[p].rules[i], gs, us)]
  <2> DEFINE rs == [i \in RuleSlots |-> Stripped(policies[p].rules[i], gs, us)]
  <2>1. policies'[p] = [policies[p] EXCEPT !.rules = rs]
    BY <1>4
  <2>2. rs \in [RuleSlots -> Access!Rules \cup {Access!NoRule}]
    BY <1>5
  <2> HIDE DEF rs
  <2>3. /\ policies'[p] \in Access!PolicyRows
        /\ policies'[p].life = policies[p].life
               /\ policies'[p].boundary = policies[p].boundary
        /\ policies'[p].mode = policies[p].mode
        /\ policies'[p].rules = rs
    BY <1>6, <2>1, <2>2
  <2> QED
    BY <2>3 DEF rs
<1>8. policies' \in [Slots -> Access!PolicyRows]
  BY <1>4, <1>7
<1>9. \A p \in Slots : \A i \in RuleSlots : policies'[p].rules[i]
          = Stripped(policies[p].rules[i], gs, us)
  BY <1>7
<1>10. credential'
           \in [AssignedCredentials ->
                 [status : {"usable", "archived", "gone"}, sel : Access!Selectors]]
  BY <1>2, <1>3
<1>11. \A c \in AssignedCredentials : credential'[c].status = credential[c].status
           /\ credential'[c].sel = Access!Without(credential[c].sel, gs, us)
  BY <1>2, <1>3
<1> QED
  BY <1>1, <1>7, <1>8, <1>9, <1>10, <1>11

\* Policies that keep their lives and boundaries stay one for each boundary.
LEMMA OnePolicyKept ==
  ASSUME OnePolicy,
         \A p \in Slots : /\ policies'[p].life = "active" => policies[p].life = "active"
                          /\ policies'[p].life = "active"
                                 => policies'[p].boundary = policies[p].boundary
  PROVE  OnePolicy'
BY DEF OnePolicy, Access!ActivePolicies

\* So they do when a boundary without one gets one.
LEMMA OnePolicyAdded ==
  ASSUME OnePolicy, NEW s, NEW b, Access!Unoccupied(b),
         \A p \in Slots \ {s} : policies'[p] = policies[p],
         s \in Slots => policies'[s].boundary = b
  PROVE  OnePolicy'
BY DEF OnePolicy, Access!ActivePolicies, Access!Unoccupied

\* A step with an event leaves nothing to show of the snapshot.
LEMMA Announced ==
  ASSUME NEW e, e \in told'
  PROVE  told' = {} => ServedAlike'
OBVIOUS

LEMMA Announces ==
  /\ \A affected : Access!Invalidate(affected) => told' # {}
  /\ \A affected : Access!InvalidateCredential(affected) => told' # {}
  /\ \A gen : Access!InvalidatePolicy(gen) => told' # {}
BY DEF Access!Invalidate, Access!InvalidateCredential, Access!InvalidatePolicy

\* Boundaries whose policies are as they were.
LEMMA SnapshotUnmoved ==
  ASSUME policies' = policies, NEW b
  PROVE  Access!policyBoundarySnapshot(b)' = Access!policyBoundarySnapshot(b)
BY DEF Access!policyBoundarySnapshot, Access!ActivePolicies, Access!RulesOf

LEMMA BoundaryOfNext ==
  ASSUME OnePolicy', NEW b, NEW p \in Access!ActivePolicies', policies'[p].boundary = b
  PROVE  Access!policyBoundarySnapshot(b)'
             = [mode |-> policies'[p].mode, rules |-> Access!RulesOf(policies'[p].rules)]
<1> DEFINE first == CHOOSE q \in Access!ActivePolicies' : policies'[q].boundary = b
<1>1. first \in Access!ActivePolicies' /\ policies'[first].boundary = b
  OBVIOUS
<1>2. first = p
  BY <1>1 DEF OnePolicy
<1>3. Access!policyBoundarySnapshot(b)'
          = [mode |-> policies'[first].mode, rules |-> Access!RulesOf(policies'[first].rules)]
  BY DEF Access!policyBoundarySnapshot, Access!RulesOf
<1> HIDE DEF first
<1> QED
  BY <1>2, <1>3

\* The active policy of a boundary and what its rules became.
LEMMA BoundaryFollowed ==
  ASSUME OnePolicy, OnePolicy', NEW b,
         \A p \in Access!ActivePolicies : policies[p].boundary = b =>
           /\ p \in Access!ActivePolicies' /\ policies'[p].boundary = b
                  /\ policies'[p].mode = policies[p].mode
           /\ RulesAlike(Remaining', Access!RulesOf(policies[p].rules),
                  Access!RulesOf(policies'[p].rules))
  PROVE  BoundaryKept(b)
<1>1. CASE \E p \in Access!ActivePolicies : policies[p].boundary = b
  <2>1. PICK p \in Access!ActivePolicies : policies[p].boundary = b
    BY <1>1
  <2>2. Access!policyBoundarySnapshot(b)
            = [mode |-> policies[p].mode, rules |-> Access!RulesOf(policies[p].rules)]
    BY <2>1, BoundaryOf
  <2>3. Access!policyBoundarySnapshot(b)'
            = [mode |-> policies'[p].mode, rules |-> Access!RulesOf(policies'[p].rules)]
    BY <2>1, BoundaryOfNext
  <2> QED
    BY <2>1, <2>2, <2>3 DEF BoundaryKept
<1>2. CASE ~ \E p \in Access!ActivePolicies : policies[p].boundary = b
  <2>1. Access!policyBoundarySnapshot(b) = [mode |-> "deny", rules |-> {}]
    BY <1>2, NoBoundary
  <2> QED
    BY <2>1 DEF BoundaryKept, Nothing
<1> QED
  BY <1>1, <1>2

\* A step that leaves selectors and policies alone, and only takes users away.
LEMMA RowsUnmoved ==
  ASSUME served' = served, Remaining' \subseteq Remaining, grant' = grant,
         credential' = credential, policies' = policies
  PROVE  RowsKept
<1>1. Alike(Remaining', grant, grant')
          /\ \A c \in AssignedCredentials :
                Alike(Remaining', credential[c].sel, credential'[c].sel)
  BY AlikeReflexive
<1>2. \A b \in Access!Boundaries : BoundaryKept(b)
  BY SnapshotUnmoved, AlikeReflexive DEF BoundaryKept
<1> QED
  BY <1>1, <1>2 DEF RowsKept

LEMMA WithoutAlike ==
  ASSUME NEW us, NEW gone, us \cap gone = {}, NEW sel \in Access!Selectors
  PROVE  Alike(us, sel, Access!Without(sel, {}, gone))
<1> DEFINE none == {}
<1>1. sel.groups \ none = sel.groups
  OBVIOUS
<1> HIDE DEF none
<1>2. /\ Access!Without(sel, none, gone).all = sel.all
      /\ Access!Without(sel, none, gone).groups = sel.groups \ none
      /\ Access!Without(sel, none, gone).users = sel.users \ gone
  BY WithoutTyped
<1>3. Alike(us, sel, Access!Without(sel, none, gone))
  BY <1>1, <1>2 DEF Alike
<1> QED
  BY <1>3 DEF none

\* Rules without a user who is not left are as good as before.
LEMMA StrippedAlike ==
  ASSUME NEW us, NEW gone, us \cap gone = {},
         NEW old \in [RuleSlots -> Access!Rules \cup {Access!NoRule}],
         NEW new \in [RuleSlots -> Access!Rules \cup {Access!NoRule}],
         \A i \in RuleSlots : new[i] = Stripped(old[i], {}, gone)
  PROVE  RulesAlike(us, Access!RulesOf(old), Access!RulesOf(new))
<1>1. ASSUME NEW i \in RuleSlots, old[i] # Access!NoRule
      PROVE  new[i] # Access!NoRule /\ RuleAlike(us, old[i], new[i])
  <2>1. old[i] \in Access!Rules /\ old[i].sel \in Access!Selectors
    BY <1>1 DEF Access!Rules
  <2>2. new[i] # Access!NoRule
    BY <1>1, StrippedTyped
  <2>4. Alike(us, old[i].sel, Access!Without(old[i].sel, {}, gone))
    BY <2>1, WithoutAlike
  <2>5. /\ new[i].sel = Access!Without(old[i].sel, {}, gone) /\ new[i].effect = old[i].effect
        /\ new[i].priority = old[i].priority /\ new[i].enabled = old[i].enabled
               /\ new[i].match = old[i].match
    BY <2>1 DEF Stripped, Access!Rules
  <2> QED
    BY <2>2, <2>4, <2>5 DEF RuleAlike
<1>2. \A i \in RuleSlots : new[i] # Access!NoRule => old[i] # Access!NoRule
  BY StrippedTyped
<1> QED
  BY <1>1, <1>2 DEF RulesAlike, Access!RulesOf

LEMMA NoPolicyTyped ==
  Access!NoPolicy \in Access!PolicyRows /\ Access!NoPolicy.life = "none"
      /\ Access!NoRules \in [RuleSlots -> Access!Rules \cup {Access!NoRule}]
BY DEF Access!NoPolicy, Access!NoRules, Access!PolicyRows, Access!Boundaries

LEMMA CreateGroupKeeps ==
  ASSUME AccessBounds, AccessInv, NEW g \in Groups, Access!createGroup(g)
  PROVE  AccessInv'
<1>1. Access!TypeOK'
  BY DEF AccessInv, Access!TypeOK, Access!createGroup
<1>2. OnePolicy'
  BY OnePolicyKept DEF AccessInv, Access!createGroup
<1>3. SelectedActive'
  BY DEF AccessInv, Access!TypeOK, SelectedActive, Access!createGroup
<1>4. told' = {} => ServedAlike'
  <2>1. served' = served /\ Remaining' \subseteq Remaining /\ grant' = grant
            /\ credential' = credential /\ policies' = policies
        /\ told' = told
    BY DEF Access!createGroup, Remaining
  <2> QED
    BY <2>1, RowsUnmoved, ServedKept DEF AccessInv
<1> QED
  BY <1>1, <1>2, <1>3, <1>4 DEF AccessInv

LEMMA ReplaceMembersKeeps ==
  ASSUME AccessBounds, AccessInv, NEW g \in Groups, NEW members \in SUBSET Users,
         Access!replaceMembers(g, members)
  PROVE  AccessInv'
<1>1. Access!TypeOK'
  BY DEF AccessInv, Access!TypeOK, Access!replaceMembers, Access!Invalidate
<1>2. OnePolicy'
  BY OnePolicyKept DEF AccessInv, Access!replaceMembers
<1>3. SelectedActive'
  BY DEF AccessInv, Access!TypeOK, SelectedActive, Access!replaceMembers
<1>4. told' = {} => ServedAlike'
  <2>1. CASE Access!groupIsSelected(g) /\ members # team[g].members
    BY <2>1, Announces DEF Access!replaceMembers
  <2>2. CASE ~(Access!groupIsSelected(g) /\ members # team[g].members)
    <3>1. served' = served /\ Remaining' \subseteq Remaining /\ grant' = grant
              /\ credential' = credential
          /\ policies' = policies /\ told' = told
      BY <2>2 DEF Access!replaceMembers, Remaining
    <3> QED
      BY <3>1, RowsUnmoved, ServedKept DEF AccessInv
  <2> QED
    BY <2>1, <2>2
<1> QED
  BY <1>1, <1>2, <1>3, <1>4 DEF AccessInv

LEMMA ArchiveGroupKeeps ==
  ASSUME AccessBounds, AccessInv, NEW g \in Groups, Access!archiveGroup(g)
  PROVE  AccessInv'
<1>1. Access!TypeOK'
  <2>1. grant' \in Access!Selectors
    BY WithoutTyped DEF AccessInv, Access!TypeOK, Access!archiveGroup
  <2> QED
    BY <2>1 DEF AccessInv, Access!TypeOK, Access!archiveGroup, Access!Invalidate
<1>2. OnePolicy'
  BY OnePolicyKept DEF AccessInv, Access!archiveGroup
<1>3. SelectedActive'
  <2>1. grant'.groups = grant.groups \ {g}
    BY WithoutTyped DEF AccessInv, Access!TypeOK, Access!archiveGroup
  <2> QED
    BY <2>1 DEF AccessInv, Access!TypeOK, SelectedActive, Access!archiveGroup,
         Access!Selectors
<1>4. told' = {} => ServedAlike'
  BY Announces DEF Access!archiveGroup
<1> QED
  BY <1>1, <1>2, <1>3, <1>4 DEF AccessInv

LEMMA DeleteGroupKeeps ==
  ASSUME AccessBounds, AccessInv, NEW g \in Groups, Access!deleteGroup(g)
  PROVE  AccessInv'
<1>1. Access!TypeOK'
  <2>1. /\ grant' \in Access!Selectors /\ policies' \in [Slots -> Access!PolicyRows]
        /\ credential'
               \in [AssignedCredentials ->
                     [status : {"usable", "archived", "gone"}, sel : Access!Selectors]]
    BY CascadeRows DEF AccessInv, Access!deleteGroup
  <2>2. /\ account' = account /\ authgen' = authgen + 1
        /\ team' = [team EXCEPT ![g] = [life |-> "none", members |-> {}]]
    BY DEF Access!deleteGroup, Access!Invalidate
  <2> QED
    BY <2>1, <2>2 DEF AccessInv, Access!TypeOK
<1>2. OnePolicy'
  <2>1. \A p \in Slots : policies'[p].life = policies[p].life
            /\ policies'[p].boundary = policies[p].boundary
    BY CascadeRows DEF AccessInv, Access!deleteGroup
  <2> QED
    BY <2>1, OnePolicyKept DEF AccessInv
<1>3. SelectedActive'
  <2>1. grant'.groups = grant.groups \ {g}
    <3>1. grant' = Access!Without(grant, {g}, {}) /\ grant \in Access!Selectors
      BY DEF AccessInv, Access!TypeOK, Access!deleteGroup, Access!Cascade
    <3> QED
      BY <3>1, WithoutTyped
  <2>2. team' = [team EXCEPT ![g] = [life |-> "none", members |-> {}]]
            /\ grant \in Access!Selectors
    BY DEF AccessInv, Access!TypeOK, Access!deleteGroup
  <2> QED
    BY <2>1, <2>2 DEF AccessInv, Access!TypeOK, SelectedActive, Access!Selectors
<1>4. told' = {} => ServedAlike'
  BY Announces DEF Access!deleteGroup
<1> QED
  BY <1>1, <1>2, <1>3, <1>4 DEF AccessInv

LEMMA ReplaceAssignmentsKeeps ==
  ASSUME AccessBounds, AccessInv, NEW sel \in Choices, Access!replaceAssignments(sel)
  PROVE  AccessInv'
<1>1. Access!TypeOK'
  BY DEF AccessBounds, AccessInv, Access!TypeOK, Access!replaceAssignments, Access!Invalidate
<1>2. OnePolicy'
  BY OnePolicyKept DEF AccessInv, Access!replaceAssignments
<1>3. SelectedActive'
  BY DEF SelectedActive, Access!replaceAssignments, Access!validateSelectorTargets,
       Access!ActiveGroups
<1>4. told' = {} => ServedAlike'
  BY Announces DEF Access!replaceAssignments
<1> QED
  BY <1>1, <1>2, <1>3, <1>4 DEF AccessInv

LEMMA CredentialAssignmentsKeep ==
  ASSUME AccessBounds, AccessInv, NEW c \in AssignedCredentials, NEW sel \in Choices,
         Access!replaceCredentialAssignments(c, sel)
  PROVE  AccessInv'
<1>1. Access!TypeOK'
  BY DEF AccessBounds, AccessInv, Access!TypeOK, Access!replaceCredentialAssignments
<1>2. OnePolicy'
  BY OnePolicyKept DEF AccessInv, Access!replaceCredentialAssignments
<1>3. SelectedActive'
  BY DEF AccessInv, SelectedActive, Access!replaceCredentialAssignments
<1>4. told' = {} => ServedAlike'
  BY Announces DEF Access!replaceCredentialAssignments
<1> QED
  BY <1>1, <1>2, <1>3, <1>4 DEF AccessInv

LEMMA ArchiveCredentialKeeps ==
  ASSUME AccessBounds, AccessInv, NEW c \in AssignedCredentials, Access!archiveCredential(c)
  PROVE  AccessInv'
<1>1. Access!TypeOK'
  BY SelectorsTyped DEF AccessInv, Access!TypeOK, Access!archiveCredential
<1>2. OnePolicy'
  BY OnePolicyKept DEF AccessInv, Access!archiveCredential
<1>3. SelectedActive'
  BY DEF AccessInv, SelectedActive, Access!archiveCredential
<1>4. told' = {} => ServedAlike'
  BY Announces DEF Access!archiveCredential
<1> QED
  BY <1>1, <1>2, <1>3, <1>4 DEF AccessInv

LEMMA DeleteCredentialKeeps ==
  ASSUME AccessBounds, AccessInv, NEW c \in AssignedCredentials, Access!deleteCredential(c)
  PROVE  AccessInv'
<1>1. Access!TypeOK'
  <2>1. policies'
            = [p \in Slots |-> IF policies[p].boundary
            = c THEN Access!NoPolicy ELSE policies[p]]
    BY DEF Access!deleteCredential
  <2>2. policies' \in [Slots -> Access!PolicyRows]
    BY <2>1, NoPolicyTyped DEF AccessInv, Access!TypeOK
  <2> QED
    BY <2>2 DEF AccessInv, Access!TypeOK, Access!deleteCredential
<1>2. OnePolicy'
  <2>1. Access!NoPolicy.life = "none"
    BY NoPolicyTyped
  <2> QED
    BY <2>1, OnePolicyKept DEF AccessInv, Access!deleteCredential
<1>3. SelectedActive'
  BY DEF AccessInv, SelectedActive, Access!deleteCredential
<1>4. told' = {} => ServedAlike'
  BY Announces DEF Access!deleteCredential
<1> QED
  BY <1>1, <1>2, <1>3, <1>4 DEF AccessInv

LEMMA SuspendUserKeeps ==
  ASSUME AccessBounds, AccessInv, NEW u \in Users, Access!suspendUser(u)
  PROVE  AccessInv'
<1>1. Access!TypeOK'
  BY DEF AccessInv, Access!TypeOK, Access!suspendUser
<1>2. OnePolicy'
  BY OnePolicyKept DEF AccessInv, Access!suspendUser
<1>3. SelectedActive'
  BY DEF AccessInv, SelectedActive, Access!suspendUser
<1>4. told' = {} => ServedAlike'
  <2>1. served' = served /\ Remaining' \subseteq Remaining /\ grant' = grant
            /\ credential' = credential /\ policies' = policies
        /\ told' = told
    BY DEF Access!suspendUser, AccessInv, Access!TypeOK, Remaining
  <2> QED
    BY <2>1, RowsUnmoved, ServedKept DEF AccessInv
<1> QED
  BY <1>1, <1>2, <1>3, <1>4 DEF AccessInv

LEMMA RestoreUserKeeps ==
  ASSUME AccessBounds, AccessInv, NEW u \in Users, Access!restoreUser(u)
  PROVE  AccessInv'
<1>1. Access!TypeOK'
  BY DEF AccessInv, Access!TypeOK, Access!restoreUser
<1>2. OnePolicy'
  BY OnePolicyKept DEF AccessInv, Access!restoreUser
<1>3. SelectedActive'
  BY DEF AccessInv, SelectedActive, Access!restoreUser
<1>4. told' = {} => ServedAlike'
  <2>1. served' = served /\ Remaining' \subseteq Remaining /\ grant' = grant
            /\ credential' = credential /\ policies' = policies
        /\ told' = told
    BY DEF Access!restoreUser, AccessInv, Access!TypeOK, Remaining
  <2> QED
    BY <2>1, RowsUnmoved, ServedKept DEF AccessInv
<1> QED
  BY <1>1, <1>2, <1>3, <1>4 DEF AccessInv

LEMMA DeleteUserKeeps ==
  ASSUME AccessBounds, AccessInv, NEW u \in Users, Access!deleteUser(u)
  PROVE  AccessInv'
<1>1. Access!TypeOK'
  <2>1. /\ grant' \in Access!Selectors /\ policies' \in [Slots -> Access!PolicyRows]
        /\ credential'
               \in [AssignedCredentials ->
                     [status : {"usable", "archived", "gone"}, sel : Access!Selectors]]
    BY CascadeRows DEF AccessInv, Access!deleteUser
  <2>2. /\ account' = [account EXCEPT ![u] = "deleted"] /\ authgen' = authgen
        /\ team' = [g \in Groups |-> [team[g] EXCEPT !.members = @ \ {u}]]
    BY DEF Access!deleteUser
  <2>3. team' \in [Groups -> [life : {"none", "active", "archived"}, members : SUBSET Users]]
    BY <2>2 DEF AccessInv, Access!TypeOK
  <2> QED
    BY <2>1, <2>2, <2>3 DEF AccessInv, Access!TypeOK
<1>2. OnePolicy'
  <2>1. \A p \in Slots : policies'[p].life = policies[p].life
            /\ policies'[p].boundary = policies[p].boundary
    BY CascadeRows DEF AccessInv, Access!deleteUser
  <2> QED
    BY <2>1, OnePolicyKept DEF AccessInv
<1>3. SelectedActive'
  <2>1. grant' = Access!Without(grant, {}, {u}) /\ grant \in Access!Selectors
    BY DEF AccessInv, Access!TypeOK, Access!deleteUser, Access!Cascade
  <2>2. grant'.groups \subseteq grant.groups
    BY <2>1, WithoutTyped
  <2>3. \A g \in Groups : team'[g].life = team[g].life
    BY DEF AccessInv, Access!TypeOK, Access!deleteUser
  <2>4. grant.groups \subseteq Groups
    BY <2>1 DEF Access!Selectors
  <2> QED
    BY <2>2, <2>3, <2>4 DEF AccessInv, SelectedActive
<1>4. told' = {} => ServedAlike'
  <2>0. Access!TypeOK /\ OnePolicy /\ Access!Cascade({}, {u})
    BY DEF AccessInv, Access!deleteUser
  <2>1. served' = served /\ told' = told
    BY DEF Access!deleteUser
  <2>2. Remaining' \subseteq Remaining /\ Remaining' \cap {u} = {}
    BY <2>0 DEF Access!deleteUser, Remaining, Access!TypeOK
  <2>3. ASSUME NEW sel \in Access!Selectors
                   PROVE Alike(Remaining', sel, Access!Without(sel, {}, {u}))
    <3> DEFINE left == Remaining'
    <3>1. left \cap {u} = {}
      BY <2>2
    <3> HIDE DEF left
    <3>2. Alike(left, sel, Access!Without(sel, {}, {u}))
      BY <3>1, WithoutAlike
    <3> QED
      BY <3>2 DEF left
  <2>4. Alike(Remaining', grant, grant')
    <3>1. grant \in Access!Selectors /\ grant' = Access!Without(grant, {}, {u})
      BY <2>0 DEF Access!TypeOK, Access!Cascade
    <3> QED
      BY <2>3, <3>1
  <2>5. ASSUME NEW c \in AssignedCredentials
        PROVE  credential'[c].status = credential[c].status
                   /\ Alike(Remaining', credential[c].sel, credential'[c].sel)
    <3>1. credential[c].sel \in Access!Selectors
      BY <2>0 DEF Access!TypeOK
    <3>2. credential'[c].status = credential[c].status
              /\ credential'[c].sel = Access!Without(credential[c].sel, {}, {u})
      BY <2>0, CascadeRows
    <3> QED
      BY <2>3, <3>1, <3>2
  <2>6. ASSUME NEW p \in Access!ActivePolicies
        PROVE  /\ p \in Access!ActivePolicies' /\ policies'[p].boundary = policies[p].boundary
               /\ policies'[p].mode = policies[p].mode
               /\ RulesAlike(Remaining', Access!RulesOf(policies[p].rules),
                      Access!RulesOf(policies'[p].rules))
    <3>1. /\ policies'[p].life = policies[p].life
                 /\ policies'[p].boundary = policies[p].boundary
          /\ policies'[p].mode = policies[p].mode /\ p \in Slots
          /\ \A i \in RuleSlots : policies'[p].rules[i]
                 = Stripped(policies[p].rules[i], {}, {u})
          /\ policies' \in [Slots -> Access!PolicyRows]
      BY <2>0, CascadeRows DEF Access!ActivePolicies
    <3>2. /\ policies[p].rules \in [RuleSlots -> Access!Rules \cup {Access!NoRule}]
          /\ policies'[p].rules \in [RuleSlots -> Access!Rules \cup {Access!NoRule}]
      BY <2>0, <3>1 DEF Access!TypeOK, Access!PolicyRows
    <3>3. RulesAlike(Remaining', Access!RulesOf(policies[p].rules),
              Access!RulesOf(policies'[p].rules))
      <4> DEFINE left == Remaining'
      <4>1. left \cap {u} = {}
        BY <2>2
      <4> HIDE DEF left
      <4> QED
        BY <3>1, <3>2, <4>1, StrippedAlike DEF left
    <3> QED
      BY <3>1, <3>3 DEF Access!ActivePolicies
  <2>7. \A b \in Access!Boundaries : BoundaryKept(b)
    BY <1>2, <2>0, <2>6, BoundaryFollowed
  <2>8. RowsKept
    BY <2>1, <2>2, <2>4, <2>5, <2>7 DEF RowsKept
  <2> QED
    BY <2>1, <2>8, ServedKept DEF AccessInv
<1> QED
  BY <1>1, <1>2, <1>3, <1>4 DEF AccessInv

\* A changed policy keeps its place and is announced.
LEMMA ChangedKeeps ==
  ASSUME AccessInv, NEW p \in Slots, NEW row \in Access!PolicyRows,
         policies[p].life = "active",
         row.boundary = policies[p].boundary, Access!Changed(p, row)
  PROVE  AccessInv'
<1>0. policies[p].gen \in Nat
  BY DEF AccessInv, Access!TypeOK, Access!PolicyRows
<1>1. Access!TypeOK'
  <2>1. [row EXCEPT !.gen = policies[p].gen + 1] \in Access!PolicyRows
    BY <1>0 DEF Access!PolicyRows
  <2> QED
    BY <2>1 DEF AccessInv, Access!TypeOK, Access!Changed
<1>2. OnePolicy'
  <2>1. policies' = [policies EXCEPT ![p] = [row EXCEPT !.gen = policies[p].gen + 1]]
    BY DEF Access!Changed
  <2>2. \A q \in Slots : policies'[q].boundary = policies[q].boundary
            /\ (q # p => policies'[q] = policies[q])
    BY <2>1 DEF AccessInv, Access!TypeOK, Access!PolicyRows
  <2> QED
    BY <2>2, OnePolicyKept DEF AccessInv
<1>3. SelectedActive'
  BY DEF AccessInv, SelectedActive, Access!Changed
<1>4. told' = {} => ServedAlike'
  BY Announces DEF Access!Changed
<1> QED
  BY <1>1, <1>2, <1>3, <1>4 DEF AccessInv

LEMMA PolicyRowOf ==
  ASSUME AccessInv, NEW p \in Slots
  PROVE  policies[p] \in Access!PolicyRows
             /\ policies[p].rules \in [RuleSlots -> Access!Rules \cup {Access!NoRule}]
BY DEF AccessInv, Access!TypeOK, Access!PolicyRows

\* A policy whose rules alone are replaced.
LEMMA RulesReplaced ==
  ASSUME AccessInv, NEW p \in Slots,
         NEW rs \in [RuleSlots -> Access!Rules \cup {Access!NoRule}]
  PROVE  /\ [policies[p] EXCEPT !.rules = rs] \in Access!PolicyRows
         /\ [policies[p] EXCEPT !.rules = rs].boundary = policies[p].boundary
<1>1. policies[p] \in Access!PolicyRows
  BY PolicyRowOf
<1> QED
  BY <1>1 DEF Access!PolicyRows

LEMMA UpdatePolicyKeeps ==
  ASSUME AccessBounds, AccessInv, NEW p \in Slots, NEW m \in {"allow", "deny"},
         Access!updatePolicy(p, m)
  PROVE  AccessInv'
<1>1. policies[p] \in Access!PolicyRows
  BY PolicyRowOf
<1> DEFINE row == [policies[p] EXCEPT !.mode = m]
<1>2. row \in Access!PolicyRows /\ row.boundary = policies[p].boundary
  BY <1>1 DEF Access!PolicyRows
<1>3. Access!Changed(p, row) /\ policies[p].life = "active"
  BY DEF Access!updatePolicy
<1> HIDE DEF row
<1> QED
  BY <1>2, <1>3, ChangedKeeps

LEMMA CreateRuleKeeps ==
  ASSUME AccessBounds, AccessInv, NEW p \in Slots, NEW rule \in Profiles,
         Access!createRule(p, rule)
  PROVE  AccessInv'
<1> DEFINE old == policies[p].rules
           free == {i \in RuleSlots : policies[p].rules[i] = Access!NoRule}
           rs == [old EXCEPT ![Access!FirstOf(free)] = rule]
<1>1. old \in [RuleSlots -> Access!Rules \cup {Access!NoRule}]
  BY PolicyRowOf
<1>2. rs \in [RuleSlots -> Access!Rules \cup {Access!NoRule}]
  <2> DEFINE k == Access!FirstOf(free)
  <2> HIDE DEF k
  <2>1. [old EXCEPT ![k] = rule] \in [RuleSlots -> Access!Rules \cup {Access!NoRule}]
    BY <1>1 DEF AccessBounds
  <2> QED
    BY <2>1 DEF k
<1>3. Access!Changed(p, [policies[p] EXCEPT !.rules = rs]) /\ policies[p].life = "active"
  <2>1. policies[p] \in Access!PolicyRows
    BY PolicyRowOf
  <2>2. [policies[p] EXCEPT !.rules[Access!FirstOf(free)] = rule]
          = [policies[p] EXCEPT !.rules = rs]
    BY <2>1 DEF Access!PolicyRows
  <2> QED
    BY <2>2 DEF Access!createRule
<1> HIDE DEF rs
<1> QED
  BY <1>2, <1>3, RulesReplaced, ChangedKeeps

LEMMA UpdateRuleKeeps ==
  ASSUME AccessBounds, AccessInv, NEW p \in Slots, NEW i \in RuleSlots, NEW rule \in Profiles,
         Access!updateRule(p, i, rule)
  PROVE  AccessInv'
<1> DEFINE old == policies[p].rules
           rs == [old EXCEPT ![i] = rule]
<1>1. old \in [RuleSlots -> Access!Rules \cup {Access!NoRule}]
  BY PolicyRowOf
<1>2. rs \in [RuleSlots -> Access!Rules \cup {Access!NoRule}]
  BY <1>1 DEF AccessBounds
<1>3. Access!Changed(p, [policies[p] EXCEPT !.rules = rs]) /\ policies[p].life = "active"
  <2>1. policies[p] \in Access!PolicyRows
    BY PolicyRowOf
  <2>2. [policies[p] EXCEPT !.rules[i] = rule] = [policies[p] EXCEPT !.rules = rs]
    BY <2>1 DEF Access!PolicyRows
  <2> QED
    BY <2>2 DEF Access!updateRule
<1> HIDE DEF rs
<1> QED
  BY <1>2, <1>3, RulesReplaced, ChangedKeeps

LEMMA RuleAssignmentsKeep ==
  ASSUME AccessBounds, AccessInv, NEW p \in Slots, NEW i \in RuleSlots, NEW sel \in Choices,
         Access!replaceRuleAssignments(p, i, sel)
  PROVE  AccessInv'
<1> DEFINE old == policies[p].rules
           rs == [old EXCEPT ![i] = [old[i] EXCEPT !.sel = sel]]
<1>1. old \in [RuleSlots -> Access!Rules \cup {Access!NoRule}]
  BY PolicyRowOf
<1>2. rs \in [RuleSlots -> Access!Rules \cup {Access!NoRule}]
  <2>1. old[i] \in Access!Rules /\ sel \in Access!Selectors
    BY <1>1 DEF AccessBounds, Access!replaceRuleAssignments
  <2>2. [old[i] EXCEPT !.sel = sel] \in Access!Rules
    BY <2>1 DEF Access!Rules
  <2> HIDE DEF old
  <2> QED
    BY <1>1, <2>2
<1>3. Access!Changed(p, [policies[p] EXCEPT !.rules = rs]) /\ policies[p].life = "active"
  <2>1. policies[p] \in Access!PolicyRows
    BY PolicyRowOf
  <2>2. [policies[p] EXCEPT !.rules[i].sel = sel] = [policies[p] EXCEPT !.rules = rs]
    BY <2>1 DEF Access!PolicyRows
  <2> QED
    BY <2>2 DEF Access!replaceRuleAssignments
<1> HIDE DEF rs
<1> QED
  BY <1>2, <1>3, RulesReplaced, ChangedKeeps

LEMMA DeleteRuleKeeps ==
  ASSUME AccessBounds, AccessInv, NEW p \in Slots, NEW i \in RuleSlots,
         Access!deleteRule(p, i)
  PROVE  AccessInv'
<1> DEFINE old == policies[p].rules
           rs == [old EXCEPT ![i] = Access!NoRule]
<1>1. old \in [RuleSlots -> Access!Rules \cup {Access!NoRule}]
  BY PolicyRowOf
<1>2. rs \in [RuleSlots -> Access!Rules \cup {Access!NoRule}]
  BY <1>1
<1>3. Access!Changed(p, [policies[p] EXCEPT !.rules = rs]) /\ policies[p].life = "active"
  <2>1. policies[p] \in Access!PolicyRows
    BY PolicyRowOf
  <2>2. [policies[p] EXCEPT !.rules[i] = Access!NoRule] = [policies[p] EXCEPT !.rules = rs]
    BY <2>1 DEF Access!PolicyRows
  <2> QED
    BY <2>2 DEF Access!deleteRule
<1> HIDE DEF rs
<1> QED
  BY <1>2, <1>3, RulesReplaced, ChangedKeeps

LEMMA ArchivePolicyKeeps ==
  ASSUME AccessBounds, AccessInv, NEW p \in Slots, Access!archivePolicy(p)
  PROVE  AccessInv'
<1> DEFINE rs == [i \in RuleSlots |-> [policies[p].rules[i] EXCEPT !.enabled = FALSE]]
           row == [policies[p] EXCEPT !.life = "archived", !.rules = rs]
<1>1. policies[p] \in Access!PolicyRows
  BY PolicyRowOf
<1>2. rs \in [RuleSlots -> Access!Rules \cup {Access!NoRule}]
  <2>1. ASSUME NEW i \in RuleSlots
        PROVE  [policies[p].rules[i] EXCEPT !.enabled = FALSE]
                   \in Access!Rules \cup {Access!NoRule}
    <3>1. CASE policies[p].rules[i] \in Access!Rules
      <4>1. [policies[p].rules[i] EXCEPT !.enabled = FALSE] \in Access!Rules
        BY <3>1 DEF Access!Rules
      <4> QED
        BY <4>1
    <3>2. CASE policies[p].rules[i] = Access!NoRule
      <4>1. /\ Access!NoRule \in
                   [effect : {"none"}, priority : {0}, enabled : {FALSE}, match : {{}},
                    sel : {Access!Unassigned}]
            /\ Access!NoRule.enabled = FALSE
        BY DEF Access!NoRule
      <4>2. [Access!NoRule EXCEPT !.enabled = FALSE] = Access!NoRule
        BY <4>1
      <4> QED
        BY <3>2, <4>2
    <3> QED
      BY <3>1, <3>2, PolicyRowOf
  <2> QED
    BY <2>1
<1>3. row \in Access!PolicyRows /\ row.boundary = policies[p].boundary
  <2> HIDE DEF rs
  <2> QED
    BY <1>1, <1>2 DEF Access!PolicyRows
<1>4. Access!Changed(p, row) /\ policies[p].life = "active"
  BY DEF Access!archivePolicy
<1> HIDE DEF row
<1> QED
  BY <1>3, <1>4, ChangedKeeps

LEMMA DeleteArchivedKeeps ==
  ASSUME AccessBounds, AccessInv, NEW p \in Slots, Access!deleteArchived(p)
  PROVE  AccessInv'
<1>0. policies' = [policies EXCEPT ![p] = Access!NoPolicy] /\ policies[p].life = "archived"
  BY DEF Access!deleteArchived
<1>1. Access!TypeOK'
  BY <1>0, NoPolicyTyped DEF AccessInv, Access!TypeOK, Access!deleteArchived
<1>2. OnePolicy'
  BY <1>0, NoPolicyTyped, OnePolicyKept DEF AccessInv, Access!TypeOK
<1>3. SelectedActive'
  BY DEF AccessInv, SelectedActive, Access!deleteArchived
<1>4. told' = {} => ServedAlike'
  <2>1. /\ served' = served /\ told' = told /\ grant' = grant /\ credential' = credential
        /\ Remaining' \subseteq Remaining
    BY DEF Access!deleteArchived, Remaining
  <2>2. ASSUME NEW q \in Access!ActivePolicies
        PROVE  /\ q \in Access!ActivePolicies' /\ policies'[q].boundary = policies[q].boundary
               /\ policies'[q].mode = policies[q].mode
               /\ RulesAlike(Remaining', Access!RulesOf(policies[q].rules),
                      Access!RulesOf(policies'[q].rules))
    <3>1. q \in Slots /\ q # p /\ policies'[q] = policies[q]
      BY <1>0 DEF AccessInv, Access!TypeOK, Access!ActivePolicies
    <3> QED
      BY <3>1, AlikeReflexive DEF Access!ActivePolicies
  <2>3. \A b \in Access!Boundaries : BoundaryKept(b)
    BY <1>2, <2>2, BoundaryFollowed DEF AccessInv
  <2>4. RowsKept
    BY <2>1, <2>3, AlikeReflexive DEF RowsKept
  <2> QED
    BY <2>1, <2>4, ServedKept DEF AccessInv
<1> QED
  BY <1>1, <1>2, <1>3, <1>4 DEF AccessInv

\* The free slot that a new policy takes.
LEMMA FreeSlot ==
  ASSUME AccessBounds, Access!FreeSlots # {}
  PROVE  Access!FirstOf(Access!FreeSlots) \in Access!FreeSlots
<1>1. Access!FreeSlots \in SUBSET Nat
  BY DEF AccessBounds, Access!FreeSlots
<1>2. \E x \in Access!FreeSlots : \A y \in Access!FreeSlots : x <= y
  BY <1>1, Least
<1> QED
  BY <1>2 DEF Access!FirstOf

LEMMA CreatePolicyKeeps ==
  ASSUME AccessBounds, AccessInv, NEW b \in Access!Boundaries, NEW m \in {"allow", "deny"},
         Access!createPolicy(b, m)
  PROVE  AccessInv'
<1> DEFINE s == Access!FirstOf(Access!FreeSlots)
           row == [Access!NoPolicy EXCEPT !.life = "active", !.boundary = b, !.mode = m]
<1>0. policies' = [policies EXCEPT ![s] = row] /\ Access!Unoccupied(b)
          /\ s \in Access!FreeSlots
  BY FreeSlot DEF Access!createPolicy, Access!Insertable
<1>a. row \in Access!PolicyRows /\ row.boundary = b
  BY NoPolicyTyped DEF Access!PolicyRows
<1>b. s \in Slots /\ policies[s].life = "none"
  BY <1>0 DEF Access!FreeSlots
<1> HIDE DEF s, row
<1>1. Access!TypeOK'
  BY <1>0, <1>a, <1>b DEF AccessInv, Access!TypeOK, Access!createPolicy
<1>2. OnePolicy'
  <2>1. policies'[s].boundary = b /\ \A p \in Slots \ {s} : policies'[p] = policies[p]
    BY <1>0, <1>a, <1>b DEF AccessInv, Access!TypeOK
  <2> QED
    BY <1>0, <2>1, OnePolicyAdded DEF AccessInv
<1>3. SelectedActive'
  BY DEF AccessInv, SelectedActive, Access!createPolicy
<1>4. told' = {} => ServedAlike'
  <2>1. /\ served' = served /\ told' = told /\ grant' = grant /\ credential' = credential
        /\ Remaining' \subseteq Remaining
    BY DEF Access!createPolicy, Remaining
  <2>2. ASSUME NEW q \in Access!ActivePolicies
        PROVE  /\ q \in Access!ActivePolicies' /\ policies'[q].boundary = policies[q].boundary
               /\ policies'[q].mode = policies[q].mode
               /\ RulesAlike(Remaining', Access!RulesOf(policies[q].rules),
                      Access!RulesOf(policies'[q].rules))
    <3>1. q \in Slots /\ q # s /\ policies'[q] = policies[q]
      BY <1>0, <1>b DEF AccessInv, Access!TypeOK, Access!ActivePolicies
    <3> QED
      BY <3>1, AlikeReflexive DEF Access!ActivePolicies
  <2>3. \A c \in Access!Boundaries : BoundaryKept(c)
    BY <1>2, <2>2, BoundaryFollowed DEF AccessInv
  <2>4. RowsKept
    BY <2>1, <2>3, AlikeReflexive DEF RowsKept
  <2> QED
    BY <2>1, <2>4, ServedKept DEF AccessInv
<1> QED
  BY <1>1, <1>2, <1>3, <1>4 DEF AccessInv

\* Copied rules are rules.
LEMMA CopiedTyped ==
  ASSUME NEW old \in [RuleSlots -> Access!Rules \cup {Access!NoRule}],
         NEW preserve \in BOOLEAN
  PROVE  Access!Copied(old, preserve) \in [RuleSlots -> Access!Rules \cup {Access!NoRule}]
<1>1. ASSUME NEW i \in RuleSlots, ~(preserve \/ old[i] = Access!NoRule)
      PROVE  [old[i] EXCEPT !.enabled = FALSE, !.sel = Access!Unassigned] \in Access!Rules
  <2>1. old[i] \in Access!Rules
    BY <1>1
  <2> QED
    BY <2>1, SelectorsTyped DEF Access!Rules
<1> QED
  BY <1>1 DEF Access!Copied

LEMMA ImportPolicyKeeps ==
  ASSUME AccessBounds, AccessInv, NEW p \in Slots, NEW b \in Access!Boundaries,
         NEW preserve \in BOOLEAN,
         Access!importPolicy(p, b, preserve)
  PROVE  AccessInv'
<1> DEFINE s == Access!FirstOf(Access!FreeSlots)
           rs == Access!Copied(policies[p].rules, preserve)
           row == [life |-> "active", boundary |-> b, mode |-> policies[p].mode, gen |-> 1,
               rules |-> rs]
<1>0. policies' = [policies EXCEPT ![s] = row] /\ Access!Unoccupied(b)
  BY DEF Access!importPolicy, Access!Insertable
<1>a. row \in Access!PolicyRows /\ row.boundary = b
  <2>1. policies[p] \in Access!PolicyRows
            /\ policies[p].rules \in [RuleSlots -> Access!Rules \cup {Access!NoRule}]
    BY PolicyRowOf
  <2>2. rs \in [RuleSlots -> Access!Rules \cup {Access!NoRule}]
    BY <2>1, CopiedTyped
  <2> HIDE DEF rs
  <2> QED
    BY <2>1, <2>2 DEF Access!PolicyRows
<1> HIDE DEF s, row
<1>1. Access!TypeOK'
  BY <1>0, <1>a DEF AccessInv, Access!TypeOK, Access!importPolicy
<1>2. OnePolicy'
  <2>1. (s \in Slots => policies'[s].boundary = b)
            /\ \A q \in Slots \ {s} : policies'[q] = policies[q]
    BY <1>0, <1>a DEF AccessInv, Access!TypeOK
  <2> QED
    BY <1>0, <2>1, OnePolicyAdded DEF AccessInv
<1>3. SelectedActive'
  BY DEF AccessInv, SelectedActive, Access!importPolicy
<1>4. told' = {} => ServedAlike'
  BY Announces DEF Access!importPolicy
<1> QED
  BY <1>1, <1>2, <1>3, <1>4 DEF AccessInv

LEMMA BulkCopyKeeps ==
  ASSUME AccessBounds, AccessInv, NEW p \in Slots, NEW bs \in SUBSET Access!Boundaries,
         Access!bulkCopy(p, bs)
  PROVE  AccessInv'
<1>0. PICK place \in [bs -> Access!FreeSlots] :
        /\ \A b, c \in bs : b # c => place[b] # place[c]
        /\ policies' = [s \in Slots |->
             IF \E b \in bs : place[b] = s
             THEN [life |-> "active", boundary |-> CHOOSE b \in bs : place[b] = s,
                   mode |-> policies[p].mode, gen |-> 1, rules |-> policies[p].rules]
             ELSE policies[s]]
  BY DEF Access!bulkCopy
<1> DEFINE row(b) == [life |-> "active", boundary |-> b, mode |-> policies[p].mode, gen |-> 1,
                      rules |-> policies[p].rules]
<1>a. ASSUME NEW s \in Slots, NEW b \in bs, place[b] = s PROVE policies'[s] = row(b)
  <2> DEFINE c == CHOOSE d \in bs : place[d] = s
  <2>1. c \in bs /\ place[c] = s
    BY <1>a
  <2>2. c = b
    BY <1>0, <1>a, <2>1
  <2>3. policies'[s] = row(c)
    BY <1>0, <1>a
  <2> HIDE DEF c
  <2> QED
    BY <2>2, <2>3
<1>b. \A s \in Slots : (~ \E b \in bs : place[b] = s) => policies'[s] = policies[s]
  BY <1>0
<1>c. ASSUME NEW b \in bs PROVE row(b) \in Access!PolicyRows /\ row(b).boundary = b
  <2>1. policies[p] \in Access!PolicyRows
    BY PolicyRowOf
  <2> QED
    BY <2>1 DEF Access!PolicyRows
<1>d. \A b \in bs : Access!Unoccupied(b)
  BY DEF Access!bulkCopy
<1>1. Access!TypeOK'
  <2>1. \A s \in Slots : policies'[s] \in Access!PolicyRows
    BY <1>a, <1>b, <1>c, PolicyRowOf
  <2>2. policies' = [s \in Slots |-> policies'[s]]
    BY <1>0
  <2>3. policies' \in [Slots -> Access!PolicyRows]
    BY <2>1, <2>2
  <2> QED
    BY <2>3 DEF AccessInv, Access!TypeOK, Access!bulkCopy
<1>2. OnePolicy'
  <2> HIDE DEF row
  <2>1. ASSUME NEW s \in Access!ActivePolicies', NEW t \in Access!ActivePolicies',
                   policies'[s].boundary = policies'[t].boundary
        PROVE  s = t
    <3>0. s \in Slots /\ t \in Slots /\ policies'[s].life = "active"
              /\ policies'[t].life = "active"
      BY DEF Access!ActivePolicies
    <3>1. CASE (\E b \in bs : place[b] = s) /\ (\E b \in bs : place[b] = t)
      <4>1. PICK b \in bs, c \in bs : place[b] = s /\ place[c] = t
        BY <3>1
      <4>2. policies'[s].boundary = b /\ policies'[t].boundary = c
        BY <1>a, <1>c, <3>0, <4>1
      <4> QED
        BY <2>1, <4>1, <4>2
    <3>2. CASE (\E b \in bs : place[b] = s) /\ ~(\E b \in bs : place[b] = t)
      <4>1. PICK b \in bs : place[b] = s
        BY <3>2
      <4>2. policies'[s].boundary = b /\ policies'[t] = policies[t]
        BY <1>a, <1>b, <1>c, <3>0, <3>2, <4>1
      <4> QED
        BY <1>d, <2>1, <3>0, <4>2 DEF Access!Unoccupied, Access!ActivePolicies
    <3>3. CASE ~(\E b \in bs : place[b] = s) /\ (\E b \in bs : place[b] = t)
      <4>1. PICK b \in bs : place[b] = t
        BY <3>3
      <4>2. policies'[t].boundary = b /\ policies'[s] = policies[s]
        BY <1>a, <1>b, <1>c, <3>0, <3>3, <4>1
      <4> QED
        BY <1>d, <2>1, <3>0, <4>2 DEF Access!Unoccupied, Access!ActivePolicies
    <3>4. CASE ~(\E b \in bs : place[b] = s) /\ ~(\E b \in bs : place[b] = t)
      BY <1>b, <2>1, <3>0, <3>4 DEF AccessInv, OnePolicy, Access!ActivePolicies
    <3> QED
      BY <3>1, <3>2, <3>3, <3>4
  <2> QED
    BY <2>1 DEF OnePolicy
<1>3. SelectedActive'
  BY DEF AccessInv, SelectedActive, Access!bulkCopy
<1>4. told' = {} => ServedAlike'
  BY Announces DEF Access!bulkCopy
<1> QED
  BY <1>1, <1>2, <1>3, <1>4 DEF AccessInv

\* A projection is as good as the rows.
LEMMA ProjectionKeeps ==
  ASSUME AccessInv, served' = Access!canonicalRuntimeSnapshot,
         UNCHANGED <<account, team, grant, credential, policies, authgen>>
  PROVE  AccessInv'
<1>1. Access!TypeOK'
  BY DEF AccessInv, Access!TypeOK
<1>2. OnePolicy'
  BY OnePolicyKept DEF AccessInv
<1>3. SelectedActive'
  BY DEF AccessInv, SelectedActive
<1>4. ServedAlike'
  <2>1. Alike(Remaining, served.grant, grant)'
    BY AlikeReflexive DEF Access!canonicalRuntimeSnapshot
  <2>2. \A c \in AssignedCredentials : /\ served'.cred[c].status = credential'[c].status
                                       /\ Alike(Remaining', served'.cred[c].sel,
                                              credential'[c].sel)
    BY AlikeReflexive DEF Access!canonicalRuntimeSnapshot
  <2>3. ASSUME NEW b \in Access!Boundaries PROVE BoundaryServed(b)'
    <3>1. served'.boundary[b] = Access!policyBoundarySnapshot(b)'
      BY SnapshotUnmoved DEF Access!canonicalRuntimeSnapshot
    <3>2. RulesAlike(Remaining', served'.boundary[b].rules,
              Access!policyBoundarySnapshot(b)'.rules)
      BY <3>1, AlikeReflexive
    <3> QED
      BY <3>1, <3>2 DEF BoundaryServed
  <2> QED
    BY <2>1, <2>2, <2>3 DEF ServedAlike
<1> QED
  BY <1>1, <1>2, <1>3, <1>4 DEF AccessInv

LEMMA AccessInit == ASSUME AccessBounds, Access!Init PROVE AccessInv
<1>1. account = [u \in Users |-> "active"] /\ authgen = 0
          /\ served = Access!canonicalRuntimeSnapshot
  BY DEF Access!Init
<1>2. PICK g \in Groups :
        /\ team = [h \in Groups |-> [life |-> IF h = g THEN "active" ELSE "none",
                                     members |-> IF h = g THEN Users ELSE {}]]
        /\ grant \in {Access!Everyone, Access!Selector(FALSE, {g}, {})}
  BY DEF Access!Init
<1>3. credential
          = [c \in AssignedCredentials |-> [status |-> "usable", sel |-> Access!Everyone]]
  BY DEF Access!Init
<1>4. grant \in Access!Selectors /\ grant.groups \subseteq {g}
  <2>1. Access!Everyone \in Access!Selectors /\ Access!Everyone.groups = {}
    BY DEF Access!Everyone, Access!Selector, Access!Selectors
  <2>2. Access!Selector(FALSE, {g}, {}) \in Access!Selectors
            /\ Access!Selector(FALSE, {g}, {}).groups = {g}
    BY DEF Access!Selector, Access!Selectors
  <2> QED
    BY <1>2, <2>1, <2>2
<1>5. policies \in [Slots -> Access!PolicyRows]
        /\ \A p \in Slots : p # 1 => policies[p] = Access!NoPolicy
  <2>1. CASE policies = [p \in Slots |-> Access!NoPolicy]
    BY <2>1, NoPolicyTyped
  <2>2. ASSUME NEW rule \in Profiles,
               policies = [p \in Slots |-> IF p # 1 THEN Access!NoPolicy ELSE
                           [Access!NoPolicy EXCEPT !.life = "active", !.gen = 1,
                               !.rules[1] = rule]]
        PROVE  policies \in [Slots -> Access!PolicyRows]
                 /\ \A p \in Slots : p # 1 => policies[p] = Access!NoPolicy
    <3> DEFINE rs == [Access!NoPolicy.rules EXCEPT ![1] = rule]
    <3>1. Access!NoPolicy.rules \in [RuleSlots -> Access!Rules \cup {Access!NoRule}]
      BY NoPolicyTyped DEF Access!PolicyRows
    <3>2. rs \in [RuleSlots -> Access!Rules \cup {Access!NoRule}]
      BY <3>1 DEF AccessBounds
    <3> HIDE DEF rs
    <3>3. [Access!NoPolicy EXCEPT !.life = "active", !.gen = 1, !.rules = rs]
              \in Access!PolicyRows
      BY <3>2, NoPolicyTyped DEF Access!PolicyRows
    <3>4. [Access!NoPolicy EXCEPT !.life = "active", !.gen = 1, !.rules[1] = rule]
              \in Access!PolicyRows
      BY <3>3 DEF rs
    <3> QED
      BY <2>2, <3>4, NoPolicyTyped
  <2> QED
    BY <2>1, <2>2 DEF Access!Init
<1>6. Access!TypeOK
  <2>1. team \in [Groups -> [life : {"none", "active", "archived"}, members : SUBSET Users]]
    BY <1>2
  <2> QED
    BY <1>1, <1>3, <1>4, <1>5, <2>1, SelectorsTyped DEF Access!TypeOK
<1>7. OnePolicy
  BY <1>5, NoPolicyTyped DEF OnePolicy, Access!ActivePolicies
<1>8. SelectedActive
  BY <1>2, <1>4 DEF SelectedActive
<1>9. ServedAlike
  BY <1>1, AlikeReflexive DEF ServedAlike, Access!canonicalRuntimeSnapshot, BoundaryServed
<1> QED
  BY <1>6, <1>7, <1>8, <1>9 DEF AccessInv

LEMMA AccessStep ==
  ASSUME AccessBounds, AccessInv, [Access!Next]_(Access!vars)
  PROVE  AccessInv'
<1>1. CASE Access!GroupStep
  BY <1>1, CreateGroupKeeps, ReplaceMembersKeeps, ArchiveGroupKeeps, DeleteGroupKeeps
       DEF Access!GroupStep
<1>2. CASE Access!SelectorStep
  BY <1>2, ReplaceAssignmentsKeeps, CredentialAssignmentsKeep DEF Access!SelectorStep
<1>3. CASE Access!CredentialStep
  BY <1>3, ArchiveCredentialKeeps, DeleteCredentialKeeps DEF Access!CredentialStep
<1>4. CASE Access!UserStep
  BY <1>4, SuspendUserKeeps, RestoreUserKeeps, DeleteUserKeeps DEF Access!UserStep
<1>5. CASE Access!PolicyStep
  BY <1>5, CreatePolicyKeeps, UpdatePolicyKeeps, ArchivePolicyKeeps, DeleteArchivedKeeps,
     ImportPolicyKeeps, BulkCopyKeeps DEF Access!PolicyStep
<1>6. CASE Access!RuleStep
  BY <1>6, CreateRuleKeeps, UpdateRuleKeeps, RuleAssignmentsKeep, DeleteRuleKeeps
       DEF Access!RuleStep
<1>7. CASE Access!Poll \/ Access!publish
  BY <1>7, ProjectionKeeps DEF Access!Poll, Access!publish
<1>8. CASE UNCHANGED Access!vars
  <2>1. Access!TypeOK' /\ SelectedActive' /\ told' = told
    BY <1>8 DEF Access!vars, AccessInv, Access!TypeOK, SelectedActive
  <2>2. OnePolicy'
    BY <1>8, OnePolicyKept DEF Access!vars, AccessInv
  <2>3. RowsKept
    BY <1>8, RowsUnmoved DEF Access!vars, Remaining
  <2> QED
    BY <2>1, <2>2, <2>3, ServedKept DEF AccessInv
<1> QED
  BY <1>1, <1>2, <1>3, <1>4, <1>5, <1>6, <1>7, <1>8 DEF Access!Next

LEMMA DecidedAsDocumented == ASSUME AccessBounds, AccessInv PROVE Access!DecisionAsDocumented
<1>1. Access!TypeOK
  BY DEF AccessInv
<1>2. ASSUME NEW u \in Users, NEW q \in Access!Sent, NEW used \in SUBSET AssignedCredentials
      PROVE  Access!simulate(u, q, used) <=>
               /\ u \in Access!effectiveUserIds
               /\ \A c \in used : credential[c].status = "usable"
                      /\ u \in Access!effectiveCredentialUsers(c)
               /\ \A b \in {"service"} \cup used : Access!BoundaryAllows(b, u, q)
  <2>1. Access!evaluatePolicySnapshot([b \in Access!Boundaries
            |-> Access!policyBoundarySnapshot(b)], u, q, used)
          <=> \A b \in {"service"} \cup used : Access!BoundaryAllows(b, u, q)
    <3>1. \A b \in {"service"} \cup used : b \in Access!Boundaries
      BY DEF Access!Boundaries
    <3>2. \A b \in {"service"} \cup used :
            Access!evaluateBoundary([c \in Access!Boundaries
                |-> Access!policyBoundarySnapshot(c)][b], u, q)
                <=> Access!BoundaryAllows(b, u, q)
      BY <3>1, EvaluatedAsPromised DEF AccessInv
    <3> QED
      BY <3>2 DEF Access!evaluatePolicySnapshot
  <2> QED
    BY <2>1 DEF Access!simulate, Access!effectiveCredentialUsers
<1> QED
  BY <1>1, <1>2 DEF Access!DecisionAsDocumented, AccessInv, OnePolicy

LEMMA ServedWithinRows == ASSUME AccessInv PROVE Access!NothingServedBeyondRows
<1> SUFFICES ASSUME told = {}, NEW u \in Users, NEW q \in Access!Sent,
                        NEW used \in SUBSET AssignedCredentials,
                    Access!evaluateRuntimePolicy(u, q, used)
             PROVE  Access!simulate(u, q, used)
  BY DEF Access!NothingServedBeyondRows
<1>1. ServedAlike
  BY DEF AccessInv
<1>2. account[u] = "active" /\ u \in Remaining
  BY DEF Access!evaluateRuntimePolicy, Remaining
<1>3. u \in Access!effectiveUserIds
  <2>1. Access!selectorApplies(grant, u)
    BY <1>1, <1>2, AlikeApplies DEF ServedAlike, Access!evaluateRuntimePolicy
  <2> QED
    BY <1>2, <2>1 DEF Access!effectiveUserIds, Access!Contributes, Access!selectorApplies
<1>4. \A c \in used : credential[c].status = "usable"
          /\ Access!selectorApplies(credential[c].sel, u)
  BY <1>1, <1>2, AlikeApplies DEF ServedAlike, Access!evaluateRuntimePolicy
<1>5. ASSUME NEW b \in {"service"} \cup used
      PROVE  Access!evaluateBoundary([c \in Access!Boundaries
                 |-> Access!policyBoundarySnapshot(c)][b], u, q)
  <2>1. b \in Access!Boundaries /\ Access!evaluateBoundary(served.boundary[b], u, q)
    BY DEF Access!Boundaries, Access!evaluateRuntimePolicy, Access!evaluatePolicySnapshot
  <2>2. ~Nothing(served.boundary[b])
    BY <2>1 DEF Nothing, Access!evaluateBoundary
  <2>3. /\ served.boundary[b].mode = Access!policyBoundarySnapshot(b).mode
        /\ RulesAlike(Remaining, served.boundary[b].rules,
               Access!policyBoundarySnapshot(b).rules)
    BY <1>1, <2>1, <2>2 DEF ServedAlike, BoundaryServed, Nothing
  <2>4. Access!evaluateBoundary(Access!policyBoundarySnapshot(b), u, q)
    BY <1>2, <2>1, <2>3, EvaluatesAlike
  <2> QED
    BY <2>1, <2>4
<1> QED
  BY <1>3, <1>4, <1>5 DEF Access!simulate, Access!evaluatePolicySnapshot

\* A step that moves neither groups nor the assignments of the service.
LEMMA NobodyAffected == ASSUME team' = team, grant' = grant PROVE NamesAffected
BY DEF NamesAffected, Access!effectiveUserIds, Access!Contributes, Access!activeMemberships

\* A user contributes after the step as before.
LEMMA MembershipOf ==
  ASSUME AccessInv, NEW u
  PROVE  (grant.groups \cap Access!activeMemberships(u) # {})
             <=> \E g \in grant.groups : u \in team[g].members
<1>1. grant.groups \subseteq Groups
  BY DEF AccessInv, Access!TypeOK, Access!Selectors
<1> QED
  BY <1>1 DEF AccessInv, SelectedActive, Access!activeMemberships

LEMMA MembershipOfNext ==
  ASSUME AccessInv', NEW u
  PROVE  (grant'.groups \cap Access!activeMemberships(u)' # {})
             <=> \E g \in grant'.groups : u \in team'[g].members
<1>1. grant'.groups \subseteq Groups
  BY DEF AccessInv, Access!TypeOK, Access!Selectors
<1> QED
  BY <1>1 DEF AccessInv, SelectedActive, Access!activeMemberships

\* Who has the service, before and after a step.
LEMMA EffectiveOf ==
  ASSUME AccessInv, AccessInv', NEW u \in Users, account' = account,
         (u \in Access!effectiveUserIds) # (u \in Access!effectiveUserIds')
  PROVE  /\ account[u] = "active"
         /\ (grant.all \/ u \in grant.users
                \/ \E g \in grant.groups : u \in team[g].members) #
            (grant'.all \/ u \in grant'.users
                \/ \E g \in grant'.groups : u \in team'[g].members)
BY MembershipOf, MembershipOfNext DEF Access!effectiveUserIds, Access!Contributes

LEMMA WithoutGroup ==
  ASSUME NEW sel \in Access!Selectors, NEW gs
  PROVE  /\ Access!Without(sel, gs, {}).all = sel.all
         /\ Access!Without(sel, gs, {}).users = sel.users
         /\ Access!Without(sel, gs, {}).groups = sel.groups \ gs
<1> DEFINE none == {}
<1>1. sel.users \ none = sel.users
  OBVIOUS
<1> HIDE DEF none
<1>2. /\ Access!Without(sel, gs, none).all = sel.all
      /\ Access!Without(sel, gs, none).users = sel.users \ none
      /\ Access!Without(sel, gs, none).groups = sel.groups \ gs
  BY WithoutTyped
<1> QED
  BY <1>1, <1>2 DEF none

LEMMA InvalidateNames ==
  ASSUME AccessInv, NEW affected, Access!Invalidate(affected), NEW u \in affected
  PROVE  authgen' > authgen /\ Access!Event("assignment", authgen', u) \in told'
BY DEF Access!Invalidate, AccessInv, Access!TypeOK

LEMMA GroupNames ==
  ASSUME AccessBounds, AccessInv, AccessInv', NEW g \in Groups,
         \/ Access!createGroup(g)
         \/ \E members \in SUBSET Users : Access!replaceMembers(g, members)
         \/ Access!archiveGroup(g)
         \/ Access!deleteGroup(g)
  PROVE  NamesAffected
<1> SUFFICES ASSUME NEW u \in Users, account' = account,
                        (u \in Access!effectiveUserIds) # (u \in Access!effectiveUserIds')
             PROVE  authgen' > authgen /\ Access!Event("assignment", authgen', u) \in told'
  BY DEF NamesAffected
<1>0. /\ account[u] = "active"
      /\ (grant.all \/ u \in grant.users \/ \E h \in grant.groups : u \in team[h].members) #
         (grant'.all \/ u \in grant'.users \/ \E h \in grant'.groups : u \in team'[h].members)
  BY EffectiveOf
<1>t. /\ team \in [Groups -> [life : {"none", "active", "archived"}, members : SUBSET Users]]
      /\ grant \in Access!Selectors /\ authgen \in Nat /\ grant.groups \subseteq Groups
      /\ \A h \in grant.groups : team[h].life = "active"
  BY DEF AccessInv, Access!TypeOK, SelectedActive, Access!Selectors
<1>1. CASE Access!createGroup(g)
  <2>1. grant' = grant /\ \A h \in grant.groups : team'[h].members = team[h].members
    BY <1>1, <1>t DEF Access!createGroup
  <2> QED
    BY <1>0, <2>1
<1>2. ASSUME NEW members \in SUBSET Users, Access!replaceMembers(g, members)
      PROVE  authgen' > authgen /\ Access!Event("assignment", authgen', u) \in told'
  <2>1. grant' = grant /\ team'[g].members = members
        /\ \A h \in grant.groups : h # g => team'[h].members = team[h].members
    BY <1>2, <1>t DEF Access!replaceMembers
  <2>2. g \in grant.groups /\ (u \in members) # (u \in team[g].members)
    BY <1>0, <2>1
  <2>3. Access!groupIsSelected(g) /\ members # team[g].members
    BY <2>2 DEF Access!groupIsSelected
  <2>4. Access!Invalidate((members \ team[g].members) \cup (team[g].members \ members))
    BY <1>2, <2>3 DEF Access!replaceMembers
  <2>5. u \in (members \ team[g].members) \cup (team[g].members \ members)
    BY <2>2
  <2> QED
    BY <2>4, <2>5, InvalidateNames
<1>3. CASE Access!archiveGroup(g)
  <2>0. grant' = Access!Without(grant, {g}, {})
    BY <1>3 DEF Access!archiveGroup
  <2>1. grant'.all = grant.all /\ grant'.users = grant.users
            /\ grant'.groups = grant.groups \ {g}
    BY <2>0, <1>t, WithoutGroup
  <2>2. \A h \in grant.groups : team'[h].members = team[h].members
    BY <1>3, <1>t DEF Access!archiveGroup
  <2>3. g \in grant.groups /\ u \in team[g].members
    BY <1>0, <2>1, <2>2
  <2>4. Access!groupIsSelected(g) /\ u \in Access!effectiveSelectedGroupUsers(g)
    BY <1>0, <2>3 DEF Access!groupIsSelected, Access!effectiveSelectedGroupUsers
  <2>5. Access!Invalidate(Access!effectiveSelectedGroupUsers(g))
    BY <1>3, <2>4 DEF Access!archiveGroup
  <2> QED
    BY <2>4, <2>5, InvalidateNames
<1>4. CASE Access!deleteGroup(g)
  <2>0. grant' = Access!Without(grant, {g}, {})
    BY <1>4 DEF Access!deleteGroup, Access!Cascade
  <2>1. grant'.all = grant.all /\ grant'.users = grant.users
            /\ grant'.groups = grant.groups \ {g}
    BY <2>0, <1>t, WithoutGroup
  <2>2. g \notin grant.groups
    BY <1>4, <1>t DEF Access!deleteGroup
  <2>3. \A h \in grant.groups : team'[h].members = team[h].members
    BY <1>4, <1>t, <2>2 DEF Access!deleteGroup
  <2> QED
    BY <1>0, <2>1, <2>2, <2>3
<1> QED
  BY <1>1, <1>2, <1>3, <1>4

LEMMA AssignmentNames ==
  ASSUME AccessBounds, AccessInv, NEW sel \in Choices, Access!replaceAssignments(sel)
  PROVE  NamesAffected
<1> SUFFICES ASSUME NEW u \in Users, account' = account,
                        (u \in Access!effectiveUserIds) # (u \in Access!effectiveUserIds')
             PROVE  authgen' > authgen /\ Access!Event("assignment", authgen', u) \in told'
  BY DEF NamesAffected
<1>1. u \in Access!effectiveUserIds' <=> Access!Contributes(sel, u)
  BY DEF Access!replaceAssignments, Access!effectiveUserIds, Access!Contributes,
       Access!activeMemberships
<1>2. u \in Access!SymmetricDifference(Access!effectiveUserIds,
          {v \in Users : Access!Contributes(sel, v)})
  BY <1>1 DEF Access!SymmetricDifference, Access!effectiveUserIds
<1>3. Access!Invalidate(Access!SymmetricDifference(Access!effectiveUserIds,
          {v \in Users : Access!Contributes(sel, v)}))
  BY DEF Access!replaceAssignments
<1> QED
  BY <1>2, <1>3, InvalidateNames

LEMMA StepNames ==
  ASSUME AccessBounds, AccessInv, [Access!Next]_(Access!vars)
  PROVE  NamesAffected
<1>0. AccessInv'
  BY AccessStep
<1>1. CASE Access!GroupStep
  BY <1>0, <1>1, GroupNames DEF Access!GroupStep
<1>2. CASE Access!SelectorStep
  <2>1. ASSUME NEW c \in AssignedCredentials, NEW sel \in Choices,
                   Access!replaceCredentialAssignments(c, sel)
        PROVE  team' = team /\ grant' = grant
    BY <2>1 DEF Access!replaceCredentialAssignments
  <2> QED
    BY <1>2, <2>1, AssignmentNames, NobodyAffected DEF Access!SelectorStep
<1>3. CASE Access!CredentialStep
  <2>1. team' = team /\ grant' = grant
    BY <1>3 DEF Access!CredentialStep, Access!archiveCredential, Access!deleteCredential
  <2> QED
    BY <2>1, NobodyAffected
<1>4. CASE Access!UserStep
  <2>1. ASSUME NEW u \in Users, Access!suspendUser(u) \/ Access!restoreUser(u)
                   PROVE team' = team /\ grant' = grant
    BY <2>1 DEF Access!suspendUser, Access!restoreUser
  <2>2. ASSUME NEW u \in Users, Access!deleteUser(u) PROVE account' # account
    BY <2>2 DEF Access!deleteUser, AccessInv, Access!TypeOK
  <2> QED
    BY <1>4, <2>1, <2>2, NobodyAffected DEF Access!UserStep, NamesAffected
<1>5. CASE Access!PolicyStep
  <2>1. team' = team /\ grant' = grant
    BY <1>5 DEF Access!PolicyStep, Access!createPolicy, Access!updatePolicy,
         Access!archivePolicy, Access!deleteArchived, Access!importPolicy,
                Access!bulkCopy, Access!Changed
  <2> QED
    BY <2>1, NobodyAffected
<1>6. CASE Access!RuleStep
  <2>1. team' = team /\ grant' = grant
    BY <1>6 DEF Access!RuleStep, Access!createRule, Access!updateRule,
         Access!replaceRuleAssignments, Access!deleteRule, Access!Changed
  <2> QED
    BY <2>1, NobodyAffected
<1>7. CASE Access!Poll \/ Access!publish \/ UNCHANGED Access!vars
  <2>1. team' = team /\ grant' = grant
    BY <1>7 DEF Access!Poll, Access!publish, Access!vars
  <2> QED
    BY <2>1, NobodyAffected
<1> QED
  BY <1>1, <1>2, <1>3, <1>4, <1>5, <1>6, <1>7 DEF Access!Next

\* What is proved of the access control needs no fairness.
AccessSafety == Access!Init /\ [][Access!Next]_(Access!vars)

\* The strengthening holds for any users, groups, credentials, policies and rules:
\* a boundary has one active policy, the service is assigned to groups that there are,
\* and a snapshot without events to dispatch is as good as the rows for everybody left
\* (groupAssignments.ts, policyManagement.ts, runtimeSnapshots.ts).
THEOREM AccessInductive == AccessBounds /\ AccessSafety => []AccessInv
<1> SUFFICES ASSUME AccessBounds PROVE AccessSafety => []AccessInv
  OBVIOUS
<1>1. Access!Init => AccessInv
  BY AccessInit
<1>2. AccessInv /\ [Access!Next]_(Access!vars) => AccessInv'
  BY AccessStep
<1> QED
  BY <1>1, <1>2, PTL DEF AccessSafety

\* The evaluator decides as the documentation promises, and once the events are
\* dispatched the gateway grants nothing that the rows refuse (policy.ts
\* evaluatePolicySnapshot, runtimeSnapshots.ts canonicalRuntimeSnapshot).
THEOREM DecisionsStayDocumented ==
  AccessBounds /\ AccessSafety =>
    [](Access!DecisionAsDocumented /\ Access!NothingServedBeyondRows)
<1> SUFFICES ASSUME AccessBounds
             PROVE  AccessSafety
                        => [](Access!DecisionAsDocumented /\ Access!NothingServedBeyondRows)
  OBVIOUS
<1>1. AccessInv => Access!DecisionAsDocumented /\ Access!NothingServedBeyondRows
  BY DecidedAsDocumented, ServedWithinRows
<1> QED
  BY <1>1, AccessInductive, PTL

\* The users whose access to the service a step changes are named in an event
\* (groupAssignments.ts replaceMembers, archiveGroup, replaceAssignments).
THEOREM AffectedStayNamed == AccessBounds /\ AccessSafety => Access!AffectedUsersNamed
<1> SUFFICES ASSUME AccessBounds PROVE AccessSafety => Access!AffectedUsersNamed
  OBVIOUS
<1>1. AccessInv /\ [Access!Next]_(Access!vars) => [NamesAffected]_(Access!vars)
  BY StepNames
<1>2. NamesAffected <=> (\A u \in Users :
       account' = account
           /\ (u \in Access!effectiveUserIds) # (u \in Access!effectiveUserIds')
         => authgen' > authgen /\ Access!Event("assignment", authgen', u) \in told')
  BY DEF NamesAffected
<1>3. AccessSafety => [][NamesAffected]_(Access!vars)
  BY <1>1, AccessInductive, PTL DEF AccessSafety
<1> QED
  BY <1>2, <1>3, PTL DEF Access!AffectedUsersNamed

-----------------------------------------------------------------------------
(* The runtime run: a behaviour of MCRuntimePlane is one of each part,     *)
(* since a step belongs to the part in focus and leaves the other alone.   *)

LEMMA PlaneParts == PlaneSpec => Spec /\ AccessSafety
<1>1. PlaneInit => Init /\ Access!Init
  BY DEF PlaneInit
<1>2. [PlaneNext]_planeVars => [Next]_vars /\ [Access!Next]_(Access!vars)
  BY DEF PlaneNext, planeVars, accessVars, Access!vars
<1> QED
  BY <1>1, <1>2, PTL DEF PlaneSpec, Spec, AccessSafety

\* In the run too, a dispatched event is served (runtimeInvalidation.ts poll).
THEOREM PlaneServesDispatched == PlaneSpec => []DispatchedIsServed
BY PlaneParts, DispatchedServed, PTL

\* In the run too, a reference that validates is current (runtimeVault.ts,
\* validateReferences).
THEOREM PlaneReferencesCurrent == PlaneSpec => []ReferencesCurrent
BY PlaneParts, OnlyCurrentReferences, PTL

\* Whatever is assigned, suspended, copied, archived, deleted or polled, decisions are
\* the documented ones, nothing is served beyond the rows, and the users whose access a
\* transaction changes are named (policyManagement.ts, groupAssignments.ts,
\* runtimeSnapshots.ts).
THEOREM PlaneAccessAsDocumented == PlaneSpec => AccessAsDocumented
<1>1. AccessBounds
  BY AccessParameters DEF AccessBounds
<1>2. Access!DecisionAsDocumented /\ Access!NothingServedBeyondRows =>
        (focus = "access" => Access!DecisionAsDocumented /\ Access!NothingServedBeyondRows)
  OBVIOUS
<1>3. PlaneSpec =>
        /\ [](Access!DecisionAsDocumented /\ Access!NothingServedBeyondRows)
        /\ Access!AffectedUsersNamed
  BY <1>1, PlaneParts, DecisionsStayDocumented, AffectedStayNamed, PTL
<1> QED
  BY <1>2, <1>3, PTL DEF AccessAsDocumented
=============================================================================
