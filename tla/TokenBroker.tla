----------------------------- MODULE TokenBroker -----------------------------
(***************************************************************************)
(* The in-memory table of opaque references (tokens.ts): gref_ references  *)
(* to configured credentials and sec_ references to secrets found in       *)
(* responses, with idle and maximum lifetimes, capacity limits, reuse and  *)
(* invalidation.  Every method is synchronous; a request preflights its    *)
(* references, awaits, and consumes them later (gateway.ts), and a         *)
(* response is tokenized by one synchronous loop during which only the     *)
(* clock moves (responseTokenizer.ts).                                     *)
(*                                                                         *)
(* One service.  A credential is named by its secret value.                *)
(***************************************************************************)
EXTENDS Naturals, FiniteSets

CONSTANTS
  References,     \* reference values; each is generated at most once
  Subjects,
  Secrets,        \* values a response may contain
  Credentials,    \* the secrets that are values of configured credentials
  Bindings,       \* snapshot and generations a response reference is bound to
  Requests,
  NoReference, NoSubject, NoSecret, NoBinding,
  IdleTtl, MaxTtl, \* tokens.idleTtlMs, tokens.maxTtlMs
  MaxRecords,      \* limits.maxTokenRecords
  MaxPerSubject,   \* limits.maxTokenRecordsPerSubject
  MaxTime          \* bound on the clock

ASSUME TokenBrokerAssumption ==
  /\ NoReference \notin References /\ NoSubject \notin Subjects
  /\ NoSecret \notin Secrets /\ NoBinding \notin Bindings
  /\ Credentials \subseteq Secrets /\ IsFiniteSet(Secrets)
  /\ IdleTtl \in Nat \ {0} /\ MaxTtl \in Nat \ {0} /\ IdleTtl <= MaxTtl
  /\ MaxRecords \in Nat /\ MaxPerSubject \in Nat /\ MaxTime \in Nat

VARIABLES
  now,      \* the clock
  record,   \* recordsByHash and responseSecretsById, by reference
  hashed,   \* responseSecretsByHash
  index,    \* responseSecretIdsByIndex, by subject and secret
  values,   \* tokenValuesById
  spent,    \* references generated so far
  held,     \* per request: the reference it has preflighted
  response, \* the response being tokenized: subject, binding, secrets left
  refused   \* history: that loop ran out of capacity

vars == <<now, record, hashed, index, values, spent, held, response, refused>>

Record == [kind : {"none", "gref", "sec"}, subject : Subjects \cup {NoSubject},
           secret : Secrets \cup {NoSecret}, binding : Bindings \cup {NoBinding},
           used : Nat, idle : Nat, max : Nat]
NoRecord == [kind |-> "none", subject |-> NoSubject, secret |-> NoSecret,
             binding |-> NoBinding, used |-> 0, idle |-> 0, max |-> 0]
NoResponse == [subject |-> NoSubject, binding |-> NoBinding, left |-> {}]

Init ==
  /\ now = 0
  /\ record = [f \in References |-> NoRecord]
  /\ hashed = {}
  /\ index = [k \in Subjects \X Secrets |-> NoReference]
  /\ values = {}
  /\ spent = {}
  /\ held = [r \in Requests |-> NoReference]
  /\ response = NoResponse
  /\ refused = FALSE

Idle == response.left = {}
Present(f) == record[f].kind # "none"
Expired(f) == record[f].idle <= now \/ record[f].max <= now
Live(f) == Present(f) /\ ~Expired(f)

\* refresh: never past the maximum lifetime.
Refresh(x) ==
  [x EXCEPT !.used = now,
            !.idle = IF now + IdleTtl < x.max THEN now + IdleTtl ELSE x.max]

\* What is left of a table after the references in gone are deleted by
\* deleteConfiguredToken and deleteResponseSecret.
Remaining(gone) == [f \in References |-> IF f \in gone THEN NoRecord ELSE record[f]]
RemainingIndex(gone) ==
  [k \in DOMAIN index |-> IF index[k] \in gone THEN NoReference ELSE index[k]]

Delete(gone) ==
  /\ record' = Remaining(gone)
  /\ index' = RemainingIndex(gone)
  /\ hashed' = hashed \ gone
  /\ values' = values \ gone

Stale == {f \in References : Present(f) /\ Expired(f)}

\* ensureCapacity, once the references in gone have been deleted.
Room(gone, subject, additional) ==
  LET kept == {f \in References : Present(f)} \ gone
  IN \/ additional = 0
     \/ /\ Cardinality(kept) + additional <= MaxRecords
        /\ Cardinality({f \in kept : record[f].subject = subject}) + additional
             <= MaxPerSubject

NewRecord(kind, subject, secret, binding) ==
  [kind |-> kind, subject |-> subject, secret |-> secret, binding |-> binding,
   used |-> now, idle |-> now + IdleTtl, max |-> now + MaxTtl]

-----------------------------------------------------------------------------
\* issueTokens and issueRuntimeTokens for the credentials cs, one reference each.
IssueTokens(subject, binding, cs, fs) ==
  /\ Idle
  /\ cs # {} /\ fs \in [cs -> References \ spent]
  /\ \A c, d \in cs : fs[c] = fs[d] => c = d
  /\ index' = RemainingIndex(Stale)
  /\ hashed' = hashed \ Stale
  /\ IF Room(Stale, subject, Cardinality(cs))
     THEN /\ record' = [f \in References |->
               IF \E c \in cs : fs[c] = f
               THEN NewRecord("gref", subject, CHOOSE c \in cs : fs[c] = f, binding)
               ELSE Remaining(Stale)[f]]
          /\ values' = (values \ Stale) \cup {fs[c] : c \in cs}
          /\ spent' = spent \cup {fs[c] : c \in cs}
     ELSE /\ record' = Remaining(Stale)
          /\ values' = values \ Stale
          /\ UNCHANGED spent
  /\ UNCHANGED <<now, held, response, refused>>

\* preflightTokenUse and preflightResponseSecretUse by subject.  An expired
\* gref_ loses its record only, an expired sec_ everything.
Preflight(r, subject, f) ==
  /\ Idle
  /\ Present(f)
  /\ IF Expired(f)
     THEN /\ IF record[f].kind = "gref"
             THEN record' = Remaining({f}) /\ UNCHANGED <<index, hashed, values>>
             ELSE Delete({f})
          /\ UNCHANGED held
     ELSE /\ held' = [held EXCEPT ![r] = IF record[f].subject = subject THEN f ELSE @]
          /\ UNCHANGED <<record, index, hashed, values>>
  /\ UNCHANGED <<now, spent, response, refused>>

\* consumePreflightedToken and consumePreflightedResponseSecret.
Consume(r) ==
  LET f == held[r]
  IN /\ Idle
     /\ f # NoReference
     /\ record' = [record EXCEPT ![f] = IF Live(f) THEN Refresh(@) ELSE @]
     /\ held' = [held EXCEPT ![r] = NoReference]
     /\ UNCHANGED <<now, index, hashed, values, spent, response, refused>>

\* inspectResponseToken: an expired reference is deleted, a live one of this
\* subject refreshed.
Inspect(subject, f) ==
  /\ Idle
  /\ Present(f)
  /\ IF Expired(f)
     THEN Delete({f})
     ELSE /\ record' = [record EXCEPT ![f] =
                          IF record[f].subject = subject THEN Refresh(@) ELSE @]
          /\ UNCHANGED <<index, hashed, values>>
  /\ UNCHANGED <<now, spent, held, response, refused>>

\* sweepExpired, from the maintenance loop.
SweepExpired ==
  /\ Idle
  /\ Stale # {}
  /\ Delete(Stale)
  /\ UNCHANGED <<now, spent, held, response, refused>>

\* invalidate, by subject and, for gref_ references only, by credential.
Invalidate(subject, secret) ==
  /\ Idle
  /\ Delete(Stale \cup
       {f \in References : /\ Present(f)
                           /\ subject # NoSubject => record[f].subject = subject
                           /\ secret # NoSecret => /\ record[f].kind = "gref"
                                                   /\ record[f].secret = secret})
  /\ UNCHANGED <<now, spent, held, response, refused>>

-----------------------------------------------------------------------------
(* Tokenizing a response.                                                    *)

\* latestConfiguredToken: the reference of this subject to the credential that
\* was used last and, among those, issued last.
Configured(subject, s) ==
  {f \in References : /\ Live(f) /\ record[f].kind = "gref"
                      /\ record[f].subject = subject /\ record[f].secret = s
                      /\ f \in values}
Latest(subject, s) ==
  {f \in Configured(subject, s) :
     \A g \in Configured(subject, s) :
       \/ record[g].used < record[f].used
       \/ record[g].used = record[f].used /\ record[g].max <= record[f].max}

Reusable(subject, s) ==
  LET f == index[<<subject, s>>]
  IN f # NoReference /\ Live(f)

\* The secrets for which assertResponseSecretCapacity reserves a reference.
Fresh(subject, found) ==
  {s \in found : Configured(subject, s) = {} /\ ~Reusable(subject, s)}

\* assertResponseSecretCapacity: it sweeps, refreshes the configured references
\* it finds and, when there is room, lets the tokenizing loop start.
AssertCapacity(subject, binding, found) ==
  /\ Idle
  /\ found # {}
  /\ response' = IF Room(Stale, subject, Cardinality(Fresh(subject, found)))
                 THEN [subject |-> subject, binding |-> binding, left |-> found]
                 ELSE NoResponse
  /\ \E refreshed \in SUBSET UNION {Latest(subject, s) : s \in found} :
       /\ \A s \in found : Configured(subject, s) # {} =>
            Cardinality(refreshed \cap Latest(subject, s)) = 1
       /\ record' = [f \in References |-> IF f \in refreshed THEN Refresh(record[f])
                                                             ELSE Remaining(Stale)[f]]
  /\ index' = RemainingIndex(Stale)
  /\ hashed' = hashed \ Stale
  /\ values' = values \ Stale
  /\ UNCHANGED <<now, spent, held, refused>>

Tokenized(s) == response' = IF response.left = {s} THEN NoResponse
                            ELSE [response EXCEPT !.left = @ \ {s}]

\* findConfiguredTokenForSecret answers; it also drops expired gref_ records.
UseConfigured(s, f) ==
  LET dead == {g \in Stale : record[g].kind = "gref"}
  IN /\ s \in response.left /\ f \in Latest(response.subject, s)
     /\ record' = [Remaining(dead) EXCEPT ![f] = Refresh(@)]
     /\ values' = values \ dead
     /\ Tokenized(s)
     /\ UNCHANGED <<now, index, hashed, spent, held, refused>>

\* issueOrReuseResponseSecret: reuse under the same bindings, else replace.
ReuseResponseSecret(s) ==
  LET f == index[<<response.subject, s>>]
  IN /\ s \in response.left /\ Configured(response.subject, s) = {}
     /\ Reusable(response.subject, s) /\ record[f].binding = response.binding
     /\ record' = [Remaining(Stale) EXCEPT ![f] = Refresh(@)]
     /\ index' = RemainingIndex(Stale)
     /\ hashed' = hashed \ Stale
     /\ values' = values \ Stale
     /\ Tokenized(s)
     /\ UNCHANGED <<now, spent, held, refused>>

\* deleteResponseSecret of a reference under other bindings, then a new one.
IssueResponseSecretKeepingOld(s, f) ==
  LET subject == response.subject
  IN /\ s \in response.left /\ Configured(subject, s) = {}
     /\ ~(Reusable(subject, s)
          /\ record[index[<<subject, s>>]].binding = response.binding)
     /\ f \in References \ spent
     /\ IF Room(Stale, subject, 1)
        THEN /\ record' = [Remaining(Stale) EXCEPT
                             ![f] = NewRecord("sec", subject, s, response.binding)]
             /\ index' = [RemainingIndex(Stale) EXCEPT ![<<subject, s>>] = f]
             /\ hashed' = (hashed \ Stale) \cup {f}
             /\ values' = (values \ Stale) \cup {f}
             /\ spent' = spent \cup {f}
             /\ Tokenized(s)
             /\ UNCHANGED refused
        ELSE /\ Delete(Stale) /\ refused' = TRUE /\ response' = NoResponse
             /\ UNCHANGED spent
     /\ UNCHANGED <<now, held>>

IssueResponseSecret(s, f) ==
  LET subject == response.subject
      gone == Stale \cup ({index[<<subject, s>>]} \ {NoReference})
  IN /\ s \in response.left /\ Configured(subject, s) = {}
     /\ ~(Reusable(subject, s)
          /\ record[index[<<subject, s>>]].binding = response.binding)
     /\ f \in References \ spent
     /\ IF Room(gone, subject, 1)
        THEN /\ record' = [Remaining(gone) EXCEPT
                             ![f] = NewRecord("sec", subject, s, response.binding)]
             /\ index' = [RemainingIndex(gone) EXCEPT ![<<subject, s>>] = f]
             /\ hashed' = (hashed \ gone) \cup {f}
             /\ values' = (values \ gone) \cup {f}
             /\ spent' = spent \cup {f}
             /\ Tokenized(s)
             /\ UNCHANGED refused
        ELSE /\ Delete(gone) /\ refused' = TRUE /\ response' = NoResponse
             /\ UNCHANGED spent
     /\ UNCHANGED <<now, held>>

Tick ==
  /\ now < MaxTime
  /\ now' = now + 1
  /\ UNCHANGED <<record, hashed, index, values, spent, held, response, refused>>

-----------------------------------------------------------------------------
Next ==
  \/ \E u \in Subjects, b \in Bindings, cs \in SUBSET Credentials :
       \E fs \in [cs -> References] : IssueTokens(u, b, cs, fs)
  \/ \E r \in Requests, u \in Subjects, f \in References : Preflight(r, u, f)
  \/ \E r \in Requests : Consume(r)
  \/ \E u \in Subjects, f \in References : Inspect(u, f)
  \/ SweepExpired
  \/ \E u \in Subjects \cup {NoSubject}, s \in Credentials \cup {NoSecret} :
       Invalidate(u, s)
  \/ \E u \in Subjects, b \in Bindings, found \in SUBSET Secrets :
       AssertCapacity(u, b, found)
  \/ \E s \in Secrets : \/ ReuseResponseSecret(s)
                        \/ \E f \in References : \/ UseConfigured(s, f)
                                                 \/ IssueResponseSecret(s, f)
  \/ Tick

Spec == Init /\ [][Next]_vars

-----------------------------------------------------------------------------
(* Properties                                                                *)

\* Every variable has its type.
TypeOK ==
  /\ now \in Nat
  /\ record \in [References -> Record]
  /\ hashed \subseteq References
  /\ index \in [Subjects \X Secrets -> References \cup {NoReference}]
  /\ values \subseteq References
  /\ spent \subseteq References
  /\ held \in [Requests -> References \cup {NoReference}]
  /\ response \in [subject : Subjects \cup {NoSubject},
                   binding : Bindings \cup {NoBinding}, left : SUBSET Secrets]
  /\ refused \in BOOLEAN

\* The four maps of response references agree: every record is reachable by its
\* hash and by its subject and secret, and no deletion leaves part of one behind,
\* so that a subject never has two references to one secret.
MapsAgree ==
  LET sec == {f \in References : record[f].kind = "sec"}
  IN /\ hashed = sec
     /\ \A f \in sec : index[<<record[f].subject, record[f].secret>>] = f /\ f \in values
     /\ \A k \in Subjects \X Secrets : index[k] # NoReference => index[k] \in sec

\* Both limits hold, for live and not yet swept records together.
WithinCapacity ==
  /\ Cardinality({f \in References : Present(f)}) <= MaxRecords
  /\ \A u \in Subjects :
       Cardinality({f \in References : record[f].subject = u}) <= MaxPerSubject

\* Once assertResponseSecretCapacity has passed, tokenizing the response never
\* runs out of capacity, even when references expire while it runs.
ReservationHolds == ~refused

\* A reference that has expired is never used again, and none outlives its
\* maximum lifetime, whatever preflights, reuse and refreshes come in between.
ExpiredStaysDead ==
  [][\A f \in References :
       (Present(f) /\ Present(f)') =>
         /\ Expired(f) => record'[f] = record[f]
         /\ record'[f].max = record[f].max /\ record'[f].idle <= record[f].max]_vars

\* Live references are never silently evicted: one goes only by an invalidation,
\* or when its secret is issued again under other bindings.
LiveNotEvicted ==
  [][\A f \in References :
       (Live(f) /\ ~Present(f)') =>
         \/ \E u \in Subjects \cup {NoSubject}, s \in Credentials \cup {NoSecret} :
              Invalidate(u, s)
         \/ record[f].kind = "sec" /\ record[f].binding # response.binding
            /\ record[f].secret \in response.left]_vars

\* The table at its limits: its maps agree, it never holds more than it may,
\* and the capacity a response reserved is there when it is used; what has
\* expired stays dead, and what is live is not evicted.
TableKept ==
  /\ [](TypeOK /\ MapsAgree /\ WithinCapacity /\ ReservationHolds)
  /\ ExpiredStaysDead /\ LiveNotEvicted
=============================================================================
