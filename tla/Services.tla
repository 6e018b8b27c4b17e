------------------------------- MODULE Services -------------------------------
(***************************************************************************)
(* The life of services (serviceManagement.ts, serviceConfiguration.ts):   *)
(* drafts with their destinations, publication, retained revisions, import,*)
(* clone, rollback, archive, deletion and administrators, and the runtime  *)
(* snapshot that a publication persists (runtimeSnapshots.ts).             *)
(*                                                                         *)
(* Every operation is one transaction under the version its author read;   *)
(* whether it is applied depends on that version alone, so one reader is   *)
(* followed (reader) and the operations are taken with the version of the  *)
(* moment.  A digest is the document it is computed from.                  *)
(*                                                                         *)
(* Bounds: MaxChanges operations, MaxRevisions for MAX_SERVICE_REVISIONS.  *)
(***************************************************************************)
EXTENDS Naturals, FiniteSets

CONSTANTS ServiceIds, DestIds, Admins,
          Bodies,          \* contents of a destination
          Profiles,        \* names and descriptions of a service
          MaxDestinations, \* MAX_SERVICE_DESTINATIONS
          MaxRevisions,    \* MAX_SERVICE_REVISIONS
          MaxChanges

VARIABLES svc,        \* services with their administrators and credential rows
          dest,       \* service_destinations
          revs,       \* service_config_versions
          announced,  \* service_invalidation_events: service and generation
          snapshot,   \* the document and generation last persisted for a service
          enabled,    \* administrators whose account is active
          reader,     \* what a client read and still holds
          edits       \* operations so far (bound)

vars == <<svc, dest, revs, announced, snapshot, enabled, reader, edits>>

NoService ==
  [life |-> "none", profile |-> 0, version |-> 0, draft |-> {}, pub |-> 0, pubDigest |-> {},
   gen |-> 0, admins |-> {}, creds |-> "none"]

NoDest == [owner |-> "none", body |-> "none"]

Dests(s, all) == {d \in DestIds : all[d].owner = s}

\* The document that a row and its destinations make.
Document(profile, s, all) ==
  {<<"profile", profile>>} \cup {<<d, all[d].body>> : d \in Dests(s, all)}

canonicalDraft(s) == Document(svc[s].profile, s, dest)

Listed(doc) == {entry \in doc : entry[1] # "profile"}
ProfileOf(doc) == (CHOOSE entry \in doc : entry[1] = "profile")[2]

Changing == edits < MaxChanges /\ edits' = edits + 1

Mutable(s) == svc[s].life \in {"draft", "published"}

FreeDests == {d \in DestIds : dest[d].owner = "none" /\ d \notin UNION
                {{entry[1] : entry \in Listed(r.doc)} : r \in UNION {revs[s] : s \in ServiceIds}}}

-----------------------------------------------------------------------------
(***************************************************************************)
(* Drafts.  updateDraftDigest stores the digest and moves the version.     *)
(***************************************************************************)
\* A variant of Redrafted: the digest is refreshed under the same version.
RedraftedInPlace(s, profile, all) ==
  [svc EXCEPT ![s].profile = profile, ![s].draft = Document(profile, s, all)]

Redrafted(s, profile, all) ==
  [svc EXCEPT ![s].profile = profile, ![s].draft = Document(profile, s, all),
              ![s].version = @ + 1]

create(s, profile) ==
  /\ Changing /\ svc[s].life = "none" /\ svc[s].version = 0
  /\ svc' = [svc EXCEPT ![s] = [NoService EXCEPT !.life = "draft", !.profile = profile,
               !.version = 1, !.draft = Document(profile, s, dest)]]
  /\ UNCHANGED <<dest, revs, announced, snapshot, enabled, reader>>

updateProfile(s, profile) ==
  /\ Changing /\ Mutable(s)
  /\ svc' = Redrafted(s, profile, dest)
  /\ UNCHANGED <<dest, revs, announced, snapshot, enabled, reader>>

\* A destination is created, changed or deleted.
WithDestinations(s, all) ==
  /\ Changing /\ Mutable(s)
  /\ dest' = all
  /\ svc' = Redrafted(s, svc[s].profile, all)
  /\ UNCHANGED <<revs, announced, snapshot, enabled, reader>>

createDestination(s, d, body) ==
  /\ d \in FreeDests /\ Cardinality(Dests(s, dest)) < MaxDestinations
  /\ WithDestinations(s, [dest EXCEPT ![d] = [owner |-> s, body |-> body]])

updateDestination(s, d, body) ==
  /\ dest[d].owner = s
  /\ WithDestinations(s, [dest EXCEPT ![d].body = body])

deleteDestination(s, d) ==
  /\ dest[d].owner = s
  /\ WithDestinations(s, [dest EXCEPT ![d] = NoDest])

\* replaceDestinations: the rows of s become those of the document.
Replaced(s, doc) ==
  [d \in DestIds |->
     IF \E entry \in Listed(doc) : entry[1] = d
     THEN [owner |-> s, body |-> (CHOOSE entry \in Listed(doc) : entry[1] = d)[2]]
     ELSE IF dest[d].owner = s THEN NoDest ELSE dest[d]]

ImportedDigest(doc, renamed) == renamed

\* A document of this service, kept from an earlier copy: a destination that
\* the service still has keeps its identity, one that it lost gets a new one
\* and one that another service has is refused.
import(s, doc) ==
  /\ Changing /\ Mutable(s)
  /\ \A entry \in Listed(doc) : dest[entry[1]].owner \in {s, "none"}
  /\ LET lost == {entry \in Listed(doc) : dest[entry[1]].owner = "none"}
     IN \E fresh \in [lost -> FreeDests] :
          /\ \A a, b \in lost : a # b => fresh[a] # fresh[b]
          /\ LET renamed == (doc \ lost) \cup {<<fresh[entry], entry[2]>> : entry \in lost}
             IN /\ dest' = Replaced(s, renamed)
                /\ svc' = [svc EXCEPT ![s].profile = ProfileOf(renamed),
                             ![s].draft = ImportedDigest(doc, renamed), ![s].version = @ + 1]
  /\ UNCHANGED <<revs, announced, snapshot, enabled, reader>>

\* A draft of its own with the destinations of the source under new identities.
clone(source, s, profile) ==
  /\ Changing /\ svc[source].life # "none" /\ svc[s].life = "none" /\ svc[s].version = 0
  /\ \E fresh \in [Dests(source, dest) -> FreeDests] :
       /\ \A a, b \in DOMAIN fresh : a # b => fresh[a] # fresh[b]
       /\ LET all == [d \in DestIds |->
                        IF \E a \in DOMAIN fresh : fresh[a] = d
                        THEN [owner |-> s, body |-> dest[CHOOSE a \in DOMAIN fresh : fresh[a] = d].body]
                        ELSE dest[d]]
          IN /\ dest' = all
             /\ svc' = [svc EXCEPT ![s] = [NoService EXCEPT !.life = "draft", !.profile = profile,
                          !.version = 1, !.draft = Document(profile, s, all)]]
  /\ UNCHANGED <<revs, announced, snapshot, enabled, reader>>

-----------------------------------------------------------------------------
(***************************************************************************)
(* Publication.                                                            *)
(***************************************************************************)
\* validationView without the policies (module AccessControl).
Valid(s, doc) ==
  /\ svc[s].admins \cap enabled # {}
  /\ Listed(doc) # {}
  /\ svc[s].creds # "reconciling"

\* At the limit the oldest revision past its retention goes, never the
\* published one.
pruneRevisions(s) ==
  LET old == {r \in revs[s] : r.aged /\ r.seq # svc[s].pub}
  IN IF Cardinality(revs[s]) < MaxRevisions \/ old = {} THEN revs[s]
     ELSE revs[s] \ {CHOOSE r \in old : \A o \in old : r.seq <= o.seq}

MaxSeq(rs) == IF rs = {} THEN 0 ELSE (CHOOSE r \in rs : \A o \in rs : o.seq <= r.seq).seq

Announce(s, gen) == announced' = announced \cup {<<s, gen>>}

\* The common part of publish and rollback: a new revision becomes published.
Published(s, doc, source) ==
  LET kept == pruneRevisions(s)
      revision == [seq |-> MaxSeq(kept) + 1, doc |-> doc, gen |-> svc[s].gen + 1,
                   source |-> source, aged |-> FALSE]
  IN /\ Cardinality(kept) < MaxRevisions
     /\ revs' = [revs EXCEPT ![s] = kept \cup {revision}]
     /\ svc' = [svc EXCEPT ![s].life = "published", ![s].profile = ProfileOf(doc),
                  ![s].draft = doc, ![s].pub = revision.seq, ![s].pubDigest = doc,
                  ![s].gen = @ + 1, ![s].version = @ + 1]
     /\ Announce(s, svc[s].gen + 1)

publish(s) ==
  /\ Changing /\ Mutable(s)
  /\ Valid(s, canonicalDraft(s)) /\ svc[s].pubDigest # canonicalDraft(s)
  /\ Published(s, canonicalDraft(s), 0)
  /\ snapshot' = [snapshot EXCEPT ![s] = [doc |-> canonicalDraft(s), gen |-> svc[s].gen + 1]]
  /\ UNCHANGED <<dest, enabled, reader>>

assertDestinationIdsAvailable(s, doc) ==
  \A entry \in Listed(doc) : dest[entry[1]].owner \in {s, "none"}

\* The destinations come back under their old identities; no snapshot is
\* persisted before the event is processed.
rollback(s, r) ==
  /\ Changing /\ Mutable(s) /\ r \in revs[s]
  /\ assertDestinationIdsAvailable(s, r.doc)
  /\ Valid(s, r.doc)
  /\ dest' = Replaced(s, r.doc)
  /\ Published(s, r.doc, r.seq)
  /\ UNCHANGED <<snapshot, enabled, reader>>

archive(s) ==
  /\ Changing /\ Mutable(s)
  /\ svc' = [svc EXCEPT ![s].life = "archived", ![s].pub = 0, ![s].pubDigest = {},
               ![s].gen = @ + 1, ![s].version = @ + 1]
  /\ Announce(s, svc[s].gen + 1)
  /\ UNCHANGED <<dest, revs, snapshot, enabled, reader>>

\* The foreign keys take destinations, revisions and snapshots along.
delete(s) ==
  /\ Changing /\ svc[s].life = "archived"
  /\ svc[s].admins = {} /\ svc[s].creds = "none"
  /\ svc' = [svc EXCEPT ![s] = [NoService EXCEPT !.version = svc[s].version]]
  /\ dest' = [d \in DestIds |-> IF dest[d].owner = s THEN NoDest ELSE dest[d]]
  /\ revs' = [revs EXCEPT ![s] = {}]
  /\ snapshot' = [snapshot EXCEPT ![s] = [doc |-> {}, gen |-> 0]]
  /\ Announce(s, svc[s].gen + 1)
  /\ UNCHANGED <<enabled, reader>>

-----------------------------------------------------------------------------
(***************************************************************************)
(* Administrators, credential rows, accounts, time and the reader.         *)
(***************************************************************************)
assignAdmin(s, a) ==
  /\ Changing /\ svc[s].life # "none" /\ a \in enabled \ svc[s].admins
  /\ svc' = [svc EXCEPT ![s].admins = @ \cup {a}, ![s].version = @ + 1]
  /\ UNCHANGED <<dest, revs, announced, snapshot, enabled, reader>>

removeAdmin(s, a) ==
  /\ Changing /\ a \in svc[s].admins
  /\ svc[s].life = "archived" \/ Cardinality(svc[s].admins) > 1
  /\ svc' = [svc EXCEPT ![s].admins = @ \ {a}, ![s].version = @ + 1]
  /\ UNCHANGED <<dest, revs, announced, snapshot, enabled, reader>>

\* The one credential row of a service: created, waiting for the vault, idle
\* again, archived, deleted; none of it on an archived service.
CredentialStep(s) ==
  /\ Changing /\ Mutable(s)
  /\ \/ /\ svc[s].creds = "none"
        /\ svc' = [svc EXCEPT ![s].creds = "idle"]
     \/ /\ svc[s].creds = "idle"
        /\ svc' = [svc EXCEPT ![s].creds = "reconciling"]
     \/ /\ svc[s].creds = "idle"
        /\ svc' = [svc EXCEPT ![s].creds = "archived"]
     \/ /\ svc[s].creds = "archived"
        /\ svc' = [svc EXCEPT ![s].creds = "none"]
  /\ UNCHANGED <<dest, revs, announced, snapshot, enabled, reader>>

\* The coordinator settles its intents, whatever became of the service.
CredentialReconciled(s) ==
  /\ svc[s].creds = "reconciling"
  /\ svc' = [svc EXCEPT ![s].creds = "idle"]
  /\ UNCHANGED <<dest, revs, announced, snapshot, enabled, reader, edits>>

AccountSuspended(a) ==
  /\ Changing /\ a \in enabled
  /\ enabled' = enabled \ {a}
  /\ UNCHANGED <<svc, dest, revs, announced, snapshot, reader>>

\* The retention of all revisions there are passes.
RetentionPasses ==
  /\ \E s \in ServiceIds : \E r \in revs[s] : ~r.aged
  /\ revs' = [s \in ServiceIds |-> {[r EXCEPT !.aged = TRUE] : r \in revs[s]}]
  /\ UNCHANGED <<svc, dest, announced, snapshot, enabled, reader, edits>>

\* A client reads a service: its version is the ETag of a later change.
Read(s) ==
  /\ reader.service = "none" /\ svc[s].life # "none"
  /\ reader' = [service |-> s, version |-> svc[s].version, doc |-> canonicalDraft(s),
                life |-> svc[s].life, admins |-> svc[s].admins]
  /\ UNCHANGED <<svc, dest, revs, announced, snapshot, enabled, edits>>

NoReader == [service |-> "none", version |-> 0, doc |-> {}, life |-> "none", admins |-> {}]

\* A draft with one destination and an administrator.
Init ==
  /\ LET s == CHOOSE x \in ServiceIds : TRUE
         d == CHOOSE x \in DestIds : TRUE
         a == CHOOSE x \in Admins : TRUE
         p == CHOOSE x \in Profiles : TRUE
         b == CHOOSE x \in Bodies : TRUE
     IN
       /\ dest = [x \in DestIds |-> IF x = d THEN [owner |-> s, body |-> b] ELSE NoDest]
       /\ svc = [x \in ServiceIds |->
                   IF x # s THEN NoService
                   ELSE [NoService EXCEPT !.life = "draft", !.profile = p, !.version = 1,
                           !.draft = {<<"profile", p>>, <<d, b>>}, !.admins = {a}]]
  /\ revs = [s \in ServiceIds |-> {}]
  /\ announced = {}
  /\ snapshot = [s \in ServiceIds |-> [doc |-> {}, gen |-> 0]]
  /\ enabled = Admins
  /\ reader = NoReader
  /\ edits = 0

DraftStep(s) ==
  \/ \E p \in Profiles : create(s, p) \/ updateProfile(s, p)
  \/ \E d \in DestIds : deleteDestination(s, d)
  \/ \E d \in DestIds, b \in Bodies : createDestination(s, d, b) \/ updateDestination(s, d, b)
  \/ \E r \in revs[s] : import(s, r.doc)
  \/ \E source \in ServiceIds, p \in Profiles : clone(source, s, p)

PublicationStep(s) ==
  \/ publish(s) \/ archive(s) \/ delete(s)
  \/ \E r \in revs[s] : rollback(s, r)

OtherStep(s) ==
  \/ \E a \in Admins : assignAdmin(s, a) \/ removeAdmin(s, a)
  \/ CredentialStep(s) \/ CredentialReconciled(s) \/ Read(s)

Next ==
  \/ \E s \in ServiceIds : DraftStep(s) \/ PublicationStep(s) \/ OtherStep(s)
  \/ \E a \in Admins : AccountSuspended(a)
  \/ RetentionPasses

Spec == Init /\ [][Next]_vars

-----------------------------------------------------------------------------
(***************************************************************************)
(* Properties.                                                             *)
(***************************************************************************)
TypeOK ==
  /\ \A s \in ServiceIds :
       /\ svc[s].life \in {"none", "draft", "published", "archived"}
       /\ svc[s].admins \subseteq Admins /\ Cardinality(revs[s]) <= MaxRevisions
  /\ \A d \in DestIds : dest[d].owner \in ServiceIds \cup {"none"}
  /\ edits \in 0..MaxChanges

\* The stored digests tell the truth whatever was imported, rolled back or
\* pruned: the draft's is that of its rows, a published service has its
\* revision among the retained ones, with the digest, the generation and the
\* greatest sequence, and only it is published (publish, rollback,
\* pruneRevisions, archive); what is deleted leaves no row behind.
RevisionsCoherent ==
  /\ TypeOK
  /\ \A s \in ServiceIds :
       /\ svc[s].life # "none" => svc[s].draft = canonicalDraft(s)
       /\ svc[s].life = "none" => Dests(s, dest) = {} /\ revs[s] = {} /\ snapshot[s].gen = 0
       /\ IF svc[s].life = "published"
          THEN \E r \in revs[s] :
                 /\ r.seq = svc[s].pub /\ r.seq = MaxSeq(revs[s])
                 /\ r.doc = svc[s].pubDigest /\ r.gen = svc[s].gen
          ELSE svc[s].pub = 0
       /\ \A r, o \in revs[s] : r.seq < o.seq => r.gen < o.gen

\* An ETag names one state of a service: as long as its version is the one a
\* client read, its document, lifecycle and administrators are those the
\* client saw, so no change is lost (requiredMutableService, optimisticUpdate).
SameVersionSameService ==
  \A s \in ServiceIds :
     s = reader.service /\ svc[s].life # "none" /\ svc[s].version = reader.version =>
       /\ canonicalDraft(s) = reader.doc
       /\ svc[s].life = reader.life /\ svc[s].admins = reader.admins

\* Whatever changes what is published, rolled back or archived moves the
\* publication generation and writes an event of the new one, which no earlier
\* event of the service had.
PublicationsAnnounced ==
  [][\A s \in ServiceIds :
       svc'[s].pub # svc[s].pub \/ (svc'[s].life # svc[s].life /\ svc'[s].life # "draft")
         => \E event \in announced' \ announced :
              /\ event[1] = s
              /\ \A earlier \in announced : earlier[1] = s => earlier[2] < event[2]]_vars
=============================================================================
