------------------------- MODULE AdministrationProofs -------------------------
(***************************************************************************)
(* Proofs about the seven components of the administration run: services  *)
(* and their revisions (Services), the administration of users             *)
(* (UserAdministration), the API keys (ApiKeys), the lists of sessions and *)
(* connections (AccessRecords), the portable exports (Backup), the archive *)
(* transfers of the vault (VaultTransfers) and the staged restores         *)
(* (RestoreStaging), for any number of services, people, keys, records,    *)
(* requests, calls and stages and any limits and times.                    *)
(*                                                                         *)
(* In each part an invariant says what a request under way has established *)
(* and what the others may not take from it: CatalogueInv, AccountsInv,    *)
(* KeysInv, ListsInv, ExportsInv, StagingInv and TransfersInv.  The last   *)
(* section carries the results over to the behaviours of                   *)
(* MCAdministration.                                                       *)
(***************************************************************************)
EXTENDS MCAdministration, FiniteSetTheorems, SequenceTheorems, NaturalsInduction,
        WellFoundedInduction, TLAPS

\* The cardinality that the parts speak of is the one of the theorems.
LEMMA ExportingCardinality ==
  ASSUME NEW S PROVE Exporting!Cardinality(S) = Cardinality(S)
BY DEF Exporting!Cardinality, Cardinality

LEMMA StagingCardinality ==
  ASSUME NEW S PROVE Staging!Cardinality(S) = Cardinality(S)
BY DEF Staging!Cardinality, Cardinality

LEMMA TransferringCardinality ==
  ASSUME NEW S PROVE Transferring!Cardinality(S) = Cardinality(S)
BY DEF Transferring!Cardinality, Cardinality

LEMMA AccountsCardinality ==
  ASSUME NEW S PROVE Accounts!Cardinality(S) = Cardinality(S)
BY DEF Accounts!Cardinality, Cardinality

LEMMA KeyTableCardinality ==
  ASSUME NEW S PROVE KeyTable!Cardinality(S) = Cardinality(S)
BY DEF KeyTable!Cardinality, Cardinality

LEMMA CatalogueCardinality ==
  ASSUME NEW S PROVE Catalogue!Cardinality(S) = Cardinality(S)
BY DEF Catalogue!Cardinality, Cardinality

LEMMA ListsCardinality ==
  ASSUME NEW S PROVE Lists!Cardinality(S) = Cardinality(S)
BY DEF Lists!Cardinality, Cardinality

-----------------------------------------------------------------------------
(* The services.                                                           *)

\* Names that the model keeps apart, and something of each kind to begin with.
CatalogueBounds ==
  /\ "profile" \notin DestIds /\ "none" \notin ServiceIds
  /\ ServiceIds # {} /\ DestIds # {} /\ ServiceAdmins # {}
  /\ MaxRevisions \in Nat /\ MaxChanges \in Nat

\* A document has one entry for the profile and one for each destination.
IsDoc(doc) ==
  /\ \A e \in doc : e = <<e[1], e[2]>> /\ e[1] \in DestIds \cup {"profile"}
  /\ \A e, o \in doc : e[1] = o[1] => e = o
  /\ \E p : <<"profile", p>> \in doc

IsRow(row) ==
  /\ DOMAIN row = {"life", "profile", "version", "draft", "pub", "pubDigest", "gen", "admins", "creds"}
  /\ row.life \in {"none", "draft", "published", "archived"}
  /\ row.version \in Nat /\ row.pub \in Nat /\ row.gen \in Nat /\ row.admins \subseteq ServiceAdmins

IsRevision(r) ==
  /\ DOMAIN r = {"seq", "doc", "gen", "source", "aged"}
  /\ r.seq \in Nat /\ r.gen \in Nat /\ IsDoc(r.doc)

\* The revisions of a service, and which of them is published.
RevisionsOK(row, rs) ==
  /\ IsFiniteSet(rs) /\ Cardinality(rs) <= MaxRevisions
  /\ \A r \in rs : IsRevision(r) /\ r.gen <= row.gen
  /\ \A r, o \in rs : r.seq < o.seq => r.gen < o.gen
  /\ row.life \in {"none", "draft"} => rs = {}
  /\ row.life # "published" => row.pub = 0
  /\ row.life = "published" =>
       \E r \in rs : /\ r.seq = row.pub /\ r.doc = row.pubDigest /\ r.gen = row.gen
                     /\ \A o \in rs : o.seq <= r.seq

\* The told of a service that may still change are of generations it had.
EventsOK(row, s, told) ==
  /\ \A e \in told : e[1] = s => e = <<s, e[2]>> /\ e[2] \in Nat
  /\ row.life # "none" \/ row.version = 0 => \A e \in told : e[1] = s => e[2] <= row.gen

ServiceOK(s) ==
  /\ IsRow(svc[s])
  /\ svc[s].life # "none" => svc[s].version > 0 /\ svc[s].draft = Catalogue!canonicalDraft(s)
  /\ svc[s].life = "none" => Catalogue!Dests(s, dest) = {} /\ snapshot[s].gen = 0 /\ svc[s].gen = 0
  /\ RevisionsOK(svc[s], revs[s]) /\ EventsOK(svc[s], s, announced)

DestsOK(all) ==
  /\ DOMAIN all = DestIds
  /\ \A d \in DestIds : DOMAIN all[d] = {"owner", "body"} /\ all[d].owner \in ServiceIds \cup {"none"}

\* What the reader holds of a service is what it is at that version.
ReaderOK(s) ==
  s = reader.service =>
    /\ reader.version \in Nat /\ 0 < reader.version /\ reader.version <= svc[s].version
    /\ svc[s].life # "none" /\ svc[s].version = reader.version =>
         /\ Catalogue!canonicalDraft(s) = reader.doc
         /\ svc[s].life = reader.life /\ svc[s].admins = reader.admins

CatalogueInv ==
  /\ DOMAIN svc = ServiceIds /\ DOMAIN revs = ServiceIds /\ DOMAIN snapshot = ServiceIds
  /\ \A s \in ServiceIds : ServiceOK(s) /\ ReaderOK(s)
  /\ DestsOK(dest) /\ edits \in 0..MaxChanges

\* What PublicationsAnnounced asks of a step about one service.
Announces(s) ==
  svc'[s].pub # svc[s].pub \/ (svc'[s].life # svc[s].life /\ svc'[s].life # "draft")
    => \E event \in announced' \ announced :
         event[1] = s /\ \A earlier \in announced : earlier[1] = s => earlier[2] < event[2]

LEMMA DocumentIsDoc ==
  ASSUME CatalogueBounds, NEW profile, NEW s, NEW all
  PROVE  /\ IsDoc(Catalogue!Document(profile, s, all))
         /\ Catalogue!ProfileOf(Catalogue!Document(profile, s, all)) = profile
<1> DEFINE doc == Catalogue!Document(profile, s, all)
<1>1. \A e : e \in doc <=> \/ e = <<"profile", profile>>
                           \/ \E d \in DestIds : all[d].owner = s /\ e = <<d, all[d].body>>
  BY DEF Catalogue!Document, Catalogue!Dests
<1> HIDE DEF doc
<1>2. \A e \in doc : e[1] = "profile" => e = <<"profile", profile>>
  BY <1>1 DEF CatalogueBounds
<1>3. <<"profile", profile>> \in doc
  BY <1>1
<1>4. \A e \in doc : e = <<e[1], e[2]>> /\ e[1] \in DestIds \cup {"profile"}
  BY <1>1
<1>5. \A e, o \in doc : e[1] = o[1] => e = o
  BY <1>1 DEF CatalogueBounds
<1>6. IsDoc(doc)
  BY <1>3, <1>4, <1>5 DEF IsDoc
<1>7. Catalogue!ProfileOf(doc) = profile
  <2> DEFINE first == CHOOSE entry \in doc : entry[1] = "profile"
  <2>1. first \in doc /\ first[1] = "profile"
    BY <1>3
  <2>2. Catalogue!ProfileOf(doc) = first[2]
    BY DEF Catalogue!ProfileOf
  <2> HIDE DEF first
  <2> QED
    BY <1>2, <2>1, <2>2
<1> QED
  BY <1>6, <1>7 DEF doc

\* The rows of a document make it again.
LEMMA ReplacedDocument ==
  ASSUME CatalogueBounds, DestsOK(dest), NEW s \in ServiceIds, NEW doc, IsDoc(doc)
  PROVE  Catalogue!Document(Catalogue!ProfileOf(doc), s, Catalogue!Replaced(s, doc)) = doc
<1> DEFINE all == Catalogue!Replaced(s, doc)
           entryOf(d) == CHOOSE entry \in Catalogue!Listed(doc) : entry[1] = d
<1>1. PICK p : <<"profile", p>> \in doc
  BY DEF IsDoc
<1>2. Catalogue!ProfileOf(doc) = p
  <2> DEFINE first == CHOOSE entry \in doc : entry[1] = "profile"
  <2>1. first \in doc /\ first[1] = "profile"
    BY <1>1
  <2>2. Catalogue!ProfileOf(doc) = first[2]
    BY DEF Catalogue!ProfileOf
  <2> HIDE DEF first
  <2>3. first = <<"profile", p>>
    BY <1>1, <2>1 DEF IsDoc
  <2> QED
    BY <2>2, <2>3
<1>3. ASSUME NEW e \in Catalogue!Listed(doc)
      PROVE  e[1] \in DestIds /\ entryOf(e[1]) = e /\ e = <<e[1], e[2]>>
  <2>1. e \in doc /\ e[1] # "profile"
    BY DEF Catalogue!Listed
  <2>2. entryOf(e[1]) \in Catalogue!Listed(doc) /\ entryOf(e[1])[1] = e[1]
    BY <1>3
  <2> HIDE DEF entryOf
  <2>3. entryOf(e[1]) \in doc
    BY <2>2 DEF Catalogue!Listed
  <2> QED
    BY <2>1, <2>2, <2>3 DEF IsDoc
<1>4. ASSUME NEW d \in DestIds
      PROVE  /\ all[d].owner = s <=> \E e \in Catalogue!Listed(doc) : e[1] = d
             /\ \A e \in Catalogue!Listed(doc) : e[1] = d => all[d].body = e[2]
  <2>1. all[d] = IF \E entry \in Catalogue!Listed(doc) : entry[1] = d
                 THEN [owner |-> s, body |-> entryOf(d)[2]]
                 ELSE IF dest[d].owner = s THEN Catalogue!NoDest ELSE dest[d]
    BY DEF Catalogue!Replaced
  <2> HIDE DEF all, entryOf
  <2> QED
    BY <1>3, <2>1 DEF Catalogue!NoDest, CatalogueBounds
<1> HIDE DEF all, entryOf
<1>5. \A e : e \in Catalogue!Document(p, s, all) <=>
               e = <<"profile", p>> \/ \E d \in DestIds : all[d].owner = s /\ e = <<d, all[d].body>>
  BY DEF Catalogue!Document, Catalogue!Dests
<1>6. ASSUME NEW e \in doc
      PROVE  e \in Catalogue!Document(p, s, all)
  <2>1. CASE e[1] = "profile"
    BY <1>1, <1>5, <2>1 DEF IsDoc
  <2>2. CASE e[1] # "profile"
    <3>1. e \in Catalogue!Listed(doc)
      BY <2>2 DEF Catalogue!Listed
    <3> QED
      BY <1>3, <1>4, <1>5, <3>1
  <2> QED
    BY <2>1, <2>2
<1>7. ASSUME NEW e \in Catalogue!Document(p, s, all)
      PROVE  e \in doc
  <2>1. CASE e = <<"profile", p>>
    BY <1>1, <2>1
  <2>2. CASE \E d \in DestIds : all[d].owner = s /\ e = <<d, all[d].body>>
    <3>1. PICK d \in DestIds : all[d].owner = s /\ e = <<d, all[d].body>>
      BY <2>2
    <3>2. PICK o \in Catalogue!Listed(doc) : o[1] = d
      BY <1>4, <3>1
    <3>3. o = <<d, all[d].body>> /\ o \in doc
      BY <1>3, <1>4, <3>2 DEF Catalogue!Listed
    <3> QED
      BY <3>1, <3>3
  <2> QED
    BY <1>5, <1>7, <2>1, <2>2
<1>8. Catalogue!Document(p, s, all) = doc
  BY <1>6, <1>7
<1> QED
  BY <1>2, <1>8 DEF all

\* Only rows of s and free ones are replaced, by rows of s and free ones.
LEMMA ReplacedRows ==
  ASSUME CatalogueBounds, DestsOK(dest), NEW s \in ServiceIds, NEW doc, IsDoc(doc),
         \A entry \in Catalogue!Listed(doc) : dest[entry[1]].owner \in {s, "none"}
  PROVE  /\ DestsOK(Catalogue!Replaced(s, doc))
         /\ \A d \in DestIds :
              \/ Catalogue!Replaced(s, doc)[d] = dest[d]
              \/ dest[d].owner \in {s, "none"} /\ Catalogue!Replaced(s, doc)[d].owner \in {s, "none"}
<1> DEFINE all == Catalogue!Replaced(s, doc)
<1>1. DOMAIN all = DestIds
  BY DEF Catalogue!Replaced
<1>2. ASSUME NEW d \in DestIds
      PROVE  /\ all[d] = dest[d] \/ (dest[d].owner \in {s, "none"} /\ all[d].owner \in {s, "none"})
             /\ DOMAIN all[d] = {"owner", "body"} /\ all[d].owner \in ServiceIds \cup {"none"}
  <2>1. PICK body : all[d] = IF \E entry \in Catalogue!Listed(doc) : entry[1] = d
                             THEN [owner |-> s, body |-> body]
                             ELSE IF dest[d].owner = s THEN Catalogue!NoDest ELSE dest[d]
    BY DEF Catalogue!Replaced
  <2> HIDE DEF all
  <2> QED
    BY <2>1 DEF Catalogue!NoDest, DestsOK
<1> QED
  BY <1>1, <1>2 DEF DestsOK

\* renamed is doc with its lost destinations under new names.
Renaming(s, doc, lost, fresh, renamed) ==
  /\ \A entry \in Catalogue!Listed(doc) : dest[entry[1]].owner \in {s, "none"}
  /\ \A e : e \in lost <=> e \in Catalogue!Listed(doc) /\ dest[e[1]].owner = "none"
  /\ fresh \in [lost -> Catalogue!FreeDests]
  /\ \A a, b \in lost : a # b => fresh[a] # fresh[b]
  /\ \A e : e \in renamed <=> e \in doc \ lost \/ \E o \in lost : e = <<fresh[o], o[2]>>

LEMMA RenamedIsDoc ==
  ASSUME CatalogueBounds, NEW s \in ServiceIds, NEW doc, IsDoc(doc), NEW lost, NEW fresh, NEW renamed,
         Renaming(s, doc, lost, fresh, renamed)
  PROVE  /\ IsDoc(renamed)
         /\ \A entry \in Catalogue!Listed(renamed) : dest[entry[1]].owner \in {s, "none"}
<1> USE DEF Renaming
<1>1. \A d \in Catalogue!FreeDests : d \in DestIds /\ d # "profile" /\ dest[d].owner = "none"
  BY DEF Catalogue!FreeDests, CatalogueBounds
<1>2. \A e \in doc \ lost : e[1] # "profile" => dest[e[1]].owner = s /\ s # "none"
  BY DEF Catalogue!Listed, CatalogueBounds
<1>3. \A e \in renamed : \/ e \in doc /\ e \notin lost
                         \/ \E o \in lost : e = <<fresh[o], o[2]>> /\ fresh[o] \in Catalogue!FreeDests
  OBVIOUS
<1>4. \A e \in renamed : e = <<e[1], e[2]>> /\ e[1] \in DestIds \cup {"profile"}
  <2> SUFFICES ASSUME NEW e \in renamed
               PROVE  e = <<e[1], e[2]>> /\ e[1] \in DestIds \cup {"profile"}
    OBVIOUS
  <2>1. CASE e \in doc
    BY <2>1 DEF IsDoc
  <2>2. CASE \E o \in lost : e = <<fresh[o], o[2]>> /\ fresh[o] \in Catalogue!FreeDests
    BY <1>1, <2>2
  <2> QED
    BY <1>3, <2>1, <2>2
<1>5. \A e, o \in renamed : e[1] = o[1] => e = o
  <2> SUFFICES ASSUME NEW e \in renamed, NEW o \in renamed, e[1] = o[1]
               PROVE  e = o
    OBVIOUS
  <2>1. CASE e \in doc \ lost /\ o \in doc \ lost
    BY <2>1 DEF IsDoc
  <2>2. ASSUME NEW a \in doc \ lost, NEW b \in lost, fresh[b] \in Catalogue!FreeDests
        PROVE  a[1] # fresh[b]
    BY <1>1, <1>2, <2>2
  <2>3. CASE e \in doc \ lost /\ o \notin doc \ lost
    BY <1>3, <2>2, <2>3
  <2>4. CASE e \notin doc \ lost /\ o \in doc \ lost
    BY <1>3, <2>2, <2>4
  <2>5. CASE e \notin doc \ lost /\ o \notin doc \ lost
    <3>1. PICK a \in lost : e = <<fresh[a], a[2]>>
      BY <1>3, <2>5
    <3>2. PICK b \in lost : o = <<fresh[b], b[2]>>
      BY <1>3, <2>5
    <3>3. a = b
      BY <3>1, <3>2
    <3> QED
      BY <3>1, <3>2, <3>3
  <2> QED
    BY <2>1, <2>3, <2>4, <2>5
<1>6. \E p : <<"profile", p>> \in renamed
  <2>1. PICK p : <<"profile", p>> \in doc
    BY DEF IsDoc
  <2>2. <<"profile", p>> \notin lost
    BY DEF Catalogue!Listed
  <2> QED
    BY <2>1, <2>2
<1>7. \A entry \in Catalogue!Listed(renamed) : dest[entry[1]].owner \in {s, "none"}
  <2> SUFFICES ASSUME NEW e \in renamed, e[1] # "profile"
               PROVE  dest[e[1]].owner \in {s, "none"}
    BY DEF Catalogue!Listed
  <2>1. CASE e \in doc \ lost
    BY <1>2, <2>1
  <2>2. CASE \E o \in lost : e = <<fresh[o], o[2]>> /\ fresh[o] \in Catalogue!FreeDests
    BY <1>1, <2>2
  <2> QED
    BY <1>3, <2>1, <2>2
<1> QED
  BY <1>4, <1>5, <1>6, <1>7 DEF IsDoc

\* What a step about s leaves to another service.
LeftApart(x) ==
  /\ svc'[x] = svc[x] /\ revs'[x] = revs[x] /\ snapshot'[x] = snapshot[x]
  /\ \A d \in DestIds : dest[d].owner = x \/ dest'[d].owner = x => dest'[d] = dest[d]
  /\ \A e \in announced' : e \in announced \/ e[1] # x

LEMMA ApartKeeps ==
  ASSUME NEW x \in ServiceIds, ServiceOK(x), LeftApart(x)
  PROVE  /\ ServiceOK(x)' /\ Catalogue!canonicalDraft(x)' = Catalogue!canonicalDraft(x)
<1>1. Catalogue!Dests(x, dest)' = Catalogue!Dests(x, dest)
  BY DEF LeftApart, Catalogue!Dests
<1>2. \A d \in Catalogue!Dests(x, dest) : dest'[d] = dest[d]
  BY DEF LeftApart, Catalogue!Dests
<1>3. Catalogue!canonicalDraft(x)' = Catalogue!canonicalDraft(x)
  BY <1>1, <1>2 DEF Catalogue!canonicalDraft, Catalogue!Document, LeftApart
<1>4. EventsOK(svc[x], x, announced)'
  BY DEF EventsOK, ServiceOK, LeftApart
<1>5. RevisionsOK(svc[x], revs[x])' /\ IsRow(svc[x])'
  BY DEF ServiceOK, LeftApart
<1> QED
  BY <1>1, <1>3, <1>4, <1>5 DEF ServiceOK, LeftApart

\* A step about s: what is alive has a new version or is what it was.
LEMMA ServiceSteps ==
  ASSUME CatalogueInv, NEW s \in ServiceIds, ServiceOK(s)', Announces(s),
         \A x \in ServiceIds : x # s => LeftApart(x),
         DOMAIN svc' = ServiceIds, DOMAIN revs' = ServiceIds, DOMAIN snapshot' = ServiceIds,
         DestsOK(dest'), reader' = reader, edits' \in 0..MaxChanges,
         \/ svc'[s].version = svc[s].version + 1
         \/ svc'[s].version = svc[s].version /\ svc'[s].life = "none"
         \/ /\ svc'[s].version = svc[s].version /\ svc'[s].life = svc[s].life
            /\ svc'[s].admins = svc[s].admins /\ Catalogue!canonicalDraft(s)' = Catalogue!canonicalDraft(s)
  PROVE  CatalogueInv' /\ \A x \in ServiceIds : Announces(x)
<1>1. ASSUME NEW x \in ServiceIds, x # s
      PROVE  ServiceOK(x)' /\ ReaderOK(x)' /\ Announces(x)
  <2>1. LeftApart(x) /\ ServiceOK(x) /\ ReaderOK(x)
    BY <1>1 DEF CatalogueInv
  <2>2. ServiceOK(x)' /\ Catalogue!canonicalDraft(x)' = Catalogue!canonicalDraft(x)
    BY <2>1, ApartKeeps
  <2>3. svc'[x] = svc[x] /\ reader' = reader
    BY <2>1 DEF LeftApart
  <2>4. ReaderOK(x)'
    BY <2>1, <2>2, <2>3 DEF ReaderOK
  <2>5. Announces(x)
    BY <2>3 DEF Announces
  <2> QED
    BY <2>2, <2>4, <2>5
<1>2. ReaderOK(s)'
  <2>1. ReaderOK(s) /\ svc[s].version \in Nat /\ svc'[s].version \in Nat
    BY DEF CatalogueInv, ServiceOK, IsRow
  <2> QED
    BY <2>1 DEF ReaderOK
<1> QED
  BY <1>1, <1>2 DEF CatalogueInv

\* The destinations stay, or change for s alone.
LEMMA OthersApart ==
  ASSUME CatalogueBounds, NEW s \in ServiceIds, NEW x \in ServiceIds, x # s,
         svc'[x] = svc[x], revs'[x] = revs[x], snapshot'[x] = snapshot[x],
         \A d \in DestIds :
           \/ dest'[d] = dest[d]
           \/ dest[d].owner \in {s, "none"} /\ dest'[d].owner \in {s, "none"},
         \/ announced' = announced
         \/ \E gen : announced' = announced \cup {<<s, gen>>}
  PROVE  LeftApart(x)
BY DEF LeftApart, CatalogueBounds

\* A row with other values in some fields.
LEMMA RowChanges ==
  ASSUME DOMAIN svc = ServiceIds, NEW s \in ServiceIds, NEW row, svc' = [svc EXCEPT ![s] = row]
  PROVE  /\ DOMAIN svc' = ServiceIds /\ svc'[s] = row
         /\ \A x \in ServiceIds : x # s => svc'[x] = svc[x]
OBVIOUS

\* The profile and the destinations of s become others, with their digest.
LEMMA Redrafts ==
  ASSUME CatalogueBounds, CatalogueInv, NEW s \in ServiceIds, svc[s].life # "none",
         NEW profile, NEW draft,
         svc' = [svc EXCEPT ![s].profile = profile, ![s].draft = draft, ![s].version = @ + 1],
         draft = Catalogue!Document(profile, s, dest'), DestsOK(dest'),
         \A d \in DestIds :
           \/ dest'[d] = dest[d]
           \/ dest[d].owner \in {s, "none"} /\ dest'[d].owner \in {s, "none"},
         edits' \in 0..MaxChanges, UNCHANGED <<revs, announced, snapshot, reader>>
  PROVE  CatalogueInv' /\ \A x \in ServiceIds : Announces(x)
<1>1. DOMAIN svc = ServiceIds /\ IsRow(svc[s]) /\ ServiceOK(s)
  BY DEF CatalogueInv, ServiceOK
<1>2. /\ DOMAIN svc' = ServiceIds /\ IsRow(svc'[s])
      /\ svc'[s].profile = profile /\ svc'[s].draft = draft /\ svc'[s].version = svc[s].version + 1
      /\ svc'[s].life = svc[s].life /\ svc'[s].pub = svc[s].pub /\ svc'[s].gen = svc[s].gen
      /\ svc'[s].pubDigest = svc[s].pubDigest
      /\ \A x \in ServiceIds : x # s => svc'[x] = svc[x]
  BY <1>1 DEF IsRow
<1>3. Catalogue!canonicalDraft(s)' = svc'[s].draft
  BY <1>2 DEF Catalogue!canonicalDraft
<1>4. RevisionsOK(svc[s], revs[s])' /\ EventsOK(svc[s], s, announced)'
  BY <1>1, <1>2 DEF ServiceOK, RevisionsOK, EventsOK
<1>5. svc'[s].version > 0
  BY <1>1, <1>2 DEF IsRow
<1>6. ServiceOK(s)'
  BY <1>2, <1>3, <1>4, <1>5 DEF ServiceOK
<1>7. Announces(s)
  BY <1>2 DEF Announces
<1>8. \A x \in ServiceIds : x # s => LeftApart(x)
  BY <1>2, OthersApart
<1> QED
  BY <1>2, <1>6, <1>7, <1>8, ServiceSteps DEF CatalogueInv

LEMMA ChangingBound ==
  ASSUME CatalogueBounds, CatalogueInv, Catalogue!Changing
  PROVE  edits' \in 0..MaxChanges
BY DEF CatalogueBounds, CatalogueInv, Catalogue!Changing

LEMMA CatalogueUpdates ==
  ASSUME CatalogueBounds, CatalogueInv, NEW s \in ServiceIds, NEW profile,
         Catalogue!updateProfile(s, profile)
  PROVE  CatalogueInv' /\ \A x \in ServiceIds : Announces(x)
<1>1. /\ svc[s].life # "none" /\ edits' \in 0..MaxChanges
      /\ svc' = [svc EXCEPT ![s].profile = profile, ![s].draft = Catalogue!Document(profile, s, dest), ![s].version = @ + 1]
      /\ UNCHANGED <<dest, revs, announced, snapshot, reader>>
  BY ChangingBound DEF Catalogue!updateProfile, Catalogue!Mutable, Catalogue!Redrafted
<1>2. Catalogue!Document(profile, s, dest) = Catalogue!Document(profile, s, dest')
  BY <1>1
<1>3. DestsOK(dest')
  BY <1>1 DEF CatalogueInv
<1> QED
  BY <1>1, <1>2, <1>3, Redrafts

LEMMA CatalogueDestinations ==
  ASSUME CatalogueBounds, CatalogueInv, NEW s \in ServiceIds, NEW d \in DestIds, NEW body,
         Catalogue!createDestination(s, d, body) \/ Catalogue!updateDestination(s, d, body) \/ Catalogue!deleteDestination(s, d)
  PROVE  CatalogueInv' /\ \A x \in ServiceIds : Announces(x)
<1>0. /\ DestsOK(dest) /\ DOMAIN dest = DestIds /\ DOMAIN dest[d] = {"owner", "body"}
  BY DEF CatalogueInv, DestsOK
<1>1. PICK row : /\ Catalogue!WithDestinations(s, [dest EXCEPT ![d] = row])
                 /\ DOMAIN row = {"owner", "body"} /\ row.owner \in {s, "none"}
                 /\ dest[d].owner \in {s, "none"}
  <2>1. CASE Catalogue!createDestination(s, d, body)
    BY <2>1 DEF Catalogue!createDestination, Catalogue!FreeDests
  <2>2. CASE Catalogue!updateDestination(s, d, body)
    <3>1. [dest EXCEPT ![d].body = body] = [dest EXCEPT ![d] = [dest[d] EXCEPT !.body = body]]
      BY <1>0
    <3>2. /\ DOMAIN [dest[d] EXCEPT !.body = body] = {"owner", "body"}
          /\ [dest[d] EXCEPT !.body = body].owner = dest[d].owner
      BY <1>0
    <3> QED
      BY <2>2, <3>1, <3>2 DEF Catalogue!updateDestination
  <2>3. CASE Catalogue!deleteDestination(s, d)
    BY <2>3 DEF Catalogue!deleteDestination, Catalogue!NoDest
  <2> QED
    BY <2>1, <2>2, <2>3
<1> DEFINE all == [dest EXCEPT ![d] = row]
<1>2. /\ svc[s].life # "none" /\ edits' \in 0..MaxChanges /\ dest' = all
      /\ svc' = [svc EXCEPT ![s].profile = svc[s].profile, ![s].draft = Catalogue!Document(svc[s].profile, s, all),
                            ![s].version = @ + 1]
      /\ UNCHANGED <<revs, announced, snapshot, reader>>
  BY <1>1, ChangingBound DEF Catalogue!WithDestinations, Catalogue!Mutable, Catalogue!Redrafted
<1>3. /\ DOMAIN all = DestIds /\ all[d] = row
      /\ \A e \in DestIds : e # d => all[e] = dest[e]
  BY <1>0
<1> HIDE DEF all
<1>4. DestsOK(all)
  BY <1>0, <1>1, <1>3 DEF DestsOK
<1>5. \A e \in DestIds :
        \/ dest'[e] = dest[e]
        \/ dest[e].owner \in {s, "none"} /\ dest'[e].owner \in {s, "none"}
  BY <1>1, <1>2, <1>3
<1>6. Catalogue!Document(svc[s].profile, s, all) = Catalogue!Document(svc[s].profile, s, dest') /\ DestsOK(dest')
  BY <1>2, <1>4
<1> QED
  BY <1>2, <1>5, <1>6, Redrafts

LEMMA CatalogueImports ==
  ASSUME CatalogueBounds, CatalogueInv, NEW s \in ServiceIds, NEW doc, IsDoc(doc), Catalogue!import(s, doc)
  PROVE  CatalogueInv' /\ \A x \in ServiceIds : Announces(x)
<1>1. /\ svc[s].life # "none" /\ edits' \in 0..MaxChanges
      /\ \A entry \in Catalogue!Listed(doc) : dest[entry[1]].owner \in {s, "none"}
      /\ UNCHANGED <<revs, announced, snapshot, reader>>
  BY ChangingBound DEF Catalogue!import, Catalogue!Mutable
<1> DEFINE lost == {entry \in Catalogue!Listed(doc) : dest[entry[1]].owner = "none"}
<1>2. PICK fresh \in [lost -> Catalogue!FreeDests] :
        /\ \A a, b \in lost : a # b => fresh[a] # fresh[b]
        /\ LET renamed == (doc \ lost) \cup {<<fresh[entry], entry[2]>> : entry \in lost}
           IN /\ dest' = Catalogue!Replaced(s, renamed)
              /\ svc' = [svc EXCEPT ![s].profile = Catalogue!ProfileOf(renamed),
                           ![s].draft = Catalogue!ImportedDigest(doc, renamed), ![s].version = @ + 1]
  BY DEF Catalogue!import
<1> DEFINE renamed == (doc \ lost) \cup {<<fresh[entry], entry[2]>> : entry \in lost}
<1>3. /\ dest' = Catalogue!Replaced(s, renamed)
      /\ svc' = [svc EXCEPT ![s].profile = Catalogue!ProfileOf(renamed), ![s].draft = renamed, ![s].version = @ + 1]
  BY <1>2 DEF Catalogue!ImportedDigest
<1>4. IsDoc(renamed) /\ \A entry \in Catalogue!Listed(renamed) : dest[entry[1]].owner \in {s, "none"}
  <2> HIDE DEF lost
  <2>1. \A e : e \in lost <=> e \in Catalogue!Listed(doc) /\ dest[e[1]].owner = "none"
    BY DEF lost
  <2>2. \A e : e \in renamed <=> e \in doc \ lost \/ \E o \in lost : e = <<fresh[o], o[2]>>
    BY DEF renamed
  <2>3. fresh \in [lost -> Catalogue!FreeDests] /\ \A a, b \in lost : a # b => fresh[a] # fresh[b]
    BY <1>2
  <2> HIDE DEF renamed
  <2>4. Renaming(s, doc, lost, fresh, renamed)
    BY <1>1, <2>1, <2>2, <2>3 DEF Renaming
  <2> QED
    BY <2>4, RenamedIsDoc
<1> HIDE DEF renamed
<1>5. renamed = Catalogue!Document(Catalogue!ProfileOf(renamed), s, dest')
  BY <1>3, <1>4, ReplacedDocument DEF CatalogueInv
<1>6. /\ DestsOK(dest')
      /\ \A d \in DestIds :
           \/ dest'[d] = dest[d]
           \/ dest[d].owner \in {s, "none"} /\ dest'[d].owner \in {s, "none"}
  BY <1>3, <1>4, ReplacedRows DEF CatalogueInv
<1> QED
  BY <1>1, <1>3, <1>5, <1>6, Redrafts

\* A service begins: a draft of its own, with destinations that were free.
LEMMA Begins ==
  ASSUME CatalogueBounds, CatalogueInv, NEW s \in ServiceIds,
         svc[s].life = "none", svc[s].version = 0, NEW profile,
         svc' = [svc EXCEPT ![s] = [Catalogue!NoService EXCEPT !.life = "draft", !.profile = profile,
                   !.version = 1, !.draft = Catalogue!Document(profile, s, dest')]],
         DestsOK(dest'),
         \A d \in DestIds :
           \/ dest'[d] = dest[d]
           \/ dest[d].owner \in {s, "none"} /\ dest'[d].owner \in {s, "none"},
         edits' \in 0..MaxChanges, UNCHANGED <<revs, announced, snapshot, reader>>
  PROVE  CatalogueInv' /\ \A x \in ServiceIds : Announces(x)
<1> DEFINE row == [Catalogue!NoService EXCEPT !.life = "draft", !.profile = profile, !.version = 1,
                                    !.draft = Catalogue!Document(profile, s, dest')]
<1>1. DOMAIN svc = ServiceIds /\ IsRow(svc[s]) /\ ServiceOK(s)
  BY DEF CatalogueInv, ServiceOK
<1>2. /\ IsRow(row) /\ row.life = "draft" /\ row.profile = profile /\ row.version = 1
      /\ row.draft = Catalogue!Document(profile, s, dest') /\ row.pub = 0 /\ row.gen = 0
  BY DEF Catalogue!NoService, IsRow
<1>3. svc' = [svc EXCEPT ![s] = row]
  OBVIOUS
<1> HIDE DEF row
<1>4. /\ DOMAIN svc' = ServiceIds /\ svc'[s] = row
      /\ \A x \in ServiceIds : x # s => svc'[x] = svc[x]
  BY <1>1, <1>3
<1>5. Catalogue!canonicalDraft(s)' = svc'[s].draft
  BY <1>2, <1>4 DEF Catalogue!canonicalDraft
<1>6. RevisionsOK(svc[s], revs[s])' /\ EventsOK(svc[s], s, announced)'
  BY <1>1, <1>2, <1>4 DEF ServiceOK, RevisionsOK, EventsOK
<1>7. ServiceOK(s)'
  BY <1>2, <1>4, <1>5, <1>6 DEF ServiceOK
<1>8. Announces(s)
  BY <1>1, <1>2, <1>4 DEF Announces, ServiceOK, RevisionsOK
<1>9. \A x \in ServiceIds : x # s => LeftApart(x)
  BY <1>4, OthersApart
<1>10. svc'[s].version = svc[s].version + 1
  BY <1>2, <1>4
<1> QED
  BY <1>4, <1>7, <1>8, <1>9, <1>10, ServiceSteps DEF CatalogueInv

LEMMA CatalogueCreates ==
  ASSUME CatalogueBounds, CatalogueInv, NEW s \in ServiceIds, NEW profile,
         Catalogue!create(s, profile)
  PROVE  CatalogueInv' /\ \A x \in ServiceIds : Announces(x)
<1>1. /\ svc[s].life = "none" /\ svc[s].version = 0 /\ edits' \in 0..MaxChanges
      /\ svc' = [svc EXCEPT ![s] = [Catalogue!NoService EXCEPT !.life = "draft", !.profile = profile,
                   !.version = 1, !.draft = Catalogue!Document(profile, s, dest)]]
      /\ UNCHANGED <<dest, revs, announced, snapshot, reader>>
  BY ChangingBound DEF Catalogue!create
<1>2. Catalogue!Document(profile, s, dest) = Catalogue!Document(profile, s, dest') /\ DestsOK(dest')
  BY <1>1 DEF CatalogueInv
<1> QED
  BY <1>1, <1>2, Begins

LEMMA CatalogueClones ==
  ASSUME CatalogueBounds, CatalogueInv, NEW source \in ServiceIds, NEW s \in ServiceIds, NEW profile,
         Catalogue!clone(source, s, profile)
  PROVE  CatalogueInv' /\ \A x \in ServiceIds : Announces(x)
<1>1. /\ svc[s].life = "none" /\ svc[s].version = 0 /\ edits' \in 0..MaxChanges
      /\ UNCHANGED <<revs, announced, snapshot, reader>>
  BY ChangingBound DEF Catalogue!clone
<1>2. PICK fresh \in [Catalogue!Dests(source, dest) -> Catalogue!FreeDests] :
        LET all == [d \in DestIds |->
                      IF \E a \in DOMAIN fresh : fresh[a] = d
                      THEN [owner |-> s, body |-> dest[CHOOSE a \in DOMAIN fresh : fresh[a] = d].body]
                      ELSE dest[d]]
        IN /\ dest' = all
           /\ svc' = [svc EXCEPT ![s] = [Catalogue!NoService EXCEPT !.life = "draft", !.profile = profile,
                        !.version = 1, !.draft = Catalogue!Document(profile, s, all)]]
  BY DEF Catalogue!clone
<1>3. svc' = [svc EXCEPT ![s] = [Catalogue!NoService EXCEPT !.life = "draft", !.profile = profile,
                !.version = 1, !.draft = Catalogue!Document(profile, s, dest')]]
  BY <1>2
<1>4. DOMAIN dest' = DestIds
  BY <1>2
<1>5. ASSUME NEW d \in DestIds
      PROVE  /\ dest'[d] = dest[d] \/ (dest[d].owner = "none" /\ dest'[d].owner = s)
             /\ DOMAIN dest'[d] = {"owner", "body"} /\ dest'[d].owner \in ServiceIds \cup {"none"}
  <2>1. PICK body : dest'[d] = IF \E a \in DOMAIN fresh : fresh[a] = d
                               THEN [owner |-> s, body |-> body] ELSE dest[d]
    BY <1>2
  <2>2. (\E a \in DOMAIN fresh : fresh[a] = d) => dest[d].owner = "none"
    BY DEF Catalogue!FreeDests
  <2> QED
    BY <2>1, <2>2 DEF CatalogueInv, DestsOK
<1>6. DestsOK(dest')
  BY <1>4, <1>5 DEF DestsOK
<1>7. \A d \in DestIds :
        \/ dest'[d] = dest[d]
        \/ dest[d].owner \in {s, "none"} /\ dest'[d].owner \in {s, "none"}
  BY <1>5
<1> QED
  BY <1>1, <1>3, <1>6, <1>7, Begins

LEMMA Least ==
  ASSUME NEW T \in SUBSET Nat, T # {}
  PROVE  \E x \in T : \A y \in T : x <= y
<1>1. \E x \in T : \A y \in T : ~ (<<y, x>> \in OpToRel(<,Nat))
  BY NatLessThanWellFounded, WFMin
<1>2. OpToRel(<,Nat) = {w \in Nat \X Nat : w[1] < w[2]}
  BY DEF OpToRel
<1>3. PICK x \in T : \A y \in T : ~ (<<y, x>> \in {w \in Nat \X Nat : w[1] < w[2]})
  BY <1>1, <1>2
<1>4. ASSUME NEW y \in T PROVE x <= y
  <2>1. x \in Nat /\ y \in Nat /\ <<y, x>> \in Nat \X Nat
    OBVIOUS
  <2>2. ~(y < x)
    BY <1>3, <2>1
  <2> QED
    BY <2>1, <2>2
<1> QED
  BY <1>4

\* Pruning takes one revision at most, and never the published one.
LEMMA Prunes ==
  ASSUME NEW s \in ServiceIds, RevisionsOK(svc[s], revs[s])
  PROVE  /\ Catalogue!pruneRevisions(s) \subseteq revs[s] /\ IsFiniteSet(Catalogue!pruneRevisions(s))
         /\ \A r \in revs[s] : r.seq = svc[s].pub => r \in Catalogue!pruneRevisions(s)
<1> DEFINE old == {r \in revs[s] : r.aged /\ r.seq # svc[s].pub}
           gone == CHOOSE r \in old : \A o \in old : r.seq <= o.seq
<1>1. Catalogue!pruneRevisions(s) = revs[s] \/ (old # {} /\ Catalogue!pruneRevisions(s) = revs[s] \ {gone})
  BY DEF Catalogue!pruneRevisions
<1>2. ASSUME old # {}
      PROVE  gone \in old
  <2> DEFINE seqs == {r.seq : r \in old}
  <2>1. seqs \in SUBSET Nat /\ seqs # {}
    BY <1>2 DEF RevisionsOK, IsRevision
  <2>2. \E n \in seqs : \A m \in seqs : n <= m
    <3> HIDE DEF seqs
    <3> QED
      BY <2>1, Least
  <2>3. \E r \in old : \A o \in old : r.seq <= o.seq
    BY <2>2
  <2> QED
    BY <2>3
<1>3. old # {} => gone.seq # svc[s].pub
  BY <1>2
<1> HIDE DEF old, gone
<1>4. Catalogue!pruneRevisions(s) \subseteq revs[s]
  BY <1>1
<1>5. IsFiniteSet(Catalogue!pruneRevisions(s))
  BY <1>4, FS_Subset DEF RevisionsOK
<1>6. \A r \in revs[s] : r.seq = svc[s].pub => r \in Catalogue!pruneRevisions(s)
  BY <1>1, <1>3
<1> QED
  BY <1>4, <1>5, <1>6

\* A member no other exceeds is the greatest.
LEMMA MaxSeqIs ==
  ASSUME NEW rs, \A r \in rs : r.seq \in Nat, NEW r \in rs, \A o \in rs : o.seq <= r.seq
  PROVE  Catalogue!MaxSeq(rs) = r.seq
<1> DEFINE most == CHOOSE m \in rs : \A o \in rs : o.seq <= m.seq
<1>1. most \in rs /\ \A o \in rs : o.seq <= most.seq
  OBVIOUS
<1>2. Catalogue!MaxSeq(rs) = most.seq
  BY DEF Catalogue!MaxSeq
<1> HIDE DEF most
<1> QED
  BY <1>1, <1>2

\* The revision that comes is above all that are kept.
LEMMA Follows ==
  ASSUME NEW s \in ServiceIds, Catalogue!Mutable(s), RevisionsOK(svc[s], revs[s])
  PROVE  /\ Catalogue!MaxSeq(Catalogue!pruneRevisions(s)) \in Nat
         /\ \A o \in Catalogue!pruneRevisions(s) : o.seq <= Catalogue!MaxSeq(Catalogue!pruneRevisions(s))
<1> DEFINE kept == Catalogue!pruneRevisions(s)
<1>1. /\ kept \subseteq revs[s]
      /\ \A r \in revs[s] : r.seq = svc[s].pub => r \in kept
      /\ \A r \in revs[s] : r.seq \in Nat
  BY Prunes DEF RevisionsOK, IsRevision
<1>2. CASE svc[s].life = "draft"
  <2>1. kept = {}
    BY <1>1, <1>2 DEF RevisionsOK
  <2> QED
    BY <2>1 DEF Catalogue!MaxSeq
<1>3. CASE svc[s].life = "published"
  <2>1. PICK r \in revs[s] : r.seq = svc[s].pub /\ \A o \in revs[s] : o.seq <= r.seq
    BY <1>3 DEF RevisionsOK
  <2>2. r \in kept /\ (\A o \in kept : o.seq <= r.seq) /\ \A o \in kept : o.seq \in Nat
    BY <1>1, <2>1
  <2> HIDE DEF kept
  <2>3. Catalogue!MaxSeq(kept) = r.seq
    BY <2>2, MaxSeqIs
  <2> QED
    BY <2>2, <2>3 DEF kept
<1> QED
  BY <1>2, <1>3 DEF Catalogue!Mutable

\* The row of s gets the next generation, with an event of it.
LEMMA Announced ==
  ASSUME NEW s \in ServiceIds, svc[s].gen \in Nat, svc[s].life # "none",
         EventsOK(svc[s], s, announced), Catalogue!Announce(s, svc[s].gen + 1)
  PROVE  /\ announced' = announced \cup {<<s, svc[s].gen + 1>>}
         /\ Announces(s)
         /\ \A e \in announced' : e[1] = s => e = <<s, e[2]>> /\ e[2] \in Nat /\ e[2] <= svc[s].gen + 1
<1>1. announced' = announced \cup {<<s, svc[s].gen + 1>>}
  BY DEF Catalogue!Announce
<1>2. \A e \in announced : e[1] = s => e = <<s, e[2]>> /\ e[2] \in Nat /\ e[2] <= svc[s].gen
  BY DEF EventsOK
<1> DEFINE event == <<s, svc[s].gen + 1>>
<1>3. event[1] = s /\ event[2] = svc[s].gen + 1
  OBVIOUS
<1>4. announced' = announced \cup {event}
  BY <1>1
<1> HIDE DEF event
<1>5. event \in announced' \ announced
  BY <1>2, <1>3, <1>4
<1>6. \A earlier \in announced : earlier[1] = s => earlier[2] < event[2]
  BY <1>2, <1>3
<1>7. Announces(s)
  BY <1>3, <1>5, <1>6 DEF Announces
<1>8. \A e \in announced' : e[1] = s => e = <<s, e[2]>> /\ e[2] \in Nat /\ e[2] <= svc[s].gen + 1
  BY <1>2, <1>3, <1>4 DEF event
<1> QED
  BY <1>1, <1>7, <1>8

LEMMA Publishes ==
  ASSUME CatalogueBounds, CatalogueInv, NEW s \in ServiceIds, Catalogue!Mutable(s), NEW doc, NEW source,
         Catalogue!Published(s, doc, source), IsDoc(doc), doc = Catalogue!Document(Catalogue!ProfileOf(doc), s, dest'),
         DestsOK(dest'),
         \A d \in DestIds :
           \/ dest'[d] = dest[d]
           \/ dest[d].owner \in {s, "none"} /\ dest'[d].owner \in {s, "none"},
         DOMAIN snapshot' = ServiceIds, \A x \in ServiceIds : x # s => snapshot'[x] = snapshot[x],
         edits' \in 0..MaxChanges, reader' = reader
  PROVE  CatalogueInv' /\ \A x \in ServiceIds : Announces(x)
<1> DEFINE kept == Catalogue!pruneRevisions(s)
           revision == [seq |-> Catalogue!MaxSeq(kept) + 1, doc |-> doc, gen |-> svc[s].gen + 1,
                        source |-> source, aged |-> FALSE]
<1>1. /\ DOMAIN svc = ServiceIds /\ DOMAIN revs = ServiceIds /\ ServiceOK(s)
      /\ IsRow(svc[s]) /\ RevisionsOK(svc[s], revs[s]) /\ EventsOK(svc[s], s, announced)
      /\ svc[s].life # "none"
  BY DEF CatalogueInv, ServiceOK, Catalogue!Mutable
<1>2. /\ Cardinality(kept) < MaxRevisions
      /\ revs' = [revs EXCEPT ![s] = kept \cup {revision}]
      /\ svc' = [svc EXCEPT ![s].life = "published", ![s].profile = Catalogue!ProfileOf(doc),
                   ![s].draft = doc, ![s].pub = revision.seq, ![s].pubDigest = doc,
                   ![s].gen = @ + 1, ![s].version = @ + 1]
      /\ Catalogue!Announce(s, svc[s].gen + 1)
  BY CatalogueCardinality DEF Catalogue!Published
<1>3. /\ kept \subseteq revs[s] /\ IsFiniteSet(kept) /\ Catalogue!MaxSeq(kept) \in Nat
      /\ \A o \in kept : o.seq <= Catalogue!MaxSeq(kept)
  BY <1>1, Prunes, Follows
<1>4. /\ IsRevision(revision) /\ revision.seq = Catalogue!MaxSeq(kept) + 1 /\ revision.doc = doc
      /\ revision.gen = svc[s].gen + 1
  BY <1>1, <1>3 DEF IsRevision, IsRow
<1> HIDE DEF revision
<1>5. /\ DOMAIN svc' = ServiceIds /\ IsRow(svc'[s])
      /\ svc'[s].profile = Catalogue!ProfileOf(doc) /\ svc'[s].draft = doc /\ svc'[s].version = svc[s].version + 1
      /\ svc'[s].life = "published" /\ svc'[s].pub = revision.seq /\ svc'[s].gen = svc[s].gen + 1
      /\ svc'[s].pubDigest = doc
      /\ \A x \in ServiceIds : x # s => svc'[x] = svc[x]
  <2> HIDE DEF kept
  <2>1. revision.seq \in Nat /\ svc[s].version \in Nat /\ svc[s].gen \in Nat
    BY <1>1, <1>4 DEF IsRow, IsRevision
  <2> QED
    BY <1>1, <1>2, <2>1 DEF IsRow
<1>6. /\ DOMAIN revs' = ServiceIds /\ revs'[s] = kept \cup {revision}
      /\ \A x \in ServiceIds : x # s => revs'[x] = revs[x]
  BY <1>1, <1>2
<1> HIDE DEF kept
<1>7. IsFiniteSet(revs'[s]) /\ Cardinality(revs'[s]) <= MaxRevisions
  <2>1. Cardinality(kept) \in Nat
    BY <1>3, FS_CardinalityType
  <2>2. /\ IsFiniteSet(kept \cup {revision})
        /\ Cardinality(kept \cup {revision}) = IF revision \in kept THEN Cardinality(kept) ELSE Cardinality(kept) + 1
    BY <1>3, FS_AddElement
  <2> QED
    BY <1>2, <1>6, <2>1, <2>2 DEF CatalogueBounds
<1>8. \A r \in revs'[s] : IsRevision(r) /\ r.gen <= svc'[s].gen /\ r.seq <= revision.seq
  <2>1. \A r \in kept : IsRevision(r) /\ r.gen <= svc[s].gen /\ r.seq <= Catalogue!MaxSeq(kept)
    BY <1>1, <1>3 DEF RevisionsOK
  <2> QED
    BY <1>1, <1>3, <1>4, <1>5, <1>6, <2>1 DEF IsRevision, IsRow
<1>9. \A r, o \in revs'[s] : r.seq < o.seq => r.gen < o.gen
  <2>1. \A r \in kept : r \in revs[s] /\ r.gen \in Nat /\ r.seq \in Nat
                        /\ r.gen < revision.gen /\ r.seq < revision.seq
    BY <1>1, <1>3, <1>4 DEF RevisionsOK, IsRevision, IsRow
  <2>2. revision.gen \in Nat /\ revision.seq \in Nat
    BY <1>4 DEF IsRevision
  <2> QED
    BY <1>1, <1>6, <2>1, <2>2 DEF RevisionsOK
<1>10. RevisionsOK(svc[s], revs[s])'
  BY <1>4, <1>5, <1>6, <1>7, <1>8, <1>9 DEF RevisionsOK
<1>11. /\ announced' = announced \cup {<<s, svc[s].gen + 1>>} /\ Announces(s)
       /\ \A e \in announced' : e[1] = s => e = <<s, e[2]>> /\ e[2] \in Nat /\ e[2] <= svc[s].gen + 1
  <2>1. svc[s].gen \in Nat
    BY <1>1 DEF IsRow
  <2> QED
    BY <1>1, <1>2, <2>1, Announced
<1>12. Catalogue!canonicalDraft(s)' = svc'[s].draft /\ svc'[s].version > 0
  BY <1>1, <1>5 DEF Catalogue!canonicalDraft, IsRow
<1>13. ServiceOK(s)'
  <2>1. EventsOK(svc[s], s, announced)'
    BY <1>5, <1>11 DEF EventsOK
  <2> QED
    BY <1>5, <1>10, <1>12, <2>1 DEF ServiceOK
<1>14. \A x \in ServiceIds : x # s => LeftApart(x)
  BY <1>5, <1>6, <1>11, OthersApart
<1> QED
  BY <1>5, <1>6, <1>11, <1>13, <1>14, ServiceSteps

LEMMA CataloguePublishes ==
  ASSUME CatalogueBounds, CatalogueInv, NEW s \in ServiceIds, Catalogue!publish(s)
  PROVE  CatalogueInv' /\ \A x \in ServiceIds : Announces(x)
<1> DEFINE doc == Catalogue!canonicalDraft(s)
<1>1. /\ Catalogue!Mutable(s) /\ edits' \in 0..MaxChanges /\ dest' = dest /\ reader' = reader
      /\ Catalogue!Published(s, doc, 0)
      /\ snapshot' = [snapshot EXCEPT ![s] = [doc |-> doc, gen |-> svc[s].gen + 1]]
  BY ChangingBound DEF Catalogue!publish
<1>2. IsDoc(doc) /\ Catalogue!ProfileOf(doc) = svc[s].profile
  BY DocumentIsDoc DEF Catalogue!canonicalDraft
<1>3. doc = Catalogue!Document(Catalogue!ProfileOf(doc), s, dest')
  BY <1>1, <1>2 DEF Catalogue!canonicalDraft
<1>4. /\ DestsOK(dest') /\ DOMAIN snapshot' = ServiceIds
      /\ \A x \in ServiceIds : x # s => snapshot'[x] = snapshot[x]
      /\ \A d \in DestIds : dest'[d] = dest[d]
  BY <1>1 DEF CatalogueInv
<1> HIDE DEF doc
<1> QED
  BY <1>1, <1>2, <1>3, <1>4, Publishes

LEMMA CatalogueRollsBack ==
  ASSUME CatalogueBounds, CatalogueInv, NEW s \in ServiceIds, NEW r, Catalogue!rollback(s, r)
  PROVE  CatalogueInv' /\ \A x \in ServiceIds : Announces(x)
<1>1. /\ Catalogue!Mutable(s) /\ edits' \in 0..MaxChanges /\ dest' = Catalogue!Replaced(s, r.doc)
      /\ Catalogue!Published(s, r.doc, r.seq) /\ UNCHANGED <<snapshot, reader>>
      /\ \A entry \in Catalogue!Listed(r.doc) : dest[entry[1]].owner \in {s, "none"}
  BY ChangingBound DEF Catalogue!rollback, Catalogue!assertDestinationIdsAvailable
<1>2. IsDoc(r.doc)
  BY DEF Catalogue!rollback, CatalogueInv, ServiceOK, RevisionsOK, IsRevision
<1>3. r.doc = Catalogue!Document(Catalogue!ProfileOf(r.doc), s, dest')
  BY <1>1, <1>2, ReplacedDocument DEF CatalogueInv
<1>4. /\ DestsOK(dest')
      /\ \A d \in DestIds :
           \/ dest'[d] = dest[d]
           \/ dest[d].owner \in {s, "none"} /\ dest'[d].owner \in {s, "none"}
  BY <1>1, <1>2, ReplacedRows DEF CatalogueInv
<1>5. /\ DOMAIN snapshot' = ServiceIds /\ reader' = reader
      /\ \A x \in ServiceIds : x # s => snapshot'[x] = snapshot[x]
  BY <1>1 DEF CatalogueInv
<1> DEFINE doc == r.doc
           source == r.seq
<1>6. /\ Catalogue!Published(s, doc, source) /\ IsDoc(doc) /\ doc = Catalogue!Document(Catalogue!ProfileOf(doc), s, dest')
  BY <1>1, <1>2, <1>3
<1> HIDE DEF doc, source
<1> QED
  BY <1>1, <1>4, <1>5, <1>6, Publishes

LEMMA CatalogueArchives ==
  ASSUME CatalogueBounds, CatalogueInv, NEW s \in ServiceIds, Catalogue!archive(s)
  PROVE  CatalogueInv' /\ \A x \in ServiceIds : Announces(x)
<1>1. /\ DOMAIN svc = ServiceIds /\ ServiceOK(s) /\ IsRow(svc[s]) /\ DestsOK(dest)
      /\ RevisionsOK(svc[s], revs[s]) /\ EventsOK(svc[s], s, announced) /\ svc[s].life # "none"
  BY DEF CatalogueInv, ServiceOK, Catalogue!archive, Catalogue!Mutable
<1>2. /\ edits' \in 0..MaxChanges /\ Catalogue!Announce(s, svc[s].gen + 1)
      /\ svc' = [svc EXCEPT ![s].life = "archived", ![s].pub = 0, ![s].pubDigest = {},
                   ![s].gen = @ + 1, ![s].version = @ + 1]
      /\ UNCHANGED <<dest, revs, snapshot, reader>>
  BY ChangingBound DEF Catalogue!archive
<1>3. /\ DOMAIN svc' = ServiceIds /\ IsRow(svc'[s])
      /\ svc'[s].profile = svc[s].profile /\ svc'[s].draft = svc[s].draft
      /\ svc'[s].version = svc[s].version + 1 /\ svc'[s].life = "archived"
      /\ svc'[s].pub = 0 /\ svc'[s].gen = svc[s].gen + 1
      /\ \A x \in ServiceIds : x # s => svc'[x] = svc[x]
  BY <1>1, <1>2 DEF IsRow
<1>4. RevisionsOK(svc[s], revs[s])'
  <2>1. \A r \in revs[s] : r.gen <= svc'[s].gen
    BY <1>1, <1>3 DEF RevisionsOK, IsRevision, IsRow
  <2> QED
    BY <1>1, <1>2, <1>3, <2>1 DEF RevisionsOK
<1>5. /\ announced' = announced \cup {<<s, svc[s].gen + 1>>} /\ Announces(s)
      /\ \A e \in announced' : e[1] = s => e = <<s, e[2]>> /\ e[2] \in Nat /\ e[2] <= svc[s].gen + 1
  <2>1. svc[s].gen \in Nat
    BY <1>1 DEF IsRow
  <2> QED
    BY <1>1, <1>2, <2>1, Announced
<1>6. EventsOK(svc[s], s, announced)'
  BY <1>3, <1>5 DEF EventsOK
<1>7. Catalogue!canonicalDraft(s)' = Catalogue!canonicalDraft(s) /\ svc'[s].version > 0
  BY <1>1, <1>2, <1>3 DEF Catalogue!canonicalDraft, IsRow
<1>8. ServiceOK(s)'
  BY <1>1, <1>3, <1>4, <1>6, <1>7 DEF ServiceOK
<1>9. \A x \in ServiceIds : x # s => LeftApart(x)
  BY <1>2, <1>3, <1>5, OthersApart
<1> QED
  BY <1>2, <1>3, <1>5, <1>8, <1>9, ServiceSteps DEF CatalogueInv

LEMMA CatalogueDeletes ==
  ASSUME CatalogueBounds, CatalogueInv, NEW s \in ServiceIds, Catalogue!delete(s)
  PROVE  CatalogueInv' /\ \A x \in ServiceIds : Announces(x)
<1>1. /\ DOMAIN svc = ServiceIds /\ DOMAIN revs = ServiceIds /\ DOMAIN snapshot = ServiceIds
      /\ ServiceOK(s) /\ IsRow(svc[s]) /\ DestsOK(dest)
      /\ EventsOK(svc[s], s, announced) /\ svc[s].life # "none" /\ svc[s].version > 0
  BY DEF CatalogueInv, ServiceOK, Catalogue!delete
<1>2. /\ edits' \in 0..MaxChanges /\ Catalogue!Announce(s, svc[s].gen + 1)
      /\ svc' = [svc EXCEPT ![s] = [Catalogue!NoService EXCEPT !.version = svc[s].version]]
      /\ dest' = [d \in DestIds |-> IF dest[d].owner = s THEN Catalogue!NoDest ELSE dest[d]]
      /\ revs' = [revs EXCEPT ![s] = {}]
      /\ snapshot' = [snapshot EXCEPT ![s] = [doc |-> {}, gen |-> 0]]
      /\ reader' = reader
  BY ChangingBound DEF Catalogue!delete
<1>3. /\ DOMAIN svc' = ServiceIds /\ IsRow(svc'[s])
      /\ svc'[s].version = svc[s].version /\ svc'[s].life = "none"
      /\ svc'[s].pub = 0 /\ svc'[s].gen = 0
      /\ \A x \in ServiceIds : x # s => svc'[x] = svc[x]
  BY <1>1, <1>2 DEF IsRow, Catalogue!NoService
<1>4. /\ DOMAIN revs' = ServiceIds /\ DOMAIN snapshot' = ServiceIds
      /\ revs'[s] = {} /\ snapshot'[s].gen = 0
      /\ \A x \in ServiceIds : x # s => revs'[x] = revs[x] /\ snapshot'[x] = snapshot[x]
  BY <1>1, <1>2
<1>5. /\ DestsOK(dest') /\ Catalogue!Dests(s, dest') = {}
      /\ \A d \in DestIds :
           \/ dest'[d] = dest[d]
           \/ dest[d].owner \in {s, "none"} /\ dest'[d].owner \in {s, "none"}
  <2>1. \A d \in DestIds : dest'[d] = IF dest[d].owner = s THEN Catalogue!NoDest ELSE dest[d]
    BY <1>2
  <2>2. DOMAIN dest' = DestIds
    BY <1>2
  <2> QED
    BY <1>1, <2>1, <2>2 DEF DestsOK, Catalogue!Dests, Catalogue!NoDest, CatalogueBounds
<1>6. /\ announced' = announced \cup {<<s, svc[s].gen + 1>>} /\ Announces(s)
      /\ \A e \in announced' : e[1] = s => e = <<s, e[2]>> /\ e[2] \in Nat /\ e[2] <= svc[s].gen + 1
  <2>1. svc[s].gen \in Nat
    BY <1>1 DEF IsRow
  <2> QED
    BY <1>1, <1>2, <2>1, Announced
<1>7. EventsOK(svc[s], s, announced)'
  BY <1>1, <1>3, <1>6 DEF EventsOK
<1>8. RevisionsOK(svc[s], revs[s])'
  BY <1>3, <1>4, FS_EmptySet DEF RevisionsOK, CatalogueBounds
<1>9. ServiceOK(s)'
  <2>1. Catalogue!Dests(s, dest)' = {}
    BY <1>5 DEF Catalogue!Dests
  <2> QED
    BY <1>3, <1>4, <1>7, <1>8, <2>1 DEF ServiceOK
<1>10. \A x \in ServiceIds : x # s => LeftApart(x)
  BY <1>3, <1>4, <1>5, <1>6, OthersApart
<1> QED
  BY <1>2, <1>3, <1>4, <1>5, <1>6, <1>9, <1>10, ServiceSteps

\* A row whose published state, profile and draft stay what they were.
LEMMA RowSteps ==
  ASSUME CatalogueBounds, CatalogueInv, NEW s \in ServiceIds, NEW row,
         svc' = [svc EXCEPT ![s] = row], IsRow(row),
         row.life = svc[s].life, row.profile = svc[s].profile, row.draft = svc[s].draft,
         row.pub = svc[s].pub, row.pubDigest = svc[s].pubDigest, row.gen = svc[s].gen,
         row.version = svc[s].version + 1 \/ (row.version = svc[s].version /\ row.admins = svc[s].admins),
         edits' \in 0..MaxChanges, UNCHANGED <<dest, revs, announced, snapshot, reader>>
  PROVE  CatalogueInv' /\ \A x \in ServiceIds : Announces(x)
<1>1. /\ DOMAIN svc = ServiceIds /\ ServiceOK(s) /\ IsRow(svc[s]) /\ DestsOK(dest)
      /\ RevisionsOK(svc[s], revs[s]) /\ EventsOK(svc[s], s, announced)
  BY DEF CatalogueInv, ServiceOK
<1>2. /\ DOMAIN svc' = ServiceIds /\ svc'[s] = row
      /\ \A x \in ServiceIds : x # s => svc'[x] = svc[x]
  BY <1>1
<1>3. RevisionsOK(svc[s], revs[s])' /\ EventsOK(svc[s], s, announced)'
  <2>1. svc[s].version \in Nat /\ (row.version = 0 => svc[s].version = 0)
    BY <1>1 DEF IsRow
  <2> QED
    BY <1>1, <1>2, <2>1 DEF RevisionsOK, EventsOK
<1>4. Catalogue!canonicalDraft(s)' = Catalogue!canonicalDraft(s) /\ Catalogue!Dests(s, dest)' = Catalogue!Dests(s, dest)
  BY <1>2 DEF Catalogue!canonicalDraft, Catalogue!Dests
<1>5. svc[s].life # "none" => svc'[s].version > 0
  BY <1>1, <1>2 DEF IsRow, ServiceOK
<1>6. ServiceOK(s)'
  BY <1>1, <1>2, <1>3, <1>4, <1>5 DEF ServiceOK
<1>7. Announces(s)
  BY <1>2 DEF Announces
<1>8. \A x \in ServiceIds : x # s => LeftApart(x)
  BY <1>2, OthersApart
<1> QED
  BY <1>1, <1>2, <1>4, <1>6, <1>7, <1>8, ServiceSteps DEF CatalogueInv

LEMMA CatalogueAdmins ==
  ASSUME CatalogueBounds, CatalogueInv, NEW s \in ServiceIds, NEW a \in ServiceAdmins,
         Catalogue!assignAdmin(s, a) \/ Catalogue!removeAdmin(s, a)
  PROVE  CatalogueInv' /\ \A x \in ServiceIds : Announces(x)
<1>1. DOMAIN svc = ServiceIds /\ IsRow(svc[s])
  BY DEF CatalogueInv, ServiceOK
<1>2. PICK admins : /\ svc' = [svc EXCEPT ![s].admins = admins, ![s].version = @ + 1]
                    /\ admins \subseteq ServiceAdmins
  <2>1. CASE Catalogue!assignAdmin(s, a)
    <3>1. svc' = [svc EXCEPT ![s].admins = svc[s].admins \cup {a}, ![s].version = @ + 1]
      BY <1>1, <2>1 DEF Catalogue!assignAdmin
    <3>2. svc[s].admins \cup {a} \subseteq ServiceAdmins
      BY <1>1 DEF IsRow
    <3> QED
      BY <3>1, <3>2, Zenon
  <2>2. CASE Catalogue!removeAdmin(s, a)
    <3>1. svc' = [svc EXCEPT ![s].admins = svc[s].admins \ {a}, ![s].version = @ + 1]
      BY <1>1, <2>2 DEF Catalogue!removeAdmin
    <3> QED
      BY <1>1, <3>1 DEF IsRow
  <2> QED
    BY <2>1, <2>2
<1>3. edits' \in 0..MaxChanges /\ UNCHANGED <<dest, revs, announced, snapshot, reader>>
  BY ChangingBound DEF Catalogue!assignAdmin, Catalogue!removeAdmin
<1> DEFINE row == svc'[s]
<1>4. svc' = [svc EXCEPT ![s] = row]
  BY <1>1, <1>2
<1>5. /\ IsRow(row) /\ row.version = svc[s].version + 1
      /\ row.life = svc[s].life /\ row.profile = svc[s].profile /\ row.draft = svc[s].draft
      /\ row.pub = svc[s].pub /\ row.pubDigest = svc[s].pubDigest /\ row.gen = svc[s].gen
  BY <1>1, <1>2 DEF IsRow
<1> HIDE DEF row
<1> QED
  BY <1>3, <1>4, <1>5, RowSteps

LEMMA CatalogueCredentials ==
  ASSUME CatalogueBounds, CatalogueInv, NEW s \in ServiceIds,
         Catalogue!CredentialStep(s) \/ Catalogue!CredentialReconciled(s)
  PROVE  CatalogueInv' /\ \A x \in ServiceIds : Announces(x)
<1>1. DOMAIN svc = ServiceIds /\ IsRow(svc[s]) /\ edits \in 0..MaxChanges
  BY DEF CatalogueInv, ServiceOK
<1>2. PICK state : svc' = [svc EXCEPT ![s].creds = state]
  BY DEF Catalogue!CredentialStep, Catalogue!CredentialReconciled
<1>3. edits' \in 0..MaxChanges /\ UNCHANGED <<dest, revs, announced, snapshot, reader>>
  BY <1>1, ChangingBound DEF Catalogue!CredentialStep, Catalogue!CredentialReconciled
<1> DEFINE row == svc'[s]
<1>4. svc' = [svc EXCEPT ![s] = row]
  BY <1>1, <1>2
<1>5. /\ IsRow(row) /\ row.version = svc[s].version /\ row.admins = svc[s].admins
      /\ row.life = svc[s].life /\ row.profile = svc[s].profile /\ row.draft = svc[s].draft
      /\ row.pub = svc[s].pub /\ row.pubDigest = svc[s].pubDigest /\ row.gen = svc[s].gen
  BY <1>1, <1>2 DEF IsRow
<1> HIDE DEF row
<1> QED
  BY <1>3, <1>4, <1>5, RowSteps

\* What changes no service, destination or revision keeps everything.
LEMMA CatalogueStays ==
  ASSUME CatalogueInv, UNCHANGED <<svc, dest, revs, announced, snapshot>>,
         edits' \in 0..MaxChanges, \A s \in ServiceIds : ReaderOK(s)'
  PROVE  CatalogueInv' /\ \A x \in ServiceIds : Announces(x)
<1>1. ASSUME NEW x \in ServiceIds
      PROVE  ServiceOK(x)'
  <2>1. LeftApart(x) /\ ServiceOK(x)
    BY DEF LeftApart, CatalogueInv
  <2> QED
    BY <2>1, ApartKeeps
<1> QED
  BY <1>1 DEF CatalogueInv, Announces

LEMMA CatalogueReads ==
  ASSUME CatalogueBounds, CatalogueInv, NEW s \in ServiceIds, Catalogue!Read(s)
  PROVE  CatalogueInv' /\ \A x \in ServiceIds : Announces(x)
<1>1. /\ svc[s].life # "none" /\ UNCHANGED <<svc, dest, revs, announced, snapshot, edits>>
      /\ reader' = [service |-> s, version |-> svc[s].version, doc |-> Catalogue!canonicalDraft(s),
                    life |-> svc[s].life, admins |-> svc[s].admins]
  BY DEF Catalogue!Read
<1>2. ASSUME NEW x \in ServiceIds
      PROVE  ReaderOK(x)'
  <2>1. ServiceOK(s) /\ IsRow(svc[s])
    BY DEF CatalogueInv, ServiceOK
  <2>2. Catalogue!canonicalDraft(s)' = Catalogue!canonicalDraft(s)
    BY <1>1 DEF Catalogue!canonicalDraft
  <2> QED
    BY <1>1, <2>1, <2>2 DEF ReaderOK, ServiceOK, IsRow
<1> QED
  BY <1>1, <1>2, CatalogueStays DEF CatalogueInv

LEMMA CatalogueSuspends ==
  ASSUME CatalogueBounds, CatalogueInv, NEW a, Catalogue!AccountSuspended(a)
  PROVE  CatalogueInv' /\ \A x \in ServiceIds : Announces(x)
<1>1. UNCHANGED <<svc, dest, revs, announced, snapshot, reader>> /\ edits' \in 0..MaxChanges
  BY ChangingBound DEF Catalogue!AccountSuspended
<1>2. ASSUME NEW x \in ServiceIds
      PROVE  ReaderOK(x)'
  <2>1. ReaderOK(x) /\ Catalogue!canonicalDraft(x)' = Catalogue!canonicalDraft(x)
    BY <1>1 DEF CatalogueInv, Catalogue!canonicalDraft
  <2> QED
    BY <1>1, <2>1 DEF ReaderOK
<1> QED
  BY <1>1, <1>2, CatalogueStays

LEMMA CatalogueAges ==
  ASSUME CatalogueBounds, CatalogueInv, Catalogue!RetentionPasses
  PROVE  CatalogueInv' /\ \A x \in ServiceIds : Announces(x)
<1>1. /\ revs' = [s \in ServiceIds |-> {[r EXCEPT !.aged = TRUE] : r \in revs[s]}]
      /\ UNCHANGED <<svc, dest, announced, snapshot, reader, edits>>
  BY DEF Catalogue!RetentionPasses
<1>2. ASSUME NEW x \in ServiceIds
      PROVE  ServiceOK(x)' /\ ReaderOK(x)'
  <2>1. ServiceOK(x) /\ ReaderOK(x) /\ RevisionsOK(svc[x], revs[x]) /\ EventsOK(svc[x], x, announced)
    BY DEF CatalogueInv, ServiceOK
  <2> DEFINE rs == revs[x]
             aged == [r \in rs |-> [r EXCEPT !.aged = TRUE]]
             later == {aged[r] : r \in rs}
  <2>2. revs'[x] = later
    BY <1>1
  <2>3. \A r \in rs : /\ DOMAIN aged[r] = DOMAIN r /\ (IsRevision(r) => IsRevision(aged[r]))
                      /\ (IsRevision(r) => aged[r].seq = r.seq /\ aged[r].doc = r.doc /\ aged[r].gen = r.gen)
    BY DEF IsRevision
  <2>4. IsFiniteSet(later) /\ Cardinality(later) <= Cardinality(rs)
    <3>1. aged \in Surjection(rs, later)
      BY DEF Surjection
    <3>2. IsFiniteSet(rs)
      BY <2>1 DEF RevisionsOK
    <3> HIDE DEF aged, later, rs
    <3> QED
      BY <3>1, <3>2, FS_Surjection
  <2>5. \A o \in later : \E r \in rs : o = aged[r]
    OBVIOUS
  <2>6. \A r \in rs : aged[r] \in later
    OBVIOUS
  <2>7. IsFiniteSet(rs) /\ Cardinality(rs) \in Nat /\ Cardinality(later) \in Nat
    BY <2>1, <2>4, FS_CardinalityType DEF RevisionsOK
  <2>8. rs = {} => later = {}
    OBVIOUS
  <2>9. \A r \in rs : IsRevision(r)
    BY <2>1 DEF RevisionsOK
  <2>10. RevisionsOK(svc[x], rs)
    BY <2>1
  <2> HIDE DEF aged, later, rs
  <2>11. RevisionsOK(svc[x], later)
    <3>1. Cardinality(later) <= MaxRevisions
      BY <2>4, <2>7, <2>10 DEF RevisionsOK, CatalogueBounds
    <3>2. \A r \in later : IsRevision(r) /\ r.gen <= svc[x].gen
      BY <2>3, <2>5, <2>9, <2>10 DEF RevisionsOK
    <3>3. \A r, o \in later : r.seq < o.seq => r.gen < o.gen
      BY <2>3, <2>5, <2>9, <2>10 DEF RevisionsOK
    <3>4. svc[x].life = "published" =>
            \E r \in later : /\ r.seq = svc[x].pub /\ r.doc = svc[x].pubDigest /\ r.gen = svc[x].gen
                             /\ \A o \in later : o.seq <= r.seq
      <4> SUFFICES ASSUME svc[x].life = "published"
                   PROVE  \E r \in later :
                            /\ r.seq = svc[x].pub /\ r.doc = svc[x].pubDigest /\ r.gen = svc[x].gen
                            /\ \A o \in later : o.seq <= r.seq
        OBVIOUS
      <4>1. PICK r \in rs : /\ r.seq = svc[x].pub /\ r.doc = svc[x].pubDigest /\ r.gen = svc[x].gen
                            /\ \A o \in rs : o.seq <= r.seq
        BY <2>10 DEF RevisionsOK
      <4>2. /\ aged[r] \in later /\ aged[r].seq = svc[x].pub /\ aged[r].doc = svc[x].pubDigest
            /\ aged[r].gen = svc[x].gen
        BY <2>3, <2>6, <2>9, <4>1
      <4>3. \A o \in later : o.seq <= aged[r].seq
        BY <2>3, <2>5, <2>9, <4>1
      <4> QED
        BY <4>2, <4>3
    <3> QED
      BY <2>4, <2>8, <2>10, <3>1, <3>2, <3>3, <3>4 DEF RevisionsOK
  <2>12. RevisionsOK(svc[x], revs[x])'
    BY <1>1, <2>2, <2>11
  <2>13. Catalogue!canonicalDraft(x)' = Catalogue!canonicalDraft(x) /\ Catalogue!Dests(x, dest)' = Catalogue!Dests(x, dest)
    BY <1>1 DEF Catalogue!canonicalDraft, Catalogue!Dests
  <2>14. EventsOK(svc[x], x, announced)'
    BY <1>1, <2>1 DEF EventsOK
  <2> QED
    BY <1>1, <2>1, <2>12, <2>13, <2>14 DEF ServiceOK, ReaderOK
<1>3. DOMAIN revs' = ServiceIds
  BY <1>1
<1>4. \A x \in ServiceIds : Announces(x)
  BY <1>1 DEF Announces
<1> QED
  BY <1>1, <1>2, <1>3, <1>4 DEF CatalogueInv

LEMMA CatalogueBegins ==
  ASSUME CatalogueBounds, Catalogue!Init
  PROVE  CatalogueInv
<1> DEFINE s == CHOOSE x \in ServiceIds : TRUE
           d == CHOOSE x \in DestIds : TRUE
           a == CHOOSE x \in ServiceAdmins : TRUE
           p == CHOOSE x \in Profiles : TRUE
           b == CHOOSE x \in Bodies : TRUE
           row == [Catalogue!NoService EXCEPT !.life = "draft", !.profile = p, !.version = 1,
                                    !.draft = {<<"profile", p>>, <<d, b>>}, !.admins = {a}]
<1>1. s \in ServiceIds /\ d \in DestIds /\ a \in ServiceAdmins
  BY DEF CatalogueBounds
<1>2. /\ dest = [x \in DestIds |-> IF x = d THEN [owner |-> s, body |-> b] ELSE Catalogue!NoDest]
      /\ svc = [x \in ServiceIds |-> IF x # s THEN Catalogue!NoService ELSE row]
      /\ revs = [x \in ServiceIds |-> {}] /\ announced = {}
      /\ snapshot = [x \in ServiceIds |-> [doc |-> {}, gen |-> 0]]
      /\ reader = Catalogue!NoReader /\ edits = 0
  BY DEF Catalogue!Init
<1>3. /\ IsRow(row) /\ row.life = "draft" /\ row.version = 1 /\ row.pub = 0 /\ row.gen = 0
      /\ row.profile = p /\ row.draft = {<<"profile", p>>, <<d, b>>}
  BY <1>1 DEF Catalogue!NoService, IsRow
<1>4. /\ IsRow(Catalogue!NoService) /\ Catalogue!NoService.life = "none" /\ Catalogue!NoService.version = 0 /\ Catalogue!NoService.pub = 0
      /\ Catalogue!NoService.gen = 0
  BY DEF Catalogue!NoService, IsRow
<1> HIDE DEF s, d, a, p, b, row
<1>5. DestsOK(dest)
  BY <1>1, <1>2 DEF DestsOK, Catalogue!NoDest
<1>6. ASSUME NEW x \in ServiceIds
      PROVE  RevisionsOK(svc[x], revs[x]) /\ EventsOK(svc[x], x, announced)
  <2>1. revs[x] = {} /\ announced = {} /\ (svc[x] = row \/ svc[x] = Catalogue!NoService)
    BY <1>2
  <2> QED
    BY <1>3, <1>4, <2>1, FS_EmptySet DEF RevisionsOK, EventsOK, CatalogueBounds
<1>7. ServiceOK(s)
  <2>1. svc[s] = row /\ dest[d].owner = s /\ dest[d].body = b
    BY <1>1, <1>2
  <2>2. \A x \in DestIds : x # d => dest[x].owner # s
    BY <1>1, <1>2 DEF Catalogue!NoDest, CatalogueBounds
  <2>3. Catalogue!Dests(s, dest) = {d}
    BY <1>1, <2>1, <2>2 DEF Catalogue!Dests
  <2>4. Catalogue!canonicalDraft(s) = {<<"profile", p>>, <<d, b>>}
    BY <1>3, <2>1, <2>3 DEF Catalogue!canonicalDraft, Catalogue!Document
  <2> QED
    BY <1>1, <1>3, <1>6, <2>1, <2>4 DEF ServiceOK
<1>8. ASSUME NEW x \in ServiceIds, x # s
      PROVE  ServiceOK(x)
  <2>1. svc[x] = Catalogue!NoService /\ snapshot[x].gen = 0
    BY <1>2, <1>8
  <2>2. Catalogue!Dests(x, dest) = {}
    BY <1>2, <1>8 DEF Catalogue!Dests, Catalogue!NoDest, CatalogueBounds
  <2> QED
    BY <1>4, <1>6, <2>1, <2>2 DEF ServiceOK
<1>9. \A x \in ServiceIds : ReaderOK(x)
  BY <1>2 DEF ReaderOK, Catalogue!NoReader, CatalogueBounds
<1>10. DOMAIN svc = ServiceIds /\ DOMAIN revs = ServiceIds /\ DOMAIN snapshot = ServiceIds
  BY <1>2
<1>11. edits \in 0..MaxChanges
  BY <1>2 DEF CatalogueBounds
<1> QED
  BY <1>5, <1>7, <1>8, <1>9, <1>10, <1>11 DEF CatalogueInv

LEMMA CatalogueSteps ==
  ASSUME CatalogueBounds, CatalogueInv, Catalogue!Next
  PROVE  CatalogueInv' /\ \A x \in ServiceIds : Announces(x)
<1>1. CASE \E s \in ServiceIds : Catalogue!DraftStep(s)
  <2>1. PICK s \in ServiceIds : Catalogue!DraftStep(s)
    BY <1>1
  <2>2. CASE \E p \in Profiles : Catalogue!create(s, p) \/ Catalogue!updateProfile(s, p)
    BY <2>2, CatalogueCreates, CatalogueUpdates
  <2>3. CASE \E d \in DestIds : Catalogue!deleteDestination(s, d)
    BY <2>3, CatalogueDestinations
  <2>4. CASE \E d \in DestIds, b \in Bodies : Catalogue!createDestination(s, d, b) \/ Catalogue!updateDestination(s, d, b)
    BY <2>4, CatalogueDestinations
  <2>5. CASE \E r \in revs[s] : Catalogue!import(s, r.doc)
    <3>1. PICK r \in revs[s] : Catalogue!import(s, r.doc)
      BY <2>5
    <3>2. IsDoc(r.doc)
      BY DEF CatalogueInv, ServiceOK, RevisionsOK, IsRevision
    <3> QED
      BY <3>1, <3>2, CatalogueImports
  <2>6. CASE \E source \in ServiceIds, p \in Profiles : Catalogue!clone(source, s, p)
    BY <2>6, CatalogueClones
  <2> QED
    BY <2>1, <2>2, <2>3, <2>4, <2>5, <2>6 DEF Catalogue!DraftStep
<1>2. CASE \E s \in ServiceIds : Catalogue!PublicationStep(s)
  BY <1>2, CataloguePublishes, CatalogueArchives, CatalogueDeletes, CatalogueRollsBack DEF Catalogue!PublicationStep
<1>3. CASE \E s \in ServiceIds : Catalogue!OtherStep(s)
  BY <1>3, CatalogueAdmins, CatalogueCredentials, CatalogueReads DEF Catalogue!OtherStep
<1>4. CASE \E a \in ServiceAdmins : Catalogue!AccountSuspended(a)
  BY <1>4, CatalogueSuspends
<1>5. CASE Catalogue!RetentionPasses
  BY <1>5, CatalogueAges
<1> QED
  BY <1>1, <1>2, <1>3, <1>4, <1>5 DEF Catalogue!Next

LEMMA CatalogueSafe ==
  ASSUME CatalogueBounds, CatalogueInv
  PROVE  Catalogue!RevisionsCoherent /\ Catalogue!SameVersionSameService
<1>1. \A s \in ServiceIds : ServiceOK(s) /\ IsRow(svc[s]) /\ RevisionsOK(svc[s], revs[s]) /\ ReaderOK(s)
  BY DEF CatalogueInv, ServiceOK
<1>2. Catalogue!TypeOK
  BY <1>1, CatalogueCardinality DEF Catalogue!TypeOK, CatalogueInv, DestsOK, IsRow, RevisionsOK
<1>3. ASSUME NEW s \in ServiceIds, svc[s].life = "published"
      PROVE  \E r \in revs[s] : /\ r.seq = svc[s].pub /\ r.seq = Catalogue!MaxSeq(revs[s])
                                /\ r.doc = svc[s].pubDigest /\ r.gen = svc[s].gen
  <2>1. PICK r \in revs[s] : /\ r.seq = svc[s].pub /\ r.doc = svc[s].pubDigest /\ r.gen = svc[s].gen
                             /\ \A o \in revs[s] : o.seq <= r.seq
    BY <1>1, <1>3 DEF RevisionsOK
  <2>2. Catalogue!MaxSeq(revs[s]) = r.seq
    BY <1>1, <2>1, MaxSeqIs DEF RevisionsOK, IsRevision
  <2> QED
    BY <2>1, <2>2
<1>4. Catalogue!RevisionsCoherent
  BY <1>1, <1>2, <1>3 DEF Catalogue!RevisionsCoherent, ServiceOK, RevisionsOK
<1>5. Catalogue!SameVersionSameService
  BY <1>1 DEF Catalogue!SameVersionSameService, ReaderOK
<1> QED
  BY <1>4, <1>5

\* A step that changes nothing keeps the invariant and announces nothing.
LEMMA CatalogueStutters ==
  ASSUME CatalogueBounds, CatalogueInv, UNCHANGED Catalogue!vars
  PROVE  CatalogueInv' /\ \A x \in ServiceIds : Announces(x)
<1>1. \A x \in ServiceIds : ReaderOK(x)'
  <2> SUFFICES ASSUME NEW x \in ServiceIds
               PROVE  ReaderOK(x)'
    OBVIOUS
  <2>1. ReaderOK(x) /\ Catalogue!canonicalDraft(x)' = Catalogue!canonicalDraft(x)
    BY DEF CatalogueInv, Catalogue!canonicalDraft, Catalogue!vars
  <2> QED
    BY <2>1 DEF ReaderOK, Catalogue!vars
<1> QED
  BY <1>1, CatalogueStays DEF CatalogueInv, Catalogue!vars

\* The strengthening holds of the services for any services, destinations,
\* administrators and limits, whatever is drafted, imported, published, rolled back,
\* archived or deleted (serviceManagement.ts).
THEOREM CatalogueInductive == CatalogueBounds => (Catalogue!Spec => []CatalogueInv)
<1> SUFFICES ASSUME CatalogueBounds
             PROVE  Catalogue!Spec => []CatalogueInv
  OBVIOUS
<1>1. Catalogue!Init => CatalogueInv
  BY CatalogueBegins
<1>2. CatalogueInv /\ [Catalogue!Next]_(Catalogue!vars) => CatalogueInv'
  BY CatalogueSteps, CatalogueStutters
<1> QED
  BY <1>1, <1>2, PTL DEF Catalogue!Spec

\* The stored digests and revisions of every service tell the truth, and the version
\* that a client read names one state of it (serviceManagement.ts updateDraftDigest,
\* pruneRevisions, requiredMutableService).
THEOREM RevisionsStayCoherent ==
  CatalogueBounds => (Catalogue!Spec => [](Catalogue!RevisionsCoherent /\ Catalogue!SameVersionSameService))
<1> SUFFICES ASSUME CatalogueBounds
             PROVE  Catalogue!Spec => [](Catalogue!RevisionsCoherent /\ Catalogue!SameVersionSameService)
  OBVIOUS
<1>1. CatalogueInv => Catalogue!RevisionsCoherent /\ Catalogue!SameVersionSameService
  BY CatalogueSafe
<1>2. Catalogue!Spec => []CatalogueInv
  BY CatalogueInductive
<1> QED
  BY <1>1, <1>2, PTL

\* Every change of what is published is announced under a generation of its own
\* (serviceManagement.ts publish, rollback, archive, runtimeInvalidation.ts).
THEOREM PublicationsStayAnnounced == CatalogueBounds => (Catalogue!Spec => Catalogue!PublicationsAnnounced)
<1> SUFFICES ASSUME CatalogueBounds
             PROVE  Catalogue!Spec => Catalogue!PublicationsAnnounced
  OBVIOUS
<1>1. CatalogueInv /\ [Catalogue!Next]_(Catalogue!vars) =>
        [\A s \in ServiceIds :
           svc'[s].pub # svc[s].pub \/ (svc'[s].life # svc[s].life /\ svc'[s].life # "draft")
             => \E event \in announced' \ announced :
                  /\ event[1] = s
                  /\ \A earlier \in announced : earlier[1] = s => earlier[2] < event[2]]_(Catalogue!vars)
  BY CatalogueSteps DEF Announces
<1>2. Catalogue!Spec => []CatalogueInv
  BY CatalogueInductive
<1> QED
  BY <1>1, <1>2, PTL DEF Catalogue!Spec, Catalogue!PublicationsAnnounced

-----------------------------------------------------------------------------
(* The accounts.                                                           *)

AccountBounds ==
  /\ Superadmins # {} /\ IsFiniteSet(Accounts!People)
  /\ RequestSlots \subseteq Nat /\ MaxRequests \in Nat

Roles == {"none", "user", "admin", "superadmin"}
UserRow == [role : Roles, status : Accounts!Statuses \cup {"absent", "deleted"}, version : Nat,
            temp : 0..MaxRequests]
AccountRequest == [kind : Accounts!Kinds, actor : Accounts!Actors, role : Roles \cup ActingKeys, target : Accounts!People,
              version : Nat, key : IdempotencyKeys \cup {"none"}, secret : 1..MaxRequests,
              services : BOOLEAN]
Displayed == [user : Accounts!People, secret : 1..MaxRequests]

Recoverable(rows) ==
  \E u \in Accounts!People : rows[u].role = "superadmin" /\ rows[u].status \in {"active", "enrollment_required"}

\* A temporary password in force was displayed, and no request under way has the
\* password of another or one that was displayed.
SecretsOK ==
  /\ \A u \in Accounts!People : user[u].temp # 0 => [user |-> u, secret |-> user[u].temp] \in shown
  /\ \A s \in RequestSlots : req[s] # Accounts!NoRequest =>
       /\ req[s].secret <= count
       /\ \A x \in shown : x.secret # req[s].secret
       /\ \A t \in RequestSlots : req[t] # Accounts!NoRequest /\ req[t].secret = req[s].secret => t = s
  /\ \A x \in shown : x.secret <= count

AccountsInv ==
  /\ user \in [Accounts!People -> UserRow]
  /\ related \subseteq Accounts!Actors \X Accounts!Actors
  /\ req \in [RequestSlots -> AccountRequest \cup {Accounts!NoRequest}]
  /\ \A k \in DOMAIN idem : idem[k] \in AccountRequest
  /\ shown \subseteq Displayed /\ count \in 0..MaxRequests
  /\ Recoverable(user) /\ SecretsOK

LEMMA RowTypes ==
  ASSUME AccountBounds
  PROVE  Accounts!Absent \in UserRow /\ Accounts!Deleted \in UserRow /\ Accounts!NoRequest \notin AccountRequest
<1>1. 0 \in 0..MaxRequests
  BY DEF AccountBounds
<1>2. Accounts!NoRequest.kind \notin Accounts!Kinds
  BY DEF Accounts!NoRequest, Accounts!Kinds, Accounts!Keyed, Accounts!Resets,
       Accounts!Invites, Accounts!RoleChanges
<1> QED
  BY <1>1, <1>2 DEF Accounts!Absent, Accounts!Deleted, UserRow, Roles, Accounts!Statuses,
       AccountRequest

LEMMA AccountsInit ==
  ASSUME AccountBounds, Accounts!Init
  PROVE  AccountsInv
<1> USE DEF Accounts!Init
<1>1. user \in [Accounts!People -> UserRow] /\ \A u \in Accounts!People : user[u].temp = 0
  <2>1. \A u \in Accounts!People : user[u] \in UserRow /\ user[u].temp = 0
    BY RowTypes DEF Accounts!Row, UserRow, Roles, Accounts!Statuses, Accounts!Absent,
         AccountBounds
  <2> QED
    BY <2>1
<1>2. PICK u \in Superadmins : TRUE
  BY DEF AccountBounds
<1>3. Recoverable(user)
  BY <1>2 DEF Recoverable, Accounts!People, Accounts!Row
<1>4. related \subseteq Accounts!Actors \X Accounts!Actors
  BY DEF Accounts!Actors, Accounts!People
<1>5. count \in 0..MaxRequests
  BY DEF AccountBounds
<1> QED
  BY <1>1, <1>3, <1>4, <1>5 DEF AccountsInv, SecretsOK

\* A request takes a slot, with a password of its own.
LEMMA AccountsTakes ==
  ASSUME AccountBounds, AccountsInv, NEW s \in RequestSlots, NEW r \in AccountRequest,
         r.secret = count + 1,
         Accounts!Takes(s, r)
  PROVE  AccountsInv'
<1>1. /\ req' = [req EXCEPT ![s] = r] /\ count' = count + 1 /\ count < MaxRequests
      /\ UNCHANGED <<user, related, idem, shown>>
  BY DEF Accounts!Takes
<1>2. count \in Nat /\ count' \in 0..MaxRequests /\ r # Accounts!NoRequest
  BY <1>1, RowTypes DEF AccountsInv, AccountBounds
<1>3. /\ req'[s] = r /\ \A t \in RequestSlots : t # s => req'[t] = req[t]
      /\ req' \in [RequestSlots -> AccountRequest \cup {Accounts!NoRequest}]
  BY <1>1 DEF AccountsInv
<1>4. ASSUME NEW t \in RequestSlots,
             req[t] # Accounts!NoRequest PROVE req[t] \in AccountRequest /\ req[t].secret \in Nat /\ req[t].secret <= count
  BY <1>4 DEF AccountsInv, SecretsOK, AccountRequest
<1>5. \A x \in shown : x.secret \in Nat /\ x.secret <= count
  BY DEF AccountsInv, SecretsOK, Displayed
<1>6. ASSUME NEW t \in RequestSlots, req'[t] # Accounts!NoRequest
      PROVE  /\ req'[t].secret <= count'
             /\ \A x \in shown : x.secret # req'[t].secret
             /\ \A w \in RequestSlots : req'[w] # Accounts!NoRequest /\ req'[w].secret = req'[t].secret => w = t
  BY <1>1, <1>2, <1>3, <1>4, <1>5, <1>6 DEF AccountsInv, SecretsOK
<1>7. SecretsOK'
  BY <1>1, <1>2, <1>5, <1>6 DEF AccountsInv, SecretsOK
<1> QED
  BY <1>1, <1>2, <1>3, <1>7 DEF AccountsInv

LEMMA AccountsRequest ==
  ASSUME AccountBounds, AccountsInv, NEW s \in RequestSlots,
         Accounts!commonMutation(s) \/ Accounts!repeated(s)
  PROVE  AccountsInv'
<1>1. CASE Accounts!commonMutation(s)
  <2>1. PICK u \in Accounts!People, a \in Accounts!Actors, kind \in Accounts!Kinds :
          \E k \in IF kind \in Accounts!Keyed THEN IdempotencyKeys ELSE {"none"} : Accounts!Takes(s, Accounts!RequestOf(a, u, kind, k))
    BY <1>1 DEF Accounts!commonMutation
  <2>2. PICK k \in IF kind \in Accounts!Keyed THEN IdempotencyKeys ELSE {"none"} : Accounts!Takes(s, Accounts!RequestOf(a, u, kind, k))
    BY <2>1
  <2> DEFINE r == Accounts!RequestOf(a, u, kind, k)
  <2>3. count < MaxRequests /\ count + 1 \in 1..MaxRequests
    BY <1>1 DEF Accounts!commonMutation, AccountsInv, AccountBounds
  <2>4. Accounts!ActorRole(a) \in Roles \cup ActingKeys
    BY DEF Accounts!ActorRole, AccountsInv, Accounts!Actors, UserRow
  <2>5. Accounts!relatedServiceIds(a, IF kind \in Accounts!Invites THEN a ELSE u) \in BOOLEAN
    BY DEF Accounts!relatedServiceIds
  <2>6. user[u].version \in Nat
    BY DEF AccountsInv, UserRow
  <2>7. r \in AccountRequest /\ r.secret = count + 1
    BY <2>2, <2>3, <2>4, <2>5, <2>6 DEF Accounts!RequestOf, AccountRequest
  <2> HIDE DEF r
  <2> QED
    BY <2>2, <2>7, AccountsTakes DEF r
<1>2. CASE Accounts!repeated(s)
  <2>1. PICK k \in DOMAIN idem : Accounts!Takes(s, [idem[k] EXCEPT !.secret = count + 1])
    BY <1>2 DEF Accounts!repeated
  <2> DEFINE r == [idem[k] EXCEPT !.secret = count + 1]
  <2>2. count + 1 \in 1..MaxRequests
    BY <2>1 DEF Accounts!Takes, AccountsInv, AccountBounds
  <2>3. r \in AccountRequest /\ r.secret = count + 1
    BY <2>2 DEF AccountsInv, AccountRequest
  <2> HIDE DEF r
  <2> QED
    BY <2>1, <2>3, AccountsTakes DEF r
<1> QED
  BY <1>1, <1>2

LEMMA WhichMutation ==
  ASSUME NEW r
  PROVE  /\ r.kind \in Accounts!Invites => Accounts!Mutation(r) = Accounts!invite(r)
         /\ r.kind = "resetPassword" => Accounts!Mutation(r) = Accounts!resetPassword(r)
         /\ r.kind = "reactivate" => Accounts!Mutation(r) = Accounts!reactivate(r)
         /\ r.kind = "restoreEnrollment" => Accounts!Mutation(r) = Accounts!restoreEnrollment(r)
         /\ r.kind = "resetTotp" => Accounts!Mutation(r) = Accounts!resetTotp(r)
         /\ r.kind \in {"suspend", "deactivate"} => Accounts!Mutation(r) = Accounts!transition(r)
         /\ r.kind \in Accounts!RoleChanges => Accounts!Mutation(r) = Accounts!changeRole(r)
         /\ r.kind = "deleteUser" => Accounts!Mutation(r) = Accounts!deleteUser(r)
         /\ r.kind = "updateProfile" => Accounts!Mutation(r) = Accounts!updateProfile(r)
BY DEF Accounts!Mutation, Accounts!Invites, Accounts!RoleChanges

\* The row with another status and role, a new version and perhaps a new password.
Changed(old, status, role) == [old EXCEPT !.status = status, !.role = role, !.version = @ + 1]

LEMMA ChangedShape ==
  ASSUME AccountBounds, NEW old \in UserRow,
         NEW status \in Accounts!Statuses \cup {"absent", "deleted"}, NEW role \in Roles
  PROVE  /\ Changed(old, status, role) \in UserRow
         /\ Changed(old, status, role).temp = old.temp
         /\ Changed(old, status, role).role = role
         /\ Changed(old, status, role).status = status
<1> DEFINE c == Changed(old, status, role)
<1>1. /\ c.temp = old.temp /\ c.role = role /\ c.status = status /\ c.version = old.version + 1
      /\ c = [role |-> c.role, status |-> c.status, version |-> c.version, temp |-> c.temp]
  <2>1. old = [role |-> old.role, status |-> old.status, version |-> old.version, temp |-> old.temp]
    BY DEF UserRow
  <2>2. c = [[[old EXCEPT !.status = status] EXCEPT !.role = role] EXCEPT !.version = old.version + 1]
    BY DEF Changed, UserRow
  <2>3. c = [role |-> role, status |-> status, version |-> old.version + 1, temp |-> old.temp]
    BY <2>1, <2>2
  <2> QED
    BY <2>3
<1> HIDE DEF c
<1>2. c \in UserRow
  BY <1>1 DEF UserRow
<1> QED
  BY <1>1, <1>2 DEF c

LEMMA PasswordReplaced ==
  ASSUME NEW row \in UserRow, NEW n \in 0..MaxRequests
  PROVE  [row EXCEPT !.temp = n] \in UserRow /\ [row EXCEPT !.temp = n].temp = n
BY DEF UserRow

\* A row that a mutation leaves has its type, and the password there was, none, or
\* the one of the request, which a reset or an invitation puts in force.
LEMMA MutationRow ==
  ASSUME AccountBounds, AccountsInv, NEW r \in AccountRequest, Accounts!Mutation(r).ok
  PROVE  /\ Accounts!Mutation(r).row \in UserRow
         /\ r.kind \in Accounts!Resets \cup Accounts!Invites => Accounts!Mutation(r).row.temp = r.secret
         /\ r.kind \notin Accounts!Resets \cup Accounts!Invites =>
              Accounts!Mutation(r).row.temp = 0 \/ Accounts!Mutation(r).row.temp = user[r.target].temp
<1> DEFINE old == user[r.target]
<1>0. old \in UserRow /\ r.kind \in Accounts!Kinds /\ r.secret \in 0..MaxRequests /\ 0 \in 0..MaxRequests
  BY DEF AccountsInv, AccountRequest, AccountBounds
<1>1. \A status, role : Accounts!updateUserSecurity(r, status, role) = Changed(old, status, role)
  BY DEF Accounts!updateUserSecurity, Changed
<1>2. /\ old.role \in Roles /\ old.status \in Accounts!Statuses \cup {"absent", "deleted"}
      /\ {"enrollment_required", "active", "suspended", "deactivated", "invited"} \subseteq Accounts!Statuses
      /\ {"user", "admin", "superadmin"} \subseteq Roles
  BY <1>0 DEF UserRow, Accounts!Statuses, Roles
<1> HIDE DEF old
<1>c. ASSUME NEW status \in Accounts!Statuses \cup {"absent", "deleted"}, NEW role \in Roles
      PROVE  /\ Changed(old, status, role) \in UserRow
             /\ Changed(old, status, role).temp = old.temp
  BY <1>0, ChangedShape
<1>3. CASE r.kind \in Accounts!Invites
  <2>1. Accounts!Mutation(r) = Accounts!invite(r)
    BY <1>3, WhichMutation
  <2>2. Accounts!RoleOf(r.kind) \in {"user", "admin"}
    BY <1>3 DEF Accounts!Invites, Accounts!RoleOf
  <2>3. Accounts!Mutation(r).row = [role |-> Accounts!RoleOf(r.kind), status |-> "invited", version |-> 1, temp |-> r.secret]
    BY <2>1 DEF Accounts!invite, Accounts!Allows
  <2> QED
    BY <1>0, <1>2, <1>3, <2>2, <2>3 DEF UserRow
<1>4. CASE r.kind \in Accounts!Resets
  <2>1. Accounts!Mutation(r).row = Accounts!resetToEnrollment(r)
    BY <1>4, WhichMutation DEF Accounts!Resets, Accounts!resetPassword, Accounts!reactivate,
         Accounts!restoreEnrollment, Accounts!Allows
  <2>2. Accounts!resetToEnrollment(r) = [Changed(old, "enrollment_required", old.role) EXCEPT !.temp = r.secret]
    BY <1>1 DEF Accounts!resetToEnrollment, old
  <2> QED
    BY <1>0, <1>2, <1>4, <1>c, <2>1, <2>2, PasswordReplaced
<1>5. CASE r.kind = "resetTotp"
  <2>1. Accounts!Mutation(r).row = Changed(old, "active", old.role)
    BY <1>1, <1>5, WhichMutation DEF Accounts!resetTotp, old, Accounts!Allows
  <2>2. r.kind \notin Accounts!Resets \cup Accounts!Invites
    BY <1>5 DEF Accounts!Resets, Accounts!Invites
  <2> QED
    BY <1>2, <1>c, <2>1, <2>2 DEF old
<1>6. CASE r.kind \in {"suspend", "deactivate"}
  <2> DEFINE next == IF r.kind = "suspend" THEN "suspended" ELSE "deactivated"
  <2>1. Accounts!Mutation(r).row = IF next = "deactivated" THEN [Changed(old, next, old.role) EXCEPT !.temp = 0]
                          ELSE Changed(old, next, old.role)
    BY <1>1, <1>6, WhichMutation DEF Accounts!transition, old, Accounts!Allows
  <2>2. next \in Accounts!Statuses
    BY <1>2
  <2>3. r.kind \notin Accounts!Resets \cup Accounts!Invites
    BY <1>6 DEF Accounts!Resets, Accounts!Invites
  <2> HIDE DEF next
  <2> QED
    BY <1>0, <1>2, <1>c, <2>1, <2>2, <2>3, PasswordReplaced DEF old
<1>7. CASE r.kind \in Accounts!RoleChanges
  <2>1. Accounts!Mutation(r).row = Changed(old, old.status, Accounts!RoleOf(r.kind))
    BY <1>1, <1>7, WhichMutation DEF Accounts!changeRole, old, Accounts!Allows
  <2>2. Accounts!RoleOf(r.kind) \in Roles
    BY <1>7 DEF Accounts!RoleOf, Accounts!RoleChanges, Roles
  <2>3. r.kind \notin Accounts!Resets \cup Accounts!Invites
    BY <1>7 DEF Accounts!Resets, Accounts!Invites, Accounts!RoleChanges
  <2>4. \A role \in Roles : Changed(old, old.status, role) \in UserRow
                             /\ Changed(old, old.status, role).temp = old.temp
    BY <1>2, <1>c
  <2>5. Accounts!Mutation(r).row \in UserRow /\ Accounts!Mutation(r).row.temp = old.temp
    BY <2>1, <2>2, <2>4
  <2> QED
    BY <2>3, <2>5 DEF old
<1>8. CASE r.kind = "deleteUser"
  <2>1. Accounts!Mutation(r).row = Accounts!Deleted
    BY <1>8, WhichMutation DEF Accounts!deleteUser, Accounts!Allows
  <2>2. Accounts!Deleted.temp = 0
    BY DEF Accounts!Deleted, Accounts!Absent
  <2> QED
    BY <1>8, <2>1, <2>2, RowTypes DEF Accounts!Resets, Accounts!Invites
<1>9. CASE r.kind = "updateProfile"
  <2>1. Accounts!Mutation(r).row = Changed(old, old.status, old.role)
    BY <1>1, <1>9, WhichMutation DEF Accounts!updateProfile, old, Accounts!Allows
  <2>2. r.kind \notin Accounts!Resets \cup Accounts!Invites
    BY <1>9 DEF Accounts!Resets, Accounts!Invites
  <2>3. Accounts!Mutation(r).row \in UserRow /\ Accounts!Mutation(r).row.temp = old.temp
    BY <1>2, <1>c, <2>1
  <2> QED
    BY <2>2, <2>3 DEF old
<1> QED
  BY <1>0, <1>3, <1>4, <1>5, <1>6, <1>7, <1>8, <1>9 DEF Accounts!Kinds, Accounts!Keyed

\* Another active superadmin is left.
LEMMA AnotherActive ==
  ASSUME AccountBounds, Cardinality(Accounts!ActiveSuperadmins) > 1, NEW u
  PROVE  \E v \in Accounts!ActiveSuperadmins : v # u
<1>1. CASE Accounts!ActiveSuperadmins \subseteq {u}
  <2>1. Accounts!ActiveSuperadmins = {} \/ Accounts!ActiveSuperadmins = {u}
    BY <1>1
  <2>2. Cardinality(Accounts!ActiveSuperadmins) \in {0, 1}
    BY <2>1, FS_EmptySet, FS_Singleton
  <2> QED
    BY <2>2
<1> QED
  BY <1>1

\* No committed mutation takes the last superadmin away.
LEMMA MutationRecoverable ==
  ASSUME AccountBounds, AccountsInv, NEW r \in AccountRequest, Accounts!requiredActor(r),
         Accounts!Mutation(r).ok,
         NEW rows, rows = [user EXCEPT ![r.target] = Accounts!Mutation(r).row]
  PROVE  Recoverable(rows)
<1> DEFINE t == r.target
           old == user[t]
           row == Accounts!Mutation(r).row
           Able(x) == x.role = "superadmin" /\ x.status \in {"active", "enrollment_required"}
<1>0. t \in Accounts!People /\ old \in UserRow /\ r.kind \in Accounts!Kinds
  BY DEF AccountsInv, AccountRequest
<1>1. rows[t] = row /\ \A u \in Accounts!People : u # t => rows[u] = user[u]
  BY <1>0 DEF AccountsInv
<1>2. CASE Able(row)
  BY <1>0, <1>1, <1>2 DEF Recoverable
<1>3. CASE ~Able(old)
  <2>1. PICK u \in Accounts!People : Able(user[u])
    BY DEF AccountsInv, Recoverable
  <2>2. u # t
    BY <1>3, <2>1
  <2> QED
    BY <1>1, <2>1, <2>2 DEF Recoverable
<1>4. CASE \E v \in Accounts!ActiveSuperadmins : v # t
  BY <1>1, <1>4 DEF Accounts!ActiveSuperadmins, Recoverable
<1>5. ASSUME Able(old), ~Able(row)
      PROVE  \E v \in Accounts!ActiveSuperadmins : v # t
  <2>1. CASE r.kind \in Accounts!Invites
    BY <1>5, <2>1, WhichMutation DEF Accounts!invite, Accounts!Allows, Accounts!Absent
  <2>2. CASE r.kind \in Accounts!Resets
    <3>1. row = Accounts!resetToEnrollment(r)
      BY <2>2, WhichMutation DEF Accounts!Resets, Accounts!resetPassword,
           Accounts!reactivate, Accounts!restoreEnrollment, Accounts!Allows
    <3>2. row.role = old.role /\ row.status = "enrollment_required"
      BY <1>0, <3>1 DEF Accounts!resetToEnrollment, Accounts!updateUserSecurity, UserRow
    <3> QED
      BY <1>5, <3>2
  <2>3. CASE r.kind = "resetTotp"
    <3>1. row = Accounts!updateUserSecurity(r, "active", old.role)
      BY <2>3, WhichMutation DEF Accounts!resetTotp, Accounts!Allows
    <3>2. row.role = old.role /\ row.status = "active"
      BY <1>0, <3>1 DEF Accounts!updateUserSecurity, UserRow
    <3> QED
      BY <1>5, <3>2
  <2>4. CASE r.kind \in {"suspend", "deactivate"}
    <3> DEFINE next == IF r.kind = "suspend" THEN "suspended" ELSE "deactivated"
    <3>1. Accounts!requireStatusTransition(old.status, next) /\ Accounts!requireNotLastActiveSuperadmin(t, old.role, next)
      BY <2>4, WhichMutation DEF Accounts!transition, Accounts!Allows
    <3>2. old.role = "superadmin" /\ old.status = "active" /\ next # "active"
      BY <1>5, <3>1 DEF Accounts!requireStatusTransition
    <3>3. Cardinality(Accounts!ActiveSuperadmins) > 1
      BY <3>1, <3>2, AccountsCardinality DEF Accounts!requireNotLastActiveSuperadmin
    <3> QED
      BY <3>3, AnotherActive
  <2>5. CASE r.kind \in Accounts!RoleChanges
    <3>1. /\ Accounts!RoleOf(r.kind) # old.role
          /\ IF r.actor \in ActingKeys
             THEN r.role = "system" /\ "superadmin" \notin {old.role, Accounts!RoleOf(r.kind)}
             ELSE r.role = "superadmin"
          /\ Accounts!requireNotLastActiveSuperadmin(t, Accounts!RoleOf(r.kind), old.status)
      BY <2>5, WhichMutation DEF Accounts!RoleChanges, Accounts!changeRole, Accounts!Allows
    <3>2. r.actor \notin ActingKeys /\ r.role = "superadmin" /\ r.actor \in Accounts!People
      BY <1>5, <3>1 DEF AccountRequest, Accounts!Actors
    <3>3. r.actor \in Accounts!ActiveSuperadmins
      BY <3>2 DEF Accounts!requiredActor, Accounts!ActiveSuperadmins
    <3>4. CASE r.actor # t
      BY <3>3, <3>4
    <3>5. CASE r.actor = t
      <4>1. old.status = "active" /\ old.role = "superadmin"
        BY <3>3, <3>5 DEF Accounts!ActiveSuperadmins
      <4>2. Cardinality(Accounts!ActiveSuperadmins) > 1
        BY <3>1, <4>1, AccountsCardinality DEF Accounts!requireNotLastActiveSuperadmin
      <4> QED
        BY <4>2, AnotherActive
    <3> QED
      BY <3>4, <3>5
  <2>6. CASE r.kind = "deleteUser"
    <3>1. Accounts!deleteUser(r).ok
      BY <2>6, WhichMutation
    <3>2. old.role # "superadmin"
      BY <3>1 DEF Accounts!deleteUser, Accounts!Allows
    <3> QED
      BY <1>5, <3>2
  <2>7. CASE r.kind = "updateProfile"
    <3>1. row = Accounts!updateUserSecurity(r, old.status, old.role)
      BY <2>7, WhichMutation DEF Accounts!RoleChanges, Accounts!updateProfile,
           Accounts!Allows
    <3>2. row.role = old.role /\ row.status = old.status
      BY <1>0, <3>1 DEF Accounts!updateUserSecurity, UserRow
    <3> QED
      BY <1>5, <3>2
  <2> QED
    BY <1>0, <2>1, <2>2, <2>3, <2>4, <2>5, <2>6, <2>7 DEF Accounts!Kinds, Accounts!Keyed
<1> HIDE DEF row, old
<1> QED
  BY <1>2, <1>3, <1>4, <1>5

\* The transaction of a request, whether it commits or not.
LEMMA AccountsMutation ==
  ASSUME AccountBounds, AccountsInv, NEW s \in RequestSlots, Accounts!auditedMutation(s)
  PROVE  /\ AccountsInv'
         /\ \A u \in Accounts!People, n \in 1..MaxRequests :
              [user |-> u, secret |-> n] \in shown' \ shown
                <=> user'[u].temp = n /\ user[u].temp # n
<1> DEFINE r == req[s]
           t == r.target
           x == [user |-> t, secret |-> r.secret]
           row == Accounts!Mutation(r).row
<1>1. /\ r # Accounts!NoRequest /\ r \in AccountRequest
      /\ req' = [req EXCEPT ![s] = Accounts!NoRequest] /\ count' = count
      /\ shown' = IF Accounts!Displays(r) THEN shown \cup {x} ELSE shown
  BY DEF Accounts!auditedMutation, AccountsInv
<1>2. /\ t \in Accounts!People /\ r.secret \in 1..MaxRequests /\ r.secret <= count
      /\ r.actor \in Accounts!Actors /\ x \in Displayed /\ x.secret = r.secret /\ x.user = t
      /\ \A y \in shown : y.secret # r.secret
      /\ \A w \in RequestSlots : w # s /\ req[w] # Accounts!NoRequest => req[w].secret # r.secret
  BY <1>1 DEF AccountsInv, SecretsOK, AccountRequest, Displayed
<1>3. /\ req' \in [RequestSlots -> AccountRequest \cup {Accounts!NoRequest}]
      /\ \A w \in RequestSlots : req'[w] # Accounts!NoRequest => w # s /\ req'[w] = req[w]
      /\ shown' \subseteq Displayed /\ shown \subseteq shown'
      /\ \A y \in shown' : y \in shown \/ y = x
  BY <1>1, <1>2 DEF AccountsInv
<1>4. /\ \A w \in RequestSlots : req'[w] # Accounts!NoRequest =>
           /\ req'[w].secret <= count'
           /\ \A y \in shown' : y.secret # req'[w].secret
           /\ \A z \in RequestSlots : req'[z] # Accounts!NoRequest /\ req'[z].secret = req'[w].secret => z = w
      /\ \A y \in shown' : y.secret <= count'
  BY <1>1, <1>2, <1>3 DEF AccountsInv, SecretsOK
<1>5. \A u \in Accounts!People : user[u].temp \in 0..MaxRequests /\ x # [user |-> u, secret |-> user[u].temp]
  <2> TAKE u \in Accounts!People
  <2>1. user[u].temp \in 0..MaxRequests
    BY DEF AccountsInv, UserRow
  <2>2. user[u].temp # 0 => [user |-> u, secret |-> user[u].temp] \in shown
    BY DEF AccountsInv, SecretsOK
  <2>3. user[u].temp # 0 => [user |-> u, secret |-> user[u].temp].secret # r.secret
    BY <1>2, <2>2
  <2>4. user[u].temp # r.secret
    BY <1>2, <2>3
  <2> QED
    BY <1>2, <2>1, <2>4
<1>6. CASE ~Accounts!Known(r) /\ Accounts!Commits(r)
  <2>1. /\ user' = [user EXCEPT ![t] = row] /\ idem' = Accounts!Remember(r)
        /\ related' = IF r.kind = "deleteUser" THEN {p \in related : t \notin {p[1], p[2]}}
                      ELSE Accounts!assignInvitedUser(r)
    BY <1>6 DEF Accounts!auditedMutation
  <2>2. Accounts!requiredActor(r) /\ Accounts!Mutation(r).ok
    BY <1>6 DEF Accounts!Commits
  <2>3. /\ row \in UserRow
        /\ r.kind \in Accounts!Resets \cup Accounts!Invites => row.temp = r.secret
        /\ r.kind \notin Accounts!Resets \cup Accounts!Invites => row.temp = 0 \/ row.temp = user[t].temp
    BY <1>1, <2>2, MutationRow
  <2>4. Recoverable(user')
    BY <1>1, <2>1, <2>2, MutationRecoverable
  <2>5. /\ user' \in [Accounts!People -> UserRow] /\ user'[t] = row
        /\ \A u \in Accounts!People : u # t => user'[u] = user[u]
    BY <1>2, <2>1, <2>3 DEF AccountsInv
  <2>6. related' \subseteq Accounts!Actors \X Accounts!Actors
    BY <1>2, <2>1 DEF AccountsInv, Accounts!assignInvitedUser, Accounts!Actors
  <2>7. \A k \in DOMAIN idem' : idem'[k] \in AccountRequest
    BY <1>1, <2>1 DEF AccountsInv, Accounts!Remember
  <2>8. Accounts!Displays(r) <=> r.kind \in Accounts!Resets \cup Accounts!Invites
    BY <1>6 DEF Accounts!Displays
  <2> HIDE DEF row, t
  <2>9. \A u \in Accounts!People, n \in 1..MaxRequests :
          [user |-> u, secret |-> n] \in shown' \ shown
            <=> user'[u].temp = n /\ user[u].temp # n
    <3> TAKE u \in Accounts!People, n \in 1..MaxRequests
    <3>1. CASE Accounts!Displays(r)
      <4>1. shown' = shown \cup {x} /\ x \notin shown
        BY <1>1, <1>2, <3>1
      <4>2. [user |-> u, secret |-> n] = x <=> u = t /\ n = r.secret
        BY <1>2
      <4>3. user'[t].temp = r.secret /\ user[t].temp # r.secret
        BY <1>2, <1>5, <2>3, <2>5, <2>8, <3>1
      <4>4. [user |-> u, secret |-> n] \in shown' \ shown <=> u = t /\ n = r.secret
        BY <4>1, <4>2
      <4>5. user'[u].temp = n /\ user[u].temp # n <=> u = t /\ n = r.secret
        BY <2>5, <4>3
      <4> QED
        BY <4>4, <4>5
    <3>2. CASE ~Accounts!Displays(r)
      <4>1. shown' = shown
        BY <1>1, <3>2
      <4>2. user'[u].temp = 0 \/ user'[u].temp = user[u].temp
        BY <2>3, <2>5, <2>8, <3>2
      <4> QED
        BY <4>1, <4>2
    <3> QED
      BY <3>1, <3>2
  <2>10. \A u \in Accounts!People : user'[u].temp # 0 => [user |-> u, secret |-> user'[u].temp] \in shown'
    <3> SUFFICES ASSUME NEW u \in Accounts!People, user'[u].temp # 0
                 PROVE  [user |-> u, secret |-> user'[u].temp] \in shown'
      OBVIOUS
    <3>1. user'[u].temp \in 1..MaxRequests
      BY <2>5 DEF UserRow, AccountBounds
    <3>2. CASE user'[u].temp = user[u].temp
      BY <1>3, <3>2 DEF AccountsInv, SecretsOK
    <3>3. CASE user'[u].temp # user[u].temp
      BY <2>9, <3>1, <3>3
    <3> QED
      BY <3>2, <3>3
  <2> QED
    BY <1>1, <1>3, <1>4, <2>4, <2>5, <2>6, <2>7, <2>9, <2>10 DEF AccountsInv, SecretsOK
<1>7. CASE Accounts!Known(r) \/ ~Accounts!Commits(r)
  <2>1. UNCHANGED <<user, related, idem>>
    BY <1>7 DEF Accounts!auditedMutation
  <2>2. shown' = shown
    BY <1>1, <1>7 DEF Accounts!Displays
  <2>3. SecretsOK'
    BY <1>4, <2>1, <2>2 DEF AccountsInv, SecretsOK
  <2>4. AccountsInv'
    BY <1>1, <1>3, <2>1, <2>2, <2>3 DEF AccountsInv
  <2> QED
    BY <2>1, <2>2, <2>4
<1> QED
  BY <1>6, <1>7

\* Enrolment spends the temporary password.
LEMMA AccountsEnrol ==
  ASSUME AccountBounds, AccountsInv, Accounts!Enrol
  PROVE  /\ AccountsInv'
         /\ shown' = shown /\ \A u \in Accounts!People : user'[u].temp \in {0, user[u].temp}
<1>1. PICK u \in Accounts!People :
        /\ user[u].status \in {"invited", "enrollment_required"}
        /\ user' = [user EXCEPT ![u].status = "active", ![u].temp = 0, ![u].version = @ + 1]
        /\ UNCHANGED <<related, req, idem, shown, fence, count>>
  BY DEF Accounts!Enrol
<1> DEFINE old == user[u]
           new == user'[u]
<1>2. old \in UserRow
  BY DEF AccountsInv
<1>3. new = [role |-> old.role, status |-> "active", version |-> old.version + 1, temp |-> 0]
  <2>1. new = [[[old EXCEPT !.status = "active"] EXCEPT !.temp = 0] EXCEPT !.version = old.version + 1]
    BY <1>1, <1>2 DEF AccountsInv, UserRow
  <2>2. old = [role |-> old.role, status |-> old.status, version |-> old.version, temp |-> old.temp]
    BY <1>2 DEF UserRow
  <2> HIDE DEF new, old
  <2> QED
    BY <2>1, <2>2
<1>4. new \in UserRow /\ new.role = old.role /\ new.status = "active" /\ new.temp = 0
  <2> HIDE DEF new, old
  <2> QED
    BY <1>2, <1>3 DEF UserRow, Accounts!Statuses, AccountBounds
<1>5. user' \in [Accounts!People -> UserRow] /\ \A w \in Accounts!People : w # u => user'[w] = user[w]
  <2>1. \A w \in Accounts!People : w # u => user'[w] = user[w]
    BY <1>1 DEF AccountsInv
  <2>2. DOMAIN user' = Accounts!People /\ user' = [w \in Accounts!People |-> user'[w]]
    BY <1>1 DEF AccountsInv
  <2>3. \A w \in Accounts!People : user'[w] \in UserRow
    BY <1>4, <2>1 DEF AccountsInv
  <2> QED
    BY <2>1, <2>2, <2>3
<1>6. Recoverable(user')
  BY <1>4, <1>5 DEF AccountsInv, Recoverable
<1>7. \A w \in Accounts!People : user'[w].temp \in {0, user[w].temp}
  BY <1>4, <1>5
<1>8. SecretsOK'
  BY <1>1, <1>7 DEF AccountsInv, SecretsOK
<1> QED
  BY <1>1, <1>5, <1>6, <1>7, <1>8 DEF AccountsInv

\* A step keeps the strengthening, and displays what it stores.
LEMMA AccountsNext ==
  ASSUME AccountBounds, AccountsInv, [Accounts!Next]_(Accounts!userVars)
  PROVE  /\ AccountsInv'
         /\ \A u \in Accounts!People, n \in 1..MaxRequests :
              [user |-> u, secret |-> n] \in shown' \ shown
                <=> user'[u].temp = n /\ user[u].temp # n
<1> DEFINE Told == \A u \in Accounts!People, n \in 1..MaxRequests :
              [user |-> u, secret |-> n] \in shown' \ shown
                <=> user'[u].temp = n /\ user[u].temp # n
<1> SUFFICES AccountsInv' /\ Told
  OBVIOUS
<1>1. ASSUME NEW s \in RequestSlots,
             Accounts!commonMutation(s) \/ Accounts!repeated(s) PROVE AccountsInv' /\ Told
  <2>1. AccountsInv'
    BY <1>1, AccountsRequest
  <2>2. UNCHANGED <<user, shown>>
    BY <1>1 DEF Accounts!commonMutation, Accounts!repeated, Accounts!Takes
  <2> QED
    BY <2>1, <2>2
<1>2. ASSUME NEW s \in RequestSlots, Accounts!auditedMutation(s) PROVE AccountsInv' /\ Told
  BY <1>2, AccountsMutation
<1>3. CASE Accounts!Enrol
  <2>1. AccountsInv' /\ shown' = shown /\ \A u \in Accounts!People : user'[u].temp \in {0, user[u].temp}
    BY <1>3, AccountsEnrol
  <2> QED
    BY <2>1
<1>4. CASE Accounts!Unrelate
  <2>1. related' \subseteq related /\ UNCHANGED <<user, req, idem, shown, count>>
    BY <1>4 DEF Accounts!Unrelate
  <2>2. AccountsInv'
    BY <2>1 DEF AccountsInv, SecretsOK
  <2> QED
    BY <2>1, <2>2
<1>5. CASE UNCHANGED Accounts!userVars
  <2>1. UNCHANGED <<user, related, req, idem, shown, count>>
    BY <1>5 DEF Accounts!userVars
  <2>2. AccountsInv'
    BY <2>1 DEF AccountsInv, SecretsOK
  <2> QED
    BY <2>1, <2>2
<1> HIDE DEF Told
<1> QED
  BY <1>1, <1>2, <1>3, <1>4, <1>5 DEF Accounts!Next

LEMMA AccountsSafe ==
  ASSUME AccountBounds, AccountsInv
  PROVE  Accounts!SuperadminRecoverable
BY DEF AccountsInv, Accounts!SuperadminRecoverable, Recoverable, Accounts!TypeOK, UserRow,
     Roles

\* What is proved of the accounts, without the other parts.
AccountsSafety == Accounts!Init /\ [][Accounts!Next]_(Accounts!userVars)

\* The strengthening holds of the accounts for any people, keys and requests, at any
\* interleaving of administration requests, repetitions, enrolment and changes of
\* relationships (userLifecycleAdministration.ts, userAdministration.ts).
THEOREM AccountsInductive == AccountBounds /\ AccountsSafety => []AccountsInv
<1> SUFFICES ASSUME AccountBounds PROVE AccountsSafety => []AccountsInv
  OBVIOUS
<1>1. Accounts!Init => AccountsInv
  BY AccountsInit
<1>2. AccountsInv /\ [Accounts!Next]_(Accounts!userVars) => AccountsInv'
  BY AccountsNext
<1> QED
  BY <1>1, <1>2, PTL DEF AccountsSafety

\* The last superadmin is never suspended, deactivated, demoted or deleted, whoever
\* asks and whatever overlaps (userLifecycleAdministration.ts
\* requireNotLastActiveSuperadmin).
THEOREM AccountsStayRecoverable ==
  AccountBounds /\ AccountsSafety => []Accounts!SuperadminRecoverable
<1> SUFFICES ASSUME AccountBounds PROVE AccountsSafety => []Accounts!SuperadminRecoverable
  OBVIOUS
<1>1. AccountsInv => Accounts!SuperadminRecoverable
  BY AccountsSafe
<1> QED
  BY <1>1, AccountsInductive, PTL

\* A reply displays a temporary password if and only if its transaction put it in
\* force (userLifecycleAdministration.ts temporaryMaterial, idempotentMutation).
THEOREM PasswordsDisplayedAreStored ==
  AccountBounds /\ AccountsSafety => Accounts!DisplayedIsStored
<1> SUFFICES ASSUME AccountBounds PROVE AccountsSafety => Accounts!DisplayedIsStored
  OBVIOUS
<1>1. AccountsInv /\ [Accounts!Next]_(Accounts!userVars) =>
        [\A u \in Accounts!People, n \in 1 .. MaxRequests :
           [user |-> u, secret |-> n] \in shown' \ shown <=>
             user'[u].temp = n /\ user[u].temp # n]_(Accounts!userVars)
  BY AccountsNext
<1> QED
  BY <1>1, AccountsInductive, PTL DEF AccountsSafety, Accounts!DisplayedIsStored

-----------------------------------------------------------------------------
(* The API keys.                                                           *)

\* What the limits, the identifiers and the requests have to be.
KeyBounds ==
  /\ KeyIds \subseteq Nat \ {0} /\ 1 \in KeyIds
  /\ IsFiniteSet(Clients) /\ Clients \subseteq Nat \ {0}
  /\ PoolSize \in Nat /\ PerWindow \in Nat /\ KeyWindow \in Nat \ {0} /\ MaxEntries \in Nat
  /\ MaxKeyTime \in Nat

KeyRow == [status : {"none", "active", "expired", "revoked"}, scope : KeyTable!Scopes \cup {"none"},
           expires : Nat, version : Nat, nick : {0} \cup KeyTable!Nicknames, root : Nat, bound : Nat]

\* The keys of a lineage have its scope, expire no later than its first, and one at
\* most is active.
LineageOK(rows) ==
  /\ rows \in [KeyIds -> KeyRow]
  /\ \A k \in KeyIds : rows[k].status = "none" <=> rows[k].root = 0
  /\ \A k \in KeyIds : rows[k].root # 0 =>
       /\ rows[k].root \in KeyIds /\ rows[rows[k].root].root = rows[k].root
       /\ rows[k].scope = rows[rows[k].root].scope
       /\ rows[k].expires <= rows[rows[k].root].bound
  /\ \A k, m \in KeyIds :
       rows[k].status = "active" /\ rows[m].status = "active" /\ rows[k].root = rows[m].root => k = m

\* No key is forgotten, comes back or lives longer.
NoneComesBack(rows, rows2) ==
  \A k \in KeyIds : rows[k].status # "none" =>
    /\ rows2[k].status # "none"
    /\ rows[k].status # "active" => rows2[k].status # "active"
    /\ rows2[k].expires <= rows[k].expires

\* A request as it goes on.
Presenting == [stage : {"read", "checking", "verified"}, kind : KeyTable!Kinds, key : KeyIds,
               known : BOOLEAN, right : BOOLEAN]
AcceptedKey == [stage : {"accepted"}, key : KeyIds, nick : {0} \cup KeyTable!Nicknames,
                scope : KeyTable!Scopes \cup {"none"}]
KeyRequestRow == Presenting \cup AcceptedKey \cup [stage : {"idle", "over", "blocked", "acted"}]

CheckingOf(requests, kind) == {c \in Clients : requests[c].stage = "checking" /\ requests[c].kind = kind}
VerifiersOK(counts, requests) ==
  /\ counts \in [KeyTable!Kinds -> 0..PoolSize]
  /\ \A kind \in KeyTable!Kinds : counts[kind] = Cardinality(CheckingOf(requests, kind))

DeskOK ==
  /\ DOMAIN desk = Managers
  /\ \A u \in Managers : desk[u].op \in {"update", "revoke", "rotate"} =>
       desk[u].key \in KeyIds /\ key[desk[u].key].status # "none"

\* The limiter's entries count the verifications granted since they began, and none
\* was granted in the window of an entry that is gone.
LimiterIds == Clients \cup {KeyTable!Source}
LimiterEntry == [start : Nat, count : Nat]
KeyGrant == [id : LimiterIds, at : Nat, by : Clients]
ChargedSince(g, id, start) == {x \in g : x.id = id /\ x.at >= start}
EntryOK(entry, g, id) ==
  /\ entry.start <= now
  /\ entry.count > 0 =>
       /\ entry.count = Cardinality(ChargedSince(g, id, entry.start))
       /\ \A x \in g : x.id = id => x.at < entry.start + KeyWindow
  /\ entry.count = 0 => \A x \in g : x.id = id => x.at < now
GrantsOK(entries, g) ==
  /\ entries \in [LimiterIds -> LimiterEntry]
  /\ IsFiniteSet(g) /\ g \subseteq KeyGrant /\ \A x \in g : x.at <= now
  /\ \A id \in LimiterIds : EntryOK(entries[id], g, id)
ArrivedOK(g, requests) == \A x \in g : requests[x.by] # KeyTable!NoClient

KeysInv ==
  /\ LineageOK(key) /\ now \in 0..MaxKeyTime
  /\ DeskOK
  /\ client \in [Clients -> KeyRequestRow]
  /\ VerifiersOK(pool, client)
  /\ GrantsOK(limiter, granted) /\ ArrivedOK(granted, client)

\* What a step may do to requests and keys.
Resumes(c) ==
  client'[c] # client[c] /\ client'[c].stage \in {"accepted", "acted", "blocked"}
    => KeyTable!Live(client[c].key)
KeysStepOK == NoneComesBack(key, key') /\ \A c \in Clients : Resumes(c)

\* A key changes for the worse.
LEMMA RowWorsens ==
  ASSUME KeyBounds, NEW rows, LineageOK(rows), NEW k \in KeyIds, NEW row \in KeyRow,
         rows[k].status # "none",
         row.root = rows[k].root, row.scope = rows[k].scope, row.bound = rows[k].bound,
         row.expires <= rows[k].expires,
         row.status # "none", row.status = "active" => rows[k].status = "active",
         NEW rows2, rows2 = [rows EXCEPT ![k] = row]
  PROVE  LineageOK(rows2) /\ NoneComesBack(rows, rows2)
<1>1. /\ rows2 \in [KeyIds -> KeyRow] /\ rows2[k] = row
      /\ \A m \in KeyIds : m # k => rows2[m] = rows[m]
  BY DEF LineageOK
<1>2. \A m \in KeyIds : /\ rows2[m].root = rows[m].root /\ rows2[m].scope = rows[m].scope
                        /\ rows2[m].bound = rows[m].bound
                        /\ rows[m].expires \in Nat /\ rows2[m].expires \in Nat /\ rows[m].bound \in Nat
                        /\ rows2[m].expires <= rows[m].expires
                        /\ rows2[m].status = "none" <=> rows[m].status = "none"
                        /\ rows2[m].status = "active" => rows[m].status = "active"
  BY <1>1 DEF LineageOK, KeyRow
<1>3. \A m \in KeyIds : rows2[m].status = "none" <=> rows2[m].root = 0
  BY <1>2 DEF LineageOK
<1>4. ASSUME NEW m \in KeyIds, rows2[m].root # 0
      PROVE  /\ rows2[m].root \in KeyIds /\ rows2[rows2[m].root].root = rows2[m].root
             /\ rows2[m].scope = rows2[rows2[m].root].scope
             /\ rows2[m].expires <= rows2[rows2[m].root].bound
  <2>1. rows[m].root # 0 /\ rows2[m].root = rows[m].root
    BY <1>2, <1>4
  <2>2. /\ rows[m].root \in KeyIds /\ rows[rows[m].root].root = rows[m].root
        /\ rows[m].scope = rows[rows[m].root].scope
        /\ rows[m].expires <= rows[rows[m].root].bound
    BY <2>1 DEF LineageOK
  <2> QED
    BY <1>2, <2>1, <2>2
<1>5. \A a, b \in KeyIds : rows2[a].status = "active" /\ rows2[b].status = "active" /\ rows2[a].root = rows2[b].root => a = b
  BY <1>2 DEF LineageOK
<1>6. LineageOK(rows2)
  BY <1>1, <1>3, <1>4, <1>5 DEF LineageOK
<1>7. NoneComesBack(rows, rows2)
  BY <1>2 DEF NoneComesBack
<1> QED
  BY <1>6, <1>7

\* A key is added, at the start of a lineage or at the end of one that has none active.
LEMMA RowAdded ==
  ASSUME KeyBounds, NEW rows, LineageOK(rows), NEW k \in KeyIds, NEW row \in KeyRow,
         rows[k].status = "none", row.status = "active",
         \/ row.root = k /\ row.expires <= row.bound
         \/ \E m \in KeyIds :
              /\ rows[m].status # "none" /\ row.root = rows[m].root /\ row.scope = rows[m].scope
              /\ row.expires <= rows[m].expires
              /\ \A n \in KeyIds : rows[n].root = rows[m].root => rows[n].status # "active",
         NEW rows2, rows2 = [rows EXCEPT ![k] = row]
  PROVE  LineageOK(rows2) /\ NoneComesBack(rows, rows2)
<1>1. /\ rows2 \in [KeyIds -> KeyRow] /\ rows2[k] = row
      /\ \A m \in KeyIds : m # k => rows2[m] = rows[m]
  BY DEF LineageOK
<1>2. k \in Nat /\ k # 0 /\ rows[k].root = 0
  BY DEF KeyBounds, LineageOK
<1>3. ASSUME NEW m \in KeyIds, m # k, rows[m].root # 0
      PROVE  /\ rows[m].root \in KeyIds /\ rows[m].root # k /\ rows[rows[m].root].root = rows[m].root
             /\ rows[m].scope = rows[rows[m].root].scope
             /\ rows[m].expires <= rows[rows[m].root].bound
  BY <1>2, <1>3 DEF LineageOK
<1>4. row.root # 0 /\ row.root \in KeyIds /\ (row.root # k => rows[row.root].root = row.root)
  BY <1>2 DEF LineageOK
<1>5. \A m \in KeyIds : rows2[m].status = "none" <=> rows2[m].root = 0
  BY <1>1, <1>4 DEF LineageOK
<1>6. ASSUME NEW m \in KeyIds, rows2[m].root # 0
      PROVE  /\ rows2[m].root \in KeyIds /\ rows2[rows2[m].root].root = rows2[m].root
             /\ rows2[m].scope = rows2[rows2[m].root].scope
             /\ rows2[m].expires <= rows2[rows2[m].root].bound
  <2>1. CASE m # k
    BY <1>1, <1>3, <1>6, <2>1
  <2>2. CASE m = k /\ row.root = k /\ row.expires <= row.bound
    BY <1>1, <2>2
  <2>3. CASE m = k /\ row.root # k
    <3>1. PICK n \in KeyIds :
              /\ rows[n].status # "none" /\ row.root = rows[n].root /\ row.scope = rows[n].scope
              /\ row.expires <= rows[n].expires
      BY <2>3
    <3>2. n # k /\ rows[n].root # 0
      BY <3>1 DEF LineageOK
    <3>3. /\ rows2[row.root] = rows[row.root] /\ rows[row.root].root = row.root
          /\ rows[n].scope = rows[row.root].scope /\ rows[n].expires <= rows[row.root].bound
      BY <1>1, <1>3, <3>1, <3>2
    <3>4. row.expires \in Nat /\ rows[n].expires \in Nat /\ rows[row.root].bound \in Nat
      BY <1>4 DEF LineageOK, KeyRow
    <3> QED
      BY <1>1, <1>4, <2>3, <3>1, <3>3, <3>4
  <2> QED
    BY <1>1, <1>2, <2>1, <2>2, <2>3 DEF LineageOK
<1>7. ASSUME NEW m \in KeyIds, m # k,
             rows[m].status = "active" PROVE rows[m].root # row.root
  <2>1. rows[m].root # 0 /\ rows[m].root # k
    BY <1>3, <1>7 DEF LineageOK
  <2> QED
    BY <1>7, <2>1
<1>8. \A a, b \in KeyIds : rows2[a].status = "active" /\ rows2[b].status = "active" /\ rows2[a].root = rows2[b].root => a = b
  BY <1>1, <1>7 DEF LineageOK
<1>9. LineageOK(rows2)
  BY <1>1, <1>5, <1>6, <1>8 DEF LineageOK
<1>10. NoneComesBack(rows, rows2)
  <2>1. \A m \in KeyIds : rows[m].status # "none" => rows2[m] = rows[m] /\ rows[m].expires \in Nat
    BY <1>1 DEF LineageOK, KeyRow
  <2> QED
    BY <2>1 DEF NoneComesBack
<1> QED
  BY <1>9, <1>10

LEMMA FinalTwice ==
  ASSUME NEW a, NEW b, NEW c, LineageOK(a), LineageOK(b), LineageOK(c), NoneComesBack(a,
         b), NoneComesBack(b, c)
  PROVE  NoneComesBack(a, c)
<1>1. \A k \in KeyIds : a[k].expires \in Nat /\ b[k].expires \in Nat /\ c[k].expires \in Nat
  BY DEF LineageOK, KeyRow
<1> QED
  BY <1>1 DEF NoneComesBack

LEMMA FinalSame ==
  ASSUME LineageOK(key)
  PROVE  NoneComesBack(key, key)
BY DEF NoneComesBack, LineageOK, KeyRow

\* An order is settled.
LEMMA OrderSettled ==
  ASSUME KeyBounds, KeysInv, NEW u \in Managers, NEW rows, KeyTable!Settles(u, rows),
         LineageOK(rows), NoneComesBack(key, rows)
  PROVE  KeysInv' /\ KeysStepOK
<1>1. /\ key' = rows /\ desk' = [desk EXCEPT ![u] = KeyTable!NoOrder]
      /\ UNCHANGED <<now, client, pool, limiter, granted>>
  BY DEF KeyTable!Settles
<1>2. DeskOK'
  <2>1. DOMAIN desk' = Managers /\ desk'[u] = KeyTable!NoOrder /\ \A w \in Managers : w # u => desk'[w] = desk[w]
    BY <1>1 DEF KeysInv, DeskOK
  <2>2. KeyTable!NoOrder.op = "none"
    BY DEF KeyTable!NoOrder
  <2> QED
    BY <1>1, <2>1, <2>2 DEF KeysInv, DeskOK, NoneComesBack
<1>3. KeysInv'
  BY <1>1, <1>2 DEF KeysInv, GrantsOK, EntryOK, VerifiersOK, ArrivedOK, CheckingOf
<1>4. KeysStepOK
  BY <1>1 DEF KeysStepOK, Resumes
<1> QED
  BY <1>3, <1>4

LEMMA KeysOrder ==
  ASSUME KeyBounds, KeysInv, NEW u \in Managers,
         KeyTable!OrderCreate(u) \/ KeyTable!OrderChange(u)
  PROVE  KeysInv' /\ KeysStepOK
<1>1. /\ UNCHANGED <<key, now, client, pool, limiter, granted>>
      /\ \E op \in {"create", "update", "revoke", "rotate"}, k \in KeyIds \cup {0}, version \in Nat :
           /\ desk' = [desk EXCEPT ![u] = [op |-> op, key |-> k, version |-> version]]
           /\ op # "create" => k \in KeyIds /\ key[k].status # "none"
  BY DEF KeyTable!OrderCreate, KeyTable!OrderChange, KeyTable!Order, KeysInv, LineageOK,
       KeyRow
<1>2. DeskOK'
  BY <1>1 DEF KeysInv, DeskOK
<1>3. KeysInv'
  BY <1>1, <1>2 DEF KeysInv, GrantsOK, EntryOK, VerifiersOK, ArrivedOK, CheckingOf
<1>4. KeysStepOK
  BY <1>1, FinalSame DEF KeysStepOK, Resumes, KeysInv
<1> QED
  BY <1>3, <1>4

LEMMA KeysCreate ==
  ASSUME KeyBounds, KeysInv, NEW u \in Managers, KeyTable!create(u)
  PROVE  KeysInv' /\ KeysStepOK
<1>1. PICK k \in KeyIds, scope \in KeyTable!Scopes, expires \in {MaxKeyTime + 1, KeyTable!Forever} :
        /\ key[k].status = "none"
        /\ KeyTable!Settles(u, [key EXCEPT ![k] = [status |-> "active", scope |-> scope, expires |-> expires,
             version |-> 1, nick |-> 1, root |-> k, bound |-> expires]])
  BY DEF KeyTable!create, KeyTable!Unused
<1> DEFINE row == [status |-> "active", scope |-> scope, expires |-> expires,
                   version |-> 1, nick |-> 1, root |-> k, bound |-> expires]
<1>2. expires \in Nat /\ k \in Nat
  BY DEF KeyBounds, KeyTable!Forever
<1>3. row \in KeyRow /\ row.status = "active" /\ row.root = k /\ row.expires <= row.bound
  BY <1>2 DEF KeyRow, KeyTable!Nicknames
<1> HIDE DEF row
<1>4. LineageOK([key EXCEPT ![k] = row]) /\ NoneComesBack(key, [key EXCEPT ![k] = row])
  BY <1>1, <1>3, RowAdded DEF KeysInv
<1> QED
  BY <1>1, <1>4, OrderSettled DEF row

\* A row with a new version, a status and an expiration.
Versioned(row, status, expires, nick) ==
  [status |-> status, scope |-> row.scope, expires |-> expires, version |-> row.version + 1,
   nick |-> nick, root |-> row.root, bound |-> row.bound]

LEMMA Replaces ==
  ASSUME KeyBounds, KeysInv, NEW k \in KeyIds, key[k].status # "none",
         NEW status \in {"active", "expired", "revoked"},
         status = "active" => key[k].status = "active",
         NEW expires \in Nat, expires <= key[k].expires,
         NEW nick \in {0} \cup KeyTable!Nicknames
  PROVE  /\ Versioned(key[k], status, expires, nick) \in KeyRow
         /\ LineageOK([key EXCEPT ![k] = Versioned(key[k], status, expires, nick)])
         /\ NoneComesBack(key, [key EXCEPT ![k] = Versioned(key[k], status, expires, nick)])
<1> DEFINE row == Versioned(key[k], status, expires, nick)
<1>1. key[k] \in KeyRow
  BY DEF KeysInv, LineageOK
<1>2. /\ row \in KeyRow /\ row.root = key[k].root /\ row.scope = key[k].scope
      /\ row.bound = key[k].bound /\ row.expires = expires /\ row.status = status
  BY <1>1 DEF KeyRow, Versioned
<1> HIDE DEF row
<1>3. LineageOK([key EXCEPT ![k] = row]) /\ NoneComesBack(key, [key EXCEPT ![k] = row])
  BY <1>2, RowWorsens DEF KeysInv
<1> QED
  BY <1>2, <1>3 DEF row

\* The three ways in which the code writes such a row.
LEMMA VersionedRow ==
  ASSUME NEW row \in KeyRow, NEW v
  PROVE  /\ [[row EXCEPT !.nick = v] EXCEPT !.version = row.version + 1]
              = Versioned(row, row.status, row.expires, v)
         /\ [[row EXCEPT !.expires = v] EXCEPT !.version = row.version + 1]
              = Versioned(row, row.status, v, row.nick)
         /\ [[row EXCEPT !.status = v] EXCEPT !.version = row.version + 1]
              = Versioned(row, v, row.expires, row.nick)
<1>1. [[row EXCEPT !.nick = v] EXCEPT !.version = row.version + 1] = Versioned(row, row.status, row.expires, v)
  <2>1. [row EXCEPT !.nick = v]
        = [status |-> row.status, scope |-> row.scope, expires |-> row.expires, version |-> row.version,
           nick |-> v, root |-> row.root, bound |-> row.bound]
    BY DEF KeyRow
  <2>2. [[status |-> row.status, scope |-> row.scope, expires |-> row.expires, version |-> row.version,
           nick |-> v, root |-> row.root, bound |-> row.bound]
           EXCEPT !.version = row.version + 1]
        = [status |-> row.status, scope |-> row.scope, expires |-> row.expires, version |-> row.version + 1,
           nick |-> v, root |-> row.root, bound |-> row.bound]
    OBVIOUS
  <2> QED
    BY <2>1, <2>2 DEF Versioned
<1>2. [[row EXCEPT !.expires = v] EXCEPT !.version = row.version + 1] = Versioned(row, row.status, v, row.nick)
  <2>1. [row EXCEPT !.expires = v]
        = [status |-> row.status, scope |-> row.scope, expires |-> v, version |-> row.version,
           nick |-> row.nick, root |-> row.root, bound |-> row.bound]
    BY DEF KeyRow
  <2>2. [[status |-> row.status, scope |-> row.scope, expires |-> v, version |-> row.version,
           nick |-> row.nick, root |-> row.root, bound |-> row.bound]
           EXCEPT !.version = row.version + 1]
        = [status |-> row.status, scope |-> row.scope, expires |-> v, version |-> row.version + 1,
           nick |-> row.nick, root |-> row.root, bound |-> row.bound]
    OBVIOUS
  <2> QED
    BY <2>1, <2>2 DEF Versioned
<1>3. [[row EXCEPT !.status = v] EXCEPT !.version = row.version + 1] = Versioned(row, v, row.expires, row.nick)
  <2>1. [row EXCEPT !.status = v]
        = [status |-> v, scope |-> row.scope, expires |-> row.expires, version |-> row.version,
           nick |-> row.nick, root |-> row.root, bound |-> row.bound]
    BY DEF KeyRow
  <2>2. [[status |-> v, scope |-> row.scope, expires |-> row.expires, version |-> row.version,
           nick |-> row.nick, root |-> row.root, bound |-> row.bound]
           EXCEPT !.version = row.version + 1]
        = [status |-> v, scope |-> row.scope, expires |-> row.expires, version |-> row.version + 1,
           nick |-> row.nick, root |-> row.root, bound |-> row.bound]
    OBVIOUS
  <2> QED
    BY <2>1, <2>2 DEF Versioned
<1> QED
  BY <1>1, <1>2, <1>3

LEMMA VersionedRows ==
  ASSUME KeysInv, NEW k \in KeyIds
  PROVE  /\ \A nick : [key EXCEPT ![k].nick = nick, ![k].version = @ + 1]
                        = [key EXCEPT ![k] = Versioned(key[k], key[k].status, key[k].expires, nick)]
         /\ \A expires : [key EXCEPT ![k].expires = expires, ![k].version = @ + 1]
                        = [key EXCEPT ![k] = Versioned(key[k], key[k].status, expires, key[k].nick)]
         /\ \A status : [key EXCEPT ![k].status = status, ![k].version = @ + 1]
                        = [key EXCEPT ![k] = Versioned(key[k], status, key[k].expires, key[k].nick)]
<1> DEFINE old == key[k]
<1>1. key \in [KeyIds -> KeyRow] /\ old \in KeyRow
  BY DEF KeysInv, LineageOK
<1>2. DOMAIN old = {"status", "scope", "expires", "version", "nick", "root", "bound"}
  BY <1>1 DEF KeyRow
<1>3. ASSUME NEW nick
      PROVE  [key EXCEPT ![k].nick = nick, ![k].version = @ + 1]
               = [key EXCEPT ![k] = Versioned(old, old.status, old.expires, nick)]
  <2>1. [key EXCEPT ![k].nick = nick, ![k].version = @ + 1]
          = [key EXCEPT ![k] = [[old EXCEPT !.nick = nick] EXCEPT !.version = old.version + 1]]
    BY <1>1, <1>2
  <2> HIDE DEF old
  <2>2. [[old EXCEPT !.nick = nick] EXCEPT !.version = old.version + 1] = Versioned(old, old.status, old.expires, nick)
    BY <1>1, VersionedRow
  <2> QED
    BY <2>1, <2>2
<1>4. ASSUME NEW expires
      PROVE  [key EXCEPT ![k].expires = expires, ![k].version = @ + 1]
               = [key EXCEPT ![k] = Versioned(old, old.status, expires, old.nick)]
  <2>1. [key EXCEPT ![k].expires = expires, ![k].version = @ + 1]
          = [key EXCEPT ![k] = [[old EXCEPT !.expires = expires] EXCEPT !.version = old.version + 1]]
    BY <1>1, <1>2
  <2> HIDE DEF old
  <2>2. [[old EXCEPT !.expires = expires] EXCEPT !.version = old.version + 1] = Versioned(old, old.status, expires, old.nick)
    BY <1>1, VersionedRow
  <2> QED
    BY <2>1, <2>2
<1>5. ASSUME NEW status
      PROVE  [key EXCEPT ![k].status = status, ![k].version = @ + 1]
               = [key EXCEPT ![k] = Versioned(old, status, old.expires, old.nick)]
  <2>1. [key EXCEPT ![k].status = status, ![k].version = @ + 1]
          = [key EXCEPT ![k] = [[old EXCEPT !.status = status] EXCEPT !.version = old.version + 1]]
    BY <1>1, <1>2
  <2> HIDE DEF old
  <2>2. [[old EXCEPT !.status = status] EXCEPT !.version = old.version + 1] = Versioned(old, status, old.expires, old.nick)
    BY <1>1, VersionedRow
  <2> QED
    BY <2>1, <2>2
<1> QED
  BY <1>3, <1>4, <1>5

LEMMA KeysChange ==
  ASSUME KeyBounds, KeysInv, NEW u \in Managers,
         KeyTable!update(u) \/ KeyTable!revoke(u) \/ KeyTable!Refused(u)
  PROVE  KeysInv' /\ KeysStepOK
<1> DEFINE k == desk[u].key
<1>1. CASE KeyTable!update(u)
  <2>1. /\ k \in KeyIds /\ key[k].status = "active" /\ key[k].expires \in Nat /\ key[k].nick \in {0} \cup KeyTable!Nicknames
        /\ now \in Nat
    <3>1. desk[u].op = "update" /\ key[k].status = "active" /\ k \in KeyIds
      BY <1>1 DEF KeyTable!update, KeyTable!Live, KeysInv, DeskOK
    <3>2. key[k] \in KeyRow
      BY <3>1 DEF KeysInv, LineageOK
    <3>3. now \in Nat
      BY DEF KeysInv, KeyBounds
    <3> QED
      BY <3>1, <3>2, <3>3 DEF KeyRow
  <2> HIDE DEF k
  <2>2. CASE \E nick \in KeyTable!Nicknames \ {key[k].nick} :
               KeyTable!Settles(u, [key EXCEPT ![k].nick = nick, ![k].version = @ + 1])
    <3>1. PICK nick \in KeyTable!Nicknames : KeyTable!Settles(u, [key EXCEPT ![k].nick = nick, ![k].version = @ + 1])
      BY <2>2
    <3>2. [key EXCEPT ![k].nick = nick, ![k].version = @ + 1]
            = [key EXCEPT ![k] = Versioned(key[k], "active", key[k].expires, nick)]
      <4>1. [key EXCEPT ![k].nick = nick, ![k].version = @ + 1]
              = [key EXCEPT ![k] = Versioned(key[k], key[k].status, key[k].expires, nick)]
        BY <2>1, VersionedRows
      <4> QED
        BY <2>1, <4>1
    <3> QED
      BY <2>1, <3>1, <3>2, Replaces, OrderSettled
  <2>3. CASE \E expires \in (now + 1)..(key[k].expires - 1) :
               KeyTable!Settles(u, [key EXCEPT ![k].expires = expires, ![k].version = @ + 1])
    <3>1. PICK expires \in (now + 1)..(key[k].expires - 1) :
            KeyTable!Settles(u, [key EXCEPT ![k].expires = expires, ![k].version = @ + 1])
      BY <2>3
    <3>2. [key EXCEPT ![k].expires = expires, ![k].version = @ + 1]
            = [key EXCEPT ![k] = Versioned(key[k], "active", expires, key[k].nick)]
      <4>1. [key EXCEPT ![k].expires = expires, ![k].version = @ + 1]
              = [key EXCEPT ![k] = Versioned(key[k], key[k].status, expires, key[k].nick)]
        BY <2>1, VersionedRows
      <4> QED
        BY <2>1, <4>1
    <3>3. expires \in Nat /\ expires <= key[k].expires
      BY <2>1, <3>1
    <3> QED
      BY <2>1, <3>1, <3>2, <3>3, Replaces, OrderSettled
  <2> QED
    BY <1>1, <2>2, <2>3 DEF KeyTable!update, k
<1>2. CASE KeyTable!revoke(u)
  <2>1. /\ k \in KeyIds /\ key[k].status # "none" /\ key[k].expires \in Nat
        /\ key[k].expires <= key[k].expires /\ key[k].nick \in {0} \cup KeyTable!Nicknames
    BY <1>2 DEF KeyTable!revoke, KeysInv, DeskOK, LineageOK, KeyRow
  <2> HIDE DEF k
  <2>2. CASE KeyTable!Settles(u, key)
    BY <2>2, FinalSame, OrderSettled DEF KeysInv
  <2>3. CASE KeyTable!Settles(u, [key EXCEPT ![k].status = "revoked", ![k].version = @ + 1])
    <3>1. [key EXCEPT ![k].status = "revoked", ![k].version = @ + 1]
            = [key EXCEPT ![k] = Versioned(key[k], "revoked", key[k].expires, key[k].nick)]
      BY <2>1, VersionedRows
    <3> QED
      BY <2>1, <2>3, <3>1, Replaces, OrderSettled
  <2> QED
    BY <1>2, <2>2, <2>3 DEF KeyTable!revoke, k
<1>3. CASE KeyTable!Refused(u)
  BY <1>3, FinalSame, OrderSettled DEF KeyTable!Refused, KeysInv
<1> QED
  BY <1>1, <1>2, <1>3

LEMMA KeysRotate ==
  ASSUME KeyBounds, KeysInv, NEW u \in Managers, KeyTable!rotate(u)
  PROVE  KeysInv' /\ KeysStepOK
<1> DEFINE k == desk[u].key
<1>1. /\ k \in KeyIds /\ KeyTable!Live(k) /\ key[k] \in KeyRow
      /\ key[k].status = "active" /\ key[k].expires \in Nat
  BY DEF KeyTable!rotate, KeyTable!RotationApplies, KeyTable!Live, KeysInv, DeskOK,
       LineageOK, KeyRow
<1>2. PICK new \in KeyIds :
        /\ KeyTable!Unused(new)
        /\ KeyTable!Settles(u, [key EXCEPT ![k].status = "revoked", ![k].version = @ + 1,
             ![new] = [key[k] EXCEPT !.version = 1, !.status = "active", !.bound = key[k].expires]])
  BY DEF KeyTable!rotate
<1> HIDE DEF k
<1> DEFINE old == key[k]
           ended == Versioned(old, "revoked", old.expires, old.nick)
           mid == [key EXCEPT ![k] = ended]
           next == [old EXCEPT !.version = 1, !.status = "active", !.bound = old.expires]
           rows == [mid EXCEPT ![new] = next]
<1>3. key[new].status = "none" /\ new # k
  BY <1>1, <1>2 DEF KeyTable!Unused
<1>4. /\ next \in KeyRow /\ next.status = "active" /\ next.root = old.root /\ next.scope = old.scope
      /\ next.expires = old.expires
  <2>1. old \in KeyRow /\ old.expires \in Nat
    BY <1>1
  <2> HIDE DEF old
  <2> QED
    BY <2>1 DEF KeyRow
<1>5. LineageOK(mid) /\ NoneComesBack(key, mid) /\ ended \in KeyRow
  <2>1. /\ key[k].status # "none" /\ "revoked" \in {"active", "expired", "revoked"}
        /\ key[k].nick \in {0} \cup KeyTable!Nicknames /\ key[k].expires <= key[k].expires
    BY <1>1 DEF KeyRow
  <2> QED
    BY <1>1, <2>1, Replaces
<1>6. /\ ended.status = "revoked" /\ ended.root = old.root /\ ended.scope = old.scope
      /\ ended.expires = old.expires
  BY DEF Versioned
<1>7. [key EXCEPT ![k].status = "revoked", ![k].version = @ + 1, ![new] = next] = rows
  <2>1. [key EXCEPT ![k].status = "revoked", ![k].version = @ + 1] = mid
    BY <1>1, VersionedRows
  <2> HIDE DEF next, mid, old
  <2>2. [key EXCEPT ![k].status = "revoked", ![k].version = @ + 1, ![new] = next]
          = [[key EXCEPT ![k].status = "revoked", ![k].version = @ + 1] EXCEPT ![new] = next]
    OBVIOUS
  <2> QED
    BY <2>1, <2>2
<1> HIDE DEF next, ended, old
<1>8. mid[k] = ended /\ mid[new].status = "none" /\ \A m \in KeyIds : m # k => mid[m] = key[m]
  BY <1>1, <1>3 DEF KeysInv, LineageOK
<1>9. \A m \in KeyIds : mid[m].root = old.root => mid[m].status # "active"
  <2> SUFFICES ASSUME NEW m \in KeyIds, mid[m].root = old.root, mid[m].status = "active"
      PROVE FALSE
    OBVIOUS
  <2>1. m # k
    BY <1>6, <1>8
  <2>2. key[m].root = key[k].root /\ key[m].status = "active" /\ key[k].status = "active"
    BY <1>1, <1>8, <2>1 DEF old
  <2> QED
    BY <1>1, <2>1, <2>2 DEF KeysInv, LineageOK
<1>10. \E m \in KeyIds :
         /\ mid[m].status # "none" /\ next.root = mid[m].root /\ next.scope = mid[m].scope
         /\ next.expires <= mid[m].expires
         /\ \A n \in KeyIds : mid[n].root = mid[m].root => mid[n].status # "active"
  <2>1. next.expires <= mid[k].expires
    BY <1>1, <1>4, <1>6, <1>8 DEF old
  <2> QED
    BY <1>1, <1>4, <1>6, <1>8, <1>9, <2>1
<1> HIDE DEF mid
<1>11. LineageOK(rows) /\ NoneComesBack(mid, rows)
  BY <1>4, <1>5, <1>8, <1>10, RowAdded
<1>12. NoneComesBack(key, rows)
  BY <1>5, <1>11, FinalTwice DEF KeysInv
<1> HIDE DEF rows
<1> QED
  BY <1>2, <1>7, <1>11, <1>12, OrderSettled DEF old, next

\* The accounts and the clock.
LEMMA KeysAround ==
  ASSUME KeyBounds, KeysInv,
         (\E u \in Managers : KeyTable!AccountChanges(u)) \/ KeyTable!Tick \/ UNCHANGED KeyTable!apiVars
  PROVE  KeysInv' /\ KeysStepOK
<1>1. /\ UNCHANGED <<key, desk, client, pool, limiter, granted>>
      /\ now' \in {now, now + 1} /\ now' <= MaxKeyTime /\ now \in Nat /\ now' \in Nat
  BY DEF KeyTable!AccountChanges, KeyTable!Tick, KeyTable!apiVars, KeysInv, KeyBounds
<1>2. GrantsOK(limiter, granted)'
  <2>1. \A x \in granted : x.at \in Nat /\ x.at <= now
    BY DEF KeysInv, GrantsOK, KeyGrant
  <2>2. \A id \in LimiterIds : limiter[id].start \in Nat
    BY DEF KeysInv, GrantsOK, LimiterEntry
  <2>3. \A id \in LimiterIds : EntryOK(limiter[id], granted, id)'
    <3> TAKE id \in LimiterIds
    <3> DEFINE entry == limiter[id]
    <3>1. entry' = entry /\ granted' = granted /\ EntryOK(entry, granted, id) /\ entry.start \in Nat
      BY <1>1, <2>2 DEF KeysInv, GrantsOK
    <3> HIDE DEF entry
    <3>2. entry.start <= now'
      BY <1>1, <3>1 DEF EntryOK
    <3>3. entry.count > 0 => /\ entry.count = Cardinality(ChargedSince(granted, id, entry.start))
                             /\ \A x \in granted : x.id = id => x.at < entry.start + KeyWindow
      BY <3>1 DEF EntryOK
    <3>4. entry.count = 0 => \A x \in granted : x.id = id => x.at < now'
      BY <1>1, <2>1, <3>1 DEF EntryOK
    <3> QED
      BY <3>1, <3>2, <3>3, <3>4 DEF EntryOK, ChargedSince, entry
  <2> QED
    BY <1>1, <2>1, <2>3 DEF KeysInv, GrantsOK
<1>3. KeysInv'
  BY <1>1, <1>2 DEF KeysInv, DeskOK, VerifiersOK, ArrivedOK, CheckingOf
<1>4. KeysStepOK
  BY <1>1, FinalSame DEF KeysStepOK, Resumes, KeysInv
<1> QED
  BY <1>3, <1>4

Began(entry) == entry.count > 0
Passed(entry) == now - entry.start >= KeyWindow
Bumped(entry) ==
  IF Began(entry) THEN [start |-> entry.start, count |-> entry.count + 1] ELSE [start |-> now, count |-> 1]

\* Entries without some that are over.
Pruned(e, e2) ==
  /\ e2 \in [LimiterIds -> LimiterEntry]
  /\ \A id \in LimiterIds : e2[id] = e[id] \/ (e2[id] = KeyTable!NoEntry /\ (~Began(e[id]) \/ Passed(e[id])))

\* One place was taken for id.
Charged(e1, e2, id) ==
  /\ e2 \in [LimiterIds -> LimiterEntry] /\ ~(Began(e1[id]) /\ Passed(e1[id]))
  /\ \A d \in LimiterIds : e2[d] = IF d = id THEN Bumped(e1[id]) ELSE e1[d]

LEMMA IncrementedShape ==
  ASSUME KeyBounds, now \in Nat, NEW e \in [LimiterIds -> LimiterEntry],
         NEW id \in LimiterIds
  PROVE  /\ ~KeyTable!Incremented(e, id).ok => Pruned(e, KeyTable!Incremented(e, id).entries)
         /\ KeyTable!Incremented(e, id).ok => \E e1 : Pruned(e, e1) /\ Charged(e1, KeyTable!Incremented(e, id).entries, id)
<1> DEFINE mine == KeyTable!Dropped(e, id)
           room == IF Cardinality(KeyTable!Held(mine)) >= MaxEntries THEN KeyTable!Swept(mine) ELSE mine
           r == KeyTable!Incremented(e, id)
<1>0. KeyTable!NoEntry \in LimiterEntry /\ KeyTable!NoEntry.count = 0 /\ \A d \in LimiterIds : e[d] \in LimiterEntry
  BY DEF KeyTable!NoEntry, LimiterEntry
<1>1. /\ Pruned(e, mine) /\ ~(Began(mine[id]) /\ Passed(mine[id])) /\ DOMAIN mine = LimiterIds
      /\ (mine[id].count = 0 \/ mine[id] = e[id])
  BY <1>0 DEF KeyTable!Dropped, KeyTable!Over, Pruned, Began, Passed
<1>2. Pruned(mine, KeyTable!Swept(mine)) /\ Pruned(mine, mine)
  <2> HIDE DEF mine
  <2>1. mine \in [LimiterIds -> LimiterEntry]
    BY <1>1 DEF Pruned
  <2> QED
    BY <1>0, <1>1, <2>1 DEF KeyTable!Swept, KeyTable!Over, Pruned, Began, Passed
<1>3. Pruned(mine, room)
  BY <1>2
<1> HIDE DEF mine, room
<1>4. Pruned(e, room) /\ (mine[id].count = 0 => room[id].count = 0)
  BY <1>0, <1>1, <1>3 DEF Pruned, Began, Passed, LimiterEntry
<1>5. r = IF mine[id].count > 0
          THEN IF mine[id].count >= PerWindow
               THEN [ok |-> FALSE, entries |-> mine]
               ELSE [ok |-> TRUE, entries |-> [mine EXCEPT ![id].count = @ + 1]]
          ELSE IF Cardinality(KeyTable!Held(room)) >= MaxEntries
               THEN [ok |-> FALSE, entries |-> room]
               ELSE [ok |-> TRUE, entries |-> [room EXCEPT ![id] = [start |-> now, count |-> 1]]]
  BY KeyTableCardinality DEF KeyTable!Incremented, mine, room
<1> HIDE DEF r
<1>6. ~r.ok => Pruned(e, r.entries)
  BY <1>1, <1>4, <1>5
<1>7. ASSUME r.ok PROVE \E e1 : Pruned(e, e1) /\ Charged(e1, r.entries, id)
  <2>1. CASE mine[id].count > 0
    <3>1. r.entries = [mine EXCEPT ![id].count = @ + 1]
      BY <1>5, <1>7, <2>1
    <3>2. mine \in [LimiterIds -> LimiterEntry]
      BY <1>1 DEF Pruned
    <3>3. /\ r.entries \in [LimiterIds -> LimiterEntry]
          /\ \A d \in LimiterIds : d # id => r.entries[d] = mine[d]
          /\ r.entries[id] = [start |-> mine[id].start, count |-> mine[id].count + 1]
      BY <3>1, <3>2 DEF LimiterEntry
    <3>4. Charged(mine, r.entries, id)
      BY <1>1, <2>1, <3>3 DEF Charged, Bumped, Began
    <3> QED
      BY <1>1, <3>4
  <2>2. CASE ~(mine[id].count > 0)
    <3>1. r.entries = [room EXCEPT ![id] = [start |-> now, count |-> 1]]
      BY <1>5, <1>7, <2>2
    <3>2. room \in [LimiterIds -> LimiterEntry] /\ mine[id].count \in Nat
      BY <1>1, <1>4 DEF Pruned, LimiterEntry
    <3>3. /\ r.entries \in [LimiterIds -> LimiterEntry]
          /\ \A d \in LimiterIds : d # id => r.entries[d] = room[d]
          /\ r.entries[id] = [start |-> now, count |-> 1]
      BY <3>1, <3>2 DEF LimiterEntry
    <3>4. room[id].count = 0
      BY <1>4, <2>2, <3>2
    <3>5. Charged(room, r.entries, id)
      BY <3>3, <3>4 DEF Charged, Bumped, Began
    <3> QED
      BY <1>4, <3>5
  <2> QED
    BY <2>1, <2>2
<1> QED
  BY <1>6, <1>7 DEF r

\* An entry just charged has begun and its window has not passed.
LEMMA BumpedStays ==
  ASSUME KeyBounds, now \in Nat, NEW x \in LimiterEntry, ~(Began(x) /\ Passed(x))
  PROVE  Began(Bumped(x)) /\ ~Passed(Bumped(x))
<1>1. x.start \in Nat /\ x.count \in Nat
  BY DEF LimiterEntry
<1>2. KeyWindow \in Nat \ {0}
  BY DEF KeyBounds
<1>3. CASE Began(x)
  <2>1. Bumped(x) = [start |-> x.start, count |-> x.count + 1]
    BY <1>3 DEF Bumped
  <2>2. Bumped(x).start = x.start /\ Bumped(x).count = x.count + 1
    BY <2>1
  <2>3. ~Passed(x)
    BY <1>3
  <2>4. ~Passed(Bumped(x))
    BY <2>2, <2>3 DEF Passed
  <2>5. Began(Bumped(x))
    BY <1>1, <2>2 DEF Began
  <2> QED
    BY <2>4, <2>5
<1>4. CASE ~Began(x)
  <2>1. Bumped(x) = [start |-> now, count |-> 1]
    BY <1>4 DEF Bumped
  <2>2. Bumped(x).start = now /\ Bumped(x).count = 1
    BY <2>1
  <2>3. ~Passed(Bumped(x))
    BY <1>2, <2>2 DEF Passed
  <2>4. Began(Bumped(x))
    BY <2>2 DEF Began
  <2> QED
    BY <2>3, <2>4
<1> QED
  BY <1>3, <1>4

\* Both places are taken, or none and only what is over is gone.
LEMMA AcquiredShape ==
  ASSUME KeyBounds, now \in Nat, NEW e \in [LimiterIds -> LimiterEntry], NEW c \in Clients
  PROVE  LET t == KeyTable!Acquired(e, c, KeyTable!Source)
         IN /\ ~t.ok => Pruned(e, t.entries)
            /\ t.ok => \E e1 : /\ Pruned(e, e1) /\ t.entries \in [LimiterIds -> LimiterEntry]
                               /\ \A d \in {c, KeyTable!Source} : ~(Began(e1[d]) /\ Passed(e1[d]))
                               /\ \A d \in LimiterIds : t.entries[d] = IF d \in {c, KeyTable!Source} THEN Bumped(e1[d])
                                                                ELSE e1[d]
<1> DEFINE first == KeyTable!Incremented(e, c)
           second == KeyTable!Incremented(first.entries, KeyTable!Source)
           t == KeyTable!Acquired(e, c, KeyTable!Source)
<1>0. c \in LimiterIds /\ KeyTable!Source \in LimiterIds /\ c # KeyTable!Source
  BY DEF LimiterIds, KeyTable!Source, KeyBounds
<1>1. t = IF ~first.ok THEN first ELSE IF second.ok THEN second
          ELSE [ok |-> FALSE, entries |-> KeyTable!Decremented(second.entries, c)]
  BY DEF KeyTable!Acquired
<1>2. ~first.ok => Pruned(e, first.entries)
  BY <1>0, IncrementedShape
<1>3. first.ok => \E e1 : Pruned(e, e1) /\ Charged(e1, first.entries, c)
  BY <1>0, IncrementedShape
<1>4. first.entries \in [LimiterIds -> LimiterEntry]
  BY <1>2, <1>3 DEF Pruned, Charged
<1> HIDE DEF first
<1>5. /\ ~second.ok => Pruned(first.entries, second.entries)
      /\ second.ok => \E e2 : Pruned(first.entries, e2) /\ Charged(e2, second.entries, KeyTable!Source)
  BY <1>0, <1>4, IncrementedShape
<1> HIDE DEF second, t
\* What the sweep leaves of a place just taken, and the entries without that place.
<1>6. ASSUME NEW e1, NEW e2, Pruned(e, e1), Charged(e1, first.entries, c),
             Pruned(first.entries, e2)
      PROVE  /\ e2[c] = Bumped(e1[c]) /\ e1[c] \in LimiterEntry
             /\ Pruned(e, [e2 EXCEPT ![c] = e1[c]])
  <2>1. /\ first.entries[c] = Bumped(e1[c]) /\ \A d \in LimiterIds : d # c => first.entries[d] = e1[d]
        /\ ~(Began(e1[c]) /\ Passed(e1[c])) /\ \A d \in LimiterIds : e1[d] \in LimiterEntry /\ e2[d] \in LimiterEntry
    BY <1>0, <1>6 DEF Charged, Pruned
  <2>2. Began(Bumped(e1[c])) /\ ~Passed(Bumped(e1[c]))
    BY <1>0, <2>1, BumpedStays
  <2>3. e2[c] = Bumped(e1[c])
    BY <1>0, <1>6, <2>1, <2>2 DEF Pruned
  <2> DEFINE e3 == [e2 EXCEPT ![c] = e1[c]]
  <2>4. e3 \in [LimiterIds -> LimiterEntry] /\ e3[c] = e1[c] /\ \A d \in LimiterIds : d # c => e3[d] = e2[d]
    BY <1>0, <1>6, <2>1 DEF Pruned
  <2> HIDE DEF e3
  <2>5. \A d \in LimiterIds : e3[d] = e[d] \/ (e3[d] = KeyTable!NoEntry /\ (~Began(e[d]) \/ Passed(e[d])))
    <3> TAKE d \in LimiterIds
    <3>1. e1[d] = e[d] \/ (e1[d] = KeyTable!NoEntry /\ (~Began(e[d]) \/ Passed(e[d])))
      BY <1>6 DEF Pruned
    <3>2. CASE d = c
      BY <2>4, <3>1, <3>2
    <3>3. CASE d # c
      <4>1. e3[d] = e1[d] \/ (e3[d] = KeyTable!NoEntry /\ (~Began(e1[d]) \/ Passed(e1[d])))
        BY <1>6, <2>1, <2>4, <3>3 DEF Pruned
      <4> QED
        BY <3>1, <4>1
    <3> QED
      BY <3>2, <3>3
  <2>6. Pruned(e, e3)
    BY <2>4, <2>5 DEF Pruned
  <2>7. Pruned(e, [e2 EXCEPT ![c] = e1[c]])
    BY <2>6 DEF e3
  <2>8. e1[c] \in LimiterEntry
    BY <1>0, <2>1
  <2> QED
    BY <2>3, <2>7, <2>8
<1>7. CASE ~first.ok
  BY <1>1, <1>2, <1>7 DEF t
<1>8. CASE first.ok /\ ~second.ok
  <2>1. PICK e1 : Pruned(e, e1) /\ Charged(e1, first.entries, c)
    BY <1>3, <1>8
  <2> DEFINE e2 == second.entries
  <2>2. /\ Pruned(first.entries, e2) /\ e2[c] = Bumped(e1[c]) /\ e1[c] \in LimiterEntry
        /\ Pruned(e, [e2 EXCEPT ![c] = e1[c]])
    BY <1>5, <1>6, <1>8, <2>1
  <2>3. e2 \in [LimiterIds -> LimiterEntry] /\ ~t.ok /\ t.entries = KeyTable!Decremented(e2, c)
    BY <1>1, <1>8, <2>2 DEF Pruned
  <2> HIDE DEF e2
  <2>4. CASE Began(e1[c])
    <3>1. e2[c] = [start |-> e1[c].start, count |-> e1[c].count + 1] /\ e2[c].count # 1 /\ e1[c].count \in Nat
      BY <2>2, <2>4 DEF Bumped, Began, LimiterEntry
    <3>2. [e2[c] EXCEPT !.count = @ - 1] = e1[c]
      BY <2>2, <3>1 DEF LimiterEntry
    <3>3. KeyTable!Decremented(e2, c) = [e2 EXCEPT ![c].count = @ - 1]
      BY <3>1 DEF KeyTable!Decremented
    <3>4. KeyTable!Decremented(e2, c) = [e2 EXCEPT ![c] = e1[c]]
      BY <2>3, <3>2, <3>3
    <3> QED
      BY <2>2, <2>3, <3>4 DEF t
  <2>5. CASE ~Began(e1[c])
    <3>1. e2[c].count = 1
      BY <2>2, <2>5 DEF Bumped
    <3>2. KeyTable!Decremented(e2, c) = [e2 EXCEPT ![c] = KeyTable!NoEntry]
      BY <3>1 DEF KeyTable!Decremented
    <3>3. Pruned(e, [e2 EXCEPT ![c] = KeyTable!NoEntry])
      <4> DEFINE e3 == [e2 EXCEPT ![c] = e1[c]]
                 e4 == [e2 EXCEPT ![c] = KeyTable!NoEntry]
      <4>1. e3[c] = e1[c] /\ e4[c] = KeyTable!NoEntry /\ \A d \in LimiterIds : d # c => e3[d] = e4[d]
        BY <1>0, <2>3
      <4>2. e4 \in [LimiterIds -> LimiterEntry]
        BY <2>3 DEF KeyTable!NoEntry, LimiterEntry
      <4> HIDE DEF e3, e4
      <4>3. Pruned(e, e3)
        BY <2>2 DEF e3
      <4>4. e4[c] = KeyTable!NoEntry /\ (~Began(e[c]) \/ Passed(e[c]))
        BY <1>0, <2>5, <4>1, <4>3 DEF Pruned
      <4>5. \A d \in LimiterIds : e4[d] = e[d] \/ (e4[d] = KeyTable!NoEntry /\ (~Began(e[d]) \/ Passed(e[d])))
        BY <4>1, <4>3, <4>4 DEF Pruned
      <4> QED
        BY <4>2, <4>5 DEF Pruned, e4
    <3> QED
      BY <2>3, <3>2, <3>3 DEF t
  <2> QED
    BY <2>4, <2>5
<1>9. CASE first.ok /\ second.ok
  <2>1. PICK e1 : Pruned(e, e1) /\ Charged(e1, first.entries, c)
    BY <1>3, <1>9
  <2>2. PICK e2 : Pruned(first.entries, e2) /\ Charged(e2, second.entries, KeyTable!Source)
    BY <1>5, <1>9
  <2> DEFINE e3 == [e2 EXCEPT ![c] = e1[c]]
  <2>3. e2[c] = Bumped(e1[c]) /\ e1[c] \in LimiterEntry /\ Pruned(e, e3)
    BY <1>6, <2>1, <2>2
  <2>4. e2 \in [LimiterIds -> LimiterEntry] /\ e3[c] = e1[c] /\ \A d \in LimiterIds : d # c => e3[d] = e2[d]
    BY <1>0, <2>2 DEF Pruned
  <2> HIDE DEF e3
  <2>5. /\ t.ok /\ t.entries = second.entries /\ t.entries \in [LimiterIds -> LimiterEntry]
        /\ \A d \in LimiterIds : t.entries[d] = IF d = KeyTable!Source THEN Bumped(e2[KeyTable!Source]) ELSE e2[d]
        /\ ~(Began(e2[KeyTable!Source]) /\ Passed(e2[KeyTable!Source]))
    BY <1>1, <1>9, <2>2 DEF Charged
  <2>6. \A d \in LimiterIds : t.entries[d] = IF d \in {c, KeyTable!Source} THEN Bumped(e3[d]) ELSE e3[d]
    BY <1>0, <2>3, <2>4, <2>5
  <2>7. \A d \in {c, KeyTable!Source} : ~(Began(e3[d]) /\ Passed(e3[d]))
    BY <1>0, <2>1, <2>4, <2>5 DEF Charged
  <2> QED
    BY <2>3, <2>5, <2>6, <2>7 DEF t
<1> QED
  BY <1>7, <1>8, <1>9

LEMMA PrunedGrants ==
  ASSUME KeyBounds, now \in Nat, NEW e, NEW g, GrantsOK(e, g), NEW e2, Pruned(e, e2)
  PROVE  GrantsOK(e2, g)
<1>1. ASSUME NEW id \in LimiterIds PROVE EntryOK(e2[id], g, id)
  <2>1. CASE e2[id] = e[id]
    BY <2>1 DEF GrantsOK
  <2>2. CASE (e2[id] = KeyTable!NoEntry /\ (~Began(e[id]) \/ Passed(e[id])))
    <3>1. e[id] \in LimiterEntry /\ EntryOK(e[id], g, id) /\ \A x \in g : x.at \in Nat
      BY DEF GrantsOK, KeyGrant
    <3>2. \A x \in g : x.id = id => x.at < now
      BY <2>2, <3>1 DEF EntryOK, Began, Passed, LimiterEntry, KeyBounds
    <3>3. KeyTable!NoEntry.count = 0 /\ KeyTable!NoEntry.start = 0
      BY DEF KeyTable!NoEntry
    <3> QED
      BY <2>2, <3>2, <3>3 DEF EntryOK
  <2> QED
    BY <2>1, <2>2 DEF Pruned
<1> QED
  BY <1>1 DEF GrantsOK, Pruned

\* A place that is taken is counted.
LEMMA BumpedCounts ==
  ASSUME KeyBounds, now \in Nat, NEW g, IsFiniteSet(g), g \subseteq KeyGrant,
         \A x \in g : x.at <= now,
         NEW id \in LimiterIds, NEW entry \in LimiterEntry, EntryOK(entry, g, id),
         ~(Began(entry) /\ Passed(entry)),
         NEW new \in KeyGrant, new.id = id, new.at = now, new \notin g,
         NEW more, IsFiniteSet(more), \A x \in more : x.id # id
  PROVE  EntryOK(Bumped(entry), g \cup {new} \cup more, id)
<1> DEFINE b == Bumped(entry)
           all == g \cup {new} \cup more
           S == ChargedSince(g, id, b.start)
<1>1. ChargedSince(all, id, b.start) = S \cup {new}
  <2>1. b.start <= now
    BY DEF Bumped, EntryOK
  <2> QED
    BY <2>1 DEF ChargedSince
<1>2. b.start \in Nat /\ b.start <= now /\ b.count > 0 /\ b.count \in Nat
  BY DEF Bumped, Began, EntryOK, LimiterEntry
<1>3. b.count = Cardinality(S) + 1
  <2>1. CASE Began(entry)
    BY <2>1 DEF Bumped, Began, EntryOK
  <2>2. CASE ~Began(entry)
    <3>1. \A x \in g : x.id = id => x.at \in Nat /\ x.at < now
      BY <2>2 DEF Began, EntryOK, LimiterEntry, KeyGrant
    <3>2. b.start = now /\ b.count = 1
      BY <2>2 DEF Bumped
    <3>3. S = {}
      BY <3>1, <3>2 DEF ChargedSince
    <3> QED
      BY <3>2, <3>3, FS_EmptySet
  <2> QED
    BY <2>1, <2>2
<1>4. IsFiniteSet(S) /\ new \notin S
  BY FS_Subset DEF ChargedSince
<1>5. \A x \in all : x.id = id => x.at < b.start + KeyWindow
  <2>1. \A x \in g : x.at \in Nat
    BY DEF KeyGrant
  <2>2. now < b.start + KeyWindow
    BY DEF Bumped, Began, Passed, LimiterEntry, KeyBounds
  <2>3. \A x \in g : x.id = id => x.at < b.start + KeyWindow
    BY <1>2, <2>1, <2>2 DEF KeyBounds
  <2> QED
    BY <2>2, <2>3
<1> HIDE DEF b, S, all
<1>6. Cardinality(S \cup {new}) = Cardinality(S) + 1
  BY <1>4, FS_AddElement
<1>7. EntryOK(b, all, id)
  BY <1>1, <1>2, <1>3, <1>5, <1>6 DEF EntryOK
<1> QED
  BY <1>7 DEF b, all

LEMMA OthersCounts ==
  ASSUME NEW g, NEW id, NEW entry, EntryOK(entry, g, id), NEW more,
         \A x \in more : x.id # id
  PROVE  EntryOK(entry, g \cup more, id)
<1>1. \A s : ChargedSince(g \cup more, id, s) = ChargedSince(g, id, s)
  BY DEF ChargedSince
<1> QED
  BY <1>1 DEF EntryOK

LEMMA RequestShape ==
  ASSUME KeysInv, NEW c \in Clients
  PROVE  /\ client[c] \in KeyRequestRow
         /\ client[c].stage \in {"read", "checking", "verified"} => client[c] \in Presenting
         /\ client[c].stage = "accepted" => client[c] \in AcceptedKey
BY DEF KeysInv, KeyRequestRow, Presenting, AcceptedKey

\* A request goes on.
LEMMA RequestMoves ==
  ASSUME KeyBounds, KeysInv, NEW c \in Clients, NEW r \in KeyRequestRow, r.stage # "idle",
         client' = [client EXCEPT ![c] = r], UNCHANGED <<now, desk>>,
         LineageOK(key'), NoneComesBack(key, key'),
         VerifiersOK(pool', client'), GrantsOK(limiter', granted'),
         \A x \in granted' : x \in granted \/ x.by = c,
         r.stage \in {"accepted", "acted", "blocked"} => KeyTable!Live(client[c].key)
  PROVE  KeysInv' /\ KeysStepOK
<1>1. /\ client' \in [Clients -> KeyRequestRow] /\ client'[c] = r
      /\ \A d \in Clients : d # c => client'[d] = client[d]
  BY DEF KeysInv
<1>2. GrantsOK(limiter, granted)'
  BY DEF GrantsOK, EntryOK, ChargedSince
<1>3. ArrivedOK(granted', client')
  <2>1. r # KeyTable!NoClient
    BY DEF KeyTable!NoClient
  <2>2. \A x \in granted' : x.by \in Clients
    BY DEF GrantsOK, KeyGrant
  <2> QED
    BY <1>1, <2>1, <2>2 DEF KeysInv, ArrivedOK
<1>4. DeskOK'
  BY DEF KeysInv, DeskOK, NoneComesBack
<1>5. KeysInv'
  BY <1>1, <1>2, <1>3, <1>4 DEF KeysInv, VerifiersOK, CheckingOf, LineageOK
<1>6. KeysStepOK
  BY <1>1 DEF KeysStepOK, Resumes
<1> QED
  BY <1>5, <1>6

\* A request that no verifier has before or after.
LEMMA NotChecking ==
  ASSUME KeysInv, NEW c \in Clients, NEW r, client[c].stage # "checking",
         r.stage # "checking",
         client' = [client EXCEPT ![c] = r], pool' = pool
  PROVE  VerifiersOK(pool', client')
<1>1. \A kind \in KeyTable!Kinds : CheckingOf(client', kind) = CheckingOf(client, kind)
  BY DEF KeysInv, CheckingOf
<1> QED
  BY <1>1 DEF KeysInv, VerifiersOK

LEMMA NotYetChecking ==
  ASSUME KeysInv, NEW c \in Clients, NEW r, KeyTable!Arrives(c), r.stage # "checking",
         client' = [client EXCEPT ![c] = r], pool' = pool
  PROVE  VerifiersOK(pool', client')
<1>1. client[c].stage = "idle"
  BY DEF KeyTable!Arrives, KeyTable!NoClient
<1> QED
  BY <1>1, NotChecking

LEMMA KeysInspect ==
  ASSUME KeyBounds, KeysInv, NEW c \in Clients, KeyTable!Arrives(c),
         KeyTable!Acquired(limiter, c, KeyTable!Source).ok,
         NEW r \in Presenting, r.stage = "read", client' = [client EXCEPT ![c] = r],
         limiter' = KeyTable!Acquired(limiter, c, KeyTable!Source).entries,
         granted' = granted \cup {[id |-> id, at |-> now, by |-> c] : id \in {c, KeyTable!Source}},
         UNCHANGED <<key, now, desk, pool>>
  PROVE  KeysInv' /\ KeysStepOK
<1>0. now \in Nat /\ c \in LimiterIds /\ KeyTable!Source \in LimiterIds /\ c # KeyTable!Source
  BY DEF KeysInv, KeyBounds, LimiterIds, KeyTable!Source
<1>1. PICK e1 : /\ Pruned(limiter, e1) /\ limiter' \in [LimiterIds -> LimiterEntry]
                /\ \A d \in {c, KeyTable!Source} : ~(Began(e1[d]) /\ Passed(e1[d]))
                /\ \A d \in LimiterIds : limiter'[d] = IF d \in {c, KeyTable!Source} THEN Bumped(e1[d]) ELSE e1[d]
  BY <1>0, AcquiredShape DEF KeysInv, GrantsOK
<1> DEFINE a == [id |-> c, at |-> now, by |-> c]
           b == [id |-> KeyTable!Source, at |-> now, by |-> c]
           all == granted \cup {a} \cup {b}
<1>2. granted' = all
  OBVIOUS
<1>3. /\ a \in KeyGrant /\ b \in KeyGrant /\ a.id = c /\ b.id = KeyTable!Source /\ a.at = now /\ b.at = now
      /\ a.by = c /\ b.by = c /\ a \notin granted /\ b \notin granted
  BY <1>0 DEF KeyGrant, KeysInv, ArrivedOK, KeyTable!Arrives
<1> HIDE DEF a, b
<1>4. GrantsOK(e1, granted)
  BY <1>0, <1>1, PrunedGrants DEF KeysInv
<1>5. /\ IsFiniteSet(granted) /\ granted \subseteq KeyGrant /\ \A x \in granted : x.at <= now
      /\ \A d \in LimiterIds : e1[d] \in LimiterEntry /\ EntryOK(e1[d], granted, d)
      /\ IsFiniteSet({a}) /\ IsFiniteSet({b})
  BY <1>4, FS_Singleton DEF GrantsOK
<1>6. IsFiniteSet(all) /\ all \subseteq KeyGrant /\ \A x \in all : x.at <= now
  <2>1. IsFiniteSet(granted \cup {a})
    BY <1>5, FS_Union
  <2>2. IsFiniteSet(all)
    BY <1>5, <2>1, FS_Union
  <2> QED
    BY <1>0, <1>3, <1>5, <2>2
<1>7. EntryOK(limiter'[c], all, c)
  <2>1. EntryOK(Bumped(e1[c]), granted \cup {a} \cup {b}, c)
    <3>1. \A x \in {b} : x.id # c
      BY <1>0, <1>3
    <3>2. ~(Began(e1[c]) /\ Passed(e1[c])) /\ e1[c] \in LimiterEntry /\ EntryOK(e1[c], granted, c)
      BY <1>0, <1>1, <1>5
    <3> QED
      BY <1>0, <1>3, <1>5, <3>1, <3>2, BumpedCounts
  <2> QED
    BY <1>0, <1>1, <2>1
<1>8. EntryOK(limiter'[KeyTable!Source], all, KeyTable!Source)
  <2>1. EntryOK(Bumped(e1[KeyTable!Source]), granted \cup {b} \cup {a}, KeyTable!Source)
    <3>1. \A x \in {a} : x.id # KeyTable!Source
      BY <1>0, <1>3
    <3>2. /\ ~(Began(e1[KeyTable!Source]) /\ Passed(e1[KeyTable!Source])) /\ e1[KeyTable!Source] \in LimiterEntry
          /\ EntryOK(e1[KeyTable!Source], granted, KeyTable!Source)
      BY <1>0, <1>1, <1>5
    <3> QED
      BY <1>0, <1>3, <1>5, <3>1, <3>2, BumpedCounts
  <2>2. granted \cup {b} \cup {a} = all
    OBVIOUS
  <2> QED
    BY <1>0, <1>1, <2>1, <2>2
<1>9. ASSUME NEW d \in LimiterIds, d \notin {c, KeyTable!Source} PROVE EntryOK(limiter'[d],
             all, d)
  <2>1. EntryOK(e1[d], granted \cup {a, b}, d)
    BY <1>3, <1>5, <1>9, OthersCounts
  <2>2. granted \cup {a, b} = all
    OBVIOUS
  <2> QED
    BY <1>1, <1>9, <2>1, <2>2
<1>10. \A d \in LimiterIds : EntryOK(limiter'[d], all, d)
  BY <1>7, <1>8, <1>9
<1>11. GrantsOK(limiter', granted')
  BY <1>1, <1>2, <1>6, <1>10 DEF GrantsOK
<1>12. \A x \in granted' : x \in granted \/ x.by = c
  BY <1>2, <1>3
<1>13. VerifiersOK(pool', client')
  BY NotYetChecking
<1> QED
  BY <1>11, <1>12, <1>13, RequestMoves, FinalSame DEF KeyRequestRow, KeysInv

LEMMA KeysArrive ==
  ASSUME KeyBounds, KeysInv, NEW c \in Clients,
         KeyTable!authenticationCandidate(c) \/ KeyTable!LimiterRefuses(c)
  PROVE  KeysInv' /\ KeysStepOK
<1>1. CASE KeyTable!authenticationCandidate(c)
  <2>1. KeyTable!Arrives(c) /\ UNCHANGED <<key, now, desk, pool>>
    BY <1>1 DEF KeyTable!authenticationCandidate
  <2>2. PICK kind \in KeyTable!Kinds, k \in KeyIds, right \in BOOLEAN :
          /\ client' = [client EXCEPT ![c] = [stage |-> "read", kind |-> kind, key |-> k,
                          known |-> key[k].status # "none",
                          right |-> right /\ key[k].status # "none"]]
          /\ IF kind = "authenticate" THEN UNCHANGED <<limiter, granted>>
             ELSE /\ KeyTable!Acquired(limiter, c, KeyTable!Source).ok
                  /\ limiter' = KeyTable!Acquired(limiter, c, KeyTable!Source).entries
                  /\ granted' = granted \cup {[id |-> id, at |-> now, by |-> c] : id \in {c, KeyTable!Source}}
    BY <1>1 DEF KeyTable!authenticationCandidate
  <2> DEFINE r == [stage |-> "read", kind |-> kind, key |-> k, known |-> key[k].status # "none",
                   right |-> right /\ key[k].status # "none"]
  <2>3. r \in Presenting /\ r.stage = "read" /\ client' = [client EXCEPT ![c] = r]
    BY <2>2 DEF Presenting
  <2> HIDE DEF r
  <2>4. CASE kind = "authenticate"
    <3>1. VerifiersOK(pool', client')
      BY <2>1, <2>3, NotYetChecking
    <3>2. UNCHANGED <<limiter, granted>>
      BY <2>2, <2>4
    <3> QED
      BY <2>1, <2>3, <3>1, <3>2, RequestMoves, FinalSame DEF KeyRequestRow, KeysInv
  <2>5. CASE kind # "authenticate"
    BY <2>1, <2>2, <2>3, <2>5, KeysInspect
  <2> QED
    BY <2>4, <2>5
<1>2. CASE KeyTable!LimiterRefuses(c)
  <2>1. /\ KeyTable!Arrives(c) /\ UNCHANGED <<key, now, desk, pool, granted>>
        /\ ~KeyTable!Acquired(limiter, c, KeyTable!Source).ok /\ limiter' = KeyTable!Acquired(limiter, c, KeyTable!Source).entries
        /\ client' = [client EXCEPT ![c] = KeyTable!Ended("over")]
    BY <1>2 DEF KeyTable!LimiterRefuses
  <2>2. now \in Nat /\ limiter \in [LimiterIds -> LimiterEntry]
    BY DEF KeysInv, KeyBounds, GrantsOK
  <2>3. Pruned(limiter, limiter')
    BY <2>1, <2>2, AcquiredShape
  <2>4. GrantsOK(limiter', granted')
    BY <2>1, <2>2, <2>3, PrunedGrants DEF KeysInv
  <2>5. KeyTable!Ended("over") \in KeyRequestRow /\ KeyTable!Ended("over").stage = "over"
    BY DEF KeyTable!Ended, KeyRequestRow
  <2>6. VerifiersOK(pool', client')
    BY <2>1, <2>5, NotYetChecking
  <2> QED
    BY <2>1, <2>4, <2>5, <2>6, RequestMoves, FinalSame DEF KeysInv
<1> QED
  BY <1>1, <1>2

\* A verification begins and ends.
LEMMA KeysCheck ==
  ASSUME KeyBounds, KeysInv, NEW c \in Clients,
         KeyTable!CheckStarts(c) \/ KeyTable!CheckEnds(c)
  PROVE  KeysInv' /\ KeysStepOK
<1> DEFINE kind == client[c].kind
           S(n) == CheckingOf(client, n)
<1>0. /\ client[c] \in Presenting /\ kind \in KeyTable!Kinds /\ c \in Clients
      /\ UNCHANGED <<key, now, desk, limiter, granted>>
      /\ \A n \in KeyTable!Kinds : pool[n] \in 0..PoolSize /\ pool[n] = Cardinality(S(n)) /\ IsFiniteSet(S(n))
  <2>1. client[c].stage \in {"read", "checking"} /\ UNCHANGED <<key, now, desk, limiter, granted>>
    BY DEF KeyTable!CheckStarts, KeyTable!CheckEnds, KeyTable!Goes
  <2>2. client[c] \in Presenting
    BY <2>1, RequestShape
  <2>3. \A n : S(n) \subseteq Clients
    BY DEF CheckingOf
  <2>4. \A n : IsFiniteSet(S(n))
    BY <2>3, FS_Subset DEF KeyBounds
  <2> QED
    BY <2>1, <2>2, <2>4 DEF KeysInv, VerifiersOK, Presenting
<1>1. /\ GrantsOK(limiter', granted') /\ LineageOK(key') /\ NoneComesBack(key, key')
      /\ \A x \in granted' : x \in granted
  BY <1>0, FinalSame DEF KeysInv, GrantsOK, EntryOK
<1>2. KeyTable!Ended("over") \in KeyRequestRow /\ KeyTable!Ended("over").stage = "over"
  BY DEF KeyTable!Ended, KeyRequestRow
<1>3. CASE KeyTable!CheckStarts(c) /\ pool[kind] < PoolSize
  <2> DEFINE r == [client[c] EXCEPT !.stage = "checking"]
  <2>1. /\ r \in Presenting /\ r.stage = "checking" /\ r.kind = kind
        /\ client' = [client EXCEPT ![c] = r] /\ pool' = [pool EXCEPT ![kind] = @ + 1]
        /\ client[c].stage = "read"
    BY <1>0, <1>3 DEF KeyTable!CheckStarts, KeyTable!Goes, Presenting
  <2> HIDE DEF r, kind
  <2>2. /\ CheckingOf(client', kind) = S(kind) \cup {c} /\ c \notin S(kind)
        /\ \A n \in KeyTable!Kinds : n # kind => CheckingOf(client', n) = S(n)
    BY <1>0, <2>1 DEF KeysInv, CheckingOf
  <2>3. /\ pool' \in [KeyTable!Kinds -> 0..PoolSize] /\ pool'[kind] = pool[kind] + 1
        /\ \A n \in KeyTable!Kinds : n # kind => pool'[n] = pool[n]
    <3>1. pool[kind] + 1 \in 0..PoolSize
      BY <1>0, <1>3 DEF KeyBounds, kind
    <3> QED
      BY <1>0, <2>1, <3>1 DEF KeysInv, VerifiersOK
  <2> HIDE DEF S
  <2>4. Cardinality(S(kind) \cup {c}) = Cardinality(S(kind)) + 1
    BY <1>0, <2>2, FS_AddElement
  <2>5. VerifiersOK(pool', client')
    BY <1>0, <2>2, <2>3, <2>4 DEF VerifiersOK
  <2> QED
    BY <1>0, <1>1, <2>1, <2>5, RequestMoves DEF KeyRequestRow
<1>4. CASE KeyTable!CheckStarts(c) /\ ~(pool[kind] < PoolSize)
  <2>1. /\ client' = [client EXCEPT ![c] = KeyTable!Ended("over")] /\ pool' = pool /\ client[c].stage = "read"
    BY <1>4 DEF KeyTable!CheckStarts, KeyTable!Goes
  <2>2. VerifiersOK(pool', client')
    BY <1>2, <2>1, NotChecking
  <2> QED
    BY <1>0, <1>1, <1>2, <2>1, <2>2, RequestMoves
<1>5. CASE KeyTable!CheckEnds(c)
  <2>1. PICK threw \in BOOLEAN :
          /\ client' = [client EXCEPT ![c] = IF client[c].known
                          THEN [client[c] EXCEPT !.stage = "verified", !.right = @ /\ ~threw]
                          ELSE KeyTable!Ended("over")]
          /\ pool' = [pool EXCEPT ![kind] = @ - 1] /\ client[c].stage = "checking"
    BY <1>5 DEF KeyTable!CheckEnds, KeyTable!Goes, KeyTable!Leaves
  <2> DEFINE v == [client[c] EXCEPT !.stage = "verified", !.right = @ /\ ~threw]
             r == IF client[c].known THEN v ELSE KeyTable!Ended("over")
  <2>2. v \in Presenting /\ v.stage = "verified"
    <3>1. client[c].right \in BOOLEAN
      BY <1>0 DEF Presenting
    <3>2. (client[c].right /\ ~threw) \in BOOLEAN
      OBVIOUS
    <3> DEFINE y == client[c].right /\ ~threw
    <3>3. v = [client[c] EXCEPT !.stage = "verified", !.right = y]
      OBVIOUS
    <3> HIDE DEF y
    <3>4. y \in BOOLEAN
      BY <3>2 DEF y
    <3> HIDE DEF v
    <3> QED
      BY <1>0, <3>3, <3>4 DEF Presenting
  <2>3. r \in KeyRequestRow /\ r.stage \in {"verified", "over"} /\ client' = [client EXCEPT ![c] = r]
    BY <1>2, <2>1, <2>2 DEF KeyRequestRow
  <2> HIDE DEF r, kind
  <2>4. /\ CheckingOf(client', kind) = S(kind) \ {c} /\ c \in S(kind)
        /\ \A n \in KeyTable!Kinds : n # kind => CheckingOf(client', n) = S(n)
    BY <1>0, <2>1, <2>3 DEF KeysInv, CheckingOf, kind
  <2> HIDE DEF S
  <2>5. Cardinality(S(kind) \ {c}) = Cardinality(S(kind)) - 1 /\ Cardinality(S(kind)) # 0
    BY <1>0, <2>4, FS_RemoveElement, FS_EmptySet
  <2>6. /\ pool' \in [KeyTable!Kinds -> 0..PoolSize] /\ pool'[kind] = pool[kind] - 1
        /\ \A n \in KeyTable!Kinds : n # kind => pool'[n] = pool[n]
    <3>1. pool[kind] - 1 \in 0..PoolSize
      BY <1>0, <2>5 DEF KeyBounds
    <3> QED
      BY <1>0, <2>1, <3>1 DEF KeysInv, VerifiersOK
  <2>7. VerifiersOK(pool', client')
    BY <1>0, <2>4, <2>5, <2>6 DEF VerifiersOK
  <2> QED
    BY <1>0, <1>1, <2>3, <2>7, RequestMoves
<1> QED
  BY <1>3, <1>4, <1>5

\* A verified request is accepted, blocked or refused by the row as it is now, and an
\* operation asks for it once more.
LEMMA KeysServe ==
  ASSUME KeyBounds, KeysInv, NEW c \in Clients,
         \/ KeyTable!completeAuthentication(c) \/ KeyTable!activeVerifiedCandidate(c) \/ KeyTable!Act(c) \/ KeyTable!ActDenied(c)
  PROVE  KeysInv' /\ KeysStepOK
<1>0. /\ UNCHANGED <<now, desk, pool, limiter, granted>>
      /\ client[c].stage \in {"verified", "accepted"}
  BY DEF KeyTable!completeAuthentication, KeyTable!activeVerifiedCandidate, KeyTable!Act,
       KeyTable!ActDenied, KeyTable!Goes
<1>1. GrantsOK(limiter', granted') /\ \A x \in granted' : x \in granted
  BY <1>0 DEF KeysInv, GrantsOK, EntryOK
<1>2. \A how \in {"over", "blocked", "acted"} : KeyTable!Ended(how) \in KeyRequestRow /\ KeyTable!Ended(how).stage = how
  BY DEF KeyTable!Ended, KeyRequestRow
<1>3. CASE KeyTable!completeAuthentication(c)
  <2> DEFINE k == client[c].key
             r == IF KeyTable!Accepts(c, k)
                  THEN [stage |-> "accepted", key |-> k, nick |-> key[k].nick, scope |-> key[k].scope]
                  ELSE KeyTable!Ended("over")
  <2>1. /\ k \in KeyIds /\ client' = [client EXCEPT ![c] = r]
        /\ key' = IF key[k].status = "active" /\ KeyTable!Expired(k)
                  THEN [key EXCEPT ![k].status = "expired", ![k].version = @ + 1] ELSE key
    <3>1. client[c] \in Presenting
      BY <1>3, RequestShape DEF KeyTable!completeAuthentication
    <3> QED
      BY <1>3, <3>1 DEF KeyTable!completeAuthentication, Presenting
  <2>2. /\ r \in KeyRequestRow /\ r.stage \in {"accepted", "over"} /\ (r.stage = "accepted" => KeyTable!Live(k))
    <3>1. key[k].nick \in {0} \cup KeyTable!Nicknames /\ key[k].scope \in KeyTable!Scopes \cup {"none"}
      BY <2>1 DEF KeysInv, LineageOK, KeyRow
    <3> QED
      BY <1>2, <2>1, <3>1 DEF KeyRequestRow, AcceptedKey, KeyTable!Accepts
  <2> HIDE DEF r
  <2>3. LineageOK(key') /\ NoneComesBack(key, key')
    <3>1. CASE key[k].status = "active" /\ KeyTable!Expired(k)
      <4>1. /\ key[k].expires \in Nat /\ key[k].expires <= key[k].expires /\ key[k].nick \in {0} \cup KeyTable!Nicknames
            /\ key[k].status # "none" /\ "expired" \in {"active", "expired", "revoked"} /\ k \in KeyIds
        BY <2>1, <3>1 DEF KeysInv, LineageOK, KeyRow
      <4> HIDE DEF k
      <4>2. key' = [key EXCEPT ![k] = Versioned(key[k], "expired", key[k].expires, key[k].nick)]
        BY <2>1, <3>1, VersionedRows
      <4> QED
        BY <4>1, <4>2, Replaces
    <3>2. CASE ~(key[k].status = "active" /\ KeyTable!Expired(k))
      BY <2>1, <3>2, FinalSame DEF KeysInv
    <3> QED
      BY <3>1, <3>2
  <2>4. VerifiersOK(pool', client')
    BY <1>0, <2>1, <2>2, NotChecking
  <2> QED
    BY <1>0, <1>1, <2>1, <2>2, <2>3, <2>4, RequestMoves
<1>4. CASE KeyTable!activeVerifiedCandidate(c) \/ KeyTable!Act(c) \/ KeyTable!ActDenied(c)
  <2>1. PICK how \in {"over", "blocked", "acted"} :
          /\ client' = [client EXCEPT ![c] = KeyTable!Ended(how)] /\ key' = key
          /\ how # "over" => KeyTable!Live(client[c].key)
    <3>1. CASE KeyTable!activeVerifiedCandidate(c)
      BY <3>1 DEF KeyTable!activeVerifiedCandidate, KeyTable!Goes
    <3>2. CASE KeyTable!Act(c)
      BY <3>2 DEF KeyTable!Act, KeyTable!Goes, KeyTable!requireServiceApiKeyAuthority,
           KeyTable!currentApiKey
    <3>3. CASE KeyTable!ActDenied(c)
      BY <3>3 DEF KeyTable!ActDenied, KeyTable!Goes
    <3> QED
      BY <1>4, <3>1, <3>2, <3>3
  <2>2. VerifiersOK(pool', client')
    BY <1>0, <1>2, <2>1, NotChecking
  <2> QED
    BY <1>0, <1>1, <1>2, <2>1, <2>2, RequestMoves, FinalSame DEF KeysInv
<1> QED
  BY <1>3, <1>4

LEMMA KeysNext ==
  ASSUME KeyBounds, KeysInv, [KeyTable!Next]_(KeyTable!apiVars)
  PROVE  KeysInv' /\ KeysStepOK
<1>1. CASE \E u \in Managers : KeyTable!OrderCreate(u) \/ KeyTable!OrderChange(u)
  BY <1>1, KeysOrder
<1>2. CASE \E u \in Managers : KeyTable!create(u)
  BY <1>2, KeysCreate
<1>3. CASE \E u \in Managers : KeyTable!update(u) \/ KeyTable!revoke(u) \/ KeyTable!Refused(u)
  BY <1>3, KeysChange
<1>4. CASE \E u \in Managers : KeyTable!rotate(u)
  BY <1>4, KeysRotate
<1>5. CASE (\E u \in Managers : KeyTable!AccountChanges(u)) \/ KeyTable!Tick \/ UNCHANGED KeyTable!apiVars
  BY <1>5, KeysAround
<1>6. CASE \E c \in Clients : KeyTable!authenticationCandidate(c) \/ KeyTable!LimiterRefuses(c)
  BY <1>6, KeysArrive
<1>7. CASE \E c \in Clients : KeyTable!CheckStarts(c) \/ KeyTable!CheckEnds(c)
  BY <1>7, KeysCheck
<1>8. CASE \E c \in Clients : \/ KeyTable!completeAuthentication(c) \/ KeyTable!activeVerifiedCandidate(c)
                              \/ KeyTable!Act(c) \/ KeyTable!ActDenied(c)
  BY <1>8, KeysServe
<1> QED
  BY <1>1, <1>2, <1>3, <1>4, <1>5, <1>6, <1>7, <1>8 DEF KeyTable!Next

LEMMA KeysInit ==
  ASSUME KeyBounds, KeyTable!Init
  PROVE  KeysInv
<1>1. PICK scope \in KeyTable!Scopes, expires \in {MaxKeyTime + 1, KeyTable!Forever} :
        key = [[k \in KeyIds |-> KeyTable!NoKey] EXCEPT ![1] = [status |-> "active", scope |-> scope,
                 expires |-> expires, version |-> 1, nick |-> 1, root |-> 1, bound |-> expires]]
  BY DEF KeyTable!Init
<1> DEFINE row == [status |-> "active", scope |-> scope, expires |-> expires, version |-> 1,
                   nick |-> 1, root |-> 1, bound |-> expires]
           rows == [k \in KeyIds |-> KeyTable!NoKey]
<1>2. row \in KeyRow /\ row.root = 1 /\ row.expires <= row.bound /\ row.status = "active"
  BY DEF KeyRow, KeyTable!Nicknames, KeyBounds, KeyTable!Forever
<1>3. KeyTable!NoKey \in KeyRow /\ KeyTable!NoKey.status = "none" /\ KeyTable!NoKey.root = 0
  BY DEF KeyTable!NoKey, KeyRow
<1>4. LineageOK(rows) /\ rows[1].status = "none"
  BY <1>3 DEF LineageOK, KeyBounds
<1> HIDE DEF row, rows
<1>5. LineageOK(key)
  BY <1>1, <1>2, <1>4, RowAdded DEF row, rows, KeyBounds
<1>6. DeskOK
  BY DEF KeyTable!Init, DeskOK, KeyTable!NoOrder
<1>7. client \in [Clients -> KeyRequestRow] /\ \A c \in Clients : client[c].stage = "idle"
  BY DEF KeyTable!Init, KeyTable!NoClient, KeyRequestRow
<1>8. VerifiersOK(pool, client)
  <2>1. \A kind : CheckingOf(client, kind) = {}
    BY <1>7 DEF CheckingOf
  <2>2. pool \in [KeyTable!Kinds -> 0..PoolSize] /\ \A kind \in KeyTable!Kinds : pool[kind] = 0
    BY DEF KeyTable!Init, KeyBounds
  <2> QED
    BY <2>1, <2>2, FS_EmptySet DEF VerifiersOK
<1>9. GrantsOK(limiter, granted) /\ ArrivedOK(granted, client)
  <2>1. KeyTable!NoEntry \in LimiterEntry /\ KeyTable!NoEntry.count = 0 /\ KeyTable!NoEntry.start = 0 /\ now = 0 /\ granted = {}
    BY DEF KeyTable!NoEntry, LimiterEntry, KeyTable!Init
  <2>2. limiter \in [LimiterIds -> LimiterEntry] /\ \A id \in LimiterIds : limiter[id] = KeyTable!NoEntry
    BY <2>1 DEF KeyTable!Init, LimiterIds
  <2> QED
    BY <2>1, <2>2, FS_EmptySet DEF GrantsOK, EntryOK, ArrivedOK
<1> QED
  BY <1>5, <1>6, <1>7, <1>8, <1>9 DEF KeysInv, KeyTable!Init, KeyBounds

LEMMA KeysSafe ==
  ASSUME KeyBounds, KeysInv
  PROVE  KeyTable!KeysAccounted
<1>1. KeyTable!TypeOK
  BY DEF KeyTable!TypeOK, KeysInv, LineageOK, KeyRow, VerifiersOK
<1>2. \A k, m \in KeyIds :
        key[k].root # 0 /\ key[k].root = key[m].root =>
          /\ k # m => ~(key[k].status = "active" /\ key[m].status = "active")
          /\ key[k].scope = key[m].scope
          /\ key[k].expires <= key[key[k].root].bound
  BY DEF KeysInv, LineageOK
<1>3. \A kind \in KeyTable!Kinds :
        pool[kind] = Cardinality({c \in Clients : client[c].stage = "checking" /\ client[c].kind = kind})
  BY DEF KeysInv, VerifiersOK, CheckingOf
<1>4. KeyTable!LimiterExact
  BY KeyTableCardinality DEF KeysInv, GrantsOK, EntryOK, ChargedSince, KeyTable!LimiterExact
<1> QED
  BY <1>1, <1>2, <1>3, <1>4, KeyTableCardinality DEF KeyTable!KeysAccounted,
       KeyTable!LineageKept

\* The strengthening holds of the keys for any identifiers, requests, managers and limits,
\* at any interleaving of rotation, revocation, expiry and the waits of requests
\* (apiKeys.ts, apiKeyAuthority.ts, selfApiKeyProtection.ts).
THEOREM KeysInductive == KeyBounds /\ KeyTable!Spec => []KeysInv
<1> SUFFICES ASSUME KeyBounds PROVE KeyTable!Spec => []KeysInv
  OBVIOUS
<1>1. KeyTable!Init => KeysInv
  BY KeysInit
<1>2. KeysInv /\ [KeyTable!Next]_(KeyTable!apiVars) => KeysInv'
  BY KeysNext
<1> QED
  BY <1>1, <1>2, PTL DEF KeyTable!Spec

\* One key of a lineage is active, none outlives the first, the pool of verifiers counts
\* those that verify, and the limiter charges what it granted (apiKeys.ts rotate,
\* apiKeyAuthority.ts ApiKeyVerifierPool, selfApiKeyProtection.ts acquire).
THEOREM KeysStayAccounted == KeyBounds /\ KeyTable!Spec => []KeyTable!KeysAccounted
<1> SUFFICES ASSUME KeyBounds PROVE KeyTable!Spec => []KeyTable!KeysAccounted
  OBVIOUS
<1>1. KeysInv => KeyTable!KeysAccounted
  BY KeysSafe
<1> QED
  BY <1>1, KeysInductive, PTL

\* A key that was revoked, rotated or has expired while a request waited does nothing for
\* it, and none comes back (apiKeyAuthority.ts completeAuthentication, currentApiKey).
THEOREM RevocationStaysFinal == KeyBounds /\ KeyTable!Spec => KeyTable!RevocationIsFinal
<1> SUFFICES ASSUME KeyBounds PROVE KeyTable!Spec => KeyTable!RevocationIsFinal
  OBVIOUS
<1>1. KeysInv /\ [KeyTable!Next]_(KeyTable!apiVars) =>
        [/\ \A c \in Clients :
              client'[c] # client[c] /\ client'[c].stage \in {"accepted", "acted", "blocked"}
                => KeyTable!Live(client[c].key)
         /\ \A k \in KeyIds : key[k].status # "none" =>
              /\ key[k].status # "active" => key'[k].status # "active"
              /\ key'[k].expires <= key[k].expires]_(KeyTable!apiVars)
  BY KeysNext DEF KeysStepOK, Resumes, NoneComesBack
<1> QED
  BY <1>1, KeysInductive, PTL DEF KeyTable!Spec, KeyTable!RevocationIsFinal

-----------------------------------------------------------------------------
(* The lists.                                                              *)

\* Records have numbers, and evidence is kept for a while.
ListBounds ==
  /\ IsFiniteSet(ListedRecords) /\ ListedRecords \subseteq Nat
  /\ PageSize \in Nat /\ Retention \in Nat \ {0}

ListedRow == [status : {"none", "active", "revoked", "cleaned"}, used : Nat, since : Nat]
WalkRow ==
  [state : {"none", "on", "done"}, viewer : Lists!Viewers, kind : {"session", "grant"}, more : BOOLEAN,
   at : Nat, id : Nat, shown : SUBSET ListedRecords, twice : SUBSET ListedRecords, base : SUBSET ListedRecords,
   moved : SUBSET ListedRecords]

ListsTyped ==
  /\ record \in [ListedRecords -> ListedRow]
  /\ uses \in [Lists!Owners -> SUBSET Svcs] /\ manages \subseteq Svcs
  /\ walk \in WalkRow /\ tick \in Nat

\* What did not change since the walk began is still in the list: past the cursor if
\* and only if it was not shown.
WalkOK ==
  /\ walk.twice \subseteq walk.moved
  /\ walk.state = "on" =>
       /\ \A r \in walk.base \ walk.moved :
            r \in Lists!Visible(walk.viewer, walk.kind) /\ (r \in walk.shown \/ Lists!After(r))
       /\ \A r \in walk.shown \ walk.moved : ~Lists!After(r)
  /\ walk.state = "done" => walk.base \ walk.moved \subseteq walk.shown

ListsInv == ListsTyped /\ WalkOK

\* The cleanup as CleanupKeepsAnswers describes it.
AnswersKept ==
  \A r \in ListedRecords : record[r].status # "cleaned" /\ record'[r].status = "cleaned" =>
    /\ ~Lists!Active(r)
    /\ \A v \in Lists!Viewers : Lists!Answered(v, r) <=> Lists!Answered(v, r)'

\* A change of the records of rs is noted in the walk.
LEMMA RecordsChange ==
  ASSUME ListsInv, NEW rs, rs \subseteq ListedRecords, Lists!Moved(rs), tick' = tick,
         record' \in [ListedRecords -> ListedRow], uses' \in [Lists!Owners -> SUBSET Svcs], manages' \subseteq Svcs,
         \A r \in ListedRecords : r \notin rs =>
           /\ record'[r] = record[r] /\ uses'[OwnerOf[r]] = uses[OwnerOf[r]] /\ manages' = manages
  PROVE  ListsInv'
<1>1. CASE walk.state = "on"
  <2>1. walk' = [walk EXCEPT !.moved = walk.moved \cup rs]
    BY <1>1 DEF Lists!Moved
  <2>2. /\ walk' \in WalkRow /\ walk'.moved = walk.moved \cup rs
        /\ walk'.state = "on" /\ walk'.viewer = walk.viewer /\ walk'.kind = walk.kind
        /\ walk'.more = walk.more /\ walk'.at = walk.at /\ walk'.id = walk.id
        /\ walk'.shown = walk.shown /\ walk'.twice = walk.twice /\ walk'.base = walk.base
    BY <1>1, <2>1 DEF ListsInv, ListsTyped, WalkRow
  <2>3. walk.base \subseteq ListedRecords /\ walk.shown \subseteq ListedRecords
    BY DEF ListsInv, ListsTyped, WalkRow
  <2>4. ASSUME NEW r \in ListedRecords, r \notin rs
        PROVE  /\ Lists!After(r)' <=> Lists!After(r)
               /\ r \in Lists!Visible(walk.viewer, walk.kind) => r \in Lists!Visible(walk.viewer, walk.kind)'
    <3>1. /\ record'[r] = record[r] /\ uses'[OwnerOf[r]] = uses[OwnerOf[r]] /\ manages' = manages
      BY <2>4
    <3>2. Lists!After(r)' <=> Lists!After(r)
      BY <2>2, <3>1 DEF Lists!After
    <3>3. r \in Lists!Visible(walk.viewer, walk.kind) => r \in Lists!Visible(walk.viewer, walk.kind)'
      BY <2>2, <3>1 DEF Lists!Visible, Lists!Active, Lists!RegularAdminGrantAccess
    <3> QED
      BY <3>2, <3>3
  <2>5. WalkOK'
    BY <1>1, <2>2, <2>3, <2>4 DEF ListsInv, WalkOK
  <2> QED
    BY <2>2, <2>5 DEF ListsInv, ListsTyped
<1>2. CASE walk.state # "on"
  <2>1. walk' = walk
    BY <1>2 DEF Lists!Moved
  <2> QED
    BY <1>2, <2>1 DEF ListsInv, ListsTyped, WalkOK
<1> QED
  BY <1>1, <1>2

LEMMA RowTyped ==
  ASSUME NEW status \in {"none", "active", "revoked", "cleaned"}, NEW used \in Nat, NEW since \in Nat
  PROVE  Lists!Row(status, used, since) \in ListedRow /\ Lists!Row(status, used, since).status = status
BY DEF Lists!Row, ListedRow

LEMMA ListsSets ==
  ASSUME ListsInv, NEW rs, rs \subseteq ListedRecords, Lists!revokeSet(rs), UNCHANGED <<uses, manages, evidence, tick>>
  PROVE  ListsInv' /\ AnswersKept
<1> DEFINE live == {r \in rs : Lists!Active(r)}
<1>1. /\ record' = [r \in ListedRecords |-> IF r \in live THEN Lists!Row("revoked", record[r].used, tick) ELSE record[r]]
      /\ Lists!Moved(live)
  BY DEF Lists!revokeSet
<1>2. live \subseteq ListedRecords
  OBVIOUS
<1> HIDE DEF live
<1>3. \A r \in ListedRecords : record[r] \in ListedRow /\ record[r].used \in Nat /\ tick \in Nat
  BY DEF ListsInv, ListsTyped, ListedRow
<1>4. \A r \in ListedRecords : /\ record'[r] \in ListedRow
                               /\ r \notin live => record'[r] = record[r]
                               /\ r \in live => record'[r].status = "revoked"
  BY <1>1, <1>3, RowTyped
<1>5. record' \in [ListedRecords -> ListedRow]
  BY <1>1, <1>4
<1>6. ListsInv'
  <2>1. uses' \in [Lists!Owners -> SUBSET Svcs] /\ manages' \subseteq Svcs
    BY DEF ListsInv, ListsTyped
  <2> QED
    BY <1>1, <1>2, <1>4, <1>5, <2>1, RecordsChange
<1>7. AnswersKept
  BY <1>4 DEF AnswersKept
<1> QED
  BY <1>6, <1>7

LEMMA ListsRevoke ==
  ASSUME ListsInv,
         \/ \E u, kind, rs : rs \subseteq ListedRecords /\ Lists!revokeOwn(u, kind, rs)
         \/ \E v \in Lists!Viewers, r \in ListedRecords : Lists!revokeAdministrative(v, r)
         \/ \E v, kind, us : Lists!revokeBulk(v, kind, us)
  PROVE  ListsInv' /\ AnswersKept
<1>1. CASE \E u, kind, rs : rs \subseteq ListedRecords /\ Lists!revokeOwn(u, kind, rs)
  <2>1. PICK u, kind, rs : rs \subseteq ListedRecords /\ Lists!revokeOwn(u, kind, rs)
    BY <1>1
  <2>2. {r \in rs : OwnerOf[r] = u /\ KindOf[r] = kind} \subseteq ListedRecords
    BY <2>1
  <2> QED
    BY <2>1, <2>2, ListsSets DEF Lists!revokeOwn
<1>2. CASE \E v \in Lists!Viewers, r \in ListedRecords : Lists!revokeAdministrative(v, r)
  <2>1. PICK v \in Lists!Viewers, r \in ListedRecords : Lists!revokeAdministrative(v, r)
    BY <1>2
  <2>2. {r} \subseteq ListedRecords
    BY <2>1
  <2> QED
    BY <2>1, <2>2, ListsSets DEF Lists!revokeAdministrative
<1>3. CASE \E v, kind, us : Lists!revokeBulk(v, kind, us)
  <2>1. PICK v, kind, us : Lists!revokeBulk(v, kind, us)
    BY <1>3
  <2>2. {r \in ListedRecords : OwnerOf[r] \in us /\ KindOf[r] = kind} \subseteq ListedRecords
    OBVIOUS
  <2> QED
    BY <2>1, <2>2, ListsSets DEF Lists!revokeBulk
<1> QED
  BY <1>1, <1>2, <1>3

LEMMA ListsUse ==
  ASSUME ListsInv, NEW r \in ListedRecords, Lists!Issue(r) \/ Lists!Touch(r)
  PROVE  ListsInv' /\ AnswersKept
<1>1. record[r] \in ListedRow /\ tick \in Nat
  BY DEF ListsInv, ListsTyped
<1>2. PICK row \in ListedRow : row.status = "active" /\ record' = [record EXCEPT ![r] = row]
  <2>1. CASE Lists!Issue(r)
    BY <1>1, <2>1, RowTyped DEF Lists!Issue
  <2>2. CASE Lists!Touch(r)
    <3>1. record' = [record EXCEPT ![r] = [record[r] EXCEPT !.used = tick]] /\ record[r].status = "active"
      BY <2>2 DEF Lists!Touch, Lists!Active, ListsInv, ListsTyped
    <3>2. /\ [record[r] EXCEPT !.used = tick] \in ListedRow
          /\ [record[r] EXCEPT !.used = tick].status = record[r].status
      BY <1>1 DEF ListedRow
    <3> QED
      BY <3>1, <3>2
  <2> QED
    BY <2>1, <2>2
<1>3. /\ Lists!Moved({r}) /\ tick' = tick /\ uses' = uses /\ manages' = manages
  BY DEF Lists!Issue, Lists!Touch
<1>4. /\ record' \in [ListedRecords -> ListedRow] /\ record'[r].status = "active"
      /\ \A m \in ListedRecords : m # r => record'[m] = record[m]
  BY <1>2 DEF ListsInv, ListsTyped
<1>5. ListsInv'
  <2>1. /\ uses' \in [Lists!Owners -> SUBSET Svcs] /\ manages' \subseteq Svcs
        /\ {r} \subseteq ListedRecords
        /\ \A m \in ListedRecords : m \notin {r} =>
             record'[m] = record[m] /\ uses'[OwnerOf[m]] = uses[OwnerOf[m]] /\ manages' = manages
    BY <1>3, <1>4 DEF ListsInv, ListsTyped
  <2> QED
    BY <1>3, <1>4, <2>1, RecordsChange
<1>6. AnswersKept
  BY <1>4 DEF AnswersKept
<1> QED
  BY <1>5, <1>6

LEMMA ListsReassign ==
  ASSUME ListsInv,
         \/ \E u \in Lists!Owners, s \in Svcs : Lists!Reassign(u, s)
         \/ \E s \in Svcs : Lists!Readminister(s)
  PROVE  ListsInv' /\ AnswersKept
<1>1. CASE \E u \in Lists!Owners, s \in Svcs : Lists!Reassign(u, s)
  <2>1. PICK u \in Lists!Owners, s \in Svcs : Lists!Reassign(u, s)
    BY <1>1
  <2> DEFINE rs == {r \in ListedRecords : OwnerOf[r] = u}
             now2 == IF s \in uses[u] THEN uses[u] \ {s} ELSE uses[u] \cup {s}
  <2>2. /\ record' = record /\ manages' = manages /\ tick' = tick /\ Lists!Moved(rs)
        /\ uses' = [uses EXCEPT ![u] = now2]
    BY <2>1 DEF Lists!Reassign
  <2>3. now2 \in SUBSET Svcs
    BY <2>1 DEF ListsInv, ListsTyped
  <2> HIDE DEF now2
  <2>4. uses' \in [Lists!Owners -> SUBSET Svcs] /\ \A w \in Lists!Owners : w # u => uses'[w] = uses[w]
    BY <2>2, <2>3 DEF ListsInv, ListsTyped
  <2>5. /\ record' \in [ListedRecords -> ListedRow] /\ manages' \subseteq Svcs
        /\ rs \subseteq ListedRecords
        /\ \A r \in ListedRecords : r \notin rs =>
             record'[r] = record[r] /\ uses'[OwnerOf[r]] = uses[OwnerOf[r]] /\ manages' = manages
    BY <2>2, <2>4 DEF ListsInv, ListsTyped, Lists!Owners
  <2> HIDE DEF rs
  <2>6. ListsInv'
    BY <2>2, <2>4, <2>5, RecordsChange
  <2> QED
    BY <2>2, <2>6 DEF AnswersKept
<1>2. CASE \E s \in Svcs : Lists!Readminister(s)
  <2>1. PICK s \in Svcs : Lists!Readminister(s)
    BY <1>2
  <2>2. /\ record' = record /\ uses' = uses /\ tick' = tick /\ Lists!Moved(ListedRecords) /\ manages' \subseteq Svcs
    BY <2>1 DEF Lists!Readminister, ListsInv, ListsTyped
  <2>3. record' \in [ListedRecords -> ListedRow] /\ uses' \in [Lists!Owners -> SUBSET Svcs]
    BY <2>2 DEF ListsInv, ListsTyped
  <2>4. ListsInv'
    BY <2>2, <2>3, RecordsChange
  <2> QED
    BY <2>2, <2>4 DEF AnswersKept
<1> QED
  BY <1>1, <1>2

\* The cleanup keeps evidence with which the answers stay what they were.
LEMMA ListsCleanup ==
  ASSUME ListBounds, ListsInv, NEW before, Lists!cleanupInactive(before)
  PROVE  ListsInv' /\ AnswersKept
<1> DEFINE gone == {r \in ListedRecords : Lists!Cleanable(r, before)}
<1>1. /\ record' = [r \in ListedRecords |-> IF r \in gone THEN Lists!Row("cleaned", 0, 0) ELSE record[r]]
      /\ evidence' = [r \in ListedRecords |-> IF r \in gone THEN Lists!Evidence(r) ELSE evidence[r]]
      /\ Lists!Moved(gone) /\ uses' = uses /\ manages' = manages /\ tick' = tick
  BY DEF Lists!cleanupInactive
<1>2. gone \subseteq ListedRecords /\ \A r \in gone : record[r].status = "revoked"
  BY DEF Lists!Cleanable
<1> HIDE DEF gone
<1>3. Lists!Row("cleaned", 0, 0) \in ListedRow /\ Lists!Row("cleaned", 0, 0).status = "cleaned"
  BY RowTyped
<1>4. /\ record' \in [ListedRecords -> ListedRow]
      /\ \A r \in ListedRecords : r \notin gone => record'[r] = record[r]
      /\ \A r \in gone : record'[r].status = "cleaned"
  BY <1>1, <1>2, <1>3 DEF ListsInv, ListsTyped
<1>5. ListsInv'
  <2>1. uses' \in [Lists!Owners -> SUBSET Svcs] /\ manages' \subseteq Svcs
    BY <1>1 DEF ListsInv, ListsTyped
  <2> QED
    BY <1>1, <1>2, <1>4, <2>1, RecordsChange
<1>6. ASSUME NEW r \in gone, NEW v \in Lists!Viewers
      PROVE  Lists!Answered(v, r) <=> Lists!Answered(v, r)'
  <2>1. /\ evidence'[r].kept /\ evidence'[r].exp > tick'
        /\ KindOf[r] = "grant" => evidence'[r].services = uses[OwnerOf[r]]
    BY <1>1, <1>2, <1>6 DEF Lists!Evidence, ListsInv, ListsTyped, ListBounds
  <2>2. Lists!Present(r) /\ ~Lists!Present(r)'
    BY <1>2, <1>4, <1>6 DEF Lists!Present
  <2>3. CASE v = "root"
    BY <2>1, <2>2, <2>3 DEF Lists!Answered, Lists!hasAuthorizedCleanupEvidence
  <2>4. CASE v = "adm"
    <3>1. Lists!Answered(v, r) <=> KindOf[r] = "grant" /\ Lists!RegularAdminGrantAccess(OwnerOf[r])
      BY <2>2, <2>4 DEF Lists!Answered, Lists!hasAuthorizedCleanupEvidence,
           Lists!RegularAdminGrantAccess
    <3>2. Lists!Answered(v, r)' <=> KindOf[r] = "grant" /\ Lists!RegularAdminGrantAccess(OwnerOf[r])
      BY <1>1, <2>1, <2>2, <2>4 DEF Lists!Answered, Lists!hasAuthorizedCleanupEvidence,
           Lists!RegularAdminGrantAccess
    <3> QED
      BY <3>1, <3>2
  <2> QED
    BY <2>3, <2>4 DEF Lists!Viewers
<1>7. AnswersKept
  <2>1. ASSUME NEW r \in ListedRecords, record[r].status # "cleaned", record'[r].status = "cleaned"
        PROVE  ~Lists!Active(r) /\ r \in gone
    BY <1>2, <1>4, <2>1 DEF Lists!Active
  <2> QED
    BY <1>6, <2>1 DEF AnswersKept
<1> QED
  BY <1>5, <1>7

\* Rows are in the order of their last use and number.
LEMMA OrderOfRows ==
  ASSUME ListBounds, ListsInv
  PROVE  /\ \A r, s \in ListedRecords : Lists!Before(r, s) \/ Lists!Before(s, r) \/ r = s
         /\ \A r, s \in ListedRecords : ~(Lists!Before(r, s) /\ (Lists!Before(s, r) \/ r = s))
         /\ \A r, s, t \in ListedRecords : Lists!Before(r, s) /\ Lists!Before(s, t) => Lists!Before(r, t)
<1>1. \A r \in ListedRecords : r \in Nat /\ record[r].used \in Nat
  BY DEF ListBounds, ListsInv, ListsTyped, ListedRow
<1> QED
  BY <1>1 DEF Lists!Before

\* A page has all the rows before each of its rows.
LEMMA PagesAreFirst ==
  ASSUME ListBounds, ListsInv, NEW rest, rest \subseteq ListedRecords,
         NEW last \in rest, Cardinality({s \in rest : Lists!Before(s, last)}) < PageSize,
         NEW r \in rest, ~(Cardinality({s \in rest : Lists!Before(s, r)}) < PageSize)
  PROVE  Lists!Before(last, r)
<1> DEFINE Ahead(t) == {s \in rest : Lists!Before(s, t)}
<1>1. \A t : IsFiniteSet(Ahead(t)) /\ Cardinality(Ahead(t)) \in Nat
  BY FS_Subset, FS_CardinalityType DEF ListBounds
<1>2. Cardinality(Ahead(last)) < PageSize /\ ~(Cardinality(Ahead(r)) < PageSize)
  OBVIOUS
<1>3. SUFFICES ASSUME Lists!Before(r, last) \/ r = last PROVE FALSE
  BY OrderOfRows
<1>4. Ahead(r) \subseteq Ahead(last)
  BY <1>3, OrderOfRows
<1>5. Cardinality(Ahead(r)) <= Cardinality(Ahead(last))
  BY <1>1, <1>4, FS_Subset
<1>6. Cardinality(Ahead(last)) \in Nat /\ Cardinality(Ahead(r)) \in Nat
  BY <1>1
<1> HIDE DEF Ahead
<1> QED
  BY <1>2, <1>5, <1>6 DEF ListBounds

LEMMA ListsStart ==
  ASSUME ListsInv, NEW v \in Lists!Viewers, NEW kind \in {"session", "grant"}, Lists!WalkStarts(v, kind)
  PROVE  ListsInv' /\ AnswersKept
<1>1. /\ walk' = [Lists!NoWalk EXCEPT !.state = "on", !.viewer = v, !.kind = kind, !.base = Lists!Visible(v, kind)]
      /\ UNCHANGED <<record, uses, manages, evidence, tick>>
  BY DEF Lists!WalkStarts
<1>2. Lists!Visible(v, kind) \subseteq ListedRecords
  BY DEF Lists!Visible
<1>3. /\ walk' \in WalkRow /\ walk'.state = "on" /\ walk'.viewer = v /\ walk'.kind = kind
      /\ walk'.more = FALSE /\ walk'.shown = {} /\ walk'.twice = {} /\ walk'.base = Lists!Visible(v, kind)
  BY <1>1, <1>2 DEF Lists!NoWalk, WalkRow, Lists!Viewers
<1>4. Lists!Visible(v, kind)' = Lists!Visible(v, kind)
  BY <1>1 DEF Lists!Visible, Lists!Active, Lists!RegularAdminGrantAccess
<1>5. WalkOK'
  BY <1>3, <1>4 DEF WalkOK, Lists!After
<1> QED
  BY <1>1, <1>3, <1>5 DEF ListsInv, ListsTyped, AnswersKept

LEMMA ListsPage ==
  ASSUME ListBounds, ListsInv, Lists!NextPage
  PROVE  ListsInv' /\ AnswersKept
<1> DEFINE rest == {r \in Lists!Visible(walk.viewer, walk.kind) : Lists!After(r)}
           page == {r \in rest : Cardinality({s \in rest : Lists!Before(s, r)}) < PageSize}
           seen == [walk EXCEPT !.shown = walk.shown \cup page,
                                !.twice = walk.twice \cup (walk.shown \cap page)]
<1>1. /\ walk.state = "on" /\ UNCHANGED <<record, uses, manages, evidence, tick>>
      /\ IF page = rest
         THEN walk' = [seen EXCEPT !.state = "done", !.more = FALSE, !.at = 0, !.id = 0]
         ELSE \E last \in page :
                /\ \A r \in page : r = last \/ Lists!Before(r, last)
                /\ walk' = [seen EXCEPT !.more = TRUE, !.at = record[last].used, !.id = last]
  BY ListsCardinality DEF Lists!NextPage
<1>2. /\ rest \subseteq ListedRecords /\ page \subseteq rest /\ \A r \in rest : Lists!After(r)
      /\ \A r \in Lists!Visible(walk.viewer, walk.kind) : Lists!After(r) => r \in rest
  BY DEF Lists!Visible
<1>3. \A last \in page, r \in rest \ page : Lists!Before(last, r)
  <2> SUFFICES ASSUME NEW last \in page, NEW r \in rest \ page
               PROVE  Lists!Before(last, r)
    OBVIOUS
  <2>1. /\ last \in rest /\ Cardinality({s \in rest : Lists!Before(s, last)}) < PageSize
        /\ r \in rest /\ ~(Cardinality({s \in rest : Lists!Before(s, r)}) < PageSize)
    OBVIOUS
  <2>2. rest \subseteq ListedRecords
    BY <1>2
  <2> HIDE DEF rest, page
  <2> QED
    BY <2>1, <2>2, PagesAreFirst
<1> HIDE DEF rest, page
<1>4. /\ walk.shown \subseteq ListedRecords /\ walk.base \subseteq ListedRecords /\ walk.moved \subseteq ListedRecords
      /\ walk.twice \subseteq ListedRecords /\ walk \in WalkRow
  BY DEF ListsInv, ListsTyped, WalkRow
<1>5. /\ seen \in WalkRow /\ seen.shown = walk.shown \cup page /\ seen.base = walk.base
      /\ seen.moved = walk.moved /\ seen.viewer = walk.viewer /\ seen.kind = walk.kind
      /\ seen.twice = walk.twice \cup (walk.shown \cap page) /\ seen.state = "on"
  BY <1>1, <1>2, <1>4 DEF WalkRow
<1> HIDE DEF seen
<1>6. walk.twice \cup (walk.shown \cap page) \subseteq walk.moved
  BY <1>1, <1>2 DEF ListsInv, WalkOK
<1>7. AnswersKept
  BY <1>1 DEF AnswersKept
<1>8. CASE page = rest
  <2>1. walk' = [seen EXCEPT !.state = "done", !.more = FALSE, !.at = 0, !.id = 0]
    BY <1>1, <1>8
  <2>2. /\ walk' \in WalkRow /\ walk'.state = "done" /\ walk'.shown = walk.shown \cup page
        /\ walk'.base = walk.base /\ walk'.moved = walk.moved
        /\ walk'.twice = walk.twice \cup (walk.shown \cap page)
    BY <1>5, <2>1 DEF WalkRow
  <2>3. walk.base \ walk.moved \subseteq walk.shown \cup page
    BY <1>1, <1>2, <1>8 DEF ListsInv, WalkOK
  <2>4. WalkOK'
    BY <1>6, <2>2, <2>3 DEF WalkOK
  <2> QED
    BY <1>1, <1>7, <2>2, <2>4 DEF ListsInv, ListsTyped
<1>9. CASE page # rest
  <2>1. PICK last \in page :
          /\ \A r \in page : r = last \/ Lists!Before(r, last)
          /\ walk' = [seen EXCEPT !.more = TRUE, !.at = record[last].used, !.id = last]
    BY <1>1, <1>9
  <2>2. /\ last \in ListedRecords /\ last \in Nat /\ record[last].used \in Nat /\ Lists!After(last)
    BY <1>2, <2>1 DEF ListBounds, ListsInv, ListsTyped, ListedRow
  <2>3. /\ walk' \in WalkRow /\ walk'.state = "on" /\ walk'.shown = walk.shown \cup page
        /\ walk'.base = walk.base /\ walk'.moved = walk.moved
        /\ walk'.viewer = walk.viewer /\ walk'.kind = walk.kind
        /\ walk'.twice = walk.twice \cup (walk.shown \cap page)
        /\ walk'.more = TRUE /\ walk'.at = record[last].used /\ walk'.id = last
    BY <1>5, <2>1, <2>2 DEF WalkRow
  <2>4. ASSUME NEW r \in ListedRecords
        PROVE  /\ Lists!After(r)' <=> Lists!Before(last, r)
               /\ ~Lists!After(r) => ~Lists!Before(last, r)
    <3>1. record' = record /\ r \in Nat /\ record[r].used \in Nat /\ walk.at \in Nat /\ walk.id \in Nat
      BY <1>1, <1>4 DEF ListBounds, ListsInv, ListsTyped, ListedRow, WalkRow
    <3>2. Lists!After(r)' <=> Lists!Before(last, r)
      BY <2>2, <2>3, <3>1 DEF Lists!After, Lists!Before
    <3>3. ~Lists!After(r) => ~Lists!Before(last, r)
      BY <2>2, <3>1 DEF Lists!After, Lists!Before
    <3> QED
      BY <3>2, <3>3
  <2>5. ASSUME NEW r \in walk.base \ walk.moved
        PROVE  /\ r \in Lists!Visible(walk.viewer, walk.kind)'
               /\ r \in walk.shown \cup page \/ Lists!After(r)'
    <3>1. r \in ListedRecords /\ r \in Lists!Visible(walk.viewer, walk.kind) /\ (r \in walk.shown \/ r \in rest)
      BY <1>1, <1>2, <1>4, <2>5 DEF ListsInv, WalkOK
    <3>2. r \in Lists!Visible(walk.viewer, walk.kind)'
      BY <1>1, <2>3, <3>1 DEF Lists!Visible, Lists!Active, Lists!RegularAdminGrantAccess
    <3>3. r \in rest \ page => Lists!After(r)'
      BY <1>3, <2>1, <2>4, <3>1
    <3> QED
      BY <3>1, <3>2, <3>3
  <2>6. ASSUME NEW r \in (walk.shown \cup page) \ walk.moved
        PROVE  ~Lists!After(r)'
    <3>1. r \in ListedRecords
      BY <1>2, <1>4, <2>6
    <3>2. CASE r \in page
      BY <2>1, <2>2, <2>4, <3>1, <3>2, OrderOfRows
    <3>3. CASE r \in walk.shown
      BY <1>1, <2>4, <2>6, <3>1, <3>3 DEF ListsInv, WalkOK
    <3> QED
      BY <2>6, <3>2, <3>3
  <2>7. WalkOK'
    BY <1>6, <2>3, <2>5, <2>6 DEF WalkOK
  <2> QED
    BY <1>1, <1>7, <2>3, <2>7 DEF ListsInv, ListsTyped
<1> QED
  BY <1>8, <1>9

LEMMA ListsNext ==
  ASSUME ListBounds, ListsInv, [Lists!Next]_(Lists!accessVars)
  PROVE  ListsInv' /\ AnswersKept
<1>1. CASE \E r \in ListedRecords : Lists!Issue(r) \/ Lists!Touch(r)
  BY <1>1, ListsUse
<1>2. CASE \E u \in Lists!Owners, k \in {"session", "grant"} :
             Lists!revokeOwn(u, k, ListedRecords) \/ \E r \in ListedRecords : Lists!revokeOwn(u, k, {r})
  <2>1. \E u, kind, rs : rs \subseteq ListedRecords /\ Lists!revokeOwn(u, kind, rs)
    <3>1. PICK u \in Lists!Owners, k \in {"session", "grant"} :
                 Lists!revokeOwn(u, k, ListedRecords) \/ \E r \in ListedRecords : Lists!revokeOwn(u, k, {r})
      BY <1>2
    <3>2. ListedRecords \subseteq ListedRecords /\ \A r \in ListedRecords : {r} \subseteq ListedRecords
      OBVIOUS
    <3> QED
      BY <3>1, <3>2
  <2> QED
    BY <2>1, ListsRevoke
<1>3. CASE \E v \in Lists!Viewers, r \in ListedRecords : Lists!revokeAdministrative(v, r)
  BY <1>3, ListsRevoke
<1>4. CASE \E v \in Lists!Viewers, k \in {"session", "grant"}, us \in {Lists!Owners} \cup {{u} : u \in Lists!Owners} :
             Lists!revokeBulk(v, k, us)
  BY <1>4, ListsRevoke
<1>5. CASE (\E u \in Lists!Owners, s \in Svcs : Lists!Reassign(u, s)) \/ (\E s \in Svcs : Lists!Readminister(s))
  BY <1>5, ListsReassign
<1>6. CASE \E b \in 0..tick : Lists!cleanupInactive(b)
  BY <1>6, ListsCleanup
<1>7. CASE \E v \in Lists!Viewers, k \in {"session", "grant"} : Lists!WalkStarts(v, k)
  BY <1>7, ListsStart
<1>8. CASE Lists!NextPage
  BY <1>8, ListsPage
<1>9. CASE Lists!Tick \/ UNCHANGED Lists!accessVars
  <2>1. /\ UNCHANGED <<record, uses, manages, evidence, walk>> /\ tick' \in Nat
    BY <1>9 DEF Lists!Tick, Lists!accessVars, ListsInv, ListsTyped
  <2>2. WalkOK'
    BY <2>1 DEF ListsInv, WalkOK, Lists!Visible, Lists!After, Lists!Active,
         Lists!RegularAdminGrantAccess
  <2> QED
    BY <2>1, <2>2 DEF ListsInv, ListsTyped, AnswersKept
<1> QED
  BY <1>1, <1>2, <1>3, <1>4, <1>5, <1>6, <1>7, <1>8, <1>9 DEF Lists!Next

LEMMA ListsInit ==
  ASSUME Lists!Init
  PROVE  ListsInv
<1>1. \A r \in ListedRecords : Lists!Row(IF r \in Issued THEN "active" ELSE "none", 0, 0) \in ListedRow
  BY RowTyped
<1>2. record \in [ListedRecords -> ListedRow]
  BY <1>1 DEF Lists!Init
<1>3. walk \in WalkRow /\ walk.state = "none" /\ walk.twice = {}
  BY DEF Lists!Init, Lists!NoWalk, WalkRow, Lists!Viewers
<1> QED
  BY <1>2, <1>3 DEF Lists!Init, ListsInv, ListsTyped, WalkOK

LEMMA ListsSafe ==
  ASSUME ListsInv
  PROVE  Lists!PagesComplete
<1>1. Lists!TypeOK
  BY DEF ListsInv, ListsTyped, ListedRow, Lists!TypeOK
<1> QED
  BY <1>1 DEF ListsInv, WalkOK, Lists!PagesComplete

\* The strengthening holds of the lists for any records, owners, services and page sizes,
\* whatever is used, issued, revoked, reassigned or cleaned up between two pages
\* (accessManagement.ts).
THEOREM ListsInductive == ListBounds /\ Lists!Spec => []ListsInv
<1> SUFFICES ASSUME ListBounds PROVE Lists!Spec => []ListsInv
  OBVIOUS
<1>1. Lists!Init => ListsInv
  BY ListsInit
<1>2. ListsInv /\ [Lists!Next]_(Lists!accessVars) => ListsInv'
  BY ListsNext
<1> QED
  BY <1>1, <1>2, PTL DEF Lists!Spec

\* A walk has shown, once, whatever was there at its start and did not change
\* (accessManagement.ts sessionsPage, grantsPage).
THEOREM WalksStayComplete == ListBounds /\ Lists!Spec => []Lists!PagesComplete
<1> SUFFICES ASSUME ListBounds PROVE Lists!Spec => []Lists!PagesComplete
  OBVIOUS
<1>1. ListsInv => Lists!PagesComplete
  BY ListsSafe
<1> QED
  BY <1>1, ListsInductive, PTL

\* Cleaning up takes nothing that can be used and keeps everybody's answer
\* (accessManagement.ts cleanupInactive).
THEOREM AnswersStayKept == ListBounds /\ Lists!Spec => Lists!CleanupKeepsAnswers
<1> SUFFICES ASSUME ListBounds PROVE Lists!Spec => Lists!CleanupKeepsAnswers
  OBVIOUS
<1>1. ListsInv /\ [Lists!Next]_(Lists!accessVars) =>
        [\A r \in ListedRecords : record[r].status # "cleaned" /\ record'[r].status = "cleaned" =>
           /\ ~Lists!Active(r)
           /\ \A v \in Lists!Viewers : Lists!Answered(v, r) <=> Lists!Answered(v, r)']_(Lists!accessVars)
  BY ListsNext DEF AnswersKept
<1> QED
  BY <1>1, ListsInductive, PTL DEF Lists!Spec, Lists!CleanupKeepsAnswers

-----------------------------------------------------------------------------
(* The exports.                                                            *)

ExportBounds ==
  /\ IsFiniteSet(ExportRequests)
  /\ MaxConcurrent \in Nat /\ Attempts \in Nat \ {0}
  /\ RateWindow \in Nat /\ AuthorizationTTL \in Nat /\ MaxExportTime \in Nat

Underway == {"admit", "project", "issue", "claim", "vault", "finalize"}

Export ==
  [step : Exporting!Ended \cup Underway, by : Exporting!Principals \cup {"none"}, secrets : BOOLEAN, at : Nat,
   gen : Nat, claimed : BOOLEAN, content : Nat]
Authorization == [state : {"none", "issued", "claimed", "completed", "failed"}, exp : Nat]
Counter == [count : 0..Attempts, end : Nat]

ExportsTyped ==
  /\ export \in [ExportRequests -> Export]
  /\ active \in 0..MaxConcurrent
  /\ rate \in [Exporting!Principals -> Counter]
  /\ auth \in [ExportRequests -> Authorization]
  /\ audit \in [ExportRequests -> SUBSET {"allow", "deny", "error"}]
  /\ cred \in [row : Nat, vault : Nat, state : {"idle", "pending"}]
  /\ time \in 0..MaxExportTime

\* A request with its audit events and its authorization at a time: nothing is
\* recorded before it ends, what it holds is of the projected generation, and its
\* authorization is the one it was issued until that expires.
ExportOK(x, log, row, t) ==
  /\ x.at <= t
  /\ x.step \in Underway => x.by \in Exporting!Principals
  /\ x.step \in Underway \cup {"none"} => log = {}
  /\ x.step = "delivered" => log = {"allow"}
  /\ x.secrets => x.by = "browser"
  /\ x.step \in {"finalize", "delivered"} /\ x.secrets => x.content = x.gen
  /\ x.claimed => x.step \in {"vault", "finalize", "delivered"}
  /\ x.claimed \/ x.step = "claim" => row.state = "none" \/ row.exp = x.at + AuthorizationTTL
  /\ x.claimed /\ row.state = "none" => t >= x.at + AuthorizationTTL
  /\ x.claimed /\ x.step = "delivered" => row.state \in {"completed", "none"}

ExportsOK == \A e \in ExportRequests : ExportOK(export[e], audit[e], auth[e], time)

Slots == {e \in ExportRequests : Exporting!Running(e)}

ExportsInv == ExportsTyped /\ ExportsOK /\ active = Cardinality(Slots)

\* What other requests do to an authorization: nothing, or they clean it up.
AuthKept(rows, d) == rows[d] = auth[d] \/ (rows[d] = Exporting!NoAuth /\ auth[d].exp <= time)

LEMMA NoExportTyped ==
  /\ Exporting!NoExport \in Export /\ Exporting!NoAuth \in Authorization
  /\ \A s \in Exporting!Ended : /\ [Exporting!NoExport EXCEPT !.step = s] \in Export
                                /\ [Exporting!NoExport EXCEPT !.step = s].step = s
                                /\ [Exporting!NoExport EXCEPT !.step = s].at = 0
                                /\ [Exporting!NoExport EXCEPT !.step = s].secrets = FALSE
                                /\ [Exporting!NoExport EXCEPT !.step = s].claimed = FALSE
BY DEF Exporting!NoExport, Export, Exporting!NoAuth, Authorization, Exporting!Ended

\* Time and clean-ups leave a request as it was.
LEMMA OthersKept ==
  ASSUME ExportsTyped, NEW d \in ExportRequests, ExportOK(export[d], audit[d], auth[d], time),
         AuthorizationTTL \in Nat, AuthKept(auth', d), time' \in Nat, time <= time'
  PROVE  ExportOK(export[d], audit[d], auth'[d], time')
<1>1. /\ export[d] \in Export /\ auth[d] \in Authorization
      /\ export[d].at \in Nat /\ auth[d].exp \in Nat /\ time \in Nat
  BY DEF ExportsTyped, Export, Authorization
<1>2. CASE auth'[d] = auth[d]
  BY <1>1, <1>2 DEF ExportOK
<1>3. CASE auth'[d] = Exporting!NoAuth /\ auth[d].exp <= time
  BY <1>1, <1>3 DEF ExportOK, Exporting!NoAuth
<1> QED
  BY <1>2, <1>3 DEF AuthKept

\* One request moves, with its slot.
LEMMA ExportMoves ==
  ASSUME ExportBounds, ExportsInv, NEW e \in ExportRequests, NEW x \in Export,
         export' = [export EXCEPT ![e] = x],
         NEW log \in SUBSET {"allow", "deny", "error"}, audit' = [audit EXCEPT ![e] = log],
         auth' \in [ExportRequests -> Authorization],
         \A d \in ExportRequests : d # e => AuthKept(auth', d),
         ExportOK(x, log, auth'[e], time),
         active' = active + (IF x.step \in Exporting!Ended \cup {"admit"} THEN 0 ELSE 1)
                          - (IF Exporting!Running(e) THEN 1 ELSE 0),
         active' <= MaxConcurrent,
         rate' \in [Exporting!Principals -> Counter], UNCHANGED <<cred, time>>
  PROVE  ExportsInv'
<1>1. /\ export' \in [ExportRequests -> Export]
      /\ \A d \in ExportRequests : export'[d] = IF d = e THEN x ELSE export[d]
  BY DEF ExportsInv, ExportsTyped
<1>2. /\ audit' \in [ExportRequests -> SUBSET {"allow", "deny", "error"}]
      /\ \A d \in ExportRequests : audit'[d] = IF d = e THEN log ELSE audit[d]
  BY DEF ExportsInv, ExportsTyped
<1>3. ExportsOK'
  <2> SUFFICES ASSUME NEW d \in ExportRequests
               PROVE  ExportOK(export'[d], audit'[d], auth'[d], time')
    BY DEF ExportsOK
  <2>1. CASE d = e
    BY <1>1, <1>2, <2>1
  <2>2. CASE d # e
    <3>1. time' \in Nat /\ time <= time' /\ AuthorizationTTL \in Nat
      BY DEF ExportsInv, ExportsTyped, ExportBounds
    <3>2. ExportOK(export[d], audit[d], auth[d], time)
      BY DEF ExportsInv, ExportsOK
    <3>3. ExportOK(export[d], audit[d], auth'[d], time')
      BY <2>2, <3>1, <3>2, OthersKept DEF ExportsInv
    <3> QED
      BY <1>1, <1>2, <2>2, <3>3
  <2> QED
    BY <2>1, <2>2
<1>4. Slots' = IF x.step \in Exporting!Ended \cup {"admit"} THEN Slots \ {e} ELSE Slots \cup {e}
  BY <1>1 DEF Slots, Exporting!Running
<1>5. IsFiniteSet(Slots) /\ Cardinality(Slots) \in Nat
  BY FS_Subset, FS_CardinalityType DEF Slots, ExportBounds
<1>6. e \in Slots <=> Exporting!Running(e)
  BY DEF Slots
<1>7. active' = Cardinality(Slots')
  <2>1. Cardinality(Slots \ {e}) = IF e \in Slots THEN Cardinality(Slots) - 1 ELSE Cardinality(Slots)
    BY <1>5, FS_RemoveElement
  <2>2. Cardinality(Slots \cup {e}) = IF e \in Slots THEN Cardinality(Slots) ELSE Cardinality(Slots) + 1
    BY <1>5, FS_AddElement
  <2>3. active = Cardinality(Slots)
    BY DEF ExportsInv
  <2>4. CASE x.step \in Exporting!Ended \cup {"admit"}
    <3>1. Cardinality(Slots') = Cardinality(Slots \ {e})
      BY <1>4, <2>4
    <3> QED
      BY <1>5, <1>6, <2>1, <2>3, <2>4, <3>1
  <2>5. CASE x.step \notin Exporting!Ended \cup {"admit"}
    <3>1. Cardinality(Slots') = Cardinality(Slots \cup {e})
      BY <1>4, <2>5
    <3> QED
      BY <1>5, <1>6, <2>2, <2>3, <2>5, <3>1
  <2> QED
    BY <2>4, <2>5
<1>8. Cardinality(Slots') \in Nat
  <2>1. IsFiniteSet(Slots')
    BY FS_Subset DEF Slots, ExportBounds
  <2> QED
    BY <2>1, FS_CardinalityType
<1>9. active' \in 0..MaxConcurrent
  BY <1>7, <1>8 DEF ExportBounds
<1>10. ExportsTyped'
  BY <1>1, <1>2, <1>9 DEF ExportsInv, ExportsTyped
<1> QED
  BY <1>3, <1>7, <1>10 DEF ExportsInv

\* A move that takes and gives back no slot and records nothing.
LEMMA ExportAdvances ==
  ASSUME ExportBounds, ExportsInv, NEW e \in ExportRequests, NEW x \in Export,
         export' = [export EXCEPT ![e] = x], audit' = audit,
         auth' \in [ExportRequests -> Authorization],
         \A d \in ExportRequests : d # e => AuthKept(auth', d),
         ExportOK(x, audit[e], auth'[e], time),
         Exporting!Running(e) <=> x.step \notin Exporting!Ended \cup {"admit"},
         UNCHANGED <<active, rate, cred, time>>
  PROVE  ExportsInv'
<1>1. audit' = [audit EXCEPT ![e] = audit[e]] /\ audit[e] \in SUBSET {"allow", "deny", "error"}
  BY DEF ExportsInv, ExportsTyped
<1>2. /\ active' = active + (IF x.step \in Exporting!Ended \cup {"admit"} THEN 0 ELSE 1)
                          - (IF Exporting!Running(e) THEN 1 ELSE 0)
      /\ active' <= MaxConcurrent
  BY DEF ExportsInv, ExportsTyped, ExportBounds
<1>3. rate' \in [Exporting!Principals -> Counter]
  BY DEF ExportsInv, ExportsTyped
<1> QED
  BY <1>1, <1>2, <1>3, ExportMoves

\* A request that ends without a delivery.
LEMMA EndedOK ==
  ASSUME NEW s \in Exporting!Ended \ {"none", "delivered"}, NEW log, NEW row, time \in Nat
  PROVE  ExportOK([Exporting!NoExport EXCEPT !.step = s], log, row, time)
BY NoExportTyped DEF ExportOK, Exporting!Ended, Underway

LEMMA EndsKeeps ==
  ASSUME ExportBounds, ExportsInv, NEW e \in ExportRequests, Exporting!Ends(e), Exporting!Running(e),
         NEW results \in SUBSET {"allow", "deny", "error"}, Exporting!Records(e, results),
         auth' \in [ExportRequests -> Authorization],
         \A d \in ExportRequests : d # e => AuthKept(auth', d),
         UNCHANGED <<rate, cred, time>>
  PROVE  ExportsInv'
<1> DEFINE x == [Exporting!NoExport EXCEPT !.step = "failed"]
           log == audit[e] \cup results
<1>1. x \in Export /\ x.step = "failed" /\ "failed" \in Exporting!Ended
  BY NoExportTyped DEF Exporting!Ended
<1>2. export' = [export EXCEPT ![e] = x]
  BY DEF Exporting!Ends, Exporting!Drops
<1>3. log \in SUBSET {"allow", "deny", "error"} /\ audit' = [audit EXCEPT ![e] = log]
  BY DEF Exporting!Records, ExportsInv, ExportsTyped
<1>4. ExportOK(x, log, auth'[e], time)
  BY <1>1, EndedOK DEF ExportsInv, ExportsTyped
<1> HIDE DEF x, log
<1>5. /\ active' = active + (IF x.step \in Exporting!Ended \cup {"admit"} THEN 0 ELSE 1)
                          - (IF Exporting!Running(e) THEN 1 ELSE 0)
      /\ active' <= MaxConcurrent
  BY <1>1 DEF Exporting!Ends, Exporting!Released, ExportsInv, ExportsTyped, ExportBounds
<1>6. rate' \in [Exporting!Principals -> Counter]
  BY DEF ExportsInv, ExportsTyped
<1> QED
  BY <1>1, <1>2, <1>3, <1>4, <1>5, <1>6, ExportMoves

LEMMA FailsKeeps ==
  ASSUME ExportBounds, ExportsInv, NEW e \in ExportRequests, Exporting!Fails(e), Exporting!Running(e),
         UNCHANGED <<rate, cred, time>>
  PROVE  ExportsInv'
<1>1. /\ auth' \in [ExportRequests -> Authorization]
      /\ \A d \in ExportRequests : d # e => AuthKept(auth', d)
  <2>1. auth[e] \in Authorization /\ auth \in [ExportRequests -> Authorization]
    BY DEF ExportsInv, ExportsTyped
  <2>2. [auth[e] EXCEPT !.state = "failed"] \in Authorization
    BY <2>1 DEF Authorization
  <2>3. auth' = auth \/ auth' = [auth EXCEPT ![e] = [auth[e] EXCEPT !.state = "failed"]]
    BY <2>1 DEF Exporting!Fails, Authorization
  <2> QED
    BY <2>1, <2>2, <2>3 DEF AuthKept
<1> QED
  BY <1>1, EndsKeeps DEF Exporting!Fails

\* Cleaning up at a time that has come.
LEMMA ExpiredKeeps ==
  ASSUME ExportsTyped, NEW at \in Nat, at <= time
  PROVE  /\ Exporting!Expired(at) \in [ExportRequests -> Authorization]
         /\ \A d \in ExportRequests : \/ Exporting!Expired(at)[d] = auth[d]
                                      \/ Exporting!Expired(at)[d] = Exporting!NoAuth /\ auth[d].exp <= time
<1>1. \A d \in ExportRequests : auth[d] \in Authorization /\ auth[d].exp \in Nat
  BY DEF ExportsTyped, Authorization
<1>2. time \in Nat
  BY DEF ExportsTyped
<1> QED
  BY <1>1, <1>2, NoExportTyped DEF Exporting!Expired

LEMMA CreateKeeps ==
  ASSUME ExportBounds, ExportsInv, NEW e \in ExportRequests, NEW p \in Exporting!Principals, NEW s \in BOOLEAN,
         Exporting!create(e, p, s)
  PROVE  ExportsInv'
<1>1. export[e] \in Export /\ export[e].step = "none" /\ audit[e] = {}
  BY DEF Exporting!create, ExportsInv, ExportsTyped, ExportsOK, ExportOK
<1>2. ~Exporting!Running(e) /\ UNCHANGED <<active, rate, auth, cred, time>> /\ time \in Nat
  BY <1>1 DEF Exporting!create, Exporting!Running, Exporting!Ended, ExportsInv, ExportsTyped
<1>3. /\ auth' \in [ExportRequests -> Authorization]
      /\ \A d \in ExportRequests : d # e => AuthKept(auth', d)
  BY <1>2 DEF AuthKept, ExportsInv, ExportsTyped
<1>4. CASE /\ s => p = "browser"
           /\ export' = [export EXCEPT ![e] = [Exporting!NoExport EXCEPT !.step = "admit", !.by = p,
                !.secrets = s, !.at = time]]
           /\ UNCHANGED audit
  <2> DEFINE x == [Exporting!NoExport EXCEPT !.step = "admit", !.by = p, !.secrets = s, !.at = time]
  <2>1. /\ x \in Export
        /\ x.step = "admit" /\ x.by = p /\ x.secrets = s /\ x.at = time /\ x.claimed = FALSE
    BY <1>2, NoExportTyped DEF Export, Underway, Exporting!NoExport
  <2> HIDE DEF x
  <2>2. ExportOK(x, audit[e], auth'[e], time)
    BY <1>1, <1>2, <1>4, <2>1 DEF ExportOK, Underway
  <2>3. export' = [export EXCEPT ![e] = x]
    BY <1>4 DEF x
  <2> QED
    BY <1>2, <1>3, <1>4, <2>1, <2>2, <2>3, ExportAdvances
<1>5. CASE Exporting!Drops(e, "refused") /\ Exporting!Records(e, {"deny"})
  <2> DEFINE x == [Exporting!NoExport EXCEPT !.step = "refused"]
  <2>1. x \in Export /\ x.step = "refused" /\ "refused" \in Exporting!Ended
    BY NoExportTyped DEF Exporting!Ended
  <2>2. ExportOK(x, {"deny"}, auth'[e], time)
    BY <1>2, EndedOK DEF Exporting!Ended
  <2>3. audit' = [audit EXCEPT ![e] = {"deny"}]
    BY <1>1, <1>5 DEF Exporting!Records, ExportsInv, ExportsTyped
  <2>4. export' = [export EXCEPT ![e] = x]
    BY <1>5 DEF Exporting!Drops
  <2> HIDE DEF x
  <2>5. /\ active' = active + (IF x.step \in Exporting!Ended \cup {"admit"} THEN 0 ELSE 1)
                            - (IF Exporting!Running(e) THEN 1 ELSE 0)
        /\ active' <= MaxConcurrent
    BY <1>2, <2>1 DEF ExportsInv, ExportsTyped, ExportBounds
  <2>6. rate' \in [Exporting!Principals -> Counter] /\ {"deny"} \in SUBSET {"allow", "deny", "error"}
    BY <1>2 DEF ExportsInv, ExportsTyped
  <2> QED
    BY <1>2, <1>3, <2>1, <2>2, <2>3, <2>4, <2>5, <2>6, ExportMoves
<1> QED
  BY <1>4, <1>5 DEF Exporting!create

LEMMA TakeRateTyped ==
  ASSUME ExportBounds, rate \in [Exporting!Principals -> Counter], NEW p \in Exporting!Principals, NEW at \in Nat
  PROVE  Exporting!takeRate(p, at) \in [Exporting!Principals -> Counter]
<1> DEFINE r == Exporting!Dropped(at)
<1>1. r \in [Exporting!Principals -> Counter]
  BY DEF Exporting!Dropped, Counter, ExportBounds
<1>2. Exporting!takeRate(p, at) = IF r[p].count = 0 THEN [r EXCEPT ![p] = [count |-> 1, end |-> at + RateWindow]]
                        ELSE IF r[p].count < Attempts THEN [r EXCEPT ![p].count = @ + 1] ELSE r
  BY DEF Exporting!takeRate
<1> HIDE DEF r
<1>3. [count |-> 1, end |-> at + RateWindow] \in Counter
  BY DEF Counter, ExportBounds
<1>4. CASE r[p].count < Attempts
  <2>1. [r[p] EXCEPT !.count = @ + 1] \in Counter
    BY <1>1, <1>4 DEF Counter, ExportBounds
  <2>2. [r EXCEPT ![p].count = @ + 1] = [r EXCEPT ![p] = [r[p] EXCEPT !.count = @ + 1]]
    BY <1>1 DEF Counter
  <2> QED
    BY <1>1, <1>2, <1>3, <2>1, <2>2
<1> QED
  BY <1>1, <1>2, <1>3, <1>4

LEMMA AdmitKeeps ==
  ASSUME ExportBounds, ExportsInv, NEW e \in ExportRequests, Exporting!Admit(e)
  PROVE  ExportsInv'
<1>1. /\ export[e] \in Export /\ export[e].step = "admit"
      /\ audit[e] = {} /\ export[e].by \in Exporting!Principals /\ export[e].at \in Nat
      /\ ExportOK(export[e], audit[e], auth[e], time)
  BY DEF Exporting!Admit, ExportsInv, ExportsTyped, ExportsOK, ExportOK, Underway, Export
<1>2. ~Exporting!Running(e) /\ UNCHANGED <<auth, cred, time>> /\ time \in Nat
  BY <1>1 DEF Exporting!Admit, Exporting!Running, ExportsInv, ExportsTyped
<1>3. /\ auth' \in [ExportRequests -> Authorization]
      /\ \A d \in ExportRequests : d # e => AuthKept(auth', d)
  BY <1>2 DEF AuthKept, ExportsInv, ExportsTyped
<1>4. rate' \in [Exporting!Principals -> Counter]
  BY <1>1, TakeRateTyped DEF Exporting!Admit, ExportsInv, ExportsTyped
<1>5. CASE Exporting!Steps(e, "project") /\ active' = active + 1 /\ active < MaxConcurrent /\ UNCHANGED audit
  <2> DEFINE x == [export[e] EXCEPT !.step = "project"]
  <2>1. /\ x \in Export /\ x.step = "project"
        /\ x.by = export[e].by /\ x.secrets = export[e].secrets /\ x.at = export[e].at
        /\ x.claimed = export[e].claimed
    BY <1>1 DEF Export, Underway
  <2>2. export' = [export EXCEPT ![e] = x]
    BY <1>1, <1>5 DEF Exporting!Steps, ExportsInv, ExportsTyped, Export
  <2> HIDE DEF x
  <2>3. ExportOK(x, {}, auth'[e], time)
    BY <1>1, <1>2, <2>1 DEF ExportOK, Underway
  <2>4. audit' = [audit EXCEPT ![e] = {}]
    BY <1>1, <1>5 DEF ExportsInv, ExportsTyped
  <2>5. /\ active' = active + (IF x.step \in Exporting!Ended \cup {"admit"} THEN 0 ELSE 1)
                            - (IF Exporting!Running(e) THEN 1 ELSE 0)
        /\ active' <= MaxConcurrent
    BY <1>2, <1>5, <2>1 DEF ExportsInv, ExportsTyped, ExportBounds, Exporting!Ended
  <2> QED
    BY <1>2, <1>3, <1>4, <2>1, <2>2, <2>3, <2>4, <2>5, ExportMoves
<1>6. CASE Exporting!Drops(e, "refused") /\ Exporting!Records(e, {"deny"}) /\ UNCHANGED active
  <2> DEFINE x == [Exporting!NoExport EXCEPT !.step = "refused"]
  <2>1. x \in Export /\ x.step = "refused" /\ "refused" \in Exporting!Ended
    BY NoExportTyped DEF Exporting!Ended
  <2>2. ExportOK(x, {"deny"}, auth'[e], time)
    BY <1>2, EndedOK DEF Exporting!Ended
  <2>3. audit' = [audit EXCEPT ![e] = {"deny"}]
    BY <1>1, <1>6 DEF Exporting!Records, ExportsInv, ExportsTyped
  <2>4. export' = [export EXCEPT ![e] = x]
    BY <1>6 DEF Exporting!Drops
  <2> HIDE DEF x
  <2>5. /\ active' = active + (IF x.step \in Exporting!Ended \cup {"admit"} THEN 0 ELSE 1)
                            - (IF Exporting!Running(e) THEN 1 ELSE 0)
        /\ active' <= MaxConcurrent
    BY <1>2, <1>6, <2>1 DEF ExportsInv, ExportsTyped, ExportBounds
  <2>6. {"deny"} \in SUBSET {"allow", "deny", "error"}
    OBVIOUS
  <2> QED
    BY <1>2, <1>3, <1>4, <2>1, <2>2, <2>3, <2>4, <2>5, <2>6, ExportMoves
<1> QED
  BY <1>5, <1>6 DEF Exporting!Admit

LEMMA ProjectKeeps ==
  ASSUME ExportBounds, ExportsInv, NEW e \in ExportRequests, Exporting!project(e)
  PROVE  ExportsInv'
<1>1. /\ export[e] \in Export /\ export[e].step = "project" /\ audit[e] = {}
      /\ ExportOK(export[e], audit[e], auth[e], time)
  BY DEF Exporting!project, ExportsInv, ExportsTyped, ExportsOK, ExportOK, Underway
<1>2. Exporting!Running(e) /\ UNCHANGED <<rate, cred, time>> /\ time \in Nat /\ cred.row \in Nat
  BY <1>1 DEF Exporting!project, Exporting!Running, Exporting!Ended, ExportsInv,
       ExportsTyped
<1>3. auth' = Exporting!Expired(time)
  BY DEF Exporting!project
<1>4. auth' \in [ExportRequests -> Authorization] /\ \A d \in ExportRequests : AuthKept(auth', d)
  BY <1>2, <1>3, ExpiredKeeps DEF AuthKept, ExportsInv
<1>5. CASE Exporting!Ends(e) /\ Exporting!Records(e, {"error"})
  <2>1. {"error"} \in SUBSET {"allow", "deny", "error"}
    OBVIOUS
  <2> QED
    BY <1>2, <1>4, <1>5, <2>1, EndsKeeps
<1>6. CASE /\ export' = [export EXCEPT ![e].gen = cred.row,
                ![e].step = IF export[e].by = "browser" THEN "issue" ELSE "finalize"]
           /\ UNCHANGED <<active, audit>>
  <2> DEFINE y == IF export[e].by = "browser" THEN "issue" ELSE "finalize"
             x == [export[e] EXCEPT !.gen = cred.row, !.step = y]
  <2>1. y \in {"issue", "finalize"} /\ (export[e].by = "browser" <=> y = "issue")
    OBVIOUS
  <2> HIDE DEF y
  <2>2. /\ x \in Export /\ x.step = y
        /\ x.by = export[e].by /\ x.secrets = export[e].secrets /\ x.at = export[e].at
        /\ x.claimed = export[e].claimed
    BY <1>1, <1>2, <2>1 DEF Export, Underway
  <2>3. export' = [export EXCEPT ![e] = x]
    BY <1>1, <1>6 DEF ExportsInv, ExportsTyped, Export, y
  <2> HIDE DEF x
  <2>4. ExportOK(x, audit[e], auth'[e], time)
    BY <1>1, <1>2, <2>1, <2>2 DEF ExportOK, Underway
  <2>5. Exporting!Running(e) <=> x.step \notin Exporting!Ended \cup {"admit"}
    BY <1>2, <2>1, <2>2 DEF Exporting!Ended
  <2> QED
    BY <1>2, <1>4, <1>6, <2>2, <2>3, <2>4, <2>5, ExportAdvances
<1> QED
  BY <1>5, <1>6 DEF Exporting!project

LEMMA IssueKeeps ==
  ASSUME ExportBounds, ExportsInv, NEW e \in ExportRequests, Exporting!issueAuthorization(e)
  PROVE  ExportsInv'
<1>1. /\ export[e] \in Export /\ export[e].step = "issue" /\ export[e].at \in Nat
      /\ ExportOK(export[e], audit[e], auth[e], time)
  BY DEF Exporting!issueAuthorization, ExportsInv, ExportsTyped, ExportsOK, Export
<1>2. Exporting!Running(e) /\ UNCHANGED <<active, rate, audit, cred, time>> /\ time \in Nat
  BY <1>1 DEF Exporting!issueAuthorization, Exporting!Running, Exporting!Ended, ExportsInv,
       ExportsTyped
<1> DEFINE row == [state |-> "issued", exp |-> export[e].at + AuthorizationTTL]
           x == [export[e] EXCEPT !.step = "claim"]
<1>3. row \in Authorization /\ row.exp = export[e].at + AuthorizationTTL /\ row.state = "issued"
  BY <1>1 DEF Authorization, ExportBounds
<1>4. export[e].at <= time
  BY <1>1 DEF ExportOK
<1>5. auth' = [Exporting!Expired(export[e].at) EXCEPT ![e] = row]
  BY DEF Exporting!issueAuthorization
<1> HIDE DEF row
<1>6. /\ auth' \in [ExportRequests -> Authorization] /\ auth'[e] = row
      /\ \A d \in ExportRequests : d # e => AuthKept(auth', d)
  BY <1>1, <1>3, <1>4, <1>5, ExpiredKeeps DEF AuthKept, ExportsInv
<1>7. /\ x \in Export /\ x.step = "claim"
      /\ x.by = export[e].by /\ x.secrets = export[e].secrets /\ x.at = export[e].at
      /\ x.claimed = export[e].claimed
  BY <1>1 DEF Export, Underway
<1>8. export' = [export EXCEPT ![e] = x]
  BY <1>1 DEF Exporting!issueAuthorization, Exporting!Steps, ExportsInv, ExportsTyped,
       Export
<1> HIDE DEF x
<1>9. ExportOK(x, audit[e], auth'[e], time)
  BY <1>1, <1>3, <1>6, <1>7 DEF ExportOK, Underway
<1>10. Exporting!Running(e) <=> x.step \notin Exporting!Ended \cup {"admit"}
  BY <1>2, <1>7 DEF Exporting!Ended
<1> QED
  BY <1>2, <1>6, <1>7, <1>8, <1>9, <1>10, ExportAdvances

LEMMA ClaimKeeps ==
  ASSUME ExportBounds, ExportsInv, NEW e \in ExportRequests, Exporting!claimAuthorization(e)
  PROVE  ExportsInv'
<1>1. /\ export[e] \in Export /\ export[e].step = "claim" /\ audit[e] = {}
      /\ ExportOK(export[e], audit[e], auth[e], time)
      /\ auth[e] \in Authorization
  BY DEF Exporting!claimAuthorization, ExportsInv, ExportsTyped, ExportsOK, ExportOK,
       Underway
<1>2. Exporting!Running(e) /\ UNCHANGED <<rate, cred, time>>
  BY <1>1 DEF Exporting!claimAuthorization, Exporting!Running, Exporting!Ended
<1>3. CASE /\ auth[e].state = "issued"
           /\ auth' = [auth EXCEPT ![e].state = "claimed"]
           /\ export' = [export EXCEPT ![e].claimed = TRUE,
                ![e].step = IF export[e].secrets THEN "vault" ELSE "finalize"]
           /\ UNCHANGED <<active, audit>>
  <2> DEFINE y == IF export[e].secrets THEN "vault" ELSE "finalize"
             x == [export[e] EXCEPT !.claimed = TRUE, !.step = y]
             row == [auth[e] EXCEPT !.state = "claimed"]
  <2>1. y \in {"vault", "finalize"} /\ (export[e].secrets => y = "vault")
    OBVIOUS
  <2>2. row \in Authorization /\ row.state = "claimed" /\ row.exp = auth[e].exp
    BY <1>1 DEF Authorization
  <2>3. auth' = [auth EXCEPT ![e] = row]
    BY <1>1, <1>3 DEF Authorization, ExportsInv, ExportsTyped
  <2> HIDE DEF row, y
  <2>4. /\ auth' \in [ExportRequests -> Authorization] /\ auth'[e] = row
        /\ \A d \in ExportRequests : d # e => AuthKept(auth', d)
    BY <2>2, <2>3 DEF AuthKept, ExportsInv, ExportsTyped
  <2>5. /\ x \in Export /\ x.step = y /\ x.claimed = TRUE
        /\ x.by = export[e].by /\ x.secrets = export[e].secrets /\ x.at = export[e].at
    BY <1>1, <2>1 DEF Export, Underway
  <2>6. export' = [export EXCEPT ![e] = x]
    BY <1>1, <1>3 DEF ExportsInv, ExportsTyped, Export, y
  <2> HIDE DEF x
  <2>7. ExportOK(x, audit[e], auth'[e], time)
    BY <1>1, <1>3, <2>1, <2>2, <2>4, <2>5 DEF ExportOK, Underway
  <2>8. Exporting!Running(e) <=> x.step \notin Exporting!Ended \cup {"admit"}
    BY <1>2, <2>1, <2>5 DEF Exporting!Ended
  <2> QED
    BY <1>2, <1>3, <2>4, <2>5, <2>6, <2>7, <2>8, ExportAdvances
<1> QED
  BY <1>2, <1>3, FailsKeeps DEF Exporting!claimAuthorization

LEMMA VaultKeeps ==
  ASSUME ExportBounds, ExportsInv, NEW e \in ExportRequests, Exporting!exportEncrypted(e)
  PROVE  ExportsInv'
<1>1. /\ export[e] \in Export /\ export[e].step = "vault"
      /\ ExportOK(export[e], audit[e], auth[e], time)
  BY DEF Exporting!exportEncrypted, ExportsInv, ExportsTyped, ExportsOK
<1>2. Exporting!Running(e) /\ UNCHANGED <<rate, cred, time>>
  BY <1>1 DEF Exporting!exportEncrypted, Exporting!Running, Exporting!Ended
<1>3. CASE /\ Exporting!Exportable(e)
           /\ export' = [export EXCEPT ![e].content = cred.vault, ![e].step = "finalize"]
           /\ UNCHANGED <<active, audit, auth>>
  <2> DEFINE x == [export[e] EXCEPT !.content = cred.vault, !.step = "finalize"]
  <2>1. cred.vault \in Nat /\ cred.vault = export[e].gen
    BY <1>3 DEF Exporting!Exportable, ExportsInv, ExportsTyped
  <2>2. /\ x \in Export /\ x.step = "finalize" /\ x.content = cred.vault
        /\ x.gen = export[e].gen /\ x.claimed = export[e].claimed
        /\ x.by = export[e].by /\ x.secrets = export[e].secrets /\ x.at = export[e].at
    BY <1>1, <2>1 DEF Export, Underway
  <2>3. export' = [export EXCEPT ![e] = x]
    BY <1>1, <1>3 DEF ExportsInv, ExportsTyped, Export
  <2> HIDE DEF x
  <2>4. ExportOK(x, audit[e], auth'[e], time)
    BY <1>1, <1>3, <2>1, <2>2 DEF ExportOK, Underway
  <2>5. /\ Exporting!Running(e) <=> x.step \notin Exporting!Ended \cup {"admit"}
        /\ auth' \in [ExportRequests -> Authorization]
        /\ \A d \in ExportRequests : d # e => AuthKept(auth', d)
    BY <1>2, <1>3, <2>2 DEF Exporting!Ended, AuthKept, ExportsInv, ExportsTyped
  <2> QED
    BY <1>2, <1>3, <2>2, <2>3, <2>4, <2>5, ExportAdvances
<1> QED
  BY <1>2, <1>3, FailsKeeps DEF Exporting!exportEncrypted

LEMMA FinalizeKeeps ==
  ASSUME ExportBounds, ExportsInv, NEW e \in ExportRequests, Exporting!Finalize(e)
  PROVE  ExportsInv'
<1>1. /\ export[e] \in Export /\ export[e].step = "finalize" /\ audit[e] = {}
      /\ ExportOK(export[e], audit[e], auth[e], time) /\ auth[e] \in Authorization
      /\ export[e].claimed \in BOOLEAN
  BY DEF Exporting!Finalize, ExportsInv, ExportsTyped, ExportsOK, ExportOK, Underway, Export
<1>2. Exporting!Running(e) /\ UNCHANGED <<rate, cred, time>>
  BY <1>1 DEF Exporting!Finalize, Exporting!Running, Exporting!Ended
<1>3. CASE /\ Exporting!Finalizes(e)
           /\ Exporting!Steps(e, "delivered") /\ active' = Exporting!Released(e) /\ Exporting!Records(e, {"allow"})
           /\ auth' = IF export[e].claimed THEN [auth EXCEPT ![e].state = "completed"] ELSE auth
  <2> DEFINE x == [export[e] EXCEPT !.step = "delivered"]
             row == IF export[e].claimed THEN [auth[e] EXCEPT !.state = "completed"] ELSE auth[e]
  <2>1. /\ row \in Authorization /\ row.exp = auth[e].exp
        /\ export[e].claimed => row.state = "completed"
    BY <1>1 DEF Authorization
  <2>2. auth' = [auth EXCEPT ![e] = row]
    BY <1>1, <1>3 DEF Authorization, ExportsInv, ExportsTyped
  <2> HIDE DEF row
  <2>3. /\ auth' \in [ExportRequests -> Authorization] /\ auth'[e] = row
        /\ \A d \in ExportRequests : d # e => AuthKept(auth', d)
    BY <2>1, <2>2 DEF AuthKept, ExportsInv, ExportsTyped
  <2>4. /\ x \in Export /\ x.step = "delivered" /\ x.claimed = export[e].claimed
        /\ x.gen = export[e].gen /\ x.content = export[e].content
        /\ x.by = export[e].by /\ x.secrets = export[e].secrets /\ x.at = export[e].at
    BY <1>1 DEF Export, Exporting!Ended
  <2>5. export' = [export EXCEPT ![e] = x]
    BY <1>1, <1>3 DEF Exporting!Steps, ExportsInv, ExportsTyped, Export
  <2> HIDE DEF x
  <2>6. audit' = [audit EXCEPT ![e] = {"allow"}]
    BY <1>1, <1>3 DEF Exporting!Records, ExportsInv, ExportsTyped
  <2>7. ExportOK(x, {"allow"}, auth'[e], time)
    BY <1>1, <1>3, <2>1, <2>3, <2>4 DEF ExportOK, Underway, Exporting!Finalizes
  <2>8. /\ active' = active + (IF x.step \in Exporting!Ended \cup {"admit"} THEN 0 ELSE 1)
                            - (IF Exporting!Running(e) THEN 1 ELSE 0)
        /\ active' <= MaxConcurrent
    BY <1>2, <1>3, <2>4 DEF Exporting!Released, Exporting!Ended, ExportsInv, ExportsTyped,
         ExportBounds
  <2>9. rate' \in [Exporting!Principals -> Counter] /\ {"allow"} \in SUBSET {"allow", "deny", "error"}
    BY <1>2 DEF ExportsInv, ExportsTyped
  <2> QED
    BY <1>2, <2>3, <2>4, <2>5, <2>6, <2>7, <2>8, <2>9, ExportMoves
<1>4. CASE Exporting!Ends(e) /\ Exporting!Records(e, {"allow", "error"}) /\ UNCHANGED auth
  <2>1. /\ auth' \in [ExportRequests -> Authorization]
        /\ \A d \in ExportRequests : d # e => AuthKept(auth', d)
    BY <1>4 DEF AuthKept, ExportsInv, ExportsTyped
  <2>2. {"allow", "error"} \in SUBSET {"allow", "deny", "error"}
    OBVIOUS
  <2> QED
    BY <1>2, <1>4, <2>1, <2>2, EndsKeeps
<1> QED
  BY <1>2, <1>3, <1>4, FailsKeeps DEF Exporting!Finalize

\* What happens beside the requests: the credential changes and time passes.
LEMMA AroundKeeps ==
  ASSUME ExportBounds, ExportsInv, Exporting!PrepareReplace \/ Exporting!ReplaceInVault \/ Exporting!FinalizeReplace \/ Exporting!Tick
  PROVE  ExportsInv'
<1>1. UNCHANGED <<export, active, rate, auth, audit>>
  BY DEF Exporting!PrepareReplace, Exporting!ReplaceInVault, Exporting!FinalizeReplace,
       Exporting!Tick
<1>2. cred' \in [row : Nat, vault : Nat, state : {"idle", "pending"}]
  <2>1. cred \in [row : Nat, vault : Nat, state : {"idle", "pending"}]
    BY DEF ExportsInv, ExportsTyped
  <2>2. CASE Exporting!PrepareReplace
    BY <2>1, <2>2 DEF Exporting!PrepareReplace
  <2>3. CASE Exporting!ReplaceInVault
    BY <2>1, <2>3 DEF Exporting!ReplaceInVault
  <2>4. CASE Exporting!FinalizeReplace
    BY <2>1, <2>4 DEF Exporting!FinalizeReplace
  <2>5. CASE Exporting!Tick
    BY <2>1, <2>5 DEF Exporting!Tick
  <2> QED
    BY <2>2, <2>3, <2>4, <2>5
<1>3. time' \in 0..MaxExportTime /\ time' \in Nat /\ time <= time'
  BY DEF Exporting!PrepareReplace, Exporting!ReplaceInVault, Exporting!FinalizeReplace,
       Exporting!Tick, ExportsInv, ExportsTyped, ExportBounds
<1>4. ASSUME NEW e \in ExportRequests
      PROVE  ExportOK(export[e], audit[e], auth[e], time')
  <2>1. AuthKept(auth', e) /\ auth'[e] = auth[e] /\ ExportOK(export[e], audit[e], auth[e], time)
    BY <1>1 DEF AuthKept, ExportsInv, ExportsOK
  <2>2. ExportOK(export[e], audit[e], auth'[e], time')
    BY <1>3, <2>1, OthersKept DEF ExportsInv, ExportBounds
  <2> QED
    BY <2>1, <2>2
<1> QED
  BY <1>1, <1>2, <1>3, <1>4 DEF ExportsInv, ExportsTyped, ExportsOK, Slots,
       Exporting!Running

LEMMA RestartKeeps ==
  ASSUME ExportBounds, ExportsInv, Exporting!Restart
  PROVE  ExportsInv'
<1> DEFINE x == [Exporting!NoExport EXCEPT !.step = "failed"]
<1>1. x \in Export /\ x.step = "failed" /\ "failed" \in Exporting!Ended
  BY NoExportTyped DEF Exporting!Ended
<1>2. \A e \in ExportRequests : export'[e] = IF export[e].step \in Exporting!Ended THEN export[e] ELSE x
  BY DEF Exporting!Restart
<1>3. export' \in [ExportRequests -> Export]
  BY <1>1 DEF Exporting!Restart, ExportsInv, ExportsTyped
<1>4. UNCHANGED <<auth, audit, cred, time>> /\ active' = 0 /\ time \in Nat
  BY DEF Exporting!Restart, ExportsInv, ExportsTyped
<1>5. rate' \in [Exporting!Principals -> Counter]
  BY DEF Exporting!Restart, Counter, ExportBounds
<1>6. ASSUME NEW e \in ExportRequests
      PROVE  ExportOK(x, audit[e], auth[e], time)
  BY <1>4, EndedOK DEF Exporting!Ended
<1> HIDE DEF x
<1>7. ExportsOK'
  BY <1>2, <1>4, <1>6 DEF ExportsInv, ExportsOK
<1>8. Slots' = {}
  BY <1>1, <1>2 DEF Slots, Exporting!Running
<1>9. active' = Cardinality(Slots')
  BY <1>4, <1>8, FS_EmptySet
<1>10. ExportsTyped'
  BY <1>3, <1>4, <1>5 DEF ExportsInv, ExportsTyped, ExportBounds
<1> QED
  BY <1>7, <1>9, <1>10 DEF ExportsInv

LEMMA ExportsInit ==
  ASSUME ExportBounds, Exporting!Init
  PROVE  ExportsInv
<1>1. export \in [ExportRequests -> Export] /\ auth \in [ExportRequests -> Authorization]
  BY NoExportTyped DEF Exporting!Init
<1>2. ExportsTyped
  BY <1>1 DEF Exporting!Init, ExportsTyped, Counter, ExportBounds
<1>3. ExportsOK
  <2>1. ExportOK(Exporting!NoExport, {}, Exporting!NoAuth, 0)
    BY DEF ExportOK, Exporting!NoExport, Exporting!NoAuth, Underway
  <2> QED
    BY <2>1 DEF Exporting!Init, ExportsOK
<1>4. Slots = {}
  BY DEF Exporting!Init, Slots, Exporting!Running, Exporting!NoExport, Exporting!Ended
<1> QED
  BY <1>2, <1>3, <1>4, FS_EmptySet DEF ExportsInv, Exporting!Init

LEMMA ExportsNext ==
  ASSUME ExportBounds, ExportsInv, [Exporting!Next]_(Exporting!backupVars)
  PROVE  ExportsInv'
<1>1. ASSUME NEW e \in ExportRequests, Exporting!Progress(e)
      PROVE  ExportsInv'
  BY <1>1, AdmitKeeps, ProjectKeeps, IssueKeeps, ClaimKeeps, VaultKeeps, FinalizeKeeps
     DEF Exporting!Progress
<1>2. ASSUME NEW e \in ExportRequests, NEW p \in Exporting!Principals, NEW s \in BOOLEAN, Exporting!create(e, p, s)
      PROVE  ExportsInv'
  BY <1>2, CreateKeeps
<1>3. CASE Exporting!PrepareReplace \/ Exporting!ReplaceInVault \/ Exporting!FinalizeReplace \/ Exporting!Tick
  BY <1>3, AroundKeeps
<1>4. CASE Exporting!Restart
  BY <1>4, RestartKeeps
<1>5. CASE UNCHANGED Exporting!backupVars
  BY <1>5 DEF Exporting!backupVars, ExportsInv, ExportsTyped, ExportsOK, Slots,
       Exporting!Running
<1> QED
  BY <1>1, <1>2, <1>3, <1>4, <1>5 DEF Exporting!Next

LEMMA ExportsSafe ==
  ASSUME ExportsInv
  PROVE  Exporting!ExportsCoherent
<1>1. Exporting!TypeOK
  BY DEF ExportsInv, ExportsTyped, Exporting!TypeOK, Counter, Authorization
<1>2. \A e \in ExportRequests : export[e].step = "delivered" =>
       /\ audit[e] = {"allow"}
       /\ export[e].secrets => export[e].content = export[e].gen
       /\ export[e].claimed => auth[e].state \in {"completed", "none"}
       /\ auth[e].state = "none" /\ export[e].claimed => time >= export[e].at + AuthorizationTTL
  BY DEF ExportsInv, ExportsOK, ExportOK
<1> QED
  BY <1>1, <1>2, ExportingCardinality DEF Exporting!ExportsCoherent, ExportsInv, Slots

\* What is proved of the exports needs no fairness.
ExportsSafety == Exporting!Init /\ [][Exporting!Next]_(Exporting!backupVars)

\* The strengthening holds of the exports for any requests and limits, at any
\* interleaving with credential changes and restarts (backupCoordinator.ts).
THEOREM ExportsInductive == ExportBounds /\ ExportsSafety => []ExportsInv
<1> SUFFICES ASSUME ExportBounds PROVE ExportsSafety => []ExportsInv
  OBVIOUS
<1>1. Exporting!Init => ExportsInv
  BY ExportsInit
<1>2. ExportsInv /\ [Exporting!Next]_(Exporting!backupVars) => ExportsInv'
  BY ExportsNext
<1> QED
  BY <1>1, <1>2, PTL DEF ExportsSafety

\* An authorization is used once and audited, and the counter of concurrent
\* exports is exact (backupCoordinator.ts create).
THEOREM ExportsStayCoherent == ExportBounds /\ ExportsSafety => []Exporting!ExportsCoherent
<1> SUFFICES ASSUME ExportBounds PROVE ExportsSafety => []Exporting!ExportsCoherent
  OBVIOUS
<1>1. ExportsInv => Exporting!ExportsCoherent
  BY ExportsSafe
<1> QED
  BY <1>1, ExportsInductive, PTL

-----------------------------------------------------------------------------
(* The stages.                                                             *)

StagingBounds ==
  /\ IsFiniteSet(StorageKeys) /\ StorageKeys \subseteq Nat \ {0}
  /\ PreviewIds \subseteq Nat \ {0} /\ StagingRequests \subseteq Nat
  /\ MaxStages \in Nat /\ StageTTL \in Nat /\ MaxHours \in Nat /\ MaxConfig \in Nat

Uploading == {"cleanup", "expired_keys", "unlink", "delete", "write", "create", "discard"}
Reading == {"read", "evaluate", "show", "claim", "committing"}
Taken == {"claimed", "completed", "failed"}

Stage == [state : Staging!Active \cup {"none", "expired", "completed", "failed"},
          owner : StagingActors \cup {"none"}, exp : Nat]
Preview == [state : Taken \cup {"none", "ready", "expired"}, stage : StorageKeys \cup {0},
            plan : Nat, exp : Nat]
Worker == [step : {"idle"} \cup Uploading \cup Reading, key : StorageKeys \cup {0},
           actor : StagingActors \cup {"none"}, pre : PreviewIds \cup {0}, plan : Nat,
           keys : SUBSET StorageKeys]

RowsTyped(st, pv, dk) ==
  st \in [StorageKeys -> Stage] /\ pv \in [PreviewIds -> Preview] /\ dk \subseteq StorageKeys

FilesOK(st, dk) == \A k \in StorageKeys : st[k].state \in Staging!Active => k \in dk

LiveStages(st, t) == {k \in StorageKeys : st[k].state \in Staging!Active /\ st[k].exp > t}

StageLimitOK(st, t) ==
  /\ Cardinality(LiveStages(st, t)) <= MaxStages
  /\ \A k, l \in LiveStages(st, t) : st[k].owner = st[l].owner => k = l

\* A preview belongs to a stage; one that was taken up is the only one of its
\* stage, which is under commit exactly while it is claimed.
PreviewsOK(st, pv) ==
  /\ \A p \in PreviewIds : pv[p].state = "none" <=> pv[p].stage = 0
  /\ \A p \in PreviewIds : pv[p].state # "none" => st[pv[p].stage].state # "none"
  /\ \A p \in PreviewIds : pv[p].state \in Taken =>
       /\ st[pv[p].stage].state \in {"committing", "completed", "failed"}
       /\ pv[p].state = "claimed" <=> st[pv[p].stage].state = "committing"
  /\ \A k \in StorageKeys : st[k].state = "committing" =>
       \E p \in PreviewIds : pv[p].stage = k /\ pv[p].state = "claimed"
  /\ \A p, q \in PreviewIds :
       pv[p].state \in Taken /\ pv[q].state \in Taken /\ pv[p].stage = pv[q].stage => p = q

\* What a request knows is still so, whatever others did in between: an upload has
\* its key to itself, what it will remove is expired, and the preview of a commit
\* is of its stage unless that is gone.
WorkerOK(x, st, pv, dk) ==
  /\ x.step = "idle" => x.key = 0 /\ x.keys = {}
  /\ x.step # "idle" => x.key \in StorageKeys
  /\ x.step \in Uploading => st[x.key].state = "none"
  /\ x.step = "create" => x.key \in dk
  /\ \A k \in x.keys : st[k].state \in {"expired", "none"}
  /\ x.pre # 0 => /\ x.step \in Reading
                  /\ pv[x.pre].stage = x.key \/ st[x.key].state = "none"
  /\ x.step \in {"claim", "committing"} => x.pre # 0
  /\ x.step = "committing" =>
       /\ pv[x.pre].state = "claimed" /\ pv[x.pre].stage = x.key
       /\ pv[x.pre].plan = x.plan /\ st[x.key].state = "committing"

Apart(x, y) ==
  /\ x.step \in Uploading => x.key # y.key /\ x.key \notin y.keys
  /\ x.step = "committing" /\ y.step = "committing" => x.key # y.key

StagingInv ==
  /\ RowsTyped(stage, preview, disk)
  /\ task \in [StagingRequests -> Worker] /\ config \in Nat /\ hour \in 0..MaxHours
  /\ FilesOK(stage, disk) /\ StageLimitOK(stage, hour) /\ PreviewsOK(stage, preview)
  /\ \A w \in StagingRequests : WorkerOK(task[w], stage, preview, disk)
  /\ \A v, w \in StagingRequests : v # w => Apart(task[v], task[w])

LEMMA IdleRowsTyped ==
  /\ Staging!Idle \in Worker /\ Staging!Idle.step = "idle" /\ Staging!Idle.key = 0 /\ Staging!Idle.keys = {} /\ Staging!Idle.pre = 0
  /\ Staging!NoStage \in Stage /\ Staging!NoStage.state = "none"
  /\ Staging!NoPreview \in Preview /\ Staging!NoPreview.state = "none" /\ Staging!NoPreview.stage = 0
BY DEF Staging!Idle, Worker, Staging!NoStage, Stage, Staging!NoPreview, Preview

LEMMA IdleWorkerOK ==
  ASSUME NEW st, NEW pv, NEW dk
  PROVE  WorkerOK(Staging!Idle, st, pv, dk)
BY IdleRowsTyped DEF WorkerOK, Uploading

\* Nothing live appears: the limit stays.
LEMMA LimitShrinks ==
  ASSUME StagingBounds, NEW st, NEW st2, NEW t, NEW t2, StageLimitOK(st, t), LiveStages(st2, t2) \subseteq LiveStages(st, t),
         \A k \in LiveStages(st2, t2) : st2[k].owner = st[k].owner
  PROVE  StageLimitOK(st2, t2)
<1>1. IsFiniteSet(LiveStages(st, t)) /\ Cardinality(LiveStages(st, t)) \in Nat
  BY FS_Subset, FS_CardinalityType DEF LiveStages, StagingBounds
<1>2. Cardinality(LiveStages(st2, t2)) <= Cardinality(LiveStages(st, t)) /\ Cardinality(LiveStages(st2, t2)) \in Nat
  BY <1>1, FS_Subset, FS_CardinalityType
<1> QED
  BY <1>1, <1>2 DEF StageLimitOK, StagingBounds

\* The expiry at the start of a transaction disturbs nobody.
LEMMA ExpiryKeeps ==
  ASSUME StagingBounds, StagingInv
  PROVE  /\ RowsTyped(Staging!ExpiredStages, Staging!ExpiredPreviews, disk)
         /\ FilesOK(Staging!ExpiredStages, disk) /\ StageLimitOK(Staging!ExpiredStages, hour)
         /\ PreviewsOK(Staging!ExpiredStages, Staging!ExpiredPreviews)
         /\ \A w \in StagingRequests : WorkerOK(task[w], Staging!ExpiredStages, Staging!ExpiredPreviews, disk)
<1> DEFINE st == Staging!ExpiredStages
           pv == Staging!ExpiredPreviews
<1>1. \A k \in StorageKeys : /\ stage[k] \in Stage
                             /\ st[k] = IF Staging!Expires(stage[k]) THEN [stage[k] EXCEPT !.state = "expired"]
                                        ELSE stage[k]
  BY DEF Staging!ExpiredStages, StagingInv, RowsTyped
<1>2. \A k \in StorageKeys :
        /\ st[k] \in Stage /\ st[k].owner = stage[k].owner /\ st[k].exp = stage[k].exp
        /\ st[k].state = stage[k].state
             \/ (Staging!Expires(stage[k]) /\ st[k].state = "expired")
  BY <1>1 DEF Stage
<1>3. \A p \in PreviewIds : /\ preview[p] \in Preview
                            /\ pv[p] = IF preview[p].state = "ready" /\ preview[p].exp <= hour
                                       THEN [preview[p] EXCEPT !.state = "expired"] ELSE preview[p]
  BY DEF Staging!ExpiredPreviews, StagingInv, RowsTyped
<1>4. \A p \in PreviewIds :
        /\ pv[p] \in Preview /\ pv[p].stage = preview[p].stage /\ pv[p].plan = preview[p].plan
        /\ pv[p].state = preview[p].state \/ (preview[p].state = "ready" /\ pv[p].state = "expired")
  BY <1>3 DEF Preview
<1>5. st = [k \in StorageKeys |-> st[k]] /\ pv = [p \in PreviewIds |-> pv[p]]
  BY DEF Staging!ExpiredStages, Staging!ExpiredPreviews
<1> HIDE DEF st, pv
<1>6. RowsTyped(st, pv, disk)
  BY <1>2, <1>4, <1>5 DEF RowsTyped, StagingInv
<1>7. FilesOK(st, disk)
  BY <1>2 DEF FilesOK, StagingInv, Staging!Active
<1>8. StageLimitOK(st, hour)
  <2>1. LiveStages(st, hour) \subseteq LiveStages(stage, hour)
    BY <1>2 DEF LiveStages, Staging!Active
  <2>2. \A k \in LiveStages(st, hour) : st[k].owner = stage[k].owner
    BY <1>2 DEF LiveStages
  <2> QED
    BY <2>1, <2>2, LimitShrinks DEF StagingInv
<1>9. \A k \in StorageKeys : /\ stage[k].state \in {"none", "expired", "committing", "completed", "failed"}
                                  => st[k].state = stage[k].state
                             /\ st[k].state \in {"none", "committing", "completed", "failed"}
                                  => st[k].state = stage[k].state
  BY <1>2 DEF Staging!Expires
<1>10. PreviewsOK(st, pv)
  <2>1. PreviewsOK(stage, preview)
    BY DEF StagingInv
  <2>2. \A p \in PreviewIds : /\ pv[p].state \in Taken <=> preview[p].state \in Taken
                              /\ pv[p].state = "claimed" <=> preview[p].state = "claimed"
                              /\ pv[p].state = "none" <=> preview[p].state = "none"
    BY <1>4 DEF Taken
  <2>3. \A p \in PreviewIds : pv[p].state = "none" <=> pv[p].stage = 0
    BY <1>4, <2>1, <2>2 DEF PreviewsOK
  <2>4. \A p \in PreviewIds : preview[p].state # "none" => preview[p].stage \in StorageKeys
    BY <1>3, <2>1 DEF PreviewsOK, Preview
  <2>8. \A p \in PreviewIds : pv[p].state # "none" => st[pv[p].stage].state # "none"
    BY <1>4, <1>9, <2>1, <2>2, <2>4 DEF PreviewsOK
  <2>5. \A p \in PreviewIds : pv[p].state \in Taken =>
       /\ st[pv[p].stage].state \in {"committing", "completed", "failed"}
       /\ pv[p].state = "claimed" <=> st[pv[p].stage].state = "committing"
    BY <1>4, <1>9, <2>1, <2>2, <2>4 DEF PreviewsOK, Taken
  <2>6. \A k \in StorageKeys : st[k].state = "committing" =>
          \E p \in PreviewIds : pv[p].stage = k /\ pv[p].state = "claimed"
    BY <1>4, <1>9, <2>1, <2>2 DEF PreviewsOK
  <2>7. \A p, q \in PreviewIds :
          pv[p].state \in Taken /\ pv[q].state \in Taken /\ pv[p].stage = pv[q].stage => p = q
    BY <1>4, <2>1, <2>2 DEF PreviewsOK
  <2> QED
    BY <2>3, <2>5, <2>6, <2>7, <2>8 DEF PreviewsOK
<1>11. ASSUME NEW w \in StagingRequests
       PROVE  WorkerOK(task[w], st, pv, disk)
  <2>1. task[w] \in Worker /\ WorkerOK(task[w], stage, preview, disk)
    BY DEF StagingInv
  <2>2. \A k \in task[w].keys : k \in StorageKeys
    BY <2>1 DEF Worker
  <2>3. task[w].pre # 0 => task[w].pre \in PreviewIds
    BY <2>1 DEF Worker
  <2>4. task[w].step # "idle" => task[w].key \in StorageKeys
    BY <2>1 DEF WorkerOK
  <2>5. \A k \in task[w].keys : st[k].state \in {"expired", "none"}
    BY <1>9, <2>1, <2>2 DEF WorkerOK
  <2>6. task[w].pre # 0 =>
          /\ task[w].step \in Reading
          /\ pv[task[w].pre].stage = task[w].key \/ st[task[w].key].state = "none"
    BY <1>4, <1>9, <2>1, <2>3, <2>4 DEF WorkerOK, Reading
  <2>7. task[w].step \in Uploading => st[task[w].key].state = "none"
    BY <1>9, <2>1, <2>4 DEF WorkerOK, Uploading
  <2>8. task[w].step = "committing" =>
          LET x == task[w] IN
          /\ pv[x.pre].state = "claimed" /\ pv[x.pre].stage = x.key
          /\ pv[x.pre].plan = x.plan /\ st[x.key].state = "committing"
    BY <1>4, <1>9, <2>1, <2>3, <2>4 DEF WorkerOK
  <2> QED
    BY <2>1, <2>5, <2>6, <2>7, <2>8 DEF WorkerOK
<1> QED
  BY <1>6, <1>7, <1>8, <1>10, <1>11 DEF st, pv

\* What every step has to show: the rows it leaves behind are right, what it makes
\* of its own request is, and the others still know what they knew.
LEMMA WorkerMoves ==
  ASSUME StagingInv, NEW w \in StagingRequests, NEW x \in Worker,
         task' = [task EXCEPT ![w] = x], config' \in Nat, hour' = hour,
         RowsTyped(stage', preview', disk'),
         FilesOK(stage', disk'), StageLimitOK(stage', hour), PreviewsOK(stage', preview'),
         WorkerOK(x, stage', preview', disk'),
         \A v \in StagingRequests : v # w =>
           /\ WorkerOK(task[v], stage', preview', disk')
           /\ Apart(x, task[v]) /\ Apart(task[v], x)
  PROVE  StagingInv'
<1>1. /\ task' \in [StagingRequests -> Worker] /\ task'[w] = x
      /\ \A v \in StagingRequests : v # w => task'[v] = task[v]
  BY DEF StagingInv
<1>2. \A v \in StagingRequests : WorkerOK(task'[v], stage', preview', disk')
  BY <1>1
<1>3. \A v, u \in StagingRequests : v # u => Apart(task'[v], task'[u])
  BY <1>1 DEF StagingInv
<1> QED
  BY <1>1, <1>2, <1>3 DEF StagingInv

\* A step that only moves its request on.
LEMMA WorkerAlone ==
  ASSUME StagingInv, NEW w \in StagingRequests, NEW x \in Worker,
         task' = [task EXCEPT ![w] = x], UNCHANGED <<stage, preview, disk, config, hour>>,
         WorkerOK(x, stage, preview, disk),
         \A v \in StagingRequests : v # w => Apart(x, task[v]) /\ Apart(task[v], x)
  PROVE  StagingInv'
BY WorkerMoves DEF StagingInv

\* A request that gives up, or has answered, is in nobody's way.
LEMMA IdleApart ==
  ASSUME StagingBounds, StagingInv, NEW v \in StagingRequests
  PROVE  Apart(Staging!Idle, task[v]) /\ Apart(task[v], Staging!Idle)
<1>1. WorkerOK(task[v], stage, preview, disk) /\ task[v] \in Worker
  BY DEF StagingInv
<1>2. task[v].step \in Uploading => task[v].key # 0
  BY <1>1 DEF WorkerOK, Uploading, StagingBounds
<1> QED
  BY <1>1, <1>2, IdleRowsTyped DEF Apart, Uploading

\* A request that keeps its key and takes no part in a commit stays apart.
LEMMA StaysApart ==
  ASSUME StagingInv, NEW v \in StagingRequests, NEW w \in StagingRequests, v # w, NEW x \in Worker,
         x.key = task[w].key, x.keys \subseteq task[w].keys, x.step # "committing",
         x.step \in Uploading => task[w].step \in Uploading
  PROVE  Apart(x, task[v]) /\ Apart(task[v], x)
BY DEF StagingInv, Apart, Uploading

LEMMA StagingUpload ==
  ASSUME StagingBounds, StagingInv, NEW w \in StagingRequests, NEW a \in StagingActors, NEW k \in StorageKeys, Staging!Upload(w, a, k)
  PROVE  StagingInv'
<1> DEFINE x == [Staging!Idle EXCEPT !.step = "cleanup", !.key = k, !.actor = a]
<1>1. /\ x \in Worker /\ x.step = "cleanup" /\ x.key = k /\ x.keys = {} /\ x.pre = 0
      /\ task' = [task EXCEPT ![w] = x] /\ UNCHANGED <<stage, preview, disk, config, hour>>
  BY DEF Staging!Upload, Staging!Idle, Worker, Uploading
<1> HIDE DEF x
<1>2. stage[k].state = "none" /\ \A v \in StagingRequests : task[v].key # k /\ k \notin task[v].keys
  BY DEF Staging!Upload, Staging!Used
<1>3. WorkerOK(x, stage, preview, disk)
  BY <1>1, <1>2 DEF WorkerOK, Uploading
<1>4. \A v \in StagingRequests : Apart(x, task[v]) /\ Apart(task[v], x)
  BY <1>1, <1>2 DEF Apart
<1> QED
  BY <1>1, <1>3, <1>4, WorkerAlone

LEMMA StagingCleanupExpire ==
  ASSUME StagingBounds, StagingInv, NEW w \in StagingRequests, Staging!CleanupExpire(w)
  PROVE  StagingInv'
<1> DEFINE x == [task[w] EXCEPT !.step = "expired_keys"]
<1>0. task[w] \in Worker /\ task[w].step = "cleanup"
  BY DEF Staging!CleanupExpire, Staging!At, StagingInv
<1>1. /\ x \in Worker /\ x.step = "expired_keys" /\ x.key = task[w].key /\ x.keys = task[w].keys
      /\ x.pre = task[w].pre /\ task' = [task EXCEPT ![w] = x]
      /\ stage' = Staging!ExpiredStages /\ preview' = Staging!ExpiredPreviews /\ UNCHANGED <<disk, config, hour>>
  BY <1>0 DEF Staging!CleanupExpire, Staging!Steps, Staging!expireRows, Worker, Uploading
<1> HIDE DEF x
<1>2. WorkerOK(x, stage', preview', disk')
  BY <1>0, <1>1, ExpiryKeeps DEF WorkerOK, Uploading, Reading
<1>3. \A v \in StagingRequests : v # w => Apart(x, task[v]) /\ Apart(task[v], x)
  BY <1>0, <1>1, StaysApart DEF Uploading
<1>4. config' \in Nat
  BY <1>1 DEF StagingInv
<1> QED
  BY <1>1, <1>2, <1>3, <1>4, WorkerMoves, ExpiryKeeps

LEMMA StagingExpiredKeys ==
  ASSUME StagingBounds, StagingInv, NEW w \in StagingRequests, Staging!expiredStageStorageKeys(w)
  PROVE  StagingInv'
<1> DEFINE gone == {k \in StorageKeys : stage[k].state = "expired"}
           step == IF gone = {} THEN "write" ELSE "unlink"
           x == [task[w] EXCEPT !.keys = gone, !.step = step]
<1>0. /\ task[w] \in Worker /\ task[w].step = "expired_keys"
      /\ WorkerOK(task[w], stage, preview, disk)
  BY DEF Staging!expiredStageStorageKeys, Staging!At, StagingInv
<1>1. /\ x \in Worker /\ x.step \in {"write", "unlink"} /\ x.key = task[w].key /\ x.keys = gone
      /\ x.pre = task[w].pre /\ task' = [task EXCEPT ![w] = x]
      /\ UNCHANGED <<stage, preview, disk, config, hour>>
  BY <1>0 DEF Staging!expiredStageStorageKeys, Worker, Uploading
<1> HIDE DEF x
<1>2. WorkerOK(x, stage, preview, disk)
  BY <1>0, <1>1 DEF WorkerOK, Uploading, Reading
<1>3. \A v \in StagingRequests : v # w => Apart(x, task[v]) /\ Apart(task[v], x)
  <2>1. SUFFICES ASSUME NEW v \in StagingRequests, v # w PROVE Apart(x, task[v]) /\ Apart(task[v], x)
    OBVIOUS
  <2>2. Apart(task[w], task[v]) /\ Apart(task[v], task[w]) /\ WorkerOK(task[v], stage, preview, disk)
    BY <2>1 DEF StagingInv
  <2>3. task[v].step \in Uploading => task[v].key \notin gone
    BY <2>2 DEF WorkerOK
  <2> QED
    BY <1>0, <1>1, <2>2, <2>3 DEF Apart, Uploading
<1> QED
  BY <1>1, <1>2, <1>3, WorkerAlone

\* A file that is no active stage's and no upload's can go.
LEMMA FilesMayGo ==
  ASSUME StagingInv, NEW w \in StagingRequests, NEW gone \in SUBSET StorageKeys, disk' = disk \ gone,
         \A k \in gone : stage[k].state \notin Staging!Active,
         \A v \in StagingRequests : v # w /\ task[v].step \in Uploading => task[v].key \notin gone
  PROVE  /\ RowsTyped(stage, preview, disk') /\ FilesOK(stage, disk')
         /\ \A v \in StagingRequests : v # w => WorkerOK(task[v], stage, preview, disk')
<1>1. RowsTyped(stage, preview, disk') /\ FilesOK(stage, disk')
  BY DEF StagingInv, RowsTyped, FilesOK
<1>2. ASSUME NEW v \in StagingRequests, v # w PROVE WorkerOK(task[v], stage, preview, disk')
  <2>1. WorkerOK(task[v], stage, preview, disk)
    BY DEF StagingInv
  <2>2. task[v].step = "create" => task[v].key \in disk'
    BY <2>1, <1>2 DEF WorkerOK, Uploading
  <2> QED
    BY <2>1, <2>2 DEF WorkerOK
<1> QED
  BY <1>1, <1>2

LEMMA StagingRemoveExpired ==
  ASSUME StagingBounds, StagingInv, NEW w \in StagingRequests, Staging!RemoveExpired(w)
  PROVE  StagingInv'
<1>0. /\ task[w] \in Worker /\ task[w].step = "unlink"
      /\ WorkerOK(task[w], stage, preview, disk)
      /\ UNCHANGED <<stage, preview, config, hour>> /\ config' \in Nat
  BY DEF Staging!RemoveExpired, Staging!At, StagingInv
<1>1. \A k \in task[w].keys : stage[k].state \notin Staging!Active
  BY <1>0 DEF WorkerOK, Staging!Active
<1>2. \A v \in StagingRequests : v # w /\ task[v].step \in Uploading => task[v].key \notin task[w].keys
  BY DEF StagingInv, Apart
<1>3. task[w].keys \subseteq StorageKeys
  BY <1>0 DEF Worker
<1>4. /\ StageLimitOK(stage', hour) /\ PreviewsOK(stage', preview')
  BY <1>0 DEF StagingInv
<1>5. CASE disk' = disk \ task[w].keys /\ Staging!Steps(w, "delete")
  <2> DEFINE x == [task[w] EXCEPT !.step = "delete"]
  <2>1. /\ x \in Worker /\ x.step = "delete" /\ x.key = task[w].key /\ x.keys = task[w].keys
        /\ x.pre = task[w].pre /\ task' = [task EXCEPT ![w] = x]
    BY <1>0, <1>5 DEF Staging!Steps, Worker, Uploading
  <2> HIDE DEF x
  <2>2. WorkerOK(x, stage', preview', disk')
    BY <1>0, <2>1 DEF WorkerOK, Uploading, Reading
  <2>3. \A v \in StagingRequests : v # w => Apart(x, task[v]) /\ Apart(task[v], x)
    BY <1>0, <2>1, StaysApart DEF Uploading
  <2>4. /\ RowsTyped(stage', preview', disk') /\ FilesOK(stage', disk')
        /\ \A v \in StagingRequests : v # w => WorkerOK(task[v], stage', preview', disk')
    BY <1>0, <1>1, <1>2, <1>3, <1>5, FilesMayGo
  <2> QED
    BY <1>0, <1>4, <2>1, <2>2, <2>3, <2>4, WorkerMoves
<1>6. ASSUME NEW some \in SUBSET task[w].keys, disk' = disk \ some, Staging!Answers(w)
      PROVE  StagingInv'
  <2>1. task' = [task EXCEPT ![w] = Staging!Idle]
    BY <1>6 DEF Staging!Answers
  <2>2. /\ RowsTyped(stage', preview', disk') /\ FilesOK(stage', disk')
        /\ \A v \in StagingRequests : v # w => WorkerOK(task[v], stage', preview', disk')
    BY <1>0, <1>1, <1>2, <1>3, <1>6, FilesMayGo
  <2> QED
    BY <1>0, <1>4, <2>1, <2>2, IdleRowsTyped, IdleWorkerOK, IdleApart, WorkerMoves
<1> QED
  BY <1>5, <1>6 DEF Staging!RemoveExpired

LEMMA StagingDeleteExpired ==
  ASSUME StagingBounds, StagingInv, NEW w \in StagingRequests, Staging!deleteExpiredStages(w)
  PROVE  StagingInv'
<1> DEFINE gone == {k \in task[w].keys : stage[k].state = "expired"}
           x == [task[w] EXCEPT !.keys = {}, !.step = "write"]
<1>0. /\ task[w] \in Worker /\ task[w].step = "delete"
      /\ WorkerOK(task[w], stage, preview, disk)
      /\ UNCHANGED <<disk, config, hour>> /\ config' \in Nat
  BY DEF Staging!deleteExpiredStages, Staging!At, StagingInv
<1>1. /\ x \in Worker /\ x.step = "write" /\ x.key = task[w].key /\ x.keys = {}
      /\ x.pre = task[w].pre /\ task' = [task EXCEPT ![w] = x]
  BY <1>0 DEF Staging!deleteExpiredStages, Worker, Uploading
<1>2. gone \subseteq StorageKeys
  BY <1>0 DEF Worker
<1>3. /\ stage' = [k \in StorageKeys |-> IF k \in gone THEN Staging!NoStage ELSE stage[k]]
      /\ preview' = [p \in PreviewIds |-> IF preview[p].stage \in gone THEN Staging!NoPreview ELSE preview[p]]
  BY DEF Staging!deleteExpiredStages, Staging!Cascaded
<1>4. \A k \in gone : stage[k].state = "expired"
  OBVIOUS
<1> HIDE DEF x, gone
<1>5. RowsTyped(stage', preview', disk')
  BY <1>0, <1>3, IdleRowsTyped DEF RowsTyped, StagingInv
<1>6. \A k \in StorageKeys : /\ k \in gone => stage'[k].state = "none"
                             /\ k \notin gone => stage'[k] = stage[k]
  BY <1>3, IdleRowsTyped
<1>7. \A p \in PreviewIds :
        /\ preview[p].stage \in gone => preview'[p].state = "none" /\ preview'[p].stage = 0
        /\ preview[p].stage \notin gone => preview'[p] = preview[p]
  BY <1>3, IdleRowsTyped
<1>8. FilesOK(stage', disk')
  BY <1>0, <1>6 DEF FilesOK, StagingInv, Staging!Active
<1>9. StageLimitOK(stage', hour)
  <2>1. LiveStages(stage', hour) \subseteq LiveStages(stage, hour)
    BY <1>6 DEF LiveStages, Staging!Active
  <2>2. \A k \in LiveStages(stage', hour) : stage'[k].owner = stage[k].owner
    BY <1>6 DEF LiveStages, Staging!Active
  <2> QED
    BY <2>1, <2>2, LimitShrinks DEF StagingInv
<1>10. PreviewsOK(stage', preview')
  <2>1. PreviewsOK(stage, preview)
    BY DEF StagingInv
  <2>2. \A p \in PreviewIds : preview[p].state # "none" => preview[p].stage \in StorageKeys
    BY <2>1 DEF PreviewsOK, StagingInv, RowsTyped, Preview
  <2>3. \A p \in PreviewIds :
          preview'[p].state # "none" => preview'[p] = preview[p] /\ preview[p].stage \in StorageKeys \ gone
    BY <1>7, <2>1, <2>2 DEF PreviewsOK
  <2>4. \A k \in StorageKeys : stage'[k].state = "committing" =>
          \E p \in PreviewIds : preview'[p].stage = k /\ preview'[p].state = "claimed"
    BY <1>6, <1>7, <2>1 DEF PreviewsOK
  <2>5. \A p \in PreviewIds : preview'[p].state = "none" <=> preview'[p].stage = 0
    BY <1>7, <2>1 DEF PreviewsOK
  <2>6. \A p \in PreviewIds : preview'[p].state # "none" => stage'[preview'[p].stage].state # "none"
    BY <1>6, <2>1, <2>3 DEF PreviewsOK
  <2>7. \A p \in PreviewIds : preview'[p].state \in Taken =>
       /\ stage'[preview'[p].stage].state \in {"committing", "completed", "failed"}
       /\ preview'[p].state = "claimed" <=> stage'[preview'[p].stage].state = "committing"
    BY <1>6, <2>1, <2>3 DEF PreviewsOK, Taken
  <2>8. \A p, q \in PreviewIds :
          preview'[p].state \in Taken /\ preview'[q].state \in Taken
            /\ preview'[p].stage = preview'[q].stage => p = q
    BY <2>1, <2>3 DEF PreviewsOK, Taken
  <2> QED
    BY <2>4, <2>5, <2>6, <2>7, <2>8 DEF PreviewsOK
<1>11. \A v \in StagingRequests : WorkerOK(task[v], stage', preview', disk')
  <2>1. SUFFICES ASSUME NEW v \in StagingRequests PROVE WorkerOK(task[v], stage', preview', disk')
    OBVIOUS
  <2>2. WorkerOK(task[v], stage, preview, disk) /\ task[v] \in Worker
    BY DEF StagingInv
  <2>3. task[v].keys \subseteq StorageKeys /\ (task[v].pre # 0 => task[v].pre \in PreviewIds)
    BY <2>2 DEF Worker
  <2>4. task[v].step # "idle" => task[v].key \in StorageKeys
    BY <2>2 DEF WorkerOK
  <2>5. \A k \in task[v].keys : stage'[k].state \in {"expired", "none"}
    BY <1>6, <2>2, <2>3 DEF WorkerOK
  <2>6. task[v].pre # 0 =>
          /\ task[v].step \in Reading
          /\ preview'[task[v].pre].stage = task[v].key \/ stage'[task[v].key].state = "none"
    <3>1. CASE task[v].pre = 0
      BY <3>1
    <3>2. CASE task[v].pre # 0
      <4>1. /\ task[v].step \in Reading /\ task[v].key \in StorageKeys
            /\ preview[task[v].pre].stage = task[v].key \/ stage[task[v].key].state = "none"
        BY <3>2, <2>2, <2>4 DEF WorkerOK, Reading
      <4> QED
        BY <1>6, <1>7, <2>3, <3>2, <4>1
    <3> QED
      BY <3>1, <3>2
  <2>7. task[v].step \in Uploading => stage'[task[v].key].state = "none"
    BY <1>6, <2>2, <2>4 DEF WorkerOK, Uploading
  <2>8. task[v].step = "committing" =>
          LET y == task[v] IN
          /\ preview'[y.pre].state = "claimed" /\ preview'[y.pre].stage = y.key
          /\ preview'[y.pre].plan = y.plan /\ stage'[y.key].state = "committing"
    BY <1>4, <1>6, <1>7, <2>2, <2>3, <2>4 DEF WorkerOK
  <2> QED
    BY <1>0, <2>2, <2>5, <2>6, <2>7, <2>8 DEF WorkerOK
<1>12. WorkerOK(x, stage', preview', disk')
  BY <1>0, <1>1, <1>11 DEF WorkerOK, Uploading, Reading
<1>13. \A v \in StagingRequests : v # w => Apart(x, task[v]) /\ Apart(task[v], x)
  BY <1>0, <1>1, StaysApart DEF Uploading
<1> QED
  BY <1>0, <1>1, <1>5, <1>8, <1>9, <1>10, <1>11, <1>12, <1>13, WorkerMoves

LEMMA StagingWrite ==
  ASSUME StagingBounds, StagingInv, NEW w \in StagingRequests, Staging!write(w)
  PROVE  StagingInv'
<1>0. /\ task[w] \in Worker /\ task[w].step = "write" /\ task[w].key \in StorageKeys
      /\ WorkerOK(task[w], stage, preview, disk)
      /\ UNCHANGED <<stage, preview, config, hour>> /\ config' \in Nat
  BY DEF Staging!write, Staging!At, StagingInv, WorkerOK, Uploading
<1>1. CASE disk' = disk \cup {task[w].key} /\ Staging!Steps(w, "create")
  <2> DEFINE x == [task[w] EXCEPT !.step = "create"]
  <2>1. /\ x \in Worker /\ x.step = "create" /\ x.key = task[w].key /\ x.keys = task[w].keys
        /\ x.pre = task[w].pre /\ task' = [task EXCEPT ![w] = x]
    BY <1>0, <1>1 DEF Staging!Steps, Worker, Uploading
  <2> HIDE DEF x
  <2>2. RowsTyped(stage', preview', disk') /\ FilesOK(stage', disk')
    BY <1>0, <1>1 DEF StagingInv, RowsTyped, FilesOK
  <2>3. \A v \in StagingRequests : WorkerOK(task[v], stage', preview', disk')
    BY <1>0, <1>1 DEF StagingInv, WorkerOK
  <2>4. WorkerOK(x, stage', preview', disk')
    BY <1>0, <1>1, <2>1 DEF WorkerOK, Uploading, Reading
  <2>5. \A v \in StagingRequests : v # w => Apart(x, task[v]) /\ Apart(task[v], x)
    BY <1>0, <2>1, StaysApart DEF Uploading
  <2>6. StageLimitOK(stage', hour) /\ PreviewsOK(stage', preview') /\ hour' = hour
    BY <1>0 DEF StagingInv
  <2> QED
    BY <1>0, <2>1, <2>2, <2>3, <2>4, <2>5, <2>6, WorkerMoves
<1>2. CASE Staging!Answers(w) /\ UNCHANGED disk
  BY <1>0, <1>2, IdleRowsTyped, IdleWorkerOK, IdleApart, WorkerAlone DEF Staging!Answers
<1> QED
  BY <1>1, <1>2 DEF Staging!write

\* The row of an upload appears: its key was nobody else's, its file is there.
LEMMA RowAppears ==
  ASSUME StagingBounds, StagingInv, NEW w \in StagingRequests, task[w].step = "create",
         Staging!Admits(Staging!ExpiredStages, task[w].actor),
         NEW st, NEW r \in Stage, st = [Staging!ExpiredStages EXCEPT ![task[w].key] = r],
         r.state = "validated", r.owner = task[w].actor
  PROVE  /\ RowsTyped(st, Staging!ExpiredPreviews, disk) /\ FilesOK(st, disk) /\ StageLimitOK(st, hour)
         /\ PreviewsOK(st, Staging!ExpiredPreviews)
         /\ \A v \in StagingRequests : v # w => WorkerOK(task[v], st, Staging!ExpiredPreviews, disk)
<1> DEFINE old == Staging!ExpiredStages
           pv == Staging!ExpiredPreviews
           mine == task[w].key
<1>1. /\ RowsTyped(old, pv, disk) /\ FilesOK(old, disk) /\ StageLimitOK(old, hour)
      /\ PreviewsOK(old, pv) /\ \A v \in StagingRequests : WorkerOK(task[v], old, pv, disk)
  BY ExpiryKeeps
<1>2. mine \in StorageKeys /\ mine \in disk /\ old[mine].state = "none"
  BY <1>1 DEF WorkerOK, Uploading
<1>3. Cardinality(LiveStages(old, hour)) < MaxStages /\ \A k \in LiveStages(old, hour) : old[k].owner # task[w].actor
  BY StagingCardinality DEF Staging!Admits, LiveStages
<1> HIDE DEF old, pv, mine
<1>4. /\ st \in [StorageKeys -> Stage] /\ st[mine] = r
      /\ \A k \in StorageKeys : k # mine => st[k] = old[k]
  BY <1>1, <1>2 DEF RowsTyped, old, mine
<1>5. RowsTyped(st, pv, disk) /\ FilesOK(st, disk)
  BY <1>1, <1>2, <1>4 DEF RowsTyped, FilesOK
<1>6. StageLimitOK(st, hour)
  <2>1. LiveStages(st, hour) \subseteq LiveStages(old, hour) \cup {mine}
    BY <1>4 DEF LiveStages
  <2>2. \A k \in LiveStages(st, hour) : k = mine \/ (k \in LiveStages(old, hour) /\ st[k] = old[k])
    BY <1>4 DEF LiveStages
  <2>3. IsFiniteSet(LiveStages(old, hour)) /\ Cardinality(LiveStages(old, hour)) \in Nat
    BY FS_Subset, FS_CardinalityType DEF LiveStages, StagingBounds
  <2>4. /\ IsFiniteSet(LiveStages(old, hour) \cup {mine})
        /\ Cardinality(LiveStages(old, hour) \cup {mine}) <= Cardinality(LiveStages(old, hour)) + 1
        /\ Cardinality(LiveStages(old, hour) \cup {mine}) \in Nat
    <3>1. /\ IsFiniteSet(LiveStages(old, hour) \cup {mine})
          /\ \/ Cardinality(LiveStages(old, hour) \cup {mine}) = Cardinality(LiveStages(old, hour))
             \/ Cardinality(LiveStages(old, hour) \cup {mine}) = Cardinality(LiveStages(old, hour)) + 1
      BY <2>3, FS_AddElement
    <3> QED
      BY <2>3, <3>1
  <2>5. /\ Cardinality(LiveStages(st, hour)) <= Cardinality(LiveStages(old, hour) \cup {mine})
        /\ Cardinality(LiveStages(st, hour)) \in Nat
    BY <2>1, <2>4, FS_Subset, FS_CardinalityType
  <2>6. Cardinality(LiveStages(st, hour)) <= MaxStages
    BY <1>3, <2>3, <2>4, <2>5 DEF StagingBounds
  <2>7. \A k, l \in LiveStages(st, hour) : st[k].owner = st[l].owner => k = l
    BY <1>1, <1>3, <1>4, <2>2 DEF StageLimitOK
  <2> QED
    BY <2>6, <2>7 DEF StageLimitOK
<1>7. PreviewsOK(st, pv)
  <2>1. \A p \in PreviewIds : pv[p].state # "none" => pv[p].stage # mine
    BY <1>1, <1>2 DEF PreviewsOK
  <2>2. \A p \in PreviewIds : pv[p].state # "none" => pv[p].stage \in StorageKeys
    BY <1>1 DEF PreviewsOK, RowsTyped, Preview
  <2>3. \A p \in PreviewIds : pv[p].state # "none" => st[pv[p].stage] = old[pv[p].stage]
    BY <1>4, <2>1, <2>2
  <2>4. \A p \in PreviewIds : pv[p].state \in Taken => pv[p].state # "none"
    BY DEF Taken
  <2>5. \A k \in StorageKeys : st[k].state = "committing" => old[k].state = "committing"
    BY <1>4
  <2> QED
    BY <1>1, <2>3, <2>4, <2>5 DEF PreviewsOK
<1>8. \A v \in StagingRequests : v # w => WorkerOK(task[v], st, pv, disk)
  <2>1. SUFFICES ASSUME NEW v \in StagingRequests, v # w PROVE WorkerOK(task[v], st, pv, disk)
    OBVIOUS
  <2>2. WorkerOK(task[v], old, pv, disk) /\ task[v] \in Worker
    BY <1>1 DEF StagingInv
  <2>3. mine # task[v].key /\ mine \notin task[v].keys
    BY <2>1 DEF StagingInv, Apart, Uploading, mine
  <2>4. task[v].step # "idle" => st[task[v].key] = old[task[v].key]
    BY <1>4, <2>2, <2>3 DEF WorkerOK
  <2>5. \A k \in task[v].keys : st[k] = old[k]
    BY <1>4, <2>2, <2>3 DEF Worker
  <2>6. task[v].pre # 0 => task[v].step # "idle"
    BY <2>2 DEF WorkerOK, Reading
  <2> QED
    BY <2>2, <2>4, <2>5, <2>6 DEF WorkerOK, Uploading
<1> QED
  BY <1>5, <1>6, <1>7, <1>8 DEF old, pv

LEMMA StagingCreateStage ==
  ASSUME StagingBounds, StagingInv, NEW w \in StagingRequests, Staging!createStage(w)
  PROVE  StagingInv'
<1>0. /\ task[w] \in Worker /\ task[w].step = "create" /\ task[w].key \in StorageKeys
      /\ WorkerOK(task[w], stage, preview, disk)
      /\ UNCHANGED <<disk, config, hour>> /\ config' \in Nat /\ hour \in Nat
  <2>1. hour \in 0..MaxHours /\ MaxHours \in Nat
    BY DEF StagingInv, StagingBounds
  <2>2. hour \in Nat
    BY <2>1
  <2> QED
    BY <2>2 DEF Staging!createStage, Staging!At, StagingInv, WorkerOK, Uploading
<1>1. CASE Staging!Admits(Staging!ExpiredStages, task[w].actor)
  <2> DEFINE r == [state |-> "validated", owner |-> task[w].actor, exp |-> hour + StageTTL]
  <2>1. r \in Stage /\ r.state = "validated" /\ r.owner = task[w].actor
    BY <1>0 DEF Stage, Staging!Active, Worker, StagingBounds
  <2>2. /\ stage' = [Staging!ExpiredStages EXCEPT ![task[w].key] = r] /\ preview' = Staging!ExpiredPreviews
        /\ task' = [task EXCEPT ![w] = Staging!Idle]
    BY <1>1 DEF Staging!createStage, Staging!Answers
  <2> HIDE DEF r
  <2>3. /\ RowsTyped(stage', preview', disk) /\ FilesOK(stage', disk) /\ StageLimitOK(stage', hour)
        /\ PreviewsOK(stage', preview')
        /\ \A v \in StagingRequests : v # w => WorkerOK(task[v], stage', preview', disk)
    BY <1>0, <1>1, <2>1, <2>2, RowAppears
  <2> QED
    BY <1>0, <2>2, <2>3, IdleRowsTyped, IdleWorkerOK, IdleApart, WorkerMoves
<1>2. CASE ~Staging!Admits(Staging!ExpiredStages, task[w].actor)
  <2> DEFINE x == [task[w] EXCEPT !.step = "discard"]
  <2>1. /\ x \in Worker /\ x.step = "discard" /\ x.key = task[w].key /\ x.keys = task[w].keys
        /\ x.pre = task[w].pre /\ task' = [task EXCEPT ![w] = x]
        /\ UNCHANGED <<stage, preview>>
    BY <1>0, <1>2 DEF Staging!createStage, Staging!Steps, Worker, Uploading
  <2> HIDE DEF x
  <2>2. WorkerOK(x, stage, preview, disk)
    BY <1>0, <2>1 DEF WorkerOK, Uploading, Reading
  <2>3. \A v \in StagingRequests : v # w => Apart(x, task[v]) /\ Apart(task[v], x)
    BY <1>0, <2>1, StaysApart DEF Uploading
  <2> QED
    BY <1>0, <2>1, <2>2, <2>3, WorkerAlone
<1> QED
  BY <1>1, <1>2

LEMMA StagingDiscard ==
  ASSUME StagingBounds, StagingInv, NEW w \in StagingRequests, Staging!Discard(w)
  PROVE  StagingInv'
<1>0. /\ task[w] \in Worker /\ task[w].step = "discard" /\ task[w].key \in StorageKeys
      /\ stage[task[w].key].state = "none"
      /\ UNCHANGED <<stage, preview, config, hour>> /\ config' \in Nat
      /\ task' = [task EXCEPT ![w] = Staging!Idle]
  BY DEF Staging!Discard, Staging!At, Staging!Answers, StagingInv, WorkerOK, Uploading
<1>1. StageLimitOK(stage', hour) /\ PreviewsOK(stage', preview')
  BY <1>0 DEF StagingInv
<1>2. PICK gone \in SUBSET {task[w].key} : disk' = disk \ gone
  <2>1. disk' = disk \/ disk' = disk \ {task[w].key}
    BY DEF Staging!Discard
  <2>2. disk = disk \ {}
    OBVIOUS
  <2>3. {} \in SUBSET {task[w].key} /\ {task[w].key} \in SUBSET {task[w].key}
    OBVIOUS
  <2> QED
    BY <2>1, <2>2, <2>3
<1>3. gone \in SUBSET StorageKeys /\ \A k \in gone : stage[k].state \notin Staging!Active
  BY <1>0 DEF Staging!Active
<1>4. \A v \in StagingRequests : v # w /\ task[v].step \in Uploading => task[v].key \notin gone
  BY <1>0 DEF StagingInv, Apart
<1>5. /\ RowsTyped(stage, preview, disk') /\ FilesOK(stage, disk')
      /\ \A v \in StagingRequests : v # w => WorkerOK(task[v], stage, preview, disk')
  BY <1>2, <1>3, <1>4, FilesMayGo
<1>6. WorkerOK(Staging!Idle, stage', preview', disk')
  BY IdleWorkerOK
<1> QED
  BY <1>0, <1>1, <1>5, <1>6, IdleRowsTyped, IdleApart, WorkerMoves

\* A reader of a row that is there is apart from the uploads, whose rows are not.
LEMMA ReaderApart ==
  ASSUME StagingBounds, StagingInv, NEW v \in StagingRequests, NEW x \in Worker,
         x.step \in Reading, x.step # "committing", x.keys = {}, x.key \in StorageKeys,
         stage[x.key].state # "none"
  PROVE  Apart(x, task[v]) /\ Apart(task[v], x)
<1>1. WorkerOK(task[v], stage, preview, disk)
  BY DEF StagingInv
<1> QED
  BY <1>1 DEF WorkerOK, Apart, Reading, Uploading

LEMMA StagingStageForActor ==
  ASSUME StagingBounds, StagingInv, NEW w \in StagingRequests, NEW k \in StorageKeys, Staging!stageForActor(w, k)
  PROVE  StagingInv'
<1> DEFINE x == [Staging!Idle EXCEPT !.step = "read", !.key = k]
<1>1. /\ x \in Worker /\ x.step = "read" /\ x.key = k /\ x.keys = {} /\ x.pre = 0
      /\ task' = [task EXCEPT ![w] = x] /\ UNCHANGED <<disk, config, hour>>
      /\ stage' = Staging!ExpiredStages /\ preview' = Staging!ExpiredPreviews
  BY DEF Staging!stageForActor, Staging!expireRows, Staging!Idle, Worker, Reading
<1> HIDE DEF x
<1>2. stage[k].state # "none"
  BY DEF Staging!stageForActor, Staging!ExpiredStages, Staging!Expires
<1>3. WorkerOK(x, stage', preview', disk')
  BY <1>1 DEF WorkerOK, Uploading
<1>4. \A v \in StagingRequests : Apart(x, task[v]) /\ Apart(task[v], x)
  BY <1>1, <1>2, ReaderApart DEF Reading
<1>5. config' \in Nat
  BY <1>1 DEF StagingInv
<1> QED
  BY <1>1, <1>3, <1>4, <1>5, WorkerMoves, ExpiryKeeps

LEMMA StagingPreviewForActor ==
  ASSUME StagingBounds, StagingInv, NEW w \in StagingRequests, NEW p \in PreviewIds, Staging!previewForActor(w, p)
  PROVE  StagingInv'
<1> DEFINE x == [Staging!Idle EXCEPT !.step = "read", !.key = preview[p].stage, !.pre = p]
<1>1. preview[p].state = "ready" /\ Staging!ExpiredPreviews[p].stage = preview[p].stage
  BY DEF Staging!previewForActor, Staging!ExpiredPreviews, StagingInv, RowsTyped, Preview
<1>2. preview[p].stage \in StorageKeys /\ stage[preview[p].stage].state # "none"
  BY <1>1 DEF StagingInv, RowsTyped, PreviewsOK, Preview
<1>3. /\ x \in Worker /\ x.step = "read" /\ x.key = preview[p].stage /\ x.keys = {} /\ x.pre = p
      /\ task' = [task EXCEPT ![w] = x] /\ UNCHANGED <<disk, config, hour>>
      /\ stage' = Staging!ExpiredStages /\ preview' = Staging!ExpiredPreviews
  BY <1>2 DEF Staging!previewForActor, Staging!expireRows, Staging!Idle, Worker, Reading
<1> HIDE DEF x
<1>4. WorkerOK(x, stage', preview', disk')
  BY <1>1, <1>2, <1>3 DEF WorkerOK, Uploading, Reading
<1>5. \A v \in StagingRequests : Apart(x, task[v]) /\ Apart(task[v], x)
  BY <1>2, <1>3, ReaderApart DEF Reading
<1>6. config' \in Nat
  BY <1>3 DEF StagingInv
<1> QED
  BY <1>3, <1>4, <1>5, <1>6, WorkerMoves, ExpiryKeeps

LEMMA StagingReadStaged ==
  ASSUME StagingBounds, StagingInv, NEW w \in StagingRequests, Staging!ReadStaged(w)
  PROVE  StagingInv'
<1> DEFINE x == [task[w] EXCEPT !.step = "evaluate"]
<1>0. /\ task[w] \in Worker /\ task[w].step = "read" /\ task[w].key \in StorageKeys
      /\ WorkerOK(task[w], stage, preview, disk) /\ UNCHANGED <<stage, preview, disk, config, hour>>
      /\ \/ task' = [task EXCEPT ![w] = Staging!Idle]
         \/ task' = [task EXCEPT ![w] = x]
  BY DEF Staging!ReadStaged, Staging!At, Staging!Steps, Staging!Answers, StagingInv,
       WorkerOK
<1>1. /\ x \in Worker /\ x.step = "evaluate" /\ x.key = task[w].key /\ x.keys = task[w].keys
      /\ x.pre = task[w].pre
  BY <1>0 DEF Worker, Reading
<1> HIDE DEF x
<1>2. WorkerOK(x, stage, preview, disk)
  BY <1>0, <1>1 DEF WorkerOK, Uploading, Reading
<1>3. \A v \in StagingRequests : v # w => Apart(x, task[v]) /\ Apart(task[v], x)
  BY <1>0, <1>1, StaysApart DEF Uploading
<1> QED
  BY <1>0, <1>1, <1>2, <1>3, IdleRowsTyped, IdleWorkerOK, IdleApart, WorkerAlone

LEMMA StagingEvaluate ==
  ASSUME StagingBounds, StagingInv, NEW w \in StagingRequests, Staging!Evaluate(w)
  PROVE  StagingInv'
<1> DEFINE step == IF task[w].pre = 0 THEN "show" ELSE "claim"
           x == [task[w] EXCEPT !.plan = config, !.step = step]
<1>0. /\ task[w] \in Worker /\ task[w].step = "evaluate" /\ task[w].key \in StorageKeys /\ config \in Nat
      /\ WorkerOK(task[w], stage, preview, disk) /\ UNCHANGED <<stage, preview, disk, config, hour>>
      /\ task' = [task EXCEPT ![w] = x]
  BY DEF Staging!Evaluate, Staging!At, StagingInv, WorkerOK
<1>1. /\ x \in Worker /\ x.step \in {"show", "claim"} /\ x.key = task[w].key
      /\ x.keys = task[w].keys /\ x.pre = task[w].pre /\ (x.step = "claim" => x.pre # 0)
  BY <1>0 DEF Worker, Reading
<1> HIDE DEF x
<1>2. WorkerOK(x, stage, preview, disk)
  BY <1>0, <1>1 DEF WorkerOK, Uploading, Reading
<1>3. \A v \in StagingRequests : v # w => Apart(x, task[v]) /\ Apart(task[v], x)
  BY <1>0, <1>1, StaysApart DEF Uploading
<1> QED
  BY <1>0, <1>1, <1>2, <1>3, WorkerAlone

\* A stage's row changes its state and stays there, for previews and requests alike.
LEMMA StagingCreatePreview ==
  ASSUME StagingBounds, StagingInv, NEW w \in StagingRequests, Staging!createPreview(w)
  PROVE  StagingInv'
<1> DEFINE k == task[w].key
           old == Staging!ExpiredStages
           pre == Staging!ExpiredPreviews
<1>0. /\ task[w] \in Worker /\ task[w].step = "show" /\ k \in StorageKeys /\ task[w].plan \in Nat
      /\ UNCHANGED <<disk, config, hour>> /\ config' \in Nat
      /\ task' = [task EXCEPT ![w] = Staging!Idle]
  BY DEF Staging!createPreview, Staging!At, Staging!Answers, StagingInv, WorkerOK, Worker
<1>1. CASE UNCHANGED <<stage, preview>>
  BY <1>0, <1>1, IdleRowsTyped, IdleWorkerOK, IdleApart, WorkerAlone
<1>2. ASSUME old[k].state \in {"validated", "previewed"},
             NEW p \in PreviewIds, preview[p].state = "none",
             preview' = [pre EXCEPT ![p] =
                           [state |-> "ready", stage |-> k, plan |-> task[w].plan, exp |-> stage[k].exp]],
             stage' = [old EXCEPT ![k].state = "previewed"]
      PROVE  StagingInv'
  <2> DEFINE r == [state |-> "ready", stage |-> k, plan |-> task[w].plan, exp |-> stage[k].exp]
             s == [old[k] EXCEPT !.state = "previewed"]
  <2>1. /\ RowsTyped(old, pre, disk) /\ FilesOK(old, disk) /\ StageLimitOK(old, hour)
        /\ PreviewsOK(old, pre) /\ \A v \in StagingRequests : WorkerOK(task[v], old, pre, disk)
    BY ExpiryKeeps
  <2>2. pre[p].stage = 0
    <3>1. preview[p].stage = 0
      BY <1>2 DEF StagingInv, PreviewsOK
    <3> QED
      BY <1>2, <3>1 DEF Staging!ExpiredPreviews
  <2>3. r \in Preview /\ r.state = "ready" /\ r.stage = k
    <3>1. stage[k].exp \in Nat
      BY <1>0 DEF StagingInv, RowsTyped, Stage
    <3> QED
      BY <1>0, <3>1 DEF Preview
  <2>4. s \in Stage /\ s.state = "previewed" /\ s.owner = old[k].owner /\ s.exp = old[k].exp
    BY <1>0, <2>1 DEF RowsTyped, Stage, Staging!Active
  <2> HIDE DEF old, pre, r, s, k
  <2>5. /\ stage' \in [StorageKeys -> Stage] /\ stage'[k] = s
        /\ \A l \in StorageKeys : l # k => stage'[l] = old[l]
    BY <1>0, <1>2, <2>1, <2>4 DEF RowsTyped, s
  <2>6. /\ preview' \in [PreviewIds -> Preview] /\ preview'[p] = r
        /\ \A q \in PreviewIds : q # p => preview'[q] = pre[q]
    BY <1>2, <2>1, <2>3 DEF RowsTyped, r
  <2>7. RowsTyped(stage', preview', disk')
    BY <1>0, <2>1, <2>5, <2>6 DEF RowsTyped
  <2>8. FilesOK(stage', disk')
    BY <1>0, <1>2, <2>1, <2>5 DEF FilesOK, Staging!Active
  <2>9. StageLimitOK(stage', hour)
    <3>1. \A l \in StorageKeys : /\ stage'[l].owner = old[l].owner /\ stage'[l].exp = old[l].exp
                                 /\ stage'[l].state \in Staging!Active => old[l].state \in Staging!Active
      BY <1>2, <2>4, <2>5 DEF Staging!Active
    <3>2. LiveStages(stage', hour) \subseteq LiveStages(old, hour)
      BY <3>1 DEF LiveStages
    <3>3. \A l \in LiveStages(stage', hour) : stage'[l].owner = old[l].owner
      BY <3>1 DEF LiveStages
    <3> QED
      BY <2>1, <3>2, <3>3, LimitShrinks
  <2>10. \A l \in StorageKeys : l # k => stage'[l].state = old[l].state
    BY <2>5
  <2>11. PreviewsOK(stage', preview')
    <3>1. \A q \in PreviewIds : pre[q].state # "none" => pre[q].stage \in StorageKeys
      BY <2>1 DEF PreviewsOK, RowsTyped, Preview
    <3>2. \A q \in PreviewIds : pre[q].state \in Taken => pre[q].stage # k /\ pre[q].stage \in StorageKeys
      BY <1>2, <2>1, <3>1 DEF PreviewsOK, Taken
    <3>3. \A q \in PreviewIds : preview'[q].state \in Taken =>
            /\ q # p /\ preview'[q] = pre[q] /\ pre[q].stage \in StorageKeys \ {k}
      BY <2>3, <2>6, <3>2 DEF Taken
    <3>4. \A q \in PreviewIds : preview'[q].state = "none" <=> preview'[q].stage = 0
      BY <1>0, <2>1, <2>3, <2>6 DEF PreviewsOK, k, StagingBounds
    <3>5. \A q \in PreviewIds : preview'[q].state # "none" => stage'[preview'[q].stage].state # "none"
      BY <1>0, <2>1, <2>3, <2>4, <2>5, <2>6, <3>1 DEF PreviewsOK
    <3>6. \A q \in PreviewIds : preview'[q].state \in Taken =>
            /\ stage'[preview'[q].stage].state \in {"committing", "completed", "failed"}
            /\ preview'[q].state = "claimed" <=> stage'[preview'[q].stage].state = "committing"
      BY <2>1, <2>10, <3>3 DEF PreviewsOK
    <3>7. ASSUME NEW l \in StorageKeys, stage'[l].state = "committing"
          PROVE  \E q \in PreviewIds : preview'[q].stage = l /\ preview'[q].state = "claimed"
      <4>1. l # k /\ old[l].state = "committing"
        BY <2>4, <2>5, <3>7
      <4>2. PICK q \in PreviewIds : pre[q].stage = l /\ pre[q].state = "claimed"
        BY <2>1, <4>1 DEF PreviewsOK
      <4>3. q # p
        BY <2>2, <4>2 DEF StagingBounds
      <4> QED
        BY <2>6, <4>2, <4>3
    <3>8. \A q, q2 \in PreviewIds :
            preview'[q].state \in Taken /\ preview'[q2].state \in Taken
              /\ preview'[q].stage = preview'[q2].stage => q = q2
      BY <2>1, <3>3 DEF PreviewsOK
    <3> QED
      BY <3>4, <3>5, <3>6, <3>7, <3>8 DEF PreviewsOK
  <2>12. ASSUME NEW v \in StagingRequests PROVE WorkerOK(task[v], stage', preview', disk')
    <3>1. WorkerOK(task[v], old, pre, disk) /\ task[v] \in Worker
      BY <2>1 DEF StagingInv
    <3>2. task[v].keys \subseteq StorageKeys /\ (task[v].pre # 0 => task[v].pre \in PreviewIds)
      BY <3>1 DEF Worker
    <3>3. task[v].step # "idle" => task[v].key \in StorageKeys
      BY <3>1 DEF WorkerOK
    <3>4. \A l \in task[v].keys : stage'[l].state \in {"expired", "none"}
      BY <1>2, <2>10, <3>1, <3>2 DEF WorkerOK
    <3>5. task[v].step \in Uploading => stage'[task[v].key].state = "none"
      BY <1>2, <2>10, <3>1, <3>3 DEF WorkerOK, Uploading
    <3>6. ASSUME task[v].pre # 0
          PROVE  /\ task[v].step \in Reading
                 /\ preview'[task[v].pre].stage = task[v].key \/ stage'[task[v].key].state = "none"
      <4>1. /\ task[v].step \in Reading /\ task[v].key \in StorageKeys /\ task[v].pre \in PreviewIds
            /\ pre[task[v].pre].stage = task[v].key \/ old[task[v].key].state = "none"
        BY <3>1, <3>2, <3>3, <3>6 DEF WorkerOK, Reading
      <4>2. CASE task[v].pre # p /\ pre[task[v].pre].stage = task[v].key
        BY <2>6, <4>1, <4>2
      <4>3. CASE old[task[v].key].state = "none"
        BY <1>2, <2>10, <4>1, <4>3
      <4>4. CASE task[v].pre = p /\ pre[task[v].pre].stage = task[v].key
        BY <2>2, <4>1, <4>4 DEF StagingBounds
      <4> QED
        BY <4>1, <4>2, <4>3, <4>4
    <3>7. task[v].step = "committing" =>
            LET y == task[v] IN
            /\ preview'[y.pre].state = "claimed" /\ preview'[y.pre].stage = y.key
            /\ preview'[y.pre].plan = y.plan /\ stage'[y.key].state = "committing"
      <4>1. HAVE task[v].step = "committing"
      <4>2. /\ task[v].pre \in PreviewIds /\ task[v].key \in StorageKeys
            /\ pre[task[v].pre].stage = task[v].key /\ pre[task[v].pre].state = "claimed"
            /\ pre[task[v].pre].plan = task[v].plan /\ old[task[v].key].state = "committing"
        BY <3>1, <3>2, <3>3, <4>1 DEF WorkerOK
      <4>3. task[v].pre # p /\ task[v].key # k
        BY <1>2, <2>2, <4>2 DEF StagingBounds
      <4> QED
        BY <2>6, <2>10, <4>2, <4>3
    <3> QED
      BY <1>0, <3>1, <3>4, <3>5, <3>6, <3>7 DEF WorkerOK
  <2> QED
    BY <1>0, <2>7, <2>8, <2>9, <2>11, <2>12, IdleRowsTyped, IdleWorkerOK, IdleApart,
         WorkerMoves
<1> QED
  BY <1>1, <1>2 DEF Staging!createPreview

\* Preview p alone takes up stage k, for request w alone.
OneCommits(st, pv, w, k, p, ss, ps) ==
  /\ RowsTyped(st, pv, disk) /\ FilesOK(st, disk) /\ StageLimitOK(st, hour) /\ PreviewsOK(st, pv)
  /\ w \in StagingRequests /\ k \in StorageKeys /\ p \in PreviewIds
  /\ \A v \in StagingRequests : WorkerOK(task[v], st, pv, disk)
  /\ pv[p].stage = k /\ st[k].state \in {"previewed", "committing"} /\ task[w].key = k
  /\ \A v \in StagingRequests : v # w /\ task[v].step = "committing" => task[v].key # k
  /\ \A q \in PreviewIds : q # p /\ pv[q].stage = k => pv[q].state \notin Taken
  /\ ss \in {"committing", "completed", "failed"} /\ ps \in Taken
  /\ ps = "claimed" <=> ss = "committing"

CommitKeeps(st, pv, w, k, p, plan, ss, ps) ==
  /\ RowsTyped(st, pv, disk) /\ FilesOK(st, disk) /\ StageLimitOK(st, hour) /\ PreviewsOK(st, pv)
  /\ st[k].state = ss /\ pv[p].state = ps /\ pv[p].stage = k /\ pv[p].plan = plan
  /\ \A v \in StagingRequests : v # w => WorkerOK(task[v], st, pv, disk)

\* A stage and the one preview of it that was taken up change their state together.
LEMMA CommitRows ==
  ASSUME StagingBounds, StagingInv, NEW old, NEW pre, NEW w, NEW k, NEW p, NEW ss, NEW ps,
         OneCommits(old, pre, w, k, p, ss, ps)
  PROVE  CommitKeeps([old EXCEPT ![k].state = ss], [pre EXCEPT ![p].state = ps],
                     w, k, p, pre[p].plan, ss, ps)
<1> USE DEF OneCommits
<1> DEFINE st == [old EXCEPT ![k].state = ss]
           pv == [pre EXCEPT ![p].state = ps]
<1> DEFINE s == [old[k] EXCEPT !.state = ss]
           r == [pre[p] EXCEPT !.state = ps]
<1>1. s \in Stage /\ s.state = ss /\ s.owner = old[k].owner /\ s.exp = old[k].exp
  BY DEF RowsTyped, Stage, Staging!Active
<1>2. r \in Preview /\ r.state = ps /\ r.stage = k /\ r.plan = pre[p].plan
  BY DEF RowsTyped, Preview
<1> HIDE DEF s, r, st, pv
<1>3. /\ st \in [StorageKeys -> Stage] /\ st[k] = s
      /\ \A l \in StorageKeys : l # k => st[l] = old[l]
  BY <1>1 DEF RowsTyped, s, st
<1>4. /\ pv \in [PreviewIds -> Preview] /\ pv[p] = r
      /\ \A q \in PreviewIds : q # p => pv[q] = pre[q]
  BY <1>2 DEF RowsTyped, r, pv
<1>5. RowsTyped(st, pv, disk)
  BY <1>3, <1>4 DEF RowsTyped
<1>6. FilesOK(st, disk)
  BY <1>3 DEF FilesOK, Staging!Active
<1>7. StageLimitOK(st, hour)
  <2>1. \A l \in StorageKeys : /\ st[l].owner = old[l].owner /\ st[l].exp = old[l].exp
                               /\ st[l].state \in Staging!Active => old[l].state \in Staging!Active
    BY <1>1, <1>3 DEF Staging!Active
  <2>2. LiveStages(st, hour) \subseteq LiveStages(old, hour)
    BY <2>1 DEF LiveStages
  <2>3. \A l \in LiveStages(st, hour) : st[l].owner = old[l].owner
    BY <2>1 DEF LiveStages
  <2> QED
    BY <2>2, <2>3, LimitShrinks
<1>8. PreviewsOK(st, pv)
  <2>1. \A q \in PreviewIds : pre[q].state # "none" => pre[q].stage \in StorageKeys
    BY DEF PreviewsOK, RowsTyped, Preview
  <2>2. \A q \in PreviewIds : pv[q].state \in Taken =>
          q = p \/ (q # p /\ pv[q] = pre[q] /\ pre[q].stage \in StorageKeys \ {k})
    BY <1>4, <2>1 DEF Taken
  <2>3. \A q \in PreviewIds : pv[q].state = "none" <=> pv[q].stage = 0
    BY <1>2, <1>4 DEF PreviewsOK, Taken, StagingBounds
  <2>4. \A q \in PreviewIds : pv[q].state # "none" => st[pv[q].stage].state # "none"
    BY <1>1, <1>2, <1>3, <1>4, <2>1 DEF PreviewsOK
  <2>5. \A q \in PreviewIds : pv[q].state \in Taken =>
          /\ st[pv[q].stage].state \in {"committing", "completed", "failed"}
          /\ pv[q].state = "claimed" <=> st[pv[q].stage].state = "committing"
    BY <1>1, <1>2, <1>3, <1>4, <2>2 DEF PreviewsOK
  <2>6. ASSUME NEW l \in StorageKeys, st[l].state = "committing"
        PROVE  \E q \in PreviewIds : pv[q].stage = l /\ pv[q].state = "claimed"
    <3>1. CASE l = k
      BY <1>1, <1>2, <1>3, <1>4, <2>6, <3>1
    <3>2. CASE l # k
      <4>1. PICK q \in PreviewIds : pre[q].stage = l /\ pre[q].state = "claimed"
        BY <1>3, <2>6, <3>2 DEF PreviewsOK
      <4> QED
        BY <1>4, <3>2, <4>1
    <3> QED
      BY <3>1, <3>2
  <2>7. \A q, q2 \in PreviewIds :
          pv[q].state \in Taken /\ pv[q2].state \in Taken /\ pv[q].stage = pv[q2].stage => q = q2
    BY <1>2, <1>4, <2>2 DEF PreviewsOK
  <2> QED
    BY <2>3, <2>4, <2>5, <2>6, <2>7 DEF PreviewsOK
<1>9. ASSUME NEW v \in StagingRequests, v # w PROVE WorkerOK(task[v], st, pv, disk)
  <2>1. WorkerOK(task[v], old, pre, disk) /\ task[v] \in Worker
    BY DEF StagingInv
  <2>2. task[v].keys \subseteq StorageKeys /\ (task[v].pre # 0 => task[v].pre \in PreviewIds)
    BY <2>1 DEF Worker
  <2>3. task[v].step # "idle" => task[v].key \in StorageKeys
    BY <2>1 DEF WorkerOK
  <2>4. \A l \in task[v].keys : st[l].state \in {"expired", "none"}
    BY <1>3, <2>1, <2>2 DEF WorkerOK
  <2>5. task[v].step \in Uploading => st[task[v].key].state = "none"
    BY <1>3, <2>1, <2>3 DEF WorkerOK, Uploading
  <2>6. \A q \in PreviewIds : pv[q].stage = pre[q].stage
    BY <1>2, <1>4
  <2>7. ASSUME task[v].pre # 0
        PROVE  /\ task[v].step \in Reading
               /\ pv[task[v].pre].stage = task[v].key \/ st[task[v].key].state = "none"
    <3>1. /\ task[v].step \in Reading /\ task[v].key \in StorageKeys /\ task[v].pre \in PreviewIds
          /\ pre[task[v].pre].stage = task[v].key \/ old[task[v].key].state = "none"
      BY <2>1, <2>2, <2>3, <2>7 DEF WorkerOK, Reading
    <3> QED
      BY <1>3, <2>6, <3>1
  <2>8. task[v].step = "committing" =>
          LET y == task[v] IN
          /\ pv[y.pre].state = "claimed" /\ pv[y.pre].stage = y.key
          /\ pv[y.pre].plan = y.plan /\ st[y.key].state = "committing"
    <3>1. HAVE task[v].step = "committing"
    <3>2. /\ task[v].pre \in PreviewIds /\ task[v].key \in StorageKeys
          /\ pre[task[v].pre].stage = task[v].key /\ pre[task[v].pre].state = "claimed"
          /\ pre[task[v].pre].plan = task[v].plan /\ old[task[v].key].state = "committing"
      BY <2>1, <2>2, <2>3, <3>1 DEF WorkerOK
    <3>3. task[v].pre # p /\ task[v].key # k
      BY <1>9, <3>1, <3>2
    <3> QED
      BY <1>3, <1>4, <3>2, <3>3
  <2> QED
    BY <2>1, <2>4, <2>5, <2>7, <2>8 DEF WorkerOK
<1> QED
  BY <1>1, <1>2, <1>3, <1>4, <1>5, <1>6, <1>7, <1>8, <1>9 DEF CommitKeeps, st, pv

LEMMA StagingClaim ==
  ASSUME StagingBounds, StagingInv, NEW w \in StagingRequests, Staging!claimPreviewInTransaction(w)
  PROVE  StagingInv'
<1> DEFINE k == task[w].key
           p == task[w].pre
           x == [task[w] EXCEPT !.step = "committing"]
<1>0. /\ task[w] \in Worker /\ task[w].step = "claim" /\ k \in StorageKeys /\ p \in PreviewIds
      /\ WorkerOK(task[w], stage, preview, disk)
      /\ UNCHANGED <<disk, config, hour>> /\ config' \in Nat
  BY DEF Staging!claimPreviewInTransaction, Staging!At, StagingInv, WorkerOK, Worker
<1>1. CASE Staging!Claimable(w)
  <2>1. /\ preview' = [Staging!ExpiredPreviews EXCEPT ![p].state = "claimed"]
        /\ stage' = [Staging!ExpiredStages EXCEPT ![k].state = "committing"]
        /\ task' = [task EXCEPT ![w] = x]
    BY <1>1 DEF Staging!claimPreviewInTransaction, Staging!Steps
  <2>2. /\ preview[p].plan = task[w].plan /\ preview[p].state = "ready" /\ preview[p].exp > hour
        /\ stage[k].state = "previewed" /\ stage[k].exp > hour
    BY <1>1 DEF Staging!Claimable
  <2>3. preview[p].exp \in Nat /\ stage[k].exp \in Nat /\ hour \in Nat
    <3>1. hour \in 0..MaxHours /\ MaxHours \in Nat
      BY DEF StagingInv, StagingBounds
    <3>2. preview[p] \in Preview /\ stage[k] \in Stage
      BY <1>0 DEF StagingInv, RowsTyped
    <3> QED
      BY <3>1, <3>2 DEF Preview, Stage
  <2>4. Staging!ExpiredPreviews[p] = preview[p] /\ Staging!ExpiredStages[k] = stage[k]
    BY <1>0, <2>2, <2>3 DEF Staging!ExpiredPreviews, Staging!ExpiredStages, Staging!Expires
  <2>5. preview[p].stage = k
    BY <1>0, <2>2 DEF WorkerOK, StagingBounds
  <2>6. \A q \in PreviewIds : q # p /\ Staging!ExpiredPreviews[q].stage = k => Staging!ExpiredPreviews[q].state \notin Taken
    BY <2>2, <2>4, ExpiryKeeps DEF PreviewsOK
  <2>7. \A v \in StagingRequests : v # w /\ task[v].step = "committing" => task[v].key # task[w].key
    BY <2>2 DEF StagingInv, WorkerOK
  <2>8. OneCommits(Staging!ExpiredStages, Staging!ExpiredPreviews, w, k, p, "committing", "claimed")
    BY <1>0, <2>2, <2>4, <2>5, <2>6, <2>7, ExpiryKeeps DEF OneCommits, Taken
  <2>9. /\ RowsTyped(stage', preview', disk) /\ FilesOK(stage', disk) /\ StageLimitOK(stage', hour)
        /\ PreviewsOK(stage', preview')
        /\ stage'[k].state = "committing" /\ preview'[p].state = "claimed" /\ preview'[p].stage = k
        /\ preview'[p].plan = Staging!ExpiredPreviews[p].plan
        /\ \A v \in StagingRequests : v # w => WorkerOK(task[v], stage', preview', disk)
    <3>1. CommitKeeps(stage', preview', w, k, p, Staging!ExpiredPreviews[p].plan, "committing", "claimed")
      BY <2>1, <2>8, CommitRows
    <3> QED
      BY <3>1 DEF CommitKeeps
  <2>10. /\ x \in Worker /\ x.step = "committing" /\ x.key = k /\ x.keys = task[w].keys
         /\ x.pre = p /\ x.plan = task[w].plan
    BY <1>0 DEF Worker, Reading
  <2> HIDE DEF x
  <2>11. WorkerOK(x, stage', preview', disk')
    <3>1. \A l \in task[w].keys : stage'[l].state \in {"expired", "none"}
      <4>1. WorkerOK(task[w], Staging!ExpiredStages, Staging!ExpiredPreviews, disk) /\ task[w].keys \subseteq StorageKeys
        BY <1>0, ExpiryKeeps DEF Worker
      <4>2. \A l \in StorageKeys : l # k => stage'[l] = Staging!ExpiredStages[l]
        BY <2>1
      <4> QED
        BY <2>2, <2>4, <4>1, <4>2 DEF WorkerOK
    <3> QED
      BY <1>0, <2>2, <2>4, <2>9, <2>10, <3>1 DEF WorkerOK, Uploading, Reading, StagingBounds
  <2>12. \A v \in StagingRequests : v # w => Apart(x, task[v]) /\ Apart(task[v], x)
    BY <1>0, <2>7, <2>10 DEF StagingInv, Apart, Uploading
  <2> QED
    BY <1>0, <2>1, <2>9, <2>10, <2>11, <2>12, WorkerMoves
<1>2. CASE ~Staging!Claimable(w)
  BY <1>0, <1>2, IdleRowsTyped, IdleWorkerOK, IdleApart,
       WorkerAlone DEF Staging!claimPreviewInTransaction, Staging!Answers
<1> QED
  BY <1>1, <1>2

LEMMA StagingFinalize ==
  ASSUME StagingBounds, StagingInv, NEW w \in StagingRequests, NEW o \in {"completed", "failed"},
         Staging!finalizePreview(w, o)
  PROVE  StagingInv'
<1> DEFINE k == task[w].key
           p == task[w].pre
<1>0. /\ task[w] \in Worker /\ task[w].step = "committing" /\ k \in StorageKeys /\ p \in PreviewIds
      /\ WorkerOK(task[w], stage, preview, disk)
      /\ UNCHANGED <<disk, hour>> /\ task' = [task EXCEPT ![w] = Staging!Idle]
      /\ preview' = [preview EXCEPT ![p].state = o] /\ stage' = [stage EXCEPT ![k].state = o]
  BY DEF Staging!finalizePreview, Staging!At, Staging!Answers, StagingInv, WorkerOK, Worker
<1>1. config' \in Nat
  BY DEF Staging!finalizePreview, StagingInv
<1>2. /\ preview[p].state = "claimed" /\ preview[p].stage = k /\ stage[k].state = "committing"
  BY <1>0 DEF WorkerOK
<1>3. \A q \in PreviewIds : q # p /\ preview[q].stage = k => preview[q].state \notin Taken
  BY <1>0, <1>2 DEF StagingInv, PreviewsOK, Taken
<1>4. \A v \in StagingRequests : v # w /\ task[v].step = "committing" => task[v].key # task[w].key
  BY <1>0 DEF StagingInv, Apart
<1>5. OneCommits(stage, preview, w, k, p, o, o)
  BY <1>0, <1>2, <1>3, <1>4 DEF OneCommits, Taken, StagingInv
<1>6. /\ RowsTyped(stage', preview', disk) /\ FilesOK(stage', disk) /\ StageLimitOK(stage', hour)
      /\ PreviewsOK(stage', preview')
      /\ \A v \in StagingRequests : v # w => WorkerOK(task[v], stage', preview', disk)
  <2>1. CommitKeeps(stage', preview', w, k, p, preview[p].plan, o, o)
    BY <1>0, <1>5, CommitRows
  <2> QED
    BY <2>1 DEF CommitKeeps
<1> QED
  BY <1>0, <1>1, <1>6, IdleRowsTyped, IdleWorkerOK, IdleApart, WorkerMoves

LEMMA StagingAdminister ==
  ASSUME StagingBounds, StagingInv, Staging!Administer
  PROVE  StagingInv'
<1>1. UNCHANGED <<stage, preview, disk, task, hour>> /\ config' \in Nat
  BY DEF Staging!Administer, StagingInv
<1> QED
  BY <1>1 DEF StagingInv

LEMMA StagingHourPasses ==
  ASSUME StagingBounds, StagingInv, Staging!HourPasses
  PROVE  StagingInv'
<1>1. UNCHANGED <<stage, preview, disk, task, config>> /\ hour' = hour + 1 /\ hour < MaxHours
  BY DEF Staging!HourPasses
<1>2. hour \in 0..MaxHours /\ MaxHours \in Nat
  BY DEF StagingInv, StagingBounds
<1>3. hour' \in 0..MaxHours /\ \A e \in Nat : e > hour' => e > hour
  BY <1>1, <1>2
<1>4. \A k \in StorageKeys : stage[k].exp \in Nat
  BY DEF StagingInv, RowsTyped, Stage
<1>5. LiveStages(stage, hour') \subseteq LiveStages(stage, hour)
  BY <1>3, <1>4 DEF LiveStages
<1>6. StageLimitOK(stage, hour')
  BY <1>5, LimitShrinks DEF StagingInv
<1> QED
  BY <1>1, <1>3, <1>6 DEF StagingInv

LEMMA StagingRestart ==
  ASSUME StagingBounds, StagingInv, Staging!Restart
  PROVE  StagingInv'
<1>1. /\ UNCHANGED <<stage, preview, disk, config, hour>> /\ task' = [w \in StagingRequests |-> Staging!Idle]
      /\ \A w \in StagingRequests : task'[w] = Staging!Idle
  BY DEF Staging!Restart
<1>2. task' \in [StagingRequests -> Worker]
  BY <1>1, IdleRowsTyped
<1>3. \A w \in StagingRequests : WorkerOK(task'[w], stage', preview', disk')
  BY <1>1, IdleWorkerOK
<1>4. \A v, w \in StagingRequests : v # w => Apart(task'[v], task'[w])
  BY <1>1, IdleRowsTyped DEF Apart, Uploading
<1> QED
  BY <1>1, <1>2, <1>3, <1>4 DEF StagingInv

LEMMA StagingInit ==
  ASSUME StagingBounds, Staging!Init
  PROVE  StagingInv
<1>1. /\ stage \in [StorageKeys -> Stage] /\ \A k \in StorageKeys : stage[k].state = "none"
      /\ preview \in [PreviewIds -> Preview]
      /\ \A p \in PreviewIds : preview[p].state = "none" /\ preview[p].stage = 0
      /\ task \in [StagingRequests -> Worker] /\ \A w \in StagingRequests : task[w] = Staging!Idle
  BY IdleRowsTyped DEF Staging!Init
<1>2. RowsTyped(stage, preview, disk)
  BY <1>1 DEF Staging!Init, RowsTyped
<1>3. config \in Nat /\ hour \in 0..MaxHours
  BY DEF Staging!Init, StagingBounds
<1>4. FilesOK(stage, disk)
  BY <1>1 DEF FilesOK, Staging!Active
<1>5. StageLimitOK(stage, hour)
  <2>1. LiveStages(stage, hour) = {}
    BY <1>1 DEF LiveStages, Staging!Active
  <2>2. Cardinality({}) = 0
    BY FS_EmptySet
  <2> QED
    BY <2>1, <2>2 DEF StageLimitOK, StagingBounds
<1>6. PreviewsOK(stage, preview)
  BY <1>1 DEF PreviewsOK, Taken
<1>7. \A w \in StagingRequests : WorkerOK(task[w], stage, preview, disk)
  BY <1>1, IdleWorkerOK
<1>8. \A v, w \in StagingRequests : v # w => Apart(task[v], task[w])
  BY <1>1, IdleRowsTyped DEF Apart, Uploading
<1> QED
  BY <1>1, <1>2, <1>3, <1>4, <1>5, <1>6, <1>7, <1>8 DEF StagingInv

LEMMA StagingNext ==
  ASSUME StagingBounds, StagingInv, [Staging!Next]_(Staging!stagingVars)
  PROVE  StagingInv'
<1>1. ASSUME NEW w \in StagingRequests, Staging!Progress(w)
      PROVE  StagingInv'
  BY <1>1, StagingCleanupExpire, StagingExpiredKeys, StagingRemoveExpired,
       StagingDeleteExpired,
     StagingWrite, StagingCreateStage, StagingDiscard, StagingReadStaged, StagingEvaluate,
     StagingCreatePreview, StagingClaim, StagingFinalize DEF Staging!Progress
<1>2. CASE UNCHANGED Staging!stagingVars
  BY <1>2 DEF Staging!stagingVars, StagingInv
<1> QED
  BY <1>1, <1>2, StagingUpload, StagingStageForActor, StagingPreviewForActor,
       StagingAdminister,
     StagingHourPasses, StagingRestart DEF Staging!Next

LEMMA StagingSafe ==
  ASSUME StagingBounds, StagingInv
  PROVE  Staging!StagesCoherent
<1>1. Staging!TypeOK
  BY DEF StagingInv, RowsTyped, Staging!TypeOK, Stage, Preview, Taken
<1>2. Staging!StagesKeepTheirFiles
  BY <1>1, StagingCardinality
     DEF StagingInv, FilesOK, StageLimitOK, LiveStages, Staging!StagesKeepTheirFiles
<1>3. \A w \in StagingRequests : task[w].step = "committing" => preview[task[w].pre].plan = task[w].plan
  BY DEF StagingInv, WorkerOK
<1>4. ASSUME NEW k \in StorageKeys
      PROVE  LET used == {p \in PreviewIds : preview[p].stage = k
                            /\ preview[p].state \in {"claimed", "completed", "failed"}}
             IN /\ Cardinality(used) <= 1
                /\ stage[k].state = "committing" <=> \E p \in used : preview[p].state = "claimed"
  <2> DEFINE used == {p \in PreviewIds : preview[p].stage = k
                        /\ preview[p].state \in {"claimed", "completed", "failed"}}
  <2>1. \A p, q \in used : p = q
    BY DEF StagingInv, PreviewsOK, Taken
  <2>2. Cardinality(used) <= 1
    <3> HIDE DEF used
    <3>1. CASE used = {}
      BY <3>1, FS_EmptySet
    <3>2. CASE used # {}
      <4>1. PICK p \in used : TRUE
        BY <3>2
      <4>2. used = {p}
        BY <2>1, <4>1
      <4>3. Cardinality({p}) = 1
        BY FS_Singleton
      <4> QED
        BY <4>2, <4>3
    <3> QED
      BY <3>1, <3>2
  <2>3. stage[k].state = "committing" <=> \E p \in used : preview[p].state = "claimed"
    BY <1>4 DEF StagingInv, PreviewsOK, Taken
  <2> QED
    BY <2>2, <2>3
<1> QED
  BY <1>2, <1>3, <1>4, StagingCardinality DEF Staging!StagesCoherent,
       Staging!OneCommitOfWhatWasShown

\* What is proved of the stages needs no fairness.
StagingSafety == Staging!Init /\ [][Staging!Next]_(Staging!stagingVars)

\* The strengthening holds of the stages for any keys, actors and requests, at any
\* interleaving of uploads, cleanups, previews, commits and restarts
\* (restoreStaging.ts, restorePreview.ts, restoreState.ts).
THEOREM StagingInductive == StagingBounds /\ StagingSafety => []StagingInv
<1> SUFFICES ASSUME StagingBounds PROVE StagingSafety => []StagingInv
  OBVIOUS
<1>1. Staging!Init => StagingInv
  BY StagingInit
<1>2. StagingInv /\ [Staging!Next]_(Staging!stagingVars) => StagingInv'
  BY StagingNext
<1> QED
  BY <1>1, <1>2, PTL DEF StagingSafety

\* A stage that can be used has its file, the limits hold, and a stage is committed
\* at most once, by the preview that was shown (restoreState.ts createStage,
\* claimPreviewInTransaction).
THEOREM StagesStayCoherent == StagingBounds /\ StagingSafety => []Staging!StagesCoherent
<1> SUFFICES ASSUME StagingBounds PROVE StagingSafety => []Staging!StagesCoherent
  OBVIOUS
<1>1. StagingInv => Staging!StagesCoherent
  BY StagingSafe
<1> QED
  BY <1>1, StagingInductive, PTL

-----------------------------------------------------------------------------
(* The transfers.                                                          *)

TransferBounds ==
  /\ IsFiniteSet(ExportCalls) /\ IsFiniteSet(ImportCalls) /\ ExportCalls \cap ImportCalls = {}
  /\ Chunks \in Nat \ {0} /\ Skew \in Nat /\ CapabilityTTL \in Nat /\ TransferTTL \in Nat
  /\ MaxTransfers \in Nat \ {0} /\ MaxActive \in Nat \ {0}
  /\ MaxClock \in Nat /\ MaxEvents \in Nat

\* The requests a call may send, in the order in which it sends them.
RequestKeys ==
  (Transferring!Calls \X {"start"} \X {0}) \cup (ExportCalls \X {"read"} \X Nat)
    \cup (ImportCalls \X {"write"} \X (0..(Chunks - 1))) \cup (ImportCalls \X {"finish"} \X {Chunks})

Position(rk) == IF rk[2] = "start" THEN 0 ELSE rk[3] + 1

Awaited(x, c) == <<c, x.act, x.seq>>

FinishOf(c) == <<c, "finish", Chunks>>

Contents == ({"control"} \X Nat) \cup ({"import"} \X ImportCalls)
IdleCall == [pc : {"idle"}, act : {"start"}, seq : {0}, got : {<<>>}]
StartedCall == [pc : {"await", "answered", "done", "failed"},
                act : {"start", "read", "write", "finish"}, seq : Nat,
                got : Seq(Contents \X Nat),
                cap : [boot : Nat, expires : Int, selection : Contents]]
Request == [key : RequestKeys, ts : Nat, boot : Nat, original : BOOLEAN]
ExportTransfer == [seq : Nat, archive : Contents, expires : Int]

TimesOK ==
  /\ clock \in 0..MaxClock /\ events \in 0..MaxEvents
  /\ boot \in Nat /\ 1 <= boot /\ boot <= events + 1
  /\ clientBoot \in Nat /\ clientBoot <= boot
  /\ content \in Contents

\* A call awaits a request of its own; an export holds the first chunks of what its
\* capability selected, as many as it has read; an import that is done was applied.
StartedOK(c, x, done) ==
  /\ Awaited(x, c) \in RequestKeys
  /\ c \in ExportCalls =>
       /\ x.got = [i \in 1..Len(x.got) |-> <<x.cap.selection, i - 1>>]
       /\ x.pc = "await" => Len(x.got) = IF x.act = "start" THEN 0 ELSE x.seq
       /\ x.pc = "answered" => Len(x.got) = Position(Awaited(x, c))
       /\ x.pc = "done" => Len(x.got) = Chunks
  /\ c \in ImportCalls =>
       /\ x.pc = "answered" => x.act # "finish"
       /\ x.pc = "done" => c \in Transferring!Range(done)

CallOK(c, x, done) ==
  x \in IdleCall \/ (x \in StartedCall /\ StartedOK(c, x, done))

\* A request was sent at or before the one its call awaits now.
Sent(rk, calls) ==
  /\ rk \in RequestKeys /\ calls[rk[1]] \in StartedCall
  /\ Position(rk) <= Position(Awaited(calls[rk[1]], rk[1]))

WireOK(reqs, calls, t, b) ==
  /\ \A r \in reqs : r \in Request /\ Sent(r.key, calls) /\ r.ts <= t /\ r.boot <= b
  /\ \A r, s \in reqs : r.key = s.key => r.ts = s.ts /\ r.boot = s.boot

\* A request that has run is refused wherever a copy of it still travels: the boot
\* has changed, the window is over, or the replay cache remembers it that long.
Refusable(r, cache, t, b) ==
  \/ r.boot # b
  \/ t - r.ts > Skew
  \/ \E e \in cache : e.key = r.key /\ e.expires = r.ts + Skew + 1

RunsOK(ran, reqs, cache, calls, t, b) ==
  /\ \A k \in DOMAIN ran : ran[k] = 1 /\ Sent(k, calls)
  /\ \A r \in reqs : r.key \in DOMAIN ran => Refusable(r, cache, t, b)

JobsOK(underway, ran, done) ==
  /\ IsFiniteSet(underway)
  /\ \A j \in underway : /\ j.key \in DOMAIN ran
                         /\ j.key[2] = IF j.key[1] \in ExportCalls THEN "start" ELSE "finish"
  /\ \A i, j \in underway : i.key = j.key => i = j
  /\ done \in Seq(ImportCalls)
  /\ \A i, j \in 1..Len(done) : done[i] = done[j] => i = j
  /\ \A i \in 1..Len(done) : /\ FinishOf(done[i]) \in DOMAIN ran
                             /\ \A j \in underway : j.key # FinishOf(done[i])

\* The table holds exports of what was selected; with the work under way it is
\* within the two limits.
TableOK(table, calls) ==
  /\ DOMAIN table \subseteq Transferring!Calls
  /\ \A c \in DOMAIN table : c \in ExportCalls =>
       /\ table[c] \in ExportTransfer /\ calls[c] \in StartedCall
       /\ table[c].archive = calls[c].cap.selection

TransferLimitOK(table, underway) ==
  /\ Cardinality(underway) <= MaxActive
  /\ Cardinality(DOMAIN table) + Cardinality(underway) <= MaxTransfers + MaxActive - 1

TransfersInv ==
  /\ TimesOK
  /\ DOMAIN call = Transferring!Calls /\ \A c \in Transferring!Calls : CallOK(c, call[c], applied)
  /\ WireOK(wire, call, clock, boot)
  /\ RunsOK(runs, wire, replay, call, clock, boot)
  /\ JobsOK(jobs, runs, applied)
  /\ TableOK(transfers, call) /\ TransferLimitOK(transfers, jobs)

LEMMA KeysShape ==
  ASSUME NEW rk \in RequestKeys
  PROVE  /\ rk[1] \in Transferring!Calls /\ rk = <<rk[1], rk[2], rk[3]>>
         /\ rk[2] \in {"start", "read", "write", "finish"} /\ (TransferBounds => rk[3] \in Nat)
         /\ TransferBounds => Position(rk) \in Nat
         /\ rk[2] = "start" => rk[3] = 0
         /\ rk[2] = "read" => rk[1] \in ExportCalls
         /\ rk[2] = "write" => rk[1] \in ImportCalls /\ rk[3] \in 0..(Chunks - 1)
         /\ rk[2] = "finish" => rk[1] \in ImportCalls /\ rk[3] = Chunks
<1>1. CASE rk \in Transferring!Calls \X {"start"} \X {0}
  BY <1>1 DEF Position, Transferring!Calls
<1>2. CASE rk \in ExportCalls \X {"read"} \X Nat
  BY <1>2 DEF Position, Transferring!Calls
<1>3. CASE rk \in ImportCalls \X {"write"} \X (0..(Chunks - 1))
  BY <1>3 DEF Position, Transferring!Calls, TransferBounds
<1>4. CASE rk \in ImportCalls \X {"finish"} \X {Chunks}
  BY <1>4 DEF Position, Transferring!Calls, TransferBounds
<1> QED
  BY <1>1, <1>2, <1>3, <1>4 DEF RequestKeys

\* The order of the requests of a call tells them apart.
LEMMA PositionsDiffer ==
  ASSUME TransferBounds, NEW k \in RequestKeys, NEW l \in RequestKeys, k[1] = l[1],
         Position(k) = Position(l)
  PROVE  k = l
<1>1. ExportCalls \cap ImportCalls = {} /\ Chunks \in Nat
  BY DEF TransferBounds
<1>2. k[3] \in Nat /\ l[3] \in Nat
  BY KeysShape
<1>3. k[3] = l[3]
  BY <1>2, KeysShape DEF Position
<1>4. k[2] = l[2]
  BY <1>1, <1>2, <1>3, KeysShape DEF Position
<1> QED
  BY <1>3, <1>4, KeysShape

LEMMA KeysOfExports ==
  ASSUME NEW c \in ExportCalls
  PROVE  /\ <<c, "start", 0>> \in RequestKeys
         /\ \A n \in Nat : <<c, "read", n>> \in RequestKeys
BY DEF RequestKeys, Transferring!Calls

LEMMA KeysOfImports ==
  ASSUME TransferBounds, NEW c \in ImportCalls
  PROVE  /\ <<c, "start", 0>> \in RequestKeys
         /\ \A n \in Nat : n < Chunks => <<c, "write", n>> \in RequestKeys
         /\ <<c, "finish", Chunks>> \in RequestKeys
<1>1. \A n \in Nat : n < Chunks => n \in 0..(Chunks - 1)
  BY DEF TransferBounds
<1>2. \A n \in 0..(Chunks - 1) : <<c, "write", n>> \in ImportCalls \X {"write"} \X (0..(Chunks - 1))
  OBVIOUS
<1> QED
  BY <1>1, <1>2 DEF RequestKeys, Transferring!Calls

\* The next chunk of an archive continues its first chunks.
LEMMA GotGrows ==
  ASSUME NEW sel \in Contents, NEW got \in Seq(Contents \X Nat),
         got = [i \in 1..Len(got) |-> <<sel, i - 1>>]
  PROVE  LET more == got \o << <<sel, Len(got)>> >>
         IN /\ more \in Seq(Contents \X Nat) /\ Len(more) = Len(got) + 1
            /\ more = [i \in 1..Len(more) |-> <<sel, i - 1>>]
<1> DEFINE S == Contents \X Nat
           last == <<sel, Len(got)>>
           more == got \o <<last>>
           n == Len(got)
<1>1. n \in Nat /\ last \in S
  BY LenProperties
<1>2. <<last>> \in Seq(S) /\ Len(<<last>>) = 1 /\ <<last>>[1] = last
  BY <1>1
<1>3. /\ more \in Seq(S) /\ Len(more) = n + 1
      /\ \A i \in 1..n + 1 : more[i] = IF i <= n THEN got[i] ELSE <<last>>[i - n]
  BY <1>2, ConcatProperties
<1>4. \A i \in 1..n + 1 : more[i] = <<sel, i - 1>>
  <2>1. SUFFICES ASSUME NEW i \in 1..n + 1 PROVE more[i] = <<sel, i - 1>>
    OBVIOUS
  <2>2. CASE i <= n
    BY <1>1, <1>3, <2>2
  <2>3. CASE i = n + 1
    <3>1. more[i] = <<last>>[1]
      BY <1>1, <1>3, <2>3
    <3> QED
      BY <1>1, <1>2, <2>3, <3>1
  <2> QED
    BY <1>1, <2>2, <2>3
<1>5. more \in [1..n + 1 -> S]
  BY <1>3, LenProperties
<1> QED
  BY <1>1, <1>3, <1>4, <1>5

\* What happens to calls only moves them on: what was sent stays sent.
Forward(old, new) ==
  \A c \in Transferring!Calls : old[c] \in StartedCall =>
    /\ new[c] \in StartedCall /\ new[c].cap = old[c].cap
    /\ Position(Awaited(old[c], c)) <= Position(Awaited(new[c], c))

LEMMA CallShape ==
  ASSUME TransferBounds, NEW c \in Transferring!Calls, NEW x, NEW done, CallOK(c, x, done)
  PROVE  /\ Awaited(x, c) \in RequestKeys /\ Position(Awaited(x, c)) \in Nat
         /\ Awaited(x, c)[1] = c /\ Awaited(x, c)[2] = x.act /\ Awaited(x, c)[3] = x.seq
         /\ x.pc = "idle" => x \in IdleCall
         /\ x.pc # "idle" => x \in StartedCall
         /\ x.pc \in {"idle", "await", "answered", "done", "failed"}
<1>1. CASE x \in IdleCall
  <2>1. x.act = "start" /\ x.seq = 0 /\ x.pc = "idle"
    BY <1>1 DEF IdleCall
  <2>2. <<c, "start", 0>> \in RequestKeys
    BY KeysOfExports, KeysOfImports DEF Transferring!Calls
  <2> QED
    BY <1>1, <2>1, <2>2, KeysShape DEF Awaited
<1>2. CASE x \in StartedCall /\ StartedOK(c, x, done)
  <2>1. Awaited(x, c) \in RequestKeys /\ x.pc \in {"await", "answered", "done", "failed"}
    BY <1>2 DEF StartedOK, StartedCall
  <2>2. Awaited(x, c)[1] = c /\ Awaited(x, c)[2] = x.act /\ Awaited(x, c)[3] = x.seq
    BY DEF Awaited
  <2> QED
    BY <1>2, <2>1, <2>2, KeysShape
<1> QED
  BY <1>1, <1>2 DEF CallOK

LEMMA ForwardKeeps ==
  ASSUME TransferBounds, TransfersInv, NEW calls, Forward(call, calls), NEW done,
         \A c \in Transferring!Calls : CallOK(c, calls[c], done)
  PROVE  /\ \A k : Sent(k, call) => Sent(k, calls)
         /\ WireOK(wire, calls, clock, boot) /\ RunsOK(runs, wire, replay, calls, clock, boot)
         /\ TableOK(transfers, calls)
<1>1. ASSUME NEW k, Sent(k, call) PROVE Sent(k, calls)
  <2>1. /\ k \in RequestKeys /\ k[1] \in Transferring!Calls /\ call[k[1]] \in StartedCall
        /\ Position(k) \in Nat /\ Position(k) <= Position(Awaited(call[k[1]], k[1]))
    BY <1>1, KeysShape DEF Sent
  <2>2. Position(Awaited(call[k[1]], k[1])) \in Nat /\ Position(Awaited(calls[k[1]], k[1])) \in Nat
    BY <2>1, CallShape DEF TransfersInv
  <2> QED
    BY <2>1, <2>2 DEF Sent, Forward
<1>2. WireOK(wire, calls, clock, boot)
  BY <1>1 DEF TransfersInv, WireOK
<1>3. RunsOK(runs, wire, replay, calls, clock, boot)
  BY <1>1 DEF TransfersInv, RunsOK
<1>4. TableOK(transfers, calls)
  BY DEF TransfersInv, TableOK, Forward
<1> QED
  BY <1>1, <1>2, <1>3, <1>4

LEMMA AppliedGrows ==
  ASSUME NEW c, NEW x, NEW done, CallOK(c, x, applied), Transferring!Range(applied) \subseteq Transferring!Range(done)
  PROVE  CallOK(c, x, done)
BY DEF CallOK, StartedOK

\* What an answer to the awaited request may carry: the chunk asked for, the last one
\* of an export at its end, and of an import only once it is applied.
AnswerOK(c, rk, ok, chunk, last, done) ==
  ok => /\ c \in ExportCalls => \/ rk[2] = "start" /\ chunk = <<>> /\ ~last
                                \/ /\ rk[2] = "read" /\ chunk = << <<call[c].cap.selection, rk[3]>> >>
                                   /\ last <=> rk[3] + 1 = Chunks
        /\ c \in ImportCalls => /\ chunk = <<>>
                                /\ IF last THEN c \in Transferring!Range(done) ELSE rk[2] # "finish"

AnswerFits(c, rk, original, ok, chunk, last, done) ==
  /\ c \in Transferring!Calls /\ call[c] \in StartedCall
  /\ ok \in BOOLEAN /\ last \in BOOLEAN
  /\ Transferring!Range(applied) \subseteq Transferring!Range(done)
  /\ AnswerOK(c, rk, ok, chunk, last, done)

LEMMA AnswerKeeps ==
  ASSUME TransferBounds, TransfersInv, NEW c, NEW rk, NEW original, NEW ok, NEW chunk, NEW last, NEW done,
         AnswerFits(c, rk, original, ok, chunk, last, done)
  PROVE  LET new == Transferring!Answered(c, rk, original, ok, chunk, last)
         IN /\ DOMAIN new = Transferring!Calls /\ \A d \in Transferring!Calls : CallOK(d, new[d], done)
            /\ Forward(call, new)
<1> USE DEF AnswerFits
<1> DEFINE new == Transferring!Answered(c, rk, original, ok, chunk, last)
           x == call[c]
           y == [x EXCEPT !.pc = IF ~ok THEN "failed" ELSE IF last THEN "done" ELSE "answered",
                          !.got = IF ok THEN @ \o chunk ELSE @]
<1>1. DOMAIN call = Transferring!Calls /\ \A d \in Transferring!Calls : CallOK(d, call[d], applied) /\ CallOK(d, call[d], done)
  BY AppliedGrows DEF TransfersInv
<1>2. \A d \in Transferring!Calls : call[d] \in StartedCall => Position(Awaited(call[d], d)) \in Nat
  BY <1>1, CallShape
<1>3. CASE new = call
  BY <1>1, <1>2, <1>3 DEF Forward
<1>4. CASE new # call
  <2>1. /\ x.pc = "await" /\ rk = Awaited(x, c)
        /\ new = [call EXCEPT
                   ![c].pc = IF ~ok THEN "failed" ELSE IF last THEN "done" ELSE "answered",
                   ![c].got = IF ok THEN @ \o chunk ELSE @]
    BY <1>4 DEF Transferring!Answered, Awaited
  <2>2. /\ DOMAIN new = Transferring!Calls /\ new[c] = y /\ \A d \in Transferring!Calls : d # c => new[d] = call[d]
    BY <1>1, <2>1
  <2>3. /\ y.pc = IF ~ok THEN "failed" ELSE IF last THEN "done" ELSE "answered"
        /\ y.act = x.act /\ y.seq = x.seq /\ y.cap = x.cap
        /\ y.got = IF ok THEN x.got \o chunk ELSE x.got
    BY DEF StartedCall
  <2>12. y.got \in Seq(Contents \X Nat) => y \in StartedCall
    BY DEF StartedCall
  <2> HIDE DEF y, new
  <2>4. StartedOK(c, x, applied) /\ x.got \in Seq(Contents \X Nat) /\ x.cap.selection \in Contents
    BY <1>1, <2>1 DEF CallOK, StartedCall, IdleCall
  <2>5. Len(x.got) \in Nat /\ x.got \o <<>> = x.got
    BY <2>4, LenProperties, ConcatEmptySeq
  <2>6. /\ rk[2] = x.act /\ rk[3] = x.seq /\ Awaited(y, c) = Awaited(x, c) /\ x.seq \in Nat
        /\ Awaited(y, c)[2] = x.act /\ Awaited(y, c)[3] = x.seq
    BY <2>1, <2>3 DEF Awaited, StartedCall
  <2>7. x.act = "read" /\ c \in ExportCalls => Len(x.got) = x.seq
    BY <2>1, <2>4 DEF StartedOK
  <2>8. /\ y \in StartedCall
        /\ c \in ExportCalls => /\ y.got = [i \in 1..Len(y.got) |-> <<y.cap.selection, i - 1>>]
                                /\ y.pc = "answered" => Len(y.got) = Position(Awaited(y, c))
                                /\ y.pc = "done" => Len(y.got) = Chunks
    <3>1. CASE ~ok \/ chunk = <<>>
      <4>1. y.got = x.got
        BY <2>3, <2>5, <3>1
      <4>2. y \in StartedCall
        BY <2>4, <2>12, <4>1
      <4>3. c \in ExportCalls => y.got = [i \in 1..Len(y.got) |-> <<y.cap.selection, i - 1>>]
        BY <2>3, <2>4, <4>1 DEF StartedOK
      <4>4. c \in ExportCalls /\ ok => rk[2] = "start" /\ ~last
        <5>1. <<>> # << <<x.cap.selection, rk[3]>> >>
          OBVIOUS
        <5> QED
          BY <3>1, <5>1 DEF AnswerOK
      <4>5. c \in ExportCalls /\ y.pc = "answered" => Len(y.got) = Position(Awaited(y, c))
        BY <2>1, <2>3, <2>4, <2>6, <4>1, <4>4 DEF StartedOK, Position
      <4> QED
        BY <2>3, <4>2, <4>3, <4>4, <4>5
    <3>2. CASE ok /\ chunk # <<>>
      <4>1. /\ c \in ExportCalls /\ x.act = "read" /\ chunk = << <<x.cap.selection, Len(x.got)>> >>
            /\ last <=> Len(x.got) + 1 = Chunks
        BY <2>6, <2>7, <3>2 DEF AnswerOK, Transferring!Calls
      <4>2. x.got = [i \in 1..Len(x.got) |-> <<x.cap.selection, i - 1>>]
        BY <2>4, <4>1 DEF StartedOK
      <4>3. y.got = x.got \o << <<x.cap.selection, Len(x.got)>> >>
        BY <2>3, <3>2, <4>1
      <4>4. /\ y.got \in Seq(Contents \X Nat) /\ Len(y.got) = Len(x.got) + 1
            /\ y.got = [i \in 1..Len(y.got) |-> <<x.cap.selection, i - 1>>]
        <5> DEFINE sel == x.cap.selection
                   got == x.got
        <5>1. /\ sel \in Contents /\ got \in Seq(Contents \X Nat)
              /\ got = [i \in 1..Len(got) |-> <<sel, i - 1>>]
              /\ y.got = got \o << <<sel, Len(got)>> >>
          BY <2>4, <4>2, <4>3
        <5> HIDE DEF sel, got
        <5>2. /\ y.got \in Seq(Contents \X Nat) /\ Len(y.got) = Len(got) + 1
              /\ y.got = [i \in 1..Len(y.got) |-> <<sel, i - 1>>]
          BY <5>1, GotGrows
        <5> QED
          BY <5>2 DEF sel, got
      <4>5. y \in StartedCall
        BY <2>12, <4>4
      <4>6. Position(Awaited(y, c)) = Len(x.got) + 1
        BY <2>1, <2>6, <2>7, <4>1 DEF Position
      <4> QED
        BY <2>3, <2>5, <3>2, <4>1, <4>4, <4>5, <4>6
    <3> QED
      BY <3>1, <3>2
  <2>9. StartedOK(c, y, done)
    <3>1. y.pc # "await"
      BY <2>3
    <3>2. c \in ImportCalls => /\ y.pc = "answered" => y.act # "finish"
                               /\ y.pc = "done" => c \in Transferring!Range(done)
      BY <2>3, <2>6 DEF AnswerOK
    <3> QED
      BY <2>4, <2>6, <2>8, <3>1, <3>2 DEF StartedOK
  <2>10. \A d \in Transferring!Calls : CallOK(d, new[d], done)
    BY <1>1, <2>2, <2>8, <2>9 DEF CallOK
  <2>11. Forward(call, new)
    BY <1>2, <2>2, <2>3, <2>6, <2>8 DEF Forward
  <2> QED
    BY <2>2, <2>10, <2>11 DEF new
<1> QED
  BY <1>3, <1>4

\* A call sends its next request: no copy of it travels and none has run.
LEMMA SendKeeps ==
  ASSUME TransferBounds, TransfersInv, NEW c \in Transferring!Calls, NEW y \in StartedCall,
         call' = [call EXCEPT ![c] = y], Transferring!Sends(c, y.act, y.seq), StartedOK(c, y, applied),
         call[c] \in StartedCall =>
           /\ y.cap = call[c].cap
           /\ Position(Awaited(call[c], c)) < Position(Awaited(y, c))
  PROVE  TransfersInv'
<1> DEFINE r == Transferring!request(c, y.act, y.seq)
           k == Awaited(y, c)
<1>1. /\ wire' = wire \cup {r}
      /\ UNCHANGED <<clock, boot, clientBoot, replay, spent, transfers, jobs,
                     content, runs, applied, events>>
  BY DEF Transferring!Sends
<1>2. clock \in Nat /\ clientBoot \in Nat /\ clientBoot <= boot /\ boot \in Nat
  <2>1. clock \in 0..MaxClock /\ MaxClock \in Nat
    BY DEF TransfersInv, TimesOK, TransferBounds
  <2> QED
    BY <2>1 DEF TransfersInv, TimesOK
<1>3. k \in RequestKeys /\ k[1] = c /\ Position(k) \in Nat
  BY KeysShape DEF StartedOK, Awaited
<1>4. r \in Request /\ r.key = k /\ r.ts = clock /\ r.boot = clientBoot
  BY <1>2, <1>3 DEF Transferring!request, Request, Awaited
<1>5. /\ DOMAIN call' = Transferring!Calls /\ call'[c] = y
      /\ \A d \in Transferring!Calls : d # c => call'[d] = call[d]
  BY DEF TransfersInv
<1>6. \A d \in Transferring!Calls : CallOK(d, call'[d], applied)
  BY <1>5 DEF TransfersInv, CallOK
<1>7. Forward(call, call')
  <2>1. \A d \in Transferring!Calls : call[d] \in StartedCall => Position(Awaited(call[d], d)) \in Nat
    BY CallShape DEF TransfersInv
  <2> QED
    BY <1>3, <1>5, <2>1 DEF Forward
<1>8. /\ WireOK(wire, call', clock, boot) /\ RunsOK(runs, wire, replay, call', clock, boot)
      /\ TableOK(transfers, call')
  BY <1>6, <1>7, ForwardKeeps
<1>9. \A l : Sent(l, call) => l # k
  <2>1. SUFFICES ASSUME NEW l, Sent(l, call), l = k PROVE FALSE
    OBVIOUS
  <2>2. call[c] \in StartedCall /\ Position(k) <= Position(Awaited(call[c], c))
    BY <1>3, <2>1 DEF Sent
  <2>3. Position(Awaited(call[c], c)) \in Nat /\ Position(Awaited(call[c], c)) < Position(k)
    BY <2>2, CallShape DEF TransfersInv
  <2> QED
    BY <1>3, <2>2, <2>3
<1> HIDE DEF r, k
<1>10. Sent(k, call')
  BY <1>3, <1>5 DEF Sent, k
<1>11. WireOK(wire', call', clock, boot)
  <2>1. \A s \in wire : s.key # k
    BY <1>9 DEF TransfersInv, WireOK
  <2>2. \A s \in wire' : s \in wire \/ s = r
    BY <1>1
  <2>3. \A s \in wire' : s \in Request /\ Sent(s.key, call') /\ s.ts <= clock /\ s.boot <= boot
    <3>1. SUFFICES ASSUME NEW s \in wire'
                   PROVE  s \in Request /\ Sent(s.key, call') /\ s.ts <= clock /\ s.boot <= boot
      OBVIOUS
    <3>2. CASE s \in wire
      BY <1>8, <3>2 DEF WireOK
    <3>3. CASE s = r
      BY <1>2, <1>4, <1>10, <3>3
    <3> QED
      BY <2>2, <3>2, <3>3
  <2>4. \A s, u \in wire' : s.key = u.key => s.ts = u.ts /\ s.boot = u.boot
    BY <1>4, <1>8, <2>1, <2>2 DEF WireOK
  <2> QED
    BY <2>3, <2>4 DEF WireOK
<1>12. RunsOK(runs, wire', replay, call', clock, boot)
  <2>1. k \notin DOMAIN runs
    BY <1>9 DEF TransfersInv, RunsOK
  <2> QED
    BY <1>1, <1>4, <1>8, <2>1 DEF RunsOK
<1> QED
  BY <1>1, <1>5, <1>6, <1>8, <1>11, <1>12 DEF TransfersInv, TimesOK

LEMMA TransfersStart ==
  ASSUME TransferBounds, TransfersInv, NEW c \in Transferring!Calls, Transferring!StartCall(c)
  PROVE  TransfersInv'
<1> DEFINE y == [pc |-> "await", act |-> "start", seq |-> 0, got |-> <<>>, cap |-> Transferring!issueBackup]
<1>1. call[c].pc = "idle" /\ call' = [call EXCEPT ![c] = y] /\ Transferring!Sends(c, y.act, y.seq)
  BY DEF Transferring!StartCall
<1>2. call[c] \notin StartedCall
  BY <1>1 DEF StartedCall
<1>3. clock + CapabilityTTL \in Int /\ clientBoot \in Nat /\ content \in Contents
  BY DEF TransfersInv, TimesOK, TransferBounds
<1>4. <<>> \in Seq(Contents \X Nat) /\ Len(<<>>) = 0
  BY EmptySeq
<1>5. y \in StartedCall
  BY <1>3, <1>4 DEF StartedCall, Transferring!issueBackup
<1>6. StartedOK(c, y, applied)
  <2>1. Awaited(y, c) \in RequestKeys
    BY KeysOfExports, KeysOfImports DEF Awaited, Transferring!Calls
  <2>2. <<>> = [i \in 1..Len(<<>>) |-> <<y.cap.selection, i - 1>>]
    BY <1>4
  <2> QED
    BY <1>4, <2>1, <2>2 DEF StartedOK
<1> HIDE DEF y
<1> QED
  BY <1>1, <1>2, <1>5, <1>6, SendKeeps

\* The next request of a call comes after the one that was answered.
LEMMA FollowingOK ==
  ASSUME TransferBounds, TransfersInv, NEW c \in Transferring!Calls, call[c].pc = "answered"
  PROVE  LET next == <<c, Transferring!Following(c)[1], Transferring!Following(c)[2]>>
         IN /\ next \in RequestKeys /\ Position(next) > Position(Awaited(call[c], c))
            /\ Transferring!Following(c)[1] # "start"
            /\ c \in ExportCalls => Transferring!Following(c)[2] = Len(call[c].got)
<1> DEFINE x == call[c]
           next == <<c, Transferring!Following(c)[1], Transferring!Following(c)[2]>>
<1>1. /\ x \in StartedCall /\ StartedOK(c, x, applied)
      /\ Awaited(x, c) \in RequestKeys /\ Position(Awaited(x, c)) \in Nat
      /\ Awaited(x, c)[1] = c /\ Awaited(x, c)[2] = x.act /\ Awaited(x, c)[3] = x.seq
  BY CallShape DEF TransfersInv, CallOK, IdleCall
<1>2. CASE c \in ExportCalls
  <2>1. Transferring!Following(c) = <<"read", Len(x.got)>>
    BY <1>2 DEF Transferring!Following, TransferBounds
  <2>2. Len(x.got) = Position(Awaited(x, c))
    BY <1>1, <1>2 DEF StartedOK
  <2>3. next = <<c, "read", Len(x.got)>> /\ next \in RequestKeys
    <3>1. Transferring!Following(c)[1] = "read" /\ Transferring!Following(c)[2] = Len(x.got)
      BY <2>1
    <3> QED
      BY <1>1, <1>2, <2>2, <3>1, KeysOfExports
  <2>4. Position(next) = Len(x.got) + 1
    BY <2>3 DEF Position
  <2> QED
    BY <1>1, <2>1, <2>2, <2>3, <2>4
<1>3. CASE c \in ImportCalls /\ x.act = "start"
  <2>1. Transferring!Following(c) = <<"write", 0>>
    BY <1>3 DEF Transferring!Following, TransferBounds
  <2>2. next = <<c, "write", 0>> /\ next \in RequestKeys
    <3>1. Transferring!Following(c)[1] = "write" /\ Transferring!Following(c)[2] = 0
      BY <2>1
    <3> QED
      <4>1. 0 \in Nat /\ 0 < Chunks
        BY DEF TransferBounds
      <4>2. <<c, "write", 0>> \in RequestKeys
        BY <1>3, <4>1, KeysOfImports
      <4> QED
        BY <3>1, <4>2
  <2>3. Position(next) = 1 /\ Position(Awaited(x, c)) = 0
    BY <1>1, <1>3, <2>2 DEF Position
  <2> QED
    BY <1>3, <2>1, <2>2, <2>3 DEF TransferBounds
<1>4. CASE c \in ImportCalls /\ x.act # "start"
  <2>1. c \notin ExportCalls
    BY <1>4 DEF TransferBounds
  <2>2. x.seq \in Nat /\ x.seq < Chunks /\ Chunks \in Nat
    <3>1. x.act = "write"
      BY <1>1, <1>4, <2>1, KeysShape DEF StartedOK
    <3>2. x.seq \in 0..(Chunks - 1) /\ Chunks \in Nat
      BY <1>1, <3>1, KeysShape DEF TransferBounds
    <3> QED
      BY <3>2
  <2>3. Transferring!Following(c) = IF x.seq + 1 < Chunks THEN <<"write", x.seq + 1>> ELSE <<"finish", Chunks>>
    BY <1>4, <2>1 DEF Transferring!Following
  <2>4. Position(Awaited(x, c)) = x.seq + 1
    BY <1>1, <1>4 DEF Position
  <2>5. CASE x.seq + 1 < Chunks
    <3>1. next = <<c, "write", x.seq + 1>> /\ next \in RequestKeys
      <4>1. Transferring!Following(c)[1] = "write" /\ Transferring!Following(c)[2] = x.seq + 1
        BY <2>3, <2>5
      <4> QED
        <5>1. x.seq + 1 \in Nat
          BY <2>2
        <5>2. <<c, "write", x.seq + 1>> \in RequestKeys
          BY <1>4, <2>5, <5>1, KeysOfImports
        <5> QED
          BY <4>1, <5>2
    <3>2. Position(next) = x.seq + 2
      BY <2>2, <3>1 DEF Position
    <3> QED
      BY <2>1, <2>2, <2>3, <2>4, <2>5, <3>1, <3>2
  <2>6. CASE ~(x.seq + 1 < Chunks)
    <3>1. next = <<c, "finish", Chunks>> /\ next \in RequestKeys
      <4>1. Transferring!Following(c)[1] = "finish" /\ Transferring!Following(c)[2] = Chunks
        BY <2>3, <2>6
      <4> QED
        BY <1>4, <4>1, KeysOfImports
    <3>2. Position(next) = Chunks + 1
      BY <3>1 DEF Position
    <3> QED
      BY <2>1, <2>2, <2>3, <2>4, <2>6, <3>1, <3>2
  <2> QED
    BY <2>5, <2>6
<1> QED
  BY <1>2, <1>3, <1>4 DEF Transferring!Calls

LEMMA TransfersContinue ==
  ASSUME TransferBounds, TransfersInv, NEW c \in Transferring!Calls, Transferring!ContinueCall(c)
  PROVE  TransfersInv'
<1> DEFINE x == call[c]
           act == Transferring!Following(c)[1]
           seq == Transferring!Following(c)[2]
           y == [x EXCEPT !.pc = "await", !.act = act, !.seq = seq]
<1>1. x.pc = "answered" /\ call' = [call EXCEPT ![c] = y] /\ Transferring!Sends(c, act, seq)
  BY DEF Transferring!ContinueCall
<1>2. x \in StartedCall /\ StartedOK(c, x, applied)
  BY <1>1 DEF TransfersInv, CallOK, IdleCall
<1>3. /\ <<c, act, seq>> \in RequestKeys /\ Position(<<c, act, seq>>) > Position(Awaited(x, c))
      /\ act # "start" /\ (c \in ExportCalls => seq = Len(x.got))
  BY <1>1, FollowingOK
<1>4. act \in {"start", "read", "write", "finish"} /\ seq \in Nat
  BY <1>3, KeysShape
<1> HIDE DEF act, seq
<1>5. /\ y \in StartedCall /\ y.pc = "await" /\ y.act = act /\ y.seq = seq /\ y.got = x.got
      /\ y.cap = x.cap
  BY <1>2, <1>4 DEF StartedCall
<1> HIDE DEF y
<1>6. Awaited(y, c) = <<c, act, seq>>
  BY <1>5 DEF Awaited
<1>7. StartedOK(c, y, applied)
  BY <1>2, <1>3, <1>5, <1>6 DEF StartedOK
<1>8. Position(Awaited(x, c)) < Position(Awaited(y, c))
  <2>1. Position(Awaited(x, c)) \in Nat /\ Position(<<c, act, seq>>) \in Nat
    BY <1>3, CallShape, KeysShape DEF TransfersInv
  <2> QED
    BY <1>3, <1>6, <2>1
<1> QED
  BY <1>1, <1>5, <1>7, <1>8, SendKeeps

\* A call that fails is as far as it was.
LEMMA FailKeeps ==
  ASSUME TransferBounds, TransfersInv, NEW calls, DOMAIN calls = Transferring!Calls,
         \A c \in Transferring!Calls : \/ calls[c] = call[c]
                                       \/ call[c].pc = "await" /\ calls[c] = [call[c] EXCEPT !.pc = "failed"]
  PROVE  (\A c \in Transferring!Calls : CallOK(c, calls[c], applied)) /\ Forward(call, calls)
<1>1. ASSUME NEW c \in Transferring!Calls
      PROVE  /\ CallOK(c, calls[c], applied)
             /\ call[c] \in StartedCall =>
                  /\ calls[c] \in StartedCall /\ calls[c].cap = call[c].cap
                  /\ Position(Awaited(call[c], c)) <= Position(Awaited(calls[c], c))
  <2> DEFINE x == call[c]
             y == [x EXCEPT !.pc = "failed"]
  <2>1. CallOK(c, x, applied) /\ Position(Awaited(x, c)) \in Nat
    BY CallShape DEF TransfersInv
  <2>2. CASE calls[c] = x
    BY <2>1, <2>2
  <2>3. CASE x.pc = "await" /\ calls[c] = y
    <3>1. x \in StartedCall /\ StartedOK(c, x, applied)
      BY <2>1, <2>3 DEF CallOK, IdleCall
    <3>2. /\ y \in StartedCall /\ y.pc = "failed" /\ y.act = x.act /\ y.seq = x.seq
          /\ y.got = x.got /\ y.cap = x.cap
      BY <3>1 DEF StartedCall
    <3> HIDE DEF y
    <3>3. Awaited(y, c) = Awaited(x, c)
      BY <3>2 DEF Awaited
    <3>4. StartedOK(c, y, applied)
      BY <3>1, <3>2, <3>3 DEF StartedOK
    <3> QED
      BY <2>1, <2>3, <3>2, <3>3, <3>4 DEF CallOK
  <2> QED
    BY <1>1, <2>2, <2>3
<1> QED
  BY <1>1 DEF Forward

LEMMA TransfersTimeOut ==
  ASSUME TransferBounds, TransfersInv, NEW c \in Transferring!Calls, Transferring!TimeOut(c)
  PROVE  TransfersInv'
<1>1. /\ DOMAIN call' = Transferring!Calls
      /\ \A d \in Transferring!Calls : \/ call'[d] = call[d]
                                       \/ call[d].pc = "await" /\ call'[d] = [call[d] EXCEPT !.pc = "failed"]
  BY DEF Transferring!TimeOut, TransfersInv
<1>2. (\A d \in Transferring!Calls : CallOK(d, call'[d], applied)) /\ Forward(call, call')
  BY <1>1, FailKeeps
<1>3. /\ UNCHANGED <<clock, boot, clientBoot, wire, replay, spent, transfers, jobs, content,
                     runs, applied>>
      /\ events < MaxEvents /\ events' = events + 1
  BY DEF Transferring!TimeOut, Transferring!Happens
<1>4. TimesOK'
  <2>1. events' \in 0..MaxEvents /\ boot <= events'
    BY <1>3 DEF TransfersInv, TimesOK, TransferBounds
  <2> QED
    BY <1>3, <2>1 DEF TransfersInv, TimesOK, TransferBounds
<1>5. /\ WireOK(wire, call', clock, boot) /\ RunsOK(runs, wire, replay, call', clock, boot)
      /\ TableOK(transfers, call')
  BY <1>2, ForwardKeeps
<1> QED
  BY <1>1, <1>2, <1>3, <1>4, <1>5 DEF TransfersInv

LEMMA TransfersReadiness ==
  ASSUME TransferBounds, TransfersInv, Transferring!Readiness
  PROVE  TransfersInv'
<1>1. /\ clientBoot' = boot
      /\ UNCHANGED <<clock, boot, call, wire, replay, spent, transfers, jobs,
                     content, runs, applied, events>>
  BY DEF Transferring!Readiness
<1>2. TimesOK'
  BY <1>1 DEF TransfersInv, TimesOK
<1> QED
  BY <1>1, <1>2 DEF TransfersInv

LEMMA TransfersDuplicate ==
  ASSUME TransferBounds, TransfersInv, NEW r \in wire, Transferring!Duplicate(r)
  PROVE  TransfersInv'
<1> DEFINE copy == [r EXCEPT !.original = FALSE]
<1>1. /\ wire' = wire \cup {copy} /\ events < MaxEvents /\ events' = events + 1
      /\ UNCHANGED <<clock, boot, clientBoot, call, replay, spent, transfers, jobs,
                     content, runs, applied>>
  BY DEF Transferring!Duplicate, Transferring!Happens
<1>2. r \in Request
  BY DEF TransfersInv, WireOK
<1>3. copy \in Request /\ copy.key = r.key /\ copy.ts = r.ts /\ copy.boot = r.boot
  BY <1>2 DEF Request
<1> HIDE DEF copy
<1>4. \A s \in wire' : s \in wire \/ s = copy
  BY <1>1
<1>5. WireOK(wire', call, clock, boot)
  BY <1>3, <1>4 DEF TransfersInv, WireOK
<1>6. RunsOK(runs, wire', replay, call, clock, boot)
  <2>1. \A s \in wire' : s.key \in DOMAIN runs => Refusable(s, replay, clock, boot)
    BY <1>3, <1>4 DEF TransfersInv, RunsOK, Refusable
  <2> QED
    BY <2>1 DEF TransfersInv, RunsOK
<1>7. TimesOK'
  <2>1. events' \in 0..MaxEvents /\ boot <= events'
    BY <1>1 DEF TransfersInv, TimesOK, TransferBounds
  <2> QED
    BY <1>1, <2>1 DEF TransfersInv, TimesOK, TransferBounds
<1> QED
  BY <1>1, <1>5, <1>6, <1>7 DEF TransfersInv

LEMMA TransfersControlChange ==
  ASSUME TransferBounds, TransfersInv, Transferring!ControlChange
  PROVE  TransfersInv'
<1>1. /\ events < MaxEvents /\ events' = events + 1 /\ content' = <<"control", events'>>
      /\ UNCHANGED <<clock, boot, clientBoot, call, wire, replay, spent, transfers,
                     jobs, runs, applied>>
  BY DEF Transferring!ControlChange, Transferring!Happens
<1>2. events' \in 0..MaxEvents /\ events' \in Nat /\ boot <= events'
  BY <1>1 DEF TransfersInv, TimesOK, TransferBounds
<1>3. content' \in Contents
  BY <1>1, <1>2 DEF Contents
<1>4. TimesOK'
  BY <1>1, <1>2, <1>3 DEF TransfersInv, TimesOK, TransferBounds
<1> QED
  BY <1>1, <1>4 DEF TransfersInv

LEMMA TransfersTick ==
  ASSUME TransferBounds, TransfersInv, Transferring!Tick
  PROVE  TransfersInv'
<1>1. /\ clock < MaxClock /\ clock' = clock + 1
      /\ UNCHANGED <<boot, clientBoot, call, wire, replay, spent, transfers, jobs,
                     content, runs, applied, events>>
  BY DEF Transferring!Tick
<1>2. clock \in Nat /\ clock' \in 0..MaxClock /\ Skew \in Nat
  BY <1>1 DEF TransfersInv, TimesOK, TransferBounds
<1>3. \A r \in wire : r \in Request /\ r.ts \in Nat
  BY DEF TransfersInv, WireOK, Request
<1>4. TimesOK'
  BY <1>1, <1>2 DEF TransfersInv, TimesOK
<1>5. WireOK(wire, call, clock', boot)
  <2>1. \A r \in wire : r.ts <= clock'
    BY <1>1, <1>2, <1>3 DEF TransfersInv, WireOK
  <2> QED
    BY <2>1 DEF TransfersInv, WireOK
<1>6. RunsOK(runs, wire, replay, call, clock', boot)
  <2>1. \A r \in wire : clock - r.ts > Skew => clock' - r.ts > Skew
    BY <1>1, <1>2, <1>3
  <2> QED
    BY <2>1 DEF TransfersInv, RunsOK, Refusable
<1> QED
  BY <1>1, <1>4, <1>5, <1>6 DEF TransfersInv

LEMMA TransfersRestart ==
  ASSUME TransferBounds, TransfersInv, Transferring!Restart
  PROVE  TransfersInv'
<1>1. /\ events < MaxEvents /\ events' = events + 1 /\ boot' = boot + 1
      /\ replay' = {} /\ jobs' = {} /\ DOMAIN transfers' = {}
      /\ UNCHANGED <<clock, clientBoot, wire, content, runs, applied>>
  BY DEF Transferring!Restart, Transferring!Happens
<1>2. /\ DOMAIN call' = Transferring!Calls
      /\ \A c \in Transferring!Calls : \/ call'[c] = call[c]
                                       \/ call[c].pc = "await" /\ call'[c] = [call[c] EXCEPT !.pc = "failed"]
  BY DEF Transferring!Restart
<1>3. (\A c \in Transferring!Calls : CallOK(c, call'[c], applied)) /\ Forward(call, call')
  BY <1>2, FailKeeps
<1>4. /\ WireOK(wire, call', clock, boot) /\ RunsOK(runs, wire, replay, call', clock, boot)
  BY <1>3, ForwardKeeps
<1>5. boot \in Nat /\ \A r \in wire : r.boot \in Nat /\ r.boot <= boot
  BY DEF TransfersInv, TimesOK, WireOK, Request
<1>6. \A r \in wire : r.boot <= boot' /\ r.boot # boot'
  BY <1>1, <1>5
<1>7. WireOK(wire', call', clock', boot')
  BY <1>1, <1>4, <1>6 DEF WireOK
<1>8. RunsOK(runs', wire', replay', call', clock', boot')
  BY <1>1, <1>4, <1>6 DEF RunsOK, Refusable
<1>9. TimesOK'
  <2>1. events' \in 0..MaxEvents /\ boot' <= events' + 1 /\ boot' \in Nat /\ 1 <= boot'
    BY <1>1 DEF TransfersInv, TimesOK, TransferBounds
  <2>2. clientBoot \in Nat /\ clientBoot <= boot'
    BY <1>1, <1>5 DEF TransfersInv, TimesOK
  <2> QED
    BY <1>1, <2>1, <2>2 DEF TransfersInv, TimesOK
<1>10. JobsOK(jobs', runs', applied')
  BY <1>1, FS_EmptySet DEF TransfersInv, JobsOK
<1>11. TableOK(transfers', call')
  BY <1>1 DEF TableOK
<1>12. TransferLimitOK(transfers', jobs')
  BY <1>1, FS_EmptySet DEF TransferLimitOK, TransferBounds
<1> QED
  BY <1>1, <1>2, <1>3, <1>7, <1>8, <1>9, <1>10, <1>11, <1>12 DEF TransfersInv

LEMMA PruneShape ==
  ASSUME TransferBounds, TransfersInv
  PROVE  /\ TableOK(Transferring!pruneTransfers, call) /\ DOMAIN Transferring!pruneTransfers \subseteq DOMAIN transfers
         /\ IsFiniteSet(DOMAIN Transferring!pruneTransfers) /\ Cardinality(DOMAIN Transferring!pruneTransfers) \in Nat
         /\ IsFiniteSet(DOMAIN transfers) /\ Cardinality(DOMAIN transfers) \in Nat
         /\ Cardinality(DOMAIN Transferring!pruneTransfers) <= Cardinality(DOMAIN transfers)
         /\ \A d \in DOMAIN Transferring!pruneTransfers : Transferring!pruneTransfers[d] = transfers[d]
<1>1. /\ DOMAIN Transferring!pruneTransfers \subseteq DOMAIN transfers
      /\ \A d \in DOMAIN Transferring!pruneTransfers : Transferring!pruneTransfers[d] = transfers[d]
  BY DEF Transferring!pruneTransfers, Transferring!Restrict
<1>2. DOMAIN transfers \subseteq Transferring!Calls
  BY DEF TransfersInv, TableOK
<1>3. IsFiniteSet(Transferring!Calls)
  BY FS_Union DEF TransferBounds, Transferring!Calls
<1>4. /\ IsFiniteSet(DOMAIN transfers) /\ Cardinality(DOMAIN transfers) \in Nat
      /\ IsFiniteSet(DOMAIN Transferring!pruneTransfers) /\ Cardinality(DOMAIN Transferring!pruneTransfers) \in Nat
      /\ Cardinality(DOMAIN Transferring!pruneTransfers) <= Cardinality(DOMAIN transfers)
  BY <1>1, <1>2, <1>3, FS_Subset, FS_CardinalityType
<1>5. TableOK(Transferring!pruneTransfers, call)
  BY <1>1, <1>2 DEF TransfersInv, TableOK
<1> QED
  BY <1>1, <1>4, <1>5

\* A transfer is entered: the table grows by at most one, and stays right.
LEMMA EntryKeeps ==
  ASSUME TransferBounds, NEW table, NEW calls, TableOK(table, calls), IsFiniteSet(DOMAIN table),
         NEW c \in Transferring!Calls, NEW t,
         c \in ExportCalls => /\ t \in ExportTransfer /\ calls[c] \in StartedCall
                              /\ t.archive = calls[c].cap.selection
  PROVE  /\ TableOK(Transferring!With(table, c, t), calls)
         /\ IsFiniteSet(DOMAIN Transferring!With(table, c, t)) /\ Cardinality(DOMAIN Transferring!With(table, c, t)) \in Nat
         /\ Cardinality(DOMAIN Transferring!With(table, c, t)) <= Cardinality(DOMAIN table) + 1
         /\ c \in DOMAIN table =>
              Cardinality(DOMAIN Transferring!With(table, c, t)) = Cardinality(DOMAIN table)
<1> DEFINE new == Transferring!With(table, c, t)
<1>1. /\ DOMAIN new = DOMAIN table \cup {c} /\ new[c] = t
      /\ \A d \in DOMAIN table : d # c => new[d] = table[d]
  BY DEF Transferring!With
<1> HIDE DEF new
<1>2. TableOK(new, calls)
  BY <1>1 DEF TableOK
<1>3. Cardinality(DOMAIN table) \in Nat
  BY FS_CardinalityType
<1>4. /\ IsFiniteSet(DOMAIN new)
      /\ \/ Cardinality(DOMAIN new) = Cardinality(DOMAIN table)
         \/ Cardinality(DOMAIN new) = Cardinality(DOMAIN table) + 1
  BY <1>1, <1>3, FS_AddElement
<1>5. c \in DOMAIN table => DOMAIN new = DOMAIN table
  BY <1>1
<1> QED
  BY <1>2, <1>3, <1>4, <1>5 DEF new

\* A transfer is forgotten.
LEMMA RemovalKeeps ==
  ASSUME NEW table, NEW calls, TableOK(table, calls), IsFiniteSet(DOMAIN table),
         NEW c, c \in DOMAIN table
  PROVE  /\ TableOK(Transferring!Without(table, c), calls)
         /\ IsFiniteSet(DOMAIN Transferring!Without(table, c)) /\ Cardinality(DOMAIN Transferring!Without(table, c)) \in Nat
         /\ Cardinality(DOMAIN Transferring!Without(table, c)) = Cardinality(DOMAIN table) - 1
<1> DEFINE new == Transferring!Without(table, c)
<1>1. DOMAIN new = DOMAIN table \ {c} /\ \A d \in DOMAIN new : new[d] = table[d]
  BY DEF Transferring!Without, Transferring!Restrict
<1> HIDE DEF new
<1>2. TableOK(new, calls)
  BY <1>1 DEF TableOK
<1>3. /\ Cardinality(DOMAIN table) \in Nat /\ IsFiniteSet(DOMAIN new)
      /\ Cardinality(DOMAIN new) = Cardinality(DOMAIN table) - 1
  BY <1>1, FS_RemoveElement, FS_CardinalityType
<1>4. Cardinality(DOMAIN new) \in Nat
  BY <1>3, FS_CardinalityType
<1> QED
  BY <1>2, <1>3, <1>4 DEF new

\* What a handled request may do.
HandledOK(rk, h) ==
  LET c == rk[1] IN
  /\ h.job = {} \/ h.job = {c}
  /\ h.job # {} => rk[2] = IF c \in ExportCalls THEN "start" ELSE "finish"
  /\ h.ok \in BOOLEAN /\ h.last \in BOOLEAN
  /\ AnswerOK(c, rk, h.ok, h.chunk, h.last, applied)
  /\ TableOK(h.transfers, call)
  /\ Cardinality(DOMAIN h.transfers) \in Nat
  /\ Cardinality(jobs) < MaxActive =>
       IF h.job = {} THEN Cardinality(DOMAIN h.transfers) + Cardinality(jobs)
                            <= MaxTransfers + MaxActive - 1
       ELSE Cardinality(DOMAIN h.transfers) + Cardinality(jobs) + 1
                            <= MaxTransfers + MaxActive - 1

LEMMA LimitBefore ==
  ASSUME TransferBounds, TransfersInv
  PROVE  /\ MaxTransfers \in Nat /\ MaxActive \in Nat /\ Cardinality(jobs) \in Nat
         /\ Cardinality(DOMAIN Transferring!pruneTransfers) + Cardinality(jobs) <= MaxTransfers + MaxActive - 1
<1>1. MaxTransfers \in Nat /\ MaxActive \in Nat /\ Cardinality(jobs) \in Nat
  BY FS_CardinalityType DEF TransfersInv, JobsOK, TransferBounds
<1>2. Cardinality(DOMAIN transfers) + Cardinality(jobs) <= MaxTransfers + MaxActive - 1
  BY DEF TransfersInv, TransferLimitOK
<1>3. /\ Cardinality(DOMAIN Transferring!pruneTransfers) \in Nat /\ Cardinality(DOMAIN transfers) \in Nat
      /\ Cardinality(DOMAIN Transferring!pruneTransfers) <= Cardinality(DOMAIN transfers)
  BY PruneShape
<1> QED
  BY <1>1, <1>2, <1>3

\* A refusal only forgets what expired; the start of an export only spends its
\* capability besides.
LEMMA RefusedOK ==
  ASSUME TransferBounds, TransfersInv, NEW rk, NEW h,
         h.transfers = Transferring!pruneTransfers, h.job = {}, h.ok = FALSE, h.last = FALSE
  PROVE  HandledOK(rk, h)
BY LimitBefore, PruneShape DEF HandledOK, AnswerOK

LEMMA HandleStartOK ==
  ASSUME TransferBounds, TransfersInv, NEW rk \in RequestKeys, rk[2] = "start"
  PROVE  HandledOK(rk, Transferring!HandleStart(rk[1]))
<1> DEFINE c == rk[1]
           h == Transferring!HandleStart(c)
<1>0. c \in Transferring!Calls
  BY KeysShape
<1>1. CASE Cardinality(DOMAIN Transferring!pruneTransfers) >= MaxTransfers \/ ~Transferring!CapabilityUsable(c)
  <2>1. h.transfers = Transferring!pruneTransfers /\ h.job = {} /\ h.ok = FALSE /\ h.last = FALSE
    BY <1>1, TransferringCardinality DEF Transferring!HandleStart, Transferring!Refused
  <2> HIDE DEF h
  <2>2. HandledOK(rk, h)
    BY <2>1, RefusedOK
  <2> QED
    BY <2>2 DEF h
<1>2. CASE ~(Cardinality(DOMAIN Transferring!pruneTransfers) >= MaxTransfers) /\ Transferring!CapabilityUsable(c)
  <2>0. /\ Cardinality(DOMAIN Transferring!pruneTransfers) + 1 <= MaxTransfers
        /\ MaxTransfers \in Nat /\ MaxActive \in Nat
        /\ Cardinality(jobs) \in Nat /\ Cardinality(DOMAIN Transferring!pruneTransfers) \in Nat
    BY <1>2, LimitBefore, PruneShape
  <2>1. CASE c \in ExportCalls
    <3>1. h.transfers = Transferring!pruneTransfers /\ h.job = {c} /\ h.ok = FALSE /\ h.last = FALSE
      BY <1>2, <2>1, TransferringCardinality DEF Transferring!HandleStart,
           Transferring!Refused
    <3> HIDE DEF h
    <3>2. h.job # {}
      BY <3>1
    <3>3. Cardinality(jobs) < MaxActive =>
            Cardinality(DOMAIN h.transfers) + Cardinality(jobs) + 1 <= MaxTransfers + MaxActive - 1
      BY <2>0, <3>1
    <3>4. HandledOK(rk, h)
      BY <2>0, <2>1, <3>1, <3>2, <3>3, PruneShape DEF HandledOK, AnswerOK
    <3> QED
      BY <3>4 DEF h
  <2>2. CASE c \notin ExportCalls
    <3> DEFINE t == [seq |-> 0, chunks |-> <<>>, expires |-> clock + TransferTTL]
    <3>1. /\ h.transfers = Transferring!With(Transferring!pruneTransfers, c, t) /\ h.job = {} /\ h.ok = TRUE
          /\ h.last = FALSE /\ h.chunk = <<>>
      BY <1>2, <2>2, TransferringCardinality DEF Transferring!HandleStart,
           Transferring!Refused
    <3> HIDE DEF h, t
    <3>2. /\ TableOK(h.transfers, call) /\ Cardinality(DOMAIN h.transfers) \in Nat
          /\ Cardinality(DOMAIN h.transfers) <= Cardinality(DOMAIN Transferring!pruneTransfers) + 1
      BY <1>0, <2>2, <3>1, PruneShape, EntryKeeps
    <3>3. Cardinality(jobs) < MaxActive =>
            Cardinality(DOMAIN h.transfers) + Cardinality(jobs) <= MaxTransfers + MaxActive - 1
      BY <2>0, <3>2
    <3>4. HandledOK(rk, h)
      BY <2>2, <3>1, <3>2, <3>3 DEF HandledOK, AnswerOK
    <3> QED
      BY <3>4 DEF h
  <2> QED
    BY <2>1, <2>2
<1> QED
  BY <1>1, <1>2

LEMMA HandleReadOK ==
  ASSUME TransferBounds, TransfersInv, NEW rk \in RequestKeys, rk[2] = "read"
  PROVE  HandledOK(rk, Transferring!HandleRead(rk[1], rk[3]))
<1> DEFINE c == rk[1]
           h == Transferring!HandleRead(c, rk[3])
           t == transfers[c]
           done == t.seq + 1 = Chunks
           u == [t EXCEPT !.seq = @ + 1, !.expires = clock + TransferTTL]
<1>0. c \in ExportCalls /\ c \notin ImportCalls /\ c \in Transferring!Calls
  BY KeysShape DEF TransferBounds
<1>1. CASE ~Transferring!requireTransfer(c, rk[3])
  <2>1. h.transfers = Transferring!pruneTransfers /\ h.job = {} /\ h.ok = FALSE /\ h.last = FALSE
    BY <1>1 DEF Transferring!HandleRead, Transferring!Refused
  <2> HIDE DEF h
  <2>2. HandledOK(rk, h)
    BY <2>1, RefusedOK
  <2> QED
    BY <2>2 DEF h
<1>2. CASE Transferring!requireTransfer(c, rk[3])
  <2>1. c \in DOMAIN Transferring!pruneTransfers /\ t.seq = rk[3]
    BY <1>2 DEF Transferring!requireTransfer
  <2>2. /\ t \in ExportTransfer /\ t.archive = call[c].cap.selection
        /\ call[c] \in StartedCall
    BY <1>0, <2>1, PruneShape DEF TransfersInv, TableOK
  <2>3. /\ h.job = {} /\ h.ok = TRUE /\ h.last = done /\ h.chunk = << <<t.archive, t.seq>> >>
        /\ h.transfers = IF done THEN Transferring!Without(Transferring!pruneTransfers, c) ELSE Transferring!With(Transferring!pruneTransfers, c, u)
    BY <1>2 DEF Transferring!HandleRead, Transferring!Refused
  <2>4. u \in ExportTransfer /\ u.archive = t.archive
    <3>1. clock + TransferTTL \in Int
      BY DEF TransfersInv, TimesOK, TransferBounds
    <3>2. t.seq + 1 \in Nat
      BY <2>2 DEF ExportTransfer
    <3> DEFINE n == t.seq + 1
               e == clock + TransferTTL
    <3>3. u = [t EXCEPT !.seq = n, !.expires = e] /\ n \in Nat /\ e \in Int
      BY <3>1, <3>2
    <3> HIDE DEF n, e, u
    <3> QED
      BY <2>2, <3>3 DEF ExportTransfer
  <2> HIDE DEF h, u
  <2>5. /\ TableOK(h.transfers, call) /\ Cardinality(DOMAIN h.transfers) \in Nat
        /\ Cardinality(DOMAIN h.transfers) <= Cardinality(DOMAIN Transferring!pruneTransfers)
    <3>1. CASE done
      BY <2>1, <2>3, <3>1, PruneShape, RemovalKeeps
    <3>2. CASE ~done
      <4>1. /\ TableOK(Transferring!With(Transferring!pruneTransfers, c, u), call)
            /\ Cardinality(DOMAIN Transferring!With(Transferring!pruneTransfers, c, u)) \in Nat
            /\ Cardinality(DOMAIN Transferring!With(Transferring!pruneTransfers, c, u)) = Cardinality(DOMAIN Transferring!pruneTransfers)
        BY <1>0, <2>1, <2>2, <2>4, PruneShape, EntryKeeps
      <4> QED
        BY <2>3, <3>2, <4>1, PruneShape
    <3> QED
      BY <3>1, <3>2
  <2>6. Cardinality(DOMAIN h.transfers) + Cardinality(jobs) <= MaxTransfers + MaxActive - 1
    BY <2>5, LimitBefore, PruneShape
  <2>7. AnswerOK(c, rk, h.ok, h.chunk, h.last, applied)
    BY <1>0, <2>1, <2>2, <2>3 DEF AnswerOK
  <2>8. HandledOK(rk, h)
    BY <2>3, <2>5, <2>6, <2>7 DEF HandledOK
  <2> QED
    BY <2>8 DEF h
<1> QED
  BY <1>1, <1>2

LEMMA HandleWriteOK ==
  ASSUME TransferBounds, TransfersInv, NEW rk \in RequestKeys, rk[2] = "write"
  PROVE  HandledOK(rk, Transferring!HandleWrite(rk[1], rk[3]))
<1> DEFINE c == rk[1]
           h == Transferring!HandleWrite(c, rk[3])
           t == [transfers[c] EXCEPT !.seq = @ + 1, !.chunks = Append(@, rk[3]),
                                     !.expires = clock + TransferTTL]
<1>0. c \in ImportCalls /\ c \notin ExportCalls /\ c \in Transferring!Calls
  BY KeysShape DEF TransferBounds
<1>1. CASE ~Transferring!requireTransfer(c, rk[3])
  <2>1. h.transfers = Transferring!pruneTransfers /\ h.job = {} /\ h.ok = FALSE /\ h.last = FALSE
    BY <1>1 DEF Transferring!HandleWrite, Transferring!Refused
  <2> HIDE DEF h
  <2>2. HandledOK(rk, h)
    BY <2>1, RefusedOK
  <2> QED
    BY <2>2 DEF h
<1>2. CASE Transferring!requireTransfer(c, rk[3])
  <2>1. c \in DOMAIN Transferring!pruneTransfers
    BY <1>2 DEF Transferring!requireTransfer
  <2>2. /\ h.job = {} /\ h.ok = TRUE /\ h.last = FALSE /\ h.chunk = <<>>
        /\ h.transfers = Transferring!With(Transferring!pruneTransfers, c, t)
    BY <1>2 DEF Transferring!HandleWrite, Transferring!Refused
  <2> HIDE DEF h, t
  <2>3. /\ TableOK(h.transfers, call) /\ Cardinality(DOMAIN h.transfers) \in Nat
        /\ Cardinality(DOMAIN h.transfers) = Cardinality(DOMAIN Transferring!pruneTransfers)
    BY <1>0, <2>1, <2>2, PruneShape, EntryKeeps
  <2>4. Cardinality(DOMAIN h.transfers) + Cardinality(jobs) <= MaxTransfers + MaxActive - 1
    BY <2>3, LimitBefore
  <2>5. HandledOK(rk, h)
    BY <1>0, <2>2, <2>3, <2>4 DEF HandledOK, AnswerOK
  <2> QED
    BY <2>5 DEF h
<1> QED
  BY <1>1, <1>2

LEMMA HandleFinishOK ==
  ASSUME TransferBounds, TransfersInv, NEW rk \in RequestKeys, rk[2] = "finish"
  PROVE  HandledOK(rk, Transferring!HandleFinish(rk[1], rk[3]))
<1> DEFINE c == rk[1]
           h == Transferring!HandleFinish(c, rk[3])
<1>0. c \in ImportCalls /\ c \notin ExportCalls /\ c \in Transferring!Calls
  BY KeysShape DEF TransferBounds
<1>1. CASE ~Transferring!requireTransfer(c, rk[3])
  <2>1. h.transfers = Transferring!pruneTransfers /\ h.job = {} /\ h.ok = FALSE /\ h.last = FALSE
    BY <1>1 DEF Transferring!HandleFinish, Transferring!Refused
  <2> HIDE DEF h
  <2>2. HandledOK(rk, h)
    BY <2>1, RefusedOK
  <2> QED
    BY <2>2 DEF h
<1>2. CASE Transferring!requireTransfer(c, rk[3])
  <2>1. c \in DOMAIN Transferring!pruneTransfers
    BY <1>2 DEF Transferring!requireTransfer
  <2>2. /\ h.job = {c} /\ h.ok = FALSE /\ h.last = FALSE
        /\ h.transfers = Transferring!Without(Transferring!pruneTransfers, c)
    BY <1>2 DEF Transferring!HandleFinish, Transferring!Refused
  <2> HIDE DEF h
  <2>3. /\ TableOK(h.transfers, call) /\ Cardinality(DOMAIN h.transfers) \in Nat
        /\ Cardinality(DOMAIN h.transfers) = Cardinality(DOMAIN Transferring!pruneTransfers) - 1
    BY <2>1, <2>2, PruneShape, RemovalKeeps
  <2>4. Cardinality(DOMAIN h.transfers) + Cardinality(jobs) + 1 <= MaxTransfers + MaxActive - 1
    BY <2>3, LimitBefore, PruneShape
  <2>5. h.job # {}
    BY <2>2
  <2>6. HandledOK(rk, h)
    BY <1>0, <2>2, <2>3, <2>4, <2>5 DEF HandledOK, AnswerOK
  <2> QED
    BY <2>6 DEF h
<1> QED
  BY <1>1, <1>2

LEMMA HandleOK ==
  ASSUME TransferBounds, TransfersInv, NEW rk \in RequestKeys
  PROVE  HandledOK(rk, Transferring!handle(rk[1], rk[2], rk[3]))
BY KeysShape, HandleStartOK, HandleReadOK, HandleWriteOK,
     HandleFinishOK DEF Transferring!handle

\* Whatever has run is refused: by the boot, by the window or by the replay cache.
LEMMA AcceptedIsNew ==
  ASSUME TransferBounds, TransfersInv, NEW r \in wire, Transferring!verifyVaultHttpRequest(r), Transferring!consumes(replay, r.key)
  PROVE  r.key \notin DOMAIN runs
<1>1. r.ts \in Nat /\ clock \in Nat /\ Skew \in Nat
  BY DEF TransfersInv, WireOK, Request, TimesOK, TransferBounds
<1>2. r.boot = boot /\ clock - r.ts <= Skew
  BY <1>1 DEF Transferring!verifyVaultHttpRequest
<1>3. ~Refusable(r, replay, clock, boot)
  <2>1. \A e \in replay : e.expires > clock => e.key # r.key
    BY DEF Transferring!consumes, Transferring!Live
  <2>2. r.ts + Skew + 1 > clock
    BY <1>1, <1>2
  <2> QED
    BY <1>1, <1>2, <2>1, <2>2 DEF Refusable
<1> QED
  BY <1>3 DEF TransfersInv, RunsOK

\* An entry that the cache forgets is of no use any more.
LEMMA ForgettingKeeps ==
  ASSUME TransferBounds, TransfersInv, NEW r \in wire, NEW cache, Transferring!Live(replay) \subseteq cache,
         Refusable(r, replay, clock, boot)
  PROVE  Refusable(r, cache, clock, boot)
<1>1. r.ts \in Nat /\ clock \in Nat /\ Skew \in Nat
  BY DEF TransfersInv, WireOK, Request, TimesOK, TransferBounds
<1>2. CASE \E e \in replay : e.key = r.key /\ e.expires = r.ts + Skew + 1
  <2>1. PICK e \in replay : e.key = r.key /\ e.expires = r.ts + Skew + 1
    BY <1>2
  <2>2. CASE e.expires > clock
    BY <2>1, <2>2 DEF Transferring!Live, Refusable
  <2>3. CASE ~(e.expires > clock)
    BY <1>1, <2>1, <2>3 DEF Refusable
  <2> QED
    BY <2>2, <2>3
<1> QED
  BY <1>2 DEF Refusable

LEMMA SenderStarted ==
  ASSUME TransferBounds, TransfersInv, NEW r \in wire
  PROVE  /\ r \in Request /\ r.key \in RequestKeys /\ r.key[1] \in Transferring!Calls
         /\ call[r.key[1]] \in StartedCall /\ Sent(r.key, call) /\ r.original \in BOOLEAN
BY KeysShape DEF TransfersInv, WireOK, Request, Sent

\* A request that the broker refuses, or is too busy for.
LEMMA DeliverRefused ==
  ASSUME TransferBounds, TransfersInv, NEW r \in wire, wire' = wire \ {r},
         call' = Transferring!Answered(r.key[1], r.key, r.original, FALSE, <<>>, FALSE),
         Transferring!Live(replay) \subseteq replay',
         UNCHANGED <<clock, boot, clientBoot, content, applied, events, transfers, jobs, runs>>
  PROVE  TransfersInv'
<1>1. /\ DOMAIN call' = Transferring!Calls /\ \A d \in Transferring!Calls : CallOK(d, call'[d], applied)
      /\ Forward(call, call')
  <2>1. AnswerFits(r.key[1], r.key, r.original, FALSE, <<>>, FALSE, applied)
    BY SenderStarted DEF AnswerFits, AnswerOK
  <2> QED
    BY <2>1, AnswerKeeps
<1>2. /\ WireOK(wire, call', clock, boot) /\ RunsOK(runs, wire, replay, call', clock, boot)
      /\ TableOK(transfers, call')
  BY <1>1, ForwardKeeps
<1>3. WireOK(wire', call', clock, boot)
  BY <1>2 DEF WireOK
<1>4. RunsOK(runs, wire', replay', call', clock, boot)
  BY <1>2, ForgettingKeeps DEF RunsOK
<1> QED
  BY <1>1, <1>2, <1>3, <1>4 DEF TransfersInv, TimesOK

\* A request that is handled: it had not run, and no copy of it will.
LEMMA HandledRuns ==
  ASSUME TransferBounds, TransfersInv, NEW r \in wire,
         Transferring!verifyVaultHttpRequest(r), Transferring!consumes(replay, r.key),
         NEW calls, Forward(call, calls), \A d \in Transferring!Calls : CallOK(d, calls[d], applied),
         NEW cache, cache = Transferring!Live(replay) \cup {[key |-> r.key, expires |-> Transferring!ReplayExpiry(r)]}
  PROVE  RunsOK(Transferring!Ran(r.key), wire \ {r}, cache, calls, clock, boot)
<1> DEFINE ran == Transferring!Ran(r.key)
           entry == [key |-> r.key, expires |-> Transferring!ReplayExpiry(r)]
<1>1. r.key \notin DOMAIN runs
  BY AcceptedIsNew
<1>2. RunsOK(runs, wire, replay, calls, clock, boot) /\ \A k : Sent(k, call) => Sent(k, calls)
  BY ForwardKeeps
<1>3. Sent(r.key, calls)
  BY <1>2, SenderStarted
<1>4. /\ DOMAIN ran = DOMAIN runs \cup {r.key} /\ ran[r.key] = 1
      /\ \A k \in DOMAIN runs : ran[k] = 1
  BY <1>1, <1>2 DEF Transferring!Ran, RunsOK
<1>5. entry \in cache /\ entry.key = r.key /\ entry.expires = r.ts + Skew + 1
  BY DEF Transferring!ReplayExpiry
<1> HIDE DEF ran, entry
<1>6. \A s \in wire : s.key = r.key => Refusable(s, cache, clock, boot)
  BY <1>5 DEF TransfersInv, WireOK, Refusable
<1>7. \A s \in wire : s.key \in DOMAIN runs => Refusable(s, cache, clock, boot)
  BY <1>2, ForgettingKeeps DEF RunsOK
<1>8. RunsOK(ran, wire \ {r}, cache, calls, clock, boot)
  BY <1>2, <1>3, <1>4, <1>6, <1>7 DEF RunsOK
<1> QED
  BY <1>8 DEF ran

LEMMA DeliverHandled ==
  ASSUME TransferBounds, TransfersInv, NEW r \in wire, wire' = wire \ {r},
         UNCHANGED <<clock, boot, clientBoot, content, applied, events>>,
         Transferring!verifyVaultHttpRequest(r), Transferring!consumes(replay, r.key),
         replay' = Transferring!Live(replay) \cup {[key |-> r.key, expires |-> Transferring!ReplayExpiry(r)]},
         Cardinality(jobs) < MaxActive, runs' = Transferring!Ran(r.key),
         NEW h, HandledOK(r.key, h), transfers' = h.transfers,
         NEW job, job.key = r.key, jobs' = jobs \cup {job : x \in h.job},
         IF h.job = {} THEN call' = Transferring!Answered(r.key[1], r.key, r.original, h.ok, h.chunk, h.last)
         ELSE UNCHANGED call
  PROVE  TransfersInv'
<1> DEFINE c == r.key[1]
<1>0. /\ c \in Transferring!Calls /\ call[c] \in StartedCall /\ r.original \in BOOLEAN
      /\ DOMAIN call = Transferring!Calls /\ \A d \in Transferring!Calls : CallOK(d, call[d], applied)
  BY SenderStarted DEF TransfersInv
<1>1. /\ DOMAIN call' = Transferring!Calls /\ \A d \in Transferring!Calls : CallOK(d, call'[d], applied)
      /\ Forward(call, call')
  <2>1. CASE h.job = {}
    <3>1. AnswerFits(c, r.key, r.original, h.ok, h.chunk, h.last, applied)
      BY <1>0 DEF HandledOK, AnswerFits
    <3>2. call' = Transferring!Answered(c, r.key, r.original, h.ok, h.chunk, h.last)
      BY <2>1
    <3> QED
      BY <3>1, <3>2, AnswerKeeps
  <2>2. CASE h.job # {}
    <3>1. call' = call
      BY <2>2
    <3>2. \A d \in Transferring!Calls : call[d] \in StartedCall => Position(Awaited(call[d], d)) \in Nat
      BY <1>0, CallShape
    <3> QED
      BY <1>0, <3>1, <3>2 DEF Forward
  <2> QED
    BY <2>1, <2>2
<1>2. WireOK(wire', call', clock, boot)
  <2>1. WireOK(wire, call', clock, boot)
    BY <1>1, ForwardKeeps
  <2> QED
    BY <2>1 DEF WireOK
<1>3. RunsOK(runs', wire', replay', call', clock, boot)
  BY <1>1, HandledRuns
<1>4. TableOK(transfers', call')
  <2>1. TableOK(h.transfers, call)
    BY DEF HandledOK
  <2> QED
    BY <1>1, <2>1 DEF TableOK, Forward
<1>5. /\ r.key \notin DOMAIN runs /\ DOMAIN runs' = DOMAIN runs \cup {r.key}
  BY AcceptedIsNew DEF Transferring!Ran
<1>6. \/ h.job = {} /\ jobs' = jobs
      \/ h.job = {c} /\ jobs' = jobs \cup {job}
  BY DEF HandledOK
<1>7. IsFiniteSet(jobs) /\ Cardinality(jobs) \in Nat
  BY FS_CardinalityType DEF TransfersInv, JobsOK
<1>8. JobsOK(jobs', runs', applied)
  <2>0. JobsOK(jobs, runs, applied)
    BY DEF TransfersInv
  <2>1. CASE jobs' = jobs
    BY <1>5, <2>0, <2>1 DEF JobsOK
  <2>2. CASE h.job = {c} /\ jobs' = jobs \cup {job}
    <3>1. IsFiniteSet(jobs')
      BY <1>7, <2>2, FS_AddElement
    <3>2. job.key[2] = IF job.key[1] \in ExportCalls THEN "start" ELSE "finish"
      BY <2>2 DEF HandledOK
    <3>3. \A j \in jobs' : j \in jobs \/ j = job
      BY <2>2
    <3>4. \A j \in jobs : j.key # r.key
      BY <1>5, <2>0 DEF JobsOK
    <3>5. \A j \in jobs' : /\ j.key \in DOMAIN runs'
                           /\ j.key[2] = IF j.key[1] \in ExportCalls THEN "start" ELSE "finish"
      BY <1>5, <2>0, <3>2, <3>3 DEF JobsOK
    <3>6. \A i, j \in jobs' : i.key = j.key => i = j
      BY <2>0, <3>3, <3>4 DEF JobsOK
    <3>7. \A i \in 1..Len(applied) : /\ FinishOf(applied[i]) \in DOMAIN runs'
                                     /\ \A j \in jobs' : j.key # FinishOf(applied[i])
      BY <1>5, <2>0, <3>3 DEF JobsOK
    <3> QED
      BY <2>0, <3>1, <3>5, <3>6, <3>7 DEF JobsOK
  <2> QED
    BY <1>6, <2>1, <2>2
<1>9. TransferLimitOK(transfers', jobs')
  <2>0. /\ MaxActive \in Nat /\ MaxTransfers \in Nat
        /\ Cardinality(DOMAIN transfers') \in Nat
    BY DEF HandledOK, TransferBounds
  <2>1. CASE h.job = {} /\ jobs' = jobs
    <3>1. Cardinality(DOMAIN transfers') + Cardinality(jobs) <= MaxTransfers + MaxActive - 1
      BY <2>1 DEF HandledOK
    <3> QED
      <4>1. TransferLimitOK(transfers', jobs)
        BY <1>7, <2>0, <3>1 DEF TransferLimitOK
      <4> QED
        BY <2>1, <4>1
  <2>2. CASE h.job = {c} /\ jobs' = jobs \cup {job}
    <3>1. h.job # {}
      BY <2>2
    <3>2. Cardinality(DOMAIN transfers') + Cardinality(jobs) + 1 <= MaxTransfers + MaxActive - 1
      BY <3>1 DEF HandledOK
    <3>3. /\ Cardinality(jobs') = Cardinality(jobs) \/ Cardinality(jobs') = Cardinality(jobs) + 1
      BY <1>7, <2>2, FS_AddElement
    <3> QED
      BY <1>7, <2>0, <3>2, <3>3 DEF TransferLimitOK
  <2> QED
    BY <1>6, <2>1, <2>2
<1> QED
  BY <1>1, <1>2, <1>3, <1>4, <1>8, <1>9 DEF TransfersInv, TimesOK

LEMMA TransfersDeliver ==
  ASSUME TransferBounds, TransfersInv, NEW r \in wire, Transferring!Deliver(r)
  PROVE  TransfersInv'
<1> DEFINE c == r.key[1]
           h == Transferring!handle(c, r.key[2], r.key[3])
           accepted == Transferring!verifyVaultHttpRequest(r) /\ Transferring!consumes(replay, r.key)
           chunks == IF r.key[2] = "finish" THEN transfers[c].chunks ELSE <<>>
           job == [key |-> r.key, original |-> r.original, chunks |-> chunks]
<1>1. /\ wire' = wire \ {r} /\ UNCHANGED <<clock, boot, clientBoot, content, applied, events>>
  BY DEF Transferring!Deliver
<1>2. CASE ~accepted
  <2>1. /\ call' = Transferring!Answered(c, r.key, r.original, FALSE, <<>>, FALSE)
        /\ UNCHANGED <<replay, spent, transfers, jobs, runs>>
    BY <1>2 DEF Transferring!Deliver
  <2>2. Transferring!Live(replay) \subseteq replay'
    BY <2>1 DEF Transferring!Live
  <2> QED
    BY <1>1, <2>1, <2>2, DeliverRefused
<1>3. CASE accepted /\ Cardinality(jobs) >= MaxActive
  <2>1. /\ call' = Transferring!Answered(c, r.key, r.original, FALSE, <<>>, FALSE)
        /\ replay' = Transferring!Live(replay) \cup {[key |-> r.key, expires |-> Transferring!ReplayExpiry(r)]}
        /\ UNCHANGED <<spent, transfers, jobs, runs>>
    BY <1>3, TransferringCardinality DEF Transferring!Deliver
  <2> QED
    BY <1>1, <2>1, DeliverRefused
<1>4. CASE accepted /\ ~(Cardinality(jobs) >= MaxActive)
  <2>1. /\ replay' = Transferring!Live(replay) \cup {[key |-> r.key, expires |-> Transferring!ReplayExpiry(r)]}
        /\ runs' = Transferring!Ran(r.key) /\ transfers' = h.transfers
        /\ jobs' = jobs \cup {job : x \in h.job}
        /\ IF h.job = {} THEN call' = Transferring!Answered(c, r.key, r.original, h.ok, h.chunk, h.last)
           ELSE UNCHANGED call
    BY <1>4, TransferringCardinality DEF Transferring!Deliver
  <2>2. HandledOK(r.key, h)
    BY SenderStarted, HandleOK
  <2>3. Cardinality(jobs) < MaxActive
    BY <1>4, LimitBefore
  <2>4. job.key = r.key
    OBVIOUS
  <2> HIDE DEF h, job
  <2> QED
    BY <1>1, <1>4, <2>1, <2>2, <2>3, <2>4, DeliverHandled
<1> QED
  BY <1>2, <1>3, <1>4

LEMMA JobShape ==
  ASSUME TransferBounds, TransfersInv, NEW j \in jobs
  PROVE  /\ j.key \in RequestKeys /\ j.key[1] \in Transferring!Calls /\ call[j.key[1]] \in StartedCall
         /\ j.key[2] = IF j.key[1] \in ExportCalls THEN "start" ELSE "finish"
         /\ IsFiniteSet(jobs \ {j}) /\ Cardinality(jobs) \in Nat
         /\ Cardinality(jobs \ {j}) = Cardinality(jobs) - 1
<1>1. j.key \in DOMAIN runs /\ IsFiniteSet(jobs)
      /\ j.key[2] = IF j.key[1] \in ExportCalls THEN "start" ELSE "finish"
  BY DEF TransfersInv, JobsOK
<1>2. Sent(j.key, call)
  BY <1>1 DEF TransfersInv, RunsOK
<1> QED
  BY <1>1, <1>2, KeysShape, FS_RemoveElement, FS_CardinalityType DEF Sent

LEMMA TransfersArchived ==
  ASSUME TransferBounds, TransfersInv, NEW j \in jobs, Transferring!ExportArchived(j)
  PROVE  TransfersInv'
<1> DEFINE c == j.key[1]
           ok == Transferring!SelectionHolds(c)
           t == [seq |-> 0, archive |-> content, expires |-> clock + TransferTTL]
<1>1. /\ c \in ExportCalls /\ jobs' = jobs \ {j}
      /\ transfers' = IF ~ok THEN transfers ELSE Transferring!With(transfers, c, t)
      /\ call' = Transferring!Answered(c, j.key, j.original, ok, <<>>, FALSE)
      /\ UNCHANGED <<clock, boot, clientBoot, wire, replay, spent, content, runs, applied, events>>
  BY DEF Transferring!ExportArchived
<1>2. c \in Transferring!Calls /\ c \notin ImportCalls /\ call[c] \in StartedCall /\ j.key[2] = "start"
  BY <1>1, JobShape DEF TransferBounds
<1>3. AnswerFits(c, j.key, j.original, ok, <<>>, FALSE, applied)
  BY <1>2 DEF AnswerFits, AnswerOK, Transferring!SelectionHolds
<1>4. /\ DOMAIN call' = Transferring!Calls /\ \A d \in Transferring!Calls : CallOK(d, call'[d], applied)
      /\ Forward(call, call')
  BY <1>1, <1>3, AnswerKeeps
<1>5. /\ WireOK(wire, call', clock, boot) /\ RunsOK(runs, wire, replay, call', clock, boot)
  BY <1>4, ForwardKeeps
<1>6. t \in ExportTransfer /\ t.archive = content
  BY DEF ExportTransfer, TransfersInv, TimesOK, TransferBounds
<1> HIDE DEF t, c
<1>7. /\ TableOK(transfers', call)
      /\ Cardinality(DOMAIN transfers') \in Nat /\ Cardinality(DOMAIN transfers) \in Nat
      /\ Cardinality(DOMAIN transfers') <= Cardinality(DOMAIN transfers) + 1
  <2>1. CASE ~ok
    <3>1. transfers' = transfers
      BY <1>1, <2>1
    <3> QED
      BY <3>1, PruneShape DEF TransfersInv
  <2>2. CASE ok
    <3>1. transfers' = Transferring!With(transfers, c, t) /\ content = call[c].cap.selection
      BY <1>1, <2>2 DEF Transferring!SelectionHolds
    <3>2. TableOK(transfers, call)
      BY DEF TransfersInv
    <3> QED
      BY <1>2, <1>6, <3>1, <3>2, PruneShape, EntryKeeps
  <2> QED
    BY <2>1, <2>2
<1>8. TableOK(transfers', call')
  BY <1>4, <1>7 DEF TableOK, Forward
<1>9. JobsOK(jobs', runs', applied')
  BY <1>1, JobShape DEF TransfersInv, JobsOK
<1>10. TransferLimitOK(transfers', jobs')
  <2>1. /\ Cardinality(jobs') = Cardinality(jobs) - 1 /\ Cardinality(jobs) \in Nat
        /\ MaxActive \in Nat /\ MaxTransfers \in Nat
    BY <1>1, JobShape DEF TransferBounds
  <2> QED
    BY <1>7, <2>1 DEF TransfersInv, TransferLimitOK
<1> QED
  BY <1>1, <1>4, <1>5, <1>8, <1>9, <1>10 DEF TransfersInv, TimesOK

LEMMA AppendShape ==
  ASSUME NEW S, NEW s \in Seq(S), NEW e \in S
  PROVE  /\ Append(s, e) \in Seq(S) /\ Len(Append(s, e)) = Len(s) + 1 /\ Len(s) \in Nat
         /\ \A i \in 1..Len(s) : Append(s, e)[i] = s[i]
         /\ Append(s, e)[Len(s) + 1] = e
         /\ Transferring!Range(s) \subseteq Transferring!Range(Append(s, e)) /\ e \in Transferring!Range(Append(s, e))
<1>1. /\ Append(s, e) \in Seq(S) /\ Len(Append(s, e)) = Len(s) + 1 /\ Len(s) \in Nat
      /\ \A i \in 1..Len(s) : Append(s, e)[i] = s[i]
      /\ Append(s, e)[Len(s) + 1] = e
  OBVIOUS
<1>2. /\ DOMAIN s = 1..Len(s) /\ DOMAIN Append(s, e) = 1..(Len(s) + 1)
  BY <1>1, LenProperties
<1>3. Len(s) + 1 \in 1..(Len(s) + 1) /\ \A i \in 1..Len(s) : i \in 1..(Len(s) + 1)
  BY <1>1
<1> QED
  BY <1>1, <1>2, <1>3 DEF Transferring!Range

LEMMA TransfersRestored ==
  ASSUME TransferBounds, TransfersInv, NEW j \in jobs, Transferring!ImportRestored(j)
  PROVE  TransfersInv'
<1> DEFINE c == j.key[1]
           ok == Transferring!WholeArchive(j.chunks)
<1>1. /\ c \in ImportCalls /\ jobs' = jobs \ {j}
      /\ content' = IF ok THEN Transferring!ParsedRecords(c) ELSE content
      /\ applied' = IF ok THEN Append(applied, c) ELSE applied
      /\ call' = Transferring!Answered(c, j.key, j.original, ok, <<>>, TRUE)
      /\ UNCHANGED <<clock, boot, clientBoot, wire, replay, spent, transfers, runs, events>>
  BY DEF Transferring!ImportRestored
<1>2. /\ c \in Transferring!Calls /\ c \notin ExportCalls /\ call[c] \in StartedCall
      /\ j.key = FinishOf(c) /\ j.key[2] = "finish"
  BY <1>1, JobShape, KeysShape DEF TransferBounds, FinishOf
<1>3. applied \in Seq(ImportCalls) /\ Len(applied) \in Nat
  BY LenProperties DEF TransfersInv, JobsOK
<1>4. /\ Transferring!Range(applied) \subseteq Transferring!Range(applied') /\ (ok => c \in Transferring!Range(applied'))
  BY <1>1, <1>3, AppendShape
<1>5. AnswerFits(c, j.key, j.original, ok, <<>>, TRUE, applied')
  BY <1>2, <1>4 DEF AnswerFits, AnswerOK, Transferring!WholeArchive
<1>6. /\ DOMAIN call' = Transferring!Calls /\ \A d \in Transferring!Calls : CallOK(d, call'[d], applied')
      /\ Forward(call, call')
  BY <1>1, <1>5, AnswerKeeps
<1>7. /\ WireOK(wire, call', clock, boot) /\ RunsOK(runs, wire, replay, call', clock, boot)
      /\ TableOK(transfers, call')
  BY <1>6, ForwardKeeps
<1>8. TimesOK'
  <2>1. content' \in Contents
    <3>1. <<"import", c>> \in Contents
      BY <1>1 DEF Contents
    <3> QED
      BY <1>1, <3>1 DEF Transferring!ParsedRecords, TransfersInv, TimesOK
  <2> QED
    BY <1>1, <2>1 DEF TransfersInv, TimesOK
<1>9. JobsOK(jobs', runs', applied')
  <2>0. JobsOK(jobs, runs, applied) /\ \A i \in jobs' : i \in jobs /\ i # j
    BY <1>1 DEF TransfersInv
  <2>1. /\ IsFiniteSet(jobs') /\ \A i, l \in jobs' : i.key = l.key => i = l
        /\ \A i \in jobs' : /\ i.key \in DOMAIN runs
                            /\ i.key[2] = IF i.key[1] \in ExportCalls THEN "start" ELSE "finish"
        /\ \A i \in jobs' : i.key # FinishOf(c)
        /\ FinishOf(c) \in DOMAIN runs
    BY <1>1, <1>2, <2>0, JobShape DEF JobsOK
  <2>2. \A i \in 1..Len(applied) : applied[i] # c
    BY <1>2, <2>0 DEF JobsOK
  <2>3. CASE ok
    <3> DEFINE new == Append(applied, c)
               n == Len(applied)
    <3>1. /\ new \in Seq(ImportCalls) /\ Len(new) = n + 1 /\ new[n + 1] = c
          /\ \A i \in 1..n : new[i] = applied[i]
      BY <1>1, <1>3, AppendShape
    <3>2. \A i \in 1..n + 1 : i \in 1..n \/ i = n + 1
      BY <1>3
    <3> HIDE DEF new
    <3>3. \A i, l \in 1..n + 1 : new[i] = new[l] => i = l
      BY <2>0, <2>2, <3>1, <3>2 DEF JobsOK
    <3>4. \A i \in 1..n + 1 : /\ FinishOf(new[i]) \in DOMAIN runs
                              /\ \A l \in jobs' : l.key # FinishOf(new[i])
      BY <2>0, <2>1, <3>1, <3>2 DEF JobsOK
    <3>5. JobsOK(jobs', runs, new)
      BY <2>1, <3>1, <3>3, <3>4 DEF JobsOK
    <3> QED
      BY <1>1, <2>3, <3>5 DEF new
  <2>4. CASE ~ok
    <3>1. JobsOK(jobs', runs, applied)
      BY <2>0, <2>1 DEF JobsOK
    <3> QED
      BY <1>1, <2>4, <3>1
  <2> QED
    BY <2>3, <2>4
<1>10. TransferLimitOK(transfers', jobs')
  <2>1. /\ Cardinality(jobs') = Cardinality(jobs) - 1 /\ Cardinality(jobs) \in Nat
        /\ MaxActive \in Nat /\ MaxTransfers \in Nat /\ transfers' = transfers
        /\ Cardinality(DOMAIN transfers) \in Nat
    BY <1>1, JobShape, PruneShape DEF TransferBounds
  <2> QED
    BY <2>1 DEF TransfersInv, TransferLimitOK
<1> QED
  BY <1>1, <1>6, <1>7, <1>8, <1>9, <1>10 DEF TransfersInv

LEMMA TransfersInit ==
  ASSUME TransferBounds, Transferring!Init
  PROVE  TransfersInv
<1>1. /\ DOMAIN call = Transferring!Calls /\ \A c \in Transferring!Calls : call[c] \in IdleCall
  BY DEF Transferring!Init, IdleCall
<1>2. TimesOK
  BY DEF Transferring!Init, TimesOK, TransferBounds, Contents
<1>3. DOMAIN runs = {} /\ DOMAIN transfers = {} /\ wire = {} /\ jobs = {} /\ applied = <<>>
  BY DEF Transferring!Init
<1>4. JobsOK(jobs, runs, applied)
  BY <1>3, FS_EmptySet, EmptySeq DEF JobsOK
<1>5. TransferLimitOK(transfers, jobs)
  BY <1>3, FS_EmptySet DEF TransferLimitOK, TransferBounds
<1> QED
  BY <1>1, <1>2, <1>3, <1>4, <1>5 DEF TransfersInv, CallOK, WireOK, RunsOK, TableOK

LEMMA TransfersNext ==
  ASSUME TransferBounds, TransfersInv, [Transferring!Next]_(Transferring!transferVars)
  PROVE  TransfersInv'
<1>1. CASE UNCHANGED Transferring!transferVars
  BY <1>1 DEF Transferring!transferVars, TransfersInv, TimesOK
<1> QED
  BY <1>1, TransfersStart, TransfersContinue, TransfersTimeOut, TransfersDeliver,
     TransfersDuplicate, TransfersArchived, TransfersRestored, TransfersReadiness,
     TransfersControlChange, TransfersTick, TransfersRestart DEF Transferring!Next

LEMMA TransfersSafe ==
  ASSUME TransferBounds, TransfersInv
  PROVE  Transferring!TransfersOnceAndWhole
<1>1. \A c \in Transferring!Calls : /\ CallOK(c, call[c], applied)
                                    /\ call[c].pc \in {"idle", "await", "answered", "done", "failed"}
                                    /\ call[c].pc = "done" => StartedOK(c, call[c], applied)
  BY CallShape DEF TransfersInv, CallOK, IdleCall
<1>2. Transferring!TypeOK
  <2>1. boot \in 1..MaxEvents + 1
    BY DEF TransfersInv, TimesOK, TransferBounds
  <2> QED
    BY <1>1, <2>1 DEF TransfersInv, TimesOK, TableOK, Transferring!TypeOK
<1>3. \A k \in DOMAIN runs : runs[k] <= 1
  BY DEF TransfersInv, RunsOK
<1>4. ASSUME NEW c \in ImportCalls
      PROVE  Cardinality({i \in DOMAIN applied : applied[i] = c}) <= 1
  <2> DEFINE times == {i \in DOMAIN applied : applied[i] = c}
  <2>1. DOMAIN applied = 1..Len(applied)
    BY LenProperties DEF TransfersInv, JobsOK
  <2>2. \A i, l \in times : i = l
    BY <2>1 DEF TransfersInv, JobsOK
  <2>3. CASE times = {}
    BY <2>3, FS_EmptySet
  <2>4. CASE times # {}
    <3>1. PICK i \in times : TRUE
      BY <2>4
    <3>2. times = {i}
      BY <2>2, <3>1
    <3>3. Cardinality({i}) = 1
      BY FS_Singleton
    <3> QED
      BY <3>2, <3>3
  <2> QED
    BY <2>3, <2>4
<1>5. Transferring!RunsAtMostOnce
  BY <1>2, <1>3, <1>4, TransferringCardinality DEF Transferring!RunsAtMostOnce
<1>6. Cardinality(DOMAIN transfers) <= MaxTransfers + MaxActive - 1
  BY LimitBefore, PruneShape DEF TransfersInv, TransferLimitOK
<1>7. Transferring!TransfersWhole
  <2>1. \A c \in ExportCalls : call[c].pc = "done" =>
          call[c].got = [i \in 1..Chunks |-> <<call[c].cap.selection, i - 1>>]
    BY <1>1 DEF StartedOK, Transferring!Calls
  <2>2. \A c \in ImportCalls : call[c].pc = "done" => c \in Transferring!Range(applied)
    BY <1>1 DEF StartedOK, Transferring!Calls
  <2> QED
    BY <1>6, <2>1, <2>2, TransferringCardinality DEF Transferring!TransfersWhole
<1> QED
  BY <1>5, <1>7 DEF Transferring!TransfersOnceAndWhole

\* What is proved of the transfers needs no fairness.
TransfersSafety == Transferring!Init /\ [][Transferring!Next]_(Transferring!transferVars)

\* The strengthening holds of the transfers for any calls, windows and limits, when
\* requests are late, repeated or unanswered and the vault restarts
\* (vault/broker.ts, vault/client.ts, vault/domain.ts).
THEOREM TransfersInductive == TransferBounds /\ TransfersSafety => []TransfersInv
<1> SUFFICES ASSUME TransferBounds PROVE TransfersSafety => []TransfersInv
  OBVIOUS
<1>1. Transferring!Init => TransfersInv
  BY TransfersInit
<1>2. TransfersInv /\ [Transferring!Next]_(Transferring!transferVars) => TransfersInv'
  BY TransfersNext
<1> QED
  BY <1>1, <1>2, PTL DEF TransfersSafety

\* A request is handled at most once, so an import replaces the store at most once,
\* and what is reported done is whole (vault/broker.ts #authenticate, vault/domain.ts).
THEOREM TransfersStayOnceAndWhole ==
  TransferBounds /\ TransfersSafety => []Transferring!TransfersOnceAndWhole
<1> SUFFICES ASSUME TransferBounds PROVE TransfersSafety => []Transferring!TransfersOnceAndWhole
  OBVIOUS
<1>1. TransfersInv => Transferring!TransfersOnceAndWhole
  BY TransfersSafe
<1> QED
  BY <1>1, TransfersInductive, PTL

-----------------------------------------------------------------------------
(* The administration run: a behaviour of MCAdministration is one of each  *)
(* part, since a step belongs to the part in focus and leaves the others   *)
(* alone.                                                                  *)

LEMMA AdministrationParts ==
  AdministrationSpec =>
    /\ Catalogue!Spec /\ AccountsSafety /\ KeyTable!Spec /\ Lists!Spec
    /\ ExportsSafety /\ StagingSafety /\ TransfersSafety
<1>1. AdministrationInit =>
        /\ Catalogue!Init /\ Accounts!Init /\ KeyTable!Init /\ Lists!Init
        /\ Exporting!Init /\ Staging!Init /\ Transferring!Init
  BY DEF AdministrationInit
<1>2. [AdministrationNext]_adminVars =>
        /\ [Catalogue!Next]_(Catalogue!vars)
        /\ [Accounts!Next]_(Accounts!userVars)
        /\ [KeyTable!Next]_(KeyTable!apiVars)
        /\ [Lists!Next]_(Lists!accessVars)
        /\ [Exporting!Next]_(Exporting!backupVars)
        /\ [Staging!Next]_(Staging!stagingVars)
        /\ [Transferring!Next]_(Transferring!transferVars)
  BY DEF AdministrationNext, adminVars, serviceVars, userVars, keyVars, listVars, exportVars,
         stageVars, transferVars, Catalogue!vars, Accounts!userVars, KeyTable!apiVars, Lists!accessVars,
         Exporting!backupVars, Staging!stagingVars, Transferring!transferVars
<1> QED
  BY <1>1, <1>2, PTL DEF AdministrationSpec, Catalogue!Spec, AccountsSafety, KeyTable!Spec,
                         Lists!Spec, ExportsSafety, StagingSafety, TransfersSafety

\* The services tell the truth and what they publish is announced
\* (serviceManagement.ts).
THEOREM AdministrationServicesCoherent == AdministrationSpec => ServicesCoherent
<1>1. CatalogueBounds
  BY CatalogueParameters DEF CatalogueBounds
<1>2. Catalogue!RevisionsCoherent /\ Catalogue!SameVersionSameService =>
        (focus = "services" => Catalogue!RevisionsCoherent /\ Catalogue!SameVersionSameService)
  OBVIOUS
<1>3. AdministrationSpec =>
        /\ [](Catalogue!RevisionsCoherent /\ Catalogue!SameVersionSameService)
        /\ Catalogue!PublicationsAnnounced
  BY <1>1, AdministrationParts, RevisionsStayCoherent, PublicationsStayAnnounced, PTL
<1> QED
  BY <1>2, <1>3, PTL DEF ServicesCoherent

\* Exports are authorized once and counted exactly (backupCoordinator.ts).
THEOREM AdministrationExportsCoherently == AdministrationSpec => []ExportsCoherent
<1>1. ExportBounds
  BY ExportParameters, ExportingCardinality DEF ExportBounds
<1>2. Exporting!ExportsCoherent => ExportsCoherent
  BY DEF ExportsCoherent
<1> QED
  BY <1>1, <1>2, AdministrationParts, ExportsStayCoherent, PTL

\* Stages keep their files and are committed once (restoreStaging.ts,
\* restoreState.ts, restorePreview.ts).
THEOREM AdministrationStagesCoherently == AdministrationSpec => []StagesCoherent
<1>1. StagingBounds
  BY StagingParameters DEF StagingBounds
<1>2. Staging!StagesCoherent => StagesCoherent
  BY DEF StagesCoherent
<1> QED
  BY <1>1, <1>2, AdministrationParts, StagesStayCoherent, PTL

\* Transfers run once and arrive whole (vault/broker.ts, vault/client.ts,
\* vault/domain.ts).
THEOREM AdministrationTransfersOnce == AdministrationSpec => []TransfersOnceAndWhole
<1>1. TransferBounds
  BY TransferParameters DEF TransferBounds
<1>2. Transferring!TransfersOnceAndWhole => TransfersOnceAndWhole
  BY DEF TransfersOnceAndWhole
<1> QED
  BY <1>1, <1>2, AdministrationParts, TransfersStayOnceAndWhole, PTL

\* Some superadmin is always left, and what a reply displays is what was stored
\* (userLifecycleAdministration.ts).
THEOREM AdministrationAccountsKept == AdministrationSpec => AccountsKept
<1>1. AccountBounds
  BY AccountParameters DEF AccountBounds, Accounts!People
<1>2. Accounts!SuperadminRecoverable => (focus = "accounts" => Accounts!SuperadminRecoverable)
  OBVIOUS
<1>3. AdministrationSpec =>
        []Accounts!SuperadminRecoverable /\ Accounts!DisplayedIsStored
  BY <1>1, AdministrationParts, AccountsStayRecoverable, PasswordsDisplayedAreStored, PTL
<1> QED
  BY <1>2, <1>3, PTL DEF AccountsKept

\* However two rotations race, one key of a lineage is active, and a key that was revoked
\* while a request waited does nothing for it (apiKeys.ts, apiKeyAuthority.ts,
\* selfApiKeyProtection.ts).
THEOREM AdministrationKeysKept == AdministrationSpec => KeysKept
<1>1. KeyBounds
  BY KeyParameters DEF KeyBounds
<1>2. KeyTable!KeysAccounted => (focus = "keys" => KeyTable!KeysAccounted)
  OBVIOUS
<1>3. AdministrationSpec => []KeyTable!KeysAccounted /\ KeyTable!RevocationIsFinal
  BY <1>1, AdministrationParts, KeysStayAccounted, RevocationStaysFinal, PTL
<1> QED
  BY <1>2, <1>3, PTL DEF KeysKept

\* A walk through the pages of a list is complete, and cleaning up loses no answer
\* (accessManagement.ts).
THEOREM AdministrationAnswersComplete == AdministrationSpec => AnswersComplete
<1>1. ListBounds
  BY ListParameters DEF ListBounds
<1>2. Lists!PagesComplete => (focus = "lists" => Lists!PagesComplete)
  OBVIOUS
<1>3. AdministrationSpec => []Lists!PagesComplete /\ Lists!CleanupKeepsAnswers
  BY <1>1, AdministrationParts, WalksStayComplete, AnswersStayKept, PTL
<1> QED
  BY <1>2, <1>3, PTL DEF AnswersComplete
=============================================================================
