-------------------------- MODULE GatewayMemoryProofs --------------------------
(***************************************************************************)
(* Proofs about MCGatewayMemory: the table of opaque references            *)
(* (TokenBroker), for all references, subjects, secrets and bindings, all  *)
(* lifetimes, limits and bounds; the places of requests and scans          *)
(* (ScannerPool), for any number of requests, subjects, services and       *)
(* workers and any limits; and sign-ins through providers (OidcFlow), for  *)
(* any number of requests, browsers, providers and flows.                  *)
(*                                                                         *)
(* The inductive invariant IInv of the table adds to the maps and limits   *)
(* of TableKept what a record and an index entry look like (TableOK) and,  *)
(* while a response is tokenized, that there is a place for every secret   *)
(* left of which the subject has no reference, not even an expired one     *)
(* (ReservedOK).  An action first deletes references and then refreshes    *)
(* or adds some, so the lemmas take the maps as parameters.                *)
(*                                                                         *)
(* The invariant ScanInv of limiter and pool adds to CapacityKept that a   *)
(* job is with one worker or at one place of the queue, and its lemmas     *)
(* take the pool as one record, as its methods do; one dispatch passes     *)
(* over the workers, by induction on their number.                         *)
(*                                                                         *)
(* The invariant FlowInv of sign-ins says that a request past its claim is *)
(* alone with its flow, whose row is claimed, used or gone (ClaimsOK,      *)
(* Exclusive), and that a cached key expires at most Timeout + CacheTtl    *)
(* after its provider withdrew it, since a fetch was sent before that of   *)
(* any key it may bring (CacheOK, InTime).                                 *)
(***************************************************************************)
EXTENDS MCGatewayMemory, FiniteSetTheorems, SequenceTheorems, TLAPS

LEMMA ScanningCardinality ==
  ASSUME NEW S PROVE Scanning!Cardinality(S) = Cardinality(S)
BY DEF Scanning!Cardinality, Cardinality

LEMMA SignInsCardinality ==
  ASSUME NEW S PROVE SignIns!Cardinality(S) = Cardinality(S)
BY DEF SignIns!Cardinality, Cardinality

LEMMA Removed ==
  ASSUME NEW S, NEW q \in Seq(S), NEW k \in 1..Len(q)
  PROVE  LET s == SubSeq(q, 1, k - 1) \o SubSeq(q, k + 1, Len(q))
         IN /\ s \in Seq(S) /\ Len(s) = Len(q) - 1
            /\ \A a \in 1..(Len(q) - 1) : s[a] = IF a < k THEN q[a] ELSE q[a + 1]
<1> DEFINE l == SubSeq(q, 1, k - 1)
           r == SubSeq(q, k + 1, Len(q))
<1>0. Len(q) \in Nat /\ \A i \in 1..Len(q) : q[i] \in S
  OBVIOUS
<1>1. /\ l \in Seq(S) /\ Len(l) = k - 1 /\ \A a \in 1..(k - 1) : l[a] = q[a]
  <2>1. \A i \in 1..(k - 1) : q[i] \in S
    BY <1>0
  <2>2. /\ l \in Seq(S) /\ Len(l) = IF 1 <= k - 1 THEN (k - 1) - 1 + 1 ELSE 0
        /\ \A i \in 1..((k - 1) - 1 + 1) : l[i] = q[1 + i - 1]
    BY <1>0, <2>1, SubSeqProperties
  <2> QED
    BY <1>0, <2>2
<1>2. /\ r \in Seq(S) /\ Len(r) = Len(q) - k /\ \A a \in 1..(Len(q) - k) : r[a] = q[k + a]
  <2>1. \A i \in (k + 1)..Len(q) : q[i] \in S
    BY <1>0
  <2>2. /\ r \in Seq(S) /\ Len(r) = IF k + 1 <= Len(q) THEN Len(q) - (k + 1) + 1 ELSE 0
        /\ \A i \in 1..(Len(q) - (k + 1) + 1) : r[i] = q[(k + 1) + i - 1]
    BY <1>0, <2>1, SubSeqProperties
  <2>3. Len(r) = Len(q) - k
    BY <1>0, <2>2
  <2>4. ASSUME NEW a \in 1..(Len(q) - k) PROVE r[a] = q[k + a]
    <3>1. a \in 1..(Len(q) - (k + 1) + 1) /\ (k + 1) + a - 1 = k + a
      BY <1>0
    <3>2. r[a] = q[(k + 1) + a - 1]
      BY <2>2, <3>1
    <3> QED
      BY <3>1, <3>2
  <2> QED
    BY <2>2, <2>3, <2>4
<1> HIDE DEF l, r
<1>3. /\ l \o r \in Seq(S) /\ Len(l \o r) = Len(l) + Len(r)
      /\ \A i \in 1..(Len(l) + Len(r)) :
           (l \o r)[i] = IF i <= Len(l) THEN l[i] ELSE r[i - Len(l)]
  <2>1. l \in Seq(S) /\ r \in Seq(S)
    BY <1>1, <1>2
  <2> QED
    BY ONLY <2>1, ConcatProperties
<1>4. ASSUME NEW a \in 1..(Len(q) - 1)
      PROVE  (l \o r)[a] = IF a < k THEN q[a] ELSE q[a + 1]
  <2>1. a \in 1..(Len(l) + Len(r)) /\ (a <= Len(l) <=> a < k)
    BY <1>0, <1>1, <1>2
  <2>2. CASE a < k
    BY <1>1, <1>3, <2>1, <2>2
  <2>3. CASE ~(a < k)
    <3>1. a - Len(l) \in 1..(Len(q) - k) /\ k + (a - Len(l)) = a + 1
      BY <1>0, <1>1, <2>3
    <3> QED
      BY <1>2, <1>3, <2>1, <2>3, <3>1
  <2> QED
    BY <2>2, <2>3
<1>5. Len(l \o r) = Len(q) - 1
  BY <1>0, <1>1, <1>2, <1>3
<1> QED
  BY <1>3, <1>4, <1>5 DEF l, r

-----------------------------------------------------------------------------
(* The table of opaque references.                                         *)

\* The references with a record, and those of one subject.
Held(rec) == {f \in References : rec[f].kind # "none"}
HeldBy(rec, u) == {f \in References : rec[f].subject = u}

\* A record names a subject and a secret, does not idle past its maximum, was
\* generated and is known by its value; a place without one is empty.
RecordsOK(rec, vals, gen) ==
  \A f \in References :
    IF rec[f].kind = "none" THEN rec[f] = NoRecord
    ELSE /\ rec[f].subject \in Subjects /\ rec[f].secret \in Secrets
         /\ rec[f].idle <= rec[f].max
         /\ f \in gen /\ f \in vals

\* Response references are those with a hash, and the index has the one of each
\* subject and secret.
IndexOK(rec, hsh, idx) ==
  /\ hsh = {f \in References : rec[f].kind = "sec"}
  /\ \A f \in hsh : idx[<<rec[f].subject, rec[f].secret>>] = f
  /\ \A u \in Subjects, s \in Secrets : idx[<<u, s>>] # NoReference =>
       /\ idx[<<u, s>>] \in hsh
       /\ rec[idx[<<u, s>>]].subject = u /\ rec[idx[<<u, s>>]].secret = s

TableOK(rec, hsh, idx, vals, gen) ==
  /\ rec \in [References -> Record]
  /\ idx \in [Subjects \X Secrets -> References \cup {NoReference}]
  /\ vals \subseteq References /\ gen \subseteq References
  /\ RecordsOK(rec, vals, gen)
  /\ IndexOK(rec, hsh, idx)

\* Records and further references of u are within both limits.
Fits(rec, u, n) ==
  /\ Cardinality(Held(rec)) + n <= MaxRecords
  /\ Cardinality(HeldBy(rec, u)) + n <= MaxPerSubject

\* The limits hold of a finite table.
LimitsOK(rec) == IsFiniteSet(Held(rec)) /\ \A u \in Subjects : Fits(rec, u, 0)

\* The secrets of L of which u has no reference.
Lacking(L, rec, u) == {s \in L : \A f \in HeldBy(rec, u) : rec[f].secret # s}

\* There is a place for a reference of u to every secret of L.
ReservedFor(L, rec, u) == Fits(rec, u, Cardinality(Lacking(L, rec, u)))

\* What was asserted before a response is tokenized holds until it is.
ReservedOK ==
  response.left # {} =>
    /\ response.subject \in Subjects /\ response.binding \in Bindings
    /\ ReservedFor(response.left, record, response.subject)

Table == TableOK(record, hashed, index, values, spent)

IInv == TypeOK /\ Table /\ LimitsOK(record) /\ ReservationHolds /\ ReservedOK

(* Lemmas about the data.                                                  *)

\* A table without some references is one.
Without(rec, gone) == [f \in References |-> IF f \in gone THEN NoRecord ELSE rec[f]]
IndexWithout(idx, gone) ==
  [k \in Subjects \X Secrets |-> IF idx[k] \in gone THEN NoReference ELSE idx[k]]

LEMMA NoRecordTyped ==
  NoRecord \in Record /\ NoRecord.kind = "none" /\ NoRecord.subject = NoSubject
BY DEF NoRecord, Record

LEMMA TableShrinks ==
  ASSUME NEW rec, NEW hsh, NEW idx, NEW vals, NEW gen, NEW gone,
         TableOK(rec, hsh, idx, vals, gen), gone \subseteq References
  PROVE  TableOK(Without(rec, gone), hsh \ gone, IndexWithout(idx, gone), vals \ gone, gen)
<1> DEFINE rec2 == Without(rec, gone)
           idx2 == IndexWithout(idx, gone)
<1>1. /\ rec2 \in [References -> Record]
      /\ \A f \in References : rec2[f] = IF f \in gone THEN NoRecord ELSE rec[f]
  BY NoRecordTyped DEF TableOK, Without
<1>2. NoReference \notin References
  BY TokenBrokerAssumption
<1>3. /\ idx2 \in [Subjects \X Secrets -> References \cup {NoReference}]
      /\ \A u \in Subjects, s \in Secrets :
           idx2[<<u, s>>] = IF idx[<<u, s>>] \in gone THEN NoReference ELSE idx[<<u, s>>]
  BY DEF TableOK, IndexWithout
<1> HIDE DEF rec2, idx2
<1>4. RecordsOK(rec2, vals \ gone, gen)
  BY <1>1, NoRecordTyped DEF TableOK, RecordsOK
<1>6. hsh \ gone = {f \in References : rec2[f].kind = "sec"}
  BY <1>1, NoRecordTyped DEF TableOK, IndexOK
<1>7. ASSUME NEW f \in hsh \ gone
      PROVE  idx2[<<rec2[f].subject, rec2[f].secret>>] = f
  <2>1. f \in References /\ rec2[f] = rec[f] /\ rec[f].kind = "sec"
    BY <1>1 DEF TableOK, IndexOK
  <2>2. rec[f].subject \in Subjects /\ rec[f].secret \in Secrets
    BY <2>1 DEF TableOK, RecordsOK
  <2>3. idx[<<rec[f].subject, rec[f].secret>>] = f
    BY DEF TableOK, IndexOK
  <2> QED
    BY <1>3, <2>1, <2>2, <2>3
<1>8. ASSUME NEW u \in Subjects, NEW s \in Secrets, idx2[<<u, s>>] # NoReference
      PROVE  /\ idx2[<<u, s>>] \in hsh \ gone
             /\ rec2[idx2[<<u, s>>]].subject = u /\ rec2[idx2[<<u, s>>]].secret = s
  <2>1. idx2[<<u, s>>] = idx[<<u, s>>] /\ idx[<<u, s>>] \notin gone
    BY <1>3, <1>8
  <2>2. /\ idx[<<u, s>>] \in hsh
        /\ rec[idx[<<u, s>>]].subject = u /\ rec[idx[<<u, s>>]].secret = s
    BY <1>8, <2>1 DEF TableOK, IndexOK
  <2> QED
    BY <1>1, <2>1, <2>2 DEF TableOK, IndexOK
<1>9. IndexOK(rec2, hsh \ gone, idx2)
  BY <1>6, <1>7, <1>8 DEF IndexOK
<1>10. TableOK(rec2, hsh \ gone, idx2, vals \ gone, gen)
  BY <1>1, <1>3, <1>4, <1>9 DEF TableOK
<1> QED
  BY <1>10 DEF rec2, idx2

\* Neither is one spoiled by values of references that are gone.
LEMMA TableKeepsValues ==
  ASSUME NEW rec, NEW hsh, NEW idx, NEW vals, NEW gen, NEW more,
         TableOK(rec, hsh, idx, vals, gen), more \subseteq References, vals \subseteq more
  PROVE  TableOK(rec, hsh, idx, more, gen)
BY DEF TableOK, RecordsOK

\* A record refreshed is the same but for its idle time.
LEMMA RefreshTyped ==
  ASSUME now \in Nat, NEW x \in Record
  PROVE  /\ Refresh(x) \in Record
         /\ Refresh(x).kind = x.kind /\ Refresh(x).subject = x.subject
         /\ Refresh(x).secret = x.secret /\ Refresh(x).binding = x.binding
         /\ Refresh(x).max = x.max /\ Refresh(x).idle <= x.max
<1> DEFINE i == IF now + IdleTtl < x.max THEN now + IdleTtl ELSE x.max
<1>1. x.max \in Nat /\ IdleTtl \in Nat
  BY TokenBrokerAssumption DEF Record
<1>2. i \in Nat /\ i <= x.max
  BY <1>1
<1>3. Refresh(x) = [x EXCEPT !.used = now, !.idle = i]
  BY DEF Refresh
<1> HIDE DEF i
<1> QED
  BY <1>2, <1>3 DEF Record

\* Refreshed(rec, rec2): some records of rec are refreshed.
Refreshed(rec, rec2) ==
  /\ rec2 \in [References -> Record]
  /\ \A f \in References :
       rec2[f] = rec[f] \/ (rec[f].kind # "none" /\ rec2[f] = Refresh(rec[f]))

LEMMA RefreshedSame ==
  ASSUME now \in Nat, NEW rec, NEW rec2, Refreshed(rec, rec2),
         rec \in [References -> Record]
  PROVE  \A f \in References :
           /\ rec2[f].kind = rec[f].kind /\ rec2[f].subject = rec[f].subject
           /\ rec2[f].secret = rec[f].secret /\ rec2[f].binding = rec[f].binding
           /\ rec2[f].max = rec[f].max
           /\ rec[f].idle <= rec[f].max => rec2[f].idle <= rec2[f].max
           /\ rec[f].kind = "none" => rec2[f] = rec[f]
<1> SUFFICES ASSUME NEW f \in References
             PROVE  /\ rec2[f].kind = rec[f].kind /\ rec2[f].subject = rec[f].subject
                    /\ rec2[f].secret = rec[f].secret /\ rec2[f].binding = rec[f].binding
                    /\ rec2[f].max = rec[f].max
                    /\ rec[f].idle <= rec[f].max => rec2[f].idle <= rec2[f].max
                    /\ rec[f].kind = "none" => rec2[f] = rec[f]
  OBVIOUS
<1>1. CASE rec2[f] = rec[f]
  BY <1>1
<1>2. CASE rec[f].kind # "none" /\ rec2[f] = Refresh(rec[f])
  BY <1>2, RefreshTyped
<1> QED
  BY <1>1, <1>2 DEF Refreshed

LEMMA TableRefreshes ==
  ASSUME now \in Nat, NEW rec, NEW rec2, NEW hsh, NEW idx, NEW vals, NEW gen,
         TableOK(rec, hsh, idx, vals, gen), Refreshed(rec, rec2)
  PROVE  /\ TableOK(rec2, hsh, idx, vals, gen)
         /\ Held(rec2) = Held(rec)
         /\ \A u : HeldBy(rec2, u) = HeldBy(rec, u)
         /\ \A L, u : Lacking(L, rec2, u) = Lacking(L, rec, u)
<1>1. rec \in [References -> Record] /\ rec2 \in [References -> Record]
  BY DEF TableOK, Refreshed
<1>2. \A f \in References :
        /\ rec2[f].kind = rec[f].kind /\ rec2[f].subject = rec[f].subject
        /\ rec2[f].secret = rec[f].secret
        /\ rec[f].idle <= rec[f].max => rec2[f].idle <= rec2[f].max
        /\ rec[f].kind = "none" => rec2[f] = rec[f]
  BY <1>1, RefreshedSame
<1>3. RecordsOK(rec2, vals, gen)
  BY <1>2 DEF TableOK, RecordsOK
<1>4. IndexOK(rec2, hsh, idx)
  <2>1. hsh = {f \in References : rec2[f].kind = "sec"}
    BY <1>2 DEF TableOK, IndexOK
  <2>2. \A f \in hsh : idx[<<rec2[f].subject, rec2[f].secret>>] = f
    BY <1>2, <2>1 DEF TableOK, IndexOK
  <2>3. ASSUME NEW u \in Subjects, NEW s \in Secrets, idx[<<u, s>>] # NoReference
        PROVE  /\ idx[<<u, s>>] \in hsh
               /\ rec2[idx[<<u, s>>]].subject = u /\ rec2[idx[<<u, s>>]].secret = s
    <3>1. /\ idx[<<u, s>>] \in hsh
          /\ rec[idx[<<u, s>>]].subject = u /\ rec[idx[<<u, s>>]].secret = s
      BY <2>3 DEF TableOK, IndexOK
    <3> QED
      BY <1>2, <2>1, <3>1
  <2> QED
    BY <2>1, <2>2, <2>3 DEF IndexOK
<1>5. Held(rec2) = Held(rec) /\ \A u : HeldBy(rec2, u) = HeldBy(rec, u)
  BY <1>2 DEF Held, HeldBy
<1>6. \A L, u : Lacking(L, rec2, u) = Lacking(L, rec, u)
  BY <1>2, <1>5 DEF Lacking, HeldBy
<1> QED
  BY <1>1, <1>3, <1>4, <1>5, <1>6 DEF TableOK

\* References generated now have no record, hash, value or index entry.
LEMMA NewOnes ==
  ASSUME NEW rec, NEW hsh, NEW idx, NEW vals, NEW gen,
         TableOK(rec, hsh, idx, vals, gen), NEW f \in References \ gen
  PROVE  /\ f \notin Held(rec) /\ f \notin hsh /\ \A u \in Subjects : f \notin HeldBy(rec, u)
         /\ \A u \in Subjects, s \in Secrets : idx[<<u, s>>] # f
<1>1. rec[f] = NoRecord
  BY DEF TableOK, RecordsOK
<1>2. f \notin hsh /\ f \notin Held(rec) /\ \A u \in Subjects : f \notin HeldBy(rec, u)
  BY <1>1, NoRecordTyped, TokenBrokerAssumption DEF TableOK, IndexOK, Held, HeldBy
<1>3. ASSUME NEW u \in Subjects, NEW s \in Secrets, idx[<<u, s>>] = f
      PROVE  FALSE
  <2>1. idx[<<u, s>>] # NoReference
    BY <1>3, TokenBrokerAssumption
  <2> QED
    BY <1>2, <1>3, <2>1 DEF TableOK, IndexOK
<1> QED
  BY <1>2, <1>3

\* A record made now is one.
LEMMA NewRecordTyped ==
  ASSUME now \in Nat, NEW kind \in {"gref", "sec"}, NEW u \in Subjects, NEW s \in Secrets,
         NEW b \in Bindings
  PROVE  LET x == NewRecord(kind, u, s, b)
         IN /\ x \in Record /\ x.kind = kind /\ x.subject = u /\ x.secret = s
            /\ x.binding = b /\ x.idle <= x.max
<1> DEFINE i == now + IdleTtl
           m == now + MaxTtl
<1>1. i \in Nat /\ m \in Nat /\ i <= m
  BY TokenBrokerAssumption
<1>2. NewRecord(kind, u, s, b) = [kind |-> kind, subject |-> u, secret |-> s,
                                  binding |-> b, used |-> now, idle |-> i, max |-> m]
  BY DEF NewRecord
<1> HIDE DEF i, m
<1> QED
  BY <1>1, <1>2 DEF Record

\* The references in N, of u, are added.
Added(rec, rec2, N, u) ==
  /\ Held(rec2) = Held(rec) \cup N
  /\ HeldBy(rec2, u) = HeldBy(rec, u) \cup N
  /\ \A v \in Subjects \ {u} : HeldBy(rec2, v) = HeldBy(rec, v)

\* Adding references of u to credentials, each once.
TakesTokens(rec, rec2, gen, N, u) ==
  /\ u \in Subjects /\ N \subseteq References \ gen
  /\ rec2 \in [References -> Record]
  /\ \A f \in References \ N : rec2[f] = rec[f]
  /\ \A f \in N : /\ rec2[f].kind = "gref" /\ rec2[f].subject = u
                  /\ rec2[f].secret \in Secrets /\ rec2[f].idle <= rec2[f].max

LEMMA TableTakesTokens ==
  ASSUME NEW rec, NEW rec2, NEW hsh, NEW idx, NEW vals, NEW gen, NEW N, NEW u,
         TableOK(rec, hsh, idx, vals, gen), TakesTokens(rec, rec2, gen, N, u)
  PROVE  /\ TableOK(rec2, hsh, idx, vals \cup N, gen \cup N)
         /\ Added(rec, rec2, N, u)
<1>1. \A f \in N : /\ f \notin Held(rec) /\ f \notin hsh
                   /\ \A v \in Subjects : f \notin HeldBy(rec, v)
                   /\ \A v \in Subjects, s \in Secrets : idx[<<v, s>>] # f
  BY NewOnes DEF TakesTokens
<1>2. RecordsOK(rec2, vals \cup N, gen \cup N)
  BY DEF TableOK, RecordsOK, TakesTokens
<1>3. hsh = {f \in References : rec2[f].kind = "sec"}
  BY <1>1 DEF TableOK, IndexOK, TakesTokens
<1>4. hsh \subseteq References /\ \A f \in hsh : f \notin N /\ rec2[f] = rec[f]
  BY <1>1, <1>3 DEF TakesTokens
<1>5. IndexOK(rec2, hsh, idx)
  <2>1. \A f \in hsh : idx[<<rec2[f].subject, rec2[f].secret>>] = f
    BY <1>4 DEF TableOK, IndexOK
  <2>2. ASSUME NEW v \in Subjects, NEW s \in Secrets, idx[<<v, s>>] # NoReference
        PROVE  /\ idx[<<v, s>>] \in hsh
               /\ rec2[idx[<<v, s>>]].subject = v /\ rec2[idx[<<v, s>>]].secret = s
    <3>1. /\ idx[<<v, s>>] \in hsh
          /\ rec[idx[<<v, s>>]].subject = v /\ rec[idx[<<v, s>>]].secret = s
      BY <2>2 DEF TableOK, IndexOK
    <3> QED
      BY <1>4, <3>1
  <2> QED
    BY <1>3, <2>1, <2>2 DEF IndexOK
<1>6. TableOK(rec2, hsh, idx, vals \cup N, gen \cup N)
  BY <1>2, <1>5 DEF TableOK, TakesTokens
<1>7. Held(rec2) = Held(rec) \cup N
  BY DEF Held, TakesTokens
<1>8. HeldBy(rec2, u) = HeldBy(rec, u) \cup N
  BY DEF HeldBy, TakesTokens
<1>9. \A v \in Subjects \ {u} : HeldBy(rec2, v) = HeldBy(rec, v)
  BY <1>1 DEF HeldBy, TakesTokens
<1> QED
  BY <1>6, <1>7, <1>8, <1>9 DEF Added

\* Adding a reference to a secret that has none in the index.
LEMMA TableTakesSecret ==
  ASSUME NEW rec, NEW hsh, NEW idx, NEW vals, NEW gen, TableOK(rec, hsh, idx, vals, gen),
         NEW f \in References \ gen, NEW x \in Record, NEW u \in Subjects,
         NEW s \in Secrets,
         x.kind = "sec", x.subject = u, x.secret = s, x.idle <= x.max,
         idx[<<u, s>>] = NoReference
  PROVE  /\ TableOK([rec EXCEPT ![f] = x], hsh \cup {f}, [idx EXCEPT ![<<u, s>>] = f],
                    vals \cup {f}, gen \cup {f})
         /\ Added(rec, [rec EXCEPT ![f] = x], {f}, u)
<1> DEFINE rec2 == [rec EXCEPT ![f] = x]
           idx2 == [idx EXCEPT ![<<u, s>>] = f]
<1>1. /\ f \notin Held(rec) /\ f \notin hsh /\ \A v \in Subjects : f \notin HeldBy(rec, v)
      /\ \A v \in Subjects, t \in Secrets : idx[<<v, t>>] # f
  BY NewOnes
<1>2. /\ rec2 \in [References -> Record] /\ rec2[f] = x
      /\ \A g \in References \ {f} : rec2[g] = rec[g]
  BY DEF TableOK
<1>3. /\ idx2 \in [Subjects \X Secrets -> References \cup {NoReference}]
      /\ idx2[<<u, s>>] = f
      /\ \A v \in Subjects, t \in Secrets : (v # u \/ t # s) => idx2[<<v, t>>] = idx[<<v, t>>]
  BY DEF TableOK
<1> HIDE DEF rec2, idx2
<1>4. RecordsOK(rec2, vals \cup {f}, gen \cup {f})
  BY <1>2 DEF TableOK, RecordsOK
<1>5. hsh \cup {f} = {g \in References : rec2[g].kind = "sec"}
  BY <1>2 DEF TableOK, IndexOK
<1>6. ASSUME NEW g \in hsh
      PROVE  idx2[<<rec2[g].subject, rec2[g].secret>>] = g
  <2>1. g \in References \ {f} /\ rec2[g] = rec[g] /\ rec[g].kind = "sec"
    BY <1>1, <1>2 DEF TableOK, IndexOK
  <2>2. rec[g].subject \in Subjects /\ rec[g].secret \in Secrets
    BY <2>1 DEF TableOK, RecordsOK
  <2>3. idx[<<rec[g].subject, rec[g].secret>>] = g /\ g # NoReference
    BY <2>1, TokenBrokerAssumption DEF TableOK, IndexOK
  <2>4. rec[g].subject # u \/ rec[g].secret # s
    BY <2>3
  <2> QED
    BY <1>3, <2>1, <2>2, <2>3, <2>4
<1>7. ASSUME NEW v \in Subjects, NEW t \in Secrets, idx2[<<v, t>>] # NoReference
      PROVE  /\ idx2[<<v, t>>] \in hsh \cup {f}
             /\ rec2[idx2[<<v, t>>]].subject = v /\ rec2[idx2[<<v, t>>]].secret = t
  <2>1. CASE v = u /\ t = s
    BY <1>2, <1>3, <2>1
  <2>2. CASE v # u \/ t # s
    <3>1. /\ idx[<<v, t>>] \in hsh /\ idx2[<<v, t>>] = idx[<<v, t>>]
          /\ rec[idx[<<v, t>>]].subject = v /\ rec[idx[<<v, t>>]].secret = t
      BY <1>3, <1>7, <2>2 DEF TableOK, IndexOK
    <3>2. rec2[idx[<<v, t>>]] = rec[idx[<<v, t>>]]
      BY <1>1, <1>2, <3>1 DEF TableOK, IndexOK
    <3> QED
      BY <3>1, <3>2
  <2> QED
    BY <2>1, <2>2
<1>8. IndexOK(rec2, hsh \cup {f}, idx2)
  <2>1. idx2[<<rec2[f].subject, rec2[f].secret>>] = f
    BY <1>2, <1>3
  <2> QED
    BY <1>5, <1>6, <1>7, <2>1 DEF IndexOK
<1>9. TableOK(rec2, hsh \cup {f}, idx2, vals \cup {f}, gen \cup {f})
  BY <1>2, <1>3, <1>4, <1>8 DEF TableOK
<1>10. Held(rec2) = Held(rec) \cup {f} /\ HeldBy(rec2, u) = HeldBy(rec, u) \cup {f}
  BY <1>2 DEF Held, HeldBy
<1>11. \A v \in Subjects \ {u} : HeldBy(rec2, v) = HeldBy(rec, v)
  BY <1>1, <1>2 DEF HeldBy
<1> QED
  BY <1>9, <1>10, <1>11 DEF rec2, idx2, Added

\* A function has no more values than arguments.
LEMMA ImageSize ==
  ASSUME NEW X, IsFiniteSet(X), NEW T, NEW g \in [X -> T]
  PROVE  /\ IsFiniteSet({g[x] : x \in X})
         /\ Cardinality({g[x] : x \in X}) <= Cardinality(X)
<1> DEFINE R == {g[x] : x \in X}
<1>1. g \in [X -> R] /\ \A r \in R : \E x \in X : g[x] = r
  OBVIOUS
<1>2. g \in Surjection(X, R)
  BY <1>1 DEF Surjection
<1> HIDE DEF R
<1>3. IsFiniteSet(R) /\ Cardinality(R) <= Cardinality(X)
  BY <1>2, FS_Surjection
<1> QED
  BY <1>3 DEF R

\* The references of a subject are among those with a record.
LEMMA HeldByHeld ==
  ASSUME NEW rec, NEW hsh, NEW idx, NEW vals, NEW gen,
         TableOK(rec, hsh, idx, vals, gen), NEW u \in Subjects
  PROVE  HeldBy(rec, u) \subseteq Held(rec)
<1>1. ASSUME NEW f \in HeldBy(rec, u)
      PROVE  f \in Held(rec)
  <2>1. f \in References /\ rec[f].subject = u
    BY DEF HeldBy
  <2>2. CASE rec[f].kind = "none"
    BY <2>1, <2>2, NoRecordTyped, TokenBrokerAssumption DEF TableOK, RecordsOK
  <2> QED
    BY <2>1, <2>2 DEF Held
<1> QED
  BY <1>1

\* What is held once some references are gone.
LEMMA HeldWithout ==
  ASSUME NEW rec, NEW gone, gone \subseteq References
  PROVE  /\ Held(Without(rec, gone)) = Held(rec) \ gone
         /\ \A u \in Subjects : HeldBy(Without(rec, gone), u) = HeldBy(rec, u) \ gone
         /\ \A f \in References \ gone : Without(rec, gone)[f] = rec[f]
BY NoRecordTyped, TokenBrokerAssumption DEF Held, HeldBy, Without

\* The numbers of references of a finite table.
LEMMA HeldFinite ==
  ASSUME NEW rec, NEW hsh, NEW idx, NEW vals, NEW gen,
         TableOK(rec, hsh, idx, vals, gen), IsFiniteSet(Held(rec)), NEW u \in Subjects
  PROVE  /\ Cardinality(Held(rec)) \in Nat
         /\ IsFiniteSet(HeldBy(rec, u)) /\ Cardinality(HeldBy(rec, u)) \in Nat
<1>1. IsFiniteSet(HeldBy(rec, u))
  BY HeldByHeld, FS_Subset
<1> QED
  BY <1>1, FS_CardinalityType

\* Deleting references keeps the limits.
LEMMA LimitsShrink ==
  ASSUME NEW rec, NEW hsh, NEW idx, NEW vals, NEW gen,
         TableOK(rec, hsh, idx, vals, gen), LimitsOK(rec), NEW gone \in SUBSET References
  PROVE  LimitsOK(Without(rec, gone))
<1> DEFINE rec2 == Without(rec, gone)
<1>1. /\ Held(rec2) = Held(rec) \ gone
      /\ \A u \in Subjects : HeldBy(rec2, u) = HeldBy(rec, u) \ gone
  BY HeldWithout
<1> HIDE DEF rec2
<1>2. /\ IsFiniteSet(Held(rec2)) /\ Cardinality(Held(rec2)) \in Nat
      /\ Cardinality(Held(rec)) \in Nat
      /\ Cardinality(Held(rec2)) <= Cardinality(Held(rec))
  BY <1>1, FS_Subset, FS_CardinalityType DEF LimitsOK
<1>3. ASSUME NEW u \in Subjects
      PROVE  Fits(rec2, u, 0)
  <2>1. IsFiniteSet(HeldBy(rec, u)) /\ Cardinality(HeldBy(rec, u)) \in Nat
    BY HeldFinite DEF LimitsOK
  <2>2. /\ Cardinality(HeldBy(rec2, u)) \in Nat
        /\ Cardinality(HeldBy(rec2, u)) <= Cardinality(HeldBy(rec, u))
    BY <1>1, <2>1, FS_Subset, FS_CardinalityType
  <2>3. Fits(rec, u, 0)
    BY DEF LimitsOK
  <2> QED
    BY <1>2, <2>1, <2>2, <2>3, TokenBrokerAssumption DEF Fits
<1>4. LimitsOK(rec2)
  BY <1>2, <1>3 DEF LimitsOK
<1> QED
  BY <1>4 DEF rec2

\* Adding no more references than fit keeps them too.
LEMMA LimitsTake ==
  ASSUME NEW rec, NEW rec2, NEW hsh, NEW idx, NEW vals, NEW gen,
         TableOK(rec, hsh, idx, vals, gen), LimitsOK(rec), NEW u \in Subjects,
         NEW N, IsFiniteSet(N), NEW n \in Nat, Cardinality(N) <= n, Fits(rec, u, n),
         Added(rec, rec2, N, u)
  PROVE  LimitsOK(rec2)
<1>a. /\ Held(rec2) = Held(rec) \cup N /\ HeldBy(rec2, u) = HeldBy(rec, u) \cup N
      /\ \A v \in Subjects \ {u} : HeldBy(rec2, v) = HeldBy(rec, v)
  BY DEF Added
<1>1. /\ Cardinality(Held(rec)) \in Nat /\ Cardinality(N) \in Nat
      /\ IsFiniteSet(HeldBy(rec, u)) /\ Cardinality(HeldBy(rec, u)) \in Nat
      /\ IsFiniteSet(Held(rec))
  BY HeldFinite, FS_CardinalityType DEF LimitsOK
<1>2. /\ IsFiniteSet(Held(rec2)) /\ Cardinality(Held(rec2)) \in Nat
      /\ Cardinality(Held(rec2)) <= Cardinality(Held(rec)) + Cardinality(N)
  <2>1. Cardinality(Held(rec) \cap N) \in Nat
    BY <1>1, FS_Intersection, FS_CardinalityType
  <2>2. /\ IsFiniteSet(Held(rec2))
        /\ Cardinality(Held(rec2)) =
             Cardinality(Held(rec)) + Cardinality(N) - Cardinality(Held(rec) \cap N)
    BY <1>1, <1>a, FS_Union
  <2> QED
    BY <1>1, <2>1, <2>2, FS_CardinalityType
<1>3. Cardinality(HeldBy(rec2, u)) \in Nat /\
      Cardinality(HeldBy(rec2, u)) <= Cardinality(HeldBy(rec, u)) + Cardinality(N)
  <2>1. Cardinality(HeldBy(rec, u) \cap N) \in Nat
    BY <1>1, FS_Intersection, FS_CardinalityType
  <2>2. /\ IsFiniteSet(HeldBy(rec2, u))
        /\ Cardinality(HeldBy(rec2, u)) =
             Cardinality(HeldBy(rec, u)) + Cardinality(N) - Cardinality(HeldBy(rec, u) \cap N)
    BY <1>1, <1>a, FS_Union
  <2> QED
    BY <1>1, <2>1, <2>2, FS_CardinalityType
<1>4. Cardinality(Held(rec2)) <= MaxRecords /\ Cardinality(HeldBy(rec2, u)) <= MaxPerSubject
  BY <1>1, <1>2, <1>3, TokenBrokerAssumption DEF Fits
<1>5. ASSUME NEW v \in Subjects
      PROVE  Fits(rec2, v, 0)
  <2>1. CASE v = u
    <3>1. Fits(rec2, u, 0)
      BY <1>2, <1>3, <1>4 DEF Fits
    <3> QED
      BY <2>1, <3>1
  <2>2. CASE v # u
    <3>1. Fits(rec, v, 0) /\ Cardinality(HeldBy(rec, v)) \in Nat
      BY HeldFinite DEF LimitsOK
    <3> QED
      BY <1>2, <1>4, <1>a, <2>2, <3>1 DEF Fits
  <2> QED
    BY <2>1, <2>2
<1> QED
  BY <1>2, <1>5 DEF LimitsOK

\* Every reference that goes leaves at most one secret without one.
LEMMA LackingGrows ==
  ASSUME NEW rec, NEW u \in Subjects, NEW L, IsFiniteSet(L),
         NEW gone \in SUBSET References, IsFiniteSet(HeldBy(rec, u))
  PROVE  LET rec2 == Without(rec, gone)
         IN /\ Cardinality(Lacking(L, rec, u)) \in Nat
            /\ Cardinality(Lacking(L, rec2, u)) \in Nat
            /\ Cardinality(Lacking(L, rec2, u)) <=
                 Cardinality(Lacking(L, rec, u)) + Cardinality(HeldBy(rec, u) \cap gone)
<1> DEFINE rec2 == Without(rec, gone)
           X == HeldBy(rec, u) \cap gone
           g == [f \in X |-> rec[f].secret]
           R == {g[f] : f \in X}
<1>1. IsFiniteSet(X) /\ Cardinality(X) \in Nat
  BY FS_Intersection, FS_CardinalityType
<1>2. g \in [X -> R]
  OBVIOUS
<1>3. IsFiniteSet(R) /\ Cardinality(R) <= Cardinality(X) /\ Cardinality(R) \in Nat
  <2> HIDE DEF X, g
  <2>1. IsFiniteSet(R) /\ Cardinality(R) <= Cardinality(X)
    BY <1>1, <1>2, ImageSize
  <2> QED
    BY <2>1, FS_CardinalityType
<1>4. Lacking(L, rec2, u) \subseteq Lacking(L, rec, u) \cup R
  <2>1. ASSUME NEW s \in Lacking(L, rec2, u), s \notin R
        PROVE  s \in Lacking(L, rec, u)
    <3>1. s \in L /\ \A f \in HeldBy(rec2, u) : rec2[f].secret # s
      BY DEF Lacking
    <3>2. ASSUME NEW f \in HeldBy(rec, u)
          PROVE  rec[f].secret # s
      <4>1. CASE f \in gone
        BY <2>1, <3>2, <4>1
      <4>2. CASE f \notin gone
        <5>1. f \in HeldBy(rec2, u) /\ f \in References \ gone
          BY <3>2, <4>2, HeldWithout DEF HeldBy
        <5>2. rec2[f] = rec[f]
          BY <5>1, HeldWithout
        <5> QED
          BY <3>1, <5>1, <5>2
      <4> QED
        BY <4>1, <4>2
    <3> QED
      BY <3>1, <3>2 DEF Lacking
  <2> QED
    BY <2>1
<1>5. /\ Lacking(L, rec, u) \subseteq L /\ Lacking(L, rec2, u) \subseteq L
      /\ IsFiniteSet(Lacking(L, rec, u)) /\ IsFiniteSet(Lacking(L, rec2, u))
  <2>1. Lacking(L, rec, u) \subseteq L /\ Lacking(L, rec2, u) \subseteq L
    BY DEF Lacking
  <2> QED
    BY <2>1, FS_Subset
<1> HIDE DEF rec2, X, g, R
<1>6. /\ Cardinality(Lacking(L, rec, u)) \in Nat /\ Cardinality(Lacking(L, rec2, u)) \in Nat
  BY <1>5, FS_CardinalityType
<1>7. Cardinality(Lacking(L, rec2, u)) <= Cardinality(Lacking(L, rec, u) \cup R)
  BY <1>3, <1>4, <1>5, FS_Union, FS_Subset
<1>8. Cardinality(Lacking(L, rec, u) \cup R) <= Cardinality(Lacking(L, rec, u)) + Cardinality(R)
      /\ Cardinality(Lacking(L, rec, u) \cup R) \in Nat
  <2>1. Cardinality(Lacking(L, rec, u) \cap R) \in Nat
    BY <1>5, FS_Intersection, FS_CardinalityType
  <2>2. /\ IsFiniteSet(Lacking(L, rec, u) \cup R)
        /\ Cardinality(Lacking(L, rec, u) \cup R) =
             Cardinality(Lacking(L, rec, u)) + Cardinality(R)
               - Cardinality(Lacking(L, rec, u) \cap R)
    BY <1>3, <1>5, FS_Union
  <2>3. Cardinality(Lacking(L, rec, u) \cup R) \in Nat
    BY <2>2, FS_CardinalityType
  <2> QED
    BY <1>3, <1>6, <2>1, <2>2, <2>3
<1>9. Cardinality(Lacking(L, rec2, u)) <= Cardinality(Lacking(L, rec, u)) + Cardinality(X)
  BY <1>1, <1>3, <1>6, <1>7, <1>8
<1> QED
  BY <1>6, <1>9 DEF rec2, X

\* So what was reserved stays reserved when references go.
LEMMA ReservedShrinks ==
  ASSUME NEW rec, NEW hsh, NEW idx, NEW vals, NEW gen,
         TableOK(rec, hsh, idx, vals, gen), LimitsOK(rec), NEW gone \in SUBSET References,
         NEW u \in Subjects, NEW L, IsFiniteSet(L), ReservedFor(L, rec, u)
  PROVE  ReservedFor(L, Without(rec, gone), u)
<1> DEFINE rec2 == Without(rec, gone)
           a == Cardinality(Held(rec))
           b == Cardinality(HeldBy(rec, u))
           x == Cardinality(Held(rec) \cap gone)
           y == Cardinality(HeldBy(rec, u) \cap gone)
           m == Cardinality(Lacking(L, rec, u))
           m2 == Cardinality(Lacking(L, rec2, u))
<1>1. IsFiniteSet(Held(rec)) /\ IsFiniteSet(HeldBy(rec, u)) /\ a \in Nat /\ b \in Nat
  BY HeldFinite DEF LimitsOK
<1>2. IsFiniteSet(Held(rec) \cap gone) /\ IsFiniteSet(HeldBy(rec, u) \cap gone)
  BY <1>1, FS_Intersection
<1>3. x \in Nat /\ y \in Nat
  BY <1>2, FS_CardinalityType
<1>4. y <= x
  <2>1. HeldBy(rec, u) \cap gone \subseteq Held(rec) \cap gone
    BY HeldByHeld
  <2> QED
    BY <1>2, <2>1, FS_Subset
<1>5. Cardinality(Held(rec2)) = a - x /\ Cardinality(HeldBy(rec2, u)) = b - y
  <2>1. Held(rec2) = Held(rec) \ gone /\ HeldBy(rec2, u) = HeldBy(rec, u) \ gone
    BY HeldWithout
  <2>2. Cardinality(Held(rec) \ gone) = a - x
    BY <1>1, FS_Difference
  <2>3. Cardinality(HeldBy(rec, u) \ gone) = b - y
    BY <1>1, FS_Difference
  <2> QED
    BY <2>1, <2>2, <2>3
<1>6. m \in Nat /\ m2 \in Nat /\ m2 <= m + y
  BY <1>1, LackingGrows
<1>7. a + m <= MaxRecords /\ b + m <= MaxPerSubject
  BY DEF ReservedFor, Fits
<1>8. (a - x) + m2 <= MaxRecords /\ (b - y) + m2 <= MaxPerSubject
  <2> HIDE DEF a, b, x, y, m, m2
  <2> QED
    BY <1>1, <1>3, <1>4, <1>6, <1>7, TokenBrokerAssumption
<1> QED
  BY <1>5, <1>8 DEF ReservedFor, Fits

\* It stays reserved when a secret is done with.
LEMMA ReservedForFewer ==
  ASSUME NEW rec, NEW hsh, NEW idx, NEW vals, NEW gen,
         TableOK(rec, hsh, idx, vals, gen), LimitsOK(rec), NEW u \in Subjects,
         NEW L, IsFiniteSet(L), ReservedFor(L, rec, u), NEW K \in SUBSET L
  PROVE  ReservedFor(K, rec, u)
<1>1. Cardinality(Held(rec)) \in Nat /\ Cardinality(HeldBy(rec, u)) \in Nat
  BY HeldFinite DEF LimitsOK
<1>2. Lacking(L, rec, u) \subseteq L /\ Lacking(K, rec, u) \subseteq Lacking(L, rec, u)
  BY DEF Lacking
<1>3. IsFiniteSet(Lacking(L, rec, u)) /\ IsFiniteSet(Lacking(K, rec, u))
  BY <1>2, FS_Subset
<1>4. /\ Cardinality(Lacking(L, rec, u)) \in Nat /\ Cardinality(Lacking(K, rec, u)) \in Nat
      /\ Cardinality(Lacking(K, rec, u)) <= Cardinality(Lacking(L, rec, u))
  BY <1>2, <1>3, FS_Subset, FS_CardinalityType
<1> QED
  BY <1>1, <1>4, TokenBrokerAssumption DEF ReservedFor, Fits

\* A secret of which the subject has no reference has a place, and the others keep
\* theirs when it is taken.
LEMMA ReservedTaken ==
  ASSUME NEW rec, NEW rec2, NEW hsh, NEW idx, NEW vals, NEW gen,
         TableOK(rec, hsh, idx, vals, gen), LimitsOK(rec), NEW u \in Subjects,
         NEW L, IsFiniteSet(L), ReservedFor(L, rec, u), NEW s \in Lacking(L, rec, u)
  PROVE  /\ Fits(rec, u, 1)
         /\ \A f : /\ f \notin Held(rec) /\ rec2[f].secret = s /\ Added(rec, rec2, {f}, u)
                   /\ \A g \in HeldBy(rec, u) : rec2[g] = rec[g]
                   => ReservedFor(L \ {s}, rec2, u)
<1> DEFINE M == Lacking(L, rec, u)
<1>1. /\ IsFiniteSet(Held(rec)) /\ Cardinality(Held(rec)) \in Nat
      /\ IsFiniteSet(HeldBy(rec, u)) /\ Cardinality(HeldBy(rec, u)) \in Nat
  BY HeldFinite DEF LimitsOK
<1>2. IsFiniteSet(M) /\ Cardinality(M) \in Nat
  <2>1. M \subseteq L
    BY DEF Lacking
  <2> QED
    BY <2>1, FS_Subset, FS_CardinalityType
<1>3. IsFiniteSet(M \ {s}) /\ Cardinality(M \ {s}) = Cardinality(M) - 1
      /\ Cardinality(M \ {s}) \in Nat
  BY <1>2, FS_RemoveElement, FS_CardinalityType
<1>4. /\ Cardinality(Held(rec)) + Cardinality(M) <= MaxRecords
      /\ Cardinality(HeldBy(rec, u)) + Cardinality(M) <= MaxPerSubject
  BY DEF ReservedFor, Fits
<1> HIDE DEF M
<1>5. Fits(rec, u, 1)
  BY <1>1, <1>2, <1>3, <1>4, TokenBrokerAssumption DEF Fits
<1>6. ASSUME NEW f, f \notin Held(rec), rec2[f].secret = s, Added(rec, rec2, {f}, u),
             \A g \in HeldBy(rec, u) : rec2[g] = rec[g]
      PROVE  ReservedFor(L \ {s}, rec2, u)
  <2>a. Held(rec2) = Held(rec) \cup {f} /\ HeldBy(rec2, u) = HeldBy(rec, u) \cup {f}
    BY <1>6 DEF Added
  <2>1. f \notin HeldBy(rec, u)
    BY <1>6, HeldByHeld
  <2>2. /\ Cardinality(Held(rec2)) = Cardinality(Held(rec)) + 1
        /\ Cardinality(HeldBy(rec2, u)) = Cardinality(HeldBy(rec, u)) + 1
    BY <1>1, <1>6, <2>a, <2>1, FS_AddElement
  <2>3. Lacking(L \ {s}, rec2, u) \subseteq M \ {s}
    BY <1>6, <2>a DEF Lacking, M
  <2>4. /\ Cardinality(Lacking(L \ {s}, rec2, u)) \in Nat
        /\ Cardinality(Lacking(L \ {s}, rec2, u)) <= Cardinality(M \ {s})
    BY <1>3, <2>3, FS_Subset, FS_CardinalityType
  <2> QED
    BY <1>1, <1>2, <1>3, <1>4, <2>2, <2>4, TokenBrokerAssumption DEF ReservedFor, Fits
<1> QED
  BY <1>5, <1>6

(* What an action does to the table.                                       *)

\* The actions delete references as Without does.
LEMMA RemainingWithout ==
  ASSUME TypeOK, NEW gone
  PROVE  Remaining(gone) = Without(record, gone)
         /\ RemainingIndex(gone) = IndexWithout(index, gone)
BY DEF Remaining, Without, RemainingIndex, IndexWithout, TypeOK

\* ensureCapacity is about what remains.
LEMMA RoomFits ==
  ASSUME Table, NEW gone \in SUBSET References, NEW u \in Subjects, NEW n
  PROVE  Room(gone, u, n) <=> n = 0 \/ Fits(Without(record, gone), u, n)
<1> DEFINE kept == {f \in References : Present(f)} \ gone
<1>1. kept = Held(Without(record, gone))
  BY HeldWithout DEF Held, Present
<1>2. {f \in kept : record[f].subject = u} = HeldBy(Without(record, gone), u)
  <2>1. HeldBy(record, u) \subseteq Held(record)
    BY HeldByHeld DEF Table
  <2>2. {f \in kept : record[f].subject = u} = HeldBy(record, u) \ gone
    BY <2>1 DEF HeldBy, Held, Present
  <2> QED
    BY <2>2, HeldWithout
<1> HIDE DEF kept
<1> QED
  BY <1>1, <1>2 DEF Room, Fits, kept

\* Renewed(gone, rec2): the references in gone are deleted and some live ones
\* refreshed.
Renewed(gone, rec2) ==
  /\ gone \subseteq References /\ rec2 \in [References -> Record]
  /\ \A f \in References :
       IF f \in gone THEN rec2[f] = NoRecord
       ELSE rec2[f] = record[f] \/ (Live(f) /\ rec2[f] = Refresh(record[f]))

LEMMA RenewedKeeps ==
  ASSUME IInv, NEW gone, NEW rec2, Renewed(gone, rec2)
  PROVE  /\ TableOK(rec2, hashed \ gone, RemainingIndex(gone), values \ gone, spent)
         /\ LimitsOK(rec2)
         /\ Held(rec2) = Held(record) \ gone
         /\ \A u \in Subjects : HeldBy(rec2, u) = HeldBy(record, u) \ gone
         /\ \A u \in Subjects : \A L : IsFiniteSet(L) /\ ReservedFor(L, record, u) =>
              ReservedFor(L, rec2, u)
<1> DEFINE rec == Without(record, gone)
<1>1. now \in Nat /\ TypeOK
  BY DEF IInv, TypeOK
<1>2. /\ TableOK(rec, hashed \ gone, IndexWithout(index, gone), values \ gone, spent)
      /\ LimitsOK(rec)
  BY TableShrinks, LimitsShrink DEF IInv, Table, Renewed
<1>3. /\ Held(rec) = Held(record) \ gone
      /\ \A u \in Subjects : HeldBy(rec, u) = HeldBy(record, u) \ gone
      /\ \A f \in References : rec[f] = IF f \in gone THEN NoRecord ELSE record[f]
  BY HeldWithout DEF Renewed, Without
<1>4. \A u \in Subjects : \A L : IsFiniteSet(L) /\ ReservedFor(L, record, u) =>
        ReservedFor(L, rec, u)
  BY ReservedShrinks DEF IInv, Table, Renewed
<1> HIDE DEF rec
<1>5. Refreshed(rec, rec2)
  BY <1>3, NoRecordTyped DEF Renewed, Refreshed, Live, Present
<1>6. /\ TableOK(rec2, hashed \ gone, IndexWithout(index, gone), values \ gone, spent)
      /\ Held(rec2) = Held(rec)
      /\ \A u : HeldBy(rec2, u) = HeldBy(rec, u)
      /\ \A L, u : Lacking(L, rec2, u) = Lacking(L, rec, u)
  BY <1>1, <1>2, <1>5, TableRefreshes
<1>7. LimitsOK(rec2)
  BY <1>2, <1>6 DEF LimitsOK, Fits
<1>8. \A u \in Subjects : \A L : IsFiniteSet(L) /\ ReservedFor(L, record, u) =>
        ReservedFor(L, rec2, u)
  BY <1>4, <1>6 DEF ReservedFor, Fits
<1> QED
  BY <1>1, <1>3, <1>6, <1>7, <1>8, RemainingWithout

\* What no step does to an expired reference, and to any reference's maximum.
ExpiredKept ==
  \A f \in References :
    (Present(f) /\ Present(f)') =>
      /\ Expired(f) => record'[f] = record[f]
      /\ record'[f].max = record[f].max /\ record'[f].idle <= record[f].max

\* What no step does to a live reference.
LiveKept ==
  \A f \in References :
    (Live(f) /\ ~Present(f)') =>
      \/ \E u \in Subjects \cup {NoSubject}, s \in Credentials \cup {NoSecret} :
           Invalidate(u, s)
      \/ record[f].kind = "sec" /\ record[f].binding # response.binding
         /\ record[f].secret \in response.left

\* A step that deletes, refreshes and adds references that had no record.
LEMMA RenewedExpiredKept ==
  ASSUME IInv, NEW gone, NEW rec2, Renewed(gone, rec2),
         \A f \in References : Present(f) => record'[f] = rec2[f]
  PROVE  ExpiredKept
<1> SUFFICES ASSUME NEW f \in References, Present(f), record'[f].kind # "none"
             PROVE  /\ Expired(f) => record'[f] = record[f]
                    /\ record'[f].max = record[f].max /\ record'[f].idle <= record[f].max
  BY DEF ExpiredKept, Present
<1>1. record[f] \in Record /\ record[f].idle <= record[f].max /\ now \in Nat
  BY DEF IInv, TypeOK, Table, TableOK, RecordsOK, Present
<1>2. record'[f] = record[f] \/ (Live(f) /\ record'[f] = Refresh(record[f]))
  BY NoRecordTyped DEF Renewed
<1>3. CASE record'[f] = record[f]
  BY <1>1, <1>3
<1>4. CASE Live(f) /\ record'[f] = Refresh(record[f])
  BY <1>1, <1>4, RefreshTyped DEF Live
<1> QED
  BY <1>2, <1>3, <1>4

LEMMA RenewedLive ==
  ASSUME IInv, NEW gone, NEW rec2, Renewed(gone, rec2),
         NEW f \in References \ gone, Live(f), record'[f] = rec2[f]
  PROVE  Present(f)'
<1>1. record[f] \in Record /\ record[f].kind # "none" /\ now \in Nat
  BY DEF IInv, TypeOK, Live, Present
<1>2. record'[f].kind = record[f].kind
  BY <1>1, RefreshTyped DEF Renewed
<1> QED
  BY <1>1, <1>2 DEF Present

\* The invariant follows from its parts; outside the tokenizing of a response
\* nothing is reserved.
LEMMA KeptWhileIdle ==
  ASSUME IInv, Table', LimitsOK(record'), UNCHANGED <<now, response, refused>>, Idle,
         held' \in [Requests -> References \cup {NoReference}]
  PROVE  IInv'
BY DEF IInv, TypeOK, Table, TableOK, IndexOK, ReservedOK, ReservationHolds, Idle

(* Each step keeps the invariant, and what has expired and what is live.   *)

StepKeeps == IInv' /\ ExpiredKept /\ LiveKept

\* What is gone was not live.
LEMMA StaleNotLive ==
  Stale \subseteq References /\ \A f \in References : f \in Stale <=> (Present(f) /\ ~Live(f))
BY DEF Stale, Live

\* Nothing is gone when nothing is deleted.
LEMMA NoneRemains ==
  ASSUME TypeOK
  PROVE  /\ RemainingIndex({}) = index /\ hashed \ {} = hashed /\ values \ {} = values
         /\ Remaining({}) = record
<1>1. RemainingIndex({}) = index
  BY DEF RemainingIndex, TypeOK
<1>2. Remaining({}) = record
  BY DEF Remaining, TypeOK
<1> QED
  BY <1>1, <1>2

LEMMA RemainingRenewed ==
  ASSUME TypeOK, NEW gone \in SUBSET References
  PROVE  Renewed(gone, Remaining(gone))
BY NoRecordTyped DEF Renewed, Remaining, TypeOK

\* Deleting references between responses.
LEMMA DeleteKeeps ==
  ASSUME IInv, NEW gone \in SUBSET References, Delete(gone), Idle,
         UNCHANGED <<now, spent, held, response, refused>>
  PROVE  /\ IInv' /\ ExpiredKept
         /\ \A f \in References \ gone : Live(f) => Present(f)'
<1>1. Renewed(gone, Remaining(gone)) /\ record' = Remaining(gone)
  BY RemainingRenewed DEF IInv, Delete
<1>2. Table' /\ LimitsOK(record')
  BY <1>1, RenewedKeeps DEF Table, Delete
<1>3. IInv'
  BY <1>2, KeptWhileIdle DEF IInv, TypeOK
<1> QED
  BY <1>1, <1>3, RenewedExpiredKept, RenewedLive

\* Refreshing live references between responses.
LEMMA RefreshKeeps ==
  ASSUME IInv, Renewed({}, record'), Idle,
         UNCHANGED <<now, index, hashed, values, spent, response, refused>>,
         held' \in [Requests -> References \cup {NoReference}]
  PROVE  StepKeeps
<1>1. Table' /\ LimitsOK(record')
  BY RenewedKeeps, NoneRemains DEF Table, IInv
<1>2. IInv'
  BY <1>1, KeptWhileIdle
<1>3. LiveKept
  BY RenewedLive DEF LiveKept
<1> QED
  BY <1>2, <1>3, RenewedExpiredKept DEF StepKeeps

\* sweepExpired.
LEMMA SweepExpiredKeeps == ASSUME IInv, SweepExpired PROVE StepKeeps
<1>1. /\ IInv' /\ ExpiredKept
      /\ \A f \in References \ Stale : Live(f) => Present(f)'
  BY StaleNotLive, DeleteKeeps DEF SweepExpired
<1>2. LiveKept
  BY <1>1, StaleNotLive DEF LiveKept
<1> QED
  BY <1>1, <1>2 DEF StepKeeps

\* invalidate.
LEMMA InvalidateKeeps ==
  ASSUME IInv, NEW u \in Subjects \cup {NoSubject}, NEW s \in Credentials \cup {NoSecret},
         Invalidate(u, s)
  PROVE  StepKeeps
<1> DEFINE gone == Stale \cup
             {f \in References : /\ Present(f)
                                 /\ u # NoSubject => record[f].subject = u
                                 /\ s # NoSecret => /\ record[f].kind = "gref"
                                                    /\ record[f].secret = s}
<1>1. gone \subseteq References /\ Idle /\ Delete(gone)
      /\ UNCHANGED <<now, spent, held, response, refused>>
  BY StaleNotLive DEF Invalidate
<1> HIDE DEF gone
<1>2. IInv' /\ ExpiredKept
  BY <1>1, DeleteKeeps
<1>3. LiveKept
  BY DEF LiveKept
<1> QED
  BY <1>2, <1>3 DEF StepKeeps

\* A live record refreshed, the others kept.
LEMMA OneRefreshed ==
  ASSUME IInv, NEW f \in References, Live(f)
  PROVE  Renewed({}, [record EXCEPT ![f] = Refresh(@)])
<1>1. Refresh(record[f]) \in Record
  BY RefreshTyped DEF IInv, TypeOK
<1> QED
  BY <1>1 DEF Renewed, IInv, TypeOK

LEMMA NoneRefreshed == ASSUME IInv PROVE Renewed({}, record)
BY DEF Renewed, IInv, TypeOK

\* inspectResponseToken.
LEMMA InspectKeeps ==
  ASSUME IInv, NEW u \in Subjects, NEW f \in References, Inspect(u, f)
  PROVE  StepKeeps
<1>1. CASE Expired(f)
  <2>1. /\ IInv' /\ ExpiredKept
        /\ \A g \in References \ {f} : Live(g) => Present(g)'
    BY <1>1, DeleteKeeps DEF Inspect
  <2>2. LiveKept
    BY <1>1, <2>1 DEF LiveKept, Live
  <2> QED
    BY <2>1, <2>2 DEF StepKeeps
<1>2. CASE ~Expired(f)
  <2>1. Live(f) /\ record' = [record EXCEPT ![f] = IF record[f].subject = u
                                                    THEN Refresh(@) ELSE @]
    BY <1>2 DEF Inspect, Live
  <2>2. CASE record[f].subject = u
    <3>1. record' = [record EXCEPT ![f] = Refresh(@)]
      BY <2>1, <2>2
    <3> QED
      BY <1>2, <2>1, <3>1, OneRefreshed, RefreshKeeps DEF Inspect, IInv, TypeOK
  <2>3. CASE record[f].subject # u
    <3>1. record' = record
      BY <2>1, <2>3 DEF IInv, TypeOK
    <3> QED
      BY <1>2, <3>1, NoneRefreshed, RefreshKeeps DEF Inspect, IInv, TypeOK
  <2> QED
    BY <2>2, <2>3
<1> QED
  BY <1>1, <1>2

\* consumePreflightedToken and consumePreflightedResponseSecret.
LEMMA ConsumeKeeps == ASSUME IInv, NEW r \in Requests, Consume(r) PROVE StepKeeps
<1> DEFINE f == held[r]
<1>1. /\ Idle /\ f \in References
      /\ record' = [record EXCEPT ![f] = IF Live(f) THEN Refresh(@) ELSE @]
      /\ held' = [held EXCEPT ![r] = NoReference]
      /\ UNCHANGED <<now, index, hashed, values, spent, response, refused>>
  BY DEF Consume, IInv, TypeOK
<1>2. held' \in [Requests -> References \cup {NoReference}]
  BY <1>1 DEF IInv, TypeOK
<1> HIDE DEF f
<1>3. CASE Live(f)
  <2>1. record' = [record EXCEPT ![f] = Refresh(@)]
    BY <1>1, <1>3
  <2> QED
    BY <1>1, <1>2, <1>3, <2>1, OneRefreshed, RefreshKeeps
<1>4. CASE ~Live(f)
  <2>1. record' = record
    BY <1>1, <1>4 DEF IInv, TypeOK
  <2> QED
    BY <1>1, <1>2, <2>1, NoneRefreshed, RefreshKeeps
<1> QED
  BY <1>3, <1>4

\* References to credentials have no hash and no index entry.
LEMMA TokensNotIndexed ==
  ASSUME IInv, NEW gone, \A f \in gone : f \in References /\ record[f].kind = "gref"
  PROVE  RemainingIndex(gone) = index /\ hashed \ gone = hashed
<1>1. \A f \in gone : f \notin hashed
  BY DEF IInv, Table, TableOK, IndexOK
<1>2. ASSUME NEW v \in Subjects, NEW s \in Secrets, index[<<v, s>>] \in gone
      PROVE  FALSE
  <2>1. index[<<v, s>>] # NoReference
    BY <1>2, TokenBrokerAssumption
  <2> QED
    BY <1>1, <1>2, <2>1 DEF IInv, Table, TableOK, IndexOK
<1>3. \A k \in Subjects \X Secrets : index[k] \notin gone
  BY <1>2
<1>4. RemainingIndex(gone) = index
  BY <1>3 DEF RemainingIndex, IInv, TypeOK
<1> QED
  BY <1>1, <1>4

\* preflightTokenUse and preflightResponseSecretUse.
LEMMA PreflightKeeps ==
  ASSUME IInv, NEW r \in Requests, NEW u \in Subjects, NEW f \in References,
         Preflight(r, u, f)
  PROVE  StepKeeps
<1>1. CASE Expired(f) /\ record[f].kind = "gref"
  <2>1. /\ record' = Remaining({f}) /\ Present(f) /\ Idle
        /\ UNCHANGED <<now, index, hashed, values, spent, held, response, refused>>
    BY <1>1 DEF Preflight
  <2>2. Renewed({f}, record')
    BY <2>1, RemainingRenewed DEF IInv
  <2>3. RemainingIndex({f}) = index /\ hashed \ {f} = hashed
    BY <1>1, TokensNotIndexed
  <2>4. TableOK(record', hashed, index, values \ {f}, spent) /\ LimitsOK(record')
    <3>1. /\ TableOK(record', hashed \ {f}, RemainingIndex({f}), values \ {f}, spent)
          /\ LimitsOK(record')
      BY <2>2, RenewedKeeps
    <3> QED
      BY <2>3, <3>1
  <2>5. TableOK(record', hashed, index, values, spent)
    BY <2>4, TableKeepsValues DEF IInv, TypeOK
  <2>6. IInv'
    BY <2>1, <2>4, <2>5, KeptWhileIdle DEF Table, IInv, TypeOK
  <2>7. LiveKept
    BY <1>1, <2>2, RenewedLive DEF LiveKept, Live
  <2> QED
    BY <2>2, <2>6, <2>7, RenewedExpiredKept DEF StepKeeps
<1>2. CASE Expired(f) /\ record[f].kind # "gref"
  <2>1. /\ IInv' /\ ExpiredKept
        /\ \A g \in References \ {f} : Live(g) => Present(g)'
    BY <1>2, DeleteKeeps DEF Preflight
  <2>2. LiveKept
    BY <1>2, <2>1 DEF LiveKept, Live
  <2> QED
    BY <2>1, <2>2 DEF StepKeeps
<1>3. CASE ~Expired(f)
  <2>1. held' = [held EXCEPT ![r] = IF record[f].subject = u THEN f ELSE @]
    BY <1>3 DEF Preflight
  <2>2. held' \in [Requests -> References \cup {NoReference}]
    BY <2>1 DEF IInv, TypeOK
  <2> QED
    BY <1>3, <2>2, NoneRefreshed, RefreshKeeps DEF Preflight
<1> QED
  BY <1>1, <1>2, <1>3

\* The clock moves.
LEMMA TickKeeps == ASSUME IInv, Tick PROVE StepKeeps
<1>1. now' \in Nat /\ UNCHANGED <<record, hashed, index, values, spent, held, response, refused>>
  BY DEF Tick, IInv, TypeOK
<1>2. IInv'
  BY <1>1 DEF IInv, TypeOK, Table, ReservedOK, ReservationHolds
<1>3. ExpiredKept
  BY <1>1 DEF ExpiredKept, IInv, Table, TableOK, RecordsOK, Present
<1>4. LiveKept
  BY <1>1 DEF LiveKept, Live, Present
<1> QED
  BY <1>2, <1>3, <1>4 DEF StepKeeps

\* issueTokens and issueRuntimeTokens.
LEMMA IssueTokensKeeps ==
  ASSUME IInv, NEW u \in Subjects, NEW b \in Bindings, NEW cs \in SUBSET Credentials,
         NEW fs \in [cs -> References], IssueTokens(u, b, cs, fs)
  PROVE  StepKeeps
<1> DEFINE rec == Remaining(Stale)
           N == {fs[c] : c \in cs}
<1>1. /\ Idle /\ fs \in [cs -> References \ spent]
      /\ index' = RemainingIndex(Stale) /\ hashed' = hashed \ Stale
      /\ UNCHANGED <<now, held, response, refused>>
  BY DEF IssueTokens
<1>2. Renewed(Stale, rec)
  BY StaleNotLive, RemainingRenewed DEF IInv
<1>3. /\ TableOK(rec, hashed \ Stale, RemainingIndex(Stale), values \ Stale, spent)
      /\ LimitsOK(rec)
  BY <1>2, RenewedKeeps
<1>4. CASE record' = rec /\ values' = values \ Stale /\ UNCHANGED spent
  <2>1. Table' /\ LimitsOK(record')
    BY <1>1, <1>3, <1>4 DEF Table
  <2>2. IInv'
    BY <1>1, <2>1, KeptWhileIdle DEF IInv, TypeOK
  <2>3. ExpiredKept
    BY <1>2, <1>4, RenewedExpiredKept
  <2>4. LiveKept
    BY <1>2, <1>4, StaleNotLive, RenewedLive DEF LiveKept
  <2> QED
    BY <2>2, <2>3, <2>4 DEF StepKeeps
<1>5. CASE /\ Room(Stale, u, Cardinality(cs))
           /\ record' = [f \in References |->
                IF \E c \in cs : fs[c] = f
                THEN NewRecord("gref", u, CHOOSE c \in cs : fs[c] = f, b)
                ELSE Remaining(Stale)[f]]
           /\ values' = (values \ Stale) \cup N
           /\ spent' = spent \cup N
  <2>1. IsFiniteSet(cs) /\ cs # {} /\ cs \subseteq Secrets
    BY TokenBrokerAssumption, FS_Subset DEF IssueTokens
  <2>2. Cardinality(cs) \in Nat /\ Cardinality(cs) # 0
    BY <2>1, FS_EmptySet, FS_CardinalityType
  <2>3. IsFiniteSet(N) /\ Cardinality(N) <= Cardinality(cs) /\ N \in SUBSET (References \ spent)
    BY <1>1, <2>1, ImageSize
  <2>4. Fits(rec, u, Cardinality(cs))
    BY <1>5, <2>2, StaleNotLive, RoomFits, RemainingWithout DEF IInv
  <2>5. ASSUME NEW f \in N
        PROVE  /\ record'[f] \in Record
               /\ record'[f].kind = "gref" /\ record'[f].subject = u
               /\ record'[f].secret \in Secrets /\ record'[f].idle <= record'[f].max
    <3>1. PICK c \in cs : c = (CHOOSE d \in cs : fs[d] = f)
      OBVIOUS
    <3>2. f \in References /\ \E d \in cs : fs[d] = f
      BY <2>3
    <3>3. record'[f] = NewRecord("gref", u, c, b) /\ c \in Secrets
      BY <1>5, <2>1, <3>1, <3>2
    <3> QED
      BY <3>3, NewRecordTyped DEF IInv, TypeOK
  <2>6. \A f \in References \ N : record'[f] = rec[f]
    BY <1>5
  <2>7. record' \in [References -> Record] /\ rec \in [References -> Record]
    <3>1. rec \in [References -> Record]
      BY <1>3 DEF TableOK
    <3>2. \A f \in References : record'[f] \in Record
      BY <2>5, <2>6, <3>1
    <3>3. DOMAIN record' = References /\ record' = [f \in References |-> record'[f]]
      BY <1>5
    <3> QED
      BY <3>1, <3>2, <3>3
  <2> HIDE DEF N, rec
  <2>8. /\ TableOK(record', hashed \ Stale, RemainingIndex(Stale),
                   (values \ Stale) \cup N, spent \cup N)
        /\ Added(rec, record', N, u)
    <3>1. TakesTokens(rec, record', spent, N, u)
      BY <2>3, <2>5, <2>6, <2>7 DEF TakesTokens
    <3> QED
      BY <1>3, <3>1, TableTakesTokens
  <2>9. LimitsOK(record')
    BY <1>3, <2>2, <2>3, <2>4, <2>8, LimitsTake
  <2>10. Table'
    BY <1>1, <1>5, <2>8 DEF Table
  <2>11. IInv'
    BY <1>1, <2>9, <2>10, KeptWhileIdle DEF IInv, TypeOK
  <2>12. \A f \in References : Present(f) => record'[f] = rec[f]
    BY <2>3, <2>6 DEF IInv, Table, TableOK, RecordsOK, Present
  <2>13. ExpiredKept
    BY <1>2, <2>12, RenewedExpiredKept
  <2>14. LiveKept
    BY <1>2, <2>12, StaleNotLive, RenewedLive DEF LiveKept, Live
  <2> QED
    BY <2>11, <2>13, <2>14 DEF StepKeeps
<1> QED
  BY <1>4, <1>5 DEF IssueTokens

\* The secrets for which assertResponseSecretCapacity asks are those of which the
\* subject has no live reference.
LEMMA FreshLack ==
  ASSUME IInv, NEW u \in Subjects, NEW found \in SUBSET Secrets,
         NEW rec2, Renewed(Stale, rec2)
  PROVE  Lacking(found, rec2, u) \subseteq Fresh(u, found)
<1> SUFFICES ASSUME NEW s \in Lacking(found, rec2, u), s \notin Fresh(u, found)
             PROVE  FALSE
  OBVIOUS
<1>1. s \in found /\ s \in Secrets /\ \A f \in HeldBy(rec2, u) : rec2[f].secret # s
  BY DEF Lacking
<1>2. PICK f \in References : Live(f) /\ record[f].subject = u /\ record[f].secret = s
  <2>1. CASE Configured(u, s) # {}
    BY <2>1 DEF Configured
  <2>2. CASE Reusable(u, s)
    <3>1. index[<<u, s>>] # NoReference /\ Live(index[<<u, s>>])
      BY <2>2 DEF Reusable
    <3>2. /\ index[<<u, s>>] \in hashed
          /\ record[index[<<u, s>>]].subject = u /\ record[index[<<u, s>>]].secret = s
      BY <1>1, <3>1 DEF IInv, Table, TableOK, IndexOK
    <3> QED
      BY <3>1, <3>2 DEF IInv, TypeOK
  <2> QED
    BY <1>1, <2>1, <2>2 DEF Fresh
<1>3. f \notin Stale /\ record[f] \in Record /\ now \in Nat
  BY <1>2, StaleNotLive DEF IInv, TypeOK
<1>4. rec2[f].subject = u /\ rec2[f].secret = s
  BY <1>2, <1>3, RefreshTyped DEF Renewed
<1> QED
  BY <1>1, <1>2, <1>4 DEF HeldBy

\* assertResponseSecretCapacity.
LEMMA AssertCapacityKeeps ==
  ASSUME IInv, NEW u \in Subjects, NEW b \in Bindings, NEW found \in SUBSET Secrets,
         AssertCapacity(u, b, found)
  PROVE  StepKeeps
<1>1. /\ Idle
      /\ response' = IF Room(Stale, u, Cardinality(Fresh(u, found)))
                     THEN [subject |-> u, binding |-> b, left |-> found]
                     ELSE NoResponse
      /\ index' = RemainingIndex(Stale) /\ hashed' = hashed \ Stale
      /\ values' = values \ Stale /\ UNCHANGED <<now, spent, held, refused>>
  BY DEF AssertCapacity
<1>2. PICK refreshed \in SUBSET UNION {Latest(u, s) : s \in found} :
        record' = [f \in References |-> IF f \in refreshed THEN Refresh(record[f])
                                                           ELSE Remaining(Stale)[f]]
  BY DEF AssertCapacity
<1>3. \A f \in refreshed : f \in References /\ Live(f)
  BY DEF Latest, Configured
<1>4. Renewed(Stale, record')
  <2>1. \A f \in References : record'[f] \in Record
    <3>1. \A f \in References : Remaining(Stale)[f] \in Record
      BY NoRecordTyped DEF Remaining, IInv, TypeOK
    <3>2. \A f \in References : Refresh(record[f]) \in Record
      BY RefreshTyped DEF IInv, TypeOK
    <3> QED
      BY <1>2, <3>1, <3>2
  <2>2. record' \in [References -> Record]
    BY <1>2, <2>1
  <2>3. \A f \in References :
          IF f \in Stale THEN record'[f] = NoRecord
          ELSE record'[f] = record[f] \/ (Live(f) /\ record'[f] = Refresh(record[f]))
    BY <1>2, <1>3, StaleNotLive DEF Remaining
  <2> QED
    BY <2>2, <2>3, StaleNotLive DEF Renewed
<1>5. /\ Table' /\ LimitsOK(record')
      /\ Held(record') = Held(record) \ Stale
      /\ \A v \in Subjects : HeldBy(record', v) = HeldBy(record, v) \ Stale
  BY <1>1, <1>4, RenewedKeeps DEF Table
<1>6. response'.left # {} => ReservedFor(found, record', u)
  <2>1. SUFFICES ASSUME Room(Stale, u, Cardinality(Fresh(u, found)))
                 PROVE  ReservedFor(found, record', u)
    BY <1>1 DEF NoResponse
  <2>2. Lacking(found, record', u) \subseteq Fresh(u, found) /\ Fresh(u, found) \subseteq found
    BY <1>4, FreshLack DEF Fresh
  <2>3. IsFiniteSet(Fresh(u, found)) /\ IsFiniteSet(Lacking(found, record', u))
    BY <2>2, TokenBrokerAssumption, FS_Subset
  <2>4. /\ Cardinality(Fresh(u, found)) \in Nat /\ Cardinality(Lacking(found, record', u)) \in Nat
        /\ Cardinality(Lacking(found, record', u)) <= Cardinality(Fresh(u, found))
    BY <2>2, <2>3, FS_Subset, FS_CardinalityType
  <2>5. Fits(record', u, Cardinality(Fresh(u, found)))
    <3>1. CASE Cardinality(Fresh(u, found)) = 0
      BY <1>5, <3>1 DEF LimitsOK
    <3>2. CASE Fits(Without(record, Stale), u, Cardinality(Fresh(u, found)))
      <4> DEFINE rec == Without(record, Stale)
      <4>a. Held(rec) = Held(record) \ Stale /\ HeldBy(rec, u) = HeldBy(record, u) \ Stale
        BY StaleNotLive, HeldWithout
      <4> HIDE DEF rec
      <4>1. Held(record') = Held(rec)
        BY <1>5, <4>a
      <4>2. HeldBy(record', u) = HeldBy(rec, u)
        BY <1>5, <4>a
      <4> QED
        BY <3>2, <4>1, <4>2 DEF Fits, rec
    <3> QED
      BY <2>1, <3>1, <3>2, StaleNotLive, RoomFits DEF IInv
  <2>6. Cardinality(Held(record')) \in Nat /\ Cardinality(HeldBy(record', u)) \in Nat
    BY <1>5, HeldFinite DEF Table, LimitsOK
  <2> QED
    BY <2>4, <2>5, <2>6, TokenBrokerAssumption DEF ReservedFor, Fits
<1>7. ReservedOK'
  BY <1>1, <1>6 DEF ReservedOK, NoResponse
<1>8. TypeOK'
  <2>1. response' \in [subject : Subjects \cup {NoSubject},
                       binding : Bindings \cup {NoBinding}, left : SUBSET Secrets]
    BY <1>1 DEF NoResponse
  <2> QED
    BY <1>1, <1>5, <2>1 DEF IInv, TypeOK, Table, TableOK, IndexOK
<1>9. ReservationHolds'
  BY <1>1 DEF IInv, ReservationHolds
<1>10. ExpiredKept
  BY <1>4, RenewedExpiredKept
<1>11. LiveKept
  BY <1>4, StaleNotLive, RenewedLive DEF LiveKept
<1> QED
  BY <1>5, <1>7, <1>8, <1>9, <1>10, <1>11 DEF IInv, StepKeeps

\* A secret done with: the others keep their places.
LEMMA TokenizedKeeps ==
  ASSUME IInv, NEW s \in response.left, Tokenized(s), Table', LimitsOK(record'),
         UNCHANGED <<now, held, refused>>,
         ReservedFor(response.left \ {s}, record', response.subject)
  PROVE  IInv'
<1>1. /\ response \in [subject : Subjects \cup {NoSubject},
                       binding : Bindings \cup {NoBinding}, left : SUBSET Secrets]
      /\ response.subject \in Subjects /\ response.binding \in Bindings
  BY DEF IInv, TypeOK, ReservedOK
<1>2. /\ response' \in [subject : Subjects \cup {NoSubject},
                        binding : Bindings \cup {NoBinding}, left : SUBSET Secrets]
      /\ ReservedOK'
  <2>1. CASE response.left = {s}
    <3>1. response' = NoResponse
      BY <2>1 DEF Tokenized
    <3> QED
      BY <3>1 DEF NoResponse, ReservedOK
  <2>2. CASE response.left # {s}
    <3>1. response' = [response EXCEPT !.left = @ \ {s}]
      BY <2>2 DEF Tokenized
    <3>2. /\ response'.left = response.left \ {s} /\ response'.subject = response.subject
          /\ response'.binding = response.binding
      BY <1>1, <3>1
    <3>3. ReservedOK'
      BY <1>1, <3>2 DEF ReservedOK
    <3> QED
      BY <1>1, <3>1, <3>3
  <2> QED
    BY <2>1, <2>2
<1> QED
  BY <1>2 DEF IInv, TypeOK, Table, TableOK, IndexOK, ReservationHolds

\* Deleting expired references and refreshing live ones while a response is
\* tokenized, its next secret being answered by one of them.
LEMMA AnsweredKeeps ==
  ASSUME IInv, NEW s \in response.left, Tokenized(s), UNCHANGED <<now, spent, held,
         refused>>,
         NEW gone \in SUBSET Stale, Renewed(gone, record'),
         index' = RemainingIndex(gone), hashed' = hashed \ gone, values' = values \ gone
  PROVE  StepKeeps
<1>1. Table' /\ LimitsOK(record')
  BY RenewedKeeps DEF Table
<1>2. /\ response.subject \in Subjects /\ IsFiniteSet(response.left)
      /\ ReservedFor(response.left, record, response.subject)
  <2>1. response.left \subseteq Secrets
    BY DEF IInv, TypeOK
  <2> QED
    BY <2>1, TokenBrokerAssumption, FS_Subset DEF IInv, ReservedOK
<1>3. ReservedFor(response.left, record', response.subject)
  BY <1>2, RenewedKeeps
<1>4. ReservedFor(response.left \ {s}, record', response.subject)
  <2>1. TableOK(record', hashed', index', values', spent')
    BY <1>1 DEF Table
  <2> QED
    BY <1>1, <1>2, <1>3, <2>1, ReservedForFewer
<1>5. IInv'
  BY <1>1, <1>4, TokenizedKeeps
<1>6. ExpiredKept
  BY RenewedExpiredKept
<1>7. LiveKept
  BY StaleNotLive, RenewedLive DEF LiveKept
<1> QED
  BY <1>5, <1>6, <1>7 DEF StepKeeps

\* A live reference refreshed while expired ones are deleted.
LEMMA RemainingRefreshed ==
  ASSUME IInv, NEW gone \in SUBSET Stale, NEW f \in References, Live(f),
         record' = [Remaining(gone) EXCEPT ![f] = Refresh(@)]
  PROVE  Renewed(gone, record')
<1>1. /\ Remaining(gone) \in [References -> Record]
      /\ \A g \in References : Remaining(gone)[g] = IF g \in gone THEN NoRecord ELSE record[g]
  BY NoRecordTyped DEF Remaining, IInv, TypeOK
<1>2. f \notin gone /\ Refresh(record[f]) \in Record
  BY StaleNotLive, RefreshTyped DEF IInv, TypeOK
<1> DEFINE rec == Remaining(gone)
<1> HIDE DEF rec
<1>3. record' = [rec EXCEPT ![f] = Refresh(rec[f])] /\ rec[f] = record[f]
  BY <1>1, <1>2 DEF rec
<1>4. /\ record' \in [References -> Record]
      /\ \A g \in References : record'[g] = IF g = f THEN Refresh(record[f]) ELSE rec[g]
  BY <1>1, <1>2, <1>3 DEF rec
<1> QED
  BY <1>1, <1>2, <1>4, StaleNotLive DEF Renewed, rec

\* findConfiguredTokenForSecret.
LEMMA UseConfiguredKeeps ==
  ASSUME IInv, NEW s \in Secrets, NEW f \in References, UseConfigured(s, f)
  PROVE  StepKeeps
<1> DEFINE dead == {g \in Stale : record[g].kind = "gref"}
<1>1. /\ s \in response.left /\ f \in Latest(response.subject, s)
      /\ record' = [Remaining(dead) EXCEPT ![f] = Refresh(@)]
      /\ values' = values \ dead /\ Tokenized(s)
      /\ UNCHANGED <<now, index, hashed, spent, held, refused>>
  BY DEF UseConfigured
<1>2. dead \subseteq Stale /\ \A g \in dead : g \in References /\ record[g].kind = "gref"
  BY StaleNotLive
<1> HIDE DEF dead
<1>3. Live(f)
  BY <1>1 DEF Latest, Configured
<1>4. Renewed(dead, record')
  BY <1>1, <1>2, <1>3, RemainingRefreshed
<1>5. RemainingIndex(dead) = index /\ hashed \ dead = hashed
  BY <1>2, TokensNotIndexed
<1> QED
  BY <1>1, <1>2, <1>4, <1>5, AnsweredKeeps

\* issueOrReuseResponseSecret, under the same bindings.
LEMMA ReuseResponseSecretKeeps ==
  ASSUME IInv, NEW s \in Secrets, ReuseResponseSecret(s)
  PROVE  StepKeeps
<1> DEFINE f == index[<<response.subject, s>>]
<1>1. /\ s \in response.left /\ Tokenized(s)
      /\ f # NoReference /\ Live(f)
      /\ record' = [Remaining(Stale) EXCEPT ![f] = Refresh(@)]
      /\ index' = RemainingIndex(Stale) /\ hashed' = hashed \ Stale
      /\ values' = values \ Stale /\ UNCHANGED <<now, spent, held, refused>>
  BY DEF ReuseResponseSecret, Reusable
<1>2. f \in References
  <2>1. response.subject \in Subjects
    BY <1>1 DEF IInv, ReservedOK
  <2> QED
    BY <1>1, <2>1 DEF IInv, TypeOK
<1> HIDE DEF f
<1>3. Renewed(Stale, record')
  BY <1>1, <1>2, RemainingRefreshed
<1> QED
  BY <1>1, <1>3, AnsweredKeeps

\* issueOrReuseResponseSecret, of a secret of which the subject has no reference
\* under the response's bindings: what was reserved is there.
LEMMA IssueResponseSecretKeeps ==
  ASSUME IInv, NEW s \in Secrets, NEW f \in References, IssueResponseSecret(s, f)
  PROVE  StepKeeps
<1> DEFINE u == response.subject
           old == index[<<u, s>>]
           gone == Stale \cup ({old} \ {NoReference})
           rec == Remaining(gone)
           idx == RemainingIndex(gone)
           x == NewRecord("sec", u, s, response.binding)
<1>1. /\ s \in response.left /\ Configured(u, s) = {} /\ f \notin spent
      /\ ~(Reusable(u, s) /\ record[old].binding = response.binding)
      /\ UNCHANGED <<now, held>>
  BY DEF IssueResponseSecret
<1>2. Room(gone, u, 1) =>
        /\ record' = [rec EXCEPT ![f] = x] /\ index' = [idx EXCEPT ![<<u, s>>] = f]
        /\ hashed' = (hashed \ gone) \cup {f} /\ values' = (values \ gone) \cup {f}
        /\ spent' = spent \cup {f} /\ Tokenized(s) /\ UNCHANGED refused
  BY DEF IssueResponseSecret
<1>3. /\ u \in Subjects /\ response.binding \in Bindings /\ IsFiniteSet(response.left)
      /\ ReservedFor(response.left, record, u)
  <2>1. response.left \subseteq Secrets
    BY DEF IInv, TypeOK
  <2> QED
    BY <1>1, <2>1, TokenBrokerAssumption, FS_Subset DEF IInv, ReservedOK
<1>4. old # NoReference => /\ old \in References /\ record[old].kind = "sec"
                           /\ record[old].subject = u /\ record[old].secret = s
  BY <1>3 DEF IInv, Table, TableOK, IndexOK
<1>5. /\ gone \in SUBSET References
      /\ Reusable(u, s) <=> (old # NoReference /\ Live(old))
  BY <1>4, StaleNotLive DEF Reusable
<1>6. idx[<<u, s>>] = NoReference
  BY <1>3 DEF RemainingIndex, IInv, TypeOK
<1>7. ASSUME NEW g \in References \ gone, record[g].kind # "none"
      PROVE  ~(record[g].subject = u /\ record[g].secret = s)
  <2>1. SUFFICES ASSUME record[g].subject = u, record[g].secret = s
                 PROVE  FALSE
    OBVIOUS
  <2>2. Live(g) /\ g \in values /\ record[g].kind \in {"gref", "sec"}
    BY <1>7, StaleNotLive DEF IInv, TypeOK, Record, Table, TableOK, RecordsOK, Present
  <2>3. CASE record[g].kind = "gref"
    BY <1>1, <2>1, <2>2, <2>3 DEF Configured
  <2>4. CASE record[g].kind = "sec"
    <3>1. old = g
      BY <2>1, <2>4 DEF IInv, Table, TableOK, IndexOK
    <3> QED
      BY <1>7, <3>1, TokenBrokerAssumption
  <2> QED
    BY <2>2, <2>3, <2>4
<1>8. \A g \in References : rec[g] = IF g \in gone THEN NoRecord ELSE record[g]
  BY DEF Remaining
<1> HIDE DEF u, old, gone, rec, idx, x
<1>9. Renewed(gone, rec)
  BY <1>5, RemainingRenewed DEF IInv, rec
<1>10. /\ TableOK(rec, hashed \ gone, idx, values \ gone, spent) /\ LimitsOK(rec)
       /\ ReservedFor(response.left, rec, u)
  BY <1>3, <1>9, RenewedKeeps DEF idx
<1>11. s \in Lacking(response.left, rec, u)
  <2>1. ASSUME NEW g \in HeldBy(rec, u)
        PROVE  rec[g].secret # s
    <3>1. g \in References /\ rec[g].subject = u /\ rec[g].kind # "none"
      BY <1>3, <1>10, HeldByHeld DEF HeldBy, Held
    <3> QED
      BY <1>7, <1>8, <3>1, NoRecordTyped
  <2> QED
    BY <1>1, <2>1 DEF Lacking
<1>12. Room(gone, u, 1)
  <2>1. Fits(rec, u, 1)
    BY <1>3, <1>10, <1>11, ReservedTaken
  <2>2. rec = Without(record, gone)
    BY RemainingWithout DEF IInv, rec
  <2>3. Fits(Without(record, gone), u, 1)
    BY <2>1, <2>2
  <2> QED
    BY <1>3, <1>5, <2>3, RoomFits DEF IInv
<1>13. /\ x \in Record /\ x.kind = "sec" /\ x.subject = u /\ x.secret = s
       /\ x.idle <= x.max
  BY <1>3, NewRecordTyped DEF x, IInv, TypeOK
<1>14. /\ TableOK(record', hashed', index', values', spent')
       /\ Added(rec, record', {f}, u)
  <2>1. /\ TableOK([rec EXCEPT ![f] = x], (hashed \ gone) \cup {f},
                   [idx EXCEPT ![<<u, s>>] = f], (values \ gone) \cup {f}, spent \cup {f})
        /\ Added(rec, [rec EXCEPT ![f] = x], {f}, u)
    BY <1>1, <1>3, <1>6, <1>10, <1>13, TableTakesSecret
  <2> QED
    BY <1>2, <1>12, <2>1
<1>15. LimitsOK(record')
  <2>1. IsFiniteSet({f}) /\ Cardinality({f}) = 1
    BY FS_Singleton
  <2>2. Fits(rec, u, 1)
    BY <1>3, <1>10, <1>11, ReservedTaken
  <2> QED
    BY <1>3, <1>10, <1>14, <2>1, <2>2, LimitsTake
<1>16. record'[f] = x /\ \A g \in References \ {f} : record'[g] = rec[g]
  BY <1>2, <1>10, <1>12 DEF TableOK
<1>17. ReservedFor(response.left \ {s}, record', u)
  <2>1. f \notin Held(rec) /\ f \notin HeldBy(rec, u)
    BY <1>1, <1>3, <1>10, NewOnes
  <2>2. \A g \in HeldBy(rec, u) : record'[g] = rec[g]
    BY <1>16, <2>1 DEF HeldBy
  <2>3. record'[f].secret = s
    BY <1>13, <1>16
  <2> QED
    BY <1>3, <1>10, <1>11, <1>14, <2>1, <2>2, <2>3, ReservedTaken
<1>18. IInv'
  BY <1>1, <1>2, <1>12, <1>14, <1>15, <1>17, TokenizedKeeps DEF Table, u
<1>19. \A g \in References : Present(g) => record'[g] = rec[g]
  BY <1>1, <1>16 DEF IInv, Table, TableOK, RecordsOK, Present
<1>20. ExpiredKept
  BY <1>9, <1>19, RenewedExpiredKept
<1>21. LiveKept
  <2>1. ASSUME NEW g \in References, Live(g), ~Present(g)'
        PROVE  /\ record[g].kind = "sec" /\ record[g].binding # response.binding
               /\ record[g].secret \in response.left
    <3>1. g \in gone
      BY <1>9, <1>19, <2>1, RenewedLive DEF Live
    <3>2. g = old /\ old # NoReference
      BY <2>1, <3>1, StaleNotLive DEF gone
    <3> QED
      BY <1>1, <1>4, <1>5, <2>1, <3>2
  <2> QED
    BY <2>1 DEF LiveKept
<1> QED
  BY <1>18, <1>20, <1>21 DEF StepKeeps

(* The theorems.                                                           *)

LEMMA InitHolds == ASSUME Init PROVE IInv
<1>1. record = [f \in References |-> NoRecord]
  BY DEF Init
<1>2. Held(record) = {} /\ \A u \in Subjects : HeldBy(record, u) = {}
  BY <1>1, NoRecordTyped, TokenBrokerAssumption DEF Held, HeldBy
<1>3. IsFiniteSet({}) /\ Cardinality({}) = 0
  BY FS_EmptySet
<1>4. LimitsOK(record)
  BY <1>2, <1>3, TokenBrokerAssumption DEF LimitsOK, Fits
<1>5. TypeOK
  BY NoRecordTyped DEF Init, TypeOK, NoResponse
<1>6. Table
  BY <1>1, <1>5, NoRecordTyped DEF Init, TypeOK, Table, TableOK, RecordsOK, IndexOK
<1>7. ReservationHolds /\ ReservedOK
  BY DEF Init, ReservationHolds, ReservedOK, NoResponse
<1> QED
  BY <1>4, <1>5, <1>6, <1>7 DEF IInv

LEMMA StepHolds == ASSUME IInv, Next PROVE StepKeeps
<1>1. ASSUME NEW u \in Subjects, NEW b \in Bindings, NEW cs \in SUBSET Credentials,
             NEW fs \in [cs -> References], IssueTokens(u, b, cs, fs)
      PROVE  StepKeeps
  BY <1>1, IssueTokensKeeps
<1>2. ASSUME NEW r \in Requests, NEW u \in Subjects, NEW f \in References,
             Preflight(r, u, f)
      PROVE  StepKeeps
  BY <1>2, PreflightKeeps
<1>3. ASSUME NEW r \in Requests, Consume(r)
      PROVE  StepKeeps
  BY <1>3, ConsumeKeeps
<1>4. ASSUME NEW u \in Subjects, NEW f \in References, Inspect(u, f)
      PROVE  StepKeeps
  BY <1>4, InspectKeeps
<1>5. CASE SweepExpired
  BY <1>5, SweepExpiredKeeps
<1>6. ASSUME NEW u \in Subjects \cup {NoSubject}, NEW s \in Credentials \cup {NoSecret},
             Invalidate(u, s)
      PROVE  StepKeeps
  BY <1>6, InvalidateKeeps
<1>7. ASSUME NEW u \in Subjects, NEW b \in Bindings, NEW found \in SUBSET Secrets,
             AssertCapacity(u, b, found)
      PROVE  StepKeeps
  BY <1>7, AssertCapacityKeeps
<1>8. ASSUME NEW s \in Secrets, ReuseResponseSecret(s)
      PROVE  StepKeeps
  BY <1>8, ReuseResponseSecretKeeps
<1>9. ASSUME NEW s \in Secrets, NEW f \in References, UseConfigured(s, f)
      PROVE  StepKeeps
  BY <1>9, UseConfiguredKeeps
<1>10. ASSUME NEW s \in Secrets, NEW f \in References, IssueResponseSecret(s, f)
       PROVE  StepKeeps
  BY <1>10, IssueResponseSecretKeeps
<1>11. CASE Tick
  BY <1>11, TickKeeps
<1> QED
  BY <1>1, <1>2, <1>3, <1>4, <1>5, <1>6, <1>7, <1>8, <1>9, <1>10, <1>11 DEF Next

LEMMA StutterHolds == ASSUME IInv, UNCHANGED vars PROVE IInv'
BY DEF IInv, vars, TypeOK, Table, ReservedOK, ReservationHolds

\* Whatever requests, responses, sweeps and invalidations come, and however the
\* clock moves between the steps of a response, the table is one, is within its
\* limits and has a place for what is reserved.
THEOREM TableInductive == Spec => []IInv
<1>1. IInv /\ [Next]_vars => IInv'
  BY StepHolds, StutterHolds DEF StepKeeps
<1> QED
  BY InitHolds, <1>1, PTL DEF Spec

\* The invariant says what the four maps have to do with each other, and that the
\* limits hold.
LEMMA TableAgrees == ASSUME IInv PROVE MapsAgree /\ WithinCapacity
<1>1. MapsAgree
  <2>1. \A f \in References : record[f].kind = "sec" =>
          /\ index[<<record[f].subject, record[f].secret>>] = f /\ f \in values
    BY DEF IInv, Table, TableOK, RecordsOK, IndexOK
  <2>2. \A u \in Subjects, s \in Secrets : index[<<u, s>>] # NoReference =>
          index[<<u, s>>] \in {f \in References : record[f].kind = "sec"}
    BY DEF IInv, Table, TableOK, IndexOK
  <2>3. hashed = {f \in References : record[f].kind = "sec"}
    BY DEF IInv, Table, TableOK, IndexOK
  <2> QED
    BY <2>1, <2>2, <2>3 DEF MapsAgree
<1>2. Cardinality(Held(record)) <= MaxRecords
  <2>1. CASE Subjects = {}
    <3>1. Held(record) = {}
      BY <2>1 DEF Held, IInv, Table, TableOK, RecordsOK
    <3> QED
      BY <3>1, FS_EmptySet, TokenBrokerAssumption
  <2>2. ASSUME NEW u \in Subjects
        PROVE  Cardinality(Held(record)) <= MaxRecords
    BY HeldFinite DEF IInv, Table, LimitsOK, Fits
  <2> QED
    BY <2>1, <2>2
<1>3. ASSUME NEW u \in Subjects
      PROVE  Cardinality(HeldBy(record, u)) <= MaxPerSubject
  BY HeldFinite DEF IInv, Table, LimitsOK, Fits
<1>4. /\ Held(record) = {f \in References : Present(f)}
      /\ \A u : HeldBy(record, u) = {f \in References : record[f].subject = u}
  BY DEF Held, HeldBy, Present
<1>5. WithinCapacity
  BY <1>2, <1>3, <1>4 DEF WithinCapacity
<1> QED
  BY <1>1, <1>5

\* The table at its limits, as TableKept states it.
THEOREM TableStaysKept == Spec => TableKept
<1>1. IInv => TypeOK /\ MapsAgree /\ WithinCapacity /\ ReservationHolds
  BY TableAgrees DEF IInv
<1>2. IInv /\ [Next]_vars =>
        [\A f \in References :
           (Present(f) /\ Present(f)') =>
             /\ Expired(f) => record'[f] = record[f]
             /\ record'[f].max = record[f].max /\ record'[f].idle <= record[f].max]_vars
  BY StepHolds DEF StepKeeps, ExpiredKept
<1>3. IInv /\ [Next]_vars =>
        [\A f \in References :
           (Live(f) /\ ~Present(f)') =>
             \/ \E u \in Subjects \cup {NoSubject}, s \in Credentials \cup {NoSecret} :
                  Invalidate(u, s)
             \/ record[f].kind = "sec" /\ record[f].binding # response.binding
                /\ record[f].secret \in response.left]_vars
  BY StepHolds DEF StepKeeps, LiveKept
<1> QED
  BY TableInductive, <1>1, <1>2, <1>3, PTL
     DEF Spec, TableKept, ExpiredStaysDead, LiveNotEvicted

-----------------------------------------------------------------------------
(* The places of requests and scans.                                       *)

\* What the limits and the workers have to be.
ScanBounds ==
  /\ IsFiniteSet(Jobs) /\ Scanning!NoJob \notin Jobs
  /\ MaxTotal \in Nat /\ MaxPerSource \in Nat /\ MaxPerService \in Nat
  /\ PoolWorkers \in Nat /\ QueueMax \in Nat /\ SubjectActiveMax \in Nat /\ MaxFailures \in Nat

Workers == 1..PoolWorkers
Entry == [job : Jobs \cup {Scanning!NoJob}, runs : BOOLEAN]
PoolRow == [slot : [Workers -> Entry], queue : Seq(Jobs), active : [Subjects -> Nat]]
Scanned == [at : {"open", "scanned", "refused", "scanning", "queued"},
            subject : Subjects, service : Bindings]

\* The jobs that a worker has, and those that wait.
RunningIn(p) == {j \in Jobs : \E i \in Workers : p.slot[i].job = j}
WaitingIn(p) == {j \in Jobs : \E k \in 1..Len(p.queue) : p.queue[k] = j}

\* A pool has each job in one place, within the limits, and counts those that run.
PoolOK(p, req) ==
  /\ p \in PoolRow
  /\ Len(p.queue) <= QueueMax
  /\ \A a, b \in 1..Len(p.queue) : p.queue[a] = p.queue[b] => a = b
  /\ \A i, n \in Workers : p.slot[i].job = p.slot[n].job /\ p.slot[i].job # Scanning!NoJob => i = n
  /\ RunningIn(p) \cap WaitingIn(p) = {}
  /\ \A j \in RunningIn(p) \cup WaitingIn(p) : req[j] \in Scanned
  /\ \A s \in Subjects :
       /\ p.active[s] = Cardinality({j \in RunningIn(p) : req[j].subject = s})
       /\ p.active[s] <= SubjectActiveMax

\* No worker up to n is free while a job could start.
SettledTo(p, n) ==
  \A i \in 1..n : p.slot[i].job = Scanning!NoJob =>
    \A k \in 1..Len(p.queue) : ~Scanning!Eligible(p, p.queue[k])

LEMMA Least ==
  ASSUME NEW T \in SUBSET Nat, T # {}
  PROVE  \E x \in T : \A y \in T : x <= y
<1>1. \E x \in T : \A y \in T : ~ (<<y, x>> \in OpToRel(<,Nat))
  BY NatLessThanWellFounded, WFMin
<1>2. OpToRel(<,Nat) = {w \in Nat \X Nat : w[1] < w[2]}
  BY DEF OpToRel
<1>3. PICK x \in T : \A y \in T : ~ (<<y, x>> \in {w \in Nat \X Nat : w[1] < w[2]})
  BY <1>1, <1>2
<1>4. ASSUME NEW y \in T PROVE x <= y
  <2>1. x \in Nat /\ y \in Nat /\ <<y, x>> \in Nat \X Nat
    OBVIOUS
  <2>2. ~(y < x)
    BY <1>3, <2>1
  <2> QED
    BY <2>1, <2>2
<1> QED
  BY <1>4

\* What holds of 0 and of the next holds of all.
LEMMA Upwards ==
  ASSUME NEW S, 0 \in S, \A n \in Nat : n \in S => n + 1 \in S
  PROVE  Nat \subseteq S
<1> SUFFICES ASSUME Nat \ S # {} PROVE FALSE
  OBVIOUS
<1>1. PICK x \in Nat \ S : \A y \in Nat \ S : x <= y
  BY Least
<1>2. x # 0 /\ x - 1 \in Nat
  BY <1>1
<1>3. x - 1 \in S
  BY <1>1, <1>2
<1>4. (x - 1) + 1 = x
  BY <1>1
<1> QED
  BY <1>1, <1>2, <1>3, <1>4

LEMMA DispatchSteps ==
  ASSUME ScanBounds, NEW p
  PROVE  \E f : /\ f = [i \in 0..PoolWorkers |-> IF i = 0 THEN p ELSE Scanning!DispatchTo(f[i - 1], i)]
                /\ Scanning!Dispatched(p) = f[PoolWorkers]
<1> DEFINE Has(n) == \E f : f = [i \in 0..n |-> IF i = 0 THEN p ELSE Scanning!DispatchTo(f[i - 1], i)]
           good == {n \in Nat : Has(n)}
           F == CHOOSE f : f = [i \in 0..PoolWorkers |-> IF i = 0 THEN p ELSE Scanning!DispatchTo(f[i - 1], i)]
<1>1. Has(0)
  <2> DEFINE f == [i \in 0..0 |-> p]
  <2>1. f = [i \in 0..0 |-> IF i = 0 THEN p ELSE Scanning!DispatchTo(f[i - 1], i)]
    OBVIOUS
  <2> QED
    BY <2>1
<1>2. ASSUME NEW n \in Nat, Has(n) PROVE Has(n + 1)
  <2>1. PICK f : f = [i \in 0..n |-> IF i = 0 THEN p ELSE Scanning!DispatchTo(f[i - 1], i)]
    BY <1>2
  <2> DEFINE g == [i \in 0..(n + 1) |-> IF i = n + 1 THEN Scanning!DispatchTo(f[n], n + 1) ELSE f[i]]
  <2>2. \A i \in 0..(n + 1) : g[i] = IF i = 0 THEN p ELSE Scanning!DispatchTo(g[i - 1], i)
    <3> TAKE i \in 0..(n + 1)
    <3>1. CASE i = n + 1
      BY <3>1
    <3>2. CASE i \in 0..n
      <4>1. g[i] = f[i]
        BY <3>2
      <4>2. i # 0 => g[i - 1] = f[i - 1]
        BY <3>2
      <4>3. f[i] = IF i = 0 THEN p ELSE Scanning!DispatchTo(f[i - 1], i)
        BY <2>1, <3>2
      <4> QED
        BY <4>1, <4>2, <4>3
    <3> QED
      BY <3>1, <3>2
  <2>3. g = [i \in 0..(n + 1) |-> IF i = 0 THEN p ELSE Scanning!DispatchTo(g[i - 1], i)]
    BY <2>2
  <2> QED
    BY <2>3
<1>3. Has(PoolWorkers)
  <2> HIDE DEF Has
  <2>1. 0 \in good /\ \A n \in Nat : n \in good => n + 1 \in good
    BY <1>1, <1>2
  <2> HIDE DEF good
  <2>2. Nat \subseteq good
    BY <2>1, Upwards
  <2> USE DEF good
  <2> QED
    BY <2>2 DEF ScanBounds
<1>4. F = [i \in 0..PoolWorkers |-> IF i = 0 THEN p ELSE Scanning!DispatchTo(F[i - 1], i)]
  BY <1>3
<1>5. Scanning!Dispatched(p) = F[PoolWorkers]
  BY DEF Scanning!Dispatched
<1> QED
  BY <1>4, <1>5

\* A pool whose queue lost one job is still one, and nothing else changes.
LEMMA QueueShrinks ==
  ASSUME ScanBounds, NEW req, NEW p, PoolOK(p, req), NEW k \in 1..Len(p.queue),
         NEW p2 \in PoolRow,
         p2.slot = p.slot, p2.active = p.active, p2.queue = Scanning!RemoveAt(p.queue, k)
  PROVE  /\ PoolOK(p2, req) /\ RunningIn(p2) = RunningIn(p)
         /\ WaitingIn(p2) = WaitingIn(p) \ {p.queue[k]} /\ p.queue[k] \in WaitingIn(p)
<1> DEFINE q == p.queue
           r == p2.queue
<1>1. q \in Seq(Jobs) /\ (\A a, b \in 1..Len(q) : q[a] = q[b] => a = b) /\ Len(q) <= QueueMax
  BY DEF PoolOK, PoolRow
<1>2. /\ r \in Seq(Jobs) /\ Len(r) = Len(q) - 1 /\ Len(q) \in Nat
      /\ \A a \in 1..(Len(q) - 1) : r[a] = IF a < k THEN q[a] ELSE q[a + 1]
  <2>1. /\ Scanning!RemoveAt(q, k) \in Seq(Jobs) /\ Len(Scanning!RemoveAt(q, k)) = Len(q) - 1
        /\ \A a \in 1..(Len(q) - 1) : Scanning!RemoveAt(q, k)[a] = IF a < k THEN q[a] ELSE q[a + 1]
    BY ONLY <1>1, k \in 1..Len(q), Removed DEF Scanning!RemoveAt
  <2>2. Len(q) \in Nat
    BY <1>1
  <2> QED
    BY <2>1, <2>2
<1>3. \A a \in 1..Len(q) : q[a] \in Jobs
  BY <1>1
<1> HIDE DEF q, r
<1>4. ASSUME NEW a \in 1..Len(r), NEW b \in 1..Len(r), r[a] = r[b] PROVE a = b
  <2> DEFINE at(x) == IF x < k THEN x ELSE x + 1
  <2>1. at(a) \in 1..Len(q) /\ at(b) \in 1..Len(q) /\ r[a] = q[at(a)] /\ r[b] = q[at(b)]
    BY <1>2 DEF q
  <2>2. at(a) = at(b)
    BY <1>1, <1>4, <2>1
  <2> QED
    BY <1>2, <2>2 DEF q
<1>5. \A j : (\E a \in 1..Len(r) : r[a] = j) <=> (\E b \in 1..Len(q) : b # k /\ q[b] = j)
  <2> SUFFICES ASSUME NEW j
               PROVE  (\E a \in 1..Len(r) : r[a] = j) <=> (\E b \in 1..Len(q) : b # k /\ q[b] = j)
    OBVIOUS
  <2>1. ASSUME NEW a \in 1..Len(r), r[a] = j PROVE \E b \in 1..Len(q) : b # k /\ q[b] = j
    <3> DEFINE b == IF a < k THEN a ELSE a + 1
    <3>1. b \in 1..Len(q) /\ b # k /\ q[b] = j
      BY <1>2, <2>1 DEF q
    <3> QED
      BY <3>1
  <2>2. ASSUME NEW b \in 1..Len(q), b # k, q[b] = j PROVE \E a \in 1..Len(r) : r[a] = j
    <3> DEFINE a == IF b < k THEN b ELSE b - 1
    <3>1. a \in 1..Len(r) /\ r[a] = j
      BY <1>2, <2>2 DEF q
    <3> QED
      BY <3>1
  <2> QED
    BY <2>1, <2>2
<1>6. WaitingIn(p2) = WaitingIn(p) \ {p.queue[k]} /\ p.queue[k] \in WaitingIn(p)
  <2>1. \A j : j \in WaitingIn(p) <=> j \in Jobs /\ \E b \in 1..Len(q) : q[b] = j
    BY DEF WaitingIn, q
  <2>2. \A j : j \in WaitingIn(p2) <=> j \in Jobs /\ \E a \in 1..Len(r) : r[a] = j
    BY DEF WaitingIn, r
  <2>3. q[k] \in WaitingIn(p) /\ q[k] = p.queue[k] /\ k \in 1..Len(q)
    BY <1>3, <2>1 DEF q
  <2>4. ASSUME NEW j
        PROVE  (\E b \in 1..Len(q) : b # k /\ q[b] = j) <=> (\E b \in 1..Len(q) : q[b] = j) /\ j # q[k]
    BY <1>1, <2>3
  <2> QED
    BY <1>5, <2>1, <2>2, <2>3, <2>4
<1>7. RunningIn(p2) = RunningIn(p)
  BY DEF RunningIn
<1>8. Len(p2.queue) <= QueueMax
  BY <1>1, <1>2 DEF r, ScanBounds
<1> QED
  BY <1>4, <1>6, <1>7, <1>8 DEF PoolOK, r

\* A worker takes a job whose subject is below its limit.
Starts(p, p2, i, j, req) ==
  /\ PoolOK(p, req) /\ i \in Workers /\ p.slot[i].job = Scanning!NoJob
  /\ j \in Jobs /\ j \notin RunningIn(p) /\ j \notin WaitingIn(p) /\ req[j] \in Scanned
  /\ p.active[req[j].subject] < SubjectActiveMax
  /\ p2 \in PoolRow /\ p2.slot = [p.slot EXCEPT ![i].job = j] /\ p2.queue = p.queue
  /\ p2.active = [p.active EXCEPT ![req[j].subject] = @ + 1]

LEMMA WorkerStarts ==
  ASSUME ScanBounds, NEW req, NEW p, NEW p2, NEW i, NEW j, Starts(p, p2, i, j, req)
  PROVE  PoolOK(p2, req) /\ RunningIn(p2) = RunningIn(p) \cup {j} /\ WaitingIn(p2) = WaitingIn(p)
<1> DEFINE u == req[j].subject
<1> USE DEF Starts
<1>1. /\ p2.slot[i].job = j /\ \A n \in Workers : n # i => p2.slot[n] = p.slot[n]
      /\ u \in Subjects /\ p2.active[u] = p.active[u] + 1
      /\ \A s \in Subjects : s # u => p2.active[s] = p.active[s]
      /\ j # Scanning!NoJob /\ p.active \in [Subjects -> Nat]
  BY DEF PoolOK, PoolRow, Entry, Scanned, ScanBounds
<1>2. RunningIn(p2) = RunningIn(p) \cup {j}
  BY <1>1 DEF RunningIn, ScanBounds
<1>3. WaitingIn(p2) = WaitingIn(p)
  BY DEF WaitingIn
<1>4. ASSUME NEW m \in Workers, NEW n \in Workers, p2.slot[m].job = p2.slot[n].job,
             p2.slot[m].job # Scanning!NoJob
      PROVE  m = n
  BY <1>1, <1>4 DEF PoolOK, RunningIn
<1>5. ASSUME NEW s \in Subjects
      PROVE  /\ p2.active[s] = Cardinality({k \in RunningIn(p2) : req[k].subject = s})
             /\ p2.active[s] <= SubjectActiveMax
  <2> DEFINE S == {k \in RunningIn(p) : req[k].subject = s}
  <2>1. p.active[s] = Cardinality(S) /\ p.active[s] <= SubjectActiveMax
    BY DEF PoolOK
  <2>2. IsFiniteSet(S)
    BY FS_Subset DEF RunningIn, ScanBounds
  <2>3. CASE s = u
    <3>1. {k \in RunningIn(p2) : req[k].subject = s} = S \cup {j} /\ j \notin S
      BY <1>2, <2>3
    <3>2. Cardinality(S \cup {j}) = Cardinality(S) + 1
      BY <2>2, <3>1, FS_AddElement
    <3> HIDE DEF S
    <3>3. p2.active[s] = p.active[s] + 1
      BY <1>1, <2>3
    <3>4. p.active[s] + 1 <= SubjectActiveMax
      BY <1>1, <2>3 DEF ScanBounds
    <3> QED
      BY <2>1, <3>1, <3>2, <3>3, <3>4
  <2>4. CASE s # u
    <3>1. {k \in RunningIn(p2) : req[k].subject = s} = S
      BY <1>2, <2>4
    <3> QED
      BY <1>1, <2>1, <2>4, <3>1
  <2> QED
    BY <2>3, <2>4
<1>6. RunningIn(p2) \cap WaitingIn(p2) = {} /\ \A k \in RunningIn(p2) \cup WaitingIn(p2) : req[k] \in Scanned
  BY <1>2, <1>3 DEF PoolOK
<1>7. Len(p2.queue) <= QueueMax /\ \A a, b \in 1..Len(p2.queue) : p2.queue[a] = p2.queue[b] => a = b
  BY DEF PoolOK
<1>8. PoolOK(p2, req)
  BY <1>4, <1>5, <1>6, <1>7 DEF PoolOK
<1> QED
  BY <1>2, <1>3, <1>8

\* Nothing is lost between two pools, and what runs goes on.
Follows(p, p2) ==
  /\ RunningIn(p) \subseteq RunningIn(p2)
  /\ RunningIn(p2) \cup WaitingIn(p2) = RunningIn(p) \cup WaitingIn(p)

\* A turn of dispatch fills its worker if a job can start.
LEMMA TurnOK ==
  ASSUME ScanBounds, NEW p, PoolOK(p, request), NEW i \in Workers, SettledTo(p, i - 1)
  PROVE  /\ PoolOK(Scanning!DispatchTo(p, i), request) /\ Follows(p, Scanning!DispatchTo(p, i))
         /\ SettledTo(Scanning!DispatchTo(p, i), i)
<1> DEFINE places == {k \in DOMAIN p.queue : Scanning!Eligible(p, p.queue[k])}
<1>0. /\ p \in PoolRow /\ p.queue \in Seq(Jobs) /\ DOMAIN p.queue = 1..Len(p.queue) /\ Len(p.queue) \in Nat
      /\ p.active \in [Subjects -> Nat] /\ p.slot \in [Workers -> Entry] /\ i \in Nat
  BY DEF PoolOK, PoolRow, Workers
<1>1. CASE p.slot[i].job # Scanning!NoJob
  <2>1. Scanning!DispatchTo(p, i) = p
    BY <1>1 DEF Scanning!DispatchTo
  <2>2. SettledTo(p, i)
    BY <1>0, <1>1 DEF SettledTo
  <2> QED
    BY <2>1, <2>2 DEF Follows
<1>2. CASE p.slot[i].job = Scanning!NoJob /\ places = {}
  <2>1. Scanning!DispatchTo(p, i) = p
    BY <1>2 DEF Scanning!DispatchTo
  <2>2. SettledTo(p, i)
    BY <1>0, <1>2 DEF SettledTo
  <2> QED
    BY <2>1, <2>2 DEF Follows
<1>3. CASE p.slot[i].job = Scanning!NoJob /\ places # {}
  <2> DEFINE k == Scanning!Min(places)
             j == p.queue[k]
             u == request[j].subject
             p1 == [p EXCEPT !.queue = Scanning!RemoveAt(p.queue, k)]
             p2 == Scanning!DispatchTo(p, i)
  <2>1. k \in places
    <3>1. places \in SUBSET Nat
      BY <1>0
    <3>2. \E x \in places : \A y \in places : x <= y
      BY ONLY <1>3, <3>1, Least
    <3> QED
      BY <3>2 DEF Scanning!Min
  <2>2. p2 = [Scanning!Started(p, i, j) EXCEPT !.queue = Scanning!RemoveAt(@, k)]
    BY <1>3 DEF Scanning!DispatchTo
  <2> HIDE DEF p2, k
  <2>3. k \in 1..Len(p.queue) /\ Scanning!Eligible(p, j)
    BY <1>0, <2>1
  <2> HIDE DEF places
  <2>4. j \in Jobs /\ j \in WaitingIn(p) /\ j \notin RunningIn(p)
    BY <1>0, <2>3 DEF PoolOK, WaitingIn
  <2>5. request[j] \in Scanned /\ u \in Subjects /\ p.active[u] < SubjectActiveMax
    BY <2>3, <2>4 DEF PoolOK, Scanned, Scanning!Eligible, Scanning!SubjectOf
  <2>6. Scanning!RemoveAt(p.queue, k) \in Seq(Jobs)
    BY <1>0, <2>3, Removed DEF PoolOK, Scanning!RemoveAt
  <2>7. p1 \in PoolRow /\ p1.slot = p.slot /\ p1.active = p.active /\ p1.queue = Scanning!RemoveAt(p.queue, k)
    BY <1>0, <2>6 DEF PoolRow
  <2>8. /\ p2.slot = [p.slot EXCEPT ![i].job = j] /\ p2.queue = p1.queue
        /\ p2.active = [p.active EXCEPT ![u] = @ + 1] /\ p2 \in PoolRow
    <3>1. /\ p2.slot = [p.slot EXCEPT ![i].job = j] /\ p2.queue = p1.queue
          /\ p2.active = [p.active EXCEPT ![u] = @ + 1]
          /\ p2 = [slot |-> p2.slot, queue |-> p2.queue, active |-> p2.active]
      BY <1>0, <2>2, <2>7 DEF Scanning!Started, Scanning!SubjectOf, PoolRow
    <3>2. [p.slot EXCEPT ![i].job = j] \in [Workers -> Entry]
      BY <1>0, <2>4 DEF Entry
    <3>3. [p.active EXCEPT ![u] = @ + 1] \in [Subjects -> Nat]
      BY <1>0, <2>5
    <3> QED
      BY <2>6, <2>7, <3>1, <3>2, <3>3 DEF PoolRow
  <2> HIDE DEF p1
  <2>9. /\ PoolOK(p1, request) /\ RunningIn(p1) = RunningIn(p)
        /\ WaitingIn(p1) = WaitingIn(p) \ {j}
    BY <2>3, <2>7, QueueShrinks
  <2>10. PoolOK(p2, request) /\ RunningIn(p2) = RunningIn(p) \cup {j} /\ WaitingIn(p2) = WaitingIn(p) \ {j}
    <3>1. j \notin RunningIn(p1) /\ j \notin WaitingIn(p1) /\ p1.slot[i].job = Scanning!NoJob /\ p1.active[u] < SubjectActiveMax
      BY <1>3, <2>4, <2>5, <2>7, <2>9
    <3>2. p2.slot = [p1.slot EXCEPT ![i].job = j] /\ p2.active = [p1.active EXCEPT ![u] = @ + 1]
      BY <2>7, <2>8
    <3>3. /\ ScanBounds /\ PoolOK(p1, request) /\ i \in Workers /\ j \in Jobs /\ request[j] \in Scanned
          /\ p2 \in PoolRow /\ p2.queue = p1.queue
      BY <2>4, <2>5, <2>8, <2>9
    <3> HIDE DEF j
    <3>4. PoolOK(p2, request) /\ RunningIn(p2) = RunningIn(p1) \cup {j} /\ WaitingIn(p2) = WaitingIn(p1)
      <4>1. Starts(p1, p2, i, j, request)
        BY ONLY <3>1, <3>2, <3>3 DEF u, Starts
      <4> QED
        BY <3>3, <4>1, WorkerStarts
    <3> QED
      BY <2>9, <3>4
  <2>11. SettledTo(p2, i)
    <3> SUFFICES ASSUME NEW m \in 1..i, p2.slot[m].job = Scanning!NoJob,
                        NEW a \in 1..Len(p2.queue)
                 PROVE  ~Scanning!Eligible(p2, p2.queue[a])
      BY DEF SettledTo
    <3>1. m # i /\ m \in 1..(i - 1) /\ m \in Workers /\ p.slot[m].job = Scanning!NoJob
      <4>1. p2.slot[i].job = j /\ j # Scanning!NoJob
        BY <1>0, <2>4, <2>8 DEF ScanBounds, Entry
      <4>2. m # i
        BY <4>1
      <4>3. m \in 1..(i - 1) /\ m \in Workers
        BY <1>0, <4>2 DEF Workers, ScanBounds
      <4> QED
        BY <1>0, <2>8, <4>2, <4>3
    <3>2. p2.queue \in Seq(Jobs) /\ p2.queue[a] \in WaitingIn(p2)
      BY <2>8 DEF PoolRow, WaitingIn
    <3>3. PICK b \in 1..Len(p.queue) : p.queue[b] = p2.queue[a]
      BY <2>10, <3>2 DEF WaitingIn
    <3>4. ~Scanning!Eligible(p, p.queue[b])
      BY <3>1 DEF SettledTo
    <3>5. request[p.queue[b]].subject \in Subjects
      BY <2>10, <3>2, <3>3 DEF PoolOK, Scanned
    <3>6. p.active[request[p.queue[b]].subject] <= p2.active[request[p.queue[b]].subject]
      <4> DEFINE v == request[p.queue[b]].subject
      <4>1. p2.active[v] = IF v = u THEN p.active[v] + 1 ELSE p.active[v]
        BY <1>0, <2>5, <2>8, <3>5
      <4>2. p.active[v] \in Nat
        BY <1>0, <3>5
      <4> QED
        BY <4>1, <4>2
    <3>7. /\ p.active[request[p.queue[b]].subject] \in Nat
          /\ p2.active[request[p.queue[b]].subject] \in Nat
      BY <1>0, <2>8, <3>5 DEF PoolRow
    <3> QED
      BY <3>3, <3>4, <3>6, <3>7 DEF Scanning!Eligible, Scanning!SubjectOf, ScanBounds
  <2> QED
    BY <2>4, <2>10, <2>11 DEF Follows, p2
<1> QED
  BY <1>1, <1>2, <1>3

\* After dispatch no worker idles while a job could start.
LEMMA DispatchOK ==
  ASSUME ScanBounds, NEW p, PoolOK(p, request)
  PROVE  /\ PoolOK(Scanning!Dispatched(p), request) /\ Follows(p, Scanning!Dispatched(p))
         /\ SettledTo(Scanning!Dispatched(p), PoolWorkers)
<1>1. PICK f : /\ f = [i \in 0..PoolWorkers |-> IF i = 0 THEN p ELSE Scanning!DispatchTo(f[i - 1], i)]
               /\ Scanning!Dispatched(p) = f[PoolWorkers]
  BY DispatchSteps
<1> DEFINE Right(n) == PoolOK(f[n], request) /\ Follows(p, f[n]) /\ SettledTo(f[n], n)
           good == {n \in Nat : n <= PoolWorkers => Right(n)}
<1>2. Right(0)
  <2>1. f[0] = p
    BY <1>1 DEF ScanBounds
  <2> QED
    BY <2>1 DEF Follows, SettledTo
<1>3. ASSUME NEW n \in Nat, n + 1 <= PoolWorkers, Right(n) PROVE Right(n + 1)
  <2>1. f[n + 1] = Scanning!DispatchTo(f[n], n + 1) /\ n + 1 \in Workers /\ (n + 1) - 1 = n
    BY <1>1, <1>3 DEF ScanBounds, Workers
  <2>2. /\ PoolOK(Scanning!DispatchTo(f[n], n + 1), request) /\ Follows(f[n], Scanning!DispatchTo(f[n], n + 1))
        /\ SettledTo(Scanning!DispatchTo(f[n], n + 1), n + 1)
    BY <1>3, <2>1, TurnOK
  <2> QED
    BY <1>3, <2>1, <2>2 DEF Follows
<1> HIDE DEF Right
<1>4. 0 \in good /\ \A n \in Nat : n \in good => n + 1 \in good
  BY <1>2, <1>3 DEF ScanBounds
<1>5. Nat \subseteq good
  <2> HIDE DEF good
  <2> QED
    BY <1>4, Upwards
<1>6. Right(PoolWorkers)
  BY <1>5 DEF ScanBounds
<1> QED
  BY <1>1, <1>6 DEF Right

\* Where nothing could start, dispatch changes nothing.
LEMMA DispatchIdles ==
  ASSUME ScanBounds, NEW p, PoolOK(p, request), SettledTo(p, PoolWorkers)
  PROVE  Scanning!Dispatched(p) = p
<1>1. PICK f : /\ f = [i \in 0..PoolWorkers |-> IF i = 0 THEN p ELSE Scanning!DispatchTo(f[i - 1], i)]
               /\ Scanning!Dispatched(p) = f[PoolWorkers]
  BY DispatchSteps
<1> DEFINE good == {n \in Nat : n <= PoolWorkers => f[n] = p}
<1>2. ASSUME NEW n \in Nat, n + 1 <= PoolWorkers, f[n] = p PROVE f[n + 1] = p
  <2>1. f[n + 1] = Scanning!DispatchTo(p, n + 1) /\ n + 1 \in 1..PoolWorkers
    BY <1>1, <1>2 DEF ScanBounds
  <2>2. DOMAIN p.queue = 1..Len(p.queue)
    BY DEF PoolOK, PoolRow
  <2>3. p.slot[n + 1].job # Scanning!NoJob \/ {k \in DOMAIN p.queue : Scanning!Eligible(p, p.queue[k])} = {}
    BY <2>1, <2>2 DEF SettledTo
  <2>4. Scanning!DispatchTo(p, n + 1) = p
    BY <2>3 DEF Scanning!DispatchTo
  <2> QED
    BY <2>1, <2>4
<1>3. 0 \in good /\ \A n \in Nat : n \in good => n + 1 \in good
  <2>1. f[0] = p
    BY <1>1 DEF ScanBounds
  <2> QED
    BY <1>2, <2>1 DEF ScanBounds
<1>4. Nat \subseteq good
  <2> HIDE DEF good
  <2> QED
    BY <1>3, Upwards
<1> QED
  BY <1>1, <1>4 DEF ScanBounds

SettledIn(p, req) ==
  \A i \in Workers : p.slot[i].job = Scanning!NoJob =>
    \A k \in 1..Len(p.queue) : ~(p.active[req[p.queue[k]].subject] < SubjectActiveMax)

\* A request knows whether its job runs or waits.
AtOK(req, p) ==
  \A j \in Jobs : /\ req[j].at = "scanning" <=> j \in RunningIn(p)
                  /\ req[j].at = "queued" <=> j \in WaitingIn(p)

\* The limiter counts the requests under way, within its limits.
LimiterOK(req, total, sources, services) ==
  /\ total \in Nat /\ total = Cardinality({j \in Jobs : req[j] # Scanning!Ready}) /\ total <= MaxTotal
  /\ sources \in [Subjects -> Nat] /\ services \in [Bindings -> Nat]
  /\ \A s \in Subjects :
       /\ sources[s] = Cardinality({j \in Jobs : req[j] # Scanning!Ready /\ req[j].subject = s})
       /\ sources[s] <= MaxPerSource
  /\ \A v \in Bindings :
       /\ services[v] = Cardinality({j \in Jobs : req[j] # Scanning!Ready /\ req[j].service = v})
       /\ services[v] <= MaxPerService

ScanInv ==
  /\ request \in [Jobs -> {Scanning!Ready} \cup Scanned]
  /\ LimiterOK(request, requests, bySource, byService)
  /\ PoolOK(Scanning!Pool, request) /\ SettledIn(Scanning!Pool, request) /\ AtOK(request, Scanning!Pool)

\* The same requests are under way, for the same subjects and services.
SamePlaces(req, req2) ==
  \A j \in Jobs : /\ req2[j] # Scanning!Ready <=> req[j] # Scanning!Ready
                  /\ req[j] # Scanning!Ready => /\ req2[j].subject = req[j].subject
                                                /\ req2[j].service = req[j].service

LEMMA NotReady ==
  ASSUME NEW r \in {Scanning!Ready} \cup Scanned
  PROVE  /\ r \in Scanned <=> r # Scanning!Ready
         /\ r \in Scanned <=> r.at # "ready"
BY DEF Scanning!Ready, Scanned

LEMMA SettledSame ==
  ASSUME ScanBounds, NEW p
  PROVE  SettledTo(p, PoolWorkers) <=> SettledIn(p, request)
BY DEF SettledTo, SettledIn, Scanning!Eligible, Scanning!SubjectOf, Workers

LEMMA LimiterSame ==
  ASSUME NEW req, NEW req2, NEW total, NEW sources, NEW services,
         LimiterOK(req, total, sources, services), SamePlaces(req, req2)
  PROVE  LimiterOK(req2, total, sources, services)
<1>1. {j \in Jobs : req2[j] # Scanning!Ready} = {j \in Jobs : req[j] # Scanning!Ready}
  BY DEF SamePlaces
<1>2. \A s : {j \in Jobs : req2[j] # Scanning!Ready /\ req2[j].subject = s}
              = {j \in Jobs : req[j] # Scanning!Ready /\ req[j].subject = s}
  BY DEF SamePlaces
<1>3. \A v : {j \in Jobs : req2[j] # Scanning!Ready /\ req2[j].service = v}
              = {j \in Jobs : req[j] # Scanning!Ready /\ req[j].service = v}
  BY DEF SamePlaces
<1> QED
  BY <1>1, <1>2, <1>3 DEF LimiterOK

LEMMA PoolSame ==
  ASSUME NEW req, NEW req2, NEW p, PoolOK(p, req),
         \A j \in RunningIn(p) \cup WaitingIn(p) : req2[j] \in Scanned /\ req2[j].subject = req[j].subject
  PROVE  /\ PoolOK(p, req2)
         /\ SettledIn(p, req) => SettledIn(p, req2)
<1>1. \A s : {j \in RunningIn(p) : req2[j].subject = s} = {j \in RunningIn(p) : req[j].subject = s}
  OBVIOUS
<1>2. PoolOK(p, req2)
  BY <1>1 DEF PoolOK
<1>3. ASSUME SettledIn(p, req) PROVE SettledIn(p, req2)
  <2>1. \A k \in 1..Len(p.queue) : p.queue[k] \in WaitingIn(p)
    BY DEF PoolOK, PoolRow, WaitingIn
  <2> QED
    BY <1>3, <2>1 DEF SettledIn
<1> QED
  BY <1>2, <1>3

\* The pool moves on for the same requests.
Moves(p2) ==
  /\ Scanning!Keeps(p2) /\ PoolOK(p2, request) /\ SettledIn(p2, request)
  /\ request' \in [Jobs -> {Scanning!Ready} \cup Scanned] /\ SamePlaces(request, request')
  /\ AtOK(request', p2) /\ UNCHANGED <<requests, bySource, byService>>

LEMMA PoolMoves ==
  ASSUME ScanBounds, ScanInv, NEW p2, Moves(p2)
  PROVE  ScanInv'
<1> USE DEF Moves
<1>1. Scanning!Pool' = p2
  <2>1. p2 = [slot |-> p2.slot, queue |-> p2.queue, active |-> p2.active]
    BY DEF PoolOK, PoolRow
  <2> QED
    BY <2>1 DEF Scanning!Keeps, Scanning!Pool
<1>2. LimiterOK(request', requests', bySource', byService')
  BY LimiterSame DEF ScanInv
<1>3. \A j \in RunningIn(p2) \cup WaitingIn(p2) : request'[j] \in Scanned /\ request'[j].subject = request[j].subject
  <2> SUFFICES ASSUME NEW j \in RunningIn(p2) \cup WaitingIn(p2)
               PROVE  request'[j] \in Scanned /\ request'[j].subject = request[j].subject
    OBVIOUS
  <2>1. j \in Jobs /\ request[j] \in Scanned
    BY DEF PoolOK, RunningIn, WaitingIn
  <2>2. request[j] # Scanning!Ready
    BY <2>1, NotReady
  <2> QED
    BY <2>1, <2>2, NotReady DEF SamePlaces
<1>4. PoolOK(p2, request') /\ SettledIn(p2, request')
  BY <1>3, PoolSame
<1> QED
  BY <1>1, <1>2, <1>4 DEF ScanInv

\* The pool stays as it is for the same requests.
LEMMA PoolRests ==
  ASSUME ScanBounds, ScanInv, UNCHANGED <<slot, queue, activeBySubject, requests, bySource,
         byService>>,
         request' \in [Jobs -> {Scanning!Ready} \cup Scanned], SamePlaces(request, request'), AtOK(request', Scanning!Pool)
  PROVE  ScanInv'
<1>1. Moves(Scanning!Pool)
  BY DEF Moves, Scanning!Keeps, Scanning!Pool, ScanInv
<1> QED
  BY <1>1, PoolMoves

LEMMA PoolShape ==
  ASSUME ScanInv
  PROVE  /\ Scanning!Pool \in PoolRow /\ Scanning!Pool.slot = slot /\ Scanning!Pool.queue = queue /\ Scanning!Pool.active = activeBySubject
         /\ slot \in [Workers -> Entry] /\ queue \in Seq(Jobs) /\ DOMAIN queue = 1..Len(queue)
         /\ Len(queue) \in Nat /\ DOMAIN slot = Workers
         /\ activeBySubject \in [Subjects -> Nat] /\ PoolOK(Scanning!Pool, request)
<1>1. Scanning!Pool \in PoolRow /\ Scanning!Pool.slot = slot /\ Scanning!Pool.queue = queue /\ Scanning!Pool.active = activeBySubject
  BY DEF ScanInv, PoolOK, Scanning!Pool
<1> QED
  BY <1>1 DEF PoolRow, ScanInv

LEMMA StartedShape ==
  ASSUME NEW p \in PoolRow, NEW i \in Workers, NEW j, request[j].subject \in Subjects
  PROVE  LET p2 == Scanning!Started(p, i, j)
         IN /\ p2.slot = [p.slot EXCEPT ![i].job = j] /\ p2.queue = p.queue
            /\ p2.active = [p.active EXCEPT ![request[j].subject] = @ + 1]
            /\ p2 = [slot |-> p2.slot, queue |-> p2.queue, active |-> p2.active]
<1> DEFINE sl == [p.slot EXCEPT ![i].job = j]
           ac == [p.active EXCEPT ![request[j].subject] = @ + 1]
<1>1. Scanning!Started(p, i, j) = [p EXCEPT !.slot = sl, !.active = ac]
  BY DEF Scanning!Started, Scanning!SubjectOf, PoolRow
<1> HIDE DEF sl, ac
<1>2. [p EXCEPT !.slot = sl] = [slot |-> sl, queue |-> p.queue, active |-> p.active]
  BY DEF PoolRow
<1>3. [p EXCEPT !.slot = sl, !.active = ac] = [[p EXCEPT !.slot = sl] EXCEPT !.active = ac]
  OBVIOUS
<1>4. [[slot |-> sl, queue |-> p.queue, active |-> p.active] EXCEPT !.active = ac]
        = [slot |-> sl, queue |-> p.queue, active |-> ac]
  OBVIOUS
<1>5. Scanning!Started(p, i, j) = [slot |-> sl, queue |-> p.queue, active |-> ac]
  BY <1>1, <1>2, <1>3, <1>4
<1> QED
  BY <1>5 DEF sl, ac

Ended(p, i) == [p EXCEPT !.slot[i].runs = FALSE]

LEMMA EndedShape ==
  ASSUME NEW p \in PoolRow, NEW i \in Workers
  PROVE  LET p2 == Ended(p, i)
         IN /\ p2.slot = [p.slot EXCEPT ![i].runs = FALSE] /\ p2.queue = p.queue /\ p2.active = p.active
            /\ p2 = [slot |-> p2.slot, queue |-> p2.queue, active |-> p2.active]
<1> DEFINE sl == [p.slot EXCEPT ![i].runs = FALSE]
<1>1. Ended(p, i) = [p EXCEPT !.slot = sl]
  BY DEF PoolRow, Ended
<1> HIDE DEF sl
<1>2. LET p2 == [p EXCEPT !.slot = sl]
      IN /\ p2.slot = sl /\ p2.queue = p.queue /\ p2.active = p.active
         /\ p2 = [slot |-> p2.slot, queue |-> p2.queue, active |-> p2.active]
  BY DEF PoolRow
<1> QED
  BY <1>1, <1>2 DEF sl

LEMMA ScanInit ==
  ASSUME ScanBounds, Scanning!Init
  PROVE  ScanInv
<1> USE DEF Scanning!Init
<1>1. request \in [Jobs -> {Scanning!Ready} \cup Scanned] /\ \A j \in Jobs : request[j] = Scanning!Ready
  OBVIOUS
<1>2. LimiterOK(request, requests, bySource, byService)
  <2>1. {j \in Jobs : request[j] # Scanning!Ready} = {}
    BY <1>1
  <2>2. \A s : {j \in Jobs : request[j] # Scanning!Ready /\ request[j].subject = s} = {}
    BY <1>1
  <2>3. \A v : {j \in Jobs : request[j] # Scanning!Ready /\ request[j].service = v} = {}
    BY <1>1
  <2>4. /\ Cardinality({j \in Jobs : request[j] # Scanning!Ready}) = 0
        /\ \A s : Cardinality({j \in Jobs : request[j] # Scanning!Ready /\ request[j].subject = s}) = 0
        /\ \A v : Cardinality({j \in Jobs : request[j] # Scanning!Ready /\ request[j].service = v}) = 0
    BY <2>1, <2>2, <2>3, FS_EmptySet
  <2> QED
    BY <2>4 DEF LimiterOK, ScanBounds
<1>3. Scanning!Pool \in PoolRow /\ RunningIn(Scanning!Pool) = {} /\ WaitingIn(Scanning!Pool) = {}
      /\ Scanning!Pool.slot = slot /\ Scanning!Pool.queue = queue /\ Scanning!Pool.active = activeBySubject
  BY DEF Scanning!Pool, PoolRow, RunningIn, WaitingIn, Scanning!Free, Entry, Workers,
       ScanBounds
<1>4. PoolOK(Scanning!Pool, request)
  <2>1. \A s \in Subjects : {j \in RunningIn(Scanning!Pool) : request[j].subject = s} = {}
    BY <1>3
  <2>2. Len(queue) = 0
    OBVIOUS
  <2>3. \A i, n \in Workers : Scanning!Pool.slot[i].job = Scanning!Pool.slot[n].job /\ Scanning!Pool.slot[i].job # Scanning!NoJob => i = n
    BY <1>3 DEF Scanning!Free, Workers
  <2> QED
    BY <1>3, <2>1, <2>2, <2>3, FS_EmptySet DEF PoolOK, ScanBounds
<1>5. SettledIn(Scanning!Pool, request)
  BY <1>3 DEF SettledIn
<1>6. AtOK(request, Scanning!Pool)
  BY <1>1, <1>3 DEF AtOK, Scanning!Ready
<1> QED
  BY <1>1, <1>2, <1>4, <1>5, <1>6 DEF ScanInv

\* A set that gains or loses one request.
LEMMA Counted ==
  ASSUME ScanBounds, NEW S \in SUBSET Jobs, NEW j
  PROVE  /\ Cardinality(S) \in Nat
         /\ j \notin S => Cardinality(S \cup {j}) = Cardinality(S) + 1
         /\ j \in S => Cardinality(S \ {j}) = Cardinality(S) - 1 /\ Cardinality(S) > 0
<1>1. IsFiniteSet(S) /\ Cardinality(S) \in Nat
  BY FS_Subset, FS_CardinalityType DEF ScanBounds
<1>2. j \in S => Cardinality(S) # 0
  BY <1>1, FS_EmptySet
<1>3. j \notin S => Cardinality(S \cup {j}) = Cardinality(S) + 1
  BY <1>1, FS_AddElement
<1>4. j \in S => Cardinality(S \ {j}) = Cardinality(S) - 1
  BY <1>1, FS_RemoveElement
<1> QED
  BY <1>1, <1>2, <1>3, <1>4

LEMMA ScanAcquire ==
  ASSUME ScanBounds, ScanInv, NEW j \in Jobs, NEW s \in Subjects, NEW v \in Bindings,
         Scanning!Acquire(j, s, v)
  PROVE  ScanInv'
<1> DEFINE new == [at |-> "open", subject |-> s, service |-> v]
<1>1. /\ request[j] = Scanning!Ready /\ request' = [request EXCEPT ![j] = new]
      /\ byService[v] < MaxPerService /\ requests < MaxTotal /\ bySource[s] < MaxPerSource
      /\ requests' = requests + 1
      /\ bySource' = [bySource EXCEPT ![s] = @ + 1] /\ byService' = [byService EXCEPT ![v] = @ + 1]
      /\ UNCHANGED <<slot, queue, activeBySubject>>
  BY DEF Scanning!Acquire
<1>2. new \in Scanned /\ new # Scanning!Ready /\ new.at = "open" /\ new.subject = s /\ new.service = v
  BY DEF Scanned, Scanning!Ready
<1> HIDE DEF new
<1>3. /\ request' \in [Jobs -> {Scanning!Ready} \cup Scanned] /\ request'[j] = new
      /\ \A k \in Jobs : k # j => request'[k] = request[k]
  BY <1>1, <1>2 DEF ScanInv
<1>4. LimiterOK(request', requests', bySource', byService')
  <2>0. /\ requests \in Nat /\ bySource \in [Subjects -> Nat] /\ byService \in [Bindings -> Nat]
        /\ requests = Cardinality({k \in Jobs : request[k] # Scanning!Ready})
    BY DEF ScanInv, LimiterOK
  <2>1. Cardinality({k \in Jobs : request'[k] # Scanning!Ready}) = requests + 1
    <3>1. {k \in Jobs : request'[k] # Scanning!Ready} = {k \in Jobs : request[k] # Scanning!Ready} \cup {j}
      BY <1>1, <1>2, <1>3
    <3> QED
      BY <1>1, <2>0, <3>1, Counted
  <2>2. ASSUME NEW u \in Subjects
        PROVE  /\ bySource'[u] = Cardinality({k \in Jobs : request'[k] # Scanning!Ready /\ request'[k].subject = u})
               /\ bySource'[u] <= MaxPerSource
    <3> DEFINE S == {k \in Jobs : request[k] # Scanning!Ready /\ request[k].subject = u}
    <3>1. bySource[u] = Cardinality(S) /\ bySource[u] <= MaxPerSource /\ j \notin S /\ S \subseteq Jobs
      BY <1>1 DEF ScanInv, LimiterOK
    <3> DEFINE T == {k \in Jobs : request'[k] # Scanning!Ready /\ request'[k].subject = u}
    <3>2. T = IF u = s THEN S \cup {j} ELSE S
      BY <1>1, <1>2, <1>3
    <3> HIDE DEF S, T
    <3>3. Cardinality(S \cup {j}) = Cardinality(S) + 1
      BY <3>1, Counted
    <3>4. bySource'[u] = IF u = s THEN bySource[u] + 1 ELSE bySource[u]
      BY <1>1, <2>0
    <3>5. bySource'[u] = Cardinality(T) /\ bySource'[u] <= MaxPerSource /\ bySource'[u] \in Nat
      <4>1. CASE u = s
        BY <1>1, <2>0, <3>1, <3>2, <3>3, <3>4, <4>1 DEF ScanBounds
      <4>2. CASE u # s
        BY <2>0, <3>1, <3>2, <3>4, <4>2
      <4> QED
        BY <4>1, <4>2
    <3> QED
      BY <3>5 DEF T
  <2>3. ASSUME NEW u \in Bindings
        PROVE  /\ byService'[u] = Cardinality({k \in Jobs : request'[k] # Scanning!Ready /\ request'[k].service = u})
               /\ byService'[u] <= MaxPerService
    <3> DEFINE S == {k \in Jobs : request[k] # Scanning!Ready /\ request[k].service = u}
    <3>1. byService[u] = Cardinality(S) /\ byService[u] <= MaxPerService /\ j \notin S /\ S \subseteq Jobs
      BY <1>1 DEF ScanInv, LimiterOK
    <3> DEFINE T == {k \in Jobs : request'[k] # Scanning!Ready /\ request'[k].service = u}
    <3>2. T = IF u = v THEN S \cup {j} ELSE S
      BY <1>1, <1>2, <1>3
    <3> HIDE DEF S, T
    <3>3. Cardinality(S \cup {j}) = Cardinality(S) + 1
      BY <3>1, Counted
    <3>4. byService'[u] = IF u = v THEN byService[u] + 1 ELSE byService[u]
      BY <1>1, <2>0
    <3>5. byService'[u] = Cardinality(T) /\ byService'[u] <= MaxPerService /\ byService'[u] \in Nat
      <4>1. CASE u = v
        BY <1>1, <2>0, <3>1, <3>2, <3>3, <3>4, <4>1 DEF ScanBounds
      <4>2. CASE u # v
        BY <2>0, <3>1, <3>2, <3>4, <4>2
      <4> QED
        BY <4>1, <4>2
    <3> QED
      BY <3>5 DEF T
  <2>4. /\ requests' \in Nat /\ requests' <= MaxTotal
        /\ bySource' \in [Subjects -> Nat] /\ byService' \in [Bindings -> Nat]
    BY <1>1, <2>0 DEF ScanBounds
  <2> QED
    BY <1>1, <2>1, <2>2, <2>3, <2>4 DEF LimiterOK
<1>5. j \notin RunningIn(Scanning!Pool) \cup WaitingIn(Scanning!Pool)
  BY <1>1, NotReady DEF ScanInv, PoolOK
<1>6. Scanning!Pool' = Scanning!Pool
  BY <1>1 DEF Scanning!Pool
<1>7. \A k \in RunningIn(Scanning!Pool) \cup WaitingIn(Scanning!Pool) : request'[k] \in Scanned /\ request'[k].subject = request[k].subject
  BY <1>3, <1>5 DEF ScanInv, PoolOK, RunningIn, WaitingIn
<1>8. PoolOK(Scanning!Pool, request') /\ SettledIn(Scanning!Pool, request')
  BY <1>7, PoolSame DEF ScanInv
<1>9. AtOK(request', Scanning!Pool)
  BY <1>2, <1>3, <1>5 DEF ScanInv, AtOK
<1> QED
  BY <1>3, <1>4, <1>6, <1>8, <1>9 DEF ScanInv

LEMMA ScanRelease ==
  ASSUME ScanBounds, ScanInv, NEW j \in Jobs, Scanning!Release(j)
  PROVE  ScanInv'
<1> DEFINE s == request[j].subject
           v == request[j].service
<1>1. /\ request[j].at \in {"open", "scanned", "refused"} /\ request' = [request EXCEPT ![j] = Scanning!Ready]
      /\ requests' = requests - 1
      /\ bySource' = [bySource EXCEPT ![s] = @ - 1] /\ byService' = [byService EXCEPT ![v] = @ - 1]
      /\ UNCHANGED <<slot, queue, activeBySubject>>
  BY DEF Scanning!Release
<1>2. request[j] \in Scanned /\ request[j] # Scanning!Ready /\ s \in Subjects /\ v \in Bindings
  <2>1. request[j] \in {Scanning!Ready} \cup Scanned /\ request[j].at # "ready"
    BY <1>1 DEF ScanInv
  <2>2. request[j] \in Scanned /\ request[j] # Scanning!Ready
    BY <2>1, NotReady
  <2> QED
    BY <2>2 DEF Scanned
<1> HIDE DEF s, v
<1>3. /\ request' \in [Jobs -> {Scanning!Ready} \cup Scanned] /\ request'[j] = Scanning!Ready
      /\ \A k \in Jobs : k # j => request'[k] = request[k]
  BY <1>1 DEF ScanInv
<1>4. LimiterOK(request', requests', bySource', byService')
  <2>0. /\ requests \in Nat /\ bySource \in [Subjects -> Nat] /\ byService \in [Bindings -> Nat]
        /\ requests = Cardinality({k \in Jobs : request[k] # Scanning!Ready}) /\ requests <= MaxTotal
    BY DEF ScanInv, LimiterOK
  <2>1. Cardinality({k \in Jobs : request'[k] # Scanning!Ready}) = requests - 1 /\ requests > 0
    <3>1. {k \in Jobs : request'[k] # Scanning!Ready} = {k \in Jobs : request[k] # Scanning!Ready} \ {j}
      BY <1>2, <1>3
    <3>2. j \in {k \in Jobs : request[k] # Scanning!Ready}
      BY <1>2
    <3> QED
      BY <2>0, <3>1, <3>2, Counted
  <2>2. ASSUME NEW u \in Subjects
        PROVE  /\ bySource'[u] = Cardinality({k \in Jobs : request'[k] # Scanning!Ready /\ request'[k].subject = u})
               /\ bySource'[u] <= MaxPerSource /\ bySource'[u] \in Nat
    <3> DEFINE S == {k \in Jobs : request[k] # Scanning!Ready /\ request[k].subject = u}
    <3>1. /\ bySource[u] = Cardinality(S) /\ bySource[u] <= MaxPerSource /\ S \subseteq Jobs
          /\ j \in S <=> u = s
      BY <1>2 DEF ScanInv, LimiterOK, s
    <3> DEFINE T == {k \in Jobs : request'[k] # Scanning!Ready /\ request'[k].subject = u}
    <3>2. T = IF u = s THEN S \ {j} ELSE S
      BY <1>2, <1>3 DEF s
    <3> HIDE DEF S, T
    <3>3. u = s => Cardinality(S \ {j}) = Cardinality(S) - 1 /\ Cardinality(S) > 0
      BY <3>1, Counted
    <3>4. bySource'[u] = IF u = s THEN bySource[u] - 1 ELSE bySource[u]
      BY <1>1, <2>0
    <3>5. bySource'[u] = Cardinality(T) /\ bySource'[u] <= MaxPerSource /\ bySource'[u] \in Nat
      <4>1. CASE u = s
        BY <1>1, <2>0, <3>1, <3>2, <3>3, <3>4, <4>1 DEF ScanBounds
      <4>2. CASE u # s
        BY <2>0, <3>1, <3>2, <3>4, <4>2
      <4> QED
        BY <4>1, <4>2
    <3> QED
      BY <3>5 DEF T
  <2>3. ASSUME NEW u \in Bindings
        PROVE  /\ byService'[u] = Cardinality({k \in Jobs : request'[k] # Scanning!Ready /\ request'[k].service = u})
               /\ byService'[u] <= MaxPerService /\ byService'[u] \in Nat
    <3> DEFINE S == {k \in Jobs : request[k] # Scanning!Ready /\ request[k].service = u}
    <3>1. /\ byService[u] = Cardinality(S) /\ byService[u] <= MaxPerService /\ S \subseteq Jobs
          /\ j \in S <=> u = v
      BY <1>2 DEF ScanInv, LimiterOK, v
    <3> DEFINE T == {k \in Jobs : request'[k] # Scanning!Ready /\ request'[k].service = u}
    <3>2. T = IF u = v THEN S \ {j} ELSE S
      BY <1>2, <1>3 DEF v
    <3> HIDE DEF S, T
    <3>3. u = v => Cardinality(S \ {j}) = Cardinality(S) - 1 /\ Cardinality(S) > 0
      BY <3>1, Counted
    <3>4. byService'[u] = IF u = v THEN byService[u] - 1 ELSE byService[u]
      BY <1>1, <2>0
    <3>5. byService'[u] = Cardinality(T) /\ byService'[u] <= MaxPerService /\ byService'[u] \in Nat
      <4>1. CASE u = v
        BY <1>1, <2>0, <3>1, <3>2, <3>3, <3>4, <4>1 DEF ScanBounds
      <4>2. CASE u # v
        BY <2>0, <3>1, <3>2, <3>4, <4>2
      <4> QED
        BY <4>1, <4>2
    <3> QED
      BY <3>5 DEF T
  <2>4. requests' \in Nat /\ requests' <= MaxTotal
    BY <1>1, <2>0, <2>1 DEF ScanBounds
  <2>5. bySource' \in [Subjects -> Nat] /\ byService' \in [Bindings -> Nat]
    <3>1. DOMAIN bySource' = Subjects /\ DOMAIN byService' = Bindings
      BY <1>1, <2>0
    <3>2. bySource' = [u \in Subjects |-> bySource'[u]] /\ byService' = [u \in Bindings |-> byService'[u]]
      BY <1>1, <2>0, <3>1
    <3> QED
      BY <2>2, <2>3, <3>2
  <2> QED
    BY <1>1, <2>1, <2>2, <2>3, <2>4, <2>5 DEF LimiterOK
<1>5. j \notin RunningIn(Scanning!Pool) \cup WaitingIn(Scanning!Pool)
  BY <1>1 DEF ScanInv, AtOK
<1>6. Scanning!Pool' = Scanning!Pool
  BY <1>1 DEF Scanning!Pool
<1>7. \A k \in RunningIn(Scanning!Pool) \cup WaitingIn(Scanning!Pool) : request'[k] \in Scanned /\ request'[k].subject = request[k].subject
  BY <1>3, <1>5 DEF ScanInv, PoolOK, RunningIn, WaitingIn
<1>8. PoolOK(Scanning!Pool, request') /\ SettledIn(Scanning!Pool, request')
  BY <1>7, PoolSame DEF ScanInv
<1>9. AtOK(request', Scanning!Pool)
  BY <1>3, <1>5 DEF ScanInv, AtOK, Scanning!Ready
<1> QED
  BY <1>3, <1>4, <1>6, <1>8, <1>9 DEF ScanInv

\* An answer to a request under way keeps its place with the limiter.
LEMMA AnswerKeeps ==
  ASSUME ScanBounds, ScanInv, NEW j \in Jobs, request[j] \in Scanned,
         NEW at \in {"open", "scanned", "refused", "scanning", "queued"},
         request' = [request EXCEPT ![j].at = at]
  PROVE  /\ request' \in [Jobs -> {Scanning!Ready} \cup Scanned] /\ SamePlaces(request, request')
         /\ request'[j].at = at /\ \A k \in Jobs : k # j => request'[k] = request[k]
<1> DEFINE r == [request[j] EXCEPT !.at = at]
<1>1. r \in Scanned /\ r.at = at /\ r.subject = request[j].subject /\ r.service = request[j].service
  BY DEF Scanned
<1>2. request' = [request EXCEPT ![j] = r] /\ request \in [Jobs -> {Scanning!Ready} \cup Scanned]
  BY DEF ScanInv
<1> HIDE DEF r
<1>3. request'[j] = r /\ \A k \in Jobs : k # j => request'[k] = request[k]
  BY <1>2
<1>4. request' \in [Jobs -> {Scanning!Ready} \cup Scanned]
  BY <1>1, <1>2
<1>5. r # Scanning!Ready /\ request[j] # Scanning!Ready
  BY <1>1, NotReady
<1>6. SamePlaces(request, request')
  BY <1>1, <1>3, <1>5 DEF SamePlaces
<1> QED
  BY <1>1, <1>3, <1>4, <1>6

LEMMA ScanScan ==
  ASSUME ScanBounds, ScanInv, NEW j \in Jobs, Scanning!Scan(j)
  PROVE  ScanInv'
<1> DEFINE u == request[j].subject
           free == {i \in DOMAIN slot : slot[i].job = Scanning!NoJob}
           canStart == free # {} /\ Scanning!Eligible(Scanning!Pool, j)
<1>1. /\ request[j].at \in {"open", "scanned"} /\ UNCHANGED <<bySource, byService, requests>>
      /\ \/ Scanning!Answers(j, "refused") /\ UNCHANGED <<slot, queue, activeBySubject>>
         \/ canStart /\ Scanning!Answers(j, "scanning") /\ Scanning!Keeps(Scanning!Started(Scanning!Pool, Scanning!Min(free), j))
         \/ /\ ~canStart /\ Len(queue) < QueueMax
            /\ Scanning!Answers(j, "queued") /\ Scanning!Keeps([Scanning!Pool EXCEPT !.queue = Append(@, j)])
  BY DEF Scanning!Scan
<1>2. /\ request[j] \in Scanned /\ u \in Subjects
      /\ j \notin RunningIn(Scanning!Pool) /\ j \notin WaitingIn(Scanning!Pool)
  <2>1. request[j] \in {Scanning!Ready} \cup Scanned /\ request[j].at # "ready"
    BY <1>1 DEF ScanInv
  <2>2. request[j] \in Scanned
    BY <2>1, NotReady
  <2> QED
    BY <1>1, <2>2 DEF Scanned, ScanInv, AtOK
<1>3. ScanInv /\ PoolOK(Scanning!Pool, request) /\ SettledIn(Scanning!Pool, request)
  BY DEF ScanInv
<1>4. CASE Scanning!Answers(j, "refused") /\ UNCHANGED <<slot, queue, activeBySubject>>
  <2>1. /\ request' \in [Jobs -> {Scanning!Ready} \cup Scanned] /\ SamePlaces(request, request')
        /\ request'[j].at = "refused" /\ \A k \in Jobs : k # j => request'[k] = request[k]
    BY <1>2, <1>4, AnswerKeeps DEF Scanning!Answers
  <2>2. AtOK(request', Scanning!Pool)
    BY <1>2, <2>1 DEF ScanInv, AtOK
  <2> QED
    BY <1>1, <1>4, <2>1, <2>2, PoolRests
<1>5. CASE canStart /\ Scanning!Answers(j, "scanning") /\ Scanning!Keeps(Scanning!Started(Scanning!Pool, Scanning!Min(free), j))
  <2> DEFINE i == Scanning!Min(free)
             p2 == Scanning!Started(Scanning!Pool, i, j)
  <2>1. i \in Workers /\ Scanning!Pool.slot[i].job = Scanning!NoJob
    <3>1. free \in SUBSET Nat /\ free # {}
      BY <1>5, PoolShape DEF Workers
    <3>2. \E x \in free : \A y \in free : x <= y
      BY ONLY <3>1, Least
    <3>3. i \in free
      BY <3>2 DEF Scanning!Min
    <3> QED
      BY <3>3, PoolShape
  <2>2. Scanning!Pool.active[u] < SubjectActiveMax
    BY <1>5 DEF Scanning!Eligible, Scanning!SubjectOf
  <2> HIDE DEF i
  <2>3. /\ p2.slot = [Scanning!Pool.slot EXCEPT ![i].job = j] /\ p2.queue = Scanning!Pool.queue
        /\ p2.active = [Scanning!Pool.active EXCEPT ![u] = @ + 1] /\ p2 \in PoolRow
    <3>1. /\ p2.slot = [Scanning!Pool.slot EXCEPT ![i].job = j] /\ p2.queue = Scanning!Pool.queue
          /\ p2.active = [Scanning!Pool.active EXCEPT ![u] = @ + 1]
          /\ p2 = [slot |-> p2.slot, queue |-> p2.queue, active |-> p2.active]
      BY <1>2, <2>1, PoolShape, StartedShape
    <3>2. [Scanning!Pool.slot EXCEPT ![i].job = j] \in [Workers -> Entry]
      BY <2>1, PoolShape DEF Entry
    <3>3. [Scanning!Pool.active EXCEPT ![u] = @ + 1] \in [Subjects -> Nat]
      BY <1>2, PoolShape
    <3> QED
      BY <3>1, <3>2, <3>3, PoolShape DEF PoolRow
  <2> HIDE DEF p2
  <2>4. Starts(Scanning!Pool, p2, i, j, request)
    BY <1>2, <1>3, <2>1, <2>2, <2>3 DEF Starts
  <2>5. PoolOK(p2, request) /\ RunningIn(p2) = RunningIn(Scanning!Pool) \cup {j} /\ WaitingIn(p2) = WaitingIn(Scanning!Pool)
    BY <2>4, WorkerStarts
  <2>6. SettledIn(p2, request)
    <3> SUFFICES ASSUME NEW m \in Workers, p2.slot[m].job = Scanning!NoJob, NEW k \in 1..Len(p2.queue)
                 PROVE  ~(p2.active[request[p2.queue[k]].subject] < SubjectActiveMax)
      BY DEF SettledIn
    <3> DEFINE w == request[p2.queue[k]].subject
    <3>1. m # i
      BY <2>1, <2>3, PoolShape DEF ScanBounds, Entry
    <3>2. Scanning!Pool.slot[m].job = Scanning!NoJob
      BY <2>1, <2>3, <3>1, PoolShape
    <3>3. p2.queue[k] \in WaitingIn(p2)
      BY <2>3 DEF PoolRow, WaitingIn
    <3>4. w \in Subjects
      BY <2>5, <3>3 DEF PoolOK, Scanned
    <3>5. ~(Scanning!Pool.active[w] < SubjectActiveMax)
      BY <1>3, <2>3, <3>2 DEF SettledIn
    <3>6. p2.active[w] = IF w = u THEN Scanning!Pool.active[w] + 1 ELSE Scanning!Pool.active[w]
      BY <1>2, <2>3, <3>4, PoolShape
    <3>7. Scanning!Pool.active[w] \in Nat
      BY <3>4, PoolShape
    <3> QED
      BY <3>5, <3>6, <3>7 DEF ScanBounds
  <2>7. /\ request' \in [Jobs -> {Scanning!Ready} \cup Scanned] /\ SamePlaces(request, request')
        /\ request'[j].at = "scanning" /\ \A k \in Jobs : k # j => request'[k] = request[k]
    BY <1>2, <1>5, AnswerKeeps DEF Scanning!Answers
  <2>8. AtOK(request', p2)
    BY <1>2, <2>5, <2>7 DEF ScanInv, AtOK
  <2>9. Moves(p2)
    BY <1>1, <1>5, <2>5, <2>6, <2>7, <2>8 DEF Moves, p2, i
  <2> QED
    BY <2>9, PoolMoves
<1>6. CASE /\ ~canStart /\ Len(queue) < QueueMax
           /\ Scanning!Answers(j, "queued") /\ Scanning!Keeps([Scanning!Pool EXCEPT !.queue = Append(@, j)])
  <2> DEFINE p2 == [Scanning!Pool EXCEPT !.queue = Append(@, j)]
  <2>1. /\ p2.slot = slot /\ p2.queue = Append(queue, j) /\ p2.active = activeBySubject
        /\ p2 = [slot |-> p2.slot, queue |-> p2.queue, active |-> p2.active]
    BY DEF Scanning!Pool
  <2> HIDE DEF p2
  <2>2. /\ Append(queue, j) \in Seq(Jobs) /\ Len(Append(queue, j)) = Len(queue) + 1
        /\ \A a \in 1..Len(queue) : Append(queue, j)[a] = queue[a]
        /\ Append(queue, j)[Len(queue) + 1] = j
    BY PoolShape, AppendProperties
  <2>3. p2 \in PoolRow /\ Len(p2.queue) = Len(queue) + 1 /\ RunningIn(p2) = RunningIn(Scanning!Pool)
    BY <2>1, <2>2, PoolShape DEF PoolRow, RunningIn
  <2>4. ASSUME NEW k PROVE k \in WaitingIn(p2) <=> k \in WaitingIn(Scanning!Pool) \/ k = j
    <3>1. ASSUME NEW a \in 1..Len(p2.queue),
                 p2.queue[a] = k PROVE k \in WaitingIn(Scanning!Pool) \/ k = j
      <4>1. a \in 1..Len(queue) \/ a = Len(queue) + 1
        BY <2>3, PoolShape
      <4> QED
        BY <2>1, <2>2, <3>1, <4>1, PoolShape DEF WaitingIn
    <3>2. ASSUME NEW a \in 1..Len(queue),
                 queue[a] = k PROVE a \in 1..Len(p2.queue) /\ p2.queue[a] = k
      BY <2>1, <2>2, <2>3, <3>2, PoolShape
    <3>3. Len(queue) + 1 \in 1..Len(p2.queue) /\ p2.queue[Len(queue) + 1] = j
      BY <2>1, <2>2, <2>3, PoolShape
    <3> QED
      BY <3>1, <3>2, <3>3, PoolShape DEF WaitingIn
  <2>5. ASSUME NEW a \in 1..Len(p2.queue), NEW b \in 1..Len(p2.queue),
               p2.queue[a] = p2.queue[b]
        PROVE  a = b
    <3>1. (a \in 1..Len(queue) \/ a = Len(queue) + 1) /\ (b \in 1..Len(queue) \/ b = Len(queue) + 1)
      BY <2>3, PoolShape
    <3>2. \A c \in 1..Len(queue) : queue[c] # j
      BY <1>2, PoolShape DEF WaitingIn
    <3>3. \A c, d \in 1..Len(queue) : queue[c] = queue[d] => c = d
      BY PoolShape DEF PoolOK
    <3> QED
      BY <2>1, <2>2, <2>5, <3>1, <3>2, <3>3
  <2>6. PoolOK(p2, request)
    <3>1. Len(p2.queue) <= QueueMax
      BY <1>6, <2>3, PoolShape DEF ScanBounds
    <3>2. RunningIn(p2) \cap WaitingIn(p2) = {} /\ \A k \in RunningIn(p2) \cup WaitingIn(p2) : request[k] \in Scanned
      BY <1>2, <1>3, <2>3, <2>4 DEF PoolOK
    <3>3. \A m, n \in Workers : p2.slot[m].job = p2.slot[n].job /\ p2.slot[m].job # Scanning!NoJob => m = n
      BY <1>3, <2>1, PoolShape DEF PoolOK
    <3>4. \A s \in Subjects :
            /\ p2.active[s] = Cardinality({k \in RunningIn(p2) : request[k].subject = s})
            /\ p2.active[s] <= SubjectActiveMax
      BY <1>3, <2>1, <2>3, PoolShape DEF PoolOK
    <3> QED
      BY <2>3, <2>5, <3>1, <3>2, <3>3, <3>4 DEF PoolOK
  <2>7. SettledIn(p2, request)
    <3> SUFFICES ASSUME NEW m \in Workers, p2.slot[m].job = Scanning!NoJob, NEW a \in 1..Len(p2.queue)
                 PROVE  ~(p2.active[request[p2.queue[a]].subject] < SubjectActiveMax)
      BY DEF SettledIn
    <3>1. m \in free
      BY <2>1, PoolShape
    <3>2. ~(Scanning!Pool.active[u] < SubjectActiveMax)
      BY <1>6, <3>1 DEF Scanning!Eligible, Scanning!SubjectOf
    <3>3. p2.queue[a] \in WaitingIn(p2)
      BY <2>3 DEF PoolRow, WaitingIn
    <3>4. CASE p2.queue[a] = j
      BY <2>1, <3>2, <3>4, PoolShape
    <3>5. CASE p2.queue[a] # j
      <4>1. PICK b \in 1..Len(queue) : queue[b] = p2.queue[a]
        BY <2>4, <3>3, <3>5, PoolShape DEF WaitingIn
      <4> QED
        BY <1>3, <2>1, <4>1, PoolShape DEF SettledIn
    <3> QED
      BY <3>4, <3>5
  <2>8. /\ request' \in [Jobs -> {Scanning!Ready} \cup Scanned] /\ SamePlaces(request, request')
        /\ request'[j].at = "queued" /\ \A k \in Jobs : k # j => request'[k] = request[k]
    BY <1>2, <1>6, AnswerKeeps DEF Scanning!Answers
  <2>9. AtOK(request', p2)
    BY <1>2, <2>3, <2>4, <2>8 DEF ScanInv, AtOK
  <2>10. Moves(p2)
    BY <1>1, <1>6, <2>6, <2>7, <2>8, <2>9 DEF Moves, p2
  <2> QED
    BY <2>10, PoolMoves
<1> QED
  BY <1>1, <1>4, <1>5, <1>6

LEMMA ScanQueueTimeout ==
  ASSUME ScanBounds, ScanInv, NEW k, Scanning!QueueTimeout(k)
  PROVE  ScanInv'
<1> DEFINE j == queue[k]
           p2 == [Scanning!Pool EXCEPT !.queue = Scanning!RemoveAt(queue, k)]
<1>1. /\ k \in 1..Len(queue) /\ queue' = Scanning!RemoveAt(queue, k) /\ Scanning!Answers(j, "refused")
      /\ UNCHANGED <<slot, activeBySubject, requests, bySource, byService>>
  BY PoolShape DEF Scanning!QueueTimeout
<1>2. j \in Jobs /\ j \in WaitingIn(Scanning!Pool) /\ request[j] \in Scanned
  <2>1. j \in Jobs
    BY <1>1, PoolShape
  <2>2. j \in WaitingIn(Scanning!Pool)
    BY <1>1, <2>1, PoolShape DEF WaitingIn
  <2> QED
    BY <2>1, <2>2 DEF ScanInv, PoolOK
<1>3. /\ Scanning!RemoveAt(queue, k) \in Seq(Jobs)
  BY <1>1, PoolShape, Removed DEF PoolOK, Scanning!RemoveAt
<1>4. /\ p2 \in PoolRow /\ p2.slot = Scanning!Pool.slot /\ p2.active = Scanning!Pool.active
      /\ p2.queue = Scanning!RemoveAt(Scanning!Pool.queue, k)
  BY <1>3, PoolShape DEF PoolRow
<1>5. Scanning!Keeps(p2)
  BY <1>1, <1>4, PoolShape DEF Scanning!Keeps
<1> HIDE DEF p2
<1>6. /\ PoolOK(p2, request) /\ RunningIn(p2) = RunningIn(Scanning!Pool)
      /\ WaitingIn(p2) = WaitingIn(Scanning!Pool) \ {j}
  <2>1. PoolOK(Scanning!Pool, request) /\ k \in 1..Len(Scanning!Pool.queue) /\ Scanning!Pool.queue[k] = j
    BY <1>1, PoolShape
  <2> QED
    BY <1>4, <2>1, QueueShrinks
<1>7. SettledIn(p2, request)
  <2> SUFFICES ASSUME NEW m \in Workers, p2.slot[m].job = Scanning!NoJob, NEW a \in 1..Len(p2.queue)
               PROVE  ~(p2.active[request[p2.queue[a]].subject] < SubjectActiveMax)
    BY DEF SettledIn
  <2>1. p2.queue[a] \in WaitingIn(p2)
    BY <1>4 DEF PoolRow, WaitingIn
  <2>2. PICK b \in 1..Len(Scanning!Pool.queue) : Scanning!Pool.queue[b] = p2.queue[a]
    BY <1>6, <2>1 DEF WaitingIn
  <2> QED
    BY <1>4, <2>2 DEF ScanInv, SettledIn
<1>8. /\ request' \in [Jobs -> {Scanning!Ready} \cup Scanned] /\ SamePlaces(request, request')
      /\ request'[j].at = "refused" /\ \A n \in Jobs : n # j => request'[n] = request[n]
  BY <1>1, <1>2, AnswerKeeps DEF Scanning!Answers
<1>9. j \notin RunningIn(Scanning!Pool)
  BY <1>2 DEF ScanInv, PoolOK
<1>10. AtOK(request', p2)
  BY <1>2, <1>6, <1>8, <1>9 DEF ScanInv, AtOK
<1>11. Moves(p2)
  BY <1>1, <1>5, <1>6, <1>7, <1>8, <1>10 DEF Moves
<1> QED
  BY <1>11, PoolMoves

\* An entry gives up its job.
LEMMA VacatedOK ==
  ASSUME ScanBounds, ScanInv, NEW i \in Workers, NEW thread \in Entry,
         thread.job = Scanning!NoJob
  PROVE  /\ PoolOK(Scanning!Vacated(Scanning!Pool, i, thread), request)
         /\ RunningIn(Scanning!Vacated(Scanning!Pool, i, thread)) = RunningIn(Scanning!Pool) \ {slot[i].job}
         /\ WaitingIn(Scanning!Vacated(Scanning!Pool, i, thread)) = WaitingIn(Scanning!Pool)
<1> DEFINE j == slot[i].job
           u == request[j].subject
           p2 == Scanning!Vacated(Scanning!Pool, i, thread)
<1>1. /\ p2.slot = [slot EXCEPT ![i] = thread] /\ p2.queue = queue
      /\ p2.active = IF j = Scanning!NoJob THEN activeBySubject ELSE [activeBySubject EXCEPT ![u] = @ - 1]
      /\ p2 = [slot |-> p2.slot, queue |-> p2.queue, active |-> p2.active]
  BY PoolShape DEF Scanning!Vacated, Scanning!SubjectOf, PoolRow
<1>2. PoolOK(Scanning!Pool, request)
  BY DEF ScanInv
<1> HIDE DEF p2
<1>3. [slot EXCEPT ![i] = thread] \in [Workers -> Entry]
  BY PoolShape
<1>4. \A n \in Workers : p2.slot[n] = IF n = i THEN thread ELSE slot[n]
  BY <1>1, PoolShape
<1>5. j # Scanning!NoJob => j \in RunningIn(Scanning!Pool) /\ request[j] \in Scanned /\ u \in Subjects
  <2>1. j # Scanning!NoJob => j \in Jobs
    BY PoolShape DEF Entry
  <2>2. j # Scanning!NoJob => j \in RunningIn(Scanning!Pool)
    BY <2>1, PoolShape DEF RunningIn
  <2> QED
    BY <1>2, <2>2 DEF PoolOK, Scanned
<1>6. \A n \in Workers : slot[n].job = j /\ j # Scanning!NoJob => n = i
  BY <1>2, PoolShape DEF PoolOK
<1>7. RunningIn(p2) = RunningIn(Scanning!Pool) \ {j}
  <2> SUFFICES ASSUME NEW k \in Jobs
               PROVE  (\E n \in Workers : p2.slot[n].job = k) <=> (\E n \in Workers : slot[n].job = k) /\ k # j
    BY PoolShape DEF RunningIn
  <2>1. k # Scanning!NoJob
    BY DEF ScanBounds
  <2> QED
    BY <1>4, <1>6, <2>1
<1>8. WaitingIn(p2) = WaitingIn(Scanning!Pool)
  BY <1>1, PoolShape DEF WaitingIn
<1>9. ASSUME NEW s \in Subjects
      PROVE  /\ p2.active[s] = Cardinality({k \in RunningIn(p2) : request[k].subject = s})
             /\ p2.active[s] <= SubjectActiveMax /\ p2.active[s] \in Nat
  <2> DEFINE S == {k \in RunningIn(Scanning!Pool) : request[k].subject = s}
             T == {k \in RunningIn(p2) : request[k].subject = s}
  <2>1. activeBySubject[s] = Cardinality(S) /\ activeBySubject[s] <= SubjectActiveMax /\ activeBySubject[s] \in Nat
    BY <1>2, PoolShape DEF PoolOK
  <2>2. S \subseteq Jobs
    BY DEF RunningIn
  <2>3. CASE j # Scanning!NoJob /\ s = u
    <3>1. T = S \ {j} /\ j \in S
      BY <1>5, <1>7, <2>3
    <3> HIDE DEF S, T
    <3>2. Cardinality(T) = Cardinality(S) - 1 /\ Cardinality(S) > 0
      BY <2>2, <3>1, Counted
    <3>3. p2.active[s] = activeBySubject[s] - 1
      BY <1>1, <2>3, PoolShape
    <3>4. p2.active[s] = Cardinality(T) /\ p2.active[s] <= SubjectActiveMax /\ p2.active[s] \in Nat
      BY <2>1, <3>2, <3>3 DEF ScanBounds
    <3> QED
      BY <3>4 DEF T
  <2>4. CASE ~(j # Scanning!NoJob /\ s = u)
    <3>1. T = S
      <4>1. j \notin S
        BY <2>4, <2>2 DEF ScanBounds
      <4> QED
        BY <1>7, <4>1
    <3>2. p2.active[s] = activeBySubject[s]
      BY <1>1, <1>5, <2>4, PoolShape
    <3> HIDE DEF S, T
    <3>3. p2.active[s] = Cardinality(T) /\ p2.active[s] <= SubjectActiveMax /\ p2.active[s] \in Nat
      BY <2>1, <3>1, <3>2
    <3> QED
      BY <3>3 DEF T
  <2> QED
    BY <2>3, <2>4
<1>10. p2.active \in [Subjects -> Nat]
  <2>1. p2.active = [s \in Subjects |-> p2.active[s]]
    BY <1>1, PoolShape
  <2> QED
    BY <1>9, <2>1
<1>11. p2 \in PoolRow
  BY <1>1, <1>3, <1>10, PoolShape DEF PoolRow
<1>12. \A m, n \in Workers : p2.slot[m].job = p2.slot[n].job /\ p2.slot[m].job # Scanning!NoJob => m = n
  BY <1>2, <1>4, PoolShape DEF PoolOK
<1>13. /\ Len(p2.queue) <= QueueMax
       /\ \A a, b \in 1..Len(p2.queue) : p2.queue[a] = p2.queue[b] => a = b
  BY <1>1, <1>2, PoolShape DEF PoolOK
<1>14. RunningIn(p2) \cap WaitingIn(p2) = {} /\ \A k \in RunningIn(p2) \cup WaitingIn(p2) : request[k] \in Scanned
  BY <1>2, <1>7, <1>8 DEF PoolOK
<1>15. PoolOK(p2, request)
  BY <1>9, <1>11, <1>12, <1>13, <1>14 DEF PoolOK
<1> QED
  BY <1>7, <1>8, <1>15 DEF p2

\* A job leaves its worker, whose thread goes on or is replaced, and others start.
LEMMA LeavesOK ==
  ASSUME ScanBounds, ScanInv, NEW i \in Workers, NEW thread \in Entry,
         thread.job = Scanning!NoJob,
         NEW at \in {"scanned", "refused"}, Scanning!Leaves(i, thread, at),
         UNCHANGED <<requests, bySource, byService>>
  PROVE  ScanInv'
<1> DEFINE p1 == Scanning!Vacated(Scanning!Pool, i, thread)
           p2 == Scanning!Dispatched(p1)
           j == slot[i].job
<1>1. /\ PoolOK(p1, request) /\ RunningIn(p1) = RunningIn(Scanning!Pool) \ {j}
      /\ WaitingIn(p1) = WaitingIn(Scanning!Pool)
  BY VacatedOK
<1>2. /\ Scanning!Keeps(p2)
      /\ request' = [k \in Jobs |->
           IF k = j THEN [request[k] EXCEPT !.at = at]
           ELSE IF \E n \in DOMAIN p2.slot : p2.slot[n].job = k
                THEN [request[k] EXCEPT !.at = "scanning"] ELSE request[k]]
  BY DEF Scanning!Leaves
<1> HIDE DEF p1
<1>3. PoolOK(p2, request) /\ Follows(p1, p2) /\ SettledTo(p2, PoolWorkers)
  BY <1>1, DispatchOK
<1> HIDE DEF p2
<1>4. SettledIn(p2, request)
  BY <1>3, SettledSame
<1>5. DOMAIN p2.slot = Workers
  BY <1>3 DEF PoolOK, PoolRow
<1>6. \A k \in Jobs : (\E n \in DOMAIN p2.slot : p2.slot[n].job = k) <=> k \in RunningIn(p2)
  BY <1>5 DEF RunningIn
<1>7. /\ j \notin RunningIn(p2) /\ j \notin WaitingIn(p2)
      /\ RunningIn(p2) \cup WaitingIn(p2) = (RunningIn(Scanning!Pool) \cup WaitingIn(Scanning!Pool)) \ {j}
      /\ RunningIn(Scanning!Pool) \ {j} \subseteq RunningIn(p2)
      /\ j \in Jobs => j \in RunningIn(Scanning!Pool)
  <2>1. j \in Jobs => j \in RunningIn(Scanning!Pool)
    BY PoolShape DEF RunningIn
  <2>2. j \notin WaitingIn(Scanning!Pool)
    BY <2>1 DEF ScanInv, PoolOK, WaitingIn
  <2> QED
    BY <1>1, <1>3, <2>1, <2>2 DEF Follows
<1>8. ASSUME NEW k \in Jobs
      PROVE  /\ request'[k] \in {Scanning!Ready} \cup Scanned
             /\ request'[k] # Scanning!Ready <=> request[k] # Scanning!Ready
             /\ request[k] # Scanning!Ready => /\ request'[k].subject = request[k].subject
                                               /\ request'[k].service = request[k].service
             /\ request'[k].at = "scanning" <=> k \in RunningIn(p2)
             /\ request'[k].at = "queued" <=> k \in WaitingIn(p2)
  <2>0. /\ request[k] \in {Scanning!Ready} \cup Scanned
        /\ request[k].at = "scanning" <=> k \in RunningIn(Scanning!Pool)
        /\ request[k].at = "queued" <=> k \in WaitingIn(Scanning!Pool)
        /\ RunningIn(p2) \cap WaitingIn(p2) = {}
    BY <1>3 DEF ScanInv, AtOK, PoolOK
  <2>1. ASSUME request[k] \in Scanned, NEW a \in {"scanned", "refused", "scanning"},
               request'[k] = [request[k] EXCEPT !.at = a]
        PROVE  /\ request'[k] \in Scanned /\ request[k] # Scanning!Ready /\ request'[k] # Scanning!Ready
               /\ request'[k].subject = request[k].subject /\ request'[k].service = request[k].service
               /\ request'[k].at = a
    <3>1. /\ request'[k] \in Scanned
          /\ request'[k].subject = request[k].subject /\ request'[k].service = request[k].service
          /\ request'[k].at = a
      BY <2>1 DEF Scanned
    <3> QED
      BY <2>1, <3>1, NotReady
  <2>2. CASE k = j
    <3>1. request[k] \in Scanned
      BY <1>7, <2>2 DEF ScanInv, PoolOK
    <3>2. request'[k] = [request[k] EXCEPT !.at = at]
      BY <1>2, <2>2
    <3>3. /\ request'[k] \in Scanned /\ request[k] # Scanning!Ready /\ request'[k] # Scanning!Ready
          /\ request'[k].subject = request[k].subject /\ request'[k].service = request[k].service
          /\ request'[k].at = at
      BY <2>1, <3>1, <3>2
    <3> QED
      BY <1>7, <2>2, <3>3
  <2>3. CASE k # j /\ k \in RunningIn(p2)
    <3>1. request[k] \in Scanned
      BY <1>3, <2>3 DEF PoolOK
    <3>2. request'[k] = [request[k] EXCEPT !.at = "scanning"]
      BY <1>2, <1>6, <2>3
    <3>3. /\ request'[k] \in Scanned /\ request[k] # Scanning!Ready /\ request'[k] # Scanning!Ready
          /\ request'[k].subject = request[k].subject /\ request'[k].service = request[k].service
          /\ request'[k].at = "scanning"
      BY <2>1, <3>1, <3>2
    <3> QED
      BY <2>0, <2>3, <3>3
  <2>4. CASE k # j /\ k \notin RunningIn(p2)
    <3>1. request'[k] = request[k]
      BY <1>2, <1>6, <2>4
    <3>2. k \notin RunningIn(Scanning!Pool) /\ (k \in WaitingIn(p2) <=> k \in WaitingIn(Scanning!Pool))
      BY <1>7, <2>4
    <3> QED
      BY <2>0, <2>4, <3>1, <3>2
  <2> QED
    BY <2>2, <2>3, <2>4
<1>9. request' \in [Jobs -> {Scanning!Ready} \cup Scanned]
  BY <1>2, <1>8
<1>10. SamePlaces(request, request') /\ AtOK(request', p2)
  BY <1>8 DEF SamePlaces, AtOK
<1>11. Moves(p2)
  BY <1>2, <1>3, <1>4, <1>9, <1>10 DEF Moves
<1> QED
  BY <1>11, PoolMoves

LEMMA RecycledOK ==
  ASSUME ScanBounds, ScanInv, NEW i \in Workers, Scanning!Recycled(i),
         UNCHANGED <<requests, bySource, byService>>
  PROVE  ScanInv'
<1> DEFINE thread == IF closed THEN [Scanning!Free EXCEPT !.runs = FALSE] ELSE Scanning!Free
<1>1. Scanning!Leaves(i, thread, "refused")
  BY DEF Scanning!Recycled
<1>2. thread \in Entry /\ thread.job = Scanning!NoJob
  BY DEF Scanning!Free, Entry
<1> HIDE DEF thread
<1> QED
  BY <1>1, <1>2, LeavesOK

LEMMA ScanWorker ==
  ASSUME ScanBounds, ScanInv, NEW i \in Workers,
         Scanning!Finish(i) \/ Scanning!ScanTimeout(i) \/ Scanning!WorkerError(i) \/ Scanning!WorkerExit(i)
  PROVE  ScanInv'
<1>1. CASE Scanning!Finish(i)
  <2> DEFINE thread == [slot[i] EXCEPT !.job = Scanning!NoJob]
  <2>1. PICK at \in {"scanned", "refused"} : Scanning!Leaves(i, thread, at)
    BY <1>1 DEF Scanning!Finish
  <2>2. thread \in Entry /\ thread.job = Scanning!NoJob
    BY PoolShape DEF Entry
  <2>3. UNCHANGED <<requests, bySource, byService>>
    BY <1>1 DEF Scanning!Finish
  <2> HIDE DEF thread
  <2> QED
    BY <2>1, <2>2, <2>3, LeavesOK
<1>2. CASE Scanning!ScanTimeout(i)
  BY <1>2, RecycledOK DEF Scanning!ScanTimeout
<1>3. CASE Scanning!WorkerError(i)
  BY <1>3, RecycledOK DEF Scanning!WorkerError
<1>4. CASE Scanning!WorkerExit(i) /\ Scanning!Recycled(i)
  BY <1>4, RecycledOK DEF Scanning!WorkerExit
<1>5. CASE Scanning!WorkerExit(i) /\ ~Scanning!Recycled(i)
  <2> DEFINE p2 == Ended(Scanning!Pool, i)
  <2>1. /\ slot' = [slot EXCEPT ![i].runs = FALSE]
        /\ UNCHANGED <<request, queue, activeBySubject, requests, bySource, byService>>
    BY <1>5 DEF Scanning!WorkerExit
  <2>2. /\ p2.slot = slot' /\ p2.queue = queue /\ p2.active = activeBySubject /\ p2 \in PoolRow
        /\ \A n \in Workers : p2.slot[n].job = slot[n].job
    <3>1. /\ p2.slot = [slot EXCEPT ![i].runs = FALSE] /\ p2.queue = queue /\ p2.active = activeBySubject
          /\ p2 = [slot |-> p2.slot, queue |-> p2.queue, active |-> p2.active]
      <4>1. Scanning!Pool \in PoolRow /\ Scanning!Pool.slot = slot /\ Scanning!Pool.queue = queue /\ Scanning!Pool.active = activeBySubject
        BY PoolShape
      <4>2. /\ p2.slot = [Scanning!Pool.slot EXCEPT ![i].runs = FALSE] /\ p2.queue = Scanning!Pool.queue
            /\ p2.active = Scanning!Pool.active
            /\ p2 = [slot |-> p2.slot, queue |-> p2.queue, active |-> p2.active]
        BY <4>1, EndedShape
      <4> QED
        BY <4>1, <4>2
    <3>2. /\ [slot EXCEPT ![i].runs = FALSE] \in [Workers -> Entry]
          /\ \A n \in Workers : [slot EXCEPT ![i].runs = FALSE][n].job = slot[n].job
      BY PoolShape DEF Entry
    <3> HIDE DEF p2
    <3> QED
      BY <2>1, <3>1, <3>2, PoolShape DEF PoolRow
  <2> HIDE DEF p2
  <2>3. RunningIn(p2) = RunningIn(Scanning!Pool) /\ WaitingIn(p2) = WaitingIn(Scanning!Pool)
    BY <2>2, PoolShape DEF RunningIn, WaitingIn
  <2>4. PoolOK(p2, request)
    <3> DEFINE p1 == Scanning!Pool
    <3>1. PoolOK(p1, request) /\ p1.slot = slot /\ p1.queue = queue /\ p1.active = activeBySubject
      BY PoolShape
    <3> HIDE DEF p1
    <3>2. /\ p2 \in PoolRow /\ Len(p2.queue) <= QueueMax
          /\ \A a, b \in 1..Len(p2.queue) : p2.queue[a] = p2.queue[b] => a = b
          /\ \A m, n \in Workers :
               p2.slot[m].job = p2.slot[n].job /\ p2.slot[m].job # Scanning!NoJob => m = n
      BY <2>2, <3>1 DEF PoolOK
    <3>3. /\ RunningIn(p2) = RunningIn(p1) /\ WaitingIn(p2) = WaitingIn(p1)
          /\ p2.active = p1.active
      BY <2>2, <2>3, <3>1 DEF p1
    <3> QED
      BY <3>1, <3>2, <3>3 DEF PoolOK
  <2>5. SettledIn(p2, request) /\ AtOK(request, p2)
    BY <2>2, <2>3, PoolShape DEF ScanInv, SettledIn, AtOK
  <2>6. Moves(p2)
    BY <2>1, <2>2, <2>4, <2>5 DEF Moves, Scanning!Keeps, SamePlaces, ScanInv
  <2> QED
    BY <2>6, PoolMoves
<1> QED
  BY <1>1, <1>2, <1>3, <1>4, <1>5

LEMMA ScanLateError ==
  ASSUME ScanBounds, ScanInv, Scanning!LateError
  PROVE  ScanInv'
<1>1. Scanning!Keeps(Scanning!Dispatched(Scanning!Pool)) /\ UNCHANGED <<request, bySource, byService, requests>>
  BY DEF Scanning!LateError
<1>2. Scanning!Dispatched(Scanning!Pool) = Scanning!Pool
  BY DispatchIdles, SettledSame DEF ScanInv
<1> QED
  BY <1>1, <1>2, PoolRests DEF Scanning!Keeps, Scanning!Pool, SamePlaces, ScanInv

LEMMA ScanClose ==
  ASSUME ScanBounds, ScanInv, Scanning!Close
  PROVE  ScanInv'
<1> DEFINE p2 == [Scanning!Pool EXCEPT !.queue = <<>>]
<1>1. /\ queue' = <<>> /\ UNCHANGED <<bySource, byService, requests, slot, activeBySubject>>
      /\ request' = [j \in Jobs |->
           IF j \in WaitingIn(Scanning!Pool) THEN [request[j] EXCEPT !.at = "refused"] ELSE request[j]]
  <2>1. \A j \in Jobs : Scanning!Contains(queue, j) <=> j \in WaitingIn(Scanning!Pool)
    BY PoolShape DEF Scanning!Contains, WaitingIn
  <2> QED
    BY <2>1 DEF Scanning!Close
<1>2. /\ p2.slot = slot /\ p2.queue = <<>> /\ p2.active = activeBySubject /\ p2 \in PoolRow
  <2>1. p2 = [slot |-> slot, queue |-> <<>>, active |-> activeBySubject]
    BY DEF Scanning!Pool
  <2>2. <<>> \in Seq(Jobs)
    OBVIOUS
  <2> QED
    BY <2>1, <2>2, PoolShape DEF PoolRow
<1> HIDE DEF p2
<1>3. Len(p2.queue) = 0
  BY <1>2
<1>4. RunningIn(p2) = RunningIn(Scanning!Pool) /\ WaitingIn(p2) = {}
  BY <1>2, <1>3, PoolShape DEF RunningIn, WaitingIn
<1>5. PoolOK(p2, request) /\ SettledIn(p2, request)
  BY <1>2, <1>3, <1>4, PoolShape DEF PoolOK, SettledIn, ScanBounds
<1>6. ASSUME NEW k \in Jobs
      PROVE  /\ request'[k] \in {Scanning!Ready} \cup Scanned
             /\ request'[k] # Scanning!Ready <=> request[k] # Scanning!Ready
             /\ request[k] # Scanning!Ready => /\ request'[k].subject = request[k].subject
                                               /\ request'[k].service = request[k].service
             /\ request'[k].at = "scanning" <=> k \in RunningIn(p2)
             /\ request'[k].at = "queued" <=> k \in WaitingIn(p2)
  <2>0. /\ request[k] \in {Scanning!Ready} \cup Scanned
        /\ request[k].at = "scanning" <=> k \in RunningIn(Scanning!Pool)
        /\ request[k].at = "queued" <=> k \in WaitingIn(Scanning!Pool)
        /\ RunningIn(Scanning!Pool) \cap WaitingIn(Scanning!Pool) = {}
    BY DEF ScanInv, AtOK, PoolOK
  <2>1. CASE k \in WaitingIn(Scanning!Pool)
    <3>1. request[k] \in Scanned /\ request'[k] = [request[k] EXCEPT !.at = "refused"]
      BY <1>1, <2>1 DEF ScanInv, PoolOK
    <3>2. /\ request'[k] \in Scanned
          /\ request'[k].subject = request[k].subject /\ request'[k].service = request[k].service
          /\ request'[k].at = "refused"
      BY <3>1 DEF Scanned
    <3>3. request[k] # Scanning!Ready /\ request'[k] # Scanning!Ready
      BY <3>1, <3>2, NotReady
    <3> QED
      BY <1>4, <2>0, <2>1, <3>2, <3>3
  <2>2. CASE k \notin WaitingIn(Scanning!Pool)
    BY <1>1, <1>4, <2>0, <2>2
  <2> QED
    BY <2>1, <2>2
<1>7. request' \in [Jobs -> {Scanning!Ready} \cup Scanned]
  BY <1>1, <1>6
<1>8. Moves(p2)
  BY <1>1, <1>2, <1>5, <1>6, <1>7 DEF Moves, Scanning!Keeps, SamePlaces, AtOK
<1> QED
  BY <1>8, PoolMoves

LEMMA ScanNext ==
  ASSUME ScanBounds, ScanInv, [Scanning!Next]_(Scanning!poolVars)
  PROVE  ScanInv'
<1>1. CASE \E j \in Jobs, s \in Subjects, v \in Bindings : Scanning!Acquire(j, s, v)
  BY <1>1, ScanAcquire
<1>2. CASE \E j \in Jobs : Scanning!Release(j)
  BY <1>2, ScanRelease
<1>3. CASE \E j \in Jobs : Scanning!Scan(j)
  BY <1>3, ScanScan
<1>4. CASE \E k \in 1..QueueMax : Scanning!QueueTimeout(k)
  BY <1>4, ScanQueueTimeout
<1>5. CASE \E i \in 1..PoolWorkers : Scanning!Finish(i) \/ Scanning!ScanTimeout(i) \/ Scanning!WorkerError(i) \/ Scanning!WorkerExit(i)
  BY <1>5, ScanWorker DEF Workers
<1>6. CASE Scanning!LateError
  BY <1>6, ScanLateError
<1>7. CASE Scanning!Close
  BY <1>7, ScanClose
<1>8. CASE UNCHANGED Scanning!poolVars
  BY <1>8, PoolRests DEF Scanning!poolVars, SamePlaces, ScanInv
<1> QED
  BY <1>1, <1>2, <1>3, <1>4, <1>5, <1>6, <1>7, <1>8 DEF Scanning!Next

LEMMA ScanSafe ==
  ASSUME ScanBounds, ScanInv
  PROVE  Scanning!CapacityKept
<1>1. Scanning!Running = RunningIn(Scanning!Pool)
  BY PoolShape DEF Scanning!Running, RunningIn
<1>2. \A j : Scanning!Contains(queue, j) /\ j \in Jobs <=> j \in WaitingIn(Scanning!Pool)
  BY PoolShape DEF Scanning!Contains, WaitingIn
<1>3. requests = Scanning!Under(LAMBDA r : TRUE) /\ requests <= MaxTotal
  BY ScanningCardinality DEF ScanInv, LimiterOK, Scanning!Under
<1>4. ASSUME NEW s \in Subjects
      PROVE  /\ bySource[s] = Scanning!Under(LAMBDA r : r.subject = s) /\ bySource[s] <= MaxPerSource
             /\ activeBySubject[s] = Cardinality({j \in Scanning!Running : Scanning!SubjectOf(j) = s})
             /\ activeBySubject[s] <= SubjectActiveMax
  <2>1. bySource[s] = Scanning!Under(LAMBDA r : r.subject = s) /\ bySource[s] <= MaxPerSource
    BY ScanningCardinality DEF ScanInv, LimiterOK, Scanning!Under
  <2>2. /\ activeBySubject[s] = Cardinality({j \in Scanning!Running : Scanning!SubjectOf(j) = s})
        /\ activeBySubject[s] <= SubjectActiveMax
    BY <1>1, PoolShape, ScanningCardinality DEF PoolOK, Scanning!SubjectOf
  <2> QED
    BY <2>1, <2>2
<1>5. ASSUME NEW v \in Bindings
      PROVE  byService[v] = Scanning!Under(LAMBDA r : r.service = v) /\ byService[v] <= MaxPerService
  BY ScanningCardinality DEF ScanInv, LimiterOK, Scanning!Under
<1>6. Len(queue) <= QueueMax
  BY PoolShape DEF PoolOK
<1>7. ASSUME NEW j \in Jobs
      PROVE  Cardinality({i \in DOMAIN slot : slot[i].job = j}
                         \cup {-k : k \in {k \in DOMAIN queue : queue[k] = j}}) <= 1
  <2> DEFINE places == {i \in DOMAIN slot : slot[i].job = j}
                         \cup {-k : k \in {k \in DOMAIN queue : queue[k] = j}}
  <2>1. \A x, y \in places : x = y
    <3>1. j # Scanning!NoJob
      BY DEF ScanBounds
    <3>2. \A i, n \in DOMAIN slot : slot[i].job = j /\ slot[n].job = j => i = n
      BY <3>1, PoolShape DEF PoolOK
    <3>3. \A a, b \in DOMAIN queue : queue[a] = j /\ queue[b] = j => a = b
      BY PoolShape DEF PoolOK
    <3>4. \A i \in DOMAIN slot, a \in DOMAIN queue : ~(slot[i].job = j /\ queue[a] = j)
      BY PoolShape DEF PoolOK, RunningIn, WaitingIn
    <3> QED
      BY <3>2, <3>3, <3>4
  <2>2. CASE places = {}
    BY <2>2, FS_EmptySet
  <2>3. CASE places # {}
    <3>1. PICK x : places = {x}
      BY <2>1, <2>3
    <3> HIDE DEF places
    <3>2. Cardinality(places) = 1
      BY <3>1, FS_Singleton
    <3>3. Cardinality(places) <= 1
      BY <3>2
    <3> QED
      BY <3>3 DEF places
  <2> QED
    BY <2>2, <2>3
<1>8. \A j \in Jobs : /\ (request[j].at = "scanning") <=> j \in Scanning!Running
                      /\ (request[j].at = "queued") <=> Scanning!Contains(queue, j)
  BY <1>1, <1>2 DEF ScanInv, AtOK
<1>9. \A i \in DOMAIN slot, k \in DOMAIN queue : slot[i].job = Scanning!NoJob => ~Scanning!Eligible(Scanning!Pool, queue[k])
  BY PoolShape DEF ScanInv, SettledIn, Scanning!Eligible, Scanning!SubjectOf
<1> QED
  BY <1>3, <1>4, <1>5, <1>6, <1>7, <1>8, <1>9, ScanningCardinality
     DEF Scanning!CapacityKept

\* What is proved of limiter and pool, without the other parts.
ScanSafety == Scanning!Init /\ [][Scanning!Next]_(Scanning!poolVars)

\* The strengthening holds of limiter and pool for any numbers of requests, subjects,
\* services and workers, any limits and any failures of threads
\* (serviceRequestLimiter.ts, secretScannerPool.ts).
THEOREM PoolInductive == ScanBounds /\ ScanSafety => []ScanInv
<1> SUFFICES ASSUME ScanBounds PROVE ScanSafety => []ScanInv
  OBVIOUS
<1>1. Scanning!Init => ScanInv
  BY ScanInit
<1>2. ScanInv /\ [Scanning!Next]_(Scanning!poolVars) => ScanInv'
  BY ScanNext
<1> QED
  BY <1>1, <1>2, PTL DEF ScanSafety

\* Limiter and pool count exactly what is under way, a request that waits has one
\* place where it will be answered, and no worker idles while a job could start
\* (serviceRequestLimiter.ts, secretScannerPool.ts dispatch, recycle, finish).
THEOREM PoolStaysKept == ScanBounds /\ ScanSafety => []Scanning!CapacityKept
<1> SUFFICES ASSUME ScanBounds PROVE ScanSafety => []Scanning!CapacityKept
  OBVIOUS
<1>1. ScanInv => Scanning!CapacityKept
  BY ScanSafe
<1> QED
  BY <1>1, PoolInductive, PTL

-----------------------------------------------------------------------------
(* Sign-ins through a provider.                                            *)

\* What the limits and lifetimes have to be.
FlowBounds ==
  /\ IsFiniteSet(Subjects) /\ IsFiniteSet(FlowStates) /\ FlowStates \subseteq Nat \ {0}
  /\ FlowTtl \in Nat \ {0} /\ CacheTtl \in Nat \ {0} /\ Timeout \in Nat \ {0}
  /\ MaxKey \in Nat \ {0} /\ MaxFlows \in Nat /\ MaxInflight \in Nat
  /\ MaxPerProvider \in Nat /\ MaxCacheRecords \in Nat /\ LastMoment \in Nat
  /\ MaxRestarts \in Nat

\* Where a request is once its flow is claimed, and where it may be.
Claimed == {"claimed", "exchange", "posting", "exchanged", "verify", "keyless", "fetch",
            "fetching", "complete"}
Places == Claimed \cup {"begun", "create", "claim", "discovering"}

SignInCall ==
  [at : Places, browser : Bindings, provider : Providers, flow : FlowStates \cup {0},
   code : FlowStates \cup {0}, key : 0..MaxKey, forced : BOOLEAN,
   next : {"none", "create", "exchange", "verify", "fetch"}, sent : Nat, since : 0..MaxKey]
FlowRow == [status : {"open", "claimed", "consumed", "gone"}, provider : Providers,
            browser : Bindings, expires : Nat]
CachedRow == [provider : Providers, value : 0..MaxKey, expires : Nat]
Assertion == [browser : Bindings, code : FlowStates \cup {0}]

FlowTypes ==
  /\ flow \in [FlowStates -> {SignIns!Absent} \cup FlowRow]
  /\ cookie \in [Bindings -> FlowStates \cup {0}]
  /\ call \in [Subjects -> {SignIns!Idle} \cup SignInCall]
  /\ discovery \in Seq(CachedRow) /\ jwks \in Seq(CachedRow)
  /\ outgoing \in Nat /\ inflight \in [Providers -> Nat]
  /\ signing \in [Providers -> 1..MaxKey]
  /\ withdrawn \in [Providers -> [1..MaxKey -> Nat]]
  /\ posts \in [FlowStates -> Nat] /\ asserted \in [FlowStates -> Seq(Assertion)]
  /\ moment \in Nat /\ restarts \in Nat

\* What a request will do once it has its discovery document counts as done.
StageOf(r) == IF r.at = "discovering" THEN r.next ELSE r.at

\* A request whose cookie agreed is about a flow of its browser; once it has claimed
\* the flow nobody else can, and nothing was presented for the flow before.
ClaimsOK(r, rows, presented) ==
  /\ StageOf(r) \in Claimed \cup {"claim"} =>
       r.flow \in FlowStates /\ rows[r.flow] # SignIns!Absent
           /\ rows[r.flow].browser = r.browser
  /\ StageOf(r) \in Claimed => rows[r.flow].status \in {"claimed", "gone"}
  /\ StageOf(r) \in {"claimed", "exchange"} => presented[r.flow] = 0
  /\ r.at = "complete" => r.code = r.flow
  /\ r.at = "discovering" => r.next # "none"

Exclusive(calls) ==
  \A c, d \in Subjects :
    /\ StageOf(calls[c]) \in Claimed /\ StageOf(calls[d]) \in Claimed
    /\ calls[c].flow = calls[d].flow
    => c = d

\* A flow that nobody has claimed was presented and asserted for nobody.
HistoryOK(rows, presented, given) ==
  \A f \in FlowStates :
    /\ presented[f] <= 1 /\ (rows[f].status \in {"absent", "open"} => presented[f] = 0)
    /\ Len(given[f]) <= 1 /\ (Len(given[f]) = 1 => rows[f].status \in {"consumed", "gone"})
    /\ \A i \in 1..Len(given[f]) : given[f][i] = [browser |-> rows[f].browser, code |-> f]

CookiesOK(cookies, rows) ==
  \A b \in Bindings :
    cookies[b] # 0 => rows[cookies[b]] # SignIns!Absent /\ rows[cookies[b]].browser = b

\* A request that is under way was sent within the timeout, and the keys that its answer
\* may bring were published since.
InTime(r, time, keys, ended) ==
  /\ r.at # "idle" => r.sent <= time
  /\ r.at \in {"discovering", "posting", "fetching"} => time <= r.sent + Timeout
  /\ r.at = "fetching" =>
       /\ r.since \in 1..keys[r.provider]
       /\ \A k \in r.since..(keys[r.provider] - 1) : r.sent <= ended[r.provider][k]

\* A cached key was published no longer ago than a request may last.
EntryOK(e, time, keys, ended) ==
  /\ e.value \in 1..keys[e.provider] /\ e.expires <= time + CacheTtl
  /\ e.value < keys[e.provider]
         => e.expires <= ended[e.provider][e.value] + Timeout + CacheTtl
CacheOK(cache, time, keys, ended) ==
  \A i \in 1..Len(cache) : EntryOK(cache[i], time, keys, ended)

\* The limiter counts what is under way.
Sent(calls) == {c \in Subjects : calls[c].at \in {"discovering", "posting", "fetching"}}
SentTo(calls, p) == {c \in Sent(calls) : calls[c].provider = p}
CountsOK(calls, n, each) ==
  /\ n = Cardinality(Sent(calls)) /\ n <= MaxInflight
  /\ \A p \in Providers : /\ each[p] = Cardinality(SentTo(calls, p))
                          /\ each[p] <= MaxPerProvider

FlowInv ==
  /\ FlowTypes
  /\ \A c \in Subjects : ClaimsOK(call[c], flow, posts)
         /\ InTime(call[c], moment, signing, withdrawn)
  /\ Exclusive(call) /\ HistoryOK(flow, posts, asserted) /\ CookiesOK(cookie, flow)
  /\ CacheOK(jwks, moment, signing, withdrawn) /\ CountsOK(call, outgoing, inflight)
  /\ Cardinality(SignIns!Rows(flow)) <= MaxFlows

-----------------------------------------------------------------------------
(* Lemmas about calls.                                                     *)

LEMMA NotIdle ==
  ASSUME NEW r \in {SignIns!Idle} \cup SignInCall
  PROVE  /\ r \in SignInCall <=> r # SignIns!Idle
         /\ r \in SignInCall <=> r.at # "idle"
         /\ r = SignIns!Idle => r.at = "idle" /\ StageOf(r) = "idle"
BY DEF SignIns!Idle, SignInCall, Places, Claimed, StageOf

\* What a step makes of one request, in a state where rows, presented codes and counts
\* are those given.
Becomes(c, r, rows, presented) ==
  /\ r \in {SignIns!Idle} \cup SignInCall
  /\ call' = [call EXCEPT ![c] = r]
  /\ ClaimsOK(r, rows, presented) /\ InTime(r, moment, signing, withdrawn)
  /\ \A d \in Subjects \ {c} : /\ ClaimsOK(call[d], rows, presented)
                               /\ StageOf(r) \in Claimed /\ StageOf(call[d]) \in Claimed
                                  => r.flow # call[d].flow

LEMMA OneMoves ==
  ASSUME FlowInv, NEW c \in Subjects, NEW r, NEW rows, NEW presented,
             Becomes(c, r, rows, presented)
  PROVE  /\ call' \in [Subjects -> {SignIns!Idle} \cup SignInCall]
         /\ \A d \in Subjects : ClaimsOK(call'[d], rows, presented)
         /\ \A d \in Subjects : InTime(call'[d], moment, signing, withdrawn)
         /\ Exclusive(call')
<1>1. call \in [Subjects -> {SignIns!Idle} \cup SignInCall]
  BY DEF FlowInv, FlowTypes
<1>2. /\ call'[c] = r /\ \A d \in Subjects \ {c} : call'[d] = call[d]
      /\ call' \in [Subjects -> {SignIns!Idle} \cup SignInCall]
  BY <1>1 DEF Becomes
<1>3. \A d \in Subjects : ClaimsOK(call'[d], rows, presented)
  BY <1>2 DEF Becomes
<1>4. \A d \in Subjects : InTime(call'[d], moment, signing, withdrawn)
  BY <1>2 DEF Becomes, FlowInv
<1>5. Exclusive(call')
  <2> SUFFICES ASSUME NEW a \in Subjects, NEW b \in Subjects, StageOf(call'[a]) \in Claimed,
                      StageOf(call'[b]) \in Claimed, call'[a].flow = call'[b].flow
               PROVE  a = b
    BY DEF Exclusive
  <2>1. CASE a # c /\ b # c
    BY <1>2, <2>1 DEF FlowInv, Exclusive
  <2>2. CASE a = c \/ b = c
    BY <1>2, <2>2 DEF Becomes
  <2> QED
    BY <2>1, <2>2
<1> QED
  BY <1>2, <1>3, <1>4, <1>5

\* A request that stays about its flow, or forgets it, disturbs no other.
LEMMA OneStays ==
  ASSUME FlowInv, NEW c \in Subjects, NEW r \in {SignIns!Idle} \cup SignInCall,
         call' = [call EXCEPT ![c] = r],
         ClaimsOK(r, flow, posts), InTime(r, moment, signing, withdrawn),
         StageOf(r) \in Claimed => StageOf(call[c]) \in Claimed /\ r.flow = call[c].flow
  PROVE  Becomes(c, r, flow, posts)
BY DEF FlowInv, Exclusive, Becomes

LEMMA IdleOK ==
  ASSUME NEW rows, NEW presented
  PROVE  ClaimsOK(SignIns!Idle, rows, presented)
             /\ InTime(SignIns!Idle, moment, signing, withdrawn)
BY DEF ClaimsOK, InTime, SignIns!Idle, StageOf, Claimed

LEMMA SentFinite ==
  ASSUME FlowBounds, NEW calls
  PROVE  /\ IsFiniteSet(Sent(calls)) /\ Cardinality(Sent(calls)) \in Nat
         /\ \A p : IsFiniteSet(SentTo(calls, p))
                /\ Cardinality(SentTo(calls, p)) \in Nat
<1>1. IsFiniteSet(Sent(calls))
  BY FS_Subset DEF FlowBounds, Sent
<1>2. \A p : IsFiniteSet(SentTo(calls, p))
  BY <1>1, FS_Subset DEF SentTo
<1> QED
  BY <1>1, <1>2, FS_CardinalityType

LEMMA CountsStay ==
  ASSUME FlowInv, NEW c \in Subjects, NEW r,
         call' = [call EXCEPT ![c] = r],
         c \notin Sent(call), r.at \notin {"discovering", "posting", "fetching"},
         UNCHANGED <<outgoing, inflight>>
  PROVE  CountsOK(call', outgoing', inflight')
<1>1. call'[c] = r /\ \A d \in Subjects \ {c} : call'[d] = call[d]
  BY DEF FlowInv, FlowTypes
<1>2. Sent(call') = Sent(call)
  BY <1>1 DEF Sent
<1>3. \A p : SentTo(call', p) = SentTo(call, p)
  BY <1>1, <1>2 DEF SentTo, Sent
<1> QED
  BY <1>2, <1>3 DEF CountsOK, FlowInv

LEMMA CountsRise ==
  ASSUME FlowBounds, FlowInv, NEW c \in Subjects, NEW r, NEW p \in Providers,
         call' = [call EXCEPT ![c] = r], c \notin Sent(call),
         r.at \in {"discovering", "posting", "fetching"}, r.provider = p,
         SignIns!MayAcquire(p), SignIns!Acquires(p)
  PROVE  /\ CountsOK(call', outgoing', inflight')
         /\ outgoing' \in Nat /\ inflight' \in [Providers -> Nat]
<1>1. call'[c] = r /\ \A d \in Subjects \ {c} : call'[d] = call[d]
  BY DEF FlowInv, FlowTypes
<1>2. Sent(call') = Sent(call) \cup {c}
  BY <1>1 DEF Sent
<1>3. SentTo(call', p) = SentTo(call, p) \cup {c} /\ c \notin SentTo(call, p)
  BY <1>1, <1>2 DEF SentTo, Sent
<1>4. \A q \in Providers \ {p} : SentTo(call', q) = SentTo(call, q)
  BY <1>1, <1>2 DEF SentTo, Sent
<1>5. Cardinality(Sent(call')) = Cardinality(Sent(call)) + 1
  BY <1>2, SentFinite, FS_AddElement
<1>6. Cardinality(SentTo(call', p)) = Cardinality(SentTo(call, p)) + 1
  BY <1>3, SentFinite, FS_AddElement
<1>7. /\ outgoing \in Nat /\ inflight \in [Providers -> Nat]
             /\ CountsOK(call, outgoing, inflight)
      /\ MaxInflight \in Nat /\ MaxPerProvider \in Nat
  BY DEF FlowInv, FlowTypes, FlowBounds
<1>8. /\ outgoing' = outgoing + 1 /\ inflight'[p] = inflight[p] + 1
      /\ \A q \in Providers \ {p} : inflight'[q] = inflight[q]
      /\ outgoing < MaxInflight /\ inflight[p] < MaxPerProvider
             /\ inflight' \in [Providers -> Nat]
  BY <1>7 DEF SignIns!Acquires, SignIns!MayAcquire
<1>9. ASSUME NEW q \in Providers
      PROVE  inflight'[q] = Cardinality(SentTo(call', q)) /\ inflight'[q] <= MaxPerProvider
  <2>1. inflight[q] \in Nat /\ inflight[q] = Cardinality(SentTo(call, q))
        /\ inflight[q] <= MaxPerProvider
    BY <1>7 DEF CountsOK
  <2>2. CASE q = p
    BY <1>6, <1>7, <1>8, <2>1, <2>2
  <2>3. CASE q # p
    BY <1>4, <1>8, <2>1, <2>3
  <2> QED
    BY <2>2, <2>3
<1>10. outgoing' = Cardinality(Sent(call')) /\ outgoing' <= MaxInflight /\ outgoing' \in Nat
  BY <1>5, <1>7, <1>8 DEF CountsOK
<1>11. inflight' \in [Providers -> Nat]
  BY <1>8
<1> QED
  BY <1>9, <1>10, <1>11 DEF CountsOK

LEMMA CountsFall ==
  ASSUME FlowBounds, FlowInv, NEW c \in Subjects, NEW r, NEW p \in Providers,
         call' = [call EXCEPT ![c] = r], c \in Sent(call), call[c].provider = p,
         r.at \notin {"discovering", "posting", "fetching"},
         SignIns!Releases(p)
  PROVE  /\ CountsOK(call', outgoing', inflight')
         /\ outgoing' \in Nat /\ inflight' \in [Providers -> Nat]
<1>1. call'[c] = r /\ \A d \in Subjects \ {c} : call'[d] = call[d]
  BY DEF FlowInv, FlowTypes
<1>2. Sent(call') = Sent(call) \ {c}
  BY <1>1 DEF Sent
<1>3. SentTo(call', p) = SentTo(call, p) \ {c} /\ c \in SentTo(call, p)
  BY <1>1, <1>2 DEF SentTo, Sent
<1>4. \A q \in Providers \ {p} : SentTo(call', q) = SentTo(call, q)
  BY <1>1, <1>2 DEF SentTo, Sent
<1>5. Cardinality(Sent(call')) = Cardinality(Sent(call)) - 1
          /\ Cardinality(Sent(call')) \in Nat
  BY <1>2, SentFinite, FS_RemoveElement
<1>6. Cardinality(SentTo(call', p)) = Cardinality(SentTo(call, p)) - 1
      /\ Cardinality(SentTo(call', p)) \in Nat
  <2>1. IsFiniteSet(SentTo(call, p)) /\ Cardinality(SentTo(call', p)) \in Nat
    BY SentFinite
  <2> QED
    BY <1>3, <2>1, FS_RemoveElement
<1>7. /\ outgoing \in Nat /\ inflight \in [Providers -> Nat]
             /\ CountsOK(call, outgoing, inflight)
      /\ MaxInflight \in Nat /\ MaxPerProvider \in Nat
  BY DEF FlowInv, FlowTypes, FlowBounds
<1>8. /\ outgoing' = outgoing - 1 /\ inflight'[p] = inflight[p] - 1
             /\ inflight' \in [Providers -> Int]
      /\ \A q \in Providers \ {p} : inflight'[q] = inflight[q]
  BY <1>7 DEF SignIns!Releases
<1>9. ASSUME NEW q \in Providers
      PROVE  /\ inflight'[q] = Cardinality(SentTo(call', q)) /\ inflight'[q] <= MaxPerProvider
             /\ inflight'[q] \in Nat
  <2>1. inflight[q] \in Nat /\ inflight[q] = Cardinality(SentTo(call, q))
        /\ inflight[q] <= MaxPerProvider
    BY <1>7 DEF CountsOK
  <2>2. CASE q = p
    BY <1>6, <1>7, <1>8, <2>1, <2>2
  <2>3. CASE q # p
    BY <1>4, <1>8, <2>1, <2>3
  <2> QED
    BY <2>2, <2>3
<1>10. outgoing' = Cardinality(Sent(call')) /\ outgoing' <= MaxInflight /\ outgoing' \in Nat
  BY <1>5, <1>7, <1>8 DEF CountsOK
<1>11. inflight' \in [Providers -> Nat]
  BY <1>8, <1>9
<1> QED
  BY <1>9, <1>10, <1>11 DEF CountsOK

LEMMA RowsStay ==
  ASSUME FlowInv, UNCHANGED <<flow, posts, asserted>>
  PROVE  /\ flow' \in [FlowStates -> {SignIns!Absent} \cup FlowRow]
         /\ posts' \in [FlowStates -> Nat] /\ asserted' \in [FlowStates -> Seq(Assertion)]
         /\ HistoryOK(flow', posts', asserted')
                /\ Cardinality(SignIns!Rows(flow')) <= MaxFlows
BY DEF FlowInv, FlowTypes

\* What a request's step does besides the rows and the caches.
LEMMA StepKeeps1 ==
  ASSUME FlowInv, NEW c \in Subjects, NEW r, Becomes(c, r, flow', posts'),
         UNCHANGED <<signing, withdrawn, moment, restarts>>,
         flow' \in [FlowStates -> {SignIns!Absent} \cup FlowRow],
             cookie' \in [Bindings -> FlowStates \cup {0}],
         posts' \in [FlowStates -> Nat], asserted' \in [FlowStates -> Seq(Assertion)],
         HistoryOK(flow', posts', asserted'), Cardinality(SignIns!Rows(flow')) <= MaxFlows,
         CookiesOK(cookie', flow'),
         outgoing' \in Nat, inflight' \in [Providers -> Nat],
             CountsOK(call', outgoing', inflight'),
         discovery' \in Seq(CachedRow), jwks' \in Seq(CachedRow),
         CacheOK(jwks', moment, signing, withdrawn)
  PROVE  FlowInv'
<1>1. /\ call' \in [Subjects -> {SignIns!Idle} \cup SignInCall]
      /\ \A d \in Subjects : ClaimsOK(call'[d], flow', posts')
      /\ \A d \in Subjects : InTime(call'[d], moment, signing, withdrawn)
      /\ Exclusive(call')
  BY OneMoves
<1>2. FlowTypes'
  BY <1>1 DEF FlowInv, FlowTypes
<1> QED
  BY <1>1, <1>2 DEF FlowInv

LEMMA Replied ==
  ASSUME FlowInv, NEW c \in Subjects, SignIns!Replies(c)
  PROVE  /\ cookie' \in [Bindings -> FlowStates \cup {0}] /\ CookiesOK(cookie', flow)
         /\ call' = [call EXCEPT ![c] = SignIns!Idle] /\ Becomes(c, SignIns!Idle, flow, posts)
<1>1. cookie' \in [Bindings -> FlowStates \cup {0}]
      /\ \A b \in Bindings : cookie'[b] = 0 \/ cookie'[b] = cookie[b]
  BY DEF FlowInv, FlowTypes, SignIns!Replies, SignIns!None
<1>2. CookiesOK(cookie', flow)
  BY <1>1 DEF FlowInv, CookiesOK
<1>3. call' = [call EXCEPT ![c] = SignIns!Idle]
  BY DEF SignIns!Replies, SignIns!Ends
<1>4. StageOf(SignIns!Idle) \notin Claimed
  BY DEF StageOf, SignIns!Idle, Claimed
<1>5. Becomes(c, SignIns!Idle, flow, posts)
  BY <1>3, <1>4, IdleOK, OneStays
<1> QED
  BY <1>1, <1>2, <1>3, <1>5

\* A request's step that leaves the rows, cookies and caches alone.
LEMMA CookiesStay ==
  ASSUME FlowInv, UNCHANGED cookie
  PROVE  cookie' \in [Bindings -> FlowStates \cup {0}] /\ CookiesOK(cookie', flow)
BY DEF FlowInv, FlowTypes

-----------------------------------------------------------------------------
(* Lemmas about the caches.                                                *)

\* Every entry of one cache is one of another.
DrawnFrom(s, t) == \A i \in 1..Len(s) : \E j \in 1..Len(t) : s[i] = t[j]

LEMMA PartOf ==
  ASSUME NEW S, NEW q \in Seq(S), NEW m \in Int, m >= 1
  PROVE  /\ SubSeq(q, m, Len(q)) \in Seq(S) /\ DrawnFrom(SubSeq(q, m, Len(q)), q)
<1>0. Len(q) \in Nat /\ \A i \in 1..Len(q) : q[i] \in S
  OBVIOUS
<1>1. \A i \in m..Len(q) : q[i] \in S
  BY <1>0
<1>2. /\ SubSeq(q, m, Len(q)) \in Seq(S)
      /\ Len(SubSeq(q, m, Len(q))) = IF m <= Len(q) THEN Len(q) - m + 1 ELSE 0
      /\ \A i \in 1..(Len(q) - m + 1) : SubSeq(q, m, Len(q))[i] = q[m + i - 1]
  BY <1>0, <1>1, SubSeqProperties
<1>3. ASSUME NEW i \in 1..Len(SubSeq(q, m, Len(q)))
      PROVE  \E j \in 1..Len(q) : SubSeq(q, m, Len(q))[i] = q[j]
  <2>1. m <= Len(q) /\ i \in 1..(Len(q) - m + 1)
    BY <1>0, <1>2
  <2>2. m + i - 1 \in 1..Len(q) /\ SubSeq(q, m, Len(q))[i] = q[m + i - 1]
    BY <1>0, <1>2, <2>1
  <2> QED
    BY <2>2
<1> QED
  BY <1>2, <1>3 DEF DrawnFrom

LEMMA WithoutOK ==
  ASSUME NEW S, NEW cache \in Seq(S), NEW p
  PROVE  SignIns!Without(cache, p) \in Seq(S) /\ DrawnFrom(SignIns!Without(cache, p), cache)
<1>1. CASE ~SignIns!Has(cache, p)
  BY <1>1 DEF SignIns!Without, DrawnFrom
<1>2. CASE SignIns!Has(cache, p)
  <2> DEFINE k == SignIns!Place(cache, p)
  <2>1. k \in 1..Len(cache)
    BY <1>2 DEF SignIns!Has, SignIns!Place
  <2> HIDE DEF k
  <2>2. /\ SignIns!RemoveAt(cache, k) \in Seq(S)
               /\ Len(SignIns!RemoveAt(cache, k)) = Len(cache) - 1
        /\ \A a \in 1..(Len(cache) - 1) :
             SignIns!RemoveAt(cache, k)[a] = IF a < k THEN cache[a] ELSE cache[a + 1]
    BY <2>1, Removed DEF SignIns!RemoveAt
  <2>3. DrawnFrom(SignIns!RemoveAt(cache, k), cache)
    <3> SUFFICES ASSUME NEW i \in 1..(Len(cache) - 1)
                 PROVE  \E j \in 1..Len(cache) : SignIns!RemoveAt(cache, k)[i] = cache[j]
      BY <2>2 DEF DrawnFrom
    <3>1. i \in 1..Len(cache) /\ i + 1 \in 1..Len(cache)
      OBVIOUS
    <3> QED
      BY <2>2, <3>1
  <2> QED
    BY <1>2, <2>2, <2>3 DEF SignIns!Without, k
<1> QED
  BY <1>1, <1>2

LEMMA LookedOK ==
  ASSUME NEW S, NEW cache \in Seq(S), NEW p
  PROVE  SignIns!Looked(cache, p) \in Seq(S) /\ DrawnFrom(SignIns!Looked(cache, p), cache)
<1>1. SignIns!Without(cache, p) \in Seq(S) /\ DrawnFrom(SignIns!Without(cache, p), cache)
  BY WithoutOK
<1>2. CASE ~SignIns!Fresh(cache, p)
  BY <1>1, <1>2 DEF SignIns!Looked
<1>3. CASE SignIns!Fresh(cache, p)
  <2> DEFINE e == SignIns!Entry(cache, p)
             w == SignIns!Without(cache, p)
  <2>1. SignIns!Place(cache, p) \in 1..Len(cache)
    BY <1>3 DEF SignIns!Fresh, SignIns!Has, SignIns!Place
  <2>2. e = cache[SignIns!Place(cache, p)] /\ e \in S
    BY <2>1 DEF SignIns!Entry
  <2>3. SignIns!Looked(cache, p) = Append(w, e)
    BY <1>3 DEF SignIns!Looked
  <2>4. w \in Seq(S) /\ DrawnFrom(w, cache)
    BY <1>1
  <2> HIDE DEF e, w
  <2>5. /\ Append(w, e) \in Seq(S) /\ Len(Append(w, e)) = Len(w) + 1
        /\ \A i \in 1..Len(w) : Append(w, e)[i] = w[i]
        /\ Append(w, e)[Len(w) + 1] = e
    BY <2>2, <2>4, AppendProperties
  <2>6. DrawnFrom(Append(w, e), cache)
    <3> SUFFICES ASSUME NEW i \in 1..(Len(w) + 1)
                 PROVE  \E j \in 1..Len(cache) : Append(w, e)[i] = cache[j]
      BY <2>5 DEF DrawnFrom
    <3>1. Len(w) \in Nat
      BY <2>4
    <3>2. CASE i = Len(w) + 1
      BY <2>1, <2>2, <2>5, <3>2
    <3>3. CASE i # Len(w) + 1
      <4>1. i \in 1..Len(w)
        BY <3>1, <3>3
      <4> QED
        BY <2>4, <2>5, <4>1 DEF DrawnFrom
    <3> QED
      BY <3>2, <3>3
  <2> QED
    BY <2>3, <2>5, <2>6
<1> QED
  BY <1>2, <1>3

LEMMA StoredOK ==
  ASSUME FlowBounds, NEW S, NEW cache \in Seq(S), NEW p, NEW v, NEW ttl,
         [provider |-> p, value |-> v, expires |-> moment + ttl] \in S
  PROVE  LET s == SignIns!Stored(cache, p, v, ttl)
         IN /\ s \in Seq(S)
            /\ \A i \in 1..Len(s) :
                 \/ s[i] = [provider |-> p, value |-> v, expires |-> moment + ttl]
                 \/ \E j \in 1..Len(cache) : s[i] = cache[j]
<1> DEFINE e == [provider |-> p, value |-> v, expires |-> moment + ttl]
           w == SignIns!Without(cache, p)
           m == IF Len(w) >= MaxCacheRecords THEN Len(w) - MaxCacheRecords + 2 ELSE 1
           kept == SubSeq(w, m, Len(w))
           s == SignIns!Stored(cache, p, v, ttl)
<1>1. w \in Seq(S) /\ DrawnFrom(w, cache)
  BY WithoutOK
<1>2. s = Append(kept, e)
  BY DEF SignIns!Stored
<1>3. e \in S
  OBVIOUS
<1> HIDE DEF e, w, s
<1>4. m \in Int /\ m >= 1
  BY <1>1 DEF FlowBounds
<1> HIDE DEF m
<1>5. kept \in Seq(S) /\ DrawnFrom(kept, w)
  BY <1>1, <1>4, PartOf
<1> HIDE DEF kept
<1>6. /\ Append(kept, e) \in Seq(S) /\ Len(Append(kept, e)) = Len(kept) + 1
      /\ \A i \in 1..Len(kept) : Append(kept, e)[i] = kept[i]
      /\ Append(kept, e)[Len(kept) + 1] = e
  BY <1>3, <1>5, AppendProperties
<1>7. ASSUME NEW i \in 1..(Len(kept) + 1)
      PROVE  Append(kept, e)[i] = e \/ \E j \in 1..Len(cache) : Append(kept, e)[i] = cache[j]
  <2>1. Len(kept) \in Nat
    BY <1>5
  <2>2. CASE i = Len(kept) + 1
    BY <1>6, <2>2
  <2>3. CASE i # Len(kept) + 1
    <3>1. i \in 1..Len(kept)
      BY <2>1, <2>3
    <3>2. PICK a \in 1..Len(w) : kept[i] = w[a]
      BY <1>5, <3>1 DEF DrawnFrom
    <3>3. PICK j \in 1..Len(cache) : w[a] = cache[j]
      BY <1>1 DEF DrawnFrom
    <3> QED
      BY <1>6, <3>1, <3>2, <3>3
  <2> QED
    BY <2>2, <2>3
<1>8. s \in Seq(S) /\ \A i \in 1..Len(s) : s[i] = e
          \/ \E j \in 1..Len(cache) : s[i] = cache[j]
  BY <1>2, <1>6, <1>7
<1> QED
  BY <1>8 DEF s, e

LEMMA CacheLooked ==
  ASSUME FlowInv, NEW p
  PROVE  /\ SignIns!Looked(discovery, p) \in Seq(CachedRow)
                /\ SignIns!Looked(jwks, p) \in Seq(CachedRow)
         /\ CacheOK(SignIns!Looked(jwks, p), moment, signing, withdrawn)
<1>1. discovery \in Seq(CachedRow) /\ jwks \in Seq(CachedRow)
      /\ CacheOK(jwks, moment, signing, withdrawn)
  BY DEF FlowInv, FlowTypes
<1>2. SignIns!Looked(discovery, p) \in Seq(CachedRow)
  BY <1>1, LookedOK
<1>3. SignIns!Looked(jwks, p) \in Seq(CachedRow) /\ DrawnFrom(SignIns!Looked(jwks, p), jwks)
  BY <1>1, LookedOK
<1>4. CacheOK(SignIns!Looked(jwks, p), moment, signing, withdrawn)
  BY <1>1, <1>3 DEF CacheOK, DrawnFrom
<1> QED
  BY <1>2, <1>3, <1>4

LEMMA CachesStay ==
  ASSUME FlowInv, UNCHANGED jwks
  PROVE  jwks' \in Seq(CachedRow) /\ CacheOK(jwks', moment, signing, withdrawn)
BY DEF FlowInv, FlowTypes

-----------------------------------------------------------------------------
(* Each step keeps the invariant.                                          *)

LEMMA AfterValues ==
  /\ DOMAIN SignIns!After = {"begun", "claimed", "exchanged", "keyless"}
  /\ SignIns!After["begun"] = "create" /\ SignIns!After["claimed"] = "exchange"
  /\ SignIns!After["exchanged"] = "verify" /\ SignIns!After["keyless"] = "fetch"
BY DEF SignIns!After

\* Where a request is that has its document.
LEMMA DiscoveredAt ==
  ASSUME FlowInv, NEW c \in Subjects, NEW at, SignIns!Discovered(c, at),
         at \in {"create", "exchange", "verify", "fetch"}
  PROVE  /\ call[c] \in SignInCall /\ c \notin Sent(call)
         /\ at = "create" => call[c].at \in {"begun", "create"}
         /\ at = "exchange" => call[c].at \in {"claimed", "exchange"}
         /\ at = "verify" => call[c].at \in {"exchanged", "verify"}
         /\ at = "fetch" => call[c].at \in {"keyless", "fetch"}
         /\ discovery' \in Seq(CachedRow)
<1>1. /\ at = "create" => call[c].at \in {"begun", "create"}
      /\ at = "exchange" => call[c].at \in {"claimed", "exchange"}
      /\ at = "verify" => call[c].at \in {"exchanged", "verify"}
      /\ at = "fetch" => call[c].at \in {"keyless", "fetch"}
  BY AfterValues DEF SignIns!Discovered
<1>2. call[c] \in {SignIns!Idle} \cup SignInCall
  BY DEF FlowInv, FlowTypes
<1>3. call[c] \in SignInCall
  BY <1>1, <1>2, NotIdle
<1>4. c \notin Sent(call)
  BY <1>1 DEF Sent
<1>5. discovery' \in Seq(CachedRow)
  BY CacheLooked DEF SignIns!Discovered, FlowInv, FlowTypes
<1> QED
  BY <1>1, <1>3, <1>4, <1>5

LEMMA BeginKeeps ==
  ASSUME FlowBounds, FlowInv, NEW c \in Subjects, NEW b \in Bindings, NEW p \in Providers,
         SignIns!Begin(c, b, p)
  PROVE  FlowInv'
<1> DEFINE r == SignIns!Request(b, p, SignIns!None, SignIns!None)
<1>1. call' = [call EXCEPT ![c] = r] /\ call[c] = SignIns!Idle
  BY DEF SignIns!Begin
<1>2. /\ r \in SignInCall /\ r.at = "begun" /\ StageOf(r) = "begun" /\ r.sent = 0
  BY DEF SignIns!Request, SignInCall, Places, StageOf, SignIns!None, FlowBounds
<1> HIDE DEF r
<1>3. ClaimsOK(r, flow, posts)
  BY <1>2 DEF ClaimsOK, Claimed
<1>4. InTime(r, moment, signing, withdrawn)
  BY <1>2 DEF InTime, FlowInv, FlowTypes
<1>5. Becomes(c, r, flow, posts)
  BY <1>1, <1>2, <1>3, <1>4, OneStays DEF Claimed
<1>6. c \notin Sent(call)
  BY <1>1 DEF SignIns!Idle, Sent
<1>7. UNCHANGED <<flow, cookie, discovery, jwks, outgoing, inflight, signing, withdrawn,
                  posts, asserted, moment, restarts>>
  BY DEF SignIns!Begin
<1>8. CountsOK(call', outgoing', inflight')
  BY <1>1, <1>2, <1>6, <1>7, CountsStay
<1>9. /\ outgoing' \in Nat /\ inflight' \in [Providers -> Nat]
             /\ discovery' \in Seq(CachedRow)
      /\ Becomes(c, r, flow', posts')
  BY <1>5, <1>7 DEF FlowInv, FlowTypes
<1> QED
  BY <1>7, <1>8, <1>9, RowsStay, CookiesStay, CachesStay, StepKeeps1

LEMMA CallbackKeeps ==
  ASSUME FlowBounds, FlowInv, NEW c \in Subjects, NEW b \in Bindings, NEW p \in Providers,
         NEW f \in FlowStates, NEW g \in FlowStates, SignIns!Callback(c, b, p, f, g)
  PROVE  FlowInv'
<1> DEFINE r == SignIns!Request(b, p, f, g)
<1>1. call[c] = SignIns!Idle
  BY DEF SignIns!Callback
<1>2. UNCHANGED <<flow, discovery, jwks, outgoing, inflight, signing, withdrawn, posts,
                  asserted, moment, restarts>>
  BY DEF SignIns!Callback
<1>3. CASE cookie[b] = f
  <2>1. call' = [call EXCEPT ![c] = r] /\ UNCHANGED cookie
    BY <1>3 DEF SignIns!Callback
  <2>2. f # 0
    BY DEF FlowBounds
  <2>3. /\ r \in SignInCall /\ r.at = "claim" /\ StageOf(r) = "claim" /\ r.sent = 0
        /\ r.flow = f /\ r.browser = b
    BY <2>2 DEF SignIns!Request, SignInCall, Places, StageOf, SignIns!None, FlowBounds
  <2> HIDE DEF r
  <2>4. flow[f] # SignIns!Absent /\ flow[f].browser = b
    BY <1>3, <2>2 DEF FlowInv, CookiesOK
  <2>5. ClaimsOK(r, flow, posts)
    BY <2>3, <2>4 DEF ClaimsOK, Claimed
  <2>6. InTime(r, moment, signing, withdrawn)
    BY <2>3 DEF InTime, FlowInv, FlowTypes
  <2>7. Becomes(c, r, flow, posts)
    BY <2>1, <2>3, <2>5, <2>6, OneStays DEF Claimed
  <2>8. c \notin Sent(call)
    BY <1>1 DEF SignIns!Idle, Sent
  <2>9. CountsOK(call', outgoing', inflight')
    BY <1>2, <2>1, <2>3, <2>8, CountsStay
  <2>10. /\ outgoing' \in Nat /\ inflight' \in [Providers -> Nat]
                /\ discovery' \in Seq(CachedRow)
         /\ Becomes(c, r, flow', posts')
    BY <1>2, <2>7 DEF FlowInv, FlowTypes
  <2> QED
    BY <1>2, <2>1, <2>9, <2>10, RowsStay, CookiesStay, CachesStay, StepKeeps1
<1>4. CASE cookie[b] # f
  <2>1. cookie' = [cookie EXCEPT ![b] = 0] /\ UNCHANGED call
    BY <1>4 DEF SignIns!Callback, SignIns!None
  <2>2. /\ cookie' \in [Bindings -> FlowStates \cup {0}]
        /\ \A a \in Bindings : cookie'[a] = 0 \/ cookie'[a] = cookie[a]
    BY <2>1 DEF FlowInv, FlowTypes
  <2>3. CookiesOK(cookie', flow')
    BY <1>2, <2>2 DEF FlowInv, CookiesOK
  <2>4. FlowTypes'
    BY <1>2, <2>1, <2>2 DEF FlowInv, FlowTypes
  <2> QED
    BY <1>2, <2>1, <2>3, <2>4 DEF FlowInv
<1> QED
  BY <1>3, <1>4

\* A step that ends a request and leaves the rows alone.
LEMMA ReplyKeeps ==
  ASSUME FlowBounds, FlowInv, NEW c \in Subjects, SignIns!Replies(c),
         UNCHANGED <<flow, posts, asserted, signing, withdrawn, moment, restarts>>,
         outgoing' \in Nat, inflight' \in [Providers -> Nat],
             CountsOK(call', outgoing', inflight'),
         discovery' \in Seq(CachedRow), jwks' \in Seq(CachedRow),
         CacheOK(jwks', moment, signing, withdrawn)
  PROVE  FlowInv'
<1>1. /\ cookie' \in [Bindings -> FlowStates \cup {0}] /\ CookiesOK(cookie', flow')
      /\ Becomes(c, SignIns!Idle, flow', posts')
  BY Replied
<1> QED
  BY <1>1, RowsStay, StepKeeps1

\* A request that goes on with its flow claims nothing that it did not claim before.
Ahead(r, q) ==
  /\ r \in SignInCall /\ r.flow = q.flow /\ r.browser = q.browser /\ r.code = q.code
  /\ r.provider = q.provider
  /\ StageOf(r) \in Claimed => StageOf(q) \in Claimed
  /\ StageOf(r) # "claim"
  /\ StageOf(r) \in {"claimed", "exchange"} => StageOf(q) \in {"claimed", "exchange"}
  /\ r.at = "complete" => r.code = r.flow
  /\ r.at = "discovering" => r.next # "none"

LEMMA AheadBecomes ==
  ASSUME FlowInv, NEW c \in Subjects, NEW r, call' = [call EXCEPT ![c] = r],
             Ahead(r, call[c]),
         InTime(r, moment, signing, withdrawn)
  PROVE  Becomes(c, r, flow, posts)
<1>1. ClaimsOK(call[c], flow, posts)
  BY DEF FlowInv
<1>2. ClaimsOK(r, flow, posts)
  BY <1>1 DEF ClaimsOK, Ahead
<1> QED
  BY <1>2, OneStays DEF Ahead

LEMMA GoneOn ==
  ASSUME FlowBounds, FlowInv, NEW c \in Subjects, call[c] \in SignInCall,
         NEW at \in Places \ {"discovering", "posting", "fetching"}, NEW key \in 0..MaxKey,
         NEW forced \in BOOLEAN, SignIns!GoesWith(c, at, key, forced)
  PROVE  \E r \in SignInCall :
           /\ call' = [call EXCEPT ![c] = r] /\ InTime(r, moment, signing, withdrawn)
           /\ r.at = at /\ StageOf(r) = at /\ r.flow = call[c].flow
           /\ r.browser = call[c].browser /\ r.code = call[c].code
           /\ r.provider = call[c].provider /\ r.key = key
<1> DEFINE r == [call[c] EXCEPT !.at = at, !.key = key, !.forced = forced, !.next = "none",
                                !.sent = 0, !.since = 0]
<1>1. call' = [call EXCEPT ![c] = r]
  BY DEF SignIns!GoesWith
<1>2. MaxKey \in Nat /\ moment \in Nat
  BY DEF FlowInv, FlowTypes, FlowBounds
<1>3. r \in SignInCall /\ r.at = at /\ r.sent = 0 /\ r.key = key
      /\ r.flow = call[c].flow /\ r.browser = call[c].browser /\ r.code = call[c].code
      /\ r.provider = call[c].provider
  <2>1. at \in Places /\ 0 \in 0..MaxKey /\ 0 \in Nat
    BY <1>2
  <2> QED
    BY <2>1 DEF SignInCall
<1>4. StageOf(r) = at
  BY <1>3 DEF StageOf
<1>5. InTime(r, moment, signing, withdrawn)
  BY <1>2, <1>3 DEF InTime
<1> QED
  BY <1>1, <1>3, <1>4, <1>5

LEMMA DiscoverKeeps ==
  ASSUME FlowBounds, FlowInv, NEW c \in Subjects, SignIns!Discover(c)
  PROVE  FlowInv'
<1> DEFINE p == call[c].provider
           r == [call[c] EXCEPT !.at = "discovering", !.next = SignIns!After[call[c].at],
               !.sent = moment]
<1>1. call[c].at \in {"begun", "claimed", "exchanged", "keyless"}
  BY AfterValues DEF SignIns!Discover
<1>2. call[c] \in SignInCall
  <2>1. call[c] \in {SignIns!Idle} \cup SignInCall
    BY DEF FlowInv, FlowTypes
  <2> QED
    BY <1>1, <2>1, NotIdle
<1>3. p \in Providers /\ c \notin Sent(call)
  BY <1>1, <1>2 DEF SignInCall, Sent
<1>4. /\ discovery' \in Seq(CachedRow)
      /\ UNCHANGED <<flow, jwks, signing, withdrawn, posts, asserted, moment, restarts>>
  BY CacheLooked DEF SignIns!Discover
<1>5. CASE SignIns!MayAcquire(p)
  <2>1. call' = [call EXCEPT ![c] = r] /\ UNCHANGED cookie /\ SignIns!Acquires(p)
    BY <1>5 DEF SignIns!Discover
  <2>2. moment \in Nat /\ Timeout \in Nat
            /\ SignIns!After[call[c].at] \in {"create", "exchange", "verify", "fetch"}
    BY <1>1, AfterValues DEF FlowInv, FlowTypes, FlowBounds
  <2>3. /\ r \in SignInCall /\ r.at = "discovering" /\ r.next = SignIns!After[call[c].at]
               /\ r.sent = moment
        /\ r.flow = call[c].flow /\ r.browser = call[c].browser /\ r.code = call[c].code
        /\ r.provider = p
    BY <1>2, <2>2 DEF SignInCall, Places
  <2>4. StageOf(r) = SignIns!After[call[c].at] /\ StageOf(call[c]) = call[c].at
    BY <1>1, <2>3 DEF StageOf
  <2> HIDE DEF r
  <2>5. Ahead(r, call[c])
    BY <1>1, <2>2, <2>3, <2>4, AfterValues DEF Ahead, Claimed
  <2>6. InTime(r, moment, signing, withdrawn)
    BY <2>2, <2>3 DEF InTime
  <2>7. Becomes(c, r, flow', posts')
    BY <1>4, <2>1, <2>5, <2>6, AheadBecomes
  <2>8. /\ CountsOK(call', outgoing', inflight') /\ outgoing' \in Nat
        /\ inflight' \in [Providers -> Nat]
    BY <1>3, <1>5, <2>1, <2>3, CountsRise
  <2> QED
    BY <1>4, <2>1, <2>7, <2>8, RowsStay, CookiesStay, CachesStay, StepKeeps1
<1>6. CASE ~SignIns!MayAcquire(p)
  <2>1. SignIns!Replies(c) /\ UNCHANGED <<outgoing, inflight>>
    BY <1>6 DEF SignIns!Discover
  <2>2. call' = [call EXCEPT ![c] = SignIns!Idle] /\ SignIns!Idle.at = "idle"
    BY <2>1 DEF SignIns!Replies, SignIns!Ends, SignIns!Idle
  <2>3. CountsOK(call', outgoing', inflight')
    BY <1>3, <2>1, <2>2, CountsStay
  <2>4. outgoing' \in Nat /\ inflight' \in [Providers -> Nat]
    BY <2>1 DEF FlowInv, FlowTypes
  <2> QED
    BY <1>4, <2>1, <2>3, <2>4, CachesStay, ReplyKeeps
<1> QED
  BY <1>5, <1>6

LEMMA SentCall ==
  ASSUME FlowInv, NEW c \in Subjects, SignIns!InFlight(c)
  PROVE  /\ call[c] \in SignInCall /\ call[c].provider \in Providers /\ c \in Sent(call)
         /\ call[c].at \in {"discovering", "posting", "fetching"}
<1>1. call[c] \in {SignIns!Idle} \cup SignInCall
  BY DEF FlowInv, FlowTypes
<1>2. call[c] \in SignInCall
  BY <1>1, NotIdle DEF SignIns!InFlight
<1> QED
  BY <1>2 DEF SignIns!InFlight, Sent, SignInCall

LEMMA DiscoveryArrivesKeeps ==
  ASSUME FlowBounds, FlowInv, NEW c \in Subjects, SignIns!DiscoveryArrives(c)
  PROVE  FlowInv'
<1> DEFINE p == call[c].provider
           at == call[c].next
<1>1. /\ call[c] \in SignInCall /\ p \in Providers /\ c \in Sent(call)
      /\ call[c].at = "discovering"
  BY SentCall DEF SignIns!DiscoveryArrives, SignIns!InFlight
<1>2. at \in {"create", "exchange", "verify", "fetch"} /\ StageOf(call[c]) = at
  BY <1>1 DEF FlowInv, ClaimsOK, StageOf, SignInCall
<1>3. call[c].key \in 0..MaxKey /\ call[c].forced \in BOOLEAN
  BY <1>1 DEF SignInCall
<1>4. at \in Places \ {"discovering", "posting", "fetching"}
  BY <1>2 DEF Places, Claimed
<1>5. PICK r \in SignInCall :
        /\ call' = [call EXCEPT ![c] = r] /\ InTime(r, moment, signing, withdrawn)
        /\ r.at = at /\ StageOf(r) = at /\ r.flow = call[c].flow
        /\ r.browser = call[c].browser /\ r.code = call[c].code
        /\ r.provider = call[c].provider /\ r.key = call[c].key
  <2>1. SignIns!GoesWith(c, at, call[c].key, call[c].forced)
    BY DEF SignIns!DiscoveryArrives, SignIns!Goes
  <2> HIDE DEF at
  <2> QED
    BY <1>1, <1>3, <1>4, <2>1, GoneOn
<1>6. Ahead(r, call[c])
  BY <1>2, <1>5 DEF Ahead
<1>7. /\ UNCHANGED <<flow, cookie, jwks, signing, withdrawn, posts, asserted, moment,
             restarts>>
      /\ SignIns!Releases(p)
  BY DEF SignIns!DiscoveryArrives
<1>8. Becomes(c, r, flow', posts')
  BY <1>5, <1>6, <1>7, AheadBecomes
<1>9. /\ CountsOK(call', outgoing', inflight') /\ outgoing' \in Nat
             /\ inflight' \in [Providers -> Nat]
  BY <1>1, <1>2, <1>5, <1>7, CountsFall
<1>10. discovery' \in Seq(CachedRow)
  <2>1. PICK ttl \in 1..CacheTtl :
            discovery' = SignIns!Stored(discovery, p, SignIns!None, ttl)
    BY DEF SignIns!DiscoveryArrives
  <2>2. [provider |-> p, value |-> SignIns!None, expires |-> moment + ttl] \in CachedRow
    BY <1>1 DEF CachedRow, SignIns!None, FlowInv, FlowTypes, FlowBounds
  <2>3. discovery \in Seq(CachedRow)
    BY DEF FlowInv, FlowTypes
  <2> QED
    BY <2>1, <2>2, <2>3, StoredOK
<1> QED
  BY <1>7, <1>8, <1>9, <1>10, RowsStay, CookiesStay, CachesStay, StepKeeps1

LEMMA RequestFailsKeeps ==
  ASSUME FlowBounds, FlowInv, NEW c \in Subjects, SignIns!RequestFails(c)
  PROVE  FlowInv'
<1>1. /\ SignIns!Replies(c) /\ SignIns!Releases(call[c].provider) /\ SignIns!InFlight(c)
      /\ UNCHANGED <<flow, discovery, jwks, signing, withdrawn, posts, asserted, moment,
             restarts>>
  BY DEF SignIns!RequestFails
<1>2. call' = [call EXCEPT ![c] = SignIns!Idle] /\ SignIns!Idle.at = "idle"
  BY <1>1 DEF SignIns!Replies, SignIns!Ends, SignIns!Idle
<1>3. call[c].provider \in Providers /\ c \in Sent(call)
  BY <1>1, SentCall
<1>4. /\ CountsOK(call', outgoing', inflight') /\ outgoing' \in Nat
             /\ inflight' \in [Providers -> Nat]
  BY <1>1, <1>2, <1>3, CountsFall
<1>5. discovery' \in Seq(CachedRow)
  BY <1>1 DEF FlowInv, FlowTypes
<1> QED
  BY <1>1, <1>4, <1>5, CachesStay, ReplyKeeps

LEMMA SentOut ==
  ASSUME FlowBounds, FlowInv, NEW c \in Subjects, call[c] \in SignInCall,
         NEW at \in {"posting", "fetching"}, SignIns!MayAcquire(call[c].provider),
             SignIns!Sends(c, at)
  PROVE  /\ \E r \in SignInCall :
              /\ call' = [call EXCEPT ![c] = r] /\ InTime(r, moment, signing, withdrawn)
              /\ r.at = at /\ StageOf(r) = at /\ r.flow = call[c].flow
              /\ r.browser = call[c].browser /\ r.code = call[c].code
              /\ r.provider = call[c].provider
         /\ SignIns!Acquires(call[c].provider) /\ UNCHANGED cookie
<1> DEFINE p == call[c].provider
           r == [call[c] EXCEPT !.at = at, !.sent = moment, !.since = signing[p]]
<1>1. call' = [call EXCEPT ![c] = r] /\ SignIns!Acquires(p) /\ UNCHANGED cookie
  BY DEF SignIns!Sends
<1>2. p \in Providers
  BY DEF SignInCall
<1>3. MaxKey \in Nat /\ moment \in Nat /\ Timeout \in Nat /\ signing[p] \in 1..MaxKey
  BY <1>2 DEF FlowInv, FlowTypes, FlowBounds
<1>4. /\ r \in SignInCall /\ r.at = at /\ r.sent = moment /\ r.since = signing[p]
      /\ r.flow = call[c].flow /\ r.browser = call[c].browser /\ r.code = call[c].code
      /\ r.provider = p
  <2>1. at \in Places /\ signing[p] \in 0..MaxKey
    BY <1>3 DEF Places, Claimed
  <2> QED
    BY <1>3, <2>1 DEF SignInCall
<1>5. StageOf(r) = at
  BY <1>4 DEF StageOf
<1>6. InTime(r, moment, signing, withdrawn)
  BY <1>3, <1>4 DEF InTime
<1> QED
  BY <1>1, <1>4, <1>5, <1>6

LEMMA ClaimedFlow ==
  ASSUME FlowInv, NEW c \in Subjects, StageOf(call[c]) \in Claimed
  PROVE  /\ call[c].flow \in FlowStates /\ flow[call[c].flow] \in FlowRow
         /\ flow[call[c].flow].browser = call[c].browser
         /\ flow[call[c].flow].status \in {"claimed", "gone"}
BY DEF FlowInv, ClaimsOK, FlowTypes

\* A step that has no place for its request at the provider.
LEMMA RefusedKeeps ==
  ASSUME FlowBounds, FlowInv, NEW c \in Subjects, NEW at, c \notin Sent(call),
             SignIns!Sends(c, at),
         ~SignIns!MayAcquire(call[c].provider),
         UNCHANGED <<flow, jwks, posts, asserted, signing, withdrawn, moment, restarts>>,
         discovery' \in Seq(CachedRow)
  PROVE  FlowInv'
<1>1. SignIns!Replies(c) /\ UNCHANGED <<outgoing, inflight>>
  BY DEF SignIns!Sends
<1>2. call' = [call EXCEPT ![c] = SignIns!Idle] /\ SignIns!Idle.at = "idle"
  BY <1>1 DEF SignIns!Replies, SignIns!Ends, SignIns!Idle
<1>3. CountsOK(call', outgoing', inflight')
  BY <1>1, <1>2, CountsStay
<1>4. outgoing' \in Nat /\ inflight' \in [Providers -> Nat]
  BY <1>1 DEF FlowInv, FlowTypes
<1> QED
  BY <1>1, <1>3, <1>4, CachesStay, ReplyKeeps

LEMMA PostCodeKeeps ==
  ASSUME FlowBounds, FlowInv, NEW c \in Subjects, SignIns!PostCode(c)
  PROVE  FlowInv'
<1> DEFINE p == call[c].provider
           f == call[c].flow
<1>1. /\ call[c] \in SignInCall /\ c \notin Sent(call) /\ discovery' \in Seq(CachedRow)
      /\ call[c].at \in {"claimed", "exchange"}
  BY DiscoveredAt DEF SignIns!PostCode
<1>2. StageOf(call[c]) \in {"claimed", "exchange"} /\ StageOf(call[c]) \in Claimed
  BY <1>1 DEF StageOf, Claimed
<1>3. /\ UNCHANGED <<flow, jwks, signing, withdrawn, asserted, moment, restarts>>
      /\ SignIns!Sends(c, "posting")
  BY DEF SignIns!PostCode
<1>4. CASE ~SignIns!MayAcquire(p)
  <2>1. UNCHANGED posts
    BY <1>4 DEF SignIns!PostCode
  <2> QED
    BY <1>1, <1>3, <1>4, <2>1, RefusedKeeps
<1>5. CASE SignIns!MayAcquire(p)
  <2>1. posts' = [posts EXCEPT ![f] = @ + 1]
    BY <1>5 DEF SignIns!PostCode
  <2>2. PICK r \in SignInCall :
          /\ call' = [call EXCEPT ![c] = r] /\ InTime(r, moment, signing, withdrawn)
          /\ r.at = "posting" /\ StageOf(r) = "posting" /\ r.flow = f
          /\ r.browser = call[c].browser /\ r.code = call[c].code /\ r.provider = p
    BY <1>1, <1>3, <1>5, SentOut
  <2>3. SignIns!Acquires(p) /\ UNCHANGED cookie
    BY <1>1, <1>3, <1>5, SentOut
  <2>4. /\ f \in FlowStates /\ flow[f] \in FlowRow /\ flow[f].browser = call[c].browser
        /\ flow[f].status \in {"claimed", "gone"}
    BY <1>2, ClaimedFlow
  <2>5. posts \in [FlowStates -> Nat] /\ posts[f] = 0
    BY <1>2 DEF FlowInv, FlowTypes, ClaimsOK
  <2>6. /\ posts' \in [FlowStates -> Nat] /\ posts'[f] = 1
        /\ \A g \in FlowStates \ {f} : posts'[g] = posts[g]
    BY <2>1, <2>4, <2>5
  <2>7. ClaimsOK(r, flow, posts')
    BY <2>2, <2>4 DEF ClaimsOK, SignIns!Absent, FlowRow
  <2>8. ASSUME NEW d \in Subjects \ {c}
        PROVE  /\ ClaimsOK(call[d], flow, posts')
               /\ StageOf(call[d]) \in Claimed => f # call[d].flow
    <3>1. StageOf(call[d]) \in Claimed => f # call[d].flow
      BY <1>2 DEF FlowInv, Exclusive
    <3>2. ClaimsOK(call[d], flow, posts)
      BY DEF FlowInv
    <3>3. StageOf(call[d]) \in {"claimed", "exchange"} => StageOf(call[d]) \in Claimed
      BY DEF Claimed
    <3>4. ASSUME StageOf(call[d]) \in {"claimed", "exchange"}
          PROVE  posts'[call[d].flow] = 0
      <4>1. call[d].flow \in FlowStates \ {f} /\ posts[call[d].flow] = 0
        BY <3>1, <3>2, <3>3, <3>4 DEF ClaimsOK
      <4> QED
        BY <2>6, <4>1
    <3> QED
      BY <3>1, <3>2, <3>4 DEF ClaimsOK
  <2>9. Becomes(c, r, flow', posts')
    BY <1>3, <2>2, <2>7, <2>8 DEF Becomes
  <2>10. HistoryOK(flow', posts', asserted')
    <3>1. HistoryOK(flow, posts, asserted)
      BY DEF FlowInv
    <3>2. ASSUME NEW g \in FlowStates
          PROVE  /\ posts'[g] <= 1
                 /\ flow[g].status \in {"absent", "open"} => posts'[g] = 0
      <4>1. /\ posts[g] <= 1
            /\ flow[g].status \in {"absent", "open"} => posts[g] = 0
        BY <3>1 DEF HistoryOK
      <4>2. CASE g = f
        BY <2>4, <2>6, <4>2
      <4>3. CASE g # f
        BY <2>6, <4>1, <4>3
      <4> QED
        BY <4>2, <4>3
    <3> QED
      BY <1>3, <3>1, <3>2 DEF HistoryOK
  <2>11. /\ CountsOK(call', outgoing', inflight') /\ outgoing' \in Nat
         /\ inflight' \in [Providers -> Nat]
    BY <1>1, <1>5, <2>2, <2>3, CountsRise DEF SignInCall
  <2>12. /\ flow' \in [FlowStates -> {SignIns!Absent} \cup FlowRow]
         /\ asserted' \in [FlowStates -> Seq(Assertion)]
                /\ Cardinality(SignIns!Rows(flow')) <= MaxFlows
    BY <1>3 DEF FlowInv, FlowTypes
  <2> QED
    BY <1>1, <1>3, <2>3, <2>6, <2>9, <2>10, <2>11, <2>12, CookiesStay, CachesStay, StepKeeps1
<1> QED
  BY <1>4, <1>5

LEMMA FetchKeysKeeps ==
  ASSUME FlowBounds, FlowInv, NEW c \in Subjects, SignIns!FetchKeys(c)
  PROVE  FlowInv'
<1> DEFINE p == call[c].provider
<1>1. /\ call[c] \in SignInCall /\ c \notin Sent(call) /\ discovery' \in Seq(CachedRow)
      /\ call[c].at \in {"keyless", "fetch"}
  BY DiscoveredAt DEF SignIns!FetchKeys
<1>2. StageOf(call[c]) \in Claimed
  BY <1>1 DEF StageOf, Claimed
<1>3. /\ UNCHANGED <<flow, jwks, posts, signing, withdrawn, asserted, moment, restarts>>
      /\ SignIns!Sends(c, "fetching")
  BY DEF SignIns!FetchKeys
<1>4. CASE ~SignIns!MayAcquire(p)
  BY <1>1, <1>3, <1>4, RefusedKeeps
<1>5. CASE SignIns!MayAcquire(p)
  <2>1. PICK r \in SignInCall :
          /\ call' = [call EXCEPT ![c] = r] /\ InTime(r, moment, signing, withdrawn)
          /\ r.at = "fetching" /\ StageOf(r) = "fetching" /\ r.flow = call[c].flow
          /\ r.browser = call[c].browser /\ r.code = call[c].code /\ r.provider = p
    BY <1>1, <1>3, <1>5, SentOut
  <2>2. SignIns!Acquires(p) /\ UNCHANGED cookie
    BY <1>1, <1>3, <1>5, SentOut
  <2>3. Ahead(r, call[c])
    BY <1>2, <2>1 DEF Ahead
  <2>4. Becomes(c, r, flow', posts')
    BY <1>3, <2>1, <2>3, AheadBecomes
  <2>5. /\ CountsOK(call', outgoing', inflight') /\ outgoing' \in Nat
        /\ inflight' \in [Providers -> Nat]
    BY <1>1, <1>5, <2>1, <2>2, CountsRise DEF SignInCall
  <2> QED
    BY <1>1, <1>3, <2>2, <2>4, <2>5, RowsStay, CookiesStay, CachesStay, StepKeeps1
<1> QED
  BY <1>4, <1>5

LEMMA TokenArrivesKeeps ==
  ASSUME FlowBounds, FlowInv, NEW c \in Subjects, SignIns!TokenArrives(c)
  PROVE  FlowInv'
<1> DEFINE p == call[c].provider
<1>1. /\ call[c] \in SignInCall /\ p \in Providers /\ c \in Sent(call)
      /\ call[c].at = "posting"
  BY SentCall DEF SignIns!TokenArrives, SignIns!InFlight
<1>2. StageOf(call[c]) \in Claimed
  BY <1>1 DEF StageOf, Claimed
<1>3. /\ UNCHANGED <<flow, cookie, discovery, jwks, signing, withdrawn, posts, asserted,
                     moment, restarts>>
      /\ SignIns!Releases(p)
  BY DEF SignIns!TokenArrives
<1>4. PICK k \in 1..signing[p] : SignIns!GoesWith(c, "exchanged", k, FALSE)
  BY DEF SignIns!TokenArrives
<1>5. k \in 0..MaxKey
  BY <1>1 DEF FlowInv, FlowTypes, FlowBounds
<1>6. PICK r \in SignInCall :
        /\ call' = [call EXCEPT ![c] = r] /\ InTime(r, moment, signing, withdrawn)
        /\ r.at = "exchanged" /\ StageOf(r) = "exchanged" /\ r.flow = call[c].flow
        /\ r.browser = call[c].browser /\ r.code = call[c].code
        /\ r.provider = call[c].provider /\ r.key = k
  <2> DEFINE at == "exchanged"
             no == FALSE
  <2>1. at \in Places \ {"discovering", "posting", "fetching"} /\ no \in BOOLEAN
    BY DEF Places, Claimed
  <2>2. SignIns!GoesWith(c, at, k, no)
    BY <1>4
  <2> HIDE DEF at, no
  <2>3. \E r \in SignInCall :
          /\ call' = [call EXCEPT ![c] = r] /\ InTime(r, moment, signing, withdrawn)
          /\ r.at = at /\ StageOf(r) = at /\ r.flow = call[c].flow
          /\ r.browser = call[c].browser /\ r.code = call[c].code
          /\ r.provider = call[c].provider /\ r.key = k
    BY <1>1, <1>5, <2>1, <2>2, GoneOn
  <2> QED
    BY <2>3 DEF at
<1>7. Ahead(r, call[c])
  BY <1>2, <1>6 DEF Ahead
<1>8. Becomes(c, r, flow', posts')
  BY <1>3, <1>6, <1>7, AheadBecomes
<1>9. /\ CountsOK(call', outgoing', inflight') /\ outgoing' \in Nat
             /\ inflight' \in [Providers -> Nat]
  BY <1>1, <1>3, <1>6, CountsFall
<1>10. discovery' \in Seq(CachedRow)
  BY <1>3 DEF FlowInv, FlowTypes
<1> QED
  BY <1>3, <1>8, <1>9, <1>10, RowsStay, CookiesStay, CachesStay, StepKeeps1

LEMMA KeylessOn ==
  ASSUME FlowBounds, FlowInv, NEW c \in Subjects, call[c] \in SignInCall,
             NEW forced \in BOOLEAN,
         StageOf(call[c]) \in Claimed, SignIns!GoesWith(c, "keyless", call[c].key, forced)
  PROVE  \E r \in {SignIns!Idle} \cup SignInCall :
           /\ call' = [call EXCEPT ![c] = r] /\ Becomes(c, r, flow, posts) /\ r.at = "keyless"
<1> DEFINE at == "keyless"
<1>1. at \in Places \ {"discovering", "posting", "fetching"} /\ call[c].key \in 0..MaxKey
  BY DEF Places, Claimed, SignInCall
<1>2. SignIns!GoesWith(c, at, call[c].key, forced)
  OBVIOUS
<1> HIDE DEF at
<1>3. PICK r \in SignInCall :
        /\ call' = [call EXCEPT ![c] = r] /\ InTime(r, moment, signing, withdrawn)
        /\ r.at = at /\ StageOf(r) = at /\ r.flow = call[c].flow
        /\ r.browser = call[c].browser /\ r.code = call[c].code
        /\ r.provider = call[c].provider /\ r.key = call[c].key
  BY <1>1, <1>2, GoneOn
<1>4. Ahead(r, call[c])
  BY <1>3 DEF Ahead, at
<1>5. Becomes(c, r, flow, posts)
  BY <1>3, <1>4, AheadBecomes
<1> QED
  BY <1>3, <1>5 DEF at

LEMMA CompleteOn ==
  ASSUME FlowBounds, FlowInv, NEW c \in Subjects, call[c] \in SignInCall,
         StageOf(call[c]) \in Claimed, SignIns!Goes(c, "complete"),
             call[c].code = call[c].flow
  PROVE  \E r \in {SignIns!Idle} \cup SignInCall :
           /\ call' = [call EXCEPT ![c] = r] /\ Becomes(c, r, flow, posts)
                  /\ r.at = "complete"
<1> DEFINE at == "complete"
<1>1. /\ at \in Places \ {"discovering", "posting", "fetching"} /\ call[c].key \in 0..MaxKey
      /\ call[c].forced \in BOOLEAN
  BY DEF Places, Claimed, SignInCall
<1>2. SignIns!GoesWith(c, at, call[c].key, call[c].forced)
  BY DEF SignIns!Goes
<1> HIDE DEF at
<1>3. PICK r \in SignInCall :
        /\ call' = [call EXCEPT ![c] = r] /\ InTime(r, moment, signing, withdrawn)
        /\ r.at = at /\ StageOf(r) = at /\ r.flow = call[c].flow
        /\ r.browser = call[c].browser /\ r.code = call[c].code
        /\ r.provider = call[c].provider /\ r.key = call[c].key
  BY <1>1, <1>2, GoneOn
<1>4. Ahead(r, call[c])
  BY <1>3 DEF Ahead, at
<1>5. Becomes(c, r, flow, posts)
  BY <1>3, <1>4, AheadBecomes
<1> QED
  BY <1>3, <1>5 DEF at

\* What becomes of a request whose token is verified with a key.
Verified(c, key) ==
  \E r \in {SignIns!Idle} \cup SignInCall :
    /\ call' = [call EXCEPT ![c] = r] /\ Becomes(c, r, flow, posts)
    /\ r.at \notin {"discovering", "posting", "fetching"}
    /\ r.at = "complete" => key = call[c].key
    /\ cookie' \in [Bindings -> FlowStates \cup {0}] /\ CookiesOK(cookie', flow)

LEMMA VerifiesOn ==
  ASSUME FlowBounds, FlowInv, NEW c \in Subjects, call[c] \in SignInCall, NEW key,
         StageOf(call[c]) \in Claimed, SignIns!VerifiesWith(c, key)
  PROVE  Verified(c, key)
<1>1. CASE key = call[c].key /\ call[c].code = call[c].flow
  <2>1. SignIns!Goes(c, "complete") /\ UNCHANGED cookie
    BY <1>1 DEF SignIns!VerifiesWith
  <2>2. PICK r \in {SignIns!Idle} \cup SignInCall :
          call' = [call EXCEPT ![c] = r] /\ Becomes(c, r, flow, posts) /\ r.at = "complete"
    BY <1>1, <2>1, CompleteOn
  <2> QED
    BY <1>1, <2>1, <2>2, CookiesStay DEF Verified
<1>2. CASE ~(key = call[c].key /\ call[c].code = call[c].flow)
           /\ (key = call[c].key \/ call[c].forced)
  <2>1. SignIns!Replies(c)
    BY <1>2 DEF SignIns!VerifiesWith
  <2>2. /\ cookie' \in [Bindings -> FlowStates \cup {0}] /\ CookiesOK(cookie', flow)
        /\ call' = [call EXCEPT ![c] = SignIns!Idle] /\ Becomes(c, SignIns!Idle, flow, posts)
    BY <2>1, Replied
  <2>3. SignIns!Idle.at = "idle"
    BY DEF SignIns!Idle
  <2> QED
    BY <2>2, <2>3 DEF Verified
<1>3. CASE ~(key = call[c].key \/ call[c].forced)
  <2> DEFINE yes == TRUE
  <2>1. yes \in BOOLEAN /\ SignIns!GoesWith(c, "keyless", call[c].key, yes)
            /\ UNCHANGED cookie
    BY <1>3 DEF SignIns!VerifiesWith
  <2> HIDE DEF yes
  <2>2. PICK r \in {SignIns!Idle} \cup SignInCall :
          call' = [call EXCEPT ![c] = r] /\ Becomes(c, r, flow, posts) /\ r.at = "keyless"
    BY <2>1, KeylessOn
  <2> QED
    BY <2>1, <2>2, CookiesStay DEF Verified
<1> QED
  BY <1>1, <1>2, <1>3

\* A token is accepted by a key that was published recently enough.
TrustStep ==
  \A c \in Subjects :
    call'[c].at = "complete" /\ call[c].at # "complete" =>
      moment < withdrawn[call[c].provider][call[c].key] + CacheTtl + Timeout
      \/ signing[call[c].provider] = call[c].key

\* Only this request may become complete.
LEMMA TrustOf ==
  ASSUME FlowInv, NEW c \in Subjects, NEW r, call' = [call EXCEPT ![c] = r],
         r.at = "complete" =>
           moment < withdrawn[call[c].provider][call[c].key] + CacheTtl + Timeout
           \/ signing[call[c].provider] = call[c].key
  PROVE  TrustStep
BY DEF TrustStep, FlowInv, FlowTypes

LEMMA Sooner ==
  ASSUME NEW a \in Nat, NEW b \in Nat, NEW w \in Nat, NEW t \in Nat, NEW x \in Nat,
         b > a, b <= w + t + x
  PROVE  a < w + x + t
OBVIOUS

LEMMA VerifyKeeps ==
  ASSUME FlowBounds, FlowInv, NEW c \in Subjects, SignIns!Verify(c)
  PROVE  FlowInv' /\ TrustStep
<1> DEFINE p == call[c].provider
           e == SignIns!Entry(jwks, p)
<1>1. /\ call[c] \in SignInCall /\ c \notin Sent(call) /\ discovery' \in Seq(CachedRow)
      /\ call[c].at \in {"exchanged", "verify"}
  BY DiscoveredAt DEF SignIns!Verify
<1>2. StageOf(call[c]) \in Claimed
  BY <1>1 DEF StageOf, Claimed
<1>3. /\ UNCHANGED <<flow, outgoing, inflight, posts, signing, withdrawn, asserted, moment,
             restarts>>
      /\ jwks' = SignIns!Looked(jwks, p)
  BY DEF SignIns!Verify
<1>4. jwks' \in Seq(CachedRow) /\ CacheOK(jwks', moment, signing, withdrawn)
  BY <1>3, CacheLooked
<1>5. PICK key : Verified(c, key) /\ (SignIns!Fresh(jwks, p) => key = e.value)
                 /\ (~SignIns!Fresh(jwks, p) => call'[c].at = "keyless")
  <2>1. CASE SignIns!Fresh(jwks, p)
    <3>1. SignIns!VerifiesWith(c, e.value)
      BY <2>1 DEF SignIns!Verify
    <3>2. Verified(c, e.value)
      BY <1>1, <1>2, <3>1, VerifiesOn
    <3> QED
      BY <2>1, <3>2
  <2>2. CASE ~SignIns!Fresh(jwks, p)
    <3>1. SignIns!GoesWith(c, "keyless", call[c].key, call[c].forced) /\ UNCHANGED cookie
      BY <2>2 DEF SignIns!Verify, SignIns!Goes
    <3>2. call[c].forced \in BOOLEAN
      BY <1>1 DEF SignInCall
    <3>3. PICK r \in {SignIns!Idle} \cup SignInCall :
            call' = [call EXCEPT ![c] = r] /\ Becomes(c, r, flow, posts) /\ r.at = "keyless"
      BY <1>1, <1>2, <3>1, <3>2, KeylessOn
    <3>4. Verified(c, 0)
      BY <3>1, <3>3, CookiesStay DEF Verified
    <3>5. call'[c].at = "keyless"
      BY <3>3 DEF FlowInv, FlowTypes
    <3> QED
      BY <2>2, <3>4, <3>5
  <2> QED
    BY <2>1, <2>2
<1>6. PICK r \in {SignIns!Idle} \cup SignInCall :
        /\ call' = [call EXCEPT ![c] = r] /\ Becomes(c, r, flow, posts)
        /\ r.at \notin {"discovering", "posting", "fetching"}
        /\ r.at = "complete" => key = call[c].key
        /\ cookie' \in [Bindings -> FlowStates \cup {0}] /\ CookiesOK(cookie', flow)
  BY <1>5 DEF Verified
<1>7. CountsOK(call', outgoing', inflight') /\ outgoing' \in Nat
          /\ inflight' \in [Providers -> Nat]
  <2>1. CountsOK(call', outgoing', inflight')
    BY <1>1, <1>3, <1>6, CountsStay
  <2> QED
    BY <1>3, <2>1 DEF FlowInv, FlowTypes
<1>8. FlowInv'
  <2>1. Becomes(c, r, flow', posts') /\ CookiesOK(cookie', flow')
    BY <1>3, <1>6
  <2> QED
    BY <1>1, <1>3, <1>4, <1>6, <1>7, <2>1, RowsStay, StepKeeps1
<1>9. ASSUME r.at = "complete"
      PROVE  moment < withdrawn[p][call[c].key] + CacheTtl + Timeout
                 \/ signing[p] = call[c].key
  <2>1. call'[c] = r
    BY <1>6 DEF FlowInv, FlowTypes
  <2>2. SignIns!Fresh(jwks, p) /\ e.value = call[c].key
    BY <1>5, <1>6, <1>9, <2>1
  <2>3. PICK i \in 1..Len(jwks) : e = jwks[i] /\ jwks[i].provider = p
    <3>1. SignIns!Place(jwks, p) \in 1..Len(jwks) /\ jwks[SignIns!Place(jwks, p)].provider = p
      BY <2>2 DEF SignIns!Fresh, SignIns!Has, SignIns!Place, FlowInv, FlowTypes
    <3> QED
      BY <3>1 DEF SignIns!Entry
  <2>4. e.expires > moment
    BY <2>2 DEF SignIns!Fresh
  <2>5. EntryOK(e, moment, signing, withdrawn) /\ e \in CachedRow
    BY <2>3 DEF FlowInv, CacheOK, FlowTypes
  <2>6. /\ moment \in Nat /\ signing[p] \in Nat /\ e.value \in 1..signing[p]
               /\ e.expires \in Nat
        /\ withdrawn[p][e.value] \in Nat /\ CacheTtl \in Nat /\ Timeout \in Nat
    <3>1. p \in Providers
      BY <1>1 DEF SignInCall
    <3>2. e.value \in 1..signing[p] /\ signing[p] \in 1..MaxKey /\ MaxKey \in Nat
      BY <2>3, <2>5, <3>1 DEF EntryOK, FlowInv, FlowTypes, FlowBounds
    <3>3. e.value \in 1..MaxKey
      BY <3>2
    <3>4. withdrawn[p] \in [1..MaxKey -> Nat]
      BY <3>1 DEF FlowInv, FlowTypes
    <3>5. withdrawn[p][e.value] \in Nat
      BY <3>3, <3>4
    <3>6. signing[p] \in Nat
      BY <3>2
    <3>7. e.expires \in Nat
      BY <2>5 DEF CachedRow
    <3> QED
      BY <3>2, <3>5, <3>6, <3>7 DEF FlowInv, FlowTypes, FlowBounds
  <2>7. e.value < signing[p] => e.expires <= withdrawn[p][e.value] + Timeout + CacheTtl
    BY <2>3, <2>5 DEF EntryOK
  <2> HIDE DEF e
  <2>8. CASE e.value < signing[p]
    <3>1. moment < withdrawn[p][e.value] + CacheTtl + Timeout
      BY <2>4, <2>6, <2>7, <2>8, Sooner
    <3> QED
      BY <2>2, <3>1
  <2>9. CASE ~(e.value < signing[p])
    <3>1. e.value = signing[p]
      BY <2>6, <2>9
    <3> QED
      BY <2>2, <3>1
  <2> QED
    BY <2>8, <2>9
<1>10. TrustStep
  BY <1>6, <1>9, TrustOf
<1> QED
  BY <1>8, <1>10

LEMMA KeysArriveKeeps ==
  ASSUME FlowBounds, FlowInv, NEW c \in Subjects, SignIns!KeysArrive(c)
  PROVE  FlowInv' /\ TrustStep
<1> DEFINE p == call[c].provider
<1>1. /\ call[c] \in SignInCall /\ p \in Providers /\ c \in Sent(call)
      /\ call[c].at = "fetching"
  BY SentCall DEF SignIns!KeysArrive, SignIns!InFlight
<1>2. StageOf(call[c]) \in Claimed
  BY <1>1 DEF StageOf, Claimed
<1>3. /\ UNCHANGED <<flow, discovery, signing, withdrawn, posts, asserted, moment, restarts>>
      /\ SignIns!Releases(p)
  BY DEF SignIns!KeysArrive
<1>4. PICK k \in call[c].since..signing[p], ttl \in 1..CacheTtl :
        jwks' = SignIns!Stored(jwks, p, k, ttl) /\ SignIns!VerifiesWith(c, k)
  BY DEF SignIns!KeysArrive
<1>5. Verified(c, k)
  BY <1>1, <1>2, <1>4, VerifiesOn
<1>6. PICK r \in {SignIns!Idle} \cup SignInCall :
        /\ call' = [call EXCEPT ![c] = r] /\ Becomes(c, r, flow, posts)
        /\ r.at \notin {"discovering", "posting", "fetching"}
        /\ r.at = "complete" => k = call[c].key
        /\ cookie' \in [Bindings -> FlowStates \cup {0}] /\ CookiesOK(cookie', flow)
  BY <1>5 DEF Verified
<1>7. /\ moment \in Nat /\ CacheTtl \in Nat \ {0} /\ Timeout \in Nat /\ MaxKey \in Nat
      /\ signing[p] \in 1..MaxKey /\ withdrawn[p] \in [1..MaxKey -> Nat]
  BY <1>1 DEF FlowInv, FlowTypes, FlowBounds
<1>8. /\ call[c].since \in 1..signing[p] /\ call[c].sent \in Nat
             /\ moment <= call[c].sent + Timeout
      /\ \A n \in call[c].since..(signing[p] - 1) : call[c].sent <= withdrawn[p][n]
  BY <1>1 DEF FlowInv, InTime, SignInCall
<1>9. k \in 1..signing[p] /\ k \in 1..MaxKey /\ withdrawn[p][k] \in Nat
  <2>1. k \in 1..signing[p] /\ k \in 1..MaxKey
    BY <1>4, <1>7, <1>8
  <2> QED
    BY <1>7, <2>1
<1>10. k < signing[p] => moment <= withdrawn[p][k] + Timeout
  <2> SUFFICES ASSUME k < signing[p] PROVE moment <= withdrawn[p][k] + Timeout
    OBVIOUS
  <2>1. k \in call[c].since..(signing[p] - 1)
    BY <1>4, <1>7, <1>8
  <2>2. call[c].sent <= withdrawn[p][k]
    BY <1>8, <2>1
  <2>3. \A m, n, w, t \in Nat : m <= n + t /\ n <= w => m <= w + t
    OBVIOUS
  <2>4. moment \in Nat /\ call[c].sent \in Nat /\ withdrawn[p][k] \in Nat /\ Timeout \in Nat
    BY <1>7, <1>8, <1>9
  <2> HIDE DEF p
  <2> QED
    BY ONLY <1>8, <2>2, <2>3, <2>4
<1>11. jwks' \in Seq(CachedRow) /\ CacheOK(jwks', moment, signing, withdrawn)
  <2> DEFINE e == [provider |-> p, value |-> k, expires |-> moment + ttl]
  <2>1. e \in CachedRow /\ e.value = k /\ e.provider = p /\ e.expires = moment + ttl
    BY <1>1, <1>7, <1>9 DEF CachedRow
  <2>2. jwks \in Seq(CachedRow) /\ CacheOK(jwks, moment, signing, withdrawn)
    BY DEF FlowInv, FlowTypes
  <2>3. /\ jwks' \in Seq(CachedRow)
        /\ \A i \in 1..Len(jwks') : jwks'[i] = e \/ \E j \in 1..Len(jwks) : jwks'[i] = jwks[j]
    BY <1>4, <2>1, <2>2, StoredOK
  <2> HIDE DEF e
  <2>4. EntryOK(e, moment, signing, withdrawn)
    <3>1. ttl \in Nat /\ ttl <= CacheTtl
      BY <1>7
    <3>2. moment + ttl <= moment + CacheTtl
      BY <1>7, <3>1
    <3>3. k < signing[p] => moment + ttl <= withdrawn[p][k] + Timeout + CacheTtl
      BY <1>7, <1>9, <1>10, <3>1
    <3> QED
      BY <1>9, <2>1, <3>2, <3>3 DEF EntryOK
  <2> QED
    BY <2>2, <2>3, <2>4 DEF CacheOK
<1>12. /\ CountsOK(call', outgoing', inflight') /\ outgoing' \in Nat
       /\ inflight' \in [Providers -> Nat]
  BY <1>1, <1>3, <1>6, CountsFall
<1>13. FlowInv'
  <2>1. Becomes(c, r, flow', posts') /\ CookiesOK(cookie', flow')
    BY <1>3, <1>6
  <2>2. discovery' \in Seq(CachedRow)
    BY <1>3 DEF FlowInv, FlowTypes
  <2> QED
    BY <1>3, <1>6, <1>11, <1>12, <2>1, <2>2, RowsStay, StepKeeps1
<1>14. ASSUME r.at = "complete"
       PROVE  moment < withdrawn[p][call[c].key] + CacheTtl + Timeout
                  \/ signing[p] = call[c].key
  <2>1. k = call[c].key
    BY <1>6, <1>14
  <2>2. CASE k < signing[p]
    <3>1. moment < withdrawn[p][k] + CacheTtl + Timeout
      BY <1>7, <1>9, <1>10, <2>2
    <3> QED
      BY <2>1, <3>1
  <2>3. CASE ~(k < signing[p])
    <3>1. k = signing[p]
      BY <1>7, <1>9, <2>3
    <3> QED
      BY <2>1, <3>1
  <2> QED
    BY <2>2, <2>3
<1>15. TrustStep
  BY <1>6, <1>14, TrustOf
<1> QED
  BY <1>13, <1>15

\* A step of the rows.
LEMMA ClaimKeeps ==
  ASSUME FlowBounds, FlowInv, NEW c \in Subjects, SignIns!Claim(c)
  PROVE  FlowInv'
<1> DEFINE f == call[c].flow
<1>1. call[c].at = "claim" /\ StageOf(call[c]) = "claim" /\ c \notin Sent(call)
  BY DEF SignIns!Claim, StageOf, Sent
<1>2. call[c] \in SignInCall
  <2>1. call[c] \in {SignIns!Idle} \cup SignInCall
    BY DEF FlowInv, FlowTypes
  <2> QED
    BY <1>1, <2>1, NotIdle
<1>3. /\ f \in FlowStates /\ flow[f] # SignIns!Absent /\ flow[f] \in FlowRow
      /\ flow[f].browser = call[c].browser
  BY <1>1 DEF FlowInv, ClaimsOK, FlowTypes
<1>4. UNCHANGED <<discovery, jwks, outgoing, inflight, signing, withdrawn, posts, asserted,
                  moment, restarts>>
  BY DEF SignIns!Claim
<1>5. /\ outgoing' \in Nat /\ inflight' \in [Providers -> Nat]
             /\ discovery' \in Seq(CachedRow)
      /\ posts' \in [FlowStates -> Nat] /\ asserted' \in [FlowStates -> Seq(Assertion)]
  BY <1>4 DEF FlowInv, FlowTypes
<1>6. CASE ~SignIns!Claimable(c)
  <2>1. SignIns!Replies(c) /\ UNCHANGED flow
    BY <1>6 DEF SignIns!Claim
  <2>2. call' = [call EXCEPT ![c] = SignIns!Idle] /\ SignIns!Idle.at = "idle"
    BY <2>1 DEF SignIns!Replies, SignIns!Ends, SignIns!Idle
  <2>3. CountsOK(call', outgoing', inflight')
    BY <1>1, <1>4, <2>2, CountsStay
  <2> QED
    BY <1>4, <1>5, <2>1, <2>3, CachesStay, ReplyKeeps
<1>7. CASE SignIns!Claimable(c)
  <2> DEFINE at == "claimed"
             row == [flow[f] EXCEPT !.status = "claimed"]
  <2>1. /\ flow' = [flow EXCEPT ![f] = row] /\ UNCHANGED cookie
        /\ SignIns!GoesWith(c, at, call[c].key, call[c].forced) /\ flow[f].status = "open"
    BY <1>7 DEF SignIns!Claim, SignIns!Claimable, SignIns!Goes
  <2>2. /\ at \in Places \ {"discovering", "posting", "fetching"} /\ call[c].key \in 0..MaxKey
        /\ call[c].forced \in BOOLEAN
    BY <1>2 DEF Places, Claimed, SignInCall
  <2>3. row \in FlowRow /\ row.status = "claimed" /\ row.browser = flow[f].browser
    BY <1>3 DEF FlowRow
  <2> HIDE DEF at, row
  <2>4. PICK r \in SignInCall :
          /\ call' = [call EXCEPT ![c] = r] /\ InTime(r, moment, signing, withdrawn)
          /\ r.at = at /\ StageOf(r) = at /\ r.flow = f
          /\ r.browser = call[c].browser /\ r.code = call[c].code
          /\ r.provider = call[c].provider /\ r.key = call[c].key
    BY <1>2, <2>1, <2>2, GoneOn
  <2>5. /\ flow' \in [FlowStates -> {SignIns!Absent} \cup FlowRow] /\ flow'[f] = row
        /\ \A g \in FlowStates \ {f} : flow'[g] = flow[g]
    BY <1>3, <2>1, <2>3 DEF FlowInv, FlowTypes
  <2>6. row # SignIns!Absent
    <3>1. SignIns!Absent.status = "absent"
      BY DEF SignIns!Absent
    <3> QED
      BY <2>3, <3>1
  <2>7. posts[f] = 0
    BY <1>3, <2>1 DEF FlowInv, HistoryOK
  <2>8. ClaimsOK(r, flow', posts')
    BY <1>3, <1>4, <2>3, <2>4, <2>5, <2>6, <2>7 DEF ClaimsOK, at
  <2>9. ASSUME NEW d \in Subjects \ {c}
        PROVE  /\ ClaimsOK(call[d], flow', posts')
               /\ StageOf(call[d]) \in Claimed => f # call[d].flow
    <3>1. ClaimsOK(call[d], flow, posts)
      BY DEF FlowInv
    <3>2. StageOf(call[d]) \in Claimed => f # call[d].flow
      BY <2>1, <3>1 DEF ClaimsOK
    <3>3. CASE StageOf(call[d]) \in Claimed \cup {"claim"} /\ call[d].flow = f
      BY <1>4, <2>3, <2>5, <2>6, <2>7, <3>1, <3>2, <3>3 DEF ClaimsOK
    <3>4. CASE ~(StageOf(call[d]) \in Claimed \cup {"claim"} /\ call[d].flow = f)
      <4>1. StageOf(call[d]) \in {"claimed", "exchange"} => StageOf(call[d]) \in Claimed
        BY DEF Claimed
      <4> QED
        BY <1>4, <2>5, <3>1, <3>4, <4>1 DEF ClaimsOK
    <3> QED
      BY <3>2, <3>3, <3>4
  <2>10. Becomes(c, r, flow', posts')
    BY <2>4, <2>8, <2>9 DEF Becomes
  <2>11. HistoryOK(flow', posts', asserted')
    <3>1. HistoryOK(flow, posts, asserted)
      BY DEF FlowInv
    <3>2. Len(asserted[f]) # 1
      BY <1>3, <2>1, <3>1 DEF HistoryOK
    <3>3. ASSUME NEW g \in FlowStates
          PROVE  /\ posts[g] <= 1 /\ (flow'[g].status \in {"absent", "open"} => posts[g] = 0)
                 /\ Len(asserted[g]) <= 1
                 /\ Len(asserted[g]) = 1 => flow'[g].status \in {"consumed", "gone"}
                 /\ \A i \in 1..Len(asserted[g]) :
                      asserted[g][i] = [browser |-> flow'[g].browser, code |-> g]
      <4>1. CASE g = f
        BY <2>3, <2>5, <3>1, <3>2, <4>1 DEF HistoryOK
      <4>2. CASE g # f
        BY <2>5, <3>1, <4>2 DEF HistoryOK
      <4> QED
        BY <4>1, <4>2
    <3> QED
      BY <1>4, <3>3 DEF HistoryOK
  <2>12. Cardinality(SignIns!Rows(flow')) <= MaxFlows
    <3>1. SignIns!Rows(flow') = SignIns!Rows(flow)
      BY <2>1, <2>3, <2>5, <1>3 DEF SignIns!Rows
    <3> QED
      BY <3>1 DEF FlowInv
  <2>13. CookiesOK(cookie', flow')
    <3>1. CookiesOK(cookie, flow) /\ cookie \in [Bindings -> FlowStates \cup {0}]
      BY DEF FlowInv, FlowTypes
    <3> QED
      BY <1>3, <2>1, <2>3, <2>5, <2>6, <3>1 DEF CookiesOK
  <2>14. CountsOK(call', outgoing', inflight')
    BY <1>1, <1>4, <2>2, <2>4, CountsStay
  <2> QED
    BY <1>4, <1>5, <2>1, <2>5, <2>10, <2>11, <2>12, <2>13, <2>14, CookiesStay, CachesStay,
       StepKeeps1
<1> QED
  BY <1>6, <1>7

LEMMA AbsentRow ==
  /\ SignIns!Absent.status = "absent"
  /\ \A row \in FlowRow : row # SignIns!Absent /\ row.status # "absent"
<1>1. SignIns!Absent.status = "absent"
  BY DEF SignIns!Absent
<1>2. \A row \in FlowRow : row.status # "absent"
  BY DEF FlowRow
<1> QED
  BY <1>1, <1>2

LEMMA CompleteKeeps ==
  ASSUME FlowBounds, FlowInv, NEW c \in Subjects, SignIns!Complete(c)
  PROVE  FlowInv'
<1> DEFINE f == call[c].flow
<1>1. call[c].at = "complete" /\ StageOf(call[c]) \in Claimed /\ c \notin Sent(call)
  BY DEF SignIns!Complete, StageOf, Sent, Claimed
<1>2. call[c] \in SignInCall
  <2>1. call[c] \in {SignIns!Idle} \cup SignInCall
    BY DEF FlowInv, FlowTypes
  <2> QED
    BY <1>1, <2>1, NotIdle
<1>3. /\ f \in FlowStates /\ flow[f] \in FlowRow /\ flow[f].browser = call[c].browser
      /\ flow[f].status \in {"claimed", "gone"}
  BY <1>1, ClaimedFlow
<1>4. /\ UNCHANGED <<discovery, jwks, outgoing, inflight, signing, withdrawn, posts, moment,
             restarts>>
      /\ SignIns!Replies(c)
  BY DEF SignIns!Complete
<1>5. /\ outgoing' \in Nat /\ inflight' \in [Providers -> Nat]
             /\ discovery' \in Seq(CachedRow)
      /\ posts' \in [FlowStates -> Nat]
  BY <1>4 DEF FlowInv, FlowTypes
<1>6. CountsOK(call', outgoing', inflight')
  <2>1. call' = [call EXCEPT ![c] = SignIns!Idle] /\ SignIns!Idle.at = "idle"
    BY <1>4 DEF SignIns!Replies, SignIns!Ends, SignIns!Idle
  <2> QED
    BY <1>1, <1>4, <2>1, CountsStay
<1>7. CASE flow[f].status # "claimed"
  <2>1. UNCHANGED <<flow, asserted>>
    BY <1>7 DEF SignIns!Complete
  <2> QED
    BY <1>4, <1>5, <1>6, <2>1, CachesStay, ReplyKeeps
<1>8. CASE flow[f].status = "claimed"
  <2> DEFINE row == [flow[f] EXCEPT !.status = "consumed"]
             a == [browser |-> call[c].browser, code |-> call[c].code]
  <2>1. /\ flow' = [flow EXCEPT ![f] = row]
        /\ asserted' = [asserted EXCEPT ![f] = Append(asserted[f], a)]
    BY <1>8 DEF SignIns!Complete
  <2>2. row \in FlowRow /\ row.status = "consumed" /\ row.browser = flow[f].browser
    BY <1>3 DEF FlowRow
  <2>3. a \in Assertion /\ a = [browser |-> row.browser, code |-> f]
    <3>1. call[c].code = f
      BY <1>1 DEF FlowInv, ClaimsOK
    <3> QED
      BY <1>2, <1>3, <2>2, <3>1 DEF Assertion, SignInCall
  <2> HIDE DEF row, a
  <2>4. /\ flow' \in [FlowStates -> {SignIns!Absent} \cup FlowRow] /\ flow'[f] = row
        /\ \A g \in FlowStates \ {f} : flow'[g] = flow[g]
    BY <1>3, <2>1, <2>2 DEF FlowInv, FlowTypes
  <2>5. asserted \in [FlowStates -> Seq(Assertion)] /\ HistoryOK(flow, posts, asserted)
    BY DEF FlowInv, FlowTypes
  <2>6. /\ Append(asserted[f], a) \in Seq(Assertion) /\ Len(Append(asserted[f], a)) = 1
        /\ \A i \in 1..1 : Append(asserted[f], a)[i] = a
    <3>1. asserted[f] \in Seq(Assertion) /\ Len(asserted[f]) \in Nat
      BY <1>3, <2>5
    <3>2. Len(asserted[f]) <= 1 /\ Len(asserted[f]) # 1
      <4>1. Len(asserted[f]) <= 1
                /\ (Len(asserted[f]) = 1 => flow[f].status \in {"consumed", "gone"})
        BY <1>3, <2>5 DEF HistoryOK
      <4> QED
        BY <1>8, <4>1
    <3>3. /\ Append(asserted[f], a) \in Seq(Assertion)
          /\ Len(Append(asserted[f], a)) = Len(asserted[f]) + 1
          /\ Append(asserted[f], a)[Len(asserted[f]) + 1] = a
      BY <2>3, <3>1, AppendProperties
    <3>4. Len(asserted[f]) = 0 /\ Len(asserted[f]) + 1 = 1
      <4>1. \A n \in Nat : n <= 1 /\ n # 1 => n = 0 /\ n + 1 = 1
        OBVIOUS
      <4> QED
        BY <3>1, <3>2, <4>1
    <3>5. Append(asserted[f], a)[1] = a /\ Len(Append(asserted[f], a)) = 1
      BY <3>3, <3>4
    <3>6. \A i \in 1..1 : i = 1
      OBVIOUS
    <3> QED
      BY <3>3, <3>5, <3>6
  <2>7. /\ asserted' \in [FlowStates -> Seq(Assertion)] /\ Len(asserted'[f]) = 1
        /\ \A i \in 1..Len(asserted'[f]) :
             asserted'[f][i] = [browser |-> row.browser, code |-> f]
        /\ \A g \in FlowStates \ {f} : asserted'[g] = asserted[g]
    <3>1. asserted'[f] = Append(asserted[f], a)
      BY <1>3, <2>1, <2>5
    <3> QED
      BY <1>3, <2>1, <2>3, <2>5, <2>6, <3>1
  <2>8. row # SignIns!Absent
    BY <2>2, AbsentRow
  <2>9. Becomes(c, SignIns!Idle, flow', posts')
    <3>1. call' = [call EXCEPT ![c] = SignIns!Idle] /\ StageOf(SignIns!Idle) = "idle"
      BY <1>4 DEF SignIns!Replies, SignIns!Ends, SignIns!Idle, StageOf
    <3>2. ClaimsOK(SignIns!Idle, flow', posts')
              /\ InTime(SignIns!Idle, moment, signing, withdrawn)
      BY IdleOK
    <3>3. ASSUME NEW d \in Subjects \ {c} PROVE ClaimsOK(call[d], flow', posts')
      <4>1. ClaimsOK(call[d], flow, posts)
        BY DEF FlowInv
      <4>2. StageOf(call[d]) \in Claimed => f # call[d].flow
        BY <1>1 DEF FlowInv, Exclusive
      <4>3. StageOf(call[d]) \in {"claimed", "exchange"} => StageOf(call[d]) \in Claimed
        BY DEF Claimed
      <4>4. CASE call[d].flow = f
        BY <1>4, <2>2, <2>4, <2>8, <4>1, <4>2, <4>3, <4>4 DEF ClaimsOK
      <4>5. CASE call[d].flow # f
        BY <1>4, <2>4, <4>1, <4>3, <4>5 DEF ClaimsOK
      <4> QED
        BY <4>4, <4>5
    <3> QED
      BY <3>1, <3>2, <3>3 DEF Becomes, Claimed
  <2>10. HistoryOK(flow', posts', asserted')
    <3>1. ASSUME NEW g \in FlowStates
          PROVE  /\ posts[g] <= 1 /\ (flow'[g].status \in {"absent", "open"} => posts[g] = 0)
                 /\ Len(asserted'[g]) <= 1
                 /\ Len(asserted'[g]) = 1 => flow'[g].status \in {"consumed", "gone"}
                 /\ \A i \in 1..Len(asserted'[g]) :
                      asserted'[g][i] = [browser |-> flow'[g].browser, code |-> g]
      <4>1. CASE g = f
        <5>1. posts[f] <= 1
          BY <1>3, <2>5 DEF HistoryOK
        <5>2. flow'[f].status = "consumed" /\ flow'[f].browser = row.browser
          BY <2>2, <2>4
        <5>3. /\ Len(asserted'[f]) = 1
              /\ \A i \in 1..Len(asserted'[f]) :
                   asserted'[f][i] = [browser |-> flow'[f].browser, code |-> f]
          BY <2>7, <5>2
        <5> QED
          BY <4>1, <5>1, <5>2, <5>3
      <4>2. CASE g # f
        BY <2>4, <2>5, <2>7, <4>2 DEF HistoryOK
      <4> QED
        BY <4>1, <4>2
    <3> QED
      BY <1>4, <3>1 DEF HistoryOK
  <2>11. Cardinality(SignIns!Rows(flow')) <= MaxFlows
    <3>1. SignIns!Rows(flow') = SignIns!Rows(flow)
      BY <1>3, <1>8, <2>2, <2>4 DEF SignIns!Rows
    <3> QED
      BY <3>1 DEF FlowInv
  <2>12. cookie' \in [Bindings -> FlowStates \cup {0}] /\ CookiesOK(cookie', flow')
    <3>1. CookiesOK(cookie', flow) /\ cookie' \in [Bindings -> FlowStates \cup {0}]
      BY <1>4, Replied
    <3> QED
      BY <1>3, <2>2, <2>4, <2>8, <3>1 DEF CookiesOK
  <2> QED
    BY <1>4, <1>5, <1>6, <2>4, <2>7, <2>9, <2>10, <2>11, <2>12, CachesStay, StepKeeps1
<1> QED
  BY <1>7, <1>8

LEMMA RotateKeyKeeps ==
  ASSUME FlowBounds, FlowInv, NEW p \in Providers, SignIns!RotateKey(p)
  PROVE  FlowInv'
<1>1. /\ signing[p] < MaxKey /\ signing' = [signing EXCEPT ![p] = @ + 1]
      /\ withdrawn' = [withdrawn EXCEPT ![p][signing[p]] = moment]
      /\ UNCHANGED <<flow, cookie, call, discovery, jwks, outgoing, inflight, posts, asserted,
                     moment, restarts>>
  BY DEF SignIns!RotateKey
<1>2. /\ signing \in [Providers -> 1..MaxKey]
             /\ withdrawn \in [Providers -> [1..MaxKey -> Nat]]
      /\ moment \in Nat /\ MaxKey \in Nat /\ Timeout \in Nat /\ CacheTtl \in Nat
  BY DEF FlowInv, FlowTypes, FlowBounds
<1>3. /\ signing[p] \in 1..MaxKey /\ signing'[p] = signing[p] + 1
      /\ \A q \in Providers \ {p} : signing'[q] = signing[q] /\ withdrawn'[q] = withdrawn[q]
      /\ signing' \in [Providers -> 1..MaxKey]
  BY <1>1, <1>2
<1>4. /\ withdrawn[p] \in [1..MaxKey -> Nat] /\ withdrawn'[p][signing[p]] = moment
      /\ \A k \in 1..MaxKey : k # signing[p] => withdrawn'[p][k] = withdrawn[p][k]
      /\ withdrawn' \in [Providers -> [1..MaxKey -> Nat]]
  <2>1. withdrawn' = [withdrawn EXCEPT ![p] = [withdrawn[p] EXCEPT ![signing[p]] = moment]]
    BY <1>1
  <2>2. withdrawn[p] \in [1..MaxKey -> Nat]
    BY <1>2
  <2>3. [withdrawn[p] EXCEPT ![signing[p]] = moment] \in [1..MaxKey -> Nat]
    BY <1>2, <1>3, <2>2
  <2>4. withdrawn'[p] = [withdrawn[p] EXCEPT ![signing[p]] = moment]
    BY <1>2, <2>1
  <2> QED
    BY <1>2, <1>3, <2>1, <2>2, <2>3, <2>4
<1>5. ASSUME NEW d \in Subjects PROVE InTime(call[d], moment, signing', withdrawn')
  <2>1. InTime(call[d], moment, signing, withdrawn)
    BY DEF FlowInv
  <2>2. CASE call[d].at # "fetching"
    BY <2>1, <2>2 DEF InTime
  <2>3. CASE call[d].at = "fetching"
    <3>1. call[d] \in SignInCall
      <4>1. call[d] \in {SignIns!Idle} \cup SignInCall
        BY DEF FlowInv, FlowTypes
      <4> QED
        BY <2>3, <4>1, NotIdle
    <3>2. /\ call[d].provider \in Providers /\ call[d].sent \in Nat /\ call[d].sent <= moment
          /\ moment <= call[d].sent + Timeout
                 /\ call[d].since \in 1..signing[call[d].provider]
          /\ \A k \in call[d].since..(signing[call[d].provider] - 1) :
               call[d].sent <= withdrawn[call[d].provider][k]
      BY <2>1, <2>3, <3>1 DEF InTime, SignInCall
    <3>3. CASE call[d].provider # p
      BY <1>3, <2>3, <3>2, <3>3 DEF InTime
    <3>4. CASE call[d].provider = p
      <4>1. call[d].since \in 1..signing'[p]
        BY <1>3, <3>2, <3>4
      <4>2. ASSUME NEW k \in call[d].since..(signing'[p] - 1)
            PROVE  call[d].sent <= withdrawn'[p][k]
        <5>1. CASE k = signing[p]
          BY <1>4, <3>2, <5>1
        <5>2. CASE k # signing[p]
          <6>1. k \in call[d].since..(signing[p] - 1) /\ k \in 1..MaxKey
            BY <1>2, <1>3, <3>2, <3>4, <5>2
          <6> QED
            BY <1>4, <3>2, <3>4, <5>2, <6>1
        <5> QED
          BY <5>1, <5>2
      <4> QED
        BY <2>3, <3>2, <3>4, <4>1, <4>2 DEF InTime
    <3> QED
      BY <3>3, <3>4
  <2> QED
    BY <2>2, <2>3
<1>6. ASSUME NEW i \in 1..Len(jwks) PROVE EntryOK(jwks[i], moment, signing', withdrawn')
  <2> DEFINE e == jwks[i]
  <2>1. e \in CachedRow /\ EntryOK(e, moment, signing, withdrawn)
    BY DEF FlowInv, FlowTypes, CacheOK
  <2> SUFFICES EntryOK(e, moment, signing', withdrawn')
    OBVIOUS
  <2> HIDE DEF e
  <2>2. e.provider \in Providers /\ e.expires \in Nat
    BY <2>1 DEF CachedRow
  <2>3. CASE e.provider # p
    <3>1. signing'[e.provider] = signing[e.provider]
              /\ withdrawn'[e.provider] = withdrawn[e.provider]
      BY <1>3, <2>2, <2>3
    <3> QED
      BY <2>1, <3>1 DEF EntryOK
  <2>4. CASE e.provider = p
    <3>1. e.value \in 1..signing[p] /\ e.expires <= moment + CacheTtl
      BY <2>1, <2>4 DEF EntryOK
    <3>2. e.value \in 1..signing'[p]
      BY <1>3, <3>1
    <3>3. e.expires <= withdrawn'[p][e.value] + Timeout + CacheTtl
      <4>1. CASE e.value = signing[p]
        <5>1. withdrawn'[p][e.value] = moment
          BY <1>4, <4>1
        <5> QED
          BY <1>2, <2>2, <3>1, <5>1
      <4>2. CASE e.value # signing[p]
        <5>1. e.value < signing[p] /\ e.value \in 1..MaxKey
          BY <1>2, <1>3, <3>1, <4>2
        <5>2. withdrawn'[p][e.value] = withdrawn[p][e.value]
          BY <1>4, <4>2, <5>1
        <5> QED
          BY <2>1, <2>4, <5>1, <5>2 DEF EntryOK
      <4> QED
        BY <4>1, <4>2
    <3>4. e.value \in 1..signing'[e.provider]
      BY <2>4, <3>2
    <3>5. e.expires <= withdrawn'[e.provider][e.value] + Timeout + CacheTtl
      BY <2>4, <3>3
    <3> QED
      BY <3>1, <3>4, <3>5 DEF EntryOK
  <2> QED
    BY <2>3, <2>4
<1>7. FlowTypes'
  BY <1>1, <1>3, <1>4 DEF FlowInv, FlowTypes
<1> QED
  BY <1>1, <1>5, <1>6, <1>7 DEF FlowInv, CacheOK

LEMMA ClockKeeps ==
  ASSUME FlowBounds, FlowInv, SignIns!Tick
  PROVE  FlowInv'
<1>1. /\ moment' = moment + 1 /\ \A c \in Subjects : SignIns!InFlight(c)
             => moment < call[c].sent + Timeout
      /\ UNCHANGED <<flow, cookie, call, discovery, jwks, outgoing, inflight, signing,
                     withdrawn, posts, asserted, restarts>>
  BY DEF SignIns!Tick
<1>2. moment \in Nat /\ Timeout \in Nat /\ CacheTtl \in Nat
  BY DEF FlowInv, FlowTypes, FlowBounds
<1>3. ASSUME NEW d \in Subjects PROVE InTime(call[d], moment', signing, withdrawn)
  <2>1. call[d] \in {SignIns!Idle} \cup SignInCall
            /\ InTime(call[d], moment, signing, withdrawn)
    BY DEF FlowInv, FlowTypes
  <2>2. CASE call[d] = SignIns!Idle
    BY <2>2 DEF InTime, SignIns!Idle
  <2>3. CASE call[d] # SignIns!Idle
    <3>1. call[d].sent \in Nat /\ call[d].sent <= moment
      <4>1. call[d] \in SignInCall /\ call[d].at # "idle"
        BY <2>1, <2>3, NotIdle
      <4> QED
        BY <2>1, <4>1 DEF InTime, SignInCall
    <3>2. call[d].sent <= moment'
      BY <1>1, <1>2, <3>1
    <3>3. call[d].at \in {"discovering", "posting", "fetching"}
              => moment' <= call[d].sent + Timeout
      BY <1>1, <1>2, <3>1 DEF SignIns!InFlight
    <3> QED
      BY <2>1, <3>2, <3>3 DEF InTime
  <2> QED
    BY <2>2, <2>3
<1>4. ASSUME NEW i \in 1..Len(jwks) PROVE EntryOK(jwks[i], moment', signing, withdrawn)
  <2>1. jwks[i] \in CachedRow /\ EntryOK(jwks[i], moment, signing, withdrawn)
    BY DEF FlowInv, FlowTypes, CacheOK
  <2>2. jwks[i].expires \in Nat /\ jwks[i].expires <= moment + CacheTtl
    BY <2>1 DEF CachedRow, EntryOK
  <2>3. jwks[i].expires <= moment' + CacheTtl
    BY <1>1, <1>2, <2>2
  <2> QED
    BY <2>1, <2>3 DEF EntryOK
<1>5. FlowTypes'
  BY <1>1, <1>2 DEF FlowInv, FlowTypes
<1> QED
  BY <1>1, <1>3, <1>4, <1>5 DEF FlowInv, CacheOK

\* With no request under way the counts are zero.
LEMMA NoneSent ==
  ASSUME FlowBounds, NEW calls, \A c \in Subjects : calls[c].at = "idle"
  PROVE  CountsOK(calls, 0, [p \in Providers |-> 0])
<1>1. Sent(calls) = {} /\ \A p : SentTo(calls, p) = {}
  BY DEF Sent, SentTo
<1>2. Cardinality({}) = 0
  BY FS_EmptySet
<1> QED
  BY <1>1, <1>2 DEF CountsOK, FlowBounds

LEMMA RestartKeeps ==
  ASSUME FlowBounds, FlowInv, SignIns!Restart
  PROVE  FlowInv'
<1>1. /\ call' = [c \in Subjects |-> SignIns!Idle] /\ discovery' = <<>> /\ jwks' = <<>>
      /\ outgoing' = 0 /\ inflight' = [p \in Providers |-> 0] /\ restarts' = restarts + 1
      /\ UNCHANGED <<flow, cookie, signing, withdrawn, posts, asserted, moment>>
  BY DEF SignIns!Restart
<1>2. \A c \in Subjects : call'[c] = SignIns!Idle /\ call'[c].at = "idle"
          /\ StageOf(call'[c]) = "idle"
  BY <1>1 DEF SignIns!Idle, StageOf
<1>3. CountsOK(call', outgoing', inflight')
  BY <1>1, <1>2, NoneSent
<1>4. \A c \in Subjects : ClaimsOK(call'[c], flow', posts')
          /\ InTime(call'[c], moment', signing', withdrawn')
  BY <1>1, <1>2, IdleOK
<1>5. Exclusive(call')
  BY <1>2 DEF Exclusive, Claimed
<1>6. jwks' \in Seq(CachedRow) /\ discovery' \in Seq(CachedRow) /\ Len(jwks') = 0
  BY <1>1
<1>7. CacheOK(jwks', moment', signing', withdrawn')
  BY <1>6 DEF CacheOK
<1>8. FlowTypes'
  BY <1>1, <1>6 DEF FlowInv, FlowTypes
<1> QED
  BY <1>1, <1>3, <1>4, <1>5, <1>7, <1>8 DEF FlowInv

LEMMA FlowInit ==
  ASSUME FlowBounds, SignIns!Init
  PROVE  FlowInv
<1>1. \A c \in Subjects : call[c] = SignIns!Idle /\ call[c].at = "idle"
          /\ StageOf(call[c]) = "idle"
  BY DEF SignIns!Init, SignIns!Idle, StageOf
<1>2. CountsOK(call, outgoing, inflight)
  BY <1>1, NoneSent DEF SignIns!Init
<1>3. \A c \in Subjects : ClaimsOK(call[c], flow, posts)
          /\ InTime(call[c], moment, signing, withdrawn)
  BY <1>1, IdleOK
<1>4. Exclusive(call)
  BY <1>1 DEF Exclusive, Claimed
<1>5. CacheOK(jwks, moment, signing, withdrawn)
  BY DEF SignIns!Init, CacheOK
<1>6. HistoryOK(flow, posts, asserted)
  <2>1. \A f \in FlowStates : posts[f] = 0 /\ asserted[f] = <<>> /\ Len(asserted[f]) = 0
    BY DEF SignIns!Init
  <2> QED
    BY <2>1 DEF HistoryOK
<1>7. Cardinality(SignIns!Rows(flow)) <= MaxFlows
  <2>1. SignIns!Rows(flow) = {}
    BY AbsentRow DEF SignIns!Init, SignIns!Rows
  <2> QED
    BY <2>1, FS_EmptySet DEF FlowBounds
<1>8. CookiesOK(cookie, flow)
  BY DEF SignIns!Init, CookiesOK, SignIns!None
<1>9. FlowTypes
  BY DEF FlowTypes, SignIns!Init, SignIns!None, SignIns!Keys, FlowBounds
<1> QED
  BY <1>2, <1>3, <1>4, <1>5, <1>6, <1>7, <1>8, <1>9 DEF FlowInv

LEMMA FlowStutter == ASSUME FlowInv, UNCHANGED SignIns!oidcVars PROVE FlowInv'
BY DEF FlowInv, FlowTypes, SignIns!oidcVars

LEMMA FlowSafe == ASSUME FlowBounds, FlowInv PROVE SignIns!FlowsUsedOnce
<1>1. \A f \in FlowStates : /\ posts[f] <= 1 /\ Len(asserted[f]) <= 1
                             /\ \A i \in DOMAIN asserted[f] :
                                  asserted[f][i] = [browser |-> flow[f].browser, code |-> f]
  <2>1. \A f \in FlowStates : DOMAIN asserted[f] = 1..Len(asserted[f])
    BY DEF FlowInv, FlowTypes
  <2> QED
    BY <2>1 DEF FlowInv, HistoryOK
<1>2. Sent(call) = {c \in Subjects : SignIns!InFlight(c)}
  BY DEF Sent, SignIns!InFlight
<1>3. \A p : SentTo(call, p) = {c \in Subjects : SignIns!InFlight(c) /\ call[c].provider = p}
  BY DEF Sent, SentTo, SignIns!InFlight
<1> QED
  BY <1>1, <1>2, <1>3, SignInsCardinality
     DEF SignIns!FlowsUsedOnce, FlowInv, CountsOK

\* The rows once those that have expired are gone.
Swept == [f \in FlowStates |-> IF f \in SignIns!Rows(flow) /\ flow[f].expires <= moment
                          THEN [flow[f] EXCEPT !.status = "gone"] ELSE flow[f]]

LEMMA SweptRows ==
  ASSUME FlowInv
  PROVE  /\ Swept \in [FlowStates -> {SignIns!Absent} \cup FlowRow]
         /\ \A f \in FlowStates :
              \/ Swept[f] = flow[f]
              \/ /\ flow[f] \in FlowRow /\ Swept[f] \in FlowRow
                 /\ Swept[f].status = "gone" /\ Swept[f].browser = flow[f].browser
<1>1. flow \in [FlowStates -> {SignIns!Absent} \cup FlowRow]
  BY DEF FlowInv, FlowTypes
<1>2. ASSUME NEW f \in FlowStates
      PROVE  /\ Swept[f] \in {SignIns!Absent} \cup FlowRow
             /\ \/ Swept[f] = flow[f]
                \/ /\ flow[f] \in FlowRow /\ Swept[f] \in FlowRow
                   /\ Swept[f].status = "gone" /\ Swept[f].browser = flow[f].browser
  <2>1. CASE f \in SignIns!Rows(flow) /\ flow[f].expires <= moment
    <3>1. Swept[f] = [flow[f] EXCEPT !.status = "gone"]
      BY <2>1 DEF Swept
    <3>2. flow[f] \in FlowRow
      BY <1>1, <2>1, AbsentRow DEF SignIns!Rows
    <3>3. [flow[f] EXCEPT !.status = "gone"] \in FlowRow
      BY <3>2 DEF FlowRow
    <3> QED
      BY <3>1, <3>2, <3>3 DEF FlowRow
  <2>2. CASE ~(f \in SignIns!Rows(flow) /\ flow[f].expires <= moment)
    BY <1>1, <2>2 DEF Swept
  <2> QED
    BY <2>1, <2>2
<1>3. Swept \in [FlowStates -> {SignIns!Absent} \cup FlowRow]
  BY <1>2 DEF Swept
<1> QED
  BY <1>2, <1>3

LEMMA CreateKeeps ==
  ASSUME FlowBounds, FlowInv, NEW c \in Subjects, SignIns!Create(c)
  PROVE  FlowInv'
<1> DEFINE b == call[c].browser
<1>1. /\ call[c] \in SignInCall /\ c \notin Sent(call) /\ discovery' \in Seq(CachedRow)
  BY DiscoveredAt DEF SignIns!Create
<1>2. /\ call' = [call EXCEPT ![c] = SignIns!Idle]
      /\ UNCHANGED <<jwks, outgoing, inflight, signing, withdrawn, posts, asserted, moment,
             restarts>>
  BY DEF SignIns!Create, SignIns!Ends
<1>3. SignIns!Idle.at = "idle" /\ StageOf(SignIns!Idle) = "idle"
  BY DEF SignIns!Idle, StageOf
<1>4. CountsOK(call', outgoing', inflight')
  BY <1>1, <1>2, <1>3, CountsStay
<1>5. /\ outgoing' \in Nat /\ inflight' \in [Providers -> Nat]
             /\ posts' \in [FlowStates -> Nat]
      /\ asserted' \in [FlowStates -> Seq(Assertion)]
  BY <1>2 DEF FlowInv, FlowTypes
<1>6. CASE UNCHANGED <<flow, cookie>>
  <2>1. Becomes(c, SignIns!Idle, flow, posts)
    BY <1>2, <1>3, IdleOK, OneStays DEF Claimed
  <2>2. Becomes(c, SignIns!Idle, flow', posts')
    BY <1>2, <1>6, <2>1
  <2> QED
    BY <1>1, <1>2, <1>4, <1>5, <1>6, <2>2, RowsStay, CookiesStay, CachesStay, StepKeeps1
<1>7. CASE ~UNCHANGED <<flow, cookie>>
  <2>1. PICK f \in FlowStates :
          /\ flow[f] = SignIns!Absent /\ Cardinality(SignIns!Rows(Swept)) < MaxFlows
          /\ flow' = [Swept EXCEPT ![f] =
               [status |-> "open", provider |-> call[c].provider, browser |-> b,
                expires |-> moment + FlowTtl]]
          /\ cookie' = [cookie EXCEPT ![b] = f]
    BY <1>7, SignInsCardinality DEF SignIns!Create, Swept
  <2> DEFINE row == [status |-> "open", provider |-> call[c].provider, browser |-> b,
                     expires |-> moment + FlowTtl]
  <2>2. /\ row \in FlowRow /\ row.status = "open" /\ row.browser = b /\ b \in Bindings
    BY <1>1 DEF FlowRow, SignInCall, FlowInv, FlowTypes, FlowBounds
  <2>3. flow' = [Swept EXCEPT ![f] = row]
    BY <2>1
  <2> HIDE DEF row
  <2>4. /\ flow' \in [FlowStates -> {SignIns!Absent} \cup FlowRow] /\ flow'[f] = row
        /\ \A g \in FlowStates \ {f} : flow'[g] = Swept[g]
    BY <2>2, <2>3, SweptRows
  <2>5. \A g \in FlowStates : flow[g] # SignIns!Absent =>
          /\ g # f /\ flow'[g] # SignIns!Absent /\ flow'[g].browser = flow[g].browser
          /\ flow'[g].status \in {flow[g].status, "gone"}
    <3> SUFFICES ASSUME NEW g \in FlowStates, flow[g] # SignIns!Absent
                 PROVE  /\ g # f /\ flow'[g] # SignIns!Absent
                               /\ flow'[g].browser = flow[g].browser
                        /\ flow'[g].status \in {flow[g].status, "gone"}
      OBVIOUS
    <3>1. g # f /\ flow'[g] = Swept[g]
      BY <2>1, <2>4
    <3> QED
      BY <3>1, SweptRows, AbsentRow
  <2>6. \A g \in FlowStates \ {f} : flow[g] = SignIns!Absent => flow'[g] = SignIns!Absent
    BY <2>4, SweptRows, AbsentRow
  <2>7. \A d \in Subjects : ClaimsOK(call[d], flow', posts')
    <3> SUFFICES ASSUME NEW d \in Subjects PROVE ClaimsOK(call[d], flow', posts')
      OBVIOUS
    <3>1. ClaimsOK(call[d], flow, posts)
      BY DEF FlowInv
    <3>2. StageOf(call[d]) \in Claimed \cup {"claim"} =>
            /\ call[d].flow \in FlowStates /\ flow[call[d].flow] # SignIns!Absent
            /\ flow[call[d].flow].browser = call[d].browser
      BY <3>1 DEF ClaimsOK
    <3>3. StageOf(call[d]) \in Claimed \cup {"claim"} =>
            /\ flow'[call[d].flow] # SignIns!Absent
                   /\ flow'[call[d].flow].browser = call[d].browser
            /\ flow'[call[d].flow].status \in {flow[call[d].flow].status, "gone"}
      BY <2>5, <3>2
    <3> QED
      BY <1>2, <3>1, <3>2, <3>3 DEF ClaimsOK
  <2>8. Becomes(c, SignIns!Idle, flow', posts')
    BY <1>2, <1>3, <2>7, IdleOK DEF Becomes, Claimed
  <2>9. HistoryOK(flow', posts', asserted')
    <3>1. HistoryOK(flow, posts, asserted) /\ asserted \in [FlowStates -> Seq(Assertion)]
      BY DEF FlowInv, FlowTypes
    <3>2. ASSUME NEW g \in FlowStates
          PROVE  /\ posts[g] <= 1 /\ (flow'[g].status \in {"absent", "open"} => posts[g] = 0)
                 /\ Len(asserted[g]) <= 1
                 /\ Len(asserted[g]) = 1 => flow'[g].status \in {"consumed", "gone"}
                 /\ \A i \in 1..Len(asserted[g]) :
                      asserted[g][i] = [browser |-> flow'[g].browser, code |-> g]
      <4>1. CASE flow[g] = SignIns!Absent
        <5>1. posts[g] = 0 /\ Len(asserted[g]) <= 1 /\ Len(asserted[g]) # 1
          BY <3>1, <4>1, AbsentRow DEF HistoryOK
        <5>2. Len(asserted[g]) = 0
          <6>1. \A n \in Nat : n <= 1 /\ n # 1 => n = 0
            OBVIOUS
          <6>2. Len(asserted[g]) \in Nat
            BY <3>1
          <6> QED
            BY <5>1, <6>1, <6>2
        <5> QED
          BY <5>1, <5>2
      <4>2. CASE flow[g] # SignIns!Absent
        <5>1. /\ flow'[g].browser = flow[g].browser
              /\ flow'[g].status \in {flow[g].status, "gone"}
          BY <2>5, <4>2
        <5> QED
          BY <3>1, <5>1 DEF HistoryOK
      <4> QED
        BY <4>1, <4>2
    <3> QED
      BY <1>2, <3>2 DEF HistoryOK
  <2>10. Cardinality(SignIns!Rows(flow')) <= MaxFlows
    <3>1. SignIns!Rows(flow') = SignIns!Rows(Swept) \cup {f}
      BY <2>2, <2>4 DEF SignIns!Rows
    <3>2. IsFiniteSet(SignIns!Rows(Swept)) /\ Cardinality(SignIns!Rows(Swept)) \in Nat
      <4>1. IsFiniteSet(SignIns!Rows(Swept))
        BY FS_Subset DEF SignIns!Rows, FlowBounds
      <4> QED
        BY <4>1, FS_CardinalityType
    <3>3. f \notin SignIns!Rows(Swept)
      <4>1. Swept[f] = SignIns!Absent
        BY <2>1, SweptRows, AbsentRow
      <4> QED
        BY <4>1, AbsentRow DEF SignIns!Rows
    <3>4. Cardinality(SignIns!Rows(flow')) = Cardinality(SignIns!Rows(Swept)) + 1
      BY <3>1, <3>2, <3>3, FS_AddElement
    <3> QED
      BY <2>1, <3>2, <3>4 DEF FlowBounds
  <2>11. cookie' \in [Bindings -> FlowStates \cup {0}] /\ CookiesOK(cookie', flow')
    <3>1. CookiesOK(cookie, flow) /\ cookie \in [Bindings -> FlowStates \cup {0}]
      BY DEF FlowInv, FlowTypes
    <3>2. /\ cookie' \in [Bindings -> FlowStates \cup {0}] /\ cookie'[b] = f
          /\ \A a \in Bindings \ {b} : cookie'[a] = cookie[a]
      BY <2>1, <2>2, <3>1
    <3>3. ASSUME NEW a \in Bindings, cookie'[a] # 0
          PROVE  flow'[cookie'[a]] # SignIns!Absent /\ flow'[cookie'[a]].browser = a
      <4>1. CASE a = b
        BY <2>2, <2>4, <3>2, <4>1, AbsentRow
      <4>2. CASE a # b
        <5>1. cookie'[a] = cookie[a] /\ cookie[a] \in FlowStates
          BY <3>1, <3>2, <3>3, <4>2
        <5>2. flow[cookie[a]] # SignIns!Absent /\ flow[cookie[a]].browser = a
          BY <3>1, <3>3, <5>1 DEF CookiesOK
        <5> QED
          BY <2>5, <5>1, <5>2
      <4> QED
        BY <4>1, <4>2
    <3> QED
      BY <3>2, <3>3 DEF CookiesOK
  <2> QED
    BY <1>1, <1>2, <1>4, <1>5, <2>4, <2>8, <2>9, <2>10, <2>11, CachesStay, StepKeeps1
<1> QED
  BY <1>6, <1>7

\* A step by which no request becomes complete.
Quiet(c) ==
  UNCHANGED call \/ \E r : call' = [call EXCEPT ![c] = r] /\ r.at # "complete"

LEMMA QuietTrust ==
  ASSUME FlowInv, NEW c \in Subjects, Quiet(c)
  PROVE  TrustStep
<1>1. CASE UNCHANGED call
  BY <1>1 DEF TrustStep
<1>2. CASE \E r : call' = [call EXCEPT ![c] = r] /\ r.at # "complete"
  BY <1>2, TrustOf
<1> QED
  BY <1>1, <1>2 DEF Quiet

LEMMA ReplyQuiet ==
  ASSUME NEW c, SignIns!Ends(c) PROVE Quiet(c)
<1>1. call' = [call EXCEPT ![c] = SignIns!Idle] /\ SignIns!Idle.at # "complete"
  BY DEF SignIns!Ends, SignIns!Idle
<1> QED
  BY <1>1 DEF Quiet

LEMMA GoneQuiet ==
  ASSUME NEW c, call[c] \in SignInCall, NEW at, NEW key, NEW forced, at # "complete",
         SignIns!GoesWith(c, at, key, forced)
  PROVE  Quiet(c)
<1> DEFINE r == [call[c] EXCEPT !.at = at, !.key = key, !.forced = forced, !.next = "none",
                                !.sent = 0, !.since = 0]
<1>1. call' = [call EXCEPT ![c] = r]
  BY DEF SignIns!GoesWith
<1>2. r.at = at
  BY DEF SignInCall
<1> HIDE DEF r
<1> QED
  BY <1>1, <1>2 DEF Quiet

LEMMA SentQuiet ==
  ASSUME NEW c, call[c] \in SignInCall, NEW at, at # "complete", SignIns!Sends(c, at)
  PROVE  Quiet(c)
<1> DEFINE r == [call[c] EXCEPT !.at = at, !.sent = moment,
        !.since = signing[call[c].provider]]
<1>1. CASE SignIns!MayAcquire(call[c].provider)
  <2>1. call' = [call EXCEPT ![c] = r]
    BY <1>1 DEF SignIns!Sends
  <2>2. r.at = at
    BY DEF SignInCall
  <2> HIDE DEF r
  <2> QED
    BY <2>1, <2>2 DEF Quiet
<1>2. CASE ~SignIns!MayAcquire(call[c].provider)
  BY <1>2, ReplyQuiet DEF SignIns!Sends, SignIns!Replies
<1> QED
  BY <1>1, <1>2

LEMMA DiscoverQuiet ==
  ASSUME FlowInv, NEW c \in Subjects, SignIns!Discover(c)
  PROVE  Quiet(c)
<1> DEFINE r == [call[c] EXCEPT !.at = "discovering", !.next = SignIns!After[call[c].at],
        !.sent = moment]
<1>1. call[c].at \in {"begun", "claimed", "exchanged", "keyless"}
  BY AfterValues DEF SignIns!Discover
<1>2. call[c] \in SignInCall
  <2>1. call[c] \in {SignIns!Idle} \cup SignInCall
    BY DEF FlowInv, FlowTypes
  <2> QED
    BY <1>1, <2>1, NotIdle
<1>3. CASE SignIns!MayAcquire(call[c].provider)
  <2>1. call' = [call EXCEPT ![c] = r]
    BY <1>3 DEF SignIns!Discover
  <2>2. r.at = "discovering"
    BY <1>2 DEF SignInCall
  <2> HIDE DEF r
  <2> QED
    BY <2>1, <2>2 DEF Quiet
<1>4. CASE ~SignIns!MayAcquire(call[c].provider)
  BY <1>4, ReplyQuiet DEF SignIns!Discover, SignIns!Replies
<1> QED
  BY <1>3, <1>4

LEMMA OthersQuiet ==
  ASSUME FlowInv, NEW c \in Subjects
  PROVE  /\ \A b, p : SignIns!Begin(c, b, p) => Quiet(c)
         /\ \A b, p, f, g : SignIns!Callback(c, b, p, f, g) => Quiet(c)
         /\ SignIns!DiscoveryArrives(c) => Quiet(c)
         /\ SignIns!RequestFails(c) => Quiet(c)
         /\ SignIns!Create(c) => Quiet(c)
         /\ SignIns!Claim(c) => Quiet(c)
         /\ SignIns!PostCode(c) => Quiet(c)
         /\ SignIns!TokenArrives(c) => Quiet(c)
         /\ SignIns!FetchKeys(c) => Quiet(c)
         /\ SignIns!Complete(c) => Quiet(c)
<1>1. \A b, p, f, g : SignIns!Request(b, p, f, g).at # "complete"
  BY DEF SignIns!Request
<1>2. ASSUME NEW b, NEW p, SignIns!Begin(c, b, p) PROVE Quiet(c)
  BY <1>1, <1>2 DEF SignIns!Begin, Quiet
<1>3. ASSUME NEW b, NEW p, NEW f, NEW g, SignIns!Callback(c, b, p, f, g) PROVE Quiet(c)
  BY <1>1, <1>3 DEF SignIns!Callback, Quiet
<1>4. ASSUME SignIns!DiscoveryArrives(c) PROVE Quiet(c)
  <2>1. call[c] \in SignInCall /\ call[c].at = "discovering"
    BY <1>4, SentCall DEF SignIns!DiscoveryArrives, SignIns!InFlight
  <2>2. call[c].next # "complete"
    BY <2>1 DEF SignInCall
  <2>3. SignIns!GoesWith(c, call[c].next, call[c].key, call[c].forced)
    BY <1>4 DEF SignIns!DiscoveryArrives, SignIns!Goes
  <2> QED
    BY <2>1, <2>2, <2>3, GoneQuiet
<1>5. ASSUME SignIns!RequestFails(c) PROVE Quiet(c)
  BY <1>5, ReplyQuiet DEF SignIns!RequestFails, SignIns!Replies
<1>6. ASSUME SignIns!Create(c) PROVE Quiet(c)
  BY <1>6, ReplyQuiet DEF SignIns!Create
<1>7. ASSUME SignIns!Claim(c) PROVE Quiet(c)
  <2>1. call[c] \in SignInCall
    <3>1. call[c] \in {SignIns!Idle} \cup SignInCall /\ call[c].at = "claim"
      BY <1>7 DEF FlowInv, FlowTypes, SignIns!Claim
    <3> QED
      BY <3>1, NotIdle
  <2>2. CASE SignIns!Claimable(c)
    <3>1. SignIns!GoesWith(c, "claimed", call[c].key, call[c].forced)
      BY <1>7, <2>2 DEF SignIns!Claim, SignIns!Goes
    <3> QED
      BY <2>1, <3>1, GoneQuiet
  <2>3. CASE ~SignIns!Claimable(c)
    BY <1>7, <2>3, ReplyQuiet DEF SignIns!Claim, SignIns!Replies
  <2> QED
    BY <2>2, <2>3
<1>8. ASSUME SignIns!PostCode(c) PROVE Quiet(c)
  <2>1. call[c] \in SignInCall
    BY <1>8, DiscoveredAt DEF SignIns!PostCode
  <2> QED
    BY <1>8, <2>1, SentQuiet DEF SignIns!PostCode
<1>9. ASSUME SignIns!TokenArrives(c) PROVE Quiet(c)
  <2>1. call[c] \in SignInCall
    BY <1>9, SentCall DEF SignIns!TokenArrives, SignIns!InFlight
  <2> DEFINE no == FALSE
  <2>2. \E k : SignIns!GoesWith(c, "exchanged", k, no)
    BY <1>9 DEF SignIns!TokenArrives
  <2> HIDE DEF no
  <2> QED
    BY <2>1, <2>2, GoneQuiet
<1>10. ASSUME SignIns!FetchKeys(c) PROVE Quiet(c)
  <2>1. call[c] \in SignInCall
    BY <1>10, DiscoveredAt DEF SignIns!FetchKeys
  <2> QED
    BY <1>10, <2>1, SentQuiet DEF SignIns!FetchKeys
<1>11. ASSUME SignIns!Complete(c) PROVE Quiet(c)
  BY <1>11, ReplyQuiet DEF SignIns!Complete, SignIns!Replies
<1> QED
  BY <1>2, <1>3, <1>4, <1>5, <1>6, <1>7, <1>8, <1>9, <1>10, <1>11

LEMMA FlowStep ==
  ASSUME FlowBounds, FlowInv, SignIns!Next
  PROVE  FlowInv' /\ TrustStep
<1>1. ASSUME NEW c \in Subjects, NEW b \in Bindings, NEW p \in Providers,
                 SignIns!Begin(c, b, p)
      PROVE  FlowInv' /\ TrustStep
  BY <1>1, BeginKeeps, OthersQuiet, QuietTrust
<1>2. ASSUME NEW c \in Subjects, NEW b \in Bindings, NEW p \in Providers,
                 NEW f \in FlowStates,
             NEW g \in FlowStates, SignIns!Callback(c, b, p, f, g)
      PROVE  FlowInv' /\ TrustStep
  BY <1>2, CallbackKeeps, OthersQuiet, QuietTrust
<1>3. ASSUME NEW c \in Subjects, SignIns!Discover(c) PROVE FlowInv' /\ TrustStep
  BY <1>3, DiscoverKeeps, DiscoverQuiet, QuietTrust
<1>4. ASSUME NEW c \in Subjects, SignIns!DiscoveryArrives(c) PROVE FlowInv' /\ TrustStep
  BY <1>4, DiscoveryArrivesKeeps, OthersQuiet, QuietTrust
<1>5. ASSUME NEW c \in Subjects, SignIns!RequestFails(c) PROVE FlowInv' /\ TrustStep
  BY <1>5, RequestFailsKeeps, OthersQuiet, QuietTrust
<1>6. ASSUME NEW c \in Subjects, SignIns!Create(c) PROVE FlowInv' /\ TrustStep
  BY <1>6, CreateKeeps, OthersQuiet, QuietTrust
<1>7. ASSUME NEW c \in Subjects, SignIns!Claim(c) PROVE FlowInv' /\ TrustStep
  BY <1>7, ClaimKeeps, OthersQuiet, QuietTrust
<1>8. ASSUME NEW c \in Subjects, SignIns!PostCode(c) PROVE FlowInv' /\ TrustStep
  BY <1>8, PostCodeKeeps, OthersQuiet, QuietTrust
<1>9. ASSUME NEW c \in Subjects, SignIns!TokenArrives(c) PROVE FlowInv' /\ TrustStep
  BY <1>9, TokenArrivesKeeps, OthersQuiet, QuietTrust
<1>10. ASSUME NEW c \in Subjects, SignIns!Verify(c) PROVE FlowInv' /\ TrustStep
  BY <1>10, VerifyKeeps
<1>11. ASSUME NEW c \in Subjects, SignIns!FetchKeys(c) PROVE FlowInv' /\ TrustStep
  BY <1>11, FetchKeysKeeps, OthersQuiet, QuietTrust
<1>12. ASSUME NEW c \in Subjects, SignIns!KeysArrive(c) PROVE FlowInv' /\ TrustStep
  BY <1>12, KeysArriveKeeps
<1>13. ASSUME NEW c \in Subjects, SignIns!Complete(c) PROVE FlowInv' /\ TrustStep
  BY <1>13, CompleteKeeps, OthersQuiet, QuietTrust
<1>14. ASSUME NEW p \in Providers, SignIns!RotateKey(p) PROVE FlowInv' /\ TrustStep
  BY <1>14, RotateKeyKeeps DEF SignIns!RotateKey, TrustStep
<1>15. ASSUME SignIns!Tick PROVE FlowInv' /\ TrustStep
  BY <1>15, ClockKeeps DEF SignIns!Tick, TrustStep
<1>16. ASSUME SignIns!Restart PROVE FlowInv' /\ TrustStep
  <2>1. \A c \in Subjects : call'[c].at = "idle"
    BY <1>16 DEF SignIns!Restart, SignIns!Idle
  <2> QED
    BY <1>16, <2>1, RestartKeeps DEF TrustStep
<1> QED
  BY <1>1, <1>2, <1>3, <1>4, <1>5, <1>6, <1>7, <1>8, <1>9, <1>10, <1>11, <1>12, <1>13, <1>14,
     <1>15, <1>16 DEF SignIns!Next, SignIns!SignsIn

\* What is proved of sign-ins, without the other parts.
FlowSafety == SignIns!Init /\ [][SignIns!Next]_(SignIns!oidcVars)

\* The strengthening holds of sign-ins for any numbers of calls, browsers, providers and
\* flows, any limits and lifetimes and any failures (identity/oidcFlow.ts,
\* identity/oidcTrust.ts).
THEOREM SignInsInductive == FlowBounds /\ FlowSafety => []FlowInv
<1> SUFFICES ASSUME FlowBounds PROVE FlowSafety => []FlowInv
  OBVIOUS
<1>1. SignIns!Init => FlowInv
  BY FlowInit
<1>2. FlowInv /\ [SignIns!Next]_(SignIns!oidcVars) => FlowInv'
  BY FlowStep, FlowStutter
<1> QED
  BY <1>1, <1>2, PTL DEF FlowSafety

\* A flow is used once, by the browser that began it; table and limiter keep their limits
\* and count what is under way; and a token is accepted only by a key that its provider
\* published recently enough (oidcFlow.ts claim, complete, insert; oidcTrust.ts jwks;
\* inflightLimiter.ts).
THEOREM SignInsStayKept == FlowBounds /\ FlowSafety
    => []SignIns!FlowsUsedOnce /\ SignIns!TrustEnds
<1> SUFFICES ASSUME FlowBounds PROVE FlowSafety
                        => []SignIns!FlowsUsedOnce /\ SignIns!TrustEnds
  OBVIOUS
<1>1. FlowInv => SignIns!FlowsUsedOnce
  BY FlowSafe
<1>2. FlowInv /\ [SignIns!Next]_(SignIns!oidcVars) => [TrustStep]_(SignIns!oidcVars)
  BY FlowStep
<1>3. FlowSafety => [][SignIns!Next]_(SignIns!oidcVars)
  BY PTL DEF FlowSafety
<1>4. FlowSafety => [][TrustStep]_(SignIns!oidcVars)
  BY <1>2, <1>3, SignInsInductive, PTL
<1>5. [TrustStep]_(SignIns!oidcVars) <=>
      [\A c \in Subjects :
         call'[c].at = "complete" /\ call[c].at # "complete" =>
           moment < withdrawn[call[c].provider][call[c].key] + CacheTtl + Timeout
           \/ signing[call[c].provider] = call[c].key]_(SignIns!oidcVars)
  BY DEF TrustStep
<1> QED
  BY <1>1, <1>4, <1>5, SignInsInductive, PTL DEF SignIns!TrustEnds

-----------------------------------------------------------------------------
(* The run: a behaviour of MCGatewayMemory is one of each part, since a    *)
(* step belongs to the part in focus and leaves the others alone.          *)

LEMMA MemoryParts == MemorySpec => Spec /\ ScanSafety /\ FlowSafety
<1>1. MemoryInit => Init /\ Scanning!Init /\ SignIns!Init
  BY DEF MemoryInit
<1>2. [MemoryNext]_memoryVars => [Next]_vars /\ [Scanning!Next]_(Scanning!poolVars)
  BY DEF MemoryNext, memoryVars, scanVars, vars, Scanning!poolVars
<1>3. [MemoryNext]_memoryVars => [SignIns!Next]_(SignIns!oidcVars)
  <2>1. ASSUME SignIns!SignsIn({SoleProvider}) PROVE SignIns!SignsIn(Providers)
    BY <2>1, SignInParameters DEF SignIns!SignsIn
  <2>2. UNCHANGED flowVars => UNCHANGED SignIns!oidcVars
    BY DEF flowVars, SignIns!oidcVars
  <2>3. UNCHANGED memoryVars => UNCHANGED flowVars
    BY DEF memoryVars
  <2> QED
    BY <2>1, <2>2, <2>3 DEF MemoryNext, SignIns!Next
<1> QED
  BY <1>1, <1>2, <1>3, PTL DEF MemorySpec, Spec, ScanSafety, FlowSafety

\* The table of opaque references keeps its limits and forgets nothing that is live
\* (tokenBroker.ts).
THEOREM MemoryTableKept == MemorySpec => TableKept
BY MemoryParts, TableStaysKept, PTL

\* Limiter and pool stay exact (serviceRequestLimiter.ts, secretScannerPool.ts).
THEOREM MemoryCapacityKept == MemorySpec => []CapacityKept
<1>1. ScanBounds
  BY ScanParameters DEF ScanBounds
<1>2. Scanning!CapacityKept => CapacityKept
  BY DEF CapacityKept
<1> QED
  BY <1>1, <1>2, MemoryParts, PoolStaysKept, PTL

\* Flows are used once and a withdrawn key is trusted no longer than the caches reach
\* (oidcFlow.ts, oidcTrust.ts, inflightLimiter.ts).
THEOREM MemoryFlowsKept == MemorySpec => FlowsKept
<1>1. FlowBounds
  BY SignInParameters DEF FlowBounds
<1>2. SignIns!FlowsUsedOnce => (focus \in {"flows", "providers"} => SignIns!FlowsUsedOnce)
  OBVIOUS
<1> QED
  BY <1>1, <1>2, MemoryParts, SignInsStayKept, PTL DEF FlowsKept
=============================================================================
