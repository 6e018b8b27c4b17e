-------------------------- MODULE AuditProjection ---------------------------
(***************************************************************************)
(* Runtime audit events, their search index and the hourly activity        *)
(* derived from them.  A new event is stored, indexed and counted in one   *)
(* transaction; events stored before the aggregates existed are counted by *)
(* the aggregation job, which walks all events by sequence in batches and  *)
(* leaves alone what the ledger says was counted.  The retention job       *)
(* deletes old events, the aggregation job old buckets and ledger rows.    *)
(***************************************************************************)
EXTENDS Integers, Sequences, FiniteSets, FiniteSetsExt

CONSTANTS Legacy,        \* kinds of the events stored before the aggregates
          MaxEvents,     \* bound on events
          Hour,          \* ticks of an hour
          Retention,     \* ticks an aggregate is kept, RETENTION_MS
          Periods,       \* choices of the retention of events, 0 for null
          BatchLimit,    \* BATCH_LIMIT
          MaxTicks,      \* bound on time
          MaxUpdates     \* bound on changes of the retention

Kinds == {"service_request", "other"}

VARIABLES
  born,      \* every event ever stored, in the order of its sequence
  kept,      \* sequences in runtime_audit_events
  indexed,   \* sequences in runtime_audit_fts
  ledger,    \* sequences in activity_projected_events
  hourly,    \* request_count of activity_hourly, by bucket
  cursor,    \* cursor_sequence
  retention, \* audit_retention_settings
  ticks      \* the time

auditVars == <<born, kept, indexed, ledger, hourly, cursor, retention, ticks>>

Sequence == DOMAIN born
Bucket(t) == t \div Hour
Buckets == 0 .. Bucket(MaxTicks)

Init ==
  /\ born = [i \in DOMAIN Legacy |-> [kind |-> Legacy[i], at |-> 0]]
  /\ kept = DOMAIN Legacy
  /\ indexed = {} /\ ledger = {}
  /\ hourly = [b \in Buckets |-> 0]
  /\ cursor = 0 /\ ticks = 0
  /\ retention = [period |-> 0, version |-> 1]

-----------------------------------------------------------------------------
(* Storing an event.                                                       *)

\* projectHourlyActivity counts a request the ledger does not have.
Projects(n, events, seen) == events[n].kind = "service_request" /\ n \notin seen

\* projectRuntimeAuditEvent and appendRuntimeAudit.
appendRuntimeAudit(kind) ==
  LET n == Len(born) + 1
      events == Append(born, [kind |-> kind, at |-> ticks]) IN
  /\ n <= MaxEvents
  /\ born' = events
  /\ kept' = kept \cup {n}
  /\ indexed' = indexed \cup {n}
  /\ IF Projects(n, events, ledger)
     THEN /\ ledger' = ledger \cup {n}
          /\ hourly' = [hourly EXCEPT ![Bucket(ticks)] = @ + 1]
     ELSE UNCHANGED <<ledger, hourly>>
  /\ UNCHANGED <<cursor, retention, ticks>>

-----------------------------------------------------------------------------
(* The jobs, each one transaction.                                         *)

\* The first rows of a set, by sequence.
Batch(rows) == {n \in rows : Cardinality({m \in rows : m < n}) < BatchLimit}

Unprocessed == {n \in kept : n > cursor}

\* The expiry comparisons: buckets before the hour of the cutoff, events
\* before the cutoff itself.
Cutoff == Max({0, ticks - Retention})

\* A variant of ExpiredLedger: rows are removed as soon as they are old.
ExpiredLedgerByAge(counted) == {n \in counted : born[n].at <= ticks - Hour}

ExpiredLedger(counted) == {n \in counted : n \notin kept \/ born[n].at < Cutoff}

\* deleteExpiredBuckets.
ExpiredBuckets(sums) == Batch({b \in Buckets : sums[b] > 0 /\ b < Bucket(Cutoff)})

\* A variant of NextCursor: rows that are not counted do not move it.
NextCursorOfCounted(rows, new) == IF new = {} THEN cursor ELSE Max(new)

\* The cursor moves over every row read, counted or not.
NextCursor(rows, new) == IF rows = {} THEN cursor ELSE Max(rows)

\* ActivityAggregationService.run.
aggregate ==
  LET rows == Batch(Unprocessed)
      new == {n \in rows : Projects(n, born, ledger)}
      counted == ledger \cup new
      sums == [b \in Buckets |->
                 hourly[b] + Cardinality({n \in new : Bucket(born[n].at) = b})]
      old == ExpiredBuckets(sums) IN
  /\ cursor' = NextCursor(rows, new)
  /\ hourly' = [b \in Buckets |-> IF b \in old THEN 0 ELSE sums[b]]
  /\ ledger' = counted \ Batch(ExpiredLedger(counted))
  /\ UNCHANGED <<born, kept, indexed, retention, ticks>>

\* deleteExpired: by time, then by sequence, which agree here.
Expired ==
  IF retention.period = 0 THEN {}
  ELSE {n \in kept : born[n].at <= ticks - retention.period}

\* repairIndexes: the documents of stored events the index misses.
repairIndexes(stored) == Batch(stored \ indexed)

\* AuditRetentionService.run: deletion, then the repair of the index.
maintain ==
  LET gone == Batch(Expired)
      left == kept \ gone IN
  /\ kept' = left
  /\ indexed' = (indexed \ gone) \cup repairIndexes(left)
  /\ UNCHANGED <<born, ledger, hourly, cursor, retention, ticks>>

\* AuditRetentionService.update.
updateRetention ==
  \E p \in Periods :
    /\ p # retention.period
    /\ retention.version <= MaxUpdates
    /\ retention' = [period |-> p, version |-> retention.version + 1]
    /\ UNCHANGED <<born, kept, indexed, ledger, hourly, cursor, ticks>>

Tick ==
  /\ ticks < MaxTicks
  /\ ticks' = ticks + 1
  /\ UNCHANGED <<born, kept, indexed, ledger, hourly, cursor, retention>>

Next ==
  \/ \E kind \in Kinds : appendRuntimeAudit(kind)
  \/ aggregate \/ maintain \/ updateRetention \/ Tick

\* Both jobs run every hour.
Spec == Init /\ [][Next]_auditVars /\ WF_auditVars(aggregate) /\ WF_auditVars(maintain)

-----------------------------------------------------------------------------
(* Properties.                                                             *)

TypeOK ==
  /\ kept \subseteq Sequence /\ ledger \subseteq Sequence
  /\ cursor \in 0 .. MaxEvents /\ ticks \in 0 .. MaxTicks
  /\ \A b \in Buckets : hourly[b] \in Nat

RequestsIn(b) == {n \in Sequence : born[n].kind = "service_request"
                                 /\ Bucket(born[n].at) = b}
Old == DOMAIN Legacy

\* Every bucket inside the retention of the aggregates counts each request of
\* its hour once: the ones stored since the aggregates exist whatever happens
\* to their rows, the older ones as soon as the job has passed them, unless
\* the retention took them first.  The index names only events that are
\* stored, and misses only old ones (projectHourlyActivity, run,
\* deleteExpiredLedger, deleteExpired, repairIndexes).
ActivityCountedOnce ==
  /\ TypeOK
  /\ \A b \in Buckets : b * Hour >= Cutoff =>
       LET passed == {n \in Old : n <= cursor} IN
       /\ hourly[b] >= Cardinality(RequestsIn(b) \ (Old \ (passed \cap kept)))
       /\ hourly[b] <= Cardinality(RequestsIn(b) \ (Old \ passed))
  /\ indexed \subseteq kept
  /\ kept \ indexed \subseteq Old

\* The backlog of old events is worked off, however small the batches are:
\* in the end every stored event is indexed and has been passed by the
\* aggregation (run, repairIndexes).
BacklogDrains == <>[](indexed = kept /\ Unprocessed = {})
=============================================================================
