--------------------------- MODULE VaultTransfers ---------------------------
(***************************************************************************)
(* The vault's authenticated request path and its archive transfers: the   *)
(* backup client (vault/client.ts) drives an export or an import as a      *)
(* series of signed requests, the broker (vault/broker.ts) authenticates   *)
(* each against the boot, the clock and a replay cache and limits the work *)
(* in progress, and the domain handler (vault/domain.ts) keeps a bounded   *)
(* table of transfers that expire, advance by an exact sequence number and *)
(* disappear with the process.  Requests may be delivered late, twice or   *)
(* never answered, and the vault may restart at any moment.                *)
(***************************************************************************)
EXTENDS Integers, Sequences, FiniteSets, Functions

CONSTANTS Exports, Imports,   \* client calls of exportArchive and importArchive
          Chunks,             \* chunks an archive is cut into
          Skew,               \* VAULT_HTTP_MAX_SKEW_MS
          CapabilityTTL,      \* BACKUP_TTL_MS
          TransferTTL,        \* TRANSFER_TTL_MS
          MaxTransfers,       \* MAX_TRANSFERS
          MaxActive,          \* MAX_ACTIVE_WORK
          ReplayCapacity,     \* capacity of the replay cache
          MaxClock,           \* bound on the clock
          MaxEvents           \* bound on copies, timeouts, restarts and changes

Calls == Exports \cup Imports
None == "none"

VARIABLES
  clock,
  boot,        \* the broker's boot id
  clientBoot,  \* the boot id the client learnt from its last readiness
  call,        \* per call: state, request awaited, capability, chunks received
  wire,        \* requests sent and not yet delivered, originals and copies
  replay,      \* the broker's replay cache: request keys with their expiry
  spent,       \* the capability authority's replay cache
  transfers,   \* the domain's transfer table
  jobs,        \* requests in progress across an await (key derivation)
  content,     \* what the record store holds
  runs,        \* per request: how often the domain handler ran it
  applied,     \* imports that replaced the store
  events       \* copies, timeouts, restarts and control changes so far

transferVars == <<clock, boot, clientBoot, call, wire, replay, spent,
                  transfers, jobs, content, runs, applied, events>>

Init ==
  /\ clock = 0 /\ boot = 1 /\ clientBoot = 1
  /\ call = [c \in Calls |-> [pc |-> "idle", act |-> "start", seq |-> 0,
                              got |-> <<>>]]
  /\ wire = {} /\ replay = {} /\ spent = {} /\ jobs = {}
  /\ transfers = [c \in {} |-> None]
  /\ content = <<"control", 0>>
  /\ runs = [r \in {} |-> 0]
  /\ applied = <<>> /\ events = 0

\* One more of the bounded events.
Happens == events < MaxEvents /\ events' = events + 1

-----------------------------------------------------------------------------
(* The client: one signed request at a time, never repeated.               *)

\* The request a call sends next, signed now under the boot it knows.
request(c, act, seq) ==
  [key |-> <<c, act, seq>>, ts |-> clock, boot |-> clientBoot,
   original |-> TRUE]

Sends(c, act, seq) ==
  /\ wire' = wire \cup {request(c, act, seq)}
  /\ UNCHANGED <<clock, boot, clientBoot, replay, spent, transfers, jobs,
                 content, runs, applied, events>>

\* A backup capability for what the store holds now, under the boot known.
issueBackup ==
  [boot |-> clientBoot, expires |-> clock + CapabilityTTL,
   selection |-> content]

\* exportArchive and importArchive start with a capability.
StartCall(c) ==
  /\ call[c].pc = "idle"
  /\ call' = [call EXCEPT ![c] =
       [pc |-> "await", act |-> "start", seq |-> 0, got |-> <<>>,
        cap |-> issueBackup]]
  /\ Sends(c, "start", 0)

\* The action and sequence number that follow an accepted answer.
Following(c) ==
  CASE c \in Exports -> <<"read", Len(call[c].got)>>
    [] c \in Imports /\ call[c].act = "start" -> <<"write", 0>>
    [] OTHER -> IF call[c].seq + 1 < Chunks
                THEN <<"write", call[c].seq + 1>>
                ELSE <<"finish", Chunks>>

ContinueCall(c) ==
  /\ call[c].pc = "answered"
  /\ call' = [call EXCEPT ![c].pc = "await",
                          ![c].act = Following(c)[1],
                          ![c].seq = Following(c)[2]]
  /\ Sends(c, Following(c)[1], Following(c)[2])

\* The exchange times out; the request may still be delivered.
TimeOut(c) ==
  /\ call[c].pc = "await"
  /\ Happens
  /\ call' = [call EXCEPT ![c].pc = "failed"]
  /\ UNCHANGED <<clock, boot, clientBoot, wire, replay, spent, transfers,
                 jobs, content, runs, applied>>

\* A readiness request is not bound to a boot: it teaches the client one.
Readiness ==
  /\ clientBoot # boot
  /\ clientBoot' = boot
  /\ UNCHANGED <<clock, boot, call, wire, replay, spent, transfers, jobs,
                 content, runs, applied, events>>

\* The answer, with the chunk it carries or none, reaches the call that still
\* awaits it.
Answered(c, key, original, ok, chunk, last) ==
  IF ~original \/ call[c].pc # "await"
       \/ key # <<c, call[c].act, call[c].seq>>
  THEN call
  ELSE [call EXCEPT
          ![c].pc = IF ~ok THEN "failed" ELSE IF last THEN "done" ELSE "answered",
          ![c].got = IF ok THEN @ \o chunk ELSE @]

-----------------------------------------------------------------------------
(* The broker: verifyVaultHttpRequest, the boot id and the replay cache.   *)

Live(cache) == {e \in cache : e.expires > clock}

verifyVaultHttpRequest(r) ==
  /\ clock - r.ts \in -Skew .. Skew
  /\ r.boot = boot

\* A variant of ReplayExpiry: the entry ends with the window itself.
ReplayExpiryAtWindow(r) == r.ts + Skew

\* The entry outlives the last moment at which the request is accepted.
ReplayExpiry(r) == r.ts + Skew + 1

consumes(cache, key) ==
  /\ \A e \in Live(cache) : e.key # key
  /\ Cardinality(Live(cache)) < ReplayCapacity

Ran(key) ==
  [k \in DOMAIN runs \cup {key} |->
     (IF k \in DOMAIN runs THEN runs[k] ELSE 0) + (IF k = key THEN 1 ELSE 0)]

-----------------------------------------------------------------------------
(* The domain handler.                                                     *)

pruneTransfers == Restrict(transfers,
  {c \in DOMAIN transfers : transfers[c].expires > clock})

With(table, c, t) ==
  [x \in DOMAIN table \cup {c} |-> IF x = c THEN t ELSE table[x]]
Without(table, c) == Restrict(table, DOMAIN table \ {c})

\* consumeBackup: unexpired and not spent before; then the boot is compared.
CapabilityUsable(c) ==
  /\ call[c].cap.expires > clock
  /\ consumes(spent, c)
  /\ call[c].cap.boot = boot

SpentAfter(c) ==
  IF call[c].cap.expires > clock /\ consumes(spent, c)
  THEN Live(spent) \cup {[key |-> c, expires |-> call[c].cap.expires]}
  ELSE spent

\* The effect of a handled request as a record of the parts it changes:
\* refused here, and for the others what differs.
Refused(c) == [transfers |-> pruneTransfers, spent |-> spent, job |-> {},
               ok |-> FALSE, chunk |-> <<>>, last |-> FALSE]

\* #export and #import start.
HandleStart(c) ==
  IF Cardinality(DOMAIN pruneTransfers) >= MaxTransfers THEN Refused(c)
  ELSE IF ~CapabilityUsable(c) THEN [Refused(c) EXCEPT !.spent = SpentAfter(c)]
  ELSE IF c \in Exports
  THEN [Refused(c) EXCEPT !.spent = SpentAfter(c), !.job = {c}]
  ELSE [Refused(c) EXCEPT
          !.spent = SpentAfter(c), !.ok = TRUE,
          !.transfers = With(pruneTransfers, c,
             [seq |-> 0, chunks |-> <<>>, expires |-> clock + TransferTTL])]

\* #requireTransfer, then the exact sequence number.
requireTransfer(c, seq) ==
  /\ c \in DOMAIN pruneTransfers
  /\ transfers[c].seq = seq

\* #export read: the next chunk of the archive made at the start.
HandleRead(c, seq) ==
  IF ~requireTransfer(c, seq) THEN Refused(c)
  ELSE LET t == transfers[c]
           done == t.seq + 1 = Chunks
       IN [Refused(c) EXCEPT
             !.ok = TRUE, !.last = done,
             !.chunk = <<<<t.archive, t.seq>>>>,
             !.transfers =
                IF done THEN Without(pruneTransfers, c)
                ELSE With(pruneTransfers, c,
                       [t EXCEPT !.seq = @ + 1,
                                 !.expires = clock + TransferTTL])]

\* #import write appends a chunk; finish forgets the transfer, then derives
\* the key and restores.
HandleWrite(c, seq) ==
  IF ~requireTransfer(c, seq) THEN Refused(c)
  ELSE [Refused(c) EXCEPT
          !.ok = TRUE,
          !.transfers = With(pruneTransfers, c,
             [transfers[c] EXCEPT !.seq = @ + 1,
                                  !.chunks = Append(@, seq),
                                  !.expires = clock + TransferTTL])]

HandleFinish(c, seq) ==
  IF ~requireTransfer(c, seq) THEN Refused(c)
  ELSE [Refused(c) EXCEPT !.transfers = Without(pruneTransfers, c),
                          !.job = {c}]

handle(c, act, seq) ==
  CASE act = "start" -> HandleStart(c)
    [] act = "read" -> HandleRead(c, seq)
    [] act = "write" -> HandleWrite(c, seq)
    [] act = "finish" -> HandleFinish(c, seq)

\* A delivered request: authenticated, dispatched within MaxActive, handled.
Deliver(r) ==
  LET c == r.key[1]
      answers(ok, chunk, last) ==
        call' = Answered(c, r.key, r.original, ok, chunk, last)
  IN
  /\ r \in wire
  /\ wire' = wire \ {r}
  /\ UNCHANGED <<clock, boot, clientBoot, content, applied, events>>
  /\ IF ~(verifyVaultHttpRequest(r) /\ consumes(replay, r.key))
     THEN /\ answers(FALSE, <<>>, FALSE)
          /\ UNCHANGED <<replay, spent, transfers, jobs, runs>>
     ELSE /\ replay' = Live(replay) \cup
                         {[key |-> r.key, expires |-> ReplayExpiry(r)]}
          /\ IF Cardinality(jobs) >= MaxActive
             THEN /\ answers(FALSE, <<>>, FALSE)
                  /\ UNCHANGED <<spent, transfers, jobs, runs>>
             ELSE LET h == handle(c, r.key[2], r.key[3]) IN
                  /\ runs' = Ran(r.key)
                  /\ transfers' = h.transfers
                  /\ spent' = h.spent
                  /\ jobs' = jobs \cup
                       {[key |-> r.key, original |-> r.original,
                         chunks |-> IF r.key[2] = "finish"
                                    THEN transfers[c].chunks ELSE <<>>]
                        : x \in h.job}
                  /\ IF h.job = {} THEN answers(h.ok, h.chunk, h.last)
                     ELSE UNCHANGED call

\* forEachBackupRecord: every selected record has the selected generation.
SelectionHolds(c) == content = call[c].cap.selection

\* exportEncryptedVaultArchive after the key derivation: the archive is made
\* of the records the capability selected, or refused when one has changed.
ExportArchived(j) ==
  LET c == j.key[1]
      ok == SelectionHolds(c)
  IN
  /\ j \in jobs
  /\ c \in Exports
  /\ jobs' = jobs \ {j}
  /\ transfers' = IF ~ok THEN transfers
                  ELSE With(transfers, c,
                         [seq |-> 0, archive |-> content,
                          expires |-> clock + TransferTTL])
  /\ call' = Answered(c, j.key, j.original, ok, <<>>, FALSE)
  /\ UNCHANGED <<clock, boot, clientBoot, wire, replay, spent, content, runs,
                 applied, events>>

\* restoreEncryptedVaultArchive after the key derivation: an archive that is
\* not whole and in order fails its authentication, another replaces the store.
WholeArchive(chunks) == chunks = [i \in 1 .. Chunks |-> i - 1]

\* parseRecords: the records the archive of an import carries.
ParsedRecords(c) == <<"import", c>>

ImportRestored(j) ==
  LET c == j.key[1]
      ok == WholeArchive(j.chunks)
  IN
  /\ j \in jobs
  /\ c \in Imports
  /\ jobs' = jobs \ {j}
  /\ content' = IF ok THEN ParsedRecords(c) ELSE content
  /\ applied' = IF ok THEN Append(applied, c) ELSE applied
  /\ call' = Answered(c, j.key, j.original, ok, <<>>, TRUE)
  /\ UNCHANGED <<clock, boot, clientBoot, wire, replay, spent, transfers, runs, events>>

-----------------------------------------------------------------------------
(* The environment.                                                        *)

\* A request is delivered a second time, its answer to nobody.
Duplicate(r) ==
  /\ r.original
  /\ [r EXCEPT !.original = FALSE] \notin wire
  /\ Happens
  /\ wire' = wire \cup {[r EXCEPT !.original = FALSE]}
  /\ UNCHANGED <<clock, boot, clientBoot, call, replay, spent, transfers, jobs,
                 content, runs, applied>>

\* A control-plane create, replace or delete changes what the store holds.
ControlChange ==
  /\ Happens
  /\ content' = <<"control", events'>>
  /\ UNCHANGED <<clock, boot, clientBoot, call, wire, replay, spent, transfers,
                 jobs, runs, applied>>

Tick ==
  /\ clock < MaxClock
  /\ clock' = clock + 1
  /\ UNCHANGED <<boot, clientBoot, call, wire, replay, spent, transfers, jobs,
                 content, runs, applied, events>>

\* The vault process stops and another starts: a new boot id, empty caches
\* and no transfers.  Requests in progress fail.
Restart ==
  /\ Happens
  /\ boot' = boot + 1
  /\ replay' = {} /\ spent' = {} /\ jobs' = {}
  /\ transfers' = [c \in {} |-> None]
  /\ call' = [c \in Calls |->
       IF \E j \in jobs : j.key[1] = c /\ call[c].pc = "await"
       THEN [call[c] EXCEPT !.pc = "failed"] ELSE call[c]]
  /\ UNCHANGED <<clock, clientBoot, wire, content, runs, applied>>

Next ==
  \/ \E c \in Calls : StartCall(c) \/ ContinueCall(c) \/ TimeOut(c)
  \/ \E r \in wire : Deliver(r) \/ Duplicate(r)
  \/ \E j \in jobs : ExportArchived(j) \/ ImportRestored(j)
  \/ Readiness \/ ControlChange \/ Tick \/ Restart

Spec == Init /\ [][Next]_transferVars

-----------------------------------------------------------------------------
(* Properties.                                                             *)

TypeOK ==
  /\ clock \in 0 .. MaxClock /\ boot \in 1 .. MaxEvents + 1
  /\ DOMAIN transfers \subseteq Calls
  /\ \A c \in Calls : call[c].pc \in {"idle", "await", "answered", "done", "failed"}

\* However a request is repeated or delayed, and across restarts, the domain
\* handler runs it at most once; so an import replaces the store at most once
\* (#authenticate, BoundedReplayCache, the boot id).
RunsAtMostOnce ==
  /\ TypeOK
  /\ \A k \in DOMAIN runs : runs[k] <= 1
  /\ \A c \in Imports : Cardinality({i \in DOMAIN applied : applied[i] = c}) <= 1

\* An export that completes holds every chunk of one archive in order, made
\* of what its capability selected, whatever changed meanwhile; a completed
\* import was applied; and the table holds at most the transfers admitted
\* plus those whose key derivation was under way when it was full
\* (#export, #import, exportArchive).
TransfersWhole ==
  /\ \A c \in Exports : call[c].pc = "done" =>
       call[c].got = [i \in 1 .. Chunks |-> <<call[c].cap.selection, i - 1>>]
  /\ \A c \in Imports : call[c].pc = "done" => c \in Range(applied)
  /\ Cardinality(DOMAIN transfers) <= MaxTransfers + MaxActive - 1

\* A transfer runs once and is complete, or it is not reported as done.
TransfersOnceAndWhole == RunsAtMostOnce /\ TransfersWhole
=============================================================================
