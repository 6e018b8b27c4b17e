-------------------------------- MODULE ApiKeys --------------------------------
(***************************************************************************)
(* System-owned API keys (apiKeys.ts, apiKeyAuthority.ts) and the guard    *)
(* that recognises an active key inside a request or a credential          *)
(* (selfApiKeyProtection.ts).                                              *)
(*                                                                         *)
(* A request that carries a key reads the row, waits for Argon2 in a pool  *)
(* of bounded concurrency, reads the row again in the transaction that     *)
(* accepts it, and is checked a third time in the transaction of the       *)
(* operation it asks for.  An administrator's rotation waits for a hash    *)
(* between what it read and its transaction.  All of it interleaves with   *)
(* revocation, rotation, expiry and changes of accounts.                   *)
(*                                                                         *)
(* Left out: the activity and audit rows, written in the same transactions *)
(* and read by no decision, and pagination.                                *)
(* Bounds: MaxNow ticks of the clock, the requests in Clients, one         *)
(* operation at a time for each user, and MaxWork for the operations, the  *)
(* requests and the changes of accounts together.                          *)
(***************************************************************************)
EXTENDS Naturals, FiniteSets

CONSTANTS KeyIds,          \* 1..n, used in this order
          Clients,         \* requests and their principals, 1..n, in the order of their arrival
          KeyServices,
          Managers,        \* users that manage keys; "root" is a superadmin
          PoolSize,        \* ApiKeyVerifierPool.maximumConcurrent
          PerWindow,       \* SelfApiKeyVerificationLimiter.maximumPerWindow
          Window,          \* windowMs
          MaxEntries,      \* maximumEntries
          MaxNow, MaxWork

VARIABLES key,      \* api_keys
          clock,
          user,     \* users: whether the account still is what its session says
          desk,     \* what a manager read before the operation it is making
          client,   \* requests that present a key
          pool,     \* active verifications of each ApiKeyVerifierPool
          limiter,  \* entries of the SelfApiKeyVerificationLimiter
          granted,  \* verifications the limiter granted, for LimiterExact
          work      \* operations, requests and account changes so far (bound)

apiVars == <<key, clock, user, desk, client, pool, limiter, granted, work>>

Forever == MaxNow + 9
Kinds == {"authenticate", "inspect"}
Nicknames == {1, 2}

NoKey == [status |-> "none", scope |-> "none", expires |-> 0, version |-> 0, nick |-> 0,
          root |-> 0, bound |-> 0]
NoOrder == [op |-> "none"]
NoClient == [stage |-> "idle"]
Working == work < MaxWork /\ work' = work + 1

NoEntry == [start |-> 0, count |-> 0]

\* The scope of a key: a service, or one of the two roles without a service.
Scopes == KeyServices \cup {"all_services", "system"}

Unused(k) == key[k].status = "none" /\ \A m \in KeyIds : m < k => key[m].status # "none"

Expired(k) == key[k].expires <= clock
Live(k) == key[k].status = "active" /\ ~Expired(k)

-----------------------------------------------------------------------------
(***************************************************************************)
(* Management from a browser session.                                      *)
(***************************************************************************)
\* requireBrowserCreator and metadataVisible: the session's role must still be
\* the account's, and an administrator has only keys of services of its own.
MayManage(u, scope) ==
  /\ user[u] # "changed"
  /\ u # "root" => scope \in KeyServices /\ user[u] = "admin"

\* An order is what the client sent: the operation with the version it read.
Order(u, op, k, version) ==
  /\ desk[u] = NoOrder /\ Working
  /\ desk' = [desk EXCEPT ![u] = [op |-> op, key |-> k, version |-> version]]
  /\ UNCHANGED <<key, clock, user, client, pool, limiter, granted>>

OrderCreate(u) == Order(u, "create", 0, 0)

OrderChange(u) ==
  \E k \in KeyIds, op \in {"update", "revoke", "rotate"} :
    key[k].status # "none" /\ Order(u, op, k, key[k].version)

\* The transaction of an order, or its refusal, ends it.
Settles(u, rows) ==
  /\ desk' = [desk EXCEPT ![u] = NoOrder]
  /\ key' = rows
  /\ UNCHANGED <<clock, user, client, pool, limiter, granted, work>>

create(u) ==
  /\ desk[u].op = "create"
  /\ \E k \in KeyIds, scope \in Scopes, expires \in {MaxNow + 1, Forever} :
       /\ Unused(k)
       /\ MayManage(u, scope)
       /\ Settles(u, [key EXCEPT ![k] = [status |-> "active", scope |-> scope, expires |-> expires,
            version |-> 1, nick |-> 1, root |-> k, bound |-> expires]])

Current(u) == key[desk[u].key].version = desk[u].version

\* The expiration can only be brought forward, and only of a key that has one.
update(u) ==
  /\ desk[u].op = "update" /\ Current(u)
  /\ LET k == desk[u].key
     IN /\ MayManage(u, key[k].scope) /\ Live(k)
        /\ \/ \E nick \in Nicknames \ {key[k].nick} :
                Settles(u, [key EXCEPT ![k].nick = nick, ![k].version = @ + 1])
           \/ \E expires \in (clock + 1)..(key[k].expires - 1) :
                /\ key[k].expires # Forever
                /\ Settles(u, [key EXCEPT ![k].expires = expires, ![k].version = @ + 1])

\* A key already revoked is answered unchanged; an expired one can be revoked.
revoke(u) ==
  /\ desk[u].op = "revoke"
  /\ LET k == desk[u].key
     IN /\ MayManage(u, key[k].scope)
        /\ \/ key[k].status = "revoked" /\ Settles(u, key)
           \/ /\ key[k].status # "revoked" /\ Current(u)
              /\ Settles(u, [key EXCEPT ![k].status = "revoked", ![k].version = @ + 1])

RotationApplies(u, k) == Current(u) /\ Live(k)

\* The replacement has the scope and the expiration of the key it replaces.
rotate(u) ==
  /\ desk[u].op = "rotate"
  /\ LET k == desk[u].key
     IN /\ MayManage(u, key[k].scope) /\ RotationApplies(u, k)
        /\ \E new \in KeyIds :
             /\ Unused(new)
             /\ Settles(u, [key EXCEPT ![k].status = "revoked", ![k].version = @ + 1,
                  ![new] = [key[k] EXCEPT !.version = 1, !.status = "active", !.bound = key[k].expires]])

\* identity_not_found, identity_stale, identity_conflict, authentication_failed.
Refused(u) ==
  /\ desk[u].op # "none"
  /\ \/ desk[u].op = "create" /\ user[u] = "changed"
     \/ /\ desk[u].op # "create"
        /\ LET k == desk[u].key
           IN \/ ~MayManage(u, key[k].scope)
              \/ desk[u].op \in {"update", "rotate"} /\ ~(Current(u) /\ Live(k))
              \/ desk[u].op = "revoke" /\ key[k].status # "revoked" /\ ~Current(u)
  /\ Settles(u, key)

\* The account loses its role or is suspended, or a service its administrator.
AccountChanges(u) ==
  /\ user[u] # "changed" /\ Working
  /\ user' = [user EXCEPT ![u] = "changed"]
  /\ UNCHANGED <<key, clock, desk, client, pool, limiter, granted>>

Tick ==
  /\ clock < MaxNow /\ clock' = clock + 1
  /\ UNCHANGED <<key, user, desk, client, pool, limiter, granted, work>>

-----------------------------------------------------------------------------
(***************************************************************************)
(* SelfApiKeyVerificationLimiter: one entry for the principal and one for  *)
(* the source, each with a window of its own.                              *)
(***************************************************************************)
Over(entries, id) == clock - entries[id].start >= Window
Held(entries) == {id \in DOMAIN entries : entries[id].count > 0}

\* #increment drops the entry when its window is over, sweeps when there are
\* too many, and refuses when that does not help or the entry is used up.
Dropped(entries, id) ==
  IF entries[id].count > 0 /\ Over(entries, id) THEN [entries EXCEPT ![id] = NoEntry] ELSE entries

Swept(entries) ==
  [id \in DOMAIN entries |->
     IF entries[id].count > 0 /\ Over(entries, id) THEN NoEntry ELSE entries[id]]

Incremented(entries, id) ==
  LET mine == Dropped(entries, id)
      room == IF Cardinality(Held(mine)) >= MaxEntries THEN Swept(mine) ELSE mine
  IN IF mine[id].count > 0
     THEN IF mine[id].count >= PerWindow
          THEN [ok |-> FALSE, entries |-> mine]
          ELSE [ok |-> TRUE, entries |-> [mine EXCEPT ![id].count = @ + 1]]
     ELSE IF Cardinality(Held(room)) >= MaxEntries
          THEN [ok |-> FALSE, entries |-> room]
          ELSE [ok |-> TRUE, entries |-> [room EXCEPT ![id] = [start |-> clock, count |-> 1]]]

Decremented(entries, id) ==
  IF entries[id].count = 1 THEN [entries EXCEPT ![id] = NoEntry]
  ELSE [entries EXCEPT ![id].count = @ - 1]

Acquired(entries, principal, source) ==
  LET first == Incremented(entries, principal)
      second == Incremented(first.entries, source)
  IN IF ~first.ok THEN first
     ELSE IF second.ok THEN second
     ELSE [ok |-> FALSE, entries |-> Decremented(second.entries, principal)]

-----------------------------------------------------------------------------
(***************************************************************************)
(* Requests.  SystemApiKeyAuthenticator.authenticate for a bearer key, and *)
(* ActiveSelfApiKeyDetector.inspect for a key found inside a request; the  *)
(* two have a pool each.                                                   *)
(***************************************************************************)
Ended(stage) == [stage |-> stage]

Goes(c, request) ==
  /\ client' = [client EXCEPT ![c] = request]
  /\ UNCHANGED <<key, clock, user, desk, work>>

\* The requests come from one source, on behalf of a principal each.
Source == 0

Arrives(c) == client[c] = NoClient /\ \A d \in Clients : d < c => client[d] # NoClient

\* authenticationCandidate.  An identifier that no row has is verified against
\* the dummy hash; the secret that comes with the identifier may be wrong.
authenticationCandidate(c) ==
  /\ Arrives(c) /\ Working
  /\ \E kind \in Kinds, k \in KeyIds, right \in BOOLEAN :
       /\ client' = [client EXCEPT ![c] = [stage |-> "read", kind |-> kind, key |-> k,
                       known |-> key[k].status # "none",
                       right |-> right /\ key[k].status # "none"]]
       /\ IF kind = "authenticate" THEN UNCHANGED <<limiter, granted>>
          ELSE LET taken == Acquired(limiter, c, Source)
               IN /\ taken.ok
                  /\ limiter' = taken.entries
                  /\ granted' = granted \cup {[id |-> id, at |-> clock, by |-> c] : id \in {c, Source}}
  /\ UNCHANGED <<key, clock, user, desk, pool>>

\* inspect stops with rate_limited before the row is read.
LimiterRefuses(c) ==
  /\ Arrives(c) /\ Working
  /\ LET taken == Acquired(limiter, c, Source)
     IN ~taken.ok /\ limiter' = taken.entries
  /\ client' = [client EXCEPT ![c] = Ended("over")]
  /\ UNCHANGED <<key, clock, user, desk, pool, granted>>

CheckStarts(c) ==
  /\ client[c].stage = "read"
  /\ IF pool[client[c].kind] < PoolSize
     THEN /\ pool' = [pool EXCEPT ![client[c].kind] = @ + 1]
          /\ Goes(c, [client[c] EXCEPT !.stage = "checking"])
     ELSE UNCHANGED pool /\ Goes(c, Ended("over"))
  /\ UNCHANGED <<limiter, granted>>

Leaves(kind, threw) == [pool EXCEPT ![kind] = @ - 1]

\* A verification that throws answers false.
CheckEnds(c) ==
  /\ client[c].stage = "checking"
  /\ \E threw \in BOOLEAN :
       /\ pool' = Leaves(client[c].kind, threw)
       /\ Goes(c, IF client[c].known
                  THEN [client[c] EXCEPT !.stage = "verified", !.right = @ /\ ~threw]
                  ELSE Ended("over"))
  /\ UNCHANGED <<limiter, granted>>

\* A variant of Accepts: the row is believed as it was read before the wait.
AcceptsAsRead(c, k) == client[c].right

Accepts(c, k) == client[c].right /\ Live(k)

\* completeAuthentication: an active row past its expiration is marked expired.
completeAuthentication(c) ==
  /\ client[c].stage = "verified" /\ client[c].kind = "authenticate"
  /\ LET k == client[c].key
     IN /\ key' = IF key[k].status = "active" /\ Expired(k)
                  THEN [key EXCEPT ![k].status = "expired", ![k].version = @ + 1] ELSE key
        /\ client' = [client EXCEPT ![c] =
             IF Accepts(c, k)
             THEN [stage |-> "accepted", key |-> k, nick |-> key[k].nick, scope |-> key[k].scope]
             ELSE Ended("over")]
  /\ UNCHANGED <<clock, user, desk, pool, limiter, granted, work>>

\* activeVerifiedCandidate: a live key inside the request blocks it.
activeVerifiedCandidate(c) ==
  /\ client[c].stage = "verified" /\ client[c].kind = "inspect"
  /\ Goes(c, Ended(IF client[c].right /\ Live(client[c].key) THEN "blocked" ELSE "over"))
  /\ UNCHANGED <<pool, limiter, granted>>

currentApiKey(c) ==
  LET row == key[client[c].key]
  IN row.nick = client[c].nick /\ row.scope = client[c].scope /\ Live(client[c].key)

\* requireServiceApiKeyAuthority: the key of the service, or of all services.
requireServiceApiKeyAuthority(c, s) ==
  currentApiKey(c) /\ client[c].scope \in {"all_services", s}

\* An operation the key asks for, on a service or on the users and settings.
Act(c) ==
  /\ client[c].stage = "accepted"
  /\ \/ \E s \in KeyServices : requireServiceApiKeyAuthority(c, s)
     \/ client[c].scope = "system" /\ currentApiKey(c)
  /\ Goes(c, Ended("acted")) /\ UNCHANGED <<pool, limiter, granted>>

ActDenied(c) ==
  /\ client[c].stage = "accepted" /\ ~currentApiKey(c)
  /\ Goes(c, Ended("over")) /\ UNCHANGED <<pool, limiter, granted>>

-----------------------------------------------------------------------------
\* One key is there; the others are free.
Init ==
  /\ \E scope \in Scopes, expires \in {MaxNow + 1, Forever} :
       key = [[k \in KeyIds |-> NoKey] EXCEPT ![1] = [status |-> "active", scope |-> scope,
         expires |-> expires, version |-> 1, nick |-> 1, root |-> 1, bound |-> expires]]
  /\ clock = 0
  /\ user = [u \in Managers |-> IF u = "root" THEN "superadmin" ELSE "admin"]
  /\ desk = [u \in Managers |-> NoOrder]
  /\ client = [c \in Clients |-> NoClient]
  /\ pool = [kind \in Kinds |-> 0]
  /\ limiter = [id \in Clients \cup {Source} |-> NoEntry]
  /\ granted = {}
  /\ work = 0

Next ==
  \/ \E u \in Managers : OrderCreate(u) \/ OrderChange(u) \/ create(u) \/ update(u) \/ revoke(u)
                         \/ rotate(u) \/ Refused(u) \/ AccountChanges(u)
  \/ \E c \in Clients : authenticationCandidate(c) \/ LimiterRefuses(c) \/ CheckStarts(c)
                        \/ CheckEnds(c) \/ completeAuthentication(c) \/ activeVerifiedCandidate(c)
                        \/ Act(c) \/ ActDenied(c)
  \/ Tick

Spec == Init /\ [][Next]_apiVars

-----------------------------------------------------------------------------
TypeOK ==
  /\ \A k \in KeyIds : key[k].status \in {"none", "active", "expired", "revoked"}
                       /\ key[k].scope \in Scopes \cup {"none"}
  /\ clock \in 0..MaxNow
  /\ \A kind \in Kinds : pool[kind] \in 0..PoolSize

(***************************************************************************)
(* However rotations race (rotate waits for a hash between the version the *)
(* administrator read and its transaction), of the keys that descend from  *)
(* one creation at most one is active, none outlives the expiration that   *)
(* the first one was given, and all have its scope.  And the verifier pool *)
(* counts exactly the verifications under way, so that it can always be    *)
(* entered again.                                                          *)
(***************************************************************************)
LineageKept ==
  /\ TypeOK
  /\ \A k, m \in KeyIds :
       key[k].root # 0 /\ key[k].root = key[m].root =>
         /\ k # m => ~(key[k].status = "active" /\ key[m].status = "active")
         /\ key[k].scope = key[m].scope
         /\ key[k].expires <= key[key[k].root].bound
  /\ \A kind \in Kinds :
       pool[kind] = Cardinality({c \in Clients : client[c].stage = "checking" /\ client[c].kind = kind})

(***************************************************************************)
(* A key that was revoked, rotated or has expired while a request waited   *)
(* for the verifier or between its authentication and its operation is not *)
(* accepted and does nothing, and no key becomes active again or gets a    *)
(* later expiration.                                                       *)
(***************************************************************************)
RevocationIsFinal ==
  [][/\ \A c \in Clients :
          client'[c] # client[c] /\ client'[c].stage \in {"accepted", "acted", "blocked"}
            => Live(client[c].key)
     /\ \A k \in KeyIds : key[k].status # "none" =>
          /\ key[k].status # "active" => key'[k].status # "active"
          /\ key'[k].expires <= key[k].expires]_apiVars

(***************************************************************************)
(* A principal and a source are charged for exactly the verifications that *)
(* the limiter granted in their windows: one that is refused because the   *)
(* source is used up gives the principal its place back.                   *)
(***************************************************************************)
LimiterExact ==
  \A id \in DOMAIN limiter : limiter[id].count > 0 =>
    limiter[id].count = Cardinality({g \in granted : g.id = id /\ g.at >= limiter[id].start})

\* Lineage, verifier pool and limiter count exactly.
KeysAccounted == LineageKept /\ LimiterExact
=============================================================================
