------------------------------ MODULE OidcFlow ------------------------------
(***************************************************************************)
(* Signing in through an external provider: the table of flows             *)
(* (identity/oidcFlow.ts), the client that discovers a provider, exchanges *)
(* a code and verifies the token (identity/oidcTrust.ts), and the two      *)
(* routes that begin a flow and take its callback                          *)
(* (control/identityRoutes.ts).                                            *)
(*                                                                         *)
(* A call is one request to a route.  It awaits transactions and the       *)
(* network, and other calls run meanwhile.  A flow is named by its state,  *)
(* which is also what the browser keeps in its cookie; a code names the    *)
(* flow whose authorization it came from, which stands for its PKCE        *)
(* challenge and nonce.  What the assertion is then used for is in         *)
(* Identity and OAuthGrants; envelopes are in RootRotation.                *)
(***************************************************************************)
EXTENDS Integers, SequencesExt

CONSTANTS
  Calls, Browsers, Providers,
  Flows,            \* states in the order they are drawn; a bound on begun flows
  FlowTtl, CacheTtl, Timeout,   \* CacheTtl is the longest that an answer may ask for
  MaxRecords, MaxInflight, MaxPerProvider, MaxCacheRecords,
  MaxKey,           \* bound on the signing keys of a provider
  MaxTime,          \* bound on the clock
  MaxRestarts       \* bound on restarts of the process

VARIABLES
  flow,        \* the rows of identity_oidc_flows, by state; "gone" once deleted
  cookie,      \* the state in each browser's cookie, or None
  call,        \* the requests under way
  discovery, jwks,  \* the client's two caches, least recently used first
  total, inflight,  \* InflightLimiter: how many requests there are, and to each provider
  signing,     \* the key each provider signs with and publishes (external)
  withdrawn,   \* history: when each provider stopped publishing a key
  posts,       \* history: how often a code was presented for a flow
  asserted,    \* history: who got an assertion for each flow, and by which code
  now, restarts

oidcVars == <<flow, cookie, call, discovery, jwks, total, inflight, signing, withdrawn,
              posts, asserted, now, restarts>>

None == 0
Idle == [at |-> "idle"]
Request(b, p, f, g) ==
  [at |-> IF f = None THEN "begun" ELSE "claim", browser |-> b, provider |-> p, flow |-> f,
   code |-> g, key |-> None, forced |-> FALSE, next |-> "none", sent |-> 0, since |-> 0]
Keys == 1..MaxKey
Absent == [status |-> "absent"]

Init ==
  /\ flow = [f \in Flows |-> Absent]
  /\ cookie = [b \in Browsers |-> None]
  /\ call = [c \in Calls |-> Idle]
  /\ discovery = <<>> /\ jwks = <<>>
  /\ total = 0 /\ inflight = [p \in Providers |-> 0]
  /\ signing = [p \in Providers |-> 1]
  /\ withdrawn = [p \in Providers |-> [k \in Keys |-> MaxTime]]
  /\ posts = [f \in Flows |-> 0]
  /\ asserted = [f \in Flows |-> <<>>]
  /\ now = 0 /\ restarts = 0

-----------------------------------------------------------------------------
(* The limiter and the caches.                                             *)

MayAcquire(p) == total < MaxInflight /\ inflight[p] < MaxPerProvider
Acquires(p) == total' = total + 1 /\ inflight' = [inflight EXCEPT ![p] = @ + 1]
Releases(p) == total' = total - 1 /\ inflight' = [inflight EXCEPT ![p] = @ - 1]

Has(cache, p) == \E i \in DOMAIN cache : cache[i].provider = p
Place(cache, p) == CHOOSE i \in DOMAIN cache : cache[i].provider = p
Entry(cache, p) == cache[Place(cache, p)]

Without(cache, p) == IF Has(cache, p) THEN RemoveAt(cache, Place(cache, p)) ELSE cache

Fresh(cache, p) == Has(cache, p) /\ Entry(cache, p).expires > now

\* What a look leaves behind: a fresh entry becomes the latest, an expired one goes.
Looked(cache, p) ==
  IF Fresh(cache, p) THEN Append(Without(cache, p), Entry(cache, p)) ELSE Without(cache, p)

\* A new entry pushes out the least recently used ones.
Stored(cache, p, value, ttl) ==
  LET rest == Without(cache, p)
      kept == SubSeq(rest, IF Len(rest) >= MaxCacheRecords
                           THEN Len(rest) - MaxCacheRecords + 2 ELSE 1, Len(rest))
  IN Append(kept, [provider |-> p, value |-> value, expires |-> now + ttl])

-----------------------------------------------------------------------------
(* Network requests.  A call that is "sent" holds a slot of the limiter.   *)

Ends(c) == call' = [call EXCEPT ![c] = Idle]
GoesWith(c, at, key, forced) ==
  call' = [call EXCEPT ![c] = [@ EXCEPT !.at = at, !.key = key, !.forced = forced,
                                        !.next = "none", !.sent = 0, !.since = 0]]
Goes(c, at) == GoesWith(c, at, call[c].key, call[c].forced)

\* The reply to a callback clears the browser's cookie, whatever it is by then.
Replies(c) ==
  /\ Ends(c)
  /\ cookie' = IF call[c].flow = None THEN cookie
               ELSE [cookie EXCEPT ![call[c].browser] = None]

InFlight(c) == call[c].at \in {"discovering", "posting", "fetching"}

\* jsonRequest up to the await: without a slot the call fails.
Sends(c, at) ==
  IF MayAcquire(call[c].provider)
  THEN /\ Acquires(call[c].provider)
       /\ call' = [call EXCEPT ![c] = [@ EXCEPT !.at = at, !.sent = now,
                                                !.since = signing[call[c].provider]]]
       /\ UNCHANGED cookie
  ELSE Replies(c) /\ UNCHANGED <<total, inflight>>

\* What a call does once it has the discovery document.
After ==
  [begun |-> "create", claimed |-> "exchange", exchanged |-> "verify", keyless |-> "fetch"]

\* discover without a cached document; with one the call goes on at once.
Discover(c) ==
  LET p == call[c].provider
  IN /\ call[c].at \in DOMAIN After /\ ~Fresh(discovery, p)
     /\ discovery' = Looked(discovery, p)
     /\ IF MayAcquire(p)
        THEN /\ Acquires(p)
             /\ call' = [call EXCEPT ![c] = [@ EXCEPT !.at = "discovering",
                                               !.next = After[call[c].at], !.sent = now]]
             /\ UNCHANGED cookie
        ELSE Replies(c) /\ UNCHANGED <<total, inflight>>
     /\ UNCHANGED <<flow, jwks, signing, withdrawn, posts, asserted, now, restarts>>

\* The call has its document, from the network or from the cache.
Discovered(c, at) ==
  /\ \/ call[c].at = at
     \/ /\ call[c].at \in DOMAIN After /\ After[call[c].at] = at
        /\ Fresh(discovery, call[c].provider)
  /\ discovery' = IF call[c].at = at THEN discovery ELSE Looked(discovery, call[c].provider)

DiscoveryArrives(c) ==
  /\ call[c].at = "discovering"
  /\ Releases(call[c].provider)
  /\ \E ttl \in 1..CacheTtl : discovery' = Stored(discovery, call[c].provider, None, ttl)
  /\ Goes(c, call[c].next)
  /\ UNCHANGED <<flow, cookie, jwks, signing, withdrawn, posts, asserted, now, restarts>>

\* Any request may fail or time out; its slot is given back.
RequestFails(c) ==
  /\ InFlight(c)
  /\ Releases(call[c].provider)
  /\ Replies(c)
  /\ UNCHANGED <<flow, discovery, jwks, signing, withdrawn, posts, asserted,
                 now, restarts>>

-----------------------------------------------------------------------------
(* Beginning a flow.                                                       *)

Begin(c, b, p) ==
  /\ call[c] = Idle
  /\ call' = [call EXCEPT ![c] = Request(b, p, None, None)]
  /\ UNCHANGED <<flow, cookie, discovery, jwks, total, inflight, signing, withdrawn, posts,
                 asserted, now, restarts>>

Rows(table) == {f \in Flows : table[f].status \in {"open", "claimed", "consumed"}}

\* The insert first deletes what has expired; when it is refused, at the limit
\* or for want of a step-up proof, the deletion is rolled back with it.  The
\* reply gives the browser its cookie.
Create(c) ==
  LET swept == [f \in Flows |-> IF f \in Rows(flow) /\ flow[f].expires <= now
                                THEN [flow[f] EXCEPT !.status = "gone"] ELSE flow[f]]
      b == call[c].browser
  IN /\ Discovered(c, "create")
     /\ \/ /\ Cardinality(Rows(swept)) < MaxRecords
           /\ \E f \in Flows :
                /\ flow[f] = Absent /\ \A g \in Flows : flow[g] = Absent => f <= g
                /\ flow' = [swept EXCEPT ![f] =
                     [status |-> "open", provider |-> call[c].provider, browser |-> b,
                      expires |-> now + FlowTtl]]
                /\ cookie' = [cookie EXCEPT ![b] = f]
        \/ UNCHANGED <<flow, cookie>>
     /\ Ends(c)
     /\ UNCHANGED <<jwks, total, inflight, signing, withdrawn, posts, asserted,
                    now, restarts>>

-----------------------------------------------------------------------------
(* The callback.                                                           *)

\* A browser brings any state and code it was sent to; the cookie must agree.
Callback(c, b, p, f, g) ==
  /\ call[c] = Idle /\ flow[f] # Absent /\ flow[g] # Absent
  /\ IF cookie[b] = f
     THEN call' = [call EXCEPT ![c] = Request(b, p, f, g)] /\ UNCHANGED cookie
     ELSE cookie' = [cookie EXCEPT ![b] = None] /\ UNCHANGED call
  /\ UNCHANGED <<flow, discovery, jwks, total, inflight, signing, withdrawn, posts, asserted,
                 now, restarts>>

\* A variant of Claimable: a flow that is under way may be claimed again.
ClaimableAgain(c) ==
  LET row == flow[call[c].flow]
  IN row.status \in {"open", "claimed"} /\ row.provider = call[c].provider /\ row.expires > now

Claimable(c) ==
  LET row == flow[call[c].flow]
  IN row.status = "open" /\ row.provider = call[c].provider /\ row.expires > now

Claim(c) ==
  /\ call[c].at = "claim"
  /\ IF Claimable(c)
     THEN /\ flow' = [flow EXCEPT ![call[c].flow].status = "claimed"]
          /\ Goes(c, "claimed") /\ UNCHANGED cookie
     ELSE Replies(c) /\ UNCHANGED flow
  /\ UNCHANGED <<discovery, jwks, total, inflight, signing, withdrawn, posts, asserted,
                 now, restarts>>

PostCode(c) ==
  /\ Discovered(c, "exchange")
  /\ Sends(c, "posting")
  /\ posts' = IF MayAcquire(call[c].provider)
              THEN [posts EXCEPT ![call[c].flow] = @ + 1] ELSE posts
  /\ UNCHANGED <<flow, jwks, signing, withdrawn, asserted, now, restarts>>

\* The token carries the nonce of the code's flow; any key the provider ever
\* had may have signed it.
TokenArrives(c) ==
  /\ call[c].at = "posting"
  /\ Releases(call[c].provider)
  /\ \E k \in 1..signing[call[c].provider] :
       GoesWith(c, "exchanged", k, FALSE)
  /\ UNCHANGED <<flow, cookie, discovery, jwks, signing, withdrawn, posts, asserted,
                 now, restarts>>

\* verifyWithKeys: with another key than the token's, one forced look follows.
VerifiesWith(c, key) ==
  IF key = call[c].key /\ call[c].code = call[c].flow
  THEN Goes(c, "complete") /\ UNCHANGED cookie
  ELSE IF key = call[c].key \/ call[c].forced THEN Replies(c)
  ELSE GoesWith(c, "keyless", call[c].key, TRUE) /\ UNCHANGED cookie

\* jwks not forced: what is cached verifies at once.
Verify(c) ==
  LET p == call[c].provider
  IN /\ Discovered(c, "verify")
     /\ jwks' = Looked(jwks, p)
     /\ IF Fresh(jwks, p) THEN VerifiesWith(c, Entry(jwks, p).value)
                          ELSE Goes(c, "keyless") /\ UNCHANGED cookie
     /\ UNCHANGED <<flow, total, inflight, signing, withdrawn, posts, asserted, now, restarts>>

FetchKeys(c) ==
  /\ Discovered(c, "fetch")
  /\ Sends(c, "fetching")
  /\ UNCHANGED <<flow, jwks, signing, withdrawn, posts, asserted, now, restarts>>

\* The answer is what the provider published at some moment since it was asked.
KeysArrive(c) ==
  LET p == call[c].provider
  IN /\ call[c].at = "fetching"
     /\ Releases(p)
     /\ \E k \in call[c].since..signing[p], ttl \in 1..CacheTtl :
          jwks' = Stored(jwks, p, k, ttl) /\ VerifiesWith(c, k)
     /\ UNCHANGED <<flow, discovery, signing, withdrawn, posts, asserted, now, restarts>>

\* An expired row still completes unless an insert has deleted it.
Complete(c) ==
  LET f == call[c].flow
  IN /\ call[c].at = "complete"
     /\ IF flow[f].status = "claimed"
        THEN /\ flow' = [flow EXCEPT ![f].status = "consumed"]
             /\ asserted' = [asserted EXCEPT
                  ![f] = Append(@, [browser |-> call[c].browser, code |-> call[c].code])]
        ELSE UNCHANGED <<flow, asserted>>
     /\ Replies(c)
     /\ UNCHANGED <<discovery, jwks, total, inflight, signing, withdrawn, posts,
                    now, restarts>>

-----------------------------------------------------------------------------
(* The provider, the clock and the process.                                *)

\* External: the provider signs with a new key and stops publishing the old one.
RotateKey(p) ==
  /\ signing[p] < MaxKey
  /\ signing' = [signing EXCEPT ![p] = @ + 1]
  /\ withdrawn' = [withdrawn EXCEPT ![p][signing[p]] = now]
  /\ UNCHANGED <<flow, cookie, call, discovery, jwks, total, inflight, posts, asserted,
                 now, restarts>>

\* The client destroys a request at its timeout, so none is older than that.
Tick ==
  /\ now < MaxTime /\ \A c \in Calls : InFlight(c) => now < call[c].sent + Timeout
  /\ now' = now + 1
  /\ UNCHANGED <<flow, cookie, call, discovery, jwks, total, inflight, signing, withdrawn,
                 posts, asserted, restarts>>

\* What is in memory is lost; the table and the browsers' cookies are not.
Restart ==
  /\ restarts < MaxRestarts
  /\ restarts' = restarts + 1
  /\ call' = [c \in Calls |-> Idle]
  /\ discovery' = <<>> /\ jwks' = <<>> /\ total' = 0 /\ inflight' = [p \in Providers |-> 0]
  /\ UNCHANGED <<flow, cookie, signing, withdrawn, posts, asserted, now>>

\* A step of a sign-in through one of these providers.
SignsIn(through) ==
  \/ \E c \in Calls :
       \/ \E b \in Browsers, p \in through :
            Begin(c, b, p) \/ \E f, g \in Flows : Callback(c, b, p, f, g)
       \/ Discover(c) \/ DiscoveryArrives(c) \/ RequestFails(c) \/ Create(c)
       \/ Claim(c) \/ PostCode(c) \/ TokenArrives(c) \/ Verify(c)
       \/ FetchKeys(c) \/ KeysArrive(c) \/ Complete(c)
  \/ \E p \in through : RotateKey(p)

Next == SignsIn(Providers) \/ Tick \/ Restart

Spec == Init /\ [][Next]_oidcVars

-----------------------------------------------------------------------------
(* Properties.                                                             *)

\* A flow presents one code and ends in at most one assertion, for the
\* authorization it began and the browser that began it; table and limiter
\* stay within their limits and the limiter counts what is under way
\* (oidcFlow.ts claim, complete, insert; inflightLimiter.ts).
FlowsUsedOnce ==
  /\ \A f \in Flows :
       /\ posts[f] <= 1 /\ Len(asserted[f]) <= 1
       /\ \A i \in DOMAIN asserted[f] :
            asserted[f][i] = [browser |-> flow[f].browser, code |-> f]
  /\ Cardinality(Rows(flow)) <= MaxRecords
  /\ total <= MaxInflight /\ total = Cardinality({c \in Calls : InFlight(c)})
  /\ \A p \in Providers :
       /\ inflight[p] <= MaxPerProvider
       /\ inflight[p] = Cardinality({c \in Calls : InFlight(c) /\ call[c].provider = p})

\* A token is never accepted by a key that its provider stopped publishing
\* longer ago than the caches and one request can reach back, even when
\* concurrent fetches store their answers out of order (oidcTrust.ts jwks).
TrustEnds ==
  [][\A c \in Calls :
       call'[c].at = "complete" /\ call[c].at # "complete" =>
         now < withdrawn[call[c].provider][call[c].key] + CacheTtl + Timeout
         \/ signing[call[c].provider] = call[c].key]_oidcVars
=============================================================================
